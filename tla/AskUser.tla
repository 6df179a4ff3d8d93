------------------------------ MODULE AskUser -------------------------------
(***************************************************************************)
(* The questions that the Claude process of one session asks its user: the *)
(* ask_user tool in the MCP child process, BridgeClient.call with its      *)
(* timeout and its one resend, the bridge handler of the ask_user          *)
(* extension, core/pending.py, and the ways a Telegram user answers.       *)
(*                                                                         *)
(* The child process is synchronous: it asks one question at a time.  Each *)
(* request that reaches the main process has an entry of its own in the    *)
(* PendingStore; a resend after a restart makes a second one.              *)
(*                                                                         *)
(* The core may kill Claude, and the child with it, while its question is  *)
(* open: at a timeout, before the next prompt or by the Ctrl-C of a stop.  *)
(* Nothing tells the PendingStore: the question of the dead child stays    *)
(* until its timer ends it, and the child of the next run may ask another. *)
(*                                                                         *)
(* Time passes in ticks.  The timer of the child starts with the call, the *)
(* timer of the store when the question has been delivered.                *)
(***************************************************************************)
EXTENDS Naturals, FiniteSets

CONSTANTS
    Questions,
    NoRequest,
    Timeout,        \* ASK_USER_TIMEOUT, the timeout of the store
    Slack,          \* what the child adds to it
    DeliverBound,   \* the longest time deliver() takes to return
    MaxRestarts     \* bound: restarts of the main process

ASSUME AskAssumption ==
    /\ {Timeout, Slack, DeliverBound, MaxRestarts} \subseteq Nat
    /\ Timeout > 0 /\ Slack > 0

Requests == Questions \X {0, 1}
ASSUME NoRequestAssumption == NoRequest \notin Requests

VARIABLES
    client,     \* outcome of each question in the child process
    attempt,    \* 1 once the call was resent
    age,        \* ticks since the request was sent
    kind,       \* text | options
    handler,    \* _bridge_handler of each request: none|deliver|wait|done|lost
    fut,        \* entry.future: none | pending | answered | cancelled
    clock,      \* ticks the handler has spent in its present stage
    awaiting,   \* _awaiting_text_answer of the session
    restarts,
    \* History:
    told,       \* requests whose user has read "Answer sent"
    stopped,    \* requests that cancel_for_session cancelled
    slow,       \* requests whose delivery took as long as the slack
    late        \* requests whose timer won against a future that was done

history == <<told, stopped, slow, late>>
vars == <<client, attempt, age, kind, handler, fut, clock, awaiting, restarts, history>>

Outcomes == {"answered", "timedout", "cancelled", "error", "gaveup", "killed"}

Init ==
    /\ client = [q \in Questions |-> "new"]
    /\ attempt = [q \in Questions |-> 0]
    /\ age = [q \in Questions |-> 0]
    /\ kind \in [Questions -> {"text", "options"}]
    /\ handler = [r \in Requests |-> "none"]
    /\ fut = [r \in Requests |-> "none"]
    /\ clock = [r \in Requests |-> 0]
    /\ awaiting = NoRequest
    /\ restarts = 0
    /\ told = {} /\ stopped = {} /\ slow = {} /\ late = {}

\* The entries of the store.
Entries == {r \in Requests : handler[r] \in {"deliver", "wait"}}
Pending == {r \in Entries : fut[r] = "pending"}

-----------------------------------------------------------------------------
(* The child process and the bridge handler.                               *)

\* The request arrives: register() and the start of deliver(), which notes a
\* question without buttons before it sends the message.  At any time one child
\* of the session lives, and it asks one question at a time.
Ask(q) ==
    /\ client[q] = "new"
    /\ \A other \in Questions : client[other] # "waiting"
    /\ client' = [client EXCEPT ![q] = "waiting"]
    /\ handler' = [handler EXCEPT ![<<q, 0>>] = "deliver"]
    /\ fut' = [fut EXCEPT ![<<q, 0>>] = "pending"]
    /\ awaiting' = IF kind[q] = "text" THEN <<q, 0>> ELSE awaiting
    /\ UNCHANGED <<attempt, age, kind, clock, restarts, history>>

\* deliver() returns and wait() starts the timer of the store.
Delivered(r) ==
    /\ handler[r] = "deliver"
    /\ handler' = [handler EXCEPT ![r] = "wait"]
    /\ clock' = [clock EXCEPT ![r] = 0]
    /\ UNCHANGED <<client, attempt, age, kind, fut, awaiting, restarts, history>>

\* wait() returns or raises, the entry is popped, and the child reads the
\* response if it still waits for this one.
Respond(r, outcome) ==
    /\ handler' = [handler EXCEPT ![r] = "done"]
    /\ client' = IF client[r[1]] = "waiting" /\ attempt[r[1]] = r[2]
                 THEN [client EXCEPT ![r[1]] = outcome] ELSE client
    /\ UNCHANGED <<attempt, age, kind, fut, clock, awaiting, restarts, told, stopped, slow>>

Wake(r) ==
    /\ handler[r] = "wait"
    /\ fut[r] \in {"answered", "cancelled"}
    /\ Respond(r, fut[r])
    /\ UNCHANGED late

\* The timer cancels the waiting task; if the future was done but the task not
\* yet resumed, wait_for of Python 3.12 still raises TimeoutError.
StoreTimesOut(r) ==
    /\ handler[r] = "wait"
    /\ clock[r] = Timeout
    /\ Respond(r, "timedout")
    /\ late' = IF fut[r] = "pending" THEN late ELSE late \cup {r}

\* Mutant: both timers have the same length.
ClientGivesUp_NoSlack(q) ==
    /\ client[q] = "waiting"
    /\ age[q] = Timeout
    /\ client' = [client EXCEPT ![q] = "gaveup"]
    /\ UNCHANGED <<attempt, age, kind, handler, fut, clock, awaiting, restarts, history>>

\* The child's own timer: it closes the socket and tells Claude the same.
ClientGivesUp(q) ==
    /\ client[q] = "waiting"
    /\ age[q] = Timeout + Slack
    /\ client' = [client EXCEPT ![q] = "gaveup"]
    /\ UNCHANGED <<attempt, age, kind, handler, fut, clock, awaiting, restarts, history>>

\* Claude is killed while its child waits.  The request has been read, so the
\* handler, its entry and the awaited answer do not notice.
ChildKilled(q) ==
    /\ client[q] = "waiting"
    /\ client' = [client EXCEPT ![q] = "killed"]
    /\ UNCHANGED <<attempt, age, kind, handler, fut, clock, awaiting, restarts, history>>

-----------------------------------------------------------------------------
(* The user.                                                               *)

\* Mutant: the user reads "Answer sent" whatever resolve() returned.
Resolve_Confirmed(r) ==
    /\ fut' = IF r \in Pending THEN [fut EXCEPT ![r] = "answered"] ELSE fut
    /\ told' = told \cup {r}

Resolve(r) ==
    IF r \in Pending
    THEN fut' = [fut EXCEPT ![r] = "answered"] /\ told' = told \cup {r}
    ELSE UNCHANGED <<fut, told>>

\* A button of a question, which stays in the chat.
PressOption(r) ==
    /\ handler[r] # "none"
    /\ kind[r[1]] = "options"
    /\ Resolve(r)
    /\ UNCHANGED <<client, attempt, age, kind, handler, clock, awaiting, restarts,
                   stopped, slow, late>>

\* "Other..." on a question the store still knows.
PressOther(r) ==
    /\ r \in Entries
    /\ kind[r[1]] = "options"
    /\ awaiting' = r
    /\ UNCHANGED <<client, attempt, age, kind, handler, fut, clock, restarts, history>>

\* A chat message while an answer is awaited: consumed even if too late.
TypeAnswer ==
    /\ awaiting # NoRequest
    /\ awaiting' = NoRequest
    /\ Resolve(awaiting)
    /\ UNCHANGED <<client, attempt, age, kind, handler, clock, restarts,
                   stopped, slow, late>>

\* Mutant: a question whose message is being sent is left alone.
StopQuestions_Delivered ==
    /\ fut' = [r \in Requests |-> IF r \in Pending /\ handler[r] = "wait" THEN "cancelled"
                                                                        ELSE fut[r]]
    /\ stopped' = stopped \cup Pending
    /\ awaiting' = NoRequest
    /\ UNCHANGED <<client, attempt, age, kind, handler, clock, restarts, told, slow, late>>

\* /stop.
StopQuestions ==
    /\ fut' = [r \in Requests |-> IF r \in Pending THEN "cancelled" ELSE fut[r]]
    /\ stopped' = stopped \cup Pending
    /\ awaiting' = NoRequest
    /\ UNCHANGED <<client, attempt, age, kind, handler, clock, restarts, told, slow, late>>

-----------------------------------------------------------------------------
(* The main process restarts: store, handlers and the noted questions are   *)
(* gone.  A waiting call is resent once; it fails if that happened before,  *)
(* or if the new server or the ask_user handler is not there yet.           *)

Restart ==
    /\ restarts < MaxRestarts
    /\ restarts' = restarts + 1
    /\ LET waiting == {q \in Questions : client[q] = "waiting"}
       IN \E resent \in SUBSET {q \in waiting : attempt[q] = 0} :
            /\ client' = [q \in Questions |-> IF q \in waiting \ resent THEN "error"
                                                                        ELSE client[q]]
            /\ attempt' = [q \in Questions |-> IF q \in resent THEN 1 ELSE attempt[q]]
            /\ age' = [q \in Questions |-> IF q \in resent THEN 0 ELSE age[q]]
            /\ handler' = [r \in Requests |->
                              CASE r[1] \in resent /\ r[2] = 1 -> "deliver"
                                [] r \in Entries -> "lost"
                                [] OTHER -> handler[r]]
            /\ fut' = [r \in Requests |-> IF r[1] \in resent /\ r[2] = 1 THEN "pending"
                                                                        ELSE fut[r]]
            /\ \/ awaiting' = NoRequest
               \/ \E q \in resent : kind[q] = "text" /\ awaiting' = <<q, 1>>
    /\ UNCHANGED <<kind, clock, history>>

\* Time passes while no timer is due and no task is ready to run.
Tick ==
    /\ Entries # {} \/ \E q \in Questions : client[q] = "waiting"
    /\ \A q \in Questions : client[q] = "waiting" => age[q] < Timeout + Slack
    /\ \A r \in Entries : \/ handler[r] = "deliver" /\ clock[r] < DeliverBound
                          \/ handler[r] = "wait" /\ clock[r] < Timeout /\ fut[r] = "pending"
    /\ age' = [q \in Questions |-> IF client[q] = "waiting" THEN age[q] + 1 ELSE age[q]]
    /\ clock' = [r \in Requests |-> IF r \in Entries THEN clock[r] + 1 ELSE clock[r]]
    /\ slow' = slow \cup {r \in Entries : handler[r] = "deliver" /\ clock[r] + 1 >= Slack}
    /\ UNCHANGED <<client, attempt, kind, handler, fut, awaiting, restarts,
                   told, stopped, late>>

System ==
    \/ \E r \in Requests : Delivered(r) \/ Wake(r) \/ StoreTimesOut(r)
    \/ \E q \in Questions : ClientGivesUp(q)
    \/ Tick

User ==
    \/ \E r \in Requests : PressOption(r) \/ PressOther(r)
    \/ TypeAnswer \/ StopQuestions

Next == (\E q \in Questions : Ask(q) \/ ChildKilled(q)) \/ System \/ User \/ Restart

Spec == Init /\ [][Next]_vars

\* Timers fire, deliver() returns and ready tasks run; the user may never act.
FairSpec == Spec /\ WF_vars(System)

-----------------------------------------------------------------------------
(* Properties.                                                             *)

\* A user who read "Answer sent" gave an answer that Claude received, unless
\* the main process died in between or Claude itself was killed: else an answer
\* is lost only in one of two races, with a timer of the same turn of the event
\* loop or with a child that has given up because the delivery was slow.
AnswerReachesClaude ==
    \A r \in told \ (slow \cup late) :
        handler[r] = "done" => client[r[1]] \in {"answered", "killed"}

\* /stop ends every question of the session, also one whose message is still
\* being sent: but for the same races Claude is told that it was cancelled,
\* unless the stop, or another kill, has ended Claude itself.
StopEndsQuestions ==
    \A r \in stopped \ (slow \cup late) :
        handler[r] = "done" => client[r[1]] \in {"cancelled", "killed"}

\* Of the questions whose child still lives or was answered, the user never
\* faces two open ones, of which a typed answer could reach the wrong one,
\* unless the delivery of one was slow.  The question of a killed child is the
\* exception in the code, too: it stays open beside the next run's question.
OneOpenQuestion ==
    \A r, s \in Entries \ slow :
        client[r[1]] # "killed" /\ client[s[1]] # "killed" => r = s

=============================================================================

-------------------------------- MODULE Stream --------------------------------
(***************************************************************************)
(* How the Telegram frontend shows what claude writes, in its `edit` mode: *)
(* text is buffered, and a timer or the end of the prompt flushes it into  *)
(* a live message, which is sent once and then edited, until it is too     *)
(* long and the next one begins.                                           *)
(*                                                                         *)
(* The worker of the session delivers one event at a time and waits for    *)
(* Telegram; the timer's flush waits for it on its own, so that two        *)
(* requests may be under way.  Text is a sequence of pieces, numbered as   *)
(* they come; one session.                                                 *)
(***************************************************************************)
EXTENDS Naturals, Sequences, SequencesExt, FiniteSets

CONSTANTS
    MaxPieces, MaxPrompts,  \* pieces of text and prompts in a behaviour
    Limit,                  \* pieces that a message holds
    MaxFailures             \* requests to Telegram that fail in a behaviour

ASSUME StreamAssumption ==
    /\ MaxPieces \in Nat /\ MaxPrompts \in Nat /\ Limit \in Nat \ {0} /\ MaxFailures \in Nat

VARIABLES
    came,       \* pieces that came so far
    origin,     \* the prompt of each
    parts,      \* text_parts
    live, rendered, msg,    \* live_text, rendered_live_text, live_message_id (0: None)
    timer,      \* flush_task, while it sleeps
    flights,    \* the requests that Telegram has not answered
    stage,      \* of the worker: idle | running | failed | stopping | final | footer
    prompt,     \* number of prompts so far
    epoch,      \* number of buffers that are gone
    chat,       \* the messages, each the pieces it shows
    failures,
    \* History:
    unfinished, \* the prompts that were stopped or ended by an exception
    calm,       \* no request failed, and no two were under way at once
    cut         \* a new message was begun without the text that was not shown yet

vars == <<came, origin, parts, live, rendered, msg, timer, flights, stage, prompt, epoch,
          chat, failures, unfinished, calm, cut>>
buffer == <<parts, live, rendered, msg, timer>>
input == <<came, origin, prompt>>

Kinds == {"send", "edit", "footer"}

Init ==
    /\ came = 0 /\ origin = <<>>
    /\ parts = <<>> /\ live = <<>> /\ rendered = <<>> /\ msg = 0 /\ timer = FALSE
    /\ flights = {} /\ stage = "idle" /\ prompt = 0 /\ epoch = 0
    /\ chat = <<>> /\ failures = 0
    /\ unfinished = {} /\ calm = TRUE /\ cut = FALSE

-----------------------------------------------------------------------------
(* Flushing.                                                               *)

Awaited(by) == \E f \in flights : f.by = by

\* A request to Telegram: a new message, or new contents for message `to`.
Request(by, kind, to, content, fresh) ==
    /\ flights' = flights \cup {[by |-> by, kind |-> kind, to |-> to, content |-> content,
                                 fresh |-> fresh, epoch |-> epoch]}
    /\ calm' = (calm /\ flights = {})

\* _unsent_live_delta.
Unsent(text) == IF rendered # <<>> /\ IsPrefix(rendered, text)
                  THEN SubSeq(text, Len(rendered) + 1, Len(text)) ELSE text

\* Mutant: a new message starts with the whole text again.
Continuation_Whole(fresh, text) == text

\* What a new live message starts with when the old one is given up.
Continuation(fresh, text) == IF fresh # <<>> THEN fresh ELSE Unsent(text)

\* Mutant: the buffered text stays in the buffer.
Buffered_Kept == parts

\* What the buffer holds after a flush took it.
Buffered == <<>>

\* _stream_edit_flush up to its first await.  The timer's own does nothing if
\* no text came since, even if it is the retry of an edit that was too early.
Flush(by, force) ==
    LET fresh == parts
        text == live \o fresh
        more == Continuation(fresh, text)
        nothing == UNCHANGED <<flights, calm, cut, live, rendered, msg>>
    IN
    IF (~force /\ fresh = <<>>) \/ text = <<>>
      THEN timer' = FALSE /\ UNCHANGED parts /\ nothing
      ELSE
        /\ parts' = Buffered
        /\ CASE msg = 0 ->
                  /\ live' = text /\ timer' = FALSE
                  /\ Request(by, "send", 0, text, fresh)
                  /\ UNCHANGED <<rendered, msg, cut>>
             [] msg # 0 /\ Len(text) >= Limit ->
                  /\ timer' = FALSE
                  /\ IF more = <<>>
                       THEN live' = text /\ UNCHANGED <<rendered, msg, flights, calm, cut>>
                       ELSE /\ live' = more /\ rendered' = <<>> /\ msg' = 0
                            /\ cut' = (cut \/ (fresh # <<>> /\ rendered # live))
                            /\ Request(by, "send", 0, more, fresh)
             [] OTHER ->
                  /\ live' = text
                  /\ \/ /\ timer' = FALSE
                        /\ Request(by, "edit", msg, text, fresh)
                     \/ \* too soon after the last edit: a retry is scheduled; while
                        \* a request is awaited only if another was made meanwhile
                        /\ ~force /\ timer' = TRUE
                        /\ calm' = (calm /\ flights = {})
                        /\ UNCHANGED flights
                  /\ UNCHANGED <<rendered, msg, cut>>

TimerFires ==
    /\ timer
    /\ Flush("timer", FALSE)
    /\ UNCHANGED <<input, stage, epoch, chat, failures, unfinished>>

-----------------------------------------------------------------------------
(* What the worker delivers.                                               *)

\* The next prompt finds the buffer as the one before left it.
Begin ==
    /\ stage \in {"idle", "failed"} /\ prompt < MaxPrompts
    /\ prompt' = prompt + 1 /\ stage' = "running"
    /\ UNCHANGED <<came, origin, buffer, flights, epoch, chat, failures, unfinished, calm, cut>>

Text ==
    /\ stage = "running" /\ came < MaxPieces
    /\ came' = came + 1 /\ origin' = Append(origin, prompt)
    /\ parts' = Append(parts, came + 1)
    /\ timer' = TRUE
    /\ UNCHANGED <<live, rendered, msg, flights, stage, prompt, epoch, chat, failures,
                   unfinished, calm, cut>>

\* An exception ends the prompt in the worker (session.py:743): no final event
\* comes, and the buffer stays with its timer.
PromptFails ==
    /\ stage = "running" /\ stage' = "failed"
    /\ unfinished' = unfinished \cup {prompt}
    /\ UNCHANGED <<input, buffer, flights, epoch, chat, failures, calm, cut>>

\* The end of the prompt, by itself or by /stop: the buffer is flushed, ...
End(how) ==
    /\ stage = "running"
    /\ stage' = how
    /\ unfinished' = IF how = "stopping" THEN unfinished \cup {prompt} ELSE unfinished
    /\ Flush("worker", TRUE)
    /\ UNCHANGED <<input, epoch, chat, failures>>

\* ... and the timer cancelled; a stopped prompt leaves the buffer there, ...
Stopped ==
    /\ stage = "stopping" /\ ~Awaited("worker")
    /\ timer' = FALSE /\ stage' = "idle"
    /\ UNCHANGED <<input, parts, live, rendered, msg, flights, epoch, chat, failures,
                   unfinished, calm, cut>>

\* ... a finished one gets its cost appended to the live message, ...
CostFooter ==
    /\ stage = "final" /\ ~Awaited("worker")
    /\ stage' = "footer"
    /\ IF msg # 0 THEN Request("worker", "footer", msg, live, <<>>)
                  ELSE UNCHANGED <<flights, calm>>
    /\ UNCHANGED <<input, buffer, epoch, chat, failures, unfinished, cut>>

\* Mutant: the buffer of a finished prompt is used by the next.
NextMessage_Same == msg

\* ... and its buffer goes.
NextMessage == 0

Close ==
    /\ stage = "footer" /\ ~Awaited("worker")
    /\ msg' = NextMessage
    /\ live' = IF msg' = 0 THEN <<>> ELSE live
    /\ parts' = <<>> /\ rendered' = <<>> /\ timer' = FALSE
    /\ epoch' = epoch + 1 /\ stage' = "idle"
    /\ UNCHANGED <<input, flights, chat, failures, unfinished, calm, cut>>

-----------------------------------------------------------------------------
(* What Telegram answers.                                                  *)

Shown(f) == IF f.kind = "send" THEN Append(chat, f.content) ELSE [chat EXCEPT ![f.to] = f.content]

\* The request is carried out.  The buffer of a finished prompt is gone.
Answered(f) ==
    /\ flights' = flights \ {f}
    /\ chat' = Shown(f)
    /\ IF f.epoch # epoch THEN UNCHANGED <<live, rendered, msg>>
       ELSE CASE f.kind = "send" ->
                   live' = f.content /\ rendered' = f.content /\ msg' = Len(chat) + 1
              [] f.kind = "edit" -> rendered' = live /\ UNCHANGED <<live, msg>>
              [] OTHER -> msg' = 0 /\ UNCHANGED <<live, rendered>>
    /\ UNCHANGED <<input, parts, timer, stage, epoch, failures, unfinished, calm, cut>>

\* A failed send, or an edit that fails otherwise than by a timeout.
Failed(f) ==
    /\ failures < MaxFailures /\ failures' = failures + 1
    /\ flights' = flights \ {f} /\ calm' = FALSE
    /\ UNCHANGED <<input, buffer, stage, epoch, chat, unfinished, cut>>

\* An edit that is not answered in time, carried out or not, is followed by a
\* new message with the text it added.
EditTimedOut(f) ==
    /\ f.kind = "edit" /\ failures < MaxFailures /\ failures' = failures + 1
    /\ chat' \in {chat, Shown(f)}
    /\ calm' = FALSE
    /\ LET more == IF f.epoch = epoch THEN Continuation(f.fresh, live) ELSE f.fresh IN
         /\ flights' = (flights \ {f}) \cup
              {[f EXCEPT !.kind = "send", !.to = 0, !.content = m] : m \in {more} \ {<<>>}}
         /\ IF more = <<>> \/ f.epoch # epoch
              THEN UNCHANGED <<live, rendered, msg, cut>>
              ELSE /\ live' = more /\ rendered' = <<>> /\ msg' = 0
                   /\ cut' = (cut \/ more # Unsent(live))
    /\ UNCHANGED <<input, parts, timer, stage, epoch, unfinished>>

Next ==
    \/ TimerFires \/ Begin \/ Text \/ PromptFails \/ End("final") \/ End("stopping") \/ Stopped
    \/ CostFooter \/ Close
    \/ \E f \in flights : Answered(f) \/ Failed(f) \/ EditTimedOut(f)

Spec == Init /\ [][Next]_vars

-----------------------------------------------------------------------------
(* Properties.                                                             *)

\* No message shows a piece of text twice, or a later one before an earlier:
\* not even when requests overlap and are answered out of order, or fail.
MessagesInOrder ==
    \A m \in DOMAIN chat : \A i, j \in DOMAIN chat[m] : i < j => chat[m][i] < chat[m][j]

AllText == [i \in 1..came |-> i]

\* If Telegram answers each request before the next is made, then once a
\* prompt has been stopped or answered the messages show all the text, also
\* that of failed prompts before it, each piece once and in order, unless a
\* message was begun without what was not shown yet.
AllShownOnce == stage = "idle" /\ calm /\ ~cut => FlattenSeq(chat) = AllText

\* A message shows the text of one prompt; that of two only if the first was
\* stopped, or ended by an exception.
AnswersApart ==
    \A m \in DOMAIN chat : \A i, j \in ToSet(chat[m]) :
       origin[i] < origin[j] => origin[i] \in unfinished
=============================================================================

---------------------------- MODULE AskUserProofs ----------------------------
(***************************************************************************)
(* Proofs about ask_user, for any questions, any lengths of the two timers *)
(* and of a delivery, and any number of restarts: unless a delivery was    *)
(* slow, the timer of the store ends a question before the child gives up, *)
(* so that of the questions whose child was not killed one is open at a    *)
(* time, and its outcome reaches Claude.                                   *)
(***************************************************************************)
EXTENDS AskUser, TLAPS

AskTypes ==
    /\ client \in [Questions -> {"new", "waiting"} \cup Outcomes]
    /\ attempt \in [Questions -> {0, 1}]
    /\ age \in [Questions -> Nat]
    /\ handler \in [Requests -> {"none", "deliver", "wait", "done", "lost"}]
    /\ fut \in [Requests -> {"none", "pending", "answered", "cancelled"}]
    /\ clock \in [Requests -> Nat]
    /\ told \subseteq Requests /\ stopped \subseteq Requests

\* The child asks one question at a time.
OneWaits == \A p, q \in Questions : client[p] = "waiting" /\ client[q] = "waiting" => p = q

\* What was not sent yet has left no trace in the main process.
Unsent(q) ==
    /\ client[q] = "new" => attempt[q] = 0 /\ age[q] = 0 /\ handler[<<q, 0>>] = "none"
    /\ attempt[q] = 0 => handler[<<q, 1>>] = "none"

Untouched(r) == handler[r] = "none" => fut[r] = "none" /\ clock[r] = 0

\* The two timers: the child is ahead of the store by the time that delivery
\* took, which is less than the slack, unless it was killed.
InTime(r) ==
    handler[r] \in {"deliver", "wait"} /\ r \notin slow /\ client[r[1]] # "killed" =>
        /\ client[r[1]] = "waiting" /\ attempt[r[1]] = r[2]
        /\ handler[r] = "deliver" => age[r[1]] = clock[r] /\ clock[r] < Slack
        /\ handler[r] = "wait" => age[r[1]] < clock[r] + Slack /\ clock[r] <= Timeout

\* A future is set once, and its outcome is what the child reads if it lives.
Settled(r) ==
    /\ r \in told => fut[r] = "answered"
    /\ r \in stopped => fut[r] = "cancelled"
    /\ handler[r] = "done" /\ r \notin slow \cup late =>
         /\ r \in told => client[r[1]] \in {"answered", "killed"}
         /\ r \in stopped => client[r[1]] \in {"cancelled", "killed"}

AskInv ==
    /\ AskTypes /\ OneWaits
    /\ \A q \in Questions : Unsent(q)
    /\ \A r \in Requests : Untouched(r) /\ InTime(r) /\ Settled(r)

Promised(r) == Untouched(r) /\ InTime(r) /\ Settled(r)

LEMMA Pairs ==
    /\ \A r \in Requests : r[1] \in Questions /\ r[2] \in {0, 1} /\ r = <<r[1], r[2]>>
    /\ \A q \in Questions, a \in {0, 1} :
         <<q, a>> \in Requests /\ <<q, a>>[1] = q /\ <<q, a>>[2] = a
BY DEF Requests

LEMMA InitAsk == Init => AskInv
<1> SUFFICES ASSUME Init PROVE AskInv
  OBVIOUS
<1>1. AskTypes /\ OneWaits
  BY DEF Init, AskTypes, OneWaits
<1>2. ASSUME NEW q \in Questions PROVE Unsent(q)
  BY Pairs DEF Init, Unsent
<1>3. ASSUME NEW r \in Requests PROVE Promised(r)
  BY DEF Init, Promised, Untouched, InTime, Settled
<1> QED
  BY <1>1, <1>2, <1>3 DEF AskInv, Promised

-----------------------------------------------------------------------------
(* The user: futures are set, and nothing else moves.                      *)

LEMMA UserStep ==
    ASSUME AskInv, User
    PROVE  AskInv'
<1>1. UNCHANGED <<client, attempt, age, handler, clock, slow, late>>
  BY DEF User, PressOption, PressOther, TypeAnswer, StopQuestions, history
<1>2. ASSUME NEW r \in Requests
      PROVE  \/ fut'[r] = fut[r] /\ (r \in told' <=> r \in told) /\ (r \in stopped' <=> r \in stopped)
             \/ r \in Pending /\ fut'[r] = "answered" /\ r \in told' /\ (r \in stopped' <=> r \in stopped)
             \/ r \in Pending /\ fut'[r] = "cancelled" /\ r \in stopped' /\ (r \in told' <=> r \in told)
  <2>1. CASE StopQuestions
    BY <2>1 DEF StopQuestions
  <2>2. ASSUME NEW s, Resolve(s), UNCHANGED stopped
        PROVE  \/ fut'[r] = fut[r] /\ (r \in told' <=> r \in told) /\ (r \in stopped' <=> r \in stopped)
               \/ r \in Pending /\ fut'[r] = "answered" /\ r \in told' /\ (r \in stopped' <=> r \in stopped)
    BY <2>2 DEF Resolve, AskInv, AskTypes
  <2> QED
    BY <2>1, <2>2 DEF User, PressOption, PressOther, TypeAnswer, history
<1>3. fut' \in [Requests -> {"none", "pending", "answered", "cancelled"}]
  BY DEF User, PressOption, PressOther, TypeAnswer, StopQuestions, Resolve, history, AskInv, AskTypes
<1>4. told' \subseteq Requests /\ stopped' \subseteq Requests
  BY DEF User, PressOption, PressOther, TypeAnswer, StopQuestions, Resolve, Pending, Entries, history,
         AskInv, AskTypes
<1>5. AskTypes' /\ OneWaits' /\ \A q \in Questions : Unsent(q)'
  BY <1>1, <1>3, <1>4 DEF AskInv, AskTypes, OneWaits, Unsent
<1>6. ASSUME NEW r \in Requests PROVE Promised(r)'
  <2>1. Untouched(r) /\ InTime(r) /\ Settled(r)
    BY DEF AskInv
  <2>2. r \in Pending => handler[r] \in {"deliver", "wait"} /\ fut[r] = "pending"
    BY DEF Pending, Entries
  <2>3. Untouched(r)'
    BY <1>1, <1>2, <2>1, <2>2 DEF Untouched
  <2>4. InTime(r)'
    BY <1>1, <2>1 DEF InTime
  <2>5. Settled(r)'
    BY <1>1, <1>2, <2>1, <2>2 DEF Settled
  <2> QED
    BY <2>3, <2>4, <2>5 DEF Promised
<1> QED
  BY <1>5, <1>6 DEF AskInv, Promised

-----------------------------------------------------------------------------
(* The child process and the handlers.                                     *)

LEMMA AskStep ==
    ASSUME AskInv, NEW q \in Questions, Ask(q)
    PROVE  AskInv'
<1>1. AskTypes'
  BY Pairs DEF Ask, history, AskInv, AskTypes
<1>2. /\ client[q] = "new" /\ client'[q] = "waiting" /\ attempt[q] = 0 /\ age[q] = 0
      /\ handler[<<q, 0>>] = "none" /\ handler[<<q, 1>>] = "none"
      /\ handler'[<<q, 0>>] = "deliver" /\ fut'[<<q, 0>>] = "pending"
      /\ UNCHANGED <<attempt, age, clock, told, stopped, slow, late>>
  BY Pairs DEF Ask, history, AskInv, AskTypes, Unsent
<1>3. /\ \A p \in Questions \ {q} : client'[p] = client[p] /\ client[p] # "waiting"
      /\ \A r \in Requests \ {<<q, 0>>} : handler'[r] = handler[r] /\ fut'[r] = fut[r]
  BY DEF Ask, AskInv, AskTypes
<1>4. OneWaits'
  BY <1>2, <1>3 DEF OneWaits
<1>5. ASSUME NEW p \in Questions PROVE Unsent(p)'
  <2>1. CASE p = q
    BY <1>2, <1>3, <2>1, Pairs DEF Unsent
  <2>2. CASE p # q
    BY <1>2, <1>3, <2>2, Pairs DEF Unsent, AskInv
  <2> QED
    BY <2>1, <2>2
<1>6. ASSUME NEW r \in Requests PROVE Promised(r)'
  <2>1. Untouched(r) /\ InTime(r) /\ Settled(r)
    BY DEF AskInv
  <2>2. CASE r = <<q, 0>>
    <3>1. fut[r] = "none" /\ clock[r] = 0
      BY <1>2, <2>1, <2>2 DEF Untouched
    <3> QED
      BY <1>2, <2>1, <2>2, <3>1, Pairs, AskAssumption DEF Promised, Untouched, InTime, Settled
  <2>3. CASE r = <<q, 1>>
    <3>1. handler'[r] = "none" /\ fut'[r] = fut[r]
      BY <1>2, <1>3, <2>3
    <3> QED
      BY <1>2, <2>1, <2>3, <3>1 DEF Promised, Untouched, InTime, Settled
  <2>4. CASE r[1] # q
    <3>1. handler'[r] = handler[r] /\ fut'[r] = fut[r] /\ client'[r[1]] = client[r[1]]
      BY <1>3, <2>4, Pairs
    <3> QED
      BY <1>2, <2>1, <3>1 DEF Promised, Untouched, InTime, Settled
  <2> QED
    BY <2>2, <2>3, <2>4, Pairs
<1> QED
  BY <1>1, <1>4, <1>5, <1>6 DEF AskInv, Promised

LEMMA DeliveredStep ==
    ASSUME AskInv, NEW r \in Requests, Delivered(r)
    PROVE  AskInv'
<1>1. AskTypes' /\ OneWaits'
  BY DEF Delivered, history, AskInv, AskTypes, OneWaits
<1>2. /\ handler[r] = "deliver" /\ handler'[r] = "wait" /\ clock'[r] = 0
      /\ \A s \in Requests \ {r} : handler'[s] = handler[s] /\ clock'[s] = clock[s]
      /\ UNCHANGED <<client, attempt, age, fut, told, stopped, slow, late>>
  BY DEF Delivered, history, AskInv, AskTypes
<1>3. ASSUME NEW q \in Questions PROVE Unsent(q)'
  BY <1>2, Pairs DEF Unsent, AskInv
<1>4. ASSUME NEW s \in Requests PROVE Promised(s)'
  <2>1. Untouched(s) /\ InTime(s) /\ Settled(s)
    BY DEF AskInv
  <2>2. CASE s = r
    BY <1>2, <2>1, <2>2, Pairs, AskAssumption DEF Promised, Untouched, InTime, Settled, AskInv, AskTypes
  <2>3. CASE s # r
    BY <1>2, <2>1, <2>3 DEF Promised, Untouched, InTime, Settled
  <2> QED
    BY <2>2, <2>3
<1> QED
  BY <1>1, <1>3, <1>4 DEF AskInv, Promised

\* What the child of a question in time is told is what ended the question.
LEMMA RespondStep ==
    ASSUME AskInv, NEW r \in Requests, NEW o \in Outcomes, handler[r] = "wait", Respond(r, o),
           late \subseteq late',
           r \notin late' => (fut[r] = "answered" => o = "answered")
                             /\ (fut[r] = "cancelled" => o = "cancelled")
    PROVE  AskInv'
<1>1. /\ handler'[r] = "done" /\ \A s \in Requests \ {r} : handler'[s] = handler[s]
      /\ UNCHANGED <<attempt, age, fut, clock, told, stopped, slow>>
  BY DEF Respond, AskInv, AskTypes
<1>2. \A q \in Questions : \/ client'[q] = client[q]
                           \/ client[q] = "waiting" /\ q = r[1] /\ client'[q] = o
                              /\ attempt[q] = r[2]
  BY DEF Respond, AskInv, AskTypes
<1>3. client[r[1]] = "waiting" /\ attempt[r[1]] = r[2] => client'[r[1]] = o
  BY Pairs DEF Respond, AskInv, AskTypes
<1>4. "waiting" \notin Outcomes /\ "new" \notin Outcomes
  BY DEF Outcomes
<1>5. AskTypes'
  BY DEF Respond, AskInv, AskTypes
<1>6. OneWaits' /\ \A q \in Questions : Unsent(q)'
  BY <1>1, <1>2, <1>4, Pairs DEF AskInv, OneWaits, Unsent
<1>7. ASSUME NEW s \in Requests PROVE Promised(s)'
  <2>1. Untouched(s) /\ InTime(s) /\ Settled(s)
    BY DEF AskInv
  <2>2. CASE s = r
    <3>1. r \notin slow => client'[r[1]] = o \/ client'[r[1]] = "killed"
      BY <1>2, <1>3, <2>1, <2>2, Pairs DEF InTime
    <3> QED
      BY <1>1, <2>1, <2>2, <3>1 DEF Promised, Untouched, InTime, Settled
  <2>3. CASE s # r
    <3>1. handler'[s] = handler[s] /\ s[1] \in Questions
      BY <1>1, <2>3, Pairs
    <3>2. CASE client'[s[1]] = client[s[1]]
      BY <1>1, <2>1, <3>1, <3>2 DEF Promised, Untouched, InTime, Settled
    <3>3. CASE client[s[1]] = "waiting" /\ s[1] = r[1] /\ attempt[s[1]] = r[2]
      <4>1. s[2] # r[2]
        BY <2>3, <3>3, Pairs
      <4> QED
        BY <1>1, <2>1, <3>1, <3>3, <4>1 DEF Promised, Untouched, InTime, Settled
    <3> QED
      BY <1>2, <3>1, <3>2, <3>3
  <2> QED
    BY <2>2, <2>3
<1> QED
  BY <1>5, <1>6, <1>7 DEF AskInv, Promised

LEMMA WakeStep == ASSUME AskInv, NEW r \in Requests, Wake(r) PROVE AskInv'
<1>1. fut[r] \in Outcomes
  BY DEF Wake, Outcomes
<1> QED
  BY <1>1, RespondStep DEF Wake

LEMMA TimeoutStep == ASSUME AskInv, NEW r \in Requests, StoreTimesOut(r) PROVE AskInv'
<1>1. "timedout" \in Outcomes
  BY DEF Outcomes
<1>2. r \notin late' => fut[r] = "pending"
  BY DEF StoreTimesOut
<1> QED
  BY <1>1, <1>2, RespondStep DEF StoreTimesOut

\* The timer of the child only fires on a question that was slow.
LEMMA GiveUpStep ==
    ASSUME AskInv, NEW q \in Questions, ClientGivesUp(q)
    PROVE  AskInv'
<1>1. AskTypes'
  BY DEF ClientGivesUp, history, AskInv, AskTypes, Outcomes
<1>2. /\ client[q] = "waiting" /\ client'[q] = "gaveup" /\ age[q] = Timeout + Slack
      /\ \A p \in Questions \ {q} : client'[p] = client[p]
      /\ UNCHANGED <<attempt, age, handler, fut, clock, told, stopped, slow, late>>
  BY DEF ClientGivesUp, history, AskInv, AskTypes
<1>3. OneWaits' /\ \A p \in Questions : Unsent(p)'
  BY <1>2 DEF AskInv, OneWaits, Unsent
<1>4. ASSUME NEW r \in Requests PROVE Promised(r)'
  <2>1. Untouched(r) /\ InTime(r) /\ Settled(r) /\ r[1] \in Questions
    BY Pairs DEF AskInv
  <2>2. CASE r[1] = q
    <3>1. age[q] \in Nat /\ clock[r] \in Nat /\ Timeout \in Nat /\ Slack \in Nat
      BY AskAssumption DEF AskInv, AskTypes
    <3>2. ~(handler[r] \in {"deliver", "wait"} /\ r \notin slow)
      BY <1>2, <2>1, <2>2, <3>1 DEF InTime
    <3> QED
      BY <1>2, <2>1, <2>2, <3>2 DEF Promised, Untouched, InTime, Settled
  <2>3. CASE r[1] # q
    BY <1>2, <2>1, <2>3 DEF Promised, Untouched, InTime, Settled
  <2> QED
    BY <2>2, <2>3
<1> QED
  BY <1>1, <1>3, <1>4 DEF AskInv, Promised

\* A killed child leaves its question to the store.
LEMMA KilledStep ==
    ASSUME AskInv, NEW q \in Questions, ChildKilled(q)
    PROVE  AskInv'
<1>1. AskTypes'
  BY DEF ChildKilled, history, AskInv, AskTypes, Outcomes
<1>2. /\ client[q] = "waiting" /\ client'[q] = "killed"
      /\ \A p \in Questions \ {q} : client'[p] = client[p]
      /\ UNCHANGED <<attempt, age, handler, fut, clock, told, stopped, slow, late>>
  BY DEF ChildKilled, history, AskInv, AskTypes
<1>3. OneWaits' /\ \A p \in Questions : Unsent(p)'
  BY <1>2 DEF AskInv, OneWaits, Unsent
<1>4. ASSUME NEW r \in Requests PROVE Promised(r)'
  <2>1. Untouched(r) /\ InTime(r) /\ Settled(r) /\ r[1] \in Questions
    BY Pairs DEF AskInv
  <2>2. CASE r[1] = q
    BY <1>2, <2>1, <2>2 DEF Promised, Untouched, InTime, Settled
  <2>3. CASE r[1] # q
    BY <1>2, <2>1, <2>3 DEF Promised, Untouched, InTime, Settled
  <2> QED
    BY <2>2, <2>3
<1> QED
  BY <1>1, <1>3, <1>4 DEF AskInv, Promised

LEMMA TickStep == ASSUME AskInv, Tick PROVE AskInv'
<1>1. AskTypes' /\ UNCHANGED <<client, attempt, handler, fut, told, stopped, late>>
  BY DEF Tick, AskInv, AskTypes
<1>2. OneWaits'
  BY <1>1 DEF AskInv, OneWaits
<1>3. ASSUME NEW q \in Questions PROVE Unsent(q)'
  <2>1. client[q] = "new" => age'[q] = age[q]
    BY DEF Tick
  <2> QED
    BY <1>1, <2>1 DEF AskInv, Unsent
<1>4. ASSUME NEW r \in Requests PROVE Promised(r)'
  <2>1. Untouched(r) /\ InTime(r) /\ Settled(r) /\ r[1] \in Questions
    BY Pairs DEF AskInv
  <2>2. slow \subseteq slow'
    BY DEF Tick
  <2>3. CASE r \notin Entries
    <3>1. clock'[r] = clock[r]
      BY <2>3 DEF Tick
    <3> QED
      BY <1>1, <2>1, <2>2, <2>3, <3>1 DEF Promised, Untouched, InTime, Settled, Entries
  <2>4. CASE r \in Entries
    <3>1. /\ clock'[r] = clock[r] + 1
          /\ client[r[1]] = "waiting" => age'[r[1]] = age[r[1]] + 1
          /\ handler[r] = "deliver" /\ r \notin slow' => clock[r] + 1 < Slack
          /\ handler[r] = "wait" => clock[r] < Timeout
      <4>1. clock[r] \in Nat /\ Slack \in Nat
        BY AskAssumption DEF AskInv, AskTypes
      <4> QED
        BY <2>1, <2>4, <4>1 DEF Tick
    <3>2. age[r[1]] \in Nat /\ clock[r] \in Nat /\ Timeout \in Nat /\ Slack \in Nat
      BY <2>1, AskAssumption DEF AskInv, AskTypes
    <3>3. InTime(r)'
      BY <1>1, <2>1, <2>2, <3>1, <3>2 DEF InTime
    <3> QED
      BY <1>1, <2>1, <2>2, <2>4, <3>3 DEF Promised, Untouched, Settled, Entries
  <2> QED
    BY <2>3, <2>4
<1> QED
  BY <1>1, <1>2, <1>3, <1>4 DEF AskInv, Promised

-----------------------------------------------------------------------------
(* Restarts.                                                               *)

\* A restart leaves no entry but that of the question sent again.
LEMMA RestartStep == ASSUME AskInv, Restart PROVE AskInv'
<1> DEFINE waiting == {q \in Questions : client[q] = "waiting"}
<1>1. PICK resent \in SUBSET {q \in waiting : attempt[q] = 0} :
        /\ client' = [q \in Questions |-> IF q \in waiting \ resent THEN "error" ELSE client[q]]
        /\ attempt' = [q \in Questions |-> IF q \in resent THEN 1 ELSE attempt[q]]
        /\ age' = [q \in Questions |-> IF q \in resent THEN 0 ELSE age[q]]
        /\ handler' = [r \in Requests |->
                         CASE r[1] \in resent /\ r[2] = 1 -> "deliver"
                           [] r \in Entries -> "lost"
                           [] OTHER -> handler[r]]
        /\ fut' = [r \in Requests |-> IF r[1] \in resent /\ r[2] = 1 THEN "pending" ELSE fut[r]]
  BY DEF Restart
<1>2. UNCHANGED <<clock, told, stopped, slow, late>>
  BY DEF Restart, history
<1> HIDE DEF waiting
<1>3. \A q \in resent : q \in waiting /\ attempt[q] = 0
  OBVIOUS
<1>4. \A q \in Questions : q \in waiting <=> client[q] = "waiting"
  BY DEF waiting
<1>5. AskTypes'
  <2>1. client' \in [Questions -> {"new", "waiting"} \cup Outcomes]
    BY <1>1 DEF AskInv, AskTypes, Outcomes
  <2>2. attempt' \in [Questions -> {0, 1}] /\ age' \in [Questions -> Nat]
    BY <1>1 DEF AskInv, AskTypes
  <2>3. handler' \in [Requests -> {"none", "deliver", "wait", "done", "lost"}]
    BY <1>1 DEF AskInv, AskTypes
  <2>4. fut' \in [Requests -> {"none", "pending", "answered", "cancelled"}]
    BY <1>1 DEF AskInv, AskTypes
  <2> QED
    BY <1>2, <2>1, <2>2, <2>3, <2>4 DEF AskTypes, AskInv
<1>6. OneWaits'
  BY <1>1 DEF AskInv, OneWaits
<1>7. ASSUME NEW q \in Questions PROVE Unsent(q)'
  <2>1. Unsent(q)
    BY DEF AskInv
  <2>2. CASE q \in resent
    BY <1>1, <1>3, <1>4, <2>2 DEF Unsent
  <2>3. CASE q \notin resent
    <3>1. /\ attempt'[q] = attempt[q] /\ age'[q] = age[q]
          /\ client'[q] = "new" => client[q] = "new"
      BY <1>1, <2>3
    <3>2. \A a \in {0, 1} : handler[<<q, a>>] = "none" => handler'[<<q, a>>] = "none"
      BY <1>1, <2>3, Pairs DEF Entries
    <3> QED
      BY <2>1, <3>1, <3>2 DEF Unsent
  <2> QED
    BY <2>2, <2>3
<1>8. ASSUME NEW r \in Requests PROVE Promised(r)'
  <2>1. Untouched(r) /\ InTime(r) /\ Settled(r) /\ Unsent(r[1]) /\ r[1] \in Questions /\ r[2] \in {0, 1}
    BY Pairs DEF AskInv
  <2>2. CASE r[1] \in resent /\ r[2] = 1
    <3>1. handler[r] = "none" /\ fut[r] = "none" /\ clock[r] = 0
      BY <1>3, <2>1, <2>2, Pairs DEF Unsent, Untouched
    <3>2. r \notin Entries
      BY <3>1 DEF Entries
    <3>3. handler'[r] = "deliver"
      BY <1>1, <2>2, <3>2
    <3>4. fut'[r] = "pending" /\ attempt'[r[1]] = 1 /\ age'[r[1]] = 0
      BY <1>1, <2>1, <2>2
    <3>5. client'[r[1]] = "waiting"
      BY <1>1, <1>3, <1>4, <2>1, <2>2
    <3> QED
      BY <1>2, <2>1, <2>2, <3>1, <3>3, <3>4, <3>5, AskAssumption
         DEF Promised, Untouched, InTime, Settled
  <2>3. CASE ~(r[1] \in resent /\ r[2] = 1)
    <3>1. fut'[r] = fut[r] /\ handler'[r] = IF r \in Entries THEN "lost" ELSE handler[r]
      BY <1>1, <2>3
    <3>2. client[r[1]] # "waiting" => client'[r[1]] = client[r[1]]
      BY <1>1, <1>4, <2>1
    <3> QED
      BY <1>2, <2>1, <3>1, <3>2 DEF Promised, Untouched, InTime, Settled, Entries
  <2> QED
    BY <2>2, <2>3
<1> QED
  BY <1>5, <1>6, <1>7, <1>8 DEF AskInv, Promised

-----------------------------------------------------------------------------

LEMMA NextAsk == ASSUME AskInv, [Next]_vars PROVE AskInv'
<1>1. CASE UNCHANGED vars
  BY <1>1 DEF vars, history, AskInv, AskTypes, OneWaits, Unsent, Untouched, InTime, Settled
<1>2. CASE System
  BY <1>2, DeliveredStep, WakeStep, TimeoutStep, GiveUpStep, TickStep DEF System
<1> QED
  BY <1>1, <1>2, AskStep, KilledStep, UserStep, RestartStep DEF Next

LEMMA QuestionsAreTracked == Spec => []AskInv
<1>1. AskInv /\ [Next]_vars => AskInv'
  BY NextAsk
<1> QED
  BY InitAsk, <1>1, PTL DEF Spec

\* A confirmed answer reaches Claude (PendingStore.resolve, wait and the
\* timeouts of ask_user) if Claude was not killed, however long the timers are.
THEOREM AnswersReachClaude == Spec => []AnswerReachesClaude
<1>1. AskInv => AnswerReachesClaude
  BY DEF AskInv, AskTypes, Settled, AnswerReachesClaude
<1> QED
  BY QuestionsAreTracked, <1>1, PTL

\* What /stop cancelled is reported as cancelled (cancel_for_session) to a
\* Claude that still lives.
THEOREM StopsReachClaude == Spec => []StopEndsQuestions
<1>1. AskInv => StopEndsQuestions
  BY DEF AskInv, AskTypes, Settled, StopEndsQuestions
<1> QED
  BY QuestionsAreTracked, <1>1, PTL

\* Of the questions that were delivered in time, and whose child no one killed,
\* one at most is open: the store forgets a question before the child of the
\* same run, or of the next, can ask another.
THEOREM OneQuestionIsOpen == Spec => []OneOpenQuestion
<1>1. AskInv => OneOpenQuestion
  <2> SUFFICES ASSUME AskInv, NEW r \in Entries \ slow, NEW s \in Entries \ slow,
                      client[r[1]] # "killed", client[s[1]] # "killed"
               PROVE  r = s
    BY DEF OneOpenQuestion
  <2>1. /\ r \in Requests /\ client[r[1]] = "waiting" /\ attempt[r[1]] = r[2]
        /\ s \in Requests /\ client[s[1]] = "waiting" /\ attempt[s[1]] = s[2]
    BY DEF AskInv, InTime, Entries
  <2>2. r[1] = s[1] /\ r[2] = s[2]
    BY <2>1, Pairs DEF AskInv, OneWaits
  <2> QED
    BY <2>1, <2>2, Pairs
<1> QED
  BY QuestionsAreTracked, <1>1, PTL
=============================================================================

---------------------------- MODULE SessionProofs ----------------------------
(***************************************************************************)
(* Proofs about one session, for any set of prompts, any number of chunks, *)
(* of crashes and of failures.  First what SessionManager keeps while the  *)
(* process runs: type correctness, the inductive invariant SessionInv, and *)
(* the safety properties and the refinement that follow from it.  Then     *)
(* what SessionRecovery keeps across restarts: --session-id is used for    *)
(* one run, state.json is current whoever wrote it last, and a run is      *)
(* reported to the user once.                                              *)
(***************************************************************************)
EXTENDS SessionRecovery, SequenceTheorems, TLAPS

-----------------------------------------------------------------------------
(* Sequences as queues.                                                    *)

\* The elements of a queue after put().
LEMMA RangeOfAppend ==
    ASSUME NEW S, NEW q \in Seq(S), NEW e \in S
    PROVE  /\ Append(q, e) \in Seq(S)
           /\ Range(Append(q, e)) = Range(q) \cup {e}
           /\ Append(q, e) # <<>>
<1>1. /\ Append(q, e) \in Seq(S)
      /\ Len(Append(q, e)) = Len(q) + 1
      /\ DOMAIN Append(q, e) = 1..(Len(q) + 1)
      /\ DOMAIN q = 1..Len(q)
      /\ Len(q) \in Nat
      /\ \A i \in 1..Len(q) : Append(q, e)[i] = q[i]
      /\ Append(q, e)[Len(q) + 1] = e
  BY AppendProperties, LenProperties
<1>2. Range(Append(q, e)) = Range(q) \cup {e}
  BY <1>1 DEF Range
<1>3. QED
  BY <1>1, <1>2, EmptySeq

\* The elements of a queue after get().
LEMMA RangeOfTail ==
    ASSUME NEW S, NEW q \in Seq(S), q # <<>>
    PROVE  /\ Head(q) \in S /\ Tail(q) \in Seq(S)
           /\ Range(q) = Range(Tail(q)) \cup {Head(q)}
<1>1. /\ Head(q) \in S /\ Tail(q) \in Seq(S)
      /\ Len(Tail(q)) = Len(q) - 1
      /\ \A i \in 1..Len(Tail(q)) : Tail(q)[i] = q[i + 1]
      /\ Head(q) = q[1]
      /\ DOMAIN q = 1..Len(q)
      /\ DOMAIN Tail(q) = 1..(Len(q) - 1)
      /\ Len(q) \in Nat \ {0}
  BY HeadTailProperties, LenProperties, EmptySeq
<1>2. ASSUME NEW x \in Range(q)
      PROVE  x \in Range(Tail(q)) \cup {Head(q)}
  <2>1. PICK i \in 1..Len(q) : x = q[i]
    BY <1>1, <1>2 DEF Range
  <2>2. CASE i = 1
    BY <1>1, <2>1, <2>2
  <2>3. CASE i # 1
    <3>1. i - 1 \in 1..(Len(q) - 1) /\ Tail(q)[i - 1] = q[i]
      BY <1>1, <2>1, <2>3
    <3>2. QED
      BY <1>1, <2>1, <3>1 DEF Range
  <2>4. QED
    BY <2>2, <2>3
<1>3. Range(Tail(q)) \cup {Head(q)} \subseteq Range(q)
  BY <1>1 DEF Range
<1>4. QED
  BY <1>1, <1>2, <1>3

\* A queue without duplicates keeps none of what get() took.
LEMMA DistinctTail ==
    ASSUME NEW S, NEW q \in Seq(S), q # <<>>,
           \A i, j \in DOMAIN q : q[i] = q[j] => i = j
    PROVE  /\ Head(q) \notin Range(Tail(q))
           /\ \A i, j \in DOMAIN Tail(q) : Tail(q)[i] = Tail(q)[j] => i = j
<1>1. /\ Len(Tail(q)) = Len(q) - 1
      /\ \A i \in 1..Len(Tail(q)) : Tail(q)[i] = q[i + 1]
      /\ Head(q) = q[1]
      /\ DOMAIN q = 1..Len(q)
      /\ DOMAIN Tail(q) = 1..(Len(q) - 1)
      /\ Len(q) \in Nat \ {0}
  BY HeadTailProperties, LenProperties, EmptySeq
<1>2. \A i \in DOMAIN Tail(q) : i + 1 \in DOMAIN q /\ i + 1 # 1 /\ Tail(q)[i] = q[i + 1]
  BY <1>1
<1>3. 1 \in DOMAIN q
  BY <1>1
<1>4. Head(q) \notin Range(Tail(q))
  BY <1>1, <1>2, <1>3 DEF Range
<1>5. ASSUME NEW i \in DOMAIN Tail(q), NEW j \in DOMAIN Tail(q), Tail(q)[i] = Tail(q)[j]
      PROVE  i = j
  <2>1. i + 1 = j + 1
    BY <1>2, <1>5
  <2>2. QED
    BY <1>1, <2>1
<1>6. QED
  BY <1>4, <1>5

\* put() of a new element leaves a queue without duplicates.
LEMMA DistinctAppend ==
    ASSUME NEW S, NEW q \in Seq(S), NEW e \in S, e \notin Range(q),
           \A i, j \in DOMAIN q : q[i] = q[j] => i = j
    PROVE  \A i, j \in DOMAIN Append(q, e) : Append(q, e)[i] = Append(q, e)[j] => i = j
<1>1. /\ DOMAIN Append(q, e) = 1..(Len(q) + 1)
      /\ DOMAIN q = 1..Len(q)
      /\ Len(q) \in Nat
      /\ \A i \in 1..Len(q) : Append(q, e)[i] = q[i]
      /\ Append(q, e)[Len(q) + 1] = e
      /\ Len(Append(q, e)) = Len(q) + 1
      /\ Append(q, e) \in Seq(S)
  BY AppendProperties, LenProperties
<1>2. \A i \in 1..Len(q) : q[i] # e
  BY <1>1 DEF Range
<1>3. \A i \in DOMAIN Append(q, e) : i \in 1..Len(q) \/ i = Len(q) + 1
  BY <1>1
<1>4. QED
  BY <1>1, <1>2, <1>3

-----------------------------------------------------------------------------
(* Type correctness.                                                       *)

LEMMA NoStreamType == NoStream \in [of: Prompts \cup {NoPrompt}, len: 0..MaxChunks]
  BY ConstantsAssumption DEF NoStream

LEMMA InitType == Init => TypeOK
<1> SUFFICES ASSUME Init
             PROVE  TypeOK
  OBVIOUS
<1>1. queue \in Seq(Prompts)
  BY EmptySeq DEF Init
<1>2. texts \in [Prompts -> Seq(Chunks)] /\ final \in [Prompts -> Seq(Outcomes)]
  BY EmptySeq DEF Init
<1>3. QED
  BY <1>1, <1>2, NoStreamType DEF Init, TypeOK, Statuses, WorkerStages, Working

\* A final event is appended to the finals of a prompt.
LEMMA DeliverType ==
    ASSUME TypeOK, NEW outcome \in Outcomes, Deliver(outcome)
    PROVE  final' \in [Prompts -> Seq(Outcomes)]
<1>1. ASSUME NEW p \in Prompts
      PROVE  Append(final[p], outcome) \in Seq(Outcomes)
  BY AppendProperties DEF TypeOK
<1>2. QED
  BY <1>1 DEF TypeOK, Deliver

LEMMA NextType == TypeOK /\ [Next]_vars => TypeOK'
<1> SUFFICES ASSUME TypeOK, [Next]_vars
             PROVE  TypeOK'
  OBVIOUS
<1> USE ConstantsAssumption DEF Statuses, WorkerStages, Working
<1> USE DEF files, worker, stops, history
<1>1. ASSUME NEW p \in Prompts, SendPrompt(p)
      PROVE  TypeOK'
  <2>1. queue' \in Seq(Prompts)
    BY <1>1, AppendProperties DEF SendPrompt, ResetStopped, Enqueue, TypeOK
  <2>2. QED
    BY <1>1, <2>1 DEF SendPrompt, ResetStopped, Enqueue, TypeOK, Save
<1>2. CASE StopSession
  BY <1>2, EmptySeq DEF StopSession, Drain, TypeOK, Save
<1>3. CASE DestroySession
  BY <1>3, EmptySeq DEF DestroySession, TypeOK
<1>4. CASE TakePrompt
  <2>1. queue' \in Seq(Prompts) /\ Head(queue) \in Prompts
    BY <1>4, RangeOfTail DEF TakePrompt, Skips, TypeOK
  <2>2. QED
    BY <1>4, <2>1 DEF TakePrompt, Skips, TypeOK
<1>5. CASE KillOrphan
  BY <1>5 DEF KillOrphan, TypeOK
<1>6. CASE BeginPrompt
  <2>1. stream' \in [of: Prompts \cup {NoPrompt}, len: 0..MaxChunks]
    BY <1>6, NoStreamType DEF BeginPrompt, UnlinkArtifacts
  <2>2. cur' \in Prompts
    BY <1>6 DEF BeginPrompt, PaneIsFree, UnlinkArtifacts, TypeOK
  <2>3. exitcode' \in BOOLEAN
    BY <1>6, Zenon DEF BeginPrompt, UnlinkArtifacts
  <2>4. count' \in Nat
    BY <1>6 DEF BeginPrompt, PaneIsFree, UnlinkArtifacts, TypeOK
  <2>5. QED
    BY <1>6, <2>1, <2>2, <2>3, <2>4 DEF BeginPrompt, PaneIsFree, UnlinkArtifacts, TypeOK
<1>7. CASE WriteScripts
  BY <1>7 DEF WriteScripts, TypeOK, Save
<1>8. CASE Launch
  BY <1>8 DEF Launch, TypeOK
<1>9. CASE ReadChunk
  <2>1. pos + 1 \in Chunks
    BY <1>9 DEF ReadChunk, Forward, TypeOK, Chunks
  <2>2. \A p \in Prompts : Append(texts[p], pos + 1) \in Seq(Chunks)
    BY <2>1, AppendProperties DEF TypeOK
  <2>3. texts' \in [Prompts -> Seq(Chunks)]
    BY <1>9, <2>2 DEF ReadChunk, Forward, TypeOK
  <2>4. QED
    BY <1>9, <2>3 DEF ReadChunk, Forward, TypeOK
<1>10. CASE StreamEnded
  <2>1. final' \in [Prompts -> Seq(Outcomes)]
    BY <1>10, DeliverType DEF StreamEnded, ReportStopped, ReportResult, Outcomes
  <2>2. QED
    BY <1>10, <2>1 DEF StreamEnded, ReportStopped, ReportResult, Save, TypeOK
<1>11. CASE TimedOut
  <2>1. final' \in [Prompts -> Seq(Outcomes)]
    BY <1>11, DeliverType DEF TimedOut, ReportStopped, Outcomes, TypeOK
  <2>2. QED
    BY <1>11, <2>1 DEF TimedOut, ReportStopped, TypeOK
<1>12. CASE KillTimedOut
  <2>1. final' \in [Prompts -> Seq(Outcomes)]
    BY <1>12, DeliverType DEF KillTimedOut, ReportResult, Outcomes
  <2>2. exitcode' \in BOOLEAN
    BY <1>12 DEF KillTimedOut, TypeOK
  <2>3. QED
    BY <1>12, <2>1, <2>2 DEF KillTimedOut, ReportResult, Save, TypeOK
<1>13. CASE TmuxLost
  <2>1. final' \in [Prompts -> Seq(Outcomes)]
    BY <1>13, DeliverType DEF TmuxLost, Outcomes
  <2>2. QED
    BY <1>13, <2>1 DEF TmuxLost, Save, TypeOK
<1>14. CASE Reported
  BY <1>14 DEF Reported, Save, TypeOK
<1>15. CASE CtrlC
  <2>1. exitcode' \in BOOLEAN /\ pane' \in Prompts \cup {NoPrompt}
    BY <1>15 DEF CtrlC, TypeOK
  <2>2. ctrlcs' \in Nat /\ ensures' \in Nat
    BY <1>15 DEF CtrlC, TypeOK
  <2>3. QED
    BY <1>15, <2>1, <2>2 DEF CtrlC, TypeOK
<1>16. CASE EnsureStopped
  BY <1>16 DEF EnsureStopped, TypeOK
<1>17. CASE RemoveSession
  BY <1>17, NoStreamType DEF RemoveSession, TypeOK
<1>18. CASE ClaudeWrites
  <2>1. stream.len + 1 \in 0..MaxChunks
    BY <1>18 DEF ClaudeWrites, TypeOK
  <2>2. stream' = [of |-> stream.of, len |-> stream.len + 1]
    BY <1>18 DEF ClaudeWrites, TypeOK
  <2>3. stream' \in [of: Prompts \cup {NoPrompt}, len: 0..MaxChunks]
    BY <2>1, <2>2 DEF TypeOK
  <2>4. QED
    BY <1>18, <2>3 DEF ClaudeWrites, TypeOK
<1>19. CASE ClaudeExits
  BY <1>19 DEF ClaudeExits, TypeOK
<1>20. CASE TmuxDies
  BY <1>20 DEF TmuxDies, TypeOK
<1>21. CASE PromptFails
  <2>1. cur \in Prompts /\ ~Working'
    BY <1>21 DEF PromptFails, FailsEarly, FailsAtSave, TypeOK
  <2>2. stream' \in [of: Prompts \cup {NoPrompt}, len: 0..MaxChunks]
    BY <1>21, NoStreamType DEF PromptFails, FailsEarly, FailsAtSave, TypeOK
  <2>3. exitcode' \in BOOLEAN
    BY <1>21 DEF PromptFails, FailsEarly, FailsAtSave, TypeOK
  <2>4. pane' \in Prompts \cup {NoPrompt} /\ status' \in Statuses
    BY <1>21 DEF PromptFails, FailsEarly, FailsAtSave, TypeOK
  <2>5. QED
    BY <1>21, <2>1, <2>2, <2>3, <2>4 DEF PromptFails, TypeOK
<1>22. CASE UNCHANGED vars
  BY <1>22 DEF vars, TypeOK
<1>23. QED
  BY <1>1, <1>2, <1>3, <1>4, <1>5, <1>6, <1>7, <1>8, <1>9, <1>10, <1>11, <1>12,
     <1>13, <1>14, <1>15, <1>16, <1>17, <1>18, <1>19, <1>20, <1>21, <1>22
     DEF Next, Caller, Worker, Background, Environment

\* Every variable keeps its type.
THEOREM TypeCorrect == Spec => []TypeOK
  BY InitType, NextType, PTL DEF Spec

-----------------------------------------------------------------------------
(* The inductive invariant.                                                *)

LEMMA InitInv == Init => SessionInv
<1> SUFFICES ASSUME Init
             PROVE  SessionInv
  OBVIOUS
<1>1. Queued = {} /\ DOMAIN queue = {} /\ queue = <<>>
  BY DEF Init, Queued, Range
<1>2. \A p \in Prompts : Len(final[p]) = 0
  BY EmptySeq DEF Init
<1>3. QED
  BY <1>1, <1>2 DEF Init, SessionInv, PromptInv, QueueInv, WorkerInv, RunInv, HistoryInv,
                    OneFinal, StateFileFresh, NoPromptLost, Working, Committed

\* The first final event of a prompt.
LEMMA Decided ==
    ASSUME TypeOK, cur \in Prompts, final[cur] = <<>>,
           NEW outcome \in Outcomes, Deliver(outcome)
    PROVE  /\ final'[cur] # <<>> /\ Len(final'[cur]) <= 1
           /\ \A p \in Prompts \ {cur} : final'[p] = final[p]
<1>1. final'[cur] = Append(final[cur], outcome)
  BY DEF TypeOK, Deliver
<1>2. final[cur] \in Seq(Outcomes) /\ Len(final[cur]) = 0
  BY EmptySeq DEF TypeOK
<1>3. \A p \in Prompts \ {cur} : final'[p] = final[p]
  BY DEF TypeOK, Deliver
<1>4. QED
  BY <1>1, <1>2, <1>3, AppendProperties

\* state.json: every step that changes the status or the count saves them, but
\* BeginPrompt, PaneIsFree, UnlinkArtifacts, whose save comes after the hooks.
LEMMA StateFileStep == TypeOK /\ StateFileFresh /\ [Next]_vars => StateFileFresh'
<1> SUFFICES ASSUME TypeOK, StateFileFresh, [Next]_vars
             PROVE  StateFileFresh'
  OBVIOUS
<1> USE DEF StateFileFresh, Save, files, worker, stops, history
<1>1. ASSUME Caller
      PROVE  StateFileFresh'
  BY <1>1 DEF Caller, SendPrompt, ResetStopped, Enqueue, StopSession, Drain, DestroySession
<1>2. ASSUME Worker \/ TimedOut
      PROVE  StateFileFresh'
  <2>1. CASE TakePrompt \/ KillOrphan \/ ReadChunk \/ Launch
    BY <2>1 DEF TakePrompt, Skips, KillOrphan, ReadChunk, Forward, Launch
  <2>2. CASE BeginPrompt \/ WriteScripts \/ Reported \/ TmuxLost
    BY <2>2 DEF BeginPrompt, PaneIsFree, UnlinkArtifacts, WriteScripts, Reported, TmuxLost
  <2>3. CASE StreamEnded \/ TimedOut \/ KillTimedOut
    BY <2>3 DEF StreamEnded, TimedOut, KillTimedOut, ReportStopped, ReportResult
  <2>4. QED
    BY <1>2, <2>1, <2>2, <2>3 DEF Worker
<1>3. ASSUME Background \/ Environment
      PROVE  StateFileFresh'
  BY <1>3 DEF Background, Environment, CtrlC, EnsureStopped, RemoveSession,
              ClaudeWrites, ClaudeExits, TmuxDies
<1>4. CASE PromptFails
  BY <1>4 DEF PromptFails
<1>5. CASE UNCHANGED vars
  BY <1>5 DEF vars
<1>6. QED
  BY <1>1, <1>2, <1>3, <1>4, <1>5 DEF Next

\* The pane and the stream of a run: nothing types into a pane but Launch, and
\* BeginPrompt cleared both for it.
LEMMA RunStep == TypeOK /\ RunInv /\ [Next]_vars => RunInv'
<1> SUFFICES ASSUME TypeOK, RunInv, [Next]_vars
             PROVE  RunInv'
  OBVIOUS
<1> USE DEF RunInv, files, worker, stops, history
<1>1. ASSUME Caller
      PROVE  RunInv'
  BY <1>1 DEF Caller, SendPrompt, ResetStopped, Enqueue, StopSession, Drain, DestroySession
<1>2. ASSUME Worker \/ TimedOut
      PROVE  RunInv'
  <2>1. CASE TakePrompt \/ KillOrphan \/ ReadChunk \/ Reported \/ TmuxLost
    BY <2>1 DEF TakePrompt, Skips, KillOrphan, ReadChunk, Forward, Reported, TmuxLost
  <2>2. CASE BeginPrompt \/ WriteScripts
    BY <2>2 DEF BeginPrompt, PaneIsFree, UnlinkArtifacts, WriteScripts
  <2>3. CASE Launch
    BY <2>3 DEF Launch, NoStream
  <2>4. CASE StreamEnded \/ TimedOut \/ KillTimedOut
    BY <2>4 DEF StreamEnded, TimedOut, KillTimedOut, ReportStopped, ReportResult
  <2>5. QED
    BY <1>2, <2>1, <2>2, <2>3, <2>4 DEF Worker
<1>3. ASSUME Background
      PROVE  RunInv'
  <2>1. CASE CtrlC
    BY <2>1 DEF CtrlC
  <2>2. CASE EnsureStopped
    BY <2>2 DEF EnsureStopped
  <2>3. CASE RemoveSession
    BY <2>3 DEF RemoveSession, NoStream
  <2>4. QED
    BY <1>3, <2>1, <2>2, <2>3 DEF Background
<1>4. ASSUME Environment
      PROVE  RunInv'
  <2>1. CASE ClaudeWrites
    <3>1. stream'.of = stream.of /\ pane # NoPrompt
      BY <2>1 DEF ClaudeWrites, TypeOK
    <3>2. QED
      BY <2>1, <3>1 DEF ClaudeWrites
  <2>2. CASE ClaudeExits \/ TmuxDies
    BY <2>2 DEF ClaudeExits, TmuxDies
  <2>3. QED
    BY <1>4, <2>1, <2>2 DEF Environment
<1>5. CASE PromptFails
  BY <1>5 DEF PromptFails
<1>6. CASE UNCHANGED vars
  BY <1>6 DEF vars
<1>7. QED
  BY <1>1, <1>2, <1>3, <1>4, <1>5, <1>6 DEF Next

\* The prompts: an accepted prompt is queued once, passes to the worker, and is
\* decided once.
LEMMA PromptStep == TypeOK /\ PromptInv /\ [Next]_vars => PromptInv'
<1> SUFFICES ASSUME TypeOK, PromptInv, [Next]_vars
             PROVE  PromptInv'
  OBVIOUS
<1> USE DEF files, worker, stops, history
<1> DEFINE Prior == /\ QueueInv /\ WorkerInv /\ HistoryInv /\ OneFinal /\ NoPromptLost
<1>0. Prior
  BY DEF PromptInv
<1>1. ASSUME NEW p \in Prompts, SendPrompt(p)
      PROVE  PromptInv'
  <2>1. queue' = Append(queue, p) /\ queue \in Seq(Prompts) /\ p \notin sent
    BY <1>1 DEF SendPrompt, ResetStopped, Enqueue, TypeOK
  <2>2. Queued' = Queued \cup {p} /\ queue' # <<>>
    BY <2>1, RangeOfAppend DEF Queued
  <2>3. p \notin Queued /\ p \notin launched /\ final[p] = <<>>
    BY <1>0, <2>1 DEF QueueInv, HistoryInv
  <2>4. \A i, j \in DOMAIN queue' : queue'[i] = queue'[j] => i = j
    BY <1>0, <2>1, <2>3, DistinctAppend DEF Queued, QueueInv
  <2>5. QueueInv'
    BY <1>0, <1>1, <2>2, <2>3, <2>4 DEF SendPrompt, ResetStopped, Enqueue, QueueInv
  <2>6. WorkerInv' /\ HistoryInv' /\ OneFinal'
    BY <1>0, <1>1, <2>2 DEF SendPrompt, ResetStopped, Enqueue, WorkerInv, HistoryInv,
                            OneFinal, Working, Committed
  <2>7. NoPromptLost'
    BY <1>0, <1>1, <2>2 DEF SendPrompt, ResetStopped, Enqueue, NoPromptLost, Working
  <2>8. QED
    BY <2>5, <2>6, <2>7 DEF PromptInv
<1>2. CASE StopSession
  <2>1. queue' = <<>> /\ DOMAIN queue' = {} /\ Queued' = {}
    BY <1>2 DEF StopSession, Drain, Queued, Range
  <2>2. QueueInv' /\ WorkerInv' /\ HistoryInv' /\ OneFinal'
    BY <1>0, <1>2, <2>1
       DEF StopSession, Drain, QueueInv, WorkerInv, HistoryInv, OneFinal, Working, Committed
  <2>3. NoPromptLost'
    BY <1>0, <1>2 DEF StopSession, Drain, NoPromptLost, QueueInv, Working
  <2>4. QED
    BY <2>2, <2>3 DEF PromptInv
<1>3. CASE DestroySession
  <2>1. queue' = <<>> /\ DOMAIN queue' = {} /\ Queued' = {}
    BY <1>3 DEF DestroySession, Queued, Range
  <2>2. QED
    BY <1>0, <1>3, <2>1
       DEF DestroySession, PromptInv, QueueInv, WorkerInv, HistoryInv, OneFinal,
           NoPromptLost, Working, Committed
<1>4. CASE TakePrompt
  <2>1. queue' = Tail(queue) /\ queue # <<>> /\ queue \in Seq(Prompts)
    BY <1>4 DEF TakePrompt, Skips, TypeOK
  <2>2. Queued = Queued' \cup {Head(queue)} /\ Head(queue) \notin Queued'
    BY <1>0, <2>1, RangeOfTail, DistinctTail DEF QueueInv, Queued
  <2>3. \A i, j \in DOMAIN queue' : queue'[i] = queue'[j] => i = j
    BY <1>0, <2>1, DistinctTail DEF QueueInv
  <2>4. status # "stopped"
    BY <1>0, <2>1 DEF QueueInv
  <2>5. QueueInv'
    BY <1>0, <1>4, <2>2, <2>3, <2>4 DEF TakePrompt, Skips, QueueInv
  <2>6. WorkerInv'
    BY <1>0, <1>4, <2>2 DEF TakePrompt, Skips, QueueInv, WorkerInv, Working, Committed
  <2>7. HistoryInv' /\ OneFinal'
    BY <1>0, <1>4 DEF TakePrompt, Skips, HistoryInv, OneFinal
  <2>8. NoPromptLost'
    BY <1>0, <1>4, <2>2, <2>4 DEF TakePrompt, Skips, NoPromptLost, Working
  <2>9. QED
    BY <2>5, <2>6, <2>7, <2>8 DEF PromptInv
<1>5. CASE BeginPrompt \/ WriteScripts
  <2>1. /\ UNCHANGED <<life, queue, cur, sent, launched, barred, final, failed>>
        /\ Committed /\ Committed' /\ Working /\ Working'
        /\ status' \in {status, "busy"}
    BY <1>5 DEF BeginPrompt, PaneIsFree, UnlinkArtifacts, WriteScripts, Committed, Working
  <2>2. QED
    BY <1>0, <2>1
       DEF PromptInv, QueueInv, WorkerInv, HistoryInv, OneFinal, NoPromptLost, Queued
<1>6. CASE Launch
  <2>1. Working /\ Working' /\ ~Committed' /\ cur \in sent \ Queued
    BY <1>0, <1>6 DEF Launch, Committed, Working, WorkerInv
  <2>2. QED
    BY <1>0, <1>6, <2>1
       DEF Launch, PromptInv, QueueInv, WorkerInv, HistoryInv, OneFinal, NoPromptLost,
           Queued
<1>7. CASE StreamEnded \/ TimedOut \/ KillTimedOut \/ TmuxLost
  <2>1. /\ UNCHANGED <<life, queue, cur, sent, launched, barred, failed>>
        /\ Working
        /\ status' \in {status, "idle", "dead"}
        /\ status' = "dead" \/ status # "dead" \/ status' = status
    BY <1>0, <1>7
       DEF StreamEnded, TimedOut, KillTimedOut, TmuxLost, ReportStopped, ReportResult,
           Working, Committed, WorkerInv
  <2>2. \/ pc' = "timeout" /\ UNCHANGED <<status, final>> /\ status # "dead"
        \/ pc' = "report" /\ \E outcome \in Outcomes : Deliver(outcome)
    BY <1>7 DEF StreamEnded, TimedOut, KillTimedOut, TmuxLost, ReportStopped,
                ReportResult, Outcomes
  <2>3. cur \in Prompts /\ cur \in sent \ Queued /\ final[cur] = <<>>
    BY <1>0, <2>1 DEF TypeOK, WorkerInv
  <2>4. CASE pc' = "timeout" /\ UNCHANGED <<status, final>> /\ status # "dead"
    <3>1. Working'
      BY <2>4 DEF Working
    <3>2. QED
      BY <1>0, <2>1, <2>3, <2>4, <3>1
         DEF PromptInv, QueueInv, WorkerInv, HistoryInv, OneFinal, NoPromptLost, Queued
  <2>5. CASE pc' = "report" /\ \E outcome \in Outcomes : Deliver(outcome)
    <3>1. /\ final'[cur] # <<>> /\ Len(final'[cur]) <= 1
          /\ \A p \in Prompts \ {cur} : final'[p] = final[p]
      BY <2>3, <2>5, Decided
    <3>2. ~Working' /\ ~Committed' /\ Queued' = Queued
      BY <2>1, <2>5 DEF Working, Committed, Queued
    <3>3. Queued \subseteq Prompts /\ sent \subseteq Prompts
      BY <1>0 DEF QueueInv, TypeOK
    <3>4. QueueInv'
      BY <1>0, <2>1, <2>3, <3>1, <3>2, <3>3 DEF QueueInv
    <3>5. WorkerInv' /\ HistoryInv'
      BY <1>0, <2>1, <2>3, <3>1, <3>2 DEF WorkerInv, HistoryInv
    <3>6. OneFinal'
      BY <1>0, <2>3, <3>1 DEF OneFinal
    <3>7. NoPromptLost'
      BY <1>0, <2>1, <2>3, <3>1, <3>2, <3>3 DEF NoPromptLost
    <3>8. QED
      BY <3>4, <3>5, <3>6, <3>7 DEF PromptInv
  <2>6. QED
    BY <2>2, <2>4, <2>5
<1>8. CASE Reported
  <2>1. ~Working /\ ~Working' /\ ~Committed'
    BY <1>8 DEF Reported, Working, Committed
  <2>2. QED
    BY <1>0, <1>8, <2>1
       DEF Reported, PromptInv, QueueInv, WorkerInv, HistoryInv, OneFinal, NoPromptLost,
           Queued
<1>9. CASE RemoveSession
  <2>1. /\ UNCHANGED <<status, queue, pc, cur, sent, launched, barred, final, failed>>
        /\ life' # "live"
    BY <1>9 DEF RemoveSession
  <2>2. QED
    BY <1>0, <2>1 DEF PromptInv, QueueInv, WorkerInv, HistoryInv, OneFinal, NoPromptLost,
                      Queued, Working, Committed
<1>10. CASE \/ KillOrphan \/ ReadChunk \/ CtrlC \/ EnsureStopped \/ Environment
            \/ UNCHANGED vars
  <2>1. UNCHANGED <<life, status, queue, pc, cur, sent, launched, barred, final, failed>>
    BY <1>10 DEF KillOrphan, ReadChunk, Forward, CtrlC, EnsureStopped, Environment,
                 ClaudeWrites, ClaudeExits, TmuxDies, vars
  <2>2. QED
    BY <1>0, <2>1 DEF PromptInv, QueueInv, WorkerInv, HistoryInv, OneFinal, NoPromptLost,
                      Queued, Working, Committed
<1>11. CASE PromptFails
  <2>1. /\ UNCHANGED <<life, queue, cur, sent, launched, barred, final>>
        /\ failed' = failed \cup {cur} /\ Working /\ ~Working' /\ ~Committed'
        /\ status' = status \/ (status' = "idle" /\ status # "dead")
    BY <1>0, <1>11 DEF PromptFails, FailsEarly, FailsAtSave, Working, Committed, WorkerInv
  <2>2. QED
    BY <1>0, <2>1
       DEF PromptInv, QueueInv, WorkerInv, HistoryInv, OneFinal, NoPromptLost, Queued
<1>12. QED
  BY <1>1, <1>2, <1>3, <1>4, <1>5, <1>6, <1>7, <1>8, <1>9, <1>10, <1>11
     DEF Next, Caller, Worker, Background

\* The inductive invariant of the session.
THEOREM InvariantHolds == Spec => [](TypeOK /\ SessionInv)
<1>1. Init => TypeOK /\ SessionInv
  BY InitType, InitInv
<1>2. TypeOK /\ SessionInv /\ [Next]_vars => (TypeOK /\ SessionInv)'
  BY NextType, StateFileStep, RunStep, PromptStep DEF SessionInv
<1>3. QED
  BY <1>1, <1>2, PTL DEF Spec

-----------------------------------------------------------------------------
(* The safety properties.                                                  *)

\* Unless an exception intervened, a crash at any moment but during the hooks
\* finds the status and the prompt count in state.json.
THEOREM StateFileIsFresh == Spec => []StateFileFresh
  BY InvariantHolds, PTL DEF SessionInv

\* No prompt gets two final events.
THEOREM FinalIsUnique == Spec => []OneFinal
  BY InvariantHolds, PTL DEF SessionInv, PromptInv

\* No accepted prompt disappears without a stop, an exception, a destroy or a death.
THEOREM PromptsAreKept == Spec => []NoPromptLost
  BY InvariantHolds, PTL DEF SessionInv, PromptInv

\* A DEAD session stays DEAD: the worker that checked the status before an
\* await cannot find it DEAD after.
THEOREM DeadStaysDead == Spec => DeadIsFinal
<1>1. TypeOK /\ SessionInv /\ [Next]_vars => [status = "dead" => status' = "dead"]_vars
  <2> SUFFICES ASSUME SessionInv, Next, status = "dead"
               PROVE  status' = "dead"
    OBVIOUS
  <2> USE DEF files, worker, stops, history
  <2>1. ~Committed
    BY DEF SessionInv, PromptInv, WorkerInv
  <2>2. CASE Caller
    BY <2>2 DEF Caller, SendPrompt, ResetStopped, Enqueue, StopSession, Drain,
                DestroySession
  <2>3. CASE Worker \/ TimedOut
    <3>1. ~BeginPrompt /\ ~KillTimedOut
      BY <2>1 DEF BeginPrompt, PaneIsFree, UnlinkArtifacts, KillTimedOut, Committed
    <3>2. QED
      BY <2>3, <3>1
         DEF Worker, TakePrompt, Skips, KillOrphan, WriteScripts, Launch, ReadChunk,
             Forward, StreamEnded, TmuxLost, Reported, TimedOut, ReportStopped
  <2>4. CASE Background \/ Environment
    BY <2>4 DEF Background, Environment, CtrlC, EnsureStopped, RemoveSession, ClaudeWrites,
                ClaudeExits, TmuxDies
  <2>5. CASE PromptFails
    BY <2>1, <2>5 DEF PromptFails, FailsEarly, FailsAtSave, Committed
  <2>6. QED
    BY <2>2, <2>3, <2>4, <2>5 DEF Next
<1>2. QED
  BY <1>1, InvariantHolds, PTL DEF Spec, DeadIsFinal

\* run.sh is typed into a pane that BeginPrompt found empty and nobody filled
\* while the hooks ran.
THEOREM PaneIsCleanAtLaunch == Spec => CleanPaneAtLaunch
<1>1. TypeOK /\ SessionInv /\ [Next]_vars
      => [\A p \in Prompts : pane' = p /\ pane # p => pane = NoPrompt]_vars
  <2> SUFFICES ASSUME SessionInv, Next, NEW p \in Prompts, pane' = p, pane # p
               PROVE  pane = NoPrompt
    OBVIOUS
  <2> USE DEF files, worker, stops, history
  <2>1. pane' # pane /\ pane' # NoPrompt
    BY ConstantsAssumption
  <2>2. CASE Launch
    BY <2>2 DEF Launch, SessionInv, RunInv
  <2>3. CASE Caller \/ TimedOut \/ Background \/ Environment
    BY <2>1, <2>3
       DEF Caller, SendPrompt, ResetStopped, Enqueue, StopSession, Drain, DestroySession,
           TimedOut, Background, Environment, CtrlC, EnsureStopped, RemoveSession,
           ClaudeWrites, ClaudeExits, TmuxDies
  <2>4. CASE Worker /\ ~Launch
    BY <2>1, <2>4
       DEF Worker, TakePrompt, Skips, KillOrphan, BeginPrompt, PaneIsFree,
           UnlinkArtifacts, WriteScripts, ReadChunk, StreamEnded, KillTimedOut, TmuxLost,
           Reported
  <2>5. CASE PromptFails
    BY <2>1, <2>5 DEF PromptFails, FailsEarly, FailsAtSave
  <2>6. QED
    BY <2>2, <2>3, <2>4, <2>5 DEF Next
<1>2. QED
  BY <1>1, InvariantHolds, PTL DEF Spec, CleanPaneAtLaunch

\* No text of a run reaches the frontends after its final event.
THEOREM FinalIsLast == Spec => NothingAfterFinal
<1>1. TypeOK /\ SessionInv /\ [Next]_vars
      => [\A p \in Prompts : final[p] # <<>> => texts'[p] = texts[p]]_vars
  <2> SUFFICES ASSUME TypeOK, SessionInv, Next, NEW p \in Prompts, final[p] # <<>>
               PROVE  texts'[p] = texts[p]
    OBVIOUS
  <2> USE DEF files, worker, stops, history
  <2>1. CASE ReadChunk
    <3>1. stream.of # p
      BY <2>1, ConstantsAssumption
         DEF ReadChunk, Forward, SessionInv, RunInv, PromptInv, WorkerInv, Working
    <3>2. QED
      BY <2>1, <3>1 DEF ReadChunk, Forward, TypeOK
  <2>2. CASE Worker /\ ~ReadChunk
    BY <2>2 DEF Worker, TakePrompt, Skips, KillOrphan, BeginPrompt, PaneIsFree,
                UnlinkArtifacts, WriteScripts, Launch, StreamEnded, KillTimedOut,
                TmuxLost, Reported
  <2>3. CASE Caller \/ TimedOut \/ Background \/ Environment
    BY <2>3
       DEF Caller, SendPrompt, ResetStopped, Enqueue, StopSession, Drain, DestroySession,
           TimedOut, Background, Environment, CtrlC, EnsureStopped, RemoveSession,
           ClaudeWrites, ClaudeExits, TmuxDies
  <2>4. CASE PromptFails
    BY <2>4 DEF PromptFails
  <2>5. QED
    BY <2>1, <2>2, <2>3, <2>4 DEF Next
<1>2. QED
  BY <1>1, InvariantHolds, PTL DEF Spec, NothingAfterFinal

-----------------------------------------------------------------------------
(* An exit code says whose run ended.                                      *)

\* As long as nobody stopped the session no Ctrl-C and no synthetic exit code
\* is under way; then the exit code seen by a run is that of its own process.
ExitInv ==
    /\ status = "busy" => cur # NoPrompt
    /\ halted = {} =>
        /\ ctrlcs = 0 /\ ensures = 0
        /\ pc \in {"hooks", "send"} => ~exitcode
        /\ pc = "stream" /\ exitcode => pane = NoPrompt
        /\ pc = "report" /\ final[cur] = <<"completed">> => pane = NoPrompt

\* A report that is not "completed" leaves no <<"completed">> behind.
LEMMA OtherOutcome ==
    ASSUME TypeOK, cur \in Prompts, final[cur] = <<>>,
           NEW outcome \in Outcomes \ {"completed"}, Deliver(outcome)
    PROVE  final'[cur] # <<"completed">>
<1>1. final'[cur] = <<outcome>>
  BY DEF TypeOK, Deliver
<1> QED
  BY <1>1

LEMMA ExitStep ==
    ASSUME TypeOK, SessionInv, ExitInv, [Next]_vars
    PROVE  ExitInv'
<1> USE DEF ExitInv, files, worker, stops, history
<1>0. Working => cur \in Prompts /\ final[cur] = <<>>
  BY DEF TypeOK, SessionInv, PromptInv, WorkerInv
<1>1. CASE Caller
  <2>1. CASE \E p \in Prompts : SendPrompt(p)
    BY <2>1 DEF SendPrompt, ResetStopped
  <2>2. CASE StopSession
    <3>1. CASE status = "busy"
      <4>1. halted' # {} /\ status' = "stopped"
        BY <2>2, <3>1 DEF StopSession
      <4> QED
        BY <4>1
    <3>2. CASE status # "busy"
      BY <2>2, <3>2 DEF StopSession
    <3> QED
      BY <3>1, <3>2
  <2>3. CASE DestroySession
    BY <2>3 DEF DestroySession
  <2> QED
    BY <1>1, <2>1, <2>2, <2>3 DEF Caller
<1>2. CASE TakePrompt
  <2>1. Head(queue) \in Prompts
    BY <1>2, RangeOfTail DEF TakePrompt, TypeOK
  <2> QED
    BY <1>2, <2>1, ConstantsAssumption DEF TakePrompt
<1>3. CASE KillOrphan \/ WriteScripts \/ ReadChunk \/ Reported
  BY <1>3 DEF KillOrphan, WriteScripts, ReadChunk, Reported
<1>4. CASE BeginPrompt
  BY <1>4, ConstantsAssumption DEF BeginPrompt, UnlinkArtifacts, TypeOK, Working
<1>5. CASE Launch
  BY <1>5 DEF Launch
<1>6. CASE StreamEnded
  <2>1. CASE ReportStopped
    BY <1>0, <1>6, <2>1, OtherOutcome DEF StreamEnded, ReportStopped, Working, Outcomes
  <2>2. CASE ReportResult("completed")
    BY <1>6, <2>2 DEF StreamEnded, ReportResult
  <2> QED
    BY <1>6, <2>1, <2>2 DEF StreamEnded
<1>7. CASE TimedOut
  <2>1. CASE ReportStopped
    BY <1>0, <1>7, <2>1, OtherOutcome DEF TimedOut, ReportStopped, Working, Outcomes
  <2>2. CASE pc' = "timeout" /\ UNCHANGED <<status, disk, final>>
    BY <1>7, <2>2 DEF TimedOut
  <2> QED
    BY <1>7, <2>1, <2>2 DEF TimedOut
<1>8. CASE KillTimedOut
  BY <1>0, <1>8, OtherOutcome DEF KillTimedOut, ReportResult, Working, Outcomes
<1>9. CASE TmuxLost
  BY <1>0, <1>9, OtherOutcome DEF TmuxLost, Working, Outcomes
<1>10. CASE Background
  <2>1. CASE CtrlC
    BY <2>1 DEF CtrlC
  <2>2. CASE EnsureStopped
    BY <2>2 DEF EnsureStopped
  <2>3. CASE RemoveSession
    BY <2>3 DEF RemoveSession
  <2> QED
    BY <1>10, <2>1, <2>2, <2>3 DEF Background
<1>11. CASE Environment
  BY <1>11, ConstantsAssumption
     DEF Environment, ClaudeWrites, ClaudeExits, TmuxDies, SessionInv, RunInv
<1>12. CASE PromptFails
  BY <1>12 DEF PromptFails, FailsEarly, FailsAtSave
<1>13. CASE UNCHANGED vars
  BY <1>13 DEF vars
<1> QED
  BY <1>1, <1>2, <1>3, <1>4, <1>5, <1>6, <1>7, <1>8, <1>9, <1>10, <1>11, <1>12, <1>13
     DEF Next, Worker

\* OwnOutput: the worker reads the output of its own run, and unless somebody
\* called stop_session a run reported completed has left the pane.
THEOREM OutputIsOwn == Spec => []OwnOutput
<1>1. Init => ExitInv
  BY DEF Init, ExitInv
<1>2. TypeOK /\ SessionInv /\ ExitInv /\ [Next]_vars => ExitInv'
  BY ExitStep
<1>3. SessionInv /\ ExitInv => OwnOutput
  BY DEF SessionInv, RunInv, ExitInv, OwnOutput
<1> QED
  BY <1>1, <1>2, <1>3, InvariantHolds, PTL DEF Spec

-----------------------------------------------------------------------------
(* SessionManager implements PromptQueue: every step of the session is a   *)
(* step of the abstract queue or changes nothing of it.                    *)

Current == IF Working THEN cur ELSE NoPrompt

\* The four places a prompt can be in.
FateFacts ==
    \A p \in Prompts :
        /\ p \notin sent => FateOf(p) = "unsent"
        /\ p \in Queued => FateOf(p) = "waiting"
        /\ Working /\ p = cur => FateOf(p) = "running"
        /\ p \in sent \ Queued /\ ~(Working /\ p = cur) =>
              FateOf(p) = IF final[p] = <<>> THEN "dropped" ELSE Head(final[p])

LEMMA FateIs == PromptInv => FateFacts
<1> SUFFICES ASSUME PromptInv, NEW p \in Prompts
             PROVE  /\ p \notin sent => FateOf(p) = "unsent"
                    /\ p \in Queued => FateOf(p) = "waiting"
                    /\ Working /\ p = cur => FateOf(p) = "running"
                    /\ p \in sent \ Queued /\ ~(Working /\ p = cur) =>
                          FateOf(p) = IF final[p] = <<>> THEN "dropped" ELSE Head(final[p])
  BY DEF FateFacts
<1>1. Queued \subseteq sent /\ (Working => cur \in sent \ Queued)
  BY DEF PromptInv, QueueInv, WorkerInv
<1>2. QED
  BY <1>1 DEF FateOf

LEMMA FateIsNext == PromptInv' => FateFacts'
  BY FateIs, PTL

LEMMA InitPromise == Init => Promise!Init
<1> SUFFICES ASSUME Init
             PROVE  Promise!Init
  OBVIOUS
<1>1. Queued = {} /\ ~Working
  BY DEF Init, Queued, Range, Working
<1>2. \A p \in Prompts : FateOf(p) = "unsent"
  BY <1>1 DEF Init, FateOf
<1>3. QED
  BY <1>1, <1>2 DEF Init, Promise!Init

\* A step that moves no prompt.
LEMMA StutterPromise ==
    ASSUME UNCHANGED <<queue, sent, final>>, UNCHANGED <<Working, cur>>,
           (life = "live") = (life = "live")'
    PROVE  UNCHANGED Promise!vars
<1>1. \A p \in Prompts : FateOf(p)' = FateOf(p)
  BY DEF FateOf, Queued
<1>2. QED
  BY <1>1 DEF Promise!vars

\* A final event decides the prompt of the worker, and no other.
LEMMA DecidePromise ==
    ASSUME TypeOK, PromptInv, PromptInv',
           Working, ~Working', NEW outcome \in Outcomes, Deliver(outcome),
           UNCHANGED <<life, queue, cur, sent>>
    PROVE  Promise!Decide(outcome)
<1>1. PICK c \in Prompts : c = cur
  BY DEF TypeOK
<1>2. /\ c # NoPrompt /\ c = cur'
      /\ c \in sent \ Queued /\ final[c] = <<>> /\ Queued' = Queued
  BY <1>1, ConstantsAssumption DEF PromptInv, WorkerInv, Queued
<1>3. final'[c] = <<outcome>>
  BY <1>1, <1>2 DEF TypeOK, Deliver
<1>4. Head(final'[c]) = outcome /\ final'[c] # <<>>
  BY <1>3
<1>5. FateOf(c)' = outcome
  BY <1>2, <1>4, FateIsNext DEF FateFacts
<1>6. ASSUME NEW p \in Prompts, p # c
      PROVE  FateOf(p)' = FateOf(p)
  <2>1. final'[p] = final[p]
    BY <1>1, <1>6 DEF Deliver, TypeOK
  <2>2. QED
    BY <1>1, <1>2, <1>6, <2>1 DEF FateOf
<1>7. [p \in Prompts |-> FateOf(p)]' = [[p \in Prompts |-> FateOf(p)] EXCEPT ![c] = outcome]
  BY <1>5, <1>6
<1>8. QED
  BY <1>1, <1>2, <1>7 DEF Promise!Decide

\* An exception leaves the prompt of the worker without a decision.
LEMMA FailPromise ==
    ASSUME TypeOK, PromptInv, PromptInv',
           Working, ~Working', UNCHANGED <<life, queue, cur, sent, final>>
    PROVE  Promise!Fail
<1>1. PICK c \in Prompts : c = cur
  BY DEF TypeOK
<1>2. /\ c # NoPrompt /\ c = cur'
      /\ c \in sent \ Queued /\ final[c] = <<>> /\ Queued' = Queued
  BY <1>1, ConstantsAssumption DEF PromptInv, WorkerInv, Queued
<1>3. FateOf(c)' = "dropped"
  BY <1>2, FateIsNext DEF FateFacts
<1>4. ASSUME NEW p \in Prompts, p # c
      PROVE  FateOf(p)' = FateOf(p)
  BY <1>1, <1>2, <1>4 DEF FateOf
<1>5. [p \in Prompts |-> FateOf(p)]' = [[p \in Prompts |-> FateOf(p)] EXCEPT ![c] = "dropped"]
  BY <1>3, <1>4
<1>6. QED
  BY <1>1, <1>2, <1>5 DEF Promise!Fail

LEMMA StepPromise ==
    ASSUME TypeOK, PromptInv, TypeOK', PromptInv', [Next]_vars
    PROVE  [Promise!Next]_(Promise!vars)
<1> USE DEF files, worker, stops, history
<1>1. ASSUME NEW p \in Prompts, SendPrompt(p)
      PROVE  Promise!Submit(p)
  <2>1. Queued' = Queued \cup {p} /\ p \notin sent /\ p \notin Queued
    <3>1. queue' = Append(queue, p) /\ queue \in Seq(Prompts) /\ p \notin sent
      BY <1>1 DEF SendPrompt, Enqueue, TypeOK
    <3>2. QED
      BY <3>1, RangeOfAppend DEF Queued, PromptInv, QueueInv
  <2>2. FateOf(p) = "unsent" /\ FateOf(p)' = "waiting"
    BY <2>1, FateIs, FateIsNext DEF FateFacts
  <2>3. ASSUME NEW q \in Prompts, q # p
        PROVE  FateOf(q)' = FateOf(q)
    BY <1>1, <2>1, <2>3 DEF FateOf, SendPrompt, Enqueue, Working
  <2>4. [q \in Prompts |-> FateOf(q)]' = [[q \in Prompts |-> FateOf(q)] EXCEPT ![p] = "waiting"]
    BY <2>2, <2>3
  <2>5. Current' = Current
    BY <1>1 DEF SendPrompt, Enqueue, Current, Working
  <2>6. QED
    BY <1>1, <2>2, <2>4, <2>5 DEF SendPrompt, Enqueue, Promise!Submit, Current
<1>2. CASE StopSession
  <2>1. Queued' = {} /\ Working' = Working
    BY <1>2 DEF StopSession, Drain, Queued, Range, Working
  <2>2. ASSUME NEW p \in Prompts
        PROVE  FateOf(p)' = IF p \in Queued THEN "dropped" ELSE FateOf(p)
    <3>1. CASE p \in Queued
      <4>1. p \in sent' \ Queued' /\ ~(Working /\ p = cur)' /\ final'[p] = <<>>
        BY <1>2, <2>1, <3>1 DEF StopSession, Drain, PromptInv, QueueInv, WorkerInv
      <4>2. QED
        BY <3>1, <4>1, FateIsNext DEF FateFacts
    <3>2. CASE p \notin Queued
      BY <1>2, <2>1, <3>2 DEF FateOf, StopSession
    <3>3. QED
      BY <3>1, <3>2
  <2>3. Promise!Drain
    BY <1>2, <2>1, <2>2 DEF StopSession, Drain, Promise!Drain, Promise!DropAll,
                            Promise!Range, Queued, Range
  <2>4. QED
    BY <2>3 DEF Promise!Next
<1>3. CASE DestroySession
  <2>1. Queued' = {} /\ ~Working' /\ life = "live" /\ life' # "live"
    BY <1>3 DEF DestroySession, Queued, Range, Working
  <2>2. ASSUME NEW p \in Prompts
        PROVE  FateOf(p)' = IF p \in Queued \cup {Current} THEN "dropped" ELSE FateOf(p)
    <3>1. CASE p \in Queued \cup {Current}
      <4>1. p \in sent' \ Queued' /\ final'[p] = <<>>
        BY <1>3, <2>1, <3>1, ConstantsAssumption
           DEF DestroySession, PromptInv, QueueInv, WorkerInv, Current
      <4>2. QED
        BY <2>1, <3>1, <4>1, FateIsNext DEF FateFacts
    <3>2. CASE p \notin Queued \cup {Current}
      BY <1>3, <2>1, <3>2 DEF FateOf, DestroySession, Current
    <3>3. QED
      BY <3>1, <3>2
  <2>3. Promise!Close
    BY <1>3, <2>1, <2>2 DEF DestroySession, Promise!Close, Promise!DropAll,
       Promise!Range, Queued, Range, Current
  <2>4. QED
    BY <2>3 DEF Promise!Next
<1>4. CASE TakePrompt
  <2>0. PICK h \in Prompts : h = Head(queue)
    BY <1>4, RangeOfTail DEF TakePrompt, Skips, TypeOK
  <2>1. /\ h # NoPrompt /\ h \notin Queued'
        /\ Queued = Queued' \cup {h} /\ ~Working
    <3>1. queue' = Tail(queue) /\ queue # <<>> /\ queue \in Seq(Prompts) /\ ~Working
      BY <1>4 DEF TakePrompt, Skips, TypeOK, Working
    <3>2. QED
      BY <2>0, <3>1, RangeOfTail, DistinctTail, ConstantsAssumption
         DEF PromptInv, QueueInv, Queued
  <2>2. h \in sent' /\ final'[h] = <<>>
    BY <1>4, <2>1 DEF TakePrompt, Skips, PromptInv, QueueInv
  <2>3. CASE pc' = "kill"
    <3>1. Working' /\ cur' = h
      BY <1>4, <2>0, <2>3 DEF TakePrompt, Skips, Working
    <3>2. FateOf(h)' = "running"
      BY <3>1, FateIsNext DEF FateFacts
    <3>3. ASSUME NEW p \in Prompts, p # h
          PROVE  FateOf(p)' = FateOf(p)
      BY <1>4, <2>1, <3>1, <3>3 DEF FateOf, TakePrompt
    <3>4. [p \in Prompts |-> FateOf(p)]' = [[p \in Prompts |-> FateOf(p)] EXCEPT ![h] = "running"]
      BY <3>2, <3>3
    <3>5. Promise!Start
      BY <1>4, <2>0, <2>1, <3>1, <3>4 DEF TakePrompt, Skips, Promise!Start
    <3>6. QED
      BY <3>5 DEF Promise!Next
  <2>4. CASE pc' # "kill"
    <3>1. ~Working' /\ UNCHANGED <<life, sent, final>>
      BY <1>4, <2>1, <2>4 DEF TakePrompt, Skips, Working
    <3>2. FateOf(h)' = "dropped"
      BY <2>1, <2>2, <3>1, FateIsNext DEF FateFacts
    <3>3. ASSUME NEW p \in Prompts, p # h
          PROVE  FateOf(p)' = FateOf(p)
      BY <2>1, <3>1, <3>3 DEF FateOf
    <3>4. [p \in Prompts |-> FateOf(p)]' = [[p \in Prompts |-> FateOf(p)] EXCEPT ![h] = "dropped"]
      BY <3>2, <3>3
    <3>5. Promise!Refuse
      BY <1>4, <2>0, <2>1, <3>1, <3>4 DEF TakePrompt, Skips, Promise!Refuse
    <3>6. QED
      BY <3>5 DEF Promise!Next
  <2>5. QED
    BY <2>3, <2>4
<1>5. CASE StreamEnded \/ TimedOut \/ KillTimedOut \/ TmuxLost
  <2>1. Working /\ UNCHANGED <<life, queue, cur, sent>>
    BY <1>5 DEF StreamEnded, TimedOut, KillTimedOut, TmuxLost, ReportStopped, ReportResult,
                Working
  <2>2. \/ Working' /\ UNCHANGED final
        \/ ~Working' /\ \E outcome \in Outcomes : Deliver(outcome)
    BY <1>5 DEF StreamEnded, TimedOut, KillTimedOut, TmuxLost, ReportStopped, ReportResult,
                Working, Outcomes
  <2>3. CASE Working' /\ UNCHANGED final
    BY <2>1, <2>3, StutterPromise
  <2>4. ASSUME ~Working', NEW outcome \in Outcomes, Deliver(outcome)
        PROVE  Promise!Next
    <3>1. Promise!Decide(outcome)
      BY <2>1, <2>4, DecidePromise
    <3>2. QED
      BY <3>1 DEF Promise!Next, Promise!Decisions, Outcomes
  <2>5. QED
    BY <2>2, <2>3, <2>4
<1>6. CASE KillOrphan \/ BeginPrompt \/ WriteScripts \/ Launch \/ ReadChunk \/ Reported
  <2>1. UNCHANGED <<life, queue, cur, sent, final>>
    BY <1>6 DEF KillOrphan, BeginPrompt, WriteScripts, Launch, ReadChunk, Reported
  <2>2. (Working /\ Working') \/ (~Working /\ ~Working')
    BY <1>6 DEF KillOrphan, BeginPrompt, WriteScripts, Launch, ReadChunk, Reported, Working
  <2>3. UNCHANGED Working
    BY <2>2 DEF Working
  <2>4. QED
    BY <2>1, <2>3, StutterPromise
<1>7. CASE Background \/ Environment \/ UNCHANGED vars
  <2>1. /\ UNCHANGED <<queue, cur, pc, sent, final>>
        /\ (life = "live") = (life = "live")'
    BY <1>7 DEF Background, CtrlC, EnsureStopped, RemoveSession, Environment, ClaudeWrites,
                ClaudeExits, TmuxDies, vars
  <2>2. QED
    BY <2>1, StutterPromise DEF Working
<1>8. CASE PromptFails
  <2>1. Working /\ ~Working' /\ UNCHANGED <<life, queue, cur, sent, final>>
    BY <1>8 DEF PromptFails, FailsEarly, FailsAtSave, Working
  <2>2. QED
    BY <2>1, FailPromise DEF Promise!Next
<1>9. QED
  BY <1>1, <1>2, <1>3, <1>4, <1>5, <1>6, <1>7, <1>8
     DEF Next, Caller, Worker, Promise!Next

\* Prompts are worked on one at a time, in the order send_prompt accepted
\* them, and decided once: the session implements PromptQueue.
THEOREM PromiseIsKept == Spec => KeepsPromise
<1>1. Init => Promise!Init
  BY InitPromise
<1>2. TypeOK /\ SessionInv /\ (TypeOK /\ SessionInv)' /\ [Next]_vars
      => [Promise!Next]_(Promise!vars)
  BY StepPromise DEF SessionInv
<1>3. QED
  BY <1>1, <1>2, InvariantHolds, PTL DEF Spec, KeepsPromise, Promise!Spec

-----------------------------------------------------------------------------
(* The session across restarts.                                            *)

RecTypes ==
    /\ count \in Nat
    /\ disk = [status |-> disk.status, count |-> disk.count] /\ disk.count \in Nat
    /\ freshStarts \in {0, 1}

\* Nothing runs while the process is down.
DownInv == ~up => pc = "off" /\ monitor = "off"

\* Once a run was started with --session-id, the file counts a prompt, and so
\* does every process that read it; a prompt that will be the first run of the
\* session is counted in the file before it is sent.
FreshInv ==
    /\ freshStarts = 1 => disk.count > 0 /\ (up => count > 0)
    /\ pc \in {"hooks", "send"} => count > 0 /\ (count = 1 => freshStarts = 0)
    /\ pc = "send" => disk.count > 0

RecInv == RecTypes /\ DownInv /\ FreshInv /\ StateFileSurvives

-----------------------------------------------------------------------------

\* A step that writes neither the file nor what it holds.
LEMMA NothingSaved ==
    ASSUME RecInv, UNCHANGED <<count, disk, status, freshStarts, up>>,
           life' = life \/ life' # "live", failed' = {} => failed = {},
           monitor' = monitor \/ monitor' = "off",
           pc' = pc \/ (up /\ pc' \notin {"hooks", "send"} /\ (pc # "hooks" \/ failed' # {}
                                                             \/ life' # "live"))
    PROVE  RecInv'
<1>1. RecTypes'
  BY DEF RecInv, RecTypes
<1>2. DownInv'
  BY DEF RecInv, DownInv
<1>3. FreshInv'
  BY DEF RecInv, FreshInv
<1>4. StateFileSurvives'
  BY DEF RecInv, StateFileSurvives
<1> QED
  BY <1>1, <1>2, <1>3, <1>4 DEF RecInv

\* A step that ends with _save_state.
LEMMA Saved ==
    ASSUME RecInv, up, Save(status', count), UNCHANGED <<count, freshStarts, up>>,
           pc' = pc \/ pc' \notin {"hooks", "send"}
    PROVE  RecInv'
<1>1. disk' = [status |-> status', count |-> count] /\ disk'.count = count
  BY DEF Save
<1>2. RecTypes'
  BY <1>1 DEF RecInv, RecTypes
<1>3. DownInv'
  BY DEF DownInv
<1>4. FreshInv'
  BY <1>1 DEF RecInv, RecTypes, FreshInv
<1>5. StateFileSurvives'
  BY <1>1 DEF StateFileSurvives
<1> QED
  BY <1>2, <1>3, <1>4, <1>5 DEF RecInv

LEMMA InitRec == RInit => RecInv
BY DEF RInit, Init, RecInv, RecTypes, DownInv, FreshInv, StateFileSurvives

\* What the process remembers goes; the file stays.
LEMMA CrashStep == ASSUME RecInv, Crash PROVE RecInv'
<1>1. UNCHANGED <<count, disk, freshStarts>> /\ ~up' /\ pc' = "off" /\ monitor' = "off"
  BY DEF Crash, files
<1> QED
  BY <1>1 DEF RecInv, RecTypes, DownInv, FreshInv, StateFileSurvives

\* recover() takes the count of the file, which no branch changes.
LEMMA RecoverStep == ASSUME RecInv, Recover PROVE RecInv'
<1>1. up' /\ ~up /\ count' = disk.count /\ pc' = "get" /\ freshStarts' = freshStarts
  BY DEF Recover, RecoverFinished, RecoverRunning, RecoverAtRest, RecoverDead, Recovered
<1>2. disk' = [status |-> status', count |-> disk.count]
  <2>1. CASE RecoverFinished
    BY <2>1 DEF RecoverFinished, Save
  <2>2. CASE RecoverRunning
    BY <2>2 DEF RecoverRunning, RecInv, RecTypes, files
  <2>3. CASE RecoverAtRest
    BY <2>3 DEF RecoverAtRest, Save
  <2>4. CASE RecoverDead
    BY <2>4 DEF RecoverDead, Save
  <2> QED
    BY <2>1, <2>2, <2>3, <2>4 DEF Recover
<1>3. disk'.count = disk.count
  BY <1>2
<1>4. RecTypes'
  BY <1>1, <1>2, <1>3 DEF RecInv, RecTypes
<1>5. DownInv' /\ FreshInv'
  BY <1>1, <1>3 DEF RecInv, DownInv, FreshInv
<1>6. StateFileSurvives'
  BY <1>1, <1>2 DEF StateFileSurvives
<1> QED
  BY <1>4, <1>5, <1>6 DEF RecInv

LEMMA StartedStep == ASSUME RecInv, ExtensionsStarted PROVE RecInv'
BY NothingSaved DEF ExtensionsStarted, files, worker

\* The monitor runs while the process is up, and saves what it changes.
LEMMA MonitorStep == ASSUME RecInv, Monitor \/ MonitorEnds("timeout") PROVE RecInv'
<1>1. CASE MonitorReads
  BY <1>1, NothingSaved DEF MonitorReads, files, worker
<1>2. ASSUME NEW o, MonitorEnds(o) PROVE RecInv'
  <2>1. up /\ UNCHANGED <<life, count, pc, failed, freshStarts, up>>
    BY <1>2 DEF MonitorEnds, RecInv, DownInv, worker
  <2>2. CASE monitor' = "off" /\ UNCHANGED <<status, disk>>
    BY <2>1, <2>2, NothingSaved
  <2>3. CASE status' = "idle" /\ Save("idle", count)
    BY <2>1, <2>3, Saved
  <2> QED
    BY <1>2, <2>2, <2>3 DEF MonitorEnds
<1>3. CASE MonitorLosesTmux
  <2>1. /\ up /\ status' = "dead" /\ Save("dead", count)
        /\ UNCHANGED <<count, pc, freshStarts, up>>
    BY <1>3 DEF MonitorLosesTmux, RecInv, DownInv, worker
  <2> QED
    BY <2>1, Saved
<1>4. CASE MonitorReported
  <2>1. up /\ Save(status', count) /\ UNCHANGED <<count, pc, freshStarts, up>>
    BY <1>4 DEF MonitorReported, RecInv, DownInv, worker, Save
  <2> QED
    BY <2>1, Saved
<1> QED
  BY <1>1, <1>2, <1>3, <1>4 DEF Monitor

LEMMA CallerStep == ASSUME RecInv, RCaller PROVE RecInv'
<1>1. up /\ UNCHANGED <<up, freshStarts>>
  BY DEF RCaller
<1>2. ASSUME NEW p \in Prompts, SendPrompt(p), monitor' = monitor PROVE RecInv'
  <2>1. UNCHANGED <<life, count, pc, failed>>
    BY <1>2 DEF SendPrompt, worker
  <2>2. CASE UNCHANGED <<status, disk>>
    BY <1>1, <1>2, <2>1, <2>2, NothingSaved
  <2>3. CASE status' = "idle" /\ Save("idle", count)
    BY <1>1, <2>1, <2>3, Saved
  <2> QED
    BY <1>2, <2>2, <2>3 DEF SendPrompt, ResetStopped
<1>3. CASE StopSession /\ monitor' = monitor
  <2>1. UNCHANGED <<life, count, pc, failed>>
    BY <1>3 DEF StopSession, worker
  <2>2. CASE UNCHANGED <<status, disk>>
    BY <1>1, <1>3, <2>1, <2>2, NothingSaved
  <2>3. CASE status' = "stopped" /\ Save("stopped", count)
    BY <1>1, <2>1, <2>3, Saved
  <2> QED
    BY <1>3, <2>2, <2>3 DEF StopSession
<1>4. CASE DestroySession /\ monitor' = "off"
  <2>1. /\ life' = "destroying" /\ pc' = "off"
        /\ UNCHANGED <<status, count, disk, failed>>
    BY <1>4 DEF DestroySession, files, history
  <2> QED
    BY <1>1, <1>4, <2>1, NothingSaved
<1> QED
  BY <1>2, <1>3, <1>4 DEF RCaller

\* The prompt is counted in memory, then in the file, then sent.
LEMMA BeginStep == ASSUME RecInv, RBegin PROVE RecInv'
<1>1. /\ up /\ up' = up /\ pc' = "hooks" /\ count' = count + 1
      /\ UNCHANGED <<disk, freshStarts>>
  BY DEF RBegin, BeginPrompt
<1>2. RecTypes'
  BY <1>1 DEF RecInv, RecTypes
<1>3. FreshInv'
  BY <1>1 DEF RecInv, RecTypes, FreshInv
<1> QED
  BY <1>1, <1>2, <1>3 DEF RecInv, DownInv, StateFileSurvives

LEMMA WriteStep == ASSUME RecInv, up, WriteScripts, UNCHANGED restart PROVE RecInv'
<1>1. /\ pc = "hooks" /\ pc' = "send" /\ disk' = [status |-> status, count |-> count]
      /\ UNCHANGED <<status, count, freshStarts, up>>
  BY DEF WriteScripts, Save, restart
<1>2. disk'.count = count /\ count \in Nat
  BY <1>1 DEF RecInv, RecTypes
<1>3. RecTypes'
  BY <1>1, <1>2 DEF RecInv, RecTypes
<1>4. FreshInv'
  BY <1>1, <1>2 DEF RecInv, FreshInv
<1>5. StateFileSurvives'
  BY <1>1 DEF StateFileSurvives
<1> QED
  BY <1>1, <1>3, <1>4, <1>5 DEF RecInv, DownInv

LEMMA LaunchStep == ASSUME RecInv, RLaunch PROVE RecInv'
<1>1. /\ up /\ up' = up /\ pc = "send" /\ pc' = "stream"
      /\ UNCHANGED <<life, status, count, disk, failed>>
      /\ freshStarts' = IF tmux /\ count = 1 THEN freshStarts + 1 ELSE freshStarts
  BY DEF RLaunch, Launch
<1>2. freshStarts' \in {0, 1} /\ (freshStarts' = 1 => disk.count > 0 /\ count > 0)
  BY <1>1 DEF RecInv, RecTypes, FreshInv
<1>3. RecTypes' /\ FreshInv'
  BY <1>1, <1>2 DEF RecInv, RecTypes, FreshInv
<1> QED
  BY <1>1, <1>3 DEF RecInv, DownInv, StateFileSurvives

LEMMA WorkerStep == ASSUME RecInv, RWorker PROVE RecInv'
<1>1. up /\ UNCHANGED <<up, freshStarts, monitor>> /\ UNCHANGED restart
  BY DEF RWorker, restart
<1>2. CASE TakePrompt \/ KillOrphan \/ ReadChunk
  <2>1. /\ UNCHANGED <<life, status, count, disk, failed>>
        /\ pc' = pc \/ (pc' = "kill" /\ pc = "get")
    BY <1>2 DEF TakePrompt, KillOrphan, ReadChunk, files, worker, history
  <2> QED
    BY <1>1, <2>1, NothingSaved
<1>3. CASE WriteScripts
  BY <1>1, <1>3, WriteStep
<1>4. CASE StreamEnded \/ KillTimedOut
  <2>1. /\ UNCHANGED <<life, count, failed>> /\ pc' = "report" /\ pc # "hooks"
        /\ UNCHANGED <<status, disk>> \/ (status' = "idle" /\ Save("idle", count))
    BY <1>4 DEF StreamEnded, KillTimedOut, ReportStopped, ReportResult
  <2>2. CASE UNCHANGED <<status, disk>>
    BY <1>1, <2>1, <2>2, NothingSaved
  <2>3. CASE status' = "idle" /\ Save("idle", count)
    BY <1>1, <2>1, <2>3, Saved
  <2> QED
    BY <2>1, <2>2, <2>3
<1>5. CASE TmuxLost
  <2>1. status' = "dead" /\ Save("dead", count) /\ count' = count /\ pc' = "report"
    BY <1>5 DEF TmuxLost
  <2> QED
    BY <1>1, <2>1, Saved
<1>6. CASE Reported
  <2>1. /\ UNCHANGED <<life, status, count, failed>> /\ pc' = "get" /\ pc = "report"
        /\ disk' = disk \/ Save(status, count)
    BY <1>6 DEF Reported, history
  <2>2. CASE disk' = disk
    BY <1>1, <2>1, <2>2, NothingSaved
  <2>3. CASE Save(status, count)
    BY <1>1, <2>1, <2>3, Saved DEF Save
  <2> QED
    BY <2>1, <2>2, <2>3
<1> QED
  BY <1>2, <1>3, <1>4, <1>5, <1>6 DEF RWorker

LEMMA TimedOutStep == ASSUME RecInv, RTimedOut PROVE RecInv'
<1>1. /\ up /\ UNCHANGED <<up, freshStarts, monitor, life, status, count, disk, failed>>
      /\ pc = "stream" /\ pc' \in {"report", "timeout"}
  BY DEF RTimedOut, restart, TimedOut, ReportStopped
<1> QED
  BY <1>1, NothingSaved

\* Nothing is saved then, and StateFileSurvives promises nothing any more.
LEMMA FailsStep == ASSUME RecInv, RFails PROVE RecInv'
<1>1. /\ up /\ UNCHANGED <<up, freshStarts, monitor, count, disk>>
      /\ pc' = "get" /\ failed' # {}
  BY DEF RFails, restart, PromptFails
<1>2. RecTypes' /\ FreshInv'
  BY <1>1 DEF RecInv, RecTypes, FreshInv
<1> QED
  BY <1>1, <1>2 DEF RecInv, DownInv, StateFileSurvives

LEMMA BackgroundStep == ASSUME RecInv, RBackground \/ REnvironment PROVE RecInv'
<1>1. /\ UNCHANGED <<up, freshStarts, monitor, status, count, disk, pc, failed>>
      /\ life' = life \/ life' = "gone"
  BY DEF RBackground, REnvironment, restart, CtrlC, EnsureStopped, RemoveSession, Environment,
         ClaudeWrites, ClaudeExits, TmuxDies, files, worker, history
<1> QED
  BY <1>1, NothingSaved

\* The file runs ahead of what Claude was told, wherever the process dies.
THEOREM FileRunsAhead == RSpec => []RecInv
<1>1. RecInv /\ [RNext]_rvars => RecInv'
  <2> SUFFICES ASSUME RecInv, [RNext]_rvars PROVE RecInv'
    OBVIOUS
  <2>1. CASE UNCHANGED rvars
    BY <2>1, NothingSaved DEF rvars, vars, restart, files, worker, history
  <2> QED
    BY <2>1, CrashStep, RecoverStep, StartedStep, MonitorStep, CallerStep, LaunchStep, BeginStep,
       WorkerStep, TimedOutStep, FailsStep, BackgroundStep DEF RNext
<1> QED
  BY InitRec, <1>1, PTL DEF RSpec

\* SessionIdUsedOnce: prompt_count is saved (790) before run.sh is typed (793), so no
\* restart makes a second run believe that it is the first.
THEOREM SessionIdIsUsedOnce == RSpec => []SessionIdUsedOnce
<1>1. RecInv => SessionIdUsedOnce
  BY DEF RecInv, RecTypes, SessionIdUsedOnce
<1> QED
  BY FileRunsAhead, <1>1, PTL

\* StateFileSurvives: the worker, the callers and the monitor of an
\* interrupted run all leave in state.json what the process holds.
THEOREM StateFileIsCurrent == RSpec => []StateFileSurvives
BY FileRunsAhead, PTL DEF RecInv

-----------------------------------------------------------------------------
(* What a step of SessionManager keeps it keeps in every process.          *)

\* The types of SessionManager, of the monitor, and what RunInv says of a run.
RestartTypes ==
    /\ TypeOK /\ RunInv
    /\ up \in BOOLEAN /\ ready \in BOOLEAN /\ overlap \in BOOLEAN
    /\ monitor \in {"off", "stream", "report"} /\ mpos \in Nat

SessionStep == \/ RCaller \/ RLaunch \/ RBegin \/ RWorker \/ RTimedOut \/ RFails
               \/ RBackground \/ REnvironment

LEMMA SessionStepIsNext == SessionStep => Next
BY DEF SessionStep, RCaller, RLaunch, RBegin, RWorker, RTimedOut, RFails, RBackground,
       REnvironment, Next, Caller, Worker, Background

LEMMA InitTypes == RInit => RestartTypes
<1> SUFFICES ASSUME RInit PROVE RestartTypes
  OBVIOUS
<1>1. TypeOK
  BY InitType DEF RInit
<1> QED
  BY <1>1 DEF RInit, Init, RestartTypes, RunInv

LEMMA SessionTypes == ASSUME RestartTypes, SessionStep PROVE RestartTypes'
<1>1. TypeOK' /\ RunInv'
  BY SessionStepIsNext, NextType, RunStep DEF RestartTypes
<1>2. UNCHANGED <<up, ready, mpos>> /\ monitor' \in {monitor, "off"}
  BY DEF SessionStep, RCaller, RLaunch, RBegin, RWorker, RTimedOut, RFails, RBackground,
         REnvironment, restart
<1>3. overlap' = overlap \/ (overlap' = (overlap \/ monitor = "stream"))
  BY DEF SessionStep, RCaller, RLaunch, RBegin, RWorker, RTimedOut, RFails, RBackground,
         REnvironment, restart
<1> QED
  BY <1>1, <1>2, <1>3 DEF RestartTypes

\* A process that starts or ends types nothing into the pane.
LEMMA ProcessTypes == ASSUME RestartTypes, Crash \/ Recover PROVE RestartTypes'
<1>1. CASE Crash
  <2>1. queue' \in Seq(Prompts)
    BY <1>1, EmptySeq DEF Crash
  <2> QED
    BY <1>1, <2>1 DEF Crash, RestartTypes, TypeOK, WorkerStages, Working, RunInv, files, history
<1>2. CASE Recover
  <2>1. /\ pc' = "get" /\ up' = TRUE /\ life' = "live" /\ count' = disk.count
        /\ monitor' \in {monitor, "stream"} /\ mpos' \in {mpos, 0} /\ tmux' \in {tmux, TRUE}
        /\ UNCHANGED <<ready, overlap, queue, cur, pos, pane, stream, exitcode, ctrlcs, ensures,
                       sent, launched, barred, halted, texts, final, failed>>
    BY <1>2 DEF Recover, RecoverFinished, RecoverRunning, RecoverAtRest, RecoverDead, Recovered,
                files, stops, history
  <2>2. disk.count \in Nat /\ disk.status \in Statuses
    BY DEF RestartTypes, TypeOK
  <2>3. status' \in Statuses /\ disk' \in [status: Statuses, count: Nat]
    <3>1. CASE RecoverRunning
      BY <2>2, <3>1 DEF RecoverRunning, RestartTypes, TypeOK, Statuses, files
    <3>2. CASE RecoverFinished \/ RecoverDead
      BY <2>2, <3>2 DEF RecoverFinished, RecoverDead, Save, Statuses
    <3>3. CASE RecoverAtRest
      BY <2>2, <3>3 DEF RecoverAtRest, Save, Statuses
    <3> QED
      BY <1>2, <3>1, <3>2, <3>3 DEF Recover
  <2>4. ~Working' /\ RunInv' /\ pc' \in WorkerStages
    BY <2>1 DEF Working, RunInv, WorkerStages
  <2>5. TypeOK'
    BY <2>1, <2>2, <2>3, <2>4 DEF RestartTypes, TypeOK
  <2> QED
    BY <2>1, <2>4, <2>5 DEF RestartTypes
<1> QED
  BY <1>1, <1>2

LEMMA StartedTypes == ASSUME RestartTypes, ExtensionsStarted PROVE RestartTypes'
<1>1. \A p \in Prompts : Append(final[p], "completed") \in Seq(Outcomes)
  BY AppendProperties DEF RestartTypes, TypeOK, Outcomes
<1>2. final' \in [Prompts -> Seq(Outcomes)]
  BY <1>1 DEF ExtensionsStarted, RestartTypes, TypeOK
<1> QED
  BY <1>2 DEF ExtensionsStarted, RestartTypes, TypeOK, Working, RunInv, files, worker, stops

\* Only the monitor's status, file and deliveries change.
LEMMA MonitorTypes ==
    ASSUME RestartTypes, Monitor \/ MonitorEnds("timeout") PROVE RestartTypes'
<1> USE DEF files, worker, stops, history
<1>1. CASE MonitorReads
  <2>1. mpos + 1 \in Chunks
    BY <1>1, ConstantsAssumption DEF MonitorReads, RestartTypes, TypeOK, Chunks
  <2>2. \A p \in Prompts : Append(texts[p], mpos + 1) \in Seq(Chunks)
    BY <2>1, AppendProperties DEF RestartTypes, TypeOK
  <2>3. texts' \in [Prompts -> Seq(Chunks)]
    BY <1>1, <2>2 DEF MonitorReads, RestartTypes, TypeOK
  <2>4. mpos' \in Nat
    BY <1>1 DEF MonitorReads, RestartTypes
  <2> QED
    BY <1>1, <2>3, <2>4 DEF MonitorReads, RestartTypes, TypeOK, Working, RunInv
<1>2. ASSUME NEW o \in Outcomes, MonitorEnds(o) PROVE RestartTypes'
  <2>1. \A p \in Prompts : Append(final[p], o) \in Seq(Outcomes)
    BY AppendProperties DEF RestartTypes, TypeOK
  <2>2. final' \in [Prompts -> Seq(Outcomes)]
    <3>1. CASE final' = final
      BY <3>1 DEF RestartTypes, TypeOK
    <3>2. CASE Finish(stream.of, o)
      BY <2>1, <3>2 DEF Finish, RestartTypes, TypeOK
    <3> QED
      BY <1>2, <3>1, <3>2 DEF MonitorEnds
  <2>3. status' \in Statuses /\ disk' \in [status: Statuses, count: Nat]
    BY <1>2 DEF MonitorEnds, Save, RestartTypes, TypeOK, Statuses
  <2>4. monitor' \in {"off", "report"}
    BY <1>2 DEF MonitorEnds
  <2> QED
    BY <1>2, <2>2, <2>3, <2>4 DEF MonitorEnds, RestartTypes, TypeOK, Working, RunInv
<1>3. CASE MonitorLosesTmux
  BY <1>3 DEF MonitorLosesTmux, Save, RestartTypes, TypeOK, Statuses, Working, RunInv
<1>4. CASE MonitorReported
  BY <1>4 DEF MonitorReported, Save, RestartTypes, TypeOK, Working, RunInv
<1> QED
  BY <1>1, <1>2, <1>3, <1>4 DEF Monitor, Outcomes

LEMMA RestartTypeStep == ASSUME RestartTypes, [RNext]_rvars PROVE RestartTypes'
<1>1. CASE UNCHANGED rvars
  BY <1>1 DEF rvars, vars, restart, files, worker, stops, history, RestartTypes, TypeOK, Working,
              RunInv
<1> QED
  BY <1>1, SessionTypes, ProcessTypes, StartedTypes, MonitorTypes DEF RNext, SessionStep

\* Every variable keeps its type through crashes and recoveries, and a prompt
\* about to be launched finds an empty pane and no output of another run.
THEOREM TypeCorrectAcrossRestarts == RSpec => []RestartTypes
<1>1. RestartTypes /\ [RNext]_rvars => RestartTypes'
  BY RestartTypeStep
<1> QED
  BY InitTypes, <1>1, PTL DEF RSpec

-----------------------------------------------------------------------------
(* One final event per run.                                                 *)

\* A run that can still get its final event (NoPrompt: output of no run).
Unanswered(p) == p = NoPrompt \/ final[p] = <<>>

\* A prompt is queued, with the worker, or launched, and only what was
\* launched has output or an answer.
Places ==
    /\ \A i, j \in DOMAIN queue : queue[i] = queue[j] => i = j
    /\ Queued \subseteq sent \ launched
    /\ pc \in {"kill", "hooks", "send"} => cur \in (sent \ launched) \ Queued
    /\ pc \in {"stream", "timeout"} => cur \in launched
    /\ launched \subseteq sent
    /\ \A p \in Prompts \ launched : final[p] = <<>>
    /\ stream.of \in launched \cup {NoPrompt}

\* Until the extensions have started there is nothing to work on, and while a
\* result is buffered nobody else reports one.
StartUp ==
    /\ ~up => ~ready
    /\ ~ready => queue = <<>> /\ pc \in {"get", "off"}
    /\ pending \subseteq launched \cup {NoPrompt}
    /\ pending # {} => /\ up /\ ~ready /\ monitor = "off"
                       /\ status = "idle" /\ disk.status = "idle"

\* A session that is stopped or dead is not BUSY on disk.
StopSaved == status \in {"stopped", "dead"} => disk.status # "busy"

\* Whatever can make somebody report the run of stream.jsonl - a BUSY status in
\* memory or in the file, a monitor, a buffered result - is there only while
\* that run has no answer.
Once ==
    /\ OneFinal
    /\ pc \in {"stream", "timeout"} => final[cur] = <<>>
    /\ status = "busy" \/ disk.status = "busy" \/ monitor = "stream" => Unanswered(stream.of)
    /\ monitor = "stream" => pc \in {"get", "kill", "off"}
    /\ \A p \in pending : Unanswered(p)

OnceInv == Places /\ StartUp /\ StopSaved /\ (~overlap => Once)

\* A step that moves no prompt and reports nothing.
LEMMA QuietStep ==
    ASSUME OnceInv, DownInv,
           UNCHANGED <<queue, cur, sent, launched, final, up, ready, pending, overlap>>,
           stream'.of \in {stream.of, NoPrompt},
           monitor' \in {monitor, "off"},
           \/ UNCHANGED <<status, disk>>
           \/ /\ pc \notin {"get", "off"} \/ monitor # "off"
              /\ status' = "busy" \/ disk'.status = "busy" => status = "busy" \/ disk.status = "busy"
              /\ status' \in {"stopped", "dead"} => disk'.status # "busy",
           \/ pc' \in {pc, "get", "off"}
           \/ pc = "hooks" /\ pc' = "send"
           \/ pc = "stream" /\ pc' = "timeout"
    PROVE  OnceInv'
<1>1. Places'
  BY DEF OnceInv, Places, Queued
<1>2. pending # {} => UNCHANGED <<status, disk>>
  BY DEF OnceInv, StartUp
<1>3. StartUp' /\ StopSaved'
  BY <1>2 DEF OnceInv, StartUp, StopSaved
<1>4. ASSUME ~overlap, Once PROVE Once'
  <2>1. (\A p : Unanswered(p)' <=> Unanswered(p)) /\ OneFinal'
    BY <1>4 DEF Once, OneFinal, Unanswered
  <2>2. status' = "busy" \/ disk'.status = "busy" \/ monitor' = "stream" => Unanswered(stream'.of)
    BY <1>4, <2>1 DEF Once, Unanswered
  <2>3. pc' \in {"stream", "timeout"} => final[cur] = <<>>
    BY <1>4 DEF Once
  <2>4. monitor' = "stream" => pc' \in {"get", "kill", "off"}
    BY <1>4 DEF Once
  <2> QED
    BY <1>4, <2>1, <2>2, <2>3, <2>4 DEF Once, Unanswered
<1> QED
  BY <1>1, <1>3, <1>4 DEF OnceInv

\* The worker reports its run: nothing else reports that run afterwards.
LEMMA DecisionStep ==
    ASSUME OnceInv, RestartTypes, pc \in {"stream", "timeout"}, pc' = "report",
           NEW o \in Outcomes, Deliver(o),
           UNCHANGED <<queue, cur, sent, launched, stream, up, ready, pending, monitor, overlap>>,
           status' # "busy", disk'.status # "busy"
    PROVE  OnceInv'
<1>1. cur \in Prompts /\ cur \in launched /\ final \in [Prompts -> Seq(Outcomes)]
  BY DEF OnceInv, Places, RestartTypes, TypeOK, Working
<1>2. ready /\ pending = {}
  BY DEF OnceInv, StartUp
<1>3. \A p \in Prompts \ {cur} : final'[p] = final[p]
  BY <1>1 DEF Deliver
<1>4. Places'
  BY <1>1, <1>3 DEF OnceInv, Places, Queued
<1>5. StartUp' /\ StopSaved'
  BY <1>2 DEF OnceInv, StartUp, StopSaved
<1>6. ASSUME ~overlap, Once PROVE Once'
  <2>1. final[cur] = <<>> /\ monitor # "stream"
    BY <1>6 DEF Once
  <2>2. Len(final'[cur]) <= 1
    BY <1>1, <2>1, Decided DEF RestartTypes
  <2> QED
    BY <1>1, <1>2, <1>3, <1>6, <2>1, <2>2 DEF Once, OneFinal
<1> QED
  BY <1>4, <1>5, <1>6 DEF OnceInv

LEMMA InitOnce == RInit => OnceInv
<1> SUFFICES ASSUME RInit PROVE OnceInv
  OBVIOUS
<1>1. Queued = {} /\ DOMAIN queue = {}
  BY DEF RInit, Init, Queued, Range
<1>2. \A p \in Prompts : Len(final[p]) = 0
  BY EmptySeq DEF RInit, Init
<1> QED
  BY <1>1, <1>2 DEF RInit, Init, OnceInv, Places, StartUp, StopSaved, Once, OneFinal, Unanswered,
                    NoStream

\* Queue, worker, monitor and buffer go; files and answers stay.
LEMMA CrashOnce == ASSUME OnceInv, Crash PROVE OnceInv'
<1>1. /\ queue' = <<>> /\ DOMAIN queue' = {} /\ Queued' = {} /\ pc' = "off"
      /\ ~up' /\ ~ready' /\ pending' = {} /\ monitor' = "off"
      /\ UNCHANGED <<status, disk, stream, sent, launched, final, overlap>>
  BY DEF Crash, files, history, Queued, Range
<1> QED
  BY <1>1 DEF OnceInv, Places, StartUp, StopSaved, Once, OneFinal, Unanswered

\* recover() believes the file: a BUSY session is followed or its result
\* buffered, and no other is.
LEMMA RecoverOnce == ASSUME OnceInv, DownInv, Recover PROVE OnceInv'
<1> USE DEF files, stops, history
<1>1. /\ ~up /\ up' /\ pc' = "get" /\ pc = "off" /\ monitor = "off" /\ pending = {} /\ ~ready
      /\ queue = <<>>
      /\ UNCHANGED <<queue, stream, sent, launched, final, ready, overlap>>
  BY DEF Recover, RecoverFinished, RecoverRunning, RecoverAtRest, RecoverDead, Recovered,
         OnceInv, StartUp, DownInv
<1>2. Places'
  BY <1>1 DEF OnceInv, Places, Queued
<1>3. CASE RecoverFinished
  <2>1. /\ status' = "idle" /\ disk'.status = "idle" /\ pending' = {stream.of} /\ monitor' = "off"
        /\ disk.status = "busy"
    BY <1>1, <1>3 DEF RecoverFinished, Save
  <2>2. StartUp' /\ StopSaved'
    BY <1>1, <2>1 DEF OnceInv, Places, StartUp, StopSaved
  <2>3. ASSUME ~overlap, Once PROVE Once'
    BY <1>1, <2>1, <2>3 DEF Once, OneFinal, Unanswered
  <2> QED
    BY <1>1, <1>2, <2>2, <2>3 DEF OnceInv
<1>4. CASE RecoverRunning
  <2>1. status' = "busy" /\ disk' = disk /\ disk.status = "busy" /\ pending' = {}
    BY <1>1, <1>4 DEF RecoverRunning
  <2>2. StartUp' /\ StopSaved'
    BY <1>1, <2>1 DEF StartUp, StopSaved
  <2>3. ASSUME ~overlap, Once PROVE Once'
    BY <1>1, <2>1, <2>3 DEF Once, OneFinal, Unanswered
  <2> QED
    BY <1>1, <1>2, <2>2, <2>3 DEF OnceInv
<1>5. CASE RecoverAtRest \/ RecoverDead
  <2>1. /\ status' # "busy" /\ disk'.status = status' /\ pending' = {} /\ monitor' = "off"
    BY <1>1, <1>5 DEF RecoverAtRest, RecoverDead, Save
  <2>2. StartUp' /\ StopSaved'
    BY <1>1, <2>1 DEF StartUp, StopSaved
  <2>3. ASSUME ~overlap, Once PROVE Once'
    BY <1>1, <2>1, <2>3 DEF Once, OneFinal, Unanswered
  <2> QED
    BY <1>1, <1>2, <2>2, <2>3 DEF OnceInv
<1> QED
  BY <1>3, <1>4, <1>5 DEF Recover

\* One more final event for a run that had none.
LEMMA FirstFinal ==
    ASSUME RestartTypes, NEW p \in Prompts, final[p] = <<>>, NEW o \in Outcomes
    PROVE  Len(Append(final[p], o)) <= 1
BY AppendProperties, EmptySeq DEF RestartTypes, TypeOK

\* The flush is the only one to report then.
LEMMA StartedOnce == ASSUME OnceInv, RestartTypes, ExtensionsStarted PROVE OnceInv'
<1> USE DEF files, worker, stops, history
<1>1. /\ up /\ ~ready /\ ready' /\ pending' = {} /\ pc \in {"get", "off"}
      /\ UNCHANGED <<queue, cur, pc, stream, sent, launched, status, disk, monitor, up, overlap>>
      /\ \A p \in Prompts : final'[p] = IF p \in pending THEN Append(final[p], "completed")
                                                         ELSE final[p]
  BY DEF ExtensionsStarted, OnceInv, StartUp
<1>2. pending # {} => monitor = "off" /\ status = "idle" /\ disk.status = "idle"
  BY DEF OnceInv, StartUp
<1>3. Places'
  BY <1>1, ConstantsAssumption DEF OnceInv, Places, Queued, StartUp
<1>4. StartUp' /\ StopSaved'
  BY <1>1 DEF OnceInv, StartUp, StopSaved
<1>5. ASSUME ~overlap, Once PROVE Once'
  <2>1. OneFinal'
    BY <1>1, <1>5, FirstFinal, ConstantsAssumption DEF Once, OneFinal, Unanswered, Outcomes
  <2>2. status' = "busy" \/ disk'.status = "busy" \/ monitor' = "stream" => Unanswered(stream.of)'
    BY <1>1, <1>2, <1>5 DEF Once, Unanswered, RestartTypes, TypeOK
  <2> QED
    BY <1>1, <1>5, <2>1, <2>2 DEF Once
<1> QED
  BY <1>1, <1>3, <1>4, <1>5 DEF OnceInv

LEMMA MonitorEndsOnce ==
    ASSUME OnceInv, DownInv, RestartTypes, NEW o \in Outcomes, MonitorEnds(o) PROVE OnceInv'
<1> USE DEF files, worker, stops, history
<1>1. CASE monitor' = "off" /\ UNCHANGED <<status, disk, final>>
  BY <1>1, QuietStep DEF MonitorEnds
<1>2. CASE monitor' = "report"
  <2>1. /\ monitor = "stream" /\ up /\ pending = {}
        /\ status' = "idle" /\ disk'.status = "idle"
        /\ UNCHANGED <<queue, cur, pc, stream, sent, launched, up, ready, pending, overlap>>
        /\ final' = final \/ Finish(stream.of, o)
    BY <1>2 DEF MonitorEnds, Save, OnceInv, StartUp, DownInv
  <2>2. \A p \in Prompts : \/ final'[p] = final[p]
                           \/ p = stream.of /\ final'[p] = Append(final[p], o)
    BY <2>1 DEF Finish
  <2>3. Places'
    BY <2>1, <2>2, ConstantsAssumption DEF OnceInv, Places, Queued
  <2>4. StartUp' /\ StopSaved'
    BY <2>1 DEF OnceInv, StartUp, StopSaved
  <2>5. ASSUME ~overlap, Once PROVE Once'
    <3>1. OneFinal'
      BY <2>1, <2>2, <2>5, FirstFinal, ConstantsAssumption DEF Once, OneFinal, Unanswered
    <3> QED
      BY <1>2, <2>1, <2>5, <3>1 DEF Once
  <2> QED
    BY <2>1, <2>3, <2>4, <2>5 DEF OnceInv
<1> QED
  BY <1>1, <1>2 DEF MonitorEnds

LEMMA MonitorOnce ==
    ASSUME OnceInv, DownInv, RestartTypes, Monitor \/ MonitorEnds("timeout") PROVE OnceInv'
<1> USE DEF files, worker, stops, history
<1>1. CASE MonitorReads
  BY <1>1, QuietStep DEF MonitorReads
<1>2. CASE MonitorEnds("completed") \/ MonitorEnds("timeout")
  BY <1>2, MonitorEndsOnce DEF Outcomes
<1>3. CASE MonitorLosesTmux
  BY <1>3, QuietStep DEF MonitorLosesTmux, Save
<1>4. CASE MonitorReported
  <2>1. disk'.status = status
    BY <1>4 DEF MonitorReported, Save
  <2> QED
    BY <1>4, <2>1, QuietStep DEF MonitorReported
<1> QED
  BY <1>1, <1>2, <1>3, <1>4 DEF Monitor

LEMMA CallerOnce == ASSUME OnceInv, DownInv, RestartTypes, RCaller PROVE OnceInv'
<1> USE DEF files, worker, stops, history
<1>1. up /\ ready /\ pending = {} /\ queue \in Seq(Prompts)
      /\ UNCHANGED <<up, ready, pending, overlap>>
  BY DEF RCaller, OnceInv, StartUp, RestartTypes, TypeOK
<1>2. ASSUME NEW p \in Prompts, SendPrompt(p), monitor' = monitor PROVE OnceInv'
  <2>1. /\ queue' = Append(queue, p) /\ p \notin sent /\ sent' = sent \cup {p}
        /\ UNCHANGED <<cur, pc, launched, final, stream>>
    BY <1>2 DEF SendPrompt, Enqueue
  <2>2. Queued' = Queued \cup {p} /\ p \notin Queued /\ p \notin launched
    BY <1>1, <2>1, RangeOfAppend DEF Queued, OnceInv, Places
  <2>3. \A i, j \in DOMAIN queue' : queue'[i] = queue'[j] => i = j
    BY <1>1, <2>1, <2>2, DistinctAppend DEF Queued, OnceInv, Places
  <2>4. Places'
    BY <2>1, <2>2, <2>3 DEF OnceInv, Places
  <2>5. \/ UNCHANGED <<status, disk>>
        \/ status' = "idle" /\ disk'.status = "idle"
    BY <1>2 DEF SendPrompt, ResetStopped, Save
  <2>6. StartUp' /\ StopSaved'
    BY <1>1, <2>1, <2>5 DEF OnceInv, StartUp, StopSaved
  <2>7. Once => Once'
    BY <1>1, <1>2, <2>1, <2>5 DEF Once, OneFinal, Unanswered
  <2> QED
    BY <1>1, <2>4, <2>6, <2>7 DEF OnceInv
<1>3. CASE (StopSession /\ monitor' = monitor) \/ (DestroySession /\ monitor' = "off")
  <2>1. /\ queue' = <<>> /\ DOMAIN queue' = {} /\ Queued' = {} /\ pc' \in {pc, "off"}
        /\ UNCHANGED <<cur, sent, launched, final, stream>>
    BY <1>3 DEF StopSession, Drain, DestroySession, Queued, Range
  <2>2. \/ UNCHANGED <<status, disk>>
        \/ status' = "stopped" /\ disk'.status = "stopped"
    BY <1>3 DEF StopSession, DestroySession, Save
  <2>3. Places'
    BY <2>1 DEF OnceInv, Places
  <2>4. StartUp' /\ StopSaved'
    BY <1>1, <2>1, <2>2 DEF OnceInv, StartUp, StopSaved
  <2>5. Once => Once'
    BY <1>1, <1>3, <2>1, <2>2 DEF Once, OneFinal, Unanswered
  <2> QED
    BY <1>1, <2>3, <2>4, <2>5 DEF OnceInv
<1> QED
  BY <1>2, <1>3 DEF RCaller

LEMMA BeginOnce == ASSUME OnceInv, DownInv, RestartTypes, RBegin PROVE OnceInv'
<1>1. /\ up /\ ready /\ pending = {} /\ pc = "kill" /\ pc' = "hooks" /\ status' = "busy"
      /\ stream' = NoStream /\ overlap' = (overlap \/ monitor = "stream")
      /\ UNCHANGED <<up, ready, pending, queue, cur, sent, launched, final, disk, monitor>>
  BY DEF RBegin, BeginPrompt, UnlinkArtifacts, history, OnceInv, StartUp
<1>2. stream'.of = NoPrompt
  BY <1>1 DEF NoStream
<1>3. Places'
  BY <1>1, <1>2 DEF OnceInv, Places, Queued
<1>4. StartUp' /\ StopSaved'
  BY <1>1 DEF OnceInv, StartUp, StopSaved
<1>5. ASSUME ~overlap', ~overlap, Once PROVE Once'
  BY <1>1, <1>2, <1>5 DEF Once, OneFinal, Unanswered
<1>6. ~overlap' => ~overlap
  BY <1>1 DEF RestartTypes
<1> QED
  BY <1>3, <1>4, <1>5, <1>6 DEF OnceInv

LEMMA LaunchOnce == ASSUME OnceInv, DownInv, RestartTypes, RLaunch PROVE OnceInv'
<1>1. /\ up /\ ready /\ pending = {} /\ pc = "send" /\ pc' = "stream"
      /\ cur \in Prompts /\ cur \in sent \ launched /\ cur \notin Queued /\ final[cur] = <<>>
      /\ stream.of = NoPrompt
  BY DEF RLaunch, Launch, OnceInv, StartUp, Places, RestartTypes, TypeOK, Working, RunInv, NoStream
<1>2. /\ launched' = launched \cup {cur} /\ stream'.of \in {cur, NoPrompt}
      /\ UNCHANGED <<up, ready, pending, queue, cur, sent, final, status, disk, monitor, overlap>>
  BY <1>1 DEF RLaunch, Launch
<1>3. Places'
  BY <1>1, <1>2 DEF OnceInv, Places, Queued
<1>4. StartUp' /\ StopSaved'
  BY <1>1, <1>2 DEF OnceInv, StartUp, StopSaved
<1>5. Once => Once'
  BY <1>1, <1>2 DEF Once, OneFinal, Unanswered
<1> QED
  BY <1>2, <1>3, <1>4, <1>5 DEF OnceInv

LEMMA TakeOnce ==
    ASSUME OnceInv, DownInv, RestartTypes, up, TakePrompt, UNCHANGED restart PROVE OnceInv'
<1>1. /\ queue' = Tail(queue) /\ queue # <<>> /\ queue \in Seq(Prompts) /\ pc = "get"
      /\ \/ UNCHANGED <<pc, cur>>
         \/ pc' = "kill" /\ cur' = Head(queue)
      /\ UNCHANGED <<status, disk, stream, sent, launched, final>>
      /\ UNCHANGED <<up, ready, pending, monitor, overlap>>
  BY DEF TakePrompt, RestartTypes, TypeOK, files, history, restart
<1>2. Queued = Queued' \cup {Head(queue)} /\ Head(queue) \notin Queued'
  BY <1>1, RangeOfTail, DistinctTail DEF OnceInv, Places, Queued
<1>3. \A i, j \in DOMAIN queue' : queue'[i] = queue'[j] => i = j
  BY <1>1, DistinctTail DEF OnceInv, Places
<1>4. Places'
  BY <1>1, <1>2, <1>3 DEF OnceInv, Places
<1>5. ready /\ pending = {}
  BY <1>1 DEF OnceInv, StartUp
<1>6. StartUp' /\ StopSaved'
  BY <1>1, <1>5 DEF OnceInv, StartUp, StopSaved
<1>7. Once => Once'
  BY <1>1 DEF Once, OneFinal, Unanswered
<1> QED
  BY <1>1, <1>4, <1>6, <1>7 DEF OnceInv

\* The four ends of a run under the worker.
LEMMA EndOnce ==
    ASSUME OnceInv, DownInv, RestartTypes, up, UNCHANGED restart,
           StreamEnded \/ TimedOut \/ KillTimedOut \/ TmuxLost
    PROVE  OnceInv'
<1> USE DEF restart
<1>1. CASE pc' = "timeout"
  <2>1. /\ pc = "stream" /\ UNCHANGED <<status, disk, final, queue, cur, sent, launched, stream>>
    BY <1>1 DEF StreamEnded, TimedOut, KillTimedOut, TmuxLost, ReportStopped, ReportResult
  <2> QED
    BY <1>1, <2>1, QuietStep
<1>2. CASE pc' # "timeout"
  <2>1. /\ pc \in {"stream", "timeout"} /\ pc' = "report"
        /\ \E o \in Outcomes : Deliver(o)
        /\ UNCHANGED <<queue, cur, sent, launched, stream>>
    BY <1>2 DEF StreamEnded, TimedOut, KillTimedOut, TmuxLost, ReportStopped, ReportResult,
                Outcomes
  <2>2. \/ status \in {"stopped", "dead"} /\ UNCHANGED <<status, disk>>
        \/ status' \in {"idle", "dead"} /\ disk'.status = status'
    BY <1>2 DEF StreamEnded, TimedOut, KillTimedOut, TmuxLost, ReportStopped, ReportResult, Save
  <2>3. status' # "busy" /\ disk'.status # "busy"
    BY <2>2 DEF OnceInv, StopSaved
  <2> QED
    BY <2>1, <2>3, DecisionStep
<1> QED
  BY <1>1, <1>2

LEMMA WorkerOnce ==
    ASSUME OnceInv, DownInv, RestartTypes, RWorker \/ RTimedOut \/ RFails PROVE OnceInv'
<1> USE DEF files, worker, stops, history, restart
<1>1. up /\ UNCHANGED restart
  BY DEF RWorker, RTimedOut, RFails
<1>2. CASE TakePrompt
  BY <1>1, <1>2, TakeOnce
<1>3. CASE KillOrphan \/ ReadChunk
  BY <1>1, <1>3, QuietStep DEF KillOrphan, ReadChunk
<1>4. CASE WriteScripts \/ Reported
  <2>1. /\ pc # "get" /\ pc # "off" /\ status' = status
        /\ disk' = disk \/ disk'.status = status
        /\ UNCHANGED <<queue, cur, sent, launched, final, stream>>
        /\ pc' = "get" \/ (pc = "hooks" /\ pc' = "send")
    BY <1>4 DEF WriteScripts, Reported, Save
  <2> QED
    BY <1>1, <2>1, QuietStep DEF OnceInv, StopSaved
<1>5. CASE StreamEnded \/ TimedOut \/ KillTimedOut \/ TmuxLost
  BY <1>1, <1>5, EndOnce
<1>6. CASE PromptFails
  <2>1. /\ pc # "get" /\ pc # "off" /\ pc' = "get"
        /\ stream' \in {stream, NoStream} /\ disk' = disk
        /\ status' \in {status, "idle"}
        /\ UNCHANGED <<queue, cur, sent, launched, final>>
    BY <1>6 DEF PromptFails, FailsEarly, FailsAtSave
  <2>2. stream'.of \in {stream.of, NoPrompt}
    BY <2>1 DEF NoStream
  <2> QED
    BY <1>1, <2>1, <2>2, QuietStep DEF OnceInv, StopSaved
<1> QED
  BY <1>2, <1>3, <1>4, <1>5, <1>6 DEF RWorker, RTimedOut, RFails

LEMMA OutsideOnce ==
    ASSUME OnceInv, DownInv, RestartTypes, RBackground \/ REnvironment \/ UNCHANGED rvars
    PROVE  OnceInv'
<1> USE DEF files, worker, stops, history, restart
<1>1. /\ UNCHANGED <<status, disk, queue, pc, cur, sent, launched, final>>
      /\ UNCHANGED restart
  BY DEF RBackground, REnvironment, CtrlC, EnsureStopped, RemoveSession, Environment,
         ClaudeWrites, ClaudeExits, TmuxDies, rvars, vars
<1>2. stream'.of \in {stream.of, NoPrompt}
  <2>1. CASE RemoveSession
    BY <2>1 DEF RemoveSession, NoStream
  <2>2. CASE ClaudeWrites
    BY <2>2 DEF ClaudeWrites, RestartTypes, TypeOK
  <2>3. CASE ~RemoveSession /\ ~ClaudeWrites
    BY <2>3 DEF RBackground, REnvironment, CtrlC, EnsureStopped, Environment,
                ClaudeExits, TmuxDies, rvars, vars
  <2> QED
    BY <2>1, <2>2, <2>3
<1> QED
  BY <1>1, <1>2, QuietStep

\* Places, StartUp, StopSaved and Once hold across restarts.
THEOREM OneReporter == RSpec => []OnceInv
<1>1. RecInv /\ RestartTypes /\ OnceInv /\ [RNext]_rvars => OnceInv'
  BY CrashOnce, RecoverOnce, StartedOnce, MonitorOnce, CallerOnce, BeginOnce, LaunchOnce,
     WorkerOnce, OutsideOnce DEF RNext, RecInv
<1> QED
  BY InitOnce, <1>1, FileRunsAhead, TypeCorrectAcrossRestarts, PTL DEF RSpec

\* OneFinalAcrossRestarts: whoever ends up reporting a run - its worker, the
\* monitor of a later process, or the flush of a buffered result - nobody
\* reports it again, as long as no prompt was begun under a monitored run.
THEOREM OneFinalSurvives == RSpec => []OneFinalAcrossRestarts
<1>1. OnceInv => OneFinalAcrossRestarts
  BY DEF OnceInv, Once, OneFinalAcrossRestarts
<1> QED
  BY OneReporter, <1>1, PTL
=============================================================================

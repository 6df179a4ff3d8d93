------------------------ MODULE CronSchedulerProofs -------------------------
(***************************************************************************)
(* Proofs about the scheduler, for any jobs, sessions and limits: a        *)
(* one-time job is dispatched once, and the sessions of the user are       *)
(* destroyed by nobody else.                                               *)
(***************************************************************************)
EXTENDS CronScheduler, FiniteSetTheorems, TLAPS

SchedulerTypes ==
    /\ enabled \in [Jobs -> BOOLEAN]
    /\ due \in Seq(Jobs)
    /\ step # "sleep" => due # <<>>
    /\ dispatched \in [OneTime -> Nat]
    /\ status = [s \in Sessions |-> status[s]]
    /\ cleanups \in [Sessions -> Nat]

\* A pass has no job twice; a one-time job that was dispatched is off, and in
\* no pass.
OnceInv ==
    /\ \A m, n \in 1..Len(due) : m # n => due[m] # due[n]
    /\ \A j \in OneTime :
          /\ dispatched[j] \in {0, 1}
          /\ dispatched[j] = 1 => ~enabled[j] /\ \A m \in 1..Len(due) : due[m] # j

\* Only sessions made for a job are waited for.
CleanupInv == \A s \in Sessions : cleanups[s] > 0 => s \in auto

SchedulerInv == SchedulerTypes /\ OnceInv /\ CleanupInv /\ UserSessionsKept

-----------------------------------------------------------------------------

LEMMA InitScheduler == Init => SchedulerInv
<1> SUFFICES ASSUME Init PROVE SchedulerInv
  OBVIOUS
<1>1. SchedulerTypes
  BY SchedulerAssumption DEF Init, SchedulerTypes
<1>2. OnceInv
  BY DEF Init, OnceInv
<1>3. CleanupInv /\ UserSessionsKept
  BY DEF Init, CleanupInv, UserSessionsKept
<1> QED
  BY <1>1, <1>2, <1>3 DEF SchedulerInv

\* A step that leaves the pass alone.
LEMMA PassKept ==
    ASSUME SchedulerTypes, OnceInv, UNCHANGED <<enabled, due, dispatched>>
    PROVE  OnceInv'
BY DEF SchedulerTypes, OnceInv

\* A step that destroys no session but those made for a job.
LEMMA SessionsKept ==
    ASSUME SchedulerInv, auto \subseteq auto', byUser \subseteq byUser',
           \A s \in Sessions : cleanups'[s] > 0 => cleanups[s] > 0 \/ s \in auto,
           \A s \in Sessions : status'[s] = "gone" => status[s] = "gone" \/ s \in auto \cup byUser'
    PROVE  CleanupInv' /\ UserSessionsKept'
BY DEF SchedulerInv, CleanupInv, UserSessionsKept

\* The end of the loop body, after at most one dispatch of the current job.
LEMMA NextJobStep ==
    ASSUME SchedulerTypes, OnceInv, NextJob, due # <<>>,
           dispatched' = dispatched \/ Dispatched
    PROVE  /\ OnceInv' /\ enabled' \in [Jobs -> BOOLEAN] /\ due' \in Seq(Jobs)
           /\ step' # "sleep" => due' # <<>>
           /\ dispatched' \in [OneTime -> Nat]
<1> DEFINE job == Head(due)
<1>1. /\ due \in Seq(Jobs) /\ Len(due) \in Nat /\ Len(due) > 0 /\ job = due[1] /\ job \in Jobs
      /\ due' = Tail(due) /\ due' \in Seq(Jobs) /\ Len(due') = Len(due) - 1
      /\ \A m \in 1..Len(due') : due'[m] = due[m + 1] /\ m + 1 \in 1..Len(due)
  BY DEF SchedulerTypes, NextJob
<1>2. step' # "sleep" => due' # <<>>
  BY <1>1 DEF NextJob
<1>3. enabled' = [enabled EXCEPT ![job] = job \notin OneTime]
  BY DEF NextJob, Reschedule
<1>4. enabled' \in [Jobs -> BOOLEAN]
  BY <1>1, <1>3 DEF SchedulerTypes
<1>5. dispatched' \in [OneTime -> Nat]
  BY DEF SchedulerTypes, Dispatched
<1>6. \A m, n \in 1..Len(due') : m # n => due'[m] # due'[n]
  BY <1>1 DEF OnceInv
<1>7. ASSUME NEW j \in OneTime
      PROVE  /\ dispatched'[j] \in {0, 1}
             /\ dispatched'[j] = 1 => ~enabled'[j] /\ \A m \in 1..Len(due') : due'[m] # j
  <2>1. j \in Jobs
    BY SchedulerAssumption
  <2>2. CASE j = job
    <3>1. dispatched[j] = 0
      BY <1>1, <2>2 DEF OnceInv
    <3>2. dispatched'[j] \in {0, 1}
      BY <3>1 DEF Dispatched
    <3>3. ~enabled'[j]
      BY <1>3, <2>1, <2>2 DEF SchedulerTypes
    <3>4. \A m \in 1..Len(due') : due'[m] # j
      BY <1>1, <2>2 DEF OnceInv
    <3> QED
      BY <3>2, <3>3, <3>4
  <2>3. CASE j # job
    <3>1. dispatched'[j] = dispatched[j]
      BY <2>3 DEF Dispatched, SchedulerTypes
    <3>2. enabled'[j] = enabled[j]
      BY <1>3, <2>1, <2>3 DEF SchedulerTypes
    <3> QED
      BY <1>1, <3>1, <3>2 DEF OnceInv
  <2> QED
    BY <2>2, <2>3
<1> QED
  BY <1>1, <1>2, <1>4, <1>5, <1>6, <1>7 DEF OnceInv

\* A pass holds each enabled job that is due once.
LEMMA StartStep == ASSUME SchedulerInv, StartPass PROVE SchedulerInv'
<1> DEFINE D == {j \in Jobs : enabled[j] /\ next[j] = "due"}
<1>1. PICK pass \in SetToSeqs(D) : due' = pass /\ pass # <<>>
  BY DEF StartPass
<1>2. Cardinality(D) \in Nat
  BY SchedulerAssumption, FS_Subset, FS_CardinalityType
<1>3. /\ due' \in [1..Cardinality(D) -> D]
      /\ \A m, n \in 1..Cardinality(D) : m # n => due'[m] # due'[n]
  BY <1>1 DEF SetToSeqs
<1>4. due' \in Seq(Jobs) /\ Len(due') = Cardinality(D) /\ \A m \in 1..Len(due') : due'[m] \in D
  <2>1. PICK n \in Nat : n = Cardinality(D)
    BY <1>2
  <2>2. due' \in [1..n -> Jobs] /\ \A m \in 1..n : due'[m] \in D
    BY <1>3, <2>1
  <2>3. due' \in Seq(Jobs) /\ Len(due') = n
    BY <2>2
  <2> QED
    BY <2>1, <2>2, <2>3
<1>5. /\ UNCHANGED <<enabled, dispatched, status, cleanups, auto, byUser>>
      /\ step' = "check"
  BY DEF StartPass, store, sessions, history
<1>6. SchedulerTypes'
  BY <1>1, <1>4, <1>5 DEF SchedulerInv, SchedulerTypes
<1>7. OnceInv'
  BY <1>3, <1>4, <1>5 DEF SchedulerInv, OnceInv
<1> QED
  BY <1>5, <1>6, <1>7 DEF SchedulerInv, CleanupInv, UserSessionsKept

\* The steps of a pass that dispatch, defer or give up the current job.
LEMMA JobStep ==
    ASSUME SchedulerInv, NextJob, step # "sleep", dispatched' = dispatched \/ Dispatched,
           cleanups' = cleanups, auto \subseteq auto', byUser' = byUser,
           status' = [s \in Sessions |-> status'[s]],
           \A s \in Sessions : status'[s] = "gone" => status[s] = "gone"
    PROVE  SchedulerInv'
<1>1. SchedulerTypes /\ OnceInv /\ due # <<>>
  BY DEF SchedulerInv, SchedulerTypes
<1>2. /\ OnceInv' /\ enabled' \in [Jobs -> BOOLEAN] /\ due' \in Seq(Jobs)
      /\ step' # "sleep" => due' # <<>>
      /\ dispatched' \in [OneTime -> Nat]
  BY <1>1, NextJobStep
<1>3. SchedulerTypes'
  BY <1>1, <1>2 DEF SchedulerTypes
<1>4. CleanupInv' /\ UserSessionsKept'
  BY DEF SchedulerInv, CleanupInv, UserSessionsKept
<1> QED
  BY <1>2, <1>3, <1>4 DEF SchedulerInv

LEMMA CreateStep == ASSUME SchedulerInv, CreateSession PROVE SchedulerInv'
<1>1. step # "sleep" /\ UNCHANGED <<sessions, cleanups, history>>
  BY DEF CreateSession
<1>2. CASE NextJob
  BY <1>1, <1>2, JobStep DEF SchedulerInv, SchedulerTypes, sessions, history
<1>3. CASE step' = "create" /\ UNCHANGED <<due, store>>
  <2>1. SchedulerTypes'
    BY <1>1, <1>3 DEF SchedulerInv, SchedulerTypes, sessions, history, store
  <2> QED
    BY <1>1, <1>3, <2>1, PassKept
    DEF SchedulerInv, CleanupInv, UserSessionsKept, sessions, history, store
<1> QED
  BY <1>2, <1>3 DEF CreateSession

LEMMA DispatchStep ==
    ASSUME SchedulerInv, Defer \/ CreateFails \/ DispatchReuse
                         \/ \E s \in Sessions : DispatchNew(s)
    PROVE  SchedulerInv'
<1>1. status = [s \in Sessions |-> status[s]] /\ Home \in Sessions
  BY SchedulerAssumption DEF SchedulerInv, SchedulerTypes
<1>2. CASE Defer \/ CreateFails
  BY <1>1, <1>2, JobStep DEF Defer, CreateFails, sessions, history
<1>3. CASE DispatchReuse
  <2>1. /\ status' = [s \in Sessions |-> status'[s]]
        /\ \A s \in Sessions : status'[s] = "gone" => status[s] = "gone"
    BY <1>1, <1>3 DEF DispatchReuse
  <2> QED
    BY <1>3, <2>1, JobStep DEF DispatchReuse
<1>4. ASSUME NEW s \in Sessions, DispatchNew(s) PROVE SchedulerInv'
  <2>1. /\ status' = [q \in Sessions |-> status'[q]]
        /\ \A q \in Sessions : status'[q] = "gone" => status[q] = "gone"
    BY <1>1, <1>4 DEF DispatchNew
  <2> QED
    BY <1>4, <2>1, JobStep DEF DispatchNew
<1> QED
  BY <1>2, <1>3, <1>4

\* Sessions that end: by reclaiming, by a cleanup, or by the user.
LEMMA PoppedStep ==
    ASSUME SchedulerInv, NEW s \in Sessions, Popped(s), s \in auto \cup byUser',
           UNCHANGED <<enabled, due, auto, dispatched>>, byUser \subseteq byUser',
           cleanups' \in [Sessions -> Nat], \A q \in Sessions : cleanups'[q] <= cleanups[q],
           step' # "sleep" => step # "sleep"
    PROVE  SchedulerInv'
<1>1. /\ status' = [q \in Sessions |-> status'[q]]
      /\ \A q \in Sessions : q # s => status'[q] = status[q]
  BY DEF Popped, SchedulerInv, SchedulerTypes
<1>2. SchedulerTypes'
  BY <1>1 DEF SchedulerInv, SchedulerTypes
<1>3. \A q \in Sessions : cleanups'[q] > 0 => cleanups[q] > 0
  BY DEF SchedulerInv, SchedulerTypes
<1>4. CleanupInv' /\ UserSessionsKept'
  BY <1>1, <1>3, SessionsKept
<1> QED
  BY <1>2, <1>4, PassKept DEF SchedulerInv

\* Steps of sessions that end none.
LEMMA SessionStep ==
    ASSUME SchedulerInv, UNCHANGED <<enabled, scheduler, auto, dispatched, byUser>>,
           cleanups' \in [Sessions -> Nat],
           \A s \in Sessions : cleanups'[s] > 0 => cleanups[s] > 0 \/ s \in auto,
           status' = [s \in Sessions |-> status'[s]],
           \A s \in Sessions : status'[s] = "gone" => status[s] = "gone"
    PROVE  SchedulerInv'
<1>1. SchedulerTypes' /\ OnceInv'
  BY PassKept DEF SchedulerInv, SchedulerTypes, scheduler
<1>2. CleanupInv' /\ UserSessionsKept'
  BY SessionsKept
<1> QED
  BY <1>1, <1>2 DEF SchedulerInv

LEMMA ReclaimStep == ASSUME SchedulerInv, NEW s \in Sessions, Reclaim(s) PROVE SchedulerInv'
<1>1. cleanups \in [Sessions -> Nat]
  BY DEF SchedulerInv, SchedulerTypes
<1> QED
  BY <1>1, PoppedStep DEF Reclaim, store, history

LEMMA CleanupStep == ASSUME SchedulerInv, NEW s \in Sessions, Cleanup(s) PROVE SchedulerInv'
<1>1. /\ cleanups \in [Sessions -> Nat] /\ cleanups[s] > 0 /\ s \in auto
      /\ cleanups' = [cleanups EXCEPT ![s] = @ - 1]
      /\ UNCHANGED <<enabled, scheduler, due, step, auto, dispatched, byUser>>
  BY DEF Cleanup, SchedulerInv, SchedulerTypes, CleanupInv, store, scheduler, history
<1>2. cleanups' \in [Sessions -> Nat] /\ \A q \in Sessions : cleanups'[q] <= cleanups[q]
  BY <1>1
<1>3. CASE Popped(s)
  BY <1>1, <1>2, <1>3, PoppedStep
<1>4. CASE status' = status
  <2>1. \A q \in Sessions : cleanups'[q] > 0 => cleanups[q] > 0
    BY <1>1
  <2> QED
    BY <1>1, <1>2, <1>4, <2>1, SessionStep DEF SchedulerInv, SchedulerTypes
<1> QED
  BY <1>3, <1>4 DEF Cleanup

LEMMA DeleteStep == ASSUME SchedulerInv, NEW s \in Sessions, UserDeletes(s) PROVE SchedulerInv'
<1>1. cleanups \in [Sessions -> Nat]
  BY DEF SchedulerInv, SchedulerTypes
<1> QED
  BY <1>1, PoppedStep DEF UserDeletes, store, scheduler

LEMMA FinalStep == ASSUME SchedulerInv, NEW s \in Sessions, Final(s) PROVE SchedulerInv'
<1>1. /\ cleanups \in [Sessions -> Nat] /\ status = [q \in Sessions |-> status[q]]
      /\ UNCHANGED <<enabled, scheduler, auto, dispatched, byUser>>
  BY DEF Final, SchedulerInv, SchedulerTypes, store, history
<1>2. /\ cleanups' \in [Sessions -> Nat]
      /\ \A q \in Sessions : cleanups'[q] > 0 => cleanups[q] > 0 \/ q \in auto
  BY <1>1 DEF Final, OnDelivery
<1>3. /\ status' = [q \in Sessions |-> status'[q]]
      /\ \A q \in Sessions : status'[q] = "gone" => status[q] = "gone"
  BY <1>1 DEF Final
<1> QED
  BY <1>1, <1>2, <1>3, SessionStep

LEMMA OtherSteps ==
    ASSUME SchedulerInv, NEW s \in Sessions,
           Begin(s) \/ PromptFails(s) \/ UserSends(s) \/ UserStops(s) \/ UserCreates(s)
    PROVE  SchedulerInv'
<1>1. /\ cleanups \in [Sessions -> Nat] /\ status = [q \in Sessions |-> status[q]]
      /\ UNCHANGED <<enabled, scheduler, auto, dispatched, byUser, cleanups>>
  BY DEF Begin, PromptFails, UserSends, UserStops, UserCreates, SchedulerInv, SchedulerTypes, store, history
<1>2. /\ status' = [q \in Sessions |-> status'[q]]
      /\ \A q \in Sessions : status'[q] = "gone" => status[q] = "gone"
  BY <1>1 DEF Begin, PromptFails, UserSends, UserStops, UserCreates
<1> QED
  BY <1>1, <1>2, SessionStep

LEMMA TimeStep == ASSUME SchedulerInv, NEW j \in Jobs, TimePasses(j) PROVE SchedulerInv'
<1>1. UNCHANGED <<enabled, scheduler, auto, dispatched, byUser, cleanups, status>>
  BY DEF TimePasses, sessions, history
<1> QED
  BY <1>1, SessionStep DEF SchedulerInv, SchedulerTypes

\* The inductive invariant of the scheduler.
THEOREM SchedulerHolds == Spec => []SchedulerInv
<1>1. SchedulerInv /\ [Next]_vars => SchedulerInv'
  <2> SUFFICES ASSUME SchedulerInv, [Next]_vars PROVE SchedulerInv'
    OBVIOUS
  <2>1. CASE UNCHANGED vars
    BY <2>1, SessionStep DEF vars, store, sessions, history, SchedulerInv, SchedulerTypes
  <2>2. CASE Scheduler
    BY <2>2, StartStep, CreateStep, DispatchStep, ReclaimStep DEF Scheduler
  <2>3. ASSUME NEW s \in Sessions,
               Session(s) \/ Cleanup(s) \/ UserSends(s) \/ UserStops(s) \/ UserDeletes(s)
                 \/ UserCreates(s)
        PROVE  SchedulerInv'
    BY <2>3, FinalStep, CleanupStep, DeleteStep, OtherSteps DEF Session
  <2> QED
    BY <2>1, <2>2, <2>3, TimeStep DEF Next
<1> QED
  BY InitScheduler, <1>1, PTL DEF Spec

\* OneTimeOnce: the loop of _check_due_jobs disables a one-time job in the step that
\* dispatches it, and a pass that was begun does not hold it again.
THEOREM OneTimeJobsRunOnce == Spec => []OneTimeOnce
<1>1. SchedulerInv => OneTimeOnce
  BY DEF SchedulerInv, OnceInv, OneTimeOnce
<1> QED
  BY SchedulerHolds, <1>1, PTL

\* UserSessionsKept: neither the reclaiming nor _delayed_cleanup destroys a session
\* that no job created, whatever job_id its context holds.
THEOREM UserSessionsAreKept == Spec => []UserSessionsKept
BY SchedulerHolds, PTL DEF SchedulerInv
=============================================================================

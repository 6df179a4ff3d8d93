---------------------------- MODULE CronScheduler ----------------------------
(***************************************************************************)
(* The scheduler of the cron extension and the sessions of one user: the   *)
(* passes of _check_due_jobs, the two strategies, the reclaiming of cron   *)
(* sessions when the slots are full, and their cleanup after delivery.     *)
(*                                                                         *)
(* A session is reduced to what the scheduler and the user can tell of     *)
(* SessionManager: its status, its queue and what runs in it.  The         *)
(* scheduler awaits nothing but tmux, in create_session and                *)
(* destroy_session; the job store is taken as serial (see CronStore), and   *)
(* the main process does not restart (see SessionRecovery).                *)
(***************************************************************************)
EXTENDS Naturals, Sequences, FiniteSets, SequencesExt

CONSTANTS
    Jobs,
    OneTime,        \* the jobs with run_at; the others have cron_expr
    Reuse,          \* the jobs with session_strategy "reuse"
    Sessions,
    Home,           \* the user's session, target of the reuse jobs
    User,           \* a prompt of the user
    Nothing,
    MaxSessions,    \* max_sessions_per_user
    MaxPrompts,     \* bound: prompts of the user
    MaxQueued       \* bound: prompts in the queue of Home when a job falls due

ASSUME SchedulerAssumption ==
    /\ IsFiniteSet(Jobs) /\ OneTime \subseteq Jobs /\ Reuse \subseteq Jobs
    /\ Home \in Sessions
    /\ User \notin Jobs /\ Nothing \notin Jobs \cup {User}
    /\ MaxSessions \in Nat \ {0} /\ MaxPrompts \in Nat /\ MaxQueued \in Nat

VARIABLES
    next,       \* next_run of each job: due | later | never
    enabled,
    step,       \* the scheduler: sleep | check | destroy | create
    due,        \* the jobs of the present pass, its current one first
    status,     \* of each session: unborn | idle | busy | stopped | dead | gone
    queue, running,     \* of each session: its prompts
    auto,       \* the sessions tagged auto_cleanup
    jobId,      \* the cron job_id in the context of each session
    cleanups,   \* _delayed_cleanup tasks that sleep, for each session
    prompts,    \* prompts the user has sent
    dispatched, \* prompts sent for each one-time job
    deferred,   \* one-time jobs deferred for want of a slot
    byUser,     \* sessions the user has deleted
    failed      \* sessions whose last prompt ended by an exception, unreported

sessions == <<status, queue, running, auto, jobId>>
scheduler == <<step, due>>
store == <<next, enabled>>
history == <<prompts, dispatched, deferred, byUser, failed>>
vars == <<store, scheduler, sessions, cleanups, history>>

Present == {s \in Sessions : status[s] \notin {"unborn", "gone"}}

Init ==
    /\ next = [j \in Jobs |-> "later"]
    /\ enabled = [j \in Jobs |-> TRUE]
    /\ step = "sleep" /\ due = <<>>
    /\ status = [s \in Sessions |-> IF s = Home THEN "idle" ELSE "unborn"]
    /\ queue = [s \in Sessions |-> <<>>]
    /\ running = [s \in Sessions |-> Nothing]
    /\ auto = {}
    /\ jobId = [s \in Sessions |-> Nothing]
    /\ cleanups = [s \in Sessions |-> 0]
    /\ prompts = 0
    /\ dispatched = [j \in OneTime |-> 0]
    /\ deferred = {}
    /\ byUser = {} /\ failed = {}

-----------------------------------------------------------------------------
(* The scheduler.                                                          *)

TimePasses(j) ==
    /\ next[j] = "later"
    /\ Len(queue[Home]) < MaxQueued
    /\ next' = [next EXCEPT ![j] = "due"]
    /\ UNCHANGED <<enabled, scheduler, sessions, cleanups, history>>

\* get_due_jobs: the due jobs, in whatever order the store has them.
StartPass ==
    /\ step = "sleep"
    /\ \E pass \in SetToSeqs({j \in Jobs : enabled[j] /\ next[j] = "due"}) :
          /\ pass # <<>>
          /\ due' = pass
    /\ step' = "check"
    /\ UNCHANGED <<store, sessions, cleanups, history>>

\* Mutants: a one-time job stays on; next_run stays in the past.
Reschedule_On(j) == next' = [next EXCEPT ![j] = "later"] /\ UNCHANGED enabled
Reschedule_Past(j) == UNCHANGED <<next, enabled>>

\* A recurring job gets its next time, a one-time job is disabled.
Reschedule(j) ==
    /\ next' = [next EXCEPT ![j] = IF j \in OneTime THEN "never" ELSE "later"]
    /\ enabled' = [enabled EXCEPT ![j] = j \notin OneTime]

\* The end of the loop body, whatever became of the job.
NextJob ==
    /\ due' = Tail(due)
    /\ step' = IF Len(due) = 1 THEN "sleep" ELSE "check"
    /\ Reschedule(Head(due))

Popped(s) ==
    /\ status' = [status EXCEPT ![s] = "gone"]
    /\ queue' = [queue EXCEPT ![s] = <<>>]
    /\ running' = [running EXCEPT ![s] = Nothing]

\* _execute_new with a free slot, and _fallback_resume, call create_session,
\* which checks the limit again and then awaits tmux.
CreateSession ==
    /\ \/ step = "destroy"
       \/ /\ step = "check"
          /\ \/ Head(due) \notin Reuse /\ Cardinality(Present) < MaxSessions
             \/ Head(due) \in Reuse /\ status[Home] \in {"dead", "gone"}
    /\ IF Cardinality(Present) < MaxSessions
       THEN step' = "create" /\ UNCHANGED <<due, store>>
       ELSE NextJob     \* RuntimeError, logged
    /\ UNCHANGED <<sessions, cleanups, history>>

\* No free slot: an idle cron session is destroyed, up to the await of tmux.
Reclaim(s) ==
    /\ step = "check"
    /\ Head(due) \notin Reuse
    /\ Cardinality(Present) >= MaxSessions
    /\ s \in auto /\ status[s] \in {"idle", "stopped"}
    /\ Popped(s)
    /\ step' = "destroy"
    /\ UNCHANGED <<due, store, auto, jobId, cleanups, history>>

\* No free slot and none to reclaim.  update_job(next_run=now) is overwritten
\* by the end of the loop body.
Defer ==
    /\ step = "check"
    /\ Head(due) \notin Reuse
    /\ Cardinality(Present) >= MaxSessions
    /\ \A s \in auto : status[s] \notin {"idle", "stopped"}
    /\ NextJob
    /\ deferred' = deferred \cup ({Head(due)} \cap OneTime)
    /\ UNCHANGED <<sessions, cleanups, prompts, dispatched, byUser, failed>>

Dispatched ==
    dispatched' = [j \in OneTime |-> dispatched[j] + (IF j = Head(due) THEN 1 ELSE 0)]

\* tmux is up: the session is registered and tagged, the prompt sent.
DispatchNew(s) ==
    /\ step = "create"
    /\ status[s] = "unborn"
    /\ status' = [status EXCEPT ![s] = "idle"]
    /\ auto' = auto \cup {s}
    /\ jobId' = [jobId EXCEPT ![s] = Head(due)]
    /\ queue' = [queue EXCEPT ![s] = <<Head(due)>>]
    /\ Dispatched
    /\ NextJob
    /\ UNCHANGED <<running, cleanups, prompts, deferred, byUser, failed>>

CreateFails ==
    /\ step = "create"
    /\ NextJob
    /\ UNCHANGED <<sessions, cleanups, history>>

\* _execute_reuse with its session there and not DEAD.
DispatchReuse ==
    /\ step = "check"
    /\ Head(due) \in Reuse
    /\ status[Home] \notin {"dead", "gone"}
    /\ status' = [status EXCEPT ![Home] = IF @ = "stopped" THEN "idle" ELSE @]
    /\ jobId' = [jobId EXCEPT ![Home] = Head(due)]
    /\ queue' = [queue EXCEPT ![Home] = Append(@, Head(due))]
    /\ Dispatched
    /\ NextJob
    /\ UNCHANGED <<running, auto, cleanups, prompts, deferred, byUser, failed>>

\* Mutants: any session with a job_id is cleaned up; only the job's own end counts.
OnDelivery_AnyJob(s) ==
    cleanups' = IF jobId[s] # Nothing THEN [cleanups EXCEPT ![s] = @ + 1] ELSE cleanups
OnDelivery_JobOnly(s) ==
    cleanups' = IF s \in auto /\ running[s] \in Jobs
                THEN [cleanups EXCEPT ![s] = @ + 1] ELSE cleanups

\* _on_delivery of a final event: a session created for a job is cleaned up
\* later, whoever sent the prompt.
OnDelivery(s) ==
    cleanups' = IF jobId[s] # Nothing /\ s \in auto
                THEN [cleanups EXCEPT ![s] = @ + 1]
                ELSE cleanups

\* _delayed_cleanup wakes up.
Cleanup(s) ==
    /\ cleanups[s] > 0
    /\ cleanups' = [cleanups EXCEPT ![s] = @ - 1]
    /\ IF status[s] \in {"idle", "stopped"}
       THEN Popped(s)
       ELSE UNCHANGED <<status, queue, running>>
    /\ UNCHANGED <<store, scheduler, auto, jobId, history>>

-----------------------------------------------------------------------------
(* SessionManager and the user.                                            *)

\* The worker takes a prompt, also in a session that an exception left busy;
\* it drops it in a dead session, or when clearing the pane raises (757).
Begin(s) ==
    /\ running[s] = Nothing
    /\ queue[s] # <<>>
    /\ queue' = [queue EXCEPT ![s] = Tail(@)]
    /\ \/ /\ status[s] \in {"idle", "busy"}
          /\ status' = [status EXCEPT ![s] = "busy"]
          /\ running' = [running EXCEPT ![s] = Head(queue[s])]
          /\ failed' = failed \ {s}
       \/ UNCHANGED <<status, running, failed>>
    /\ UNCHANGED <<store, scheduler, auto, jobId, cleanups,
                   prompts, dispatched, deferred, byUser>>

\* The final delivery, and _on_delivery of the cron extension.  A run ends
\* idle, or reports that its session was stopped or has died.
Final(s) ==
    /\ running[s] # Nothing
    /\ running' = [running EXCEPT ![s] = Nothing]
    /\ \/ status[s] = "busy" /\ status' = [status EXCEPT ![s] = "idle"]
       \/ status[s] # "busy" /\ UNCHANGED status
       \/ status' = [status EXCEPT ![s] = "dead"]
    /\ OnDelivery(s)
    /\ UNCHANGED <<store, scheduler, queue, auto, jobId, history>>

\* An exception ends a run (743): no final event, and the session stays busy,
\* or is idle if the save after the run is what raised (823).
PromptFails(s) ==
    /\ running[s] # Nothing
    /\ running' = [running EXCEPT ![s] = Nothing]
    /\ \/ status[s] = "busy" /\ status' = [status EXCEPT ![s] = "idle"]
       \/ UNCHANGED status
    /\ failed' = failed \cup {s}
    /\ UNCHANGED <<store, scheduler, queue, auto, jobId, cleanups,
                   prompts, dispatched, deferred, byUser>>

UserSends(s) ==
    /\ s \in Present /\ status[s] # "dead"
    /\ prompts < MaxPrompts
    /\ prompts' = prompts + 1
    /\ status' = [status EXCEPT ![s] = IF @ = "stopped" THEN "idle" ELSE @]
    /\ queue' = [queue EXCEPT ![s] = Append(@, User)]
    /\ UNCHANGED <<store, scheduler, running, auto, jobId, cleanups,
                   dispatched, deferred, byUser, failed>>

UserStops(s) ==
    /\ s \in Present
    /\ queue' = [queue EXCEPT ![s] = <<>>]
    /\ status' = [status EXCEPT ![s] = IF @ = "busy" THEN "stopped" ELSE @]
    /\ UNCHANGED <<store, scheduler, running, auto, jobId, cleanups, history>>

UserDeletes(s) ==
    /\ s \in Present
    /\ Popped(s)
    /\ byUser' = byUser \cup {s}
    /\ UNCHANGED <<store, scheduler, auto, jobId, cleanups,
                   prompts, dispatched, deferred, failed>>

\* create_session for the user; its own await of tmux is in SessionSlots.
UserCreates(s) ==
    /\ status[s] = "unborn"
    /\ Cardinality(Present) < MaxSessions
    /\ status' = [status EXCEPT ![s] = "idle"]
    /\ UNCHANGED <<store, scheduler, queue, running, auto, jobId, cleanups, history>>

Scheduler ==
    \/ StartPass \/ CreateSession \/ Defer \/ CreateFails \/ DispatchReuse
    \/ \E s \in Sessions : Reclaim(s) \/ DispatchNew(s)

Session(s) == Begin(s) \/ Final(s) \/ PromptFails(s)

Next ==
    \/ \E j \in Jobs : TimePasses(j)
    \/ Scheduler
    \/ \E s \in Sessions : \/ Session(s) \/ Cleanup(s)
                           \/ UserSends(s) \/ UserStops(s)
                           \/ UserDeletes(s) \/ UserCreates(s)

Spec == Init /\ [][Next]_vars

\* The scheduler, session tasks and sleeping cleanups proceed; a run ends by
\* session_timeout at the latest, with its final event or by an exception.
FairSpec ==
    /\ Spec
    /\ WF_vars(Scheduler)
    /\ \A s \in Sessions : WF_vars(Session(s)) /\ WF_vars(Cleanup(s))

-----------------------------------------------------------------------------
(* Properties.                                                             *)

\* A one-time job is never dispatched twice, though its next_run is rewritten
\* by two places (203, 162), and once its pass is over it is off.
OneTimeOnce ==
    \A j \in OneTime : /\ dispatched[j] <= 1
                       /\ dispatched[j] = 1 /\ j \notin Range(due) => ~enabled[j]

\* The scheduler, reclaiming or cleaning up, only ever destroys sessions that
\* it created: a user's session that a reuse job wrote its job_id into, and
\* whose finals _on_delivery therefore follows, ends by the user's hand.
UserSessionsKept == \A s \in Sessions : status[s] = "gone" => s \in auto \cup byUser

\* A cron session that has delivered a final event gives its slot back, even
\* if the user prompts or stops it in the 5 seconds before its cleanup: a
\* cleanup that finds it busy is followed by that prompt's own.  Not so if the
\* session dies, or if that prompt ends by an exception, after which it keeps
\* its slot until another prompt of it ends.
CronSessionsEnd ==
    \A s \in Sessions : cleanups[s] > 0 ~> status[s] \in {"gone", "dead"} \/ s \in failed

\* A due job is dealt with, dispatched, deferred or failed, whatever the user
\* does to the sessions while the scheduler waits for tmux.
DueIsHandled == \A j \in Jobs : enabled[j] /\ next[j] = "due" ~> next[j] # "due"

-----------------------------------------------------------------------------
(* What the comments of the code say and the code does not do.             *)

\* "Nudge next_run forward by one interval to retry" (201): a one-time job
\* that found no slot stays on to be tried again.
DeferredIsRetried == step = "sleep" => \A j \in deferred : enabled[j]
=============================================================================

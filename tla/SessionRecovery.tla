-------------------------- MODULE SessionRecovery ---------------------------
(***************************************************************************)
(* A session across restarts of the asyncio process.  The process may stop *)
(* at any step (crash, kill, or shutdown(), which cancels the tasks and    *)
(* keeps tmux alive); Claude goes on in its pane.  The next process calls  *)
(* SessionManager.recover() and only then starts the extensions, which     *)
(* register the delivery callbacks (main.py).                              *)
(*                                                                         *)
(* Everything SessionManager models happens while the process is up.  What *)
(* a restart adds is a second reader of the session's files, the task      *)
(* _resume_monitor, beside a worker whose queue is empty.                  *)
(***************************************************************************)
EXTENDS SessionManager

CONSTANT MaxFaults      \* bound: restarts of the process and failed prompts together

VARIABLES
    up,         \* the process is running and has recovered the session
    ready,      \* start_all is over: callbacks registered, flush enabled
    monitor,    \* _resume_monitor: off | stream | report
    mpos,       \* chunks the monitor has read
    pending,    \* owners of the results in _pending_deliveries
    \* History:
    crashes,
    freshStarts,    \* runs started with --session-id rather than --resume
    overlap         \* a prompt was begun while the monitor was streaming

restart == <<up, ready, monitor, mpos, pending, crashes, freshStarts, overlap>>
rvars == <<vars, restart>>

RInit ==
    /\ Init
    /\ up = TRUE /\ ready = TRUE
    /\ monitor = "off" /\ mpos = 0
    /\ pending = {}
    /\ crashes = 0 /\ freshStarts = 0 /\ overlap = FALSE

\* Final events name only the session; the frontend reads them as the answer
\* to the run whose output the files hold.
Finish(owner, outcome) ==
    final' = [p \in Prompts |-> IF p = owner THEN Append(final[p], outcome) ELSE final[p]]

-----------------------------------------------------------------------------
(* The end of one process and the start of the next.                       *)

FaultsLeft == crashes + Cardinality(failed) < MaxFaults

\* Tasks, queue and buffers go with the process; files and panes stay.
Crash ==
    /\ up
    /\ FaultsLeft
    /\ crashes' = crashes + 1
    /\ up' = FALSE /\ ready' = FALSE
    /\ pc' = "off" /\ cur' = NoPrompt /\ pos' = 0
    /\ queue' = <<>>
    /\ ctrlcs' = 0 /\ ensures' = 0
    /\ monitor' = "off" /\ mpos' = 0
    /\ pending' = {}
    /\ UNCHANGED <<life, status, count, files, tmux, pane, history, freshStarts, overlap>>

\* recover(): the session is registered with a fresh queue and worker.  Its
\* directory is all that counts, so a half destroyed session comes back.
Recovered ==
    /\ ~up
    /\ life # "gone"
    /\ up' = TRUE
    /\ life' = "live"
    /\ count' = disk.count
    /\ pc' = "get"

\* Saved BUSY, and the run finished meanwhile: its result is buffered.
RecoverFinished ==
    /\ Recovered
    /\ disk.status = "busy" /\ tmux /\ exitcode
    /\ status' = "idle"
    /\ Save("idle", disk.count)
    /\ pending' = {stream.of}
    /\ UNCHANGED <<stream, exitcode, queue, cur, pos, tmux, pane, stops, history,
                   ready, monitor, mpos, crashes, freshStarts, overlap>>

\* Mutant: the run that goes on is not followed.
RecoverRunning_Unfollowed ==
    /\ Recovered /\ disk.status = "busy" /\ tmux /\ ~exitcode /\ status' = "busy"
    /\ UNCHANGED <<files, queue, cur, pos, tmux, pane, stops, history, ready, monitor,
                   mpos, pending, crashes, freshStarts, overlap>>

\* Saved BUSY and no exit code: the run is monitored.
RecoverRunning ==
    /\ Recovered
    /\ disk.status = "busy" /\ tmux /\ ~exitcode
    /\ status' = "busy"
    /\ monitor' = "stream"
    /\ mpos' = 0
    /\ UNCHANGED <<files, queue, cur, pos, tmux, pane, stops, history,
                   ready, pending, crashes, freshStarts, overlap>>

\* Mutant: the status of a session with a new tmux session is not saved.
RecoverAtRest_Unsaved ==
    /\ Recovered /\ disk.status \in {"idle", "stopped"}
    /\ status' = IF tmux THEN disk.status ELSE "idle"
    /\ tmux' = TRUE
    /\ UNCHANGED <<files, queue, cur, pos, pane, stops, history, ready, monitor,
                   mpos, pending, crashes, freshStarts, overlap>>

\* Not running: reconnected, or its tmux session created anew.
RecoverAtRest ==
    /\ Recovered
    /\ disk.status \in {"idle", "stopped"}
    /\ status' = IF tmux THEN disk.status ELSE "idle"
    /\ Save(status', disk.count)
    /\ tmux' = TRUE
    /\ UNCHANGED <<stream, exitcode, queue, cur, pos, pane, stops, history,
                   ready, monitor, mpos, pending, crashes, freshStarts, overlap>>

\* Saved DEAD, or no tmux session and none that replaces it.
RecoverDead ==
    /\ Recovered
    /\ ~tmux \/ disk.status = "dead"
    /\ status' = "dead"
    /\ Save("dead", disk.count)
    /\ UNCHANGED <<stream, exitcode, queue, cur, pos, tmux, pane, stops, history,
                   ready, monitor, mpos, pending, crashes, freshStarts, overlap>>

\* start_all is over: the flush delivers what recover() buffered.
ExtensionsStarted ==
    /\ up /\ ~ready
    /\ ready' = TRUE
    /\ pending' = {}
    /\ final' = [p \in Prompts |-> IF p \in pending THEN Append(final[p], "completed")
                                                   ELSE final[p]]
    /\ UNCHANGED <<life, status, count, files, queue, worker, tmux, pane, stops,
                   sent, launched, barred, halted, texts, failed,
                   up, monitor, mpos, crashes, freshStarts, overlap>>

-----------------------------------------------------------------------------
(* The resumed monitor.                                                    *)

\* deliver() reaches nobody until callbacks are registered.
MonitorReads ==
    /\ monitor = "stream"
    /\ mpos < stream.len
    /\ mpos' = mpos + 1
    /\ texts' = IF status = "busy" /\ ready
                THEN [texts EXCEPT ![stream.of] = Append(@, mpos + 1)]
                ELSE texts
    /\ UNCHANGED <<life, status, count, files, queue, worker, tmux, pane, stops,
                   sent, launched, barred, halted, final, failed,
                   up, ready, monitor, pending, crashes, freshStarts, overlap>>

\* The stream ended or timed out: no report for a STOPPED or DEAD session,
\* and no kill after a timeout.
MonitorEnds(outcome) ==
    /\ monitor = "stream"
    /\ outcome = "completed" => exitcode /\ mpos >= stream.len
    /\ \/ /\ status \in {"stopped", "dead"}
          /\ monitor' = "off"
          /\ UNCHANGED <<status, disk, final>>
       \/ /\ status \notin {"stopped", "dead"}
          /\ monitor' = "report"
          /\ status' = "idle"
          /\ Save("idle", count)
          /\ IF ready THEN Finish(stream.of, outcome) ELSE UNCHANGED final
    /\ UNCHANGED <<life, count, stream, exitcode, queue, worker, tmux, pane, stops,
                   sent, launched, barred, halted, texts, failed,
                   up, ready, mpos, pending, crashes, freshStarts, overlap>>

MonitorLosesTmux ==
    /\ monitor = "stream"
    /\ ~tmux
    /\ monitor' = "off"
    /\ status' = "dead"
    /\ Save("dead", count)
    /\ UNCHANGED <<life, count, stream, exitcode, queue, worker, tmux, pane, stops,
                   history, up, ready, mpos, pending, crashes, freshStarts, overlap>>

MonitorReported ==
    /\ monitor = "report"
    /\ monitor' = "off"
    /\ Save(status, count)
    /\ UNCHANGED <<life, status, count, stream, exitcode, queue, worker, tmux, pane,
                   stops, history, up, ready, mpos, pending, crashes, freshStarts,
                   overlap>>

-----------------------------------------------------------------------------
(* SessionManager's actions while the process is up.                       *)

\* The frontends exist once the extensions have started.
RCaller ==
    /\ up /\ ready
    /\ \/ (\E p \in Prompts : SendPrompt(p)) /\ UNCHANGED monitor
       \/ StopSession /\ UNCHANGED monitor
       \/ DestroySession /\ monitor' = "off"
    /\ UNCHANGED <<up, ready, mpos, pending, crashes, freshStarts, overlap>>

\* is_first: prompt_count was 0 before BeginPrompt counted this prompt.
RLaunch ==
    /\ up
    /\ Launch
    /\ freshStarts' = IF tmux /\ count = 1 THEN freshStarts + 1 ELSE freshStarts
    /\ UNCHANGED <<up, ready, monitor, mpos, pending, crashes, overlap>>

RBegin ==
    /\ up
    /\ BeginPrompt
    /\ overlap' = (overlap \/ monitor = "stream")
    /\ UNCHANGED <<up, ready, monitor, mpos, pending, crashes, freshStarts>>

RWorker ==
    /\ up
    /\ \/ TakePrompt \/ KillOrphan \/ WriteScripts
       \/ ReadChunk \/ StreamEnded \/ KillTimedOut \/ TmuxLost \/ Reported
    /\ UNCHANGED restart

RFails == up /\ FaultsLeft /\ PromptFails /\ UNCHANGED restart

RTimedOut == up /\ TimedOut /\ UNCHANGED restart

RBackground == up /\ (CtrlC \/ EnsureStopped \/ RemoveSession) /\ UNCHANGED restart

REnvironment == Environment /\ UNCHANGED restart

Monitor == MonitorReads \/ MonitorEnds("completed") \/ MonitorLosesTmux \/ MonitorReported

Recover == RecoverFinished \/ RecoverRunning \/ RecoverAtRest \/ RecoverDead

RNext ==
    \/ Crash \/ Recover \/ ExtensionsStarted
    \/ Monitor \/ MonitorEnds("timeout")
    \/ RCaller \/ RLaunch \/ RBegin \/ RWorker \/ RTimedOut \/ RFails
    \/ RBackground
    \/ REnvironment

RSpec == RInit /\ [][RNext]_rvars

\* The operator restarts the process, which goes through its start-up; its
\* tasks run; session_timeout elapses.
RFairSpec ==
    /\ RSpec
    /\ WF_rvars(Recover) /\ WF_rvars(ExtensionsStarted)
    /\ WF_rvars(Monitor) /\ WF_rvars(MonitorEnds("timeout"))
    /\ WF_rvars(RLaunch \/ RBegin \/ RWorker) /\ WF_rvars(RTimedOut)

-----------------------------------------------------------------------------
(* Properties.                                                             *)

\* Wherever the process dies, no two runs are started with the same
\* --session-id: prompt_count is on disk before run.sh is typed (790, 793).
SessionIdUsedOnce == freshStarts <= 1

\* state.json stays current across restarts, with worker and monitor both
\* writing it.
StateFileSurvives ==
    up /\ life = "live" /\ pc # "hooks" /\ failed = {} =>
        disk = [status |-> status, count |-> count]

\* A run gets at most one final event whatever the process does, as long as no
\* prompt is begun under a monitored run.
OneFinalAcrossRestarts == ~overlap => OneFinal

\* A run that was interrupted by a restart does not leave its session BUSY.
BusyEndsAcrossRestarts ==
    up /\ status = "busy" ~> ~up \/ status # "busy" \/ life # "live" \/ failed # {}
=============================================================================

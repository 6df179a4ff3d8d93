--------------------------- MODULE SessionManager ---------------------------
(***************************************************************************)
(* One Claude session of core/session.py, over one life of the asyncio     *)
(* process: the prompt queue, the queue worker that executes prompts in a  *)
(* tmux pane, the /stop machinery and the destruction of the session.      *)
(*                                                                         *)
(* Sessions share nothing but the `sessions` dict, so one session is       *)
(* modelled; what couples them (slots) is in module SessionSlots, and what *)
(* a restart of the process does to a session is in SessionRecovery.       *)
(*                                                                         *)
(* The process is single-threaded: an action is the code between two       *)
(* awaits, and `pc` names the await at which the worker is suspended:      *)
(*   get     queue.get()                                                   *)
(*   kill    _force_kill_session_processes before a prompt                 *)
(*   hooks   _run_pre_prompt_hooks                                         *)
(*   send    tmux send-keys                                                *)
(*   stream  the polling loop of _stream_completion                        *)
(*   timeout killing a run that exceeded session_timeout                   *)
(*   report  deliver() of the final event                                  *)
(*   off     the worker task was cancelled                                 *)
(***************************************************************************)
EXTENDS Naturals, Sequences, FiniteSets, Functions

CONSTANTS
    Prompts,    \* the calls of send_prompt; each carries a prompt of its own
    NoPrompt,
    MaxChunks   \* bound: text events one run writes to stream.jsonl

ASSUME ConstantsAssumption == NoPrompt \notin Prompts /\ MaxChunks \in Nat

VARIABLES
    life,       \* live | destroying (popped, directory still there) | gone
    status,     \* Session.status in memory
    count,      \* Session.prompt_count in memory
    disk,       \* state.json: the saved status and prompt_count
    queue,      \* the asyncio.Queue of prompts
    pc, cur, pos,   \* the worker: its await, its prompt, chunks it has read
    tmux,       \* the tmux session exists
    pane,       \* the prompt whose Claude process runs in the pane
    stream,     \* stream.jsonl: whose run wrote it, how many chunks
    exitcode,   \* the file exitcode exists
    ctrlcs,     \* stop_session calls suspended in _tmux_send_ctrl_c
    ensures,    \* _ensure_stopped tasks in their 5 second sleep
    \* History, read by the properties only:
    sent,       \* prompts accepted by send_prompt
    launched,   \* prompts whose run.sh was sent to the pane
    barred,     \* accepted and not yet launched when some stop_session ran
    halted,     \* running when some stop_session returned True
    texts,      \* chunks delivered for each prompt
    final,      \* is_final events delivered for each prompt
    failed      \* prompts whose execution met an exception

files == <<disk, stream, exitcode>>
worker == <<pc, cur, pos>>
stops == <<ctrlcs, ensures>>
history == <<sent, launched, barred, halted, texts, final, failed>>
vars == <<life, status, count, files, queue, worker, tmux, pane, stops, history>>

Statuses == {"idle", "busy", "stopped", "dead"}
WorkerStages == {"get", "kill", "hooks", "send", "stream", "timeout", "report", "off"}
Outcomes == {"completed", "timeout", "stopped"}
Chunks == 1..MaxChunks
NoStream == [of |-> NoPrompt, len |-> 0]

\* The prompt that the worker has taken and not yet decided.
Working == pc \in {"kill", "hooks", "send", "stream", "timeout"}

TypeOK ==
    /\ life \in {"live", "destroying", "gone"}
    /\ status \in Statuses
    /\ count \in Nat
    /\ disk \in [status: Statuses, count: Nat]
    /\ queue \in Seq(Prompts)
    /\ pc \in WorkerStages
    /\ cur \in Prompts \cup {NoPrompt}
    /\ Working => cur \in Prompts
    /\ pos \in Nat
    /\ tmux \in BOOLEAN
    /\ pane \in Prompts \cup {NoPrompt}
    /\ stream \in [of: Prompts \cup {NoPrompt}, len: 0..MaxChunks]
    /\ exitcode \in BOOLEAN
    /\ ctrlcs \in Nat /\ ensures \in Nat
    /\ sent \in SUBSET Prompts
    /\ launched \in SUBSET Prompts
    /\ barred \in SUBSET Prompts
    /\ halted \in SUBSET Prompts
    /\ texts \in [Prompts -> Seq(Chunks)]
    /\ final \in [Prompts -> Seq(Outcomes)]
    /\ failed \in SUBSET Prompts

\* A session that create_session has just registered and saved.
Init ==
    /\ life = "live"
    /\ status = "idle"
    /\ count = 0
    /\ disk = [status |-> "idle", count |-> 0]
    /\ queue = <<>>
    /\ pc = "get" /\ cur = NoPrompt /\ pos = 0
    /\ tmux = TRUE
    /\ pane = NoPrompt
    /\ stream = NoStream
    /\ exitcode = FALSE
    /\ ctrlcs = 0 /\ ensures = 0
    /\ sent = {} /\ launched = {} /\ barred = {} /\ halted = {} /\ failed = {}
    /\ texts = [p \in Prompts |-> <<>>]
    /\ final = [p \in Prompts |-> <<>>]

\* _save_state: the write of state.json is atomic (temporary file, rename).
Save(st, n) == disk' = [status |-> st, count |-> n]

Deliver(outcome) == final' = [final EXCEPT ![cur] = Append(@, outcome)]

-----------------------------------------------------------------------------
(* Calls from the frontends and the other extensions.                      *)

\* Mutant: a stopped session stays stopped.
ResetStopped_Never == UNCHANGED <<status, disk>>

\* New input makes a STOPPED session IDLE, before it is queued.
ResetStopped ==
    \/ status = "stopped" /\ status' = "idle" /\ Save("idle", count)
    \/ status # "stopped" /\ UNCHANGED <<status, disk>>

\* Mutant: the newest prompt goes first.
Enqueue_Front(p) == queue' = <<p>> \o queue

Enqueue(p) == queue' = Append(queue, p)

SendPrompt(p) ==
    /\ life = "live"
    /\ status # "dead"
    /\ p \notin sent
    /\ sent' = sent \cup {p}
    /\ Enqueue(p)
    /\ ResetStopped
    /\ UNCHANGED <<life, count, stream, exitcode, worker, tmux, pane, stops,
                   launched, barred, halted, texts, final, failed>>

Drain == queue' = <<>>

\* Drains the queue whatever the status; only a BUSY session is stopped.
StopSession ==
    /\ life = "live"
    /\ Drain
    /\ barred' = barred \cup (sent \ launched)
    /\ \/ /\ status = "busy"
          /\ status' = "stopped"
          /\ Save("stopped", count)
          /\ ctrlcs' = ctrlcs + 1
          /\ halted' = halted \cup ({cur} \ {NoPrompt})
       \/ /\ status # "busy"
          /\ UNCHANGED <<status, disk, ctrlcs, halted>>
    /\ UNCHANGED <<life, count, stream, exitcode, worker, tmux, pane, ensures,
                   sent, launched, texts, final, failed>>

\* The Ctrl-C reaches the pane and _ensure_stopped is scheduled.  Claude may
\* ignore it, exit through run.sh, or take run.sh down before it writes the
\* exit code.
CtrlC ==
    /\ ctrlcs > 0
    /\ ctrlcs' = ctrlcs - 1
    /\ ensures' = ensures + 1
    /\ \/ UNCHANGED <<pane, exitcode>>
       \/ /\ pane # NoPrompt
          /\ pane' = NoPrompt
          /\ exitcode' \in {exitcode, TRUE}
    /\ UNCHANGED <<life, status, count, disk, stream, queue, worker, tmux, history>>

\* The synthetic exit code, for whatever prompt the directory now serves.
EnsureStopped ==
    /\ ensures > 0
    /\ ensures' = ensures - 1
    /\ exitcode' = (exitcode \/ life # "gone")
    /\ UNCHANGED <<life, status, count, disk, stream, queue, worker, tmux, pane,
                   ctrlcs, history>>

\* destroy_session up to its first await: the session is popped, its worker
\* cancelled at whatever await it is suspended, its queue dropped.
DestroySession ==
    /\ life = "live"
    /\ life' = "destroying"
    /\ pc' = "off"
    /\ queue' = <<>>
    /\ UNCHANGED <<status, count, files, cur, pos, tmux, pane, stops, history>>

\* ... the tmux session is killed and the directory removed.
RemoveSession ==
    /\ life = "destroying"
    /\ life' = "gone"
    /\ tmux' = FALSE
    /\ pane' = NoPrompt
    /\ stream' = NoStream
    /\ exitcode' = FALSE
    /\ UNCHANGED <<status, count, disk, queue, worker, stops, history>>

-----------------------------------------------------------------------------
(* The queue worker.                                                       *)

Skips == status \in {"stopped", "dead"}

\* queue.get() and the status check: no await between the two.
TakePrompt ==
    /\ pc = "get"
    /\ queue # <<>>
    /\ queue' = Tail(queue)
    /\ \/ Skips /\ UNCHANGED <<pc, cur>>
       \/ /\ ~Skips
          /\ pc' = "kill"
          /\ cur' = Head(queue)
    /\ UNCHANGED <<life, status, count, files, pos, tmux, pane, stops, history>>

\* _force_kill_session_processes finds a process of an earlier prompt, kills
\* it and writes a synthetic exit code if run.sh did not.
KillOrphan ==
    /\ pc = "kill"
    /\ pane # NoPrompt
    /\ pane' = NoPrompt
    /\ exitcode' = TRUE
    /\ UNCHANGED <<life, status, count, disk, stream, queue, worker, tmux, stops, history>>

\* Mutant: the prompt starts whatever still runs in the pane.
PaneIsFree_Assumed == TRUE

PaneIsFree == pane = NoPrompt

\* Mutants: a file of the last prompt survives.
UnlinkArtifacts_KeepsExitcode == stream' = NoStream /\ UNCHANGED exitcode
UnlinkArtifacts_KeepsStream == exitcode' = FALSE /\ UNCHANGED stream

UnlinkArtifacts == stream' = NoStream /\ exitcode' = FALSE

\* With no process left: artifacts unlinked, prompt.txt written, BUSY.
BeginPrompt ==
    /\ pc = "kill"
    /\ PaneIsFree
    /\ pc' = "hooks"
    /\ UnlinkArtifacts
    /\ count' = count + 1
    /\ status' = "busy"
    /\ UNCHANGED <<life, disk, queue, cur, pos, tmux, pane, stops, history>>

\* Mutant: prompt_count is not saved before the run starts.
WriteScripts_Unsaved == pc = "hooks" /\ pc' = "send" /\ UNCHANGED
    <<life, status, count, files, queue, cur, pos, tmux, pane, stops, history>>

\* After the hooks: the scripts and state.json are written.
WriteScripts ==
    /\ pc = "hooks"
    /\ pc' = "send"
    /\ Save(status, count)
    /\ UNCHANGED <<life, status, count, stream, exitcode, queue, cur, pos, tmux, pane,
                   stops, history>>

\* send-keys starts run.sh in the pane; its failure is not noticed here.
Launch ==
    /\ pc = "send"
    /\ pc' = "stream"
    /\ pos' = 0
    /\ \/ tmux /\ pane' = cur /\ stream' = [of |-> cur, len |-> 0]
       \/ ~tmux /\ UNCHANGED <<pane, stream>>
    /\ launched' = launched \cup {cur}
    /\ UNCHANGED <<life, status, count, disk, exitcode, queue, cur, tmux, stops,
                   sent, barred, halted, texts, final, failed>>

\* An event is delivered only while the session is BUSY.
Forward ==
    texts' = IF status = "busy"
             THEN [texts EXCEPT ![stream.of] = Append(@, pos + 1)]
             ELSE texts

\* One event of stream.jsonl.
ReadChunk ==
    /\ pc = "stream"
    /\ pos < stream.len
    /\ pos' = pos + 1
    /\ Forward
    /\ UNCHANGED <<life, status, count, files, queue, pc, cur, tmux, pane, stops,
                   sent, launched, barred, halted, final, failed>>

\* Mutant: no return after the report.
ReportStopped_Continues ==
    status \in {"stopped", "dead"} /\ Deliver("stopped") /\ UNCHANGED <<pc, status, disk>>

\* _execute_prompt after the stream ended in a STOPPED or DEAD session.
ReportStopped ==
    /\ status \in {"stopped", "dead"}
    /\ pc' = "report"
    /\ Deliver("stopped")
    /\ UNCHANGED <<status, disk>>

\* Mutant: the state is saved only after the delivery.
ReportResult_Unsaved(outcome) ==
    pc' = "report" /\ status' = "idle" /\ UNCHANGED disk /\ Deliver(outcome)

\* ... and its normal end: IDLE, saved, then delivered as final.
ReportResult(outcome) ==
    /\ pc' = "report"
    /\ status' = "idle"
    /\ Save("idle", count)
    /\ Deliver(outcome)

\* exitcode exists and everything in the stream has been handed out.
StreamEnded ==
    /\ pc = "stream"
    /\ exitcode
    /\ pos = stream.len
    /\ \/ ReportStopped
       \/ status \notin {"stopped", "dead"} /\ ReportResult("completed")
    /\ UNCHANGED <<life, count, stream, exitcode, queue, cur, pos, tmux, pane, stops,
                   sent, launched, barred, halted, texts, failed>>

\* session_timeout elapsed, at any point of the stream.
TimedOut ==
    /\ pc = "stream"
    /\ \/ ReportStopped
       \/ /\ status \notin {"stopped", "dead"}
          /\ pc' = "timeout"
          /\ UNCHANGED <<status, disk, final>>
    /\ UNCHANGED <<life, count, stream, exitcode, queue, cur, pos, tmux, pane, stops,
                   sent, launched, barred, halted, texts, failed>>

\* Ctrl-C and SIGKILL for the run that timed out, then its report.  A process
\* that had to be killed, or left through run.sh, leaves an exit code.
KillTimedOut ==
    /\ pc = "timeout"
    /\ pane' = NoPrompt
    /\ exitcode' \in {exitcode, exitcode \/ pane # NoPrompt}
    /\ ReportResult("timeout")
    /\ UNCHANGED <<life, count, stream, queue, cur, pos, tmux, stops,
                   sent, launched, barred, halted, texts, failed>>

\* The health check of the polling loop misses the tmux session.
TmuxLost ==
    /\ pc = "stream"
    /\ ~tmux
    /\ status' = "dead"
    /\ Save("dead", count)
    /\ pc' = "report"
    /\ Deliver("stopped")
    /\ UNCHANGED <<life, count, stream, exitcode, queue, cur, pos, tmux, pane, stops,
                   sent, launched, barred, halted, texts, failed>>

\* The callbacks return; the worker asks for the next prompt.  The session is
\* saved again unless it was reported stopped.
Reported ==
    /\ pc = "report"
    /\ pc' = "get"
    /\ IF final[cur][Len(final[cur])] = "stopped"
       THEN UNCHANGED disk
       ELSE Save(status, count)
    /\ UNCHANGED <<life, status, count, stream, exitcode, queue, cur, pos, tmux, pane,
                   stops, history>>

\* The files may be unlinked in part before the next prompt is begun.
FailsEarly ==
    /\ pc \in {"kill", "hooks", "send", "stream", "timeout"}
    /\ stream' \in {stream} \cup (IF pc = "kill" THEN {NoStream} ELSE {})
    /\ exitcode' \in {exitcode} \cup (IF pc = "kill" THEN {FALSE} ELSE {})
    /\ UNCHANGED <<status, pane>>

\* A result that cannot be saved is not delivered either.
FailsAtSave ==
    /\ status' = "idle"
    /\ UNCHANGED stream
    /\ \/ /\ pc = "stream" /\ exitcode
          /\ status \notin {"stopped", "dead"}
          /\ UNCHANGED <<pane, exitcode>>
       \/ /\ pc = "timeout"
          /\ pane' = NoPrompt
          /\ exitcode' \in {exitcode, exitcode \/ pane # NoPrompt}

\* An exception in _execute_prompt (a full disk, a failed fork): the worker
\* logs it and takes the next prompt.  Nothing is saved, nothing delivered.
PromptFails ==
    /\ FailsEarly \/ FailsAtSave
    /\ pc' = "get"
    /\ failed' = failed \cup {cur}
    /\ UNCHANGED <<life, count, disk, queue, cur, pos, tmux, stops,
                   sent, launched, barred, halted, texts, final>>

-----------------------------------------------------------------------------
(* The environment: Claude in its pane, and tmux.                          *)

ClaudeWrites ==
    /\ pane # NoPrompt
    /\ stream.of = pane
    /\ stream.len < MaxChunks
    /\ stream' = [stream EXCEPT !.len = @ + 1]
    /\ UNCHANGED <<life, status, count, disk, exitcode, queue, worker, tmux, pane,
                   stops, history>>

ClaudeExits ==
    /\ pane # NoPrompt
    /\ pane' = NoPrompt
    /\ exitcode' = TRUE
    /\ UNCHANGED <<life, status, count, disk, stream, queue, worker, tmux, stops, history>>

TmuxDies ==
    /\ tmux
    /\ tmux' = FALSE
    /\ pane' = NoPrompt
    /\ UNCHANGED <<life, status, count, files, queue, worker, stops, history>>

-----------------------------------------------------------------------------
Caller == (\E p \in Prompts : SendPrompt(p)) \/ StopSession \/ DestroySession

Worker ==
    \/ TakePrompt \/ KillOrphan \/ BeginPrompt \/ WriteScripts \/ Launch
    \/ ReadChunk \/ StreamEnded \/ KillTimedOut \/ TmuxLost \/ Reported

Background == CtrlC \/ EnsureStopped \/ RemoveSession

Environment == ClaudeWrites \/ ClaudeExits \/ TmuxDies

Next == Caller \/ Worker \/ TimedOut \/ PromptFails \/ Background \/ Environment

Spec == Init /\ [][Next]_vars

\* The event loop runs every ready task: the worker and the background tasks
\* are fair.  Claude, tmux and the callers are not; session_timeout is hours
\* long, and only the properties that need it assume that it elapses.
FairSpec ==
    /\ Spec
    /\ WF_vars(Worker)
    /\ WF_vars(CtrlC) /\ WF_vars(EnsureStopped) /\ WF_vars(RemoveSession)
Patience == WF_vars(TimedOut)

-----------------------------------------------------------------------------
(* Properties.                                                             *)

Queued == Range(queue)

\* A prompt that send_prompt accepted is queued, being worked on or decided,
\* unless a stop came after it, an exception ended it or the session died: the
\* worker's silent skip of STOPPED and DEAD sessions (740) never loses the
\* message that restarted a stopped session.
NoPromptLost ==
    life = "live" /\ status # "dead" =>
        \A p \in sent : \/ p \in Queued \cup barred \cup failed
                        \/ Working /\ p = cur
                        \/ final[p] # <<>>

\* run.sh is only ever typed into a pane where no Claude process runs, also
\* after a timeout or a stop whose Ctrl-C was ignored: the old process would
\* read the command as its input (comment at 754).
CleanPaneAtLaunch ==
    [][\A p \in Prompts : pane' = p /\ pane # p => pane = NoPrompt]_vars

\* What the worker reads and attributes to its prompt was written by the run
\* of that prompt, and a run that reports completion was not cut short by
\* the exit code of an earlier one, as long as nobody called stop_session.
OwnOutput ==
    /\ pc = "stream" => stream.of \in {cur, NoPrompt}
    /\ pc = "report" /\ final[cur] = <<"completed">> /\ halted = {} => pane = NoPrompt

\* Every prompt gets at most one is_final event, and nothing after it: the
\* Telegram frontend drops its stream buffer on that event.
OneFinal == \A p \in Prompts : Len(final[p]) <= 1
NothingAfterFinal ==
    [][\A p \in Prompts : final[p] # <<>> => texts'[p] = texts[p]]_vars

\* state.json agrees with memory except while the pre-prompt hooks run, or
\* after an exception, so a crash at any other moment leaves recover() the
\* status it needs.
StateFileFresh ==
    life = "live" /\ pc # "hooks" /\ failed = {} =>
        disk = [status |-> status, count |-> count]

\* DEAD is final: no prompt, stop or late result revives the session.
DeadIsFinal == [][status = "dead" => status' = "dead"]_vars

\* Every accepted prompt is eventually answered, unless a stop, a destroy or an
\* exception took it or the session died.
EveryPromptAnswered ==
    Patience =>
        \A p \in Prompts :
            p \in sent ~> \/ final[p] # <<>>
                          \/ p \in barred \cup failed
                          \/ life # "live"
                          \/ status = "dead"

-----------------------------------------------------------------------------
(* The inductive invariant behind the safety properties.                    *)

\* The worker is past its check of the status and has not reported.
Committed == pc \in {"kill", "hooks", "send", "timeout"}

QueueInv ==
    /\ \A i, j \in DOMAIN queue : queue[i] = queue[j] => i = j
    /\ \A p \in Queued : p \in sent \ launched /\ final[p] = <<>>
    /\ status = "stopped" => queue = <<>>

WorkerInv ==
    /\ Working => cur \in sent \ Queued /\ final[cur] = <<>>
    /\ Committed => status # "dead"

RunInv ==
    /\ pc \in {"hooks", "send"} => pane = NoPrompt /\ stream = NoStream
    /\ pc = "stream" => stream.of \in {cur, NoPrompt}

HistoryInv == \A p \in Prompts \ sent : p \notin launched /\ final[p] = <<>>

\* One prompt is in one place: in the queue, with the worker, or decided.
PromptInv == QueueInv /\ WorkerInv /\ HistoryInv /\ OneFinal /\ NoPromptLost

\* ... and what the worker established before an await still holds after it.
SessionInv == PromptInv /\ RunInv /\ StateFileFresh

-----------------------------------------------------------------------------
(* The promise to the callers (module PromptQueue) and how the session      *)
(* keeps it.                                                                *)

FateOf(p) ==
    CASE p \notin sent -> "unsent"
      [] p \in Queued -> "waiting"
      [] Working /\ p = cur -> "running"
      [] p \in sent \ Queued /\ ~(Working /\ p = cur) ->
            IF final[p] = <<>> THEN "dropped" ELSE Head(final[p])

Promise == INSTANCE PromptQueue WITH
    open <- life = "live",
    waiting <- queue,
    current <- IF Working THEN cur ELSE NoPrompt,
    fate <- [p \in Prompts |-> FateOf(p)]

\* Prompts are worked on one at a time in the order send_prompt accepted them,
\* and no prompt is decided twice or revived after its decision.
KeepsPromise == Promise!Spec

-----------------------------------------------------------------------------
(* What the comments and docs of the code say and the code does not do.     *)

\* "exitcode: Existence = prompt done" (docs/ARCHITECTURE.md): a prompt that
\* nobody stopped and that is reported completed has left the pane.
CompletedHasExited ==
    \A p \in Prompts \ halted : "completed" \in Range(final[p]) => pane # p
=============================================================================

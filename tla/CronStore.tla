----------------------------- MODULE CronStore ------------------------------
(***************************************************************************)
(* The JSON job store of the cron extension, shared by the scheduler in    *)
(* the main process and by the cron MCP servers, one process per Claude    *)
(* session.  Every mutation reads the whole file, writes a temporary file  *)
(* of a fixed name and renames it.  Any number of mutations may overlap.   *)
(*                                                                         *)
(* The flocks are not modelled because they order nothing here: a read     *)
(* drops its lock before the mutation is written, and a write holds its    *)
(* lock on the temporary file only after open() has truncated it and until *)
(* close() is about to flush it.                                           *)
(***************************************************************************)
EXTENDS Naturals

CONSTANTS
    Processes,
    Jobs, NoJob,    \* job ids; add_job is called once for each
    MaxVersion      \* bound: changes to one job

\* A job is known by its number of changes; 0: it is not in the list.
JobLists == [Jobs -> 0..MaxVersion]
NoJobs == [j \in Jobs |-> 0]
\* What a file holds: a whole list; text that does not parse, being empty, cut
\* short or half overwritten; nothing, because there is no such file.
Whole(list) == [form |-> "whole", list |-> list]
Unparsable == [form |-> "broken", list |-> NoJobs]
NoFile == [form |-> "missing", list |-> NoJobs]
Texts == {Whole(list) : list \in JobLists} \cup {Unparsable}

VARIABLES
    data,       \* the text of cron_jobs.json
    tmp,        \* the text of cron_jobs.tmp
    stage,      \* of each process: idle | read | open | flushed
    fd,         \* the name that the file it writes has by now: tmp | data | none
    job, new,   \* the job it changes and the list it is going to write
    acked,      \* changes to each job that were reported as stored
    deleted,    \* jobs whose deletion was reported
    \* History of what overlapped; no action reads it.
    met,        \* processes whose present mutation has overlapped another
    exposed,    \* jobs with a reported change or deletion that had
    collided    \* a temporary file was opened while another process had it open

history == <<met, exposed, collided>>
vars == <<data, tmp, stage, fd, job, new, acked, deleted, history>>

Init ==
    /\ data = Whole(NoJobs)
    /\ tmp = NoFile
    /\ stage = [p \in Processes |-> "idle"]
    /\ fd = [p \in Processes |-> "none"]
    /\ job = [p \in Processes |-> NoJob]
    /\ new = [p \in Processes |-> NoJobs]
    /\ acked = NoJobs
    /\ deleted = {}
    /\ met = {} /\ exposed = {} /\ collided = FALSE

\* _read_locked: text that does not parse counts as an empty list.
Listed == data.list

Writers == {p \in Processes : stage[p] # "idle"}

\* add_job, update_job and delete_job, up to the list they are going to
\* write; updating or deleting an unknown job writes nothing.
Read(p, j, jobs) ==
    /\ stage[p] = "idle"
    /\ stage' = [stage EXCEPT ![p] = "read"]
    /\ job' = [job EXCEPT ![p] = j]
    /\ new' = [new EXCEPT ![p] = jobs]
    /\ met' = IF Writers = {} THEN met ELSE met \cup Writers \cup {p}
    /\ UNCHANGED <<data, tmp, fd, deleted, exposed, collided>>

AddJob(p, j) ==
    /\ \A q \in Processes : new[q][j] = 0
    /\ acked[j] = 0 /\ Listed[j] = 0 /\ j \notin deleted
    /\ Read(p, j, [Listed EXCEPT ![j] = 1])
    /\ UNCHANGED acked

UpdateJob(p, j) ==
    /\ Listed[j] \in 1..(MaxVersion - 1)
    /\ acked[j] < MaxVersion
    /\ Read(p, j, [Listed EXCEPT ![j] = @ + 1])
    /\ UNCHANGED acked

\* Asked for here: from now on nothing is promised of the job's changes.
DeleteJob(p, j) ==
    /\ Listed[j] > 0
    /\ Read(p, j, [Listed EXCEPT ![j] = 0])
    /\ acked' = [acked EXCEPT ![j] = 0]

HasFile(p) == stage[p] \in {"open", "flushed"}

\* open(tmp, "w"): truncates the file of that name if there is one.
OpenTmp(p) ==
    /\ stage[p] = "read"
    /\ stage' = [stage EXCEPT ![p] = "open"]
    /\ fd' = [fd EXCEPT ![p] = "tmp"]
    /\ tmp' = Unparsable
    /\ collided' = (collided \/ \E q \in Processes : HasFile(q))
    /\ UNCHANGED <<data, job, new, acked, deleted, met, exposed>>

Shared(p) == \E q \in Processes \ {p} : HasFile(q) /\ fd[q] = fd[p]

\* close() writes the list to the file that the process opened, under
\* whatever name it has now; where another process wrote a longer list into
\* the same file, its tail remains.
Flush(p) ==
    /\ stage[p] = "open"
    /\ stage' = [stage EXCEPT ![p] = "flushed"]
    /\ \E t \in {Whole(new[p])} \cup (IF Shared(p) THEN {Unparsable} ELSE {}) :
          /\ tmp' = IF fd[p] = "tmp" THEN t ELSE tmp
          /\ data' = IF fd[p] = "data" THEN t ELSE data
    /\ UNCHANGED <<fd, job, new, acked, deleted, history>>

Forget(p) ==
    /\ met' = met \ {p}
    /\ job' = [job EXCEPT ![p] = NoJob]
    /\ new' = [new EXCEPT ![p] = NoJobs]

Replace == data' = tmp /\ tmp' = NoFile

\* tmp.rename(path) fails if another process renamed the file away: then the
\* mutation raises, and nothing is reported.
Rename(p) ==
    /\ stage[p] = "flushed"
    /\ stage' = [stage EXCEPT ![p] = "idle"]
    /\ IF tmp = NoFile
       THEN /\ UNCHANGED <<data, tmp, acked, deleted, exposed>>
            /\ fd' = [fd EXCEPT ![p] = "none"]
       ELSE /\ Replace
            /\ fd' = [q \in Processes |-> CASE q = p -> "none"
                                            [] q # p /\ fd[q] = "tmp" -> "data"
                                            [] OTHER -> "none"]
            /\ acked' = IF new[p][job[p]] = 0 THEN acked
                        ELSE [acked EXCEPT ![job[p]] = @ + 1]
            /\ deleted' = IF new[p][job[p]] = 0 THEN deleted \cup {job[p]} ELSE deleted
            /\ exposed' = IF p \in met THEN exposed \cup {job[p]} ELSE exposed
    /\ Forget(p)
    /\ UNCHANGED collided

\* The process ends at any step: a Claude session and its MCP servers are
\* killed, the main process stops.
Crash(p) ==
    /\ stage[p] # "idle"
    /\ stage' = [stage EXCEPT ![p] = "idle"]
    /\ fd' = [fd EXCEPT ![p] = "none"]
    /\ Forget(p)
    /\ UNCHANGED <<data, tmp, acked, deleted, exposed, collided>>

Next ==
    \E p \in Processes :
        \/ \E j \in Jobs : AddJob(p, j) \/ UpdateJob(p, j) \/ DeleteJob(p, j)
        \/ OpenTmp(p) \/ Flush(p) \/ Rename(p) \/ Crash(p)

Spec == Init /\ [][Next]_vars

-----------------------------------------------------------------------------
(* "Thread/process-safe job store backed by a JSON file with flock."         *)
(* (store.py:96): whoever reads the store, at any moment, finds every change *)
(* that was reported as stored.  It is not so: of two overlapping mutations  *)
(* the later rename undoes the other's change, and while two of them write   *)
(* the same temporary file a reader may find an empty store.                 *)
StoredIsFound == \A j \in Jobs : Listed[j] >= acked[j]

(* What holds of a job none of whose changes overlapped another mutation,    *)
(* whatever overlaps before and after; without the history, of a store that  *)
(* is written to by one process at a time.                                   *)

\* Whoever reads the store reads a list that some mutation wrote, never a
\* partial file, as long as two processes never had the temporary file open.
ReadersSeeWholeLists == ~collided => data.form = "whole"

\* Then each reported change stays until the job is deleted: a lost update of
\* `enabled` makes the scheduler run a one-time job again.
ChangesAreDurable == ~collided => \A j \in Jobs \ exposed : Listed[j] >= acked[j]

\* A deleted job does not come back, not even when other processes share the
\* temporary file.
DeletedStaysDeleted == \A j \in deleted \ exposed : Listed[j] = 0
=============================================================================

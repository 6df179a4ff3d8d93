-------------------------- MODULE CronStoreProofs ---------------------------
(***************************************************************************)
(* Proofs about CronStore, for any number of processes whose mutations     *)
(* overlap in any way and are killed at any step: what overlapped decides  *)
(* what may be lost, and nothing else is.                                  *)
(***************************************************************************)
EXTENDS CronStore, TLAPS

StoreConstants == MaxVersion \in Nat \ {0} /\ NoJob \notin Jobs

StoreTypes ==
    /\ data \in Texts /\ tmp \in Texts \cup {NoFile}
    /\ stage \in [Processes -> {"idle", "read", "open", "flushed"}]
    /\ fd \in [Processes -> {"tmp", "data", "none"}]
    /\ job \in [Processes -> Jobs \cup {NoJob}]
    /\ new \in [Processes -> JobLists]
    /\ acked \in [Jobs -> Nat]
    /\ deleted \subseteq Jobs /\ exposed \subseteq Jobs
    /\ collided \in BOOLEAN

\* A writer that met nobody is alone.
MetInv ==
    /\ met \subseteq Writers
    /\ \A p, q \in Writers : p \notin met => q = p
    /\ \A p \in Writers : job[p] \in Jobs
    /\ \A p \in Processes \ Writers : new[p] = NoJobs

\* The temporary file is written by one process at a time, or belongs to one
\* that is alone.
Undisturbed(p) == ~collided \/ p \notin met

FileInv ==
    /\ \A p, q \in Processes : ~collided /\ HasFile(p) /\ HasFile(q) => q = p
    /\ \A p \in Processes :
          Undisturbed(p) =>
             /\ HasFile(p) => fd[p] = "tmp"
             /\ stage[p] = "flushed" => tmp = Whole(new[p])

\* What was reported of a job is in the file and in every list that may
\* replace it, where a change of the job itself counts one more.
Keeps(list, own, reported) == list >= reported /\ (own /\ list # 0 => list > reported)

Kept(j) ==
    /\ data.list[j] >= acked[j]
    /\ \A p \in Writers : Keeps(new[p][j], j = job[p], acked[j])

ListInv == ~collided => data.form = "whole" /\ \A j \in Jobs \ exposed : Kept(j)

\* No list that may still reach the file has a job that was deleted alone.
DeletedInv ==
    \A j \in deleted \ exposed :
       /\ data.list[j] = 0 /\ tmp.list[j] = 0
       /\ \A p \in Processes : new[p][j] = 0

StoreInv == StoreTypes /\ MetInv /\ FileInv /\ ListInv /\ DeletedInv

LEMMA Texts0 ==
    ASSUME StoreConstants
    PROVE  /\ NoJobs \in JobLists /\ \A j \in Jobs : NoJobs[j] = 0
           /\ Unparsable \in Texts /\ Unparsable.list = NoJobs /\ NoFile.list = NoJobs
           /\ \A list \in JobLists :
                 /\ Whole(list) \in Texts /\ Whole(list) # NoFile
                 /\ Whole(list).form = "whole" /\ Whole(list).list = list
           /\ \A t \in Texts : t.list \in JobLists
BY DEF StoreConstants, NoJobs, JobLists, Texts, Whole, Unparsable, NoFile

LEMMA Counts ==
    ASSUME StoreConstants, NEW list \in JobLists, NEW j \in Jobs
    PROVE  list[j] \in Nat /\ list[j] \in 0..MaxVersion
BY DEF StoreConstants, JobLists

\* Of two processes with the file open neither is undisturbed.
LEMMA FileIsOwn ==
    ASSUME StoreInv, NEW p \in Processes, NEW q \in Processes,
           Undisturbed(p), HasFile(p), HasFile(q)
    PROVE  q = p
<1>1. p \in Writers /\ q \in Writers
  BY DEF HasFile, Writers
<1> QED
  BY <1>1 DEF StoreInv, FileInv, MetInv, Undisturbed

LEMMA InitStore == ASSUME StoreConstants, Init PROVE StoreInv
<1>1. Writers = {} /\ \A p \in Processes : ~HasFile(p) /\ stage[p] # "flushed"
  BY DEF Init, Writers, HasFile
<1>2. StoreTypes
  <2>1. NoJobs \in [Jobs -> Nat]
    BY DEF NoJobs
  <2> QED
    BY <2>1, Texts0 DEF Init, StoreTypes
<1>3. data.form = "whole" /\ data.list = NoJobs
  BY Texts0 DEF Init
<1>4. MetInv /\ FileInv
  BY <1>1 DEF Init, MetInv, FileInv
<1>5. ListInv
  BY <1>1, <1>3, Texts0 DEF Init, ListInv, Kept
<1>6. DeletedInv
  BY DEF Init, DeletedInv
<1> QED
  BY <1>2, <1>4, <1>5, <1>6 DEF StoreInv

\* A mutation that begins takes what it reads of the other jobs.
LEMMA ReadStep ==
    ASSUME StoreConstants, StoreInv,
           NEW p \in Processes, NEW j \in Jobs, NEW n \in 0..MaxVersion,
           Read(p, j, [data.list EXCEPT ![j] = n]),
           j \in deleted => data.list[j] # 0,
           \/ acked' = [acked EXCEPT ![j] = 0] /\ n = 0
           \/ acked' = acked /\ n = data.list[j] + 1
    PROVE  StoreInv'
<1> DEFINE jobs == [data.list EXCEPT ![j] = n]
<1> USE DEF StoreInv
<1>1. data.list \in JobLists /\ jobs \in JobLists
  BY Texts0 DEF StoreTypes, JobLists
<1>2. /\ p \notin Writers /\ Writers' = Writers \cup {p}
      /\ stage' = [stage EXCEPT ![p] = "read"]
  BY DEF Read, Writers, StoreTypes
<1>3. acked' \in [Jobs -> Nat] /\ \A i \in Jobs : acked'[i] = 0 \/ acked'[i] = acked[i]
  BY DEF StoreTypes
<1>4. /\ new'[p] = jobs /\ job'[p] = j
      /\ \A q \in Processes \ {p} : new'[q] = new[q] /\ job'[q] = job[q]
      /\ data' = data /\ tmp' = tmp /\ deleted' = deleted /\ exposed' = exposed
      /\ collided' = collided /\ fd' = fd
  BY DEF Read, StoreTypes
<1>5. StoreTypes'
  BY <1>1, <1>3 DEF Read, StoreTypes
<1>6. MetInv'
  BY <1>2, <1>4 DEF Read, MetInv, Writers
<1>7. /\ \A q \in Processes : HasFile(q)' => HasFile(q) /\ q # p
      /\ \A q \in Processes : stage'[q] = "flushed" => stage[q] = "flushed" /\ q # p
      /\ \A q \in Processes : Undisturbed(q)' /\ q # p => Undisturbed(q)
  BY <1>2, <1>4 DEF HasFile, StoreTypes, Undisturbed, Read
<1>8. FileInv'
  BY <1>4, <1>7 DEF FileInv, HasFile
<1>9. ListInv'
  <2> SUFFICES ASSUME ~collided, NEW i \in Jobs \ exposed
               PROVE  data.form = "whole" /\ Kept(i)'
    BY <1>4 DEF ListInv
  <2>1. data.form = "whole" /\ data.list[i] >= acked[i]
    BY DEF ListInv, Kept
  <2>2. data'.list[i] >= acked'[i]
    BY <1>1, <1>3, <1>4, <2>1, Counts DEF StoreTypes
  <2>3. ASSUME NEW q \in Writers, Keeps(new[q][i], i = job[q], acked[i])
        PROVE  Keeps(new'[q][i], i = job'[q], acked'[i])
    <3>1. q \in Processes /\ new[q][i] \in Nat /\ q # p
      BY <1>2, Counts DEF Writers, StoreTypes
    <3> QED
      BY <1>3, <1>4, <2>3, <3>1 DEF Keeps, StoreTypes
  <2>4. Keeps(new'[p][i], i = job'[p], acked'[i])
    <3>1. data.list[i] \in Nat /\ acked[i] \in Nat
      BY <1>1, Counts DEF StoreTypes
    <3>2. new'[p][i] = IF i = j THEN n ELSE data.list[i]
      BY <1>1, <1>4 DEF JobLists
    <3> QED
      BY <1>3, <1>4, <2>1, <3>1, <3>2 DEF Keeps, StoreTypes
  <2> QED
    <3>1. \A q \in Writers' : Keeps(new'[q][i], i = job'[q], acked'[i])
      <4>1. \A q \in Writers : Keeps(new[q][i], i = job[q], acked[i])
        BY DEF ListInv, Kept
      <4> QED
        BY <1>2, <2>3, <2>4, <4>1
    <3> QED
      BY <2>1, <2>2, <3>1 DEF Kept
<1>10. DeletedInv'
  <2> SUFFICES ASSUME NEW i \in deleted \ exposed
               PROVE  data.list[i] = 0 /\ tmp.list[i] = 0 /\ \A q \in Processes : new'[q][i] = 0
    BY <1>4 DEF DeletedInv
  <2>1. data.list[i] = 0 /\ tmp.list[i] = 0 /\ \A q \in Processes : new[q][i] = 0
    BY DEF DeletedInv
  <2>2. i # j /\ i \in Jobs
    BY <2>1 DEF StoreTypes
  <2>3. new'[p][i] = data.list[i]
    BY <1>1, <1>4, <2>2 DEF JobLists
  <2> QED
    BY <1>4, <2>1, <2>3
<1> QED
  BY <1>5, <1>6, <1>8, <1>9, <1>10

LEMMA AddStep ==
    ASSUME StoreConstants, StoreInv, NEW p \in Processes, NEW j \in Jobs, AddJob(p, j)
    PROVE  StoreInv'
BY ReadStep DEF StoreConstants, AddJob, Listed

LEMMA UpdateStep ==
    ASSUME StoreConstants, StoreInv, NEW p \in Processes, NEW j \in Jobs, UpdateJob(p, j)
    PROVE  StoreInv'
<1>1. data.list \in JobLists
  BY Texts0 DEF StoreInv, StoreTypes
<1>2. data.list[j] + 1 \in 0..MaxVersion /\ data.list[j] # 0
  BY <1>1 DEF StoreConstants, UpdateJob, Listed
<1>3. Read(p, j, [data.list EXCEPT ![j] = data.list[j] + 1]) /\ acked' = acked
  BY <1>1 DEF UpdateJob, Listed, JobLists
<1> QED
  BY <1>2, <1>3, ReadStep

LEMMA DeleteStep ==
    ASSUME StoreConstants, StoreInv, NEW p \in Processes, NEW j \in Jobs, DeleteJob(p, j)
    PROVE  StoreInv'
<1>1. data.list[j] # 0
  BY Texts0, Counts DEF DeleteJob, Listed, StoreInv, StoreTypes
<1>2. /\ Read(p, j, [data.list EXCEPT ![j] = 0]) /\ acked' = [acked EXCEPT ![j] = 0]
      /\ 0 \in 0..MaxVersion
  BY DEF StoreConstants, DeleteJob, Listed
<1> QED
  BY <1>1, <1>2, ReadStep

LEMMA OpenStep ==
    ASSUME StoreConstants, StoreInv, NEW p \in Processes, OpenTmp(p)
    PROVE  StoreInv'
<1> USE DEF StoreInv
<1>1. p \in Writers /\ Writers' = Writers /\ stage[p] = "read"
  BY DEF OpenTmp, Writers, StoreTypes
<1>2. StoreTypes'
  BY Texts0 DEF OpenTmp, StoreTypes
<1>3. MetInv'
  BY <1>1 DEF OpenTmp, MetInv
<1>4. FileInv'
  <2>1. \A q \in Processes \ {p} : HasFile(q)' = HasFile(q) /\ stage'[q] = stage[q]
    BY DEF OpenTmp, HasFile, StoreTypes
  <2>2. ~collided' => \A q \in Processes : ~HasFile(q)
    BY DEF OpenTmp
  <2>3. \A q \in Processes \ {p} : Undisturbed(q)' => ~HasFile(q)
    <3> SUFFICES ASSUME NEW q \in Processes \ {p}, q \notin met, HasFile(q) PROVE FALSE
      BY <2>2 DEF Undisturbed, OpenTmp
    <3> QED
      BY <1>1 DEF MetInv, Writers, HasFile
  <2>4. fd'[p] = "tmp" /\ stage'[p] = "open"
    BY DEF OpenTmp, StoreTypes
  <2> QED
    BY <2>1, <2>2, <2>3, <2>4 DEF FileInv, HasFile
<1>5. ListInv'
  BY <1>1 DEF OpenTmp, ListInv, Kept
<1>6. DeletedInv'
  BY Texts0 DEF OpenTmp, DeletedInv, StoreTypes
<1> QED
  BY <1>2, <1>3, <1>4, <1>5, <1>6

LEMMA FlushStep ==
    ASSUME StoreConstants, StoreInv, NEW p \in Processes, Flush(p)
    PROVE  StoreInv'
<1> USE DEF StoreInv
<1>1. /\ p \in Writers /\ Writers' = Writers /\ stage[p] = "open" /\ HasFile(p)
      /\ \A q \in Processes : HasFile(q)' = HasFile(q)
      /\ \A q \in Processes \ {p} : stage'[q] = stage[q]
  BY DEF Flush, Writers, StoreTypes, HasFile
<1>2. /\ tmp' = tmp \/ tmp' = Whole(new[p]) \/ tmp' = Unparsable
      /\ data' = data \/ data' = Whole(new[p]) \/ data' = Unparsable
  BY DEF Flush
<1>3. StoreTypes'
  BY <1>2, Texts0 DEF Flush, StoreTypes, history
<1>4. MetInv'
  BY <1>1 DEF Flush, MetInv, history
<1>5. Undisturbed(p) => tmp' = Whole(new[p]) /\ data' = data
  <2> SUFFICES ASSUME Undisturbed(p) PROVE tmp' = Whole(new[p]) /\ data' = data
    OBVIOUS
  <2>1. ~Shared(p)
    BY <1>1, FileIsOwn DEF Shared
  <2>2. fd[p] = "tmp"
    BY <1>1 DEF FileInv
  <2> QED
    BY <2>1, <2>2 DEF Flush
<1>6. FileInv'
  <2>1. \A q \in Processes : Undisturbed(q)' = Undisturbed(q) /\ fd'[q] = fd[q] /\ new'[q] = new[q]
    BY DEF Flush, history, Undisturbed
  <2>2. \A q \in Processes \ {p} : Undisturbed(q) => stage[q] # "flushed"
    BY <1>1, FileIsOwn DEF HasFile
  <2>3. collided' = collided
    BY DEF Flush, history
  <2> QED
    BY <1>1, <1>5, <2>1, <2>2, <2>3 DEF FileInv
<1>7. ListInv'
  BY <1>1, <1>5 DEF Flush, history, ListInv, Kept, Undisturbed
<1>8. DeletedInv'
  BY <1>2, Texts0 DEF Flush, history, DeletedInv, StoreTypes
<1> QED
  BY <1>3, <1>4, <1>6, <1>7, <1>8

\* A process that leaves takes nothing with it but its membership of met.
LEMMA Leaves ==
    ASSUME StoreConstants, StoreInv, NEW p \in Writers,
           stage' = [stage EXCEPT ![p] = "idle"], Forget(p)
    PROVE  /\ Writers' = Writers \ {p}
           /\ MetInv'
           /\ \A q \in Processes \ {p} :
                 /\ stage'[q] = stage[q] /\ new'[q] = new[q] /\ job'[q] = job[q]
                 /\ HasFile(q)' = HasFile(q)
                 /\ q \in met' <=> q \in met
           /\ ~HasFile(p)' /\ stage'[p] = "idle" /\ new'[p] = NoJobs
           /\ new' \in [Processes -> JobLists]
           /\ job' \in [Processes -> Jobs \cup {NoJob}]
<1> USE DEF StoreInv, StoreTypes
<1>1. p \in Processes
  BY DEF Writers
<1>2. Writers' = Writers \ {p}
  BY <1>1 DEF Writers
<1>3. /\ \A q \in Processes \ {p} :
            /\ stage'[q] = stage[q] /\ new'[q] = new[q] /\ job'[q] = job[q]
            /\ HasFile(q)' = HasFile(q)
            /\ q \in met' <=> q \in met
      /\ ~HasFile(p)' /\ stage'[p] = "idle" /\ new'[p] = NoJobs
  BY <1>1 DEF Forget, HasFile
<1>4. MetInv'
  BY <1>1, <1>2, <1>3 DEF MetInv, Forget, Writers
<1> QED
  BY <1>1, <1>2, <1>3, <1>4, Texts0 DEF Forget

\* The rename makes the change and reports it in one step.
LEMMA RenameStep ==
    ASSUME StoreConstants, StoreInv, NEW p \in Processes, Rename(p)
    PROVE  StoreInv'
<1> DEFINE j == job[p]
<1> USE DEF StoreInv
<1>1. /\ p \in Writers /\ stage[p] = "flushed" /\ HasFile(p) /\ j \in Jobs
      /\ stage' = [stage EXCEPT ![p] = "idle"] /\ Forget(p) /\ collided' = collided
  BY DEF Rename, Writers, HasFile, MetInv
<1>2. /\ Writers' = Writers \ {p} /\ MetInv'
      /\ \A q \in Processes \ {p} :
            /\ stage'[q] = stage[q] /\ new'[q] = new[q] /\ job'[q] = job[q]
            /\ HasFile(q)' = HasFile(q)
            /\ q \in met' <=> q \in met
      /\ ~HasFile(p)' /\ stage'[p] = "idle" /\ new'[p] = NoJobs
      /\ new' \in [Processes -> JobLists] /\ job' \in [Processes -> Jobs \cup {NoJob}]
  BY <1>1, Leaves
<1>3. FileInv'
  <2>1. \A q \in Processes : ~collided' /\ HasFile(q)' => FALSE
    BY <1>1, <1>2, FileIsOwn DEF Undisturbed
  <2>2. \A q \in Processes : Undisturbed(q)' => ~HasFile(q)' /\ stage'[q] # "flushed"
    BY <1>1, <1>2, FileIsOwn DEF Undisturbed, HasFile
  <2> QED
    BY <2>1, <2>2 DEF FileInv
<1>4. Undisturbed(p) => tmp = Whole(new[p]) /\ tmp # NoFile
  BY <1>1, Texts0 DEF FileInv, StoreTypes
<1>5. CASE tmp = NoFile
  <2>1. /\ UNCHANGED <<data, tmp, acked, deleted, exposed>>
        /\ fd' = [fd EXCEPT ![p] = "none"] /\ collided
    BY <1>4, <1>5 DEF Rename, Undisturbed, StoreTypes
  <2>2. StoreTypes'
    BY <1>1, <1>2, <2>1 DEF StoreTypes
  <2>3. ListInv' /\ DeletedInv'
    BY <1>1, <1>2, <2>1, Texts0 DEF ListInv, Kept, DeletedInv, StoreTypes
  <2> QED
    BY <1>2, <1>3, <2>2, <2>3
<1>6. CASE tmp # NoFile
  <2>1. /\ data' = tmp /\ tmp' = NoFile
        /\ fd' \in [Processes -> {"tmp", "data", "none"}]
        /\ acked' = IF new[p][j] = 0 THEN acked ELSE [acked EXCEPT ![j] = @ + 1]
        /\ deleted' = IF new[p][j] = 0 THEN deleted \cup {j} ELSE deleted
        /\ exposed' = IF p \in met THEN exposed \cup {j} ELSE exposed
    BY <1>6 DEF Rename, Replace
  <2>2. StoreTypes'
    <3>1. acked' \in [Jobs -> Nat]
      <4>1. acked \in [Jobs -> Nat] /\ [acked EXCEPT ![j] = @ + 1] \in [Jobs -> Nat]
        BY <1>1 DEF StoreTypes
      <4> QED
        BY <2>1, <4>1
    <3> QED
      BY <1>1, <1>2, <1>6, <2>1, <3>1 DEF StoreTypes
  <2>3. ListInv'
    <3> SUFFICES ASSUME ~collided PROVE data'.form = "whole" /\ \A i \in Jobs \ exposed' : Kept(i)'
      BY <1>1 DEF ListInv
    <3>1. new[p] \in JobLists /\ data' = Whole(new[p])
      BY <1>4, <2>1 DEF Undisturbed, StoreTypes
    <3>2. data'.form = "whole" /\ data'.list = new[p]
      BY <3>1, Texts0
    <3> SUFFICES ASSUME NEW i \in Jobs \ exposed' PROVE Kept(i)'
      BY <3>2
    <3>8. i \notin exposed
      BY <2>1
    <3>3. new[p][i] \in Nat /\ acked[i] \in Nat
      BY <3>1, Counts DEF StoreTypes
    <3>4. Keeps(new[p][i], i = j, acked[i])
      BY <1>1, <3>8 DEF ListInv, Kept
    <3>5. acked'[i] = IF i = j /\ new[p][i] # 0 THEN acked[i] + 1 ELSE acked[i]
      BY <1>1, <2>1 DEF StoreTypes
    <3>6. data'.list[i] >= acked'[i]
      BY <3>2, <3>3, <3>4, <3>5 DEF Keeps
    <3>7. ASSUME NEW q \in Writers'
          PROVE  Keeps(new'[q][i], i = job'[q], acked'[i])
      <4>1. q \in Writers /\ q # p /\ q \in Processes
        BY <1>2 DEF Writers
      <4>2. p \in met
        BY <1>1, <4>1 DEF MetInv
      <4>3. acked'[i] = acked[i]
        BY <1>1, <2>1, <3>5, <4>2
      <4>4. Keeps(new[q][i], i = job[q], acked[i])
        BY <3>8, <4>1 DEF ListInv, Kept
      <4> QED
        BY <1>2, <4>1, <4>3, <4>4 DEF Keeps
    <3> QED
      BY <3>2, <3>6, <3>7 DEF Kept
  <2>4. DeletedInv'
    <3> SUFFICES ASSUME NEW i \in deleted' \ exposed'
                 PROVE  /\ data'.list[i] = 0 /\ tmp'.list[i] = 0
                        /\ \A q \in Processes : new'[q][i] = 0
      BY DEF DeletedInv
    <3>1. i \in Jobs
      BY <2>2 DEF StoreTypes
    <3>2. tmp'.list[i] = 0 /\ new'[p][i] = 0
      BY <1>2, <2>1, <3>1, Texts0
    <3>3. CASE i \in deleted \ exposed
      BY <1>2, <2>1, <3>2, <3>3 DEF DeletedInv
    <3>4. CASE i \notin deleted \ exposed
      <4>1. i = j /\ new[p][i] = 0 /\ p \notin met
        BY <2>1, <3>4
      <4>2. data'.list = new[p]
        BY <1>4, <2>1, <4>1, Texts0 DEF Undisturbed, StoreTypes
      <4>3. \A q \in Processes \ {p} : new'[q] = NoJobs
        BY <1>1, <1>2, <4>1 DEF MetInv
      <4> QED
        BY <3>1, <3>2, <4>1, <4>2, <4>3, Texts0
    <3> QED
      BY <3>3, <3>4
  <2> QED
    BY <1>2, <1>3, <2>2, <2>3, <2>4
<1> QED
  BY <1>5, <1>6

LEMMA CrashStep ==
    ASSUME StoreConstants, StoreInv, NEW p \in Processes, Crash(p)
    PROVE  StoreInv'
<1> USE DEF StoreInv
<1>1. p \in Writers /\ stage' = [stage EXCEPT ![p] = "idle"] /\ Forget(p)
  BY DEF Crash, Writers
<1>2. /\ Writers' = Writers \ {p} /\ MetInv'
      /\ \A q \in Processes \ {p} :
            /\ stage'[q] = stage[q] /\ new'[q] = new[q] /\ job'[q] = job[q]
            /\ HasFile(q)' = HasFile(q)
            /\ q \in met' <=> q \in met
      /\ ~HasFile(p)' /\ stage'[p] = "idle" /\ new'[p] = NoJobs
      /\ new' \in [Processes -> JobLists] /\ job' \in [Processes -> Jobs \cup {NoJob}]
  BY <1>1, Leaves
<1>3. /\ UNCHANGED <<data, tmp, acked, deleted, exposed, collided>>
      /\ fd' = [fd EXCEPT ![p] = "none"]
  BY DEF Crash
<1>4. StoreTypes'
  BY <1>1, <1>2, <1>3 DEF StoreTypes
<1>5. FileInv'
  BY <1>2, <1>3 DEF FileInv, Undisturbed, StoreTypes
<1>6. ListInv'
  BY <1>2, <1>3 DEF ListInv, Kept, Writers
<1>7. DeletedInv'
  BY <1>2, <1>3, Texts0 DEF DeletedInv, StoreTypes
<1> QED
  BY <1>2, <1>4, <1>5, <1>6, <1>7

LEMMA StoreHolds == ASSUME StoreConstants PROVE Spec => []StoreInv
<1>1. StoreInv /\ UNCHANGED vars => StoreInv'
  <2> SUFFICES ASSUME StoreInv, UNCHANGED vars PROVE StoreInv'
    OBVIOUS
  <2>1. Writers' = Writers /\ \A p \in Processes : HasFile(p)' = HasFile(p)
    BY DEF vars, Writers, HasFile
  <2>2. StoreTypes' /\ MetInv'
    BY <2>1 DEF vars, history, StoreInv, StoreTypes, MetInv
  <2>3. FileInv' /\ ListInv' /\ DeletedInv'
    BY <2>1 DEF vars, history, StoreInv, FileInv, Undisturbed, ListInv, Kept, DeletedInv
  <2> QED
    BY <2>2, <2>3 DEF StoreInv
<1>2. StoreInv /\ [Next]_vars => StoreInv'
  BY <1>1, AddStep, UpdateStep, DeleteStep, OpenStep, FlushStep, RenameStep, CrashStep DEF Next
<1>3. Init => StoreInv
  BY InitStore
<1> QED
  BY <1>2, <1>3, PTL DEF Spec

\* JobStore._write_locked: whatever mutations overlap and are killed, a reader
\* finds a whole list until two of them have the temporary file open at once.
THEOREM ReadersFindWholeLists == ASSUME StoreConstants PROVE Spec => []ReadersSeeWholeLists
<1>1. StoreInv => ReadersSeeWholeLists
  BY DEF StoreInv, ListInv, ReadersSeeWholeLists
<1> QED
  BY <1>1, StoreHolds, PTL

\* Until then, what was reported of a job is in the file if none of its own
\* mutations overlapped another, whatever those of other jobs did.
THEOREM StoredChangesLast == ASSUME StoreConstants PROVE Spec => []ChangesAreDurable
<1>1. StoreInv => ChangesAreDurable
  BY DEF StoreInv, ListInv, Kept, Listed, ChangesAreDurable
<1> QED
  BY <1>1, StoreHolds, PTL

\* A job deleted while no other process was writing does not come back, even
\* when processes share the temporary file later.
THEOREM DeletedJobsStayDeleted == ASSUME StoreConstants PROVE Spec => []DeletedStaysDeleted
<1>1. StoreInv => DeletedStaysDeleted
  BY DEF StoreInv, DeletedInv, Listed, DeletedStaysDeleted
<1> QED
  BY <1>1, StoreHolds, PTL

=============================================================================

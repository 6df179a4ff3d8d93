------------------------------ MODULE Extensions ------------------------------
(***************************************************************************)
(* The extension registry: loading, ordering by dependencies, start_all    *)
(* with its rollback, stop_all, and what the extensions register in the    *)
(* session manager on the way.  Results that recover() found are kept      *)
(* until every extension has started, and then delivered to all of them.   *)
(*                                                                         *)
(* All that an extension registers (customizers, tools, servers, handlers, *)
(* prompts) is saved and restored together; here it is one entry of        *)
(* `registered`, and its delivery callback one of `callbacks`.             *)
(***************************************************************************)
EXTENDS Naturals, Sequences, SequencesExt, FiniteSets

CONSTANTS
    Exts,           \* names of extensions
    Graphs,         \* dependency graphs: [hard, soft : Exts -> SUBSET Exts]
    Frontends,      \* the extensions that register a delivery callback
    Results         \* results that recover() may find

ASSUME ExtensionsAssumption ==
    /\ IsFiniteSet(Exts) /\ Frontends \subseteq Exts
    /\ Graphs \subseteq [hard : [Exts -> SUBSET Exts], soft : [Exts -> SUBSET Exts]]

VARIABLES
    graph,      \* the dependencies, which never change
    list,       \* _extensions, sorted once start_all begins
    phase,      \* loading | starting | undoing | failed | running | stopping | stopped
    pos,        \* of start_all or stop_all in `list`
    running,    \* the extensions whose start() ran and whose stop() did not
    registered, callbacks,
    saved,      \* what start_all saved before the current extension
    holdBack,   \* ~_delivery_flush_enabled
    pending,    \* _pending_deliveries
    tasks,      \* the deliveries that were flushed
    got         \* history: of each result, the callbacks it was given to

evars == <<graph, list, phase, pos, running, registered, callbacks, saved, holdBack,
           pending, tasks, got>>
deliveries == <<holdBack, pending, tasks, got>>

Manager == [registered |-> registered, callbacks |-> callbacks, pending |-> pending]

ExtInit ==
    /\ graph \in Graphs
    /\ list = <<>> /\ phase = "loading" /\ pos = 1 /\ running = {}
    /\ registered = <<>> /\ callbacks = {}
    /\ pending \in SUBSET Results /\ tasks = {} /\ holdBack = FALSE
    /\ saved = Manager
    /\ got = [r \in Results |-> {}]

-----------------------------------------------------------------------------
(* Loading and ordering.                                                   *)

\* load(): one after another; one that cannot be imported is left out.
Load ==
    /\ phase = "loading"
    /\ \E e \in Exts \ ToSet(list) : list' = Append(list, e)
    /\ UNCHANGED <<graph, phase, pos, running, registered, callbacks, saved, deliveries>>

\* The extensions to start before e.
Before(e) == SetToSeq(graph.hard[e]) \o SetToSeq(graph.soft[e] \cap ToSet(list))

\* Visits of the extensions es, one after the other.
VisitAll(visit, order, visiting, es) ==
    LET after[i \in 0..Len(es)] ==
          IF i = 0 THEN order ELSE visit[<<after[i - 1], visiting, es[i]>>]
    IN after[Len(es)]

Visits == Seq(Exts) \X (SUBSET Exts) \X Exts

\* visit() of an order, the extensions being visited and one to visit: depth
\* first, each extension after those it depends on.  A cycle is broken where it
\* is met.  `visit` is what it calls.
Deeper(visit) ==
    [v \in Visits |->
       LET order == v[1]  visiting == v[2]  e == v[3] IN
         IF e \in ToSet(order) \cup visiting THEN order
         ELSE Append(VisitAll(visit, order, visiting \cup {e}, Before(e)), e)]

\* visit(), so many calls deep.  Those being visited differ, so there are no
\* more of them than extensions.
Visit[depth \in Nat] ==
    IF depth = 0 THEN [v \in Visits |-> v[1]] ELSE Deeper(Visit[depth - 1])

Sorted == VisitAll(Visit[Len(list)], <<>>, {}, list)

Complete == \A e \in ToSet(list) : graph.hard[e] \subseteq ToSet(list)

\* start_all validates, sorts, and holds the deliveries back.
StartAll ==
    /\ phase = "loading"
    /\ IF Complete THEN phase' = "starting" /\ list' = Sorted /\ holdBack' = TRUE
                   ELSE phase' = "failed" /\ UNCHANGED <<list, holdBack>>
    /\ saved' = Manager
    /\ UNCHANGED <<graph, pos, running, registered, callbacks, pending, tasks, got>>

-----------------------------------------------------------------------------
(* Starting.                                                               *)

Starting == phase = "starting" /\ pos <= Len(list)

\* Mutant: the first callback lets the deliveries out.
FlushesNow_Always == TRUE

\* add_delivery_callback: the deliveries go out at once unless held back.
FlushesNow == ~holdBack

\* start() of the next extension registers what it has to register.
Register ==
    /\ Starting /\ list[pos] \notin ToSet(registered)
    /\ registered' = Append(registered, list[pos])
    /\ running' = running \cup {list[pos]}
    /\ IF list[pos] \in Frontends
         THEN /\ callbacks' = callbacks \cup {list[pos]}
              /\ IF FlushesNow THEN tasks' = tasks \cup pending /\ pending' = {}
                               ELSE UNCHANGED <<tasks, pending>>
         ELSE UNCHANGED <<callbacks, tasks, pending>>
    /\ UNCHANGED <<graph, list, phase, pos, saved, holdBack, got>>

Started ==
    /\ Starting /\ list[pos] \in ToSet(registered)
    /\ pos' = pos + 1
    /\ saved' = Manager
    /\ UNCHANGED <<graph, list, phase, running, registered, callbacks, deliveries>>

\* It raises, before or after it registered; what it registered goes.
StartFails ==
    /\ Starting
    /\ registered' = saved.registered /\ callbacks' = saved.callbacks
    /\ phase' = "undoing"
    /\ running' = running \cup {list[pos]}
    /\ UNCHANGED <<graph, list, pos, saved, deliveries>>

\* Mutant: the rollback stops in the order of the start.
NextToUndo_Forward == CHOOSE i \in 1..pos : /\ list[i] \in running
                                            /\ \A j \in 1..(i - 1) : list[j] \notin running

\* _rollback_started: the one that failed first, then the others backwards.
NextToUndo == CHOOSE i \in 1..pos : /\ list[i] \in running
                                    /\ \A j \in (i + 1)..pos : list[j] \notin running

UndoOne ==
    /\ phase = "undoing" /\ running # {}
    /\ running' = running \ {list[NextToUndo]}
    /\ callbacks' = callbacks \ {list[NextToUndo]}
    /\ UNCHANGED <<graph, list, phase, pos, registered, saved, deliveries>>

\* Mutant: what the extensions before the failed one registered stays.
Initially_Kept == registered

Initially == <<>>

\* At the end everything is as before start_all, which raises.
Undone ==
    /\ phase = "undoing" /\ running = {}
    /\ registered' = Initially /\ callbacks' = {}
    /\ holdBack' = FALSE
    /\ phase' = "failed"
    /\ UNCHANGED <<graph, list, pos, running, saved, pending, tasks, got>>

\* All have started: what was held back goes out.
AllStarted ==
    /\ phase = "starting" /\ pos > Len(list)
    /\ phase' = "running"
    /\ holdBack' = FALSE
    /\ IF callbacks # {} THEN tasks' = tasks \cup pending /\ pending' = {}
                         ELSE UNCHANGED <<tasks, pending>>
    /\ UNCHANGED <<graph, list, pos, running, registered, callbacks, saved, got>>

\* The task of a delivery hands it to the callbacks there are now.
Deliver(r) ==
    /\ r \in tasks
    /\ tasks' = tasks \ {r}
    /\ got' = [got EXCEPT ![r] = callbacks]
    /\ UNCHANGED <<graph, list, phase, pos, running, registered, callbacks, saved, holdBack, pending>>

\* stop_all, backwards; a stop() that raises is passed over.
StopAll ==
    /\ phase = "running"
    /\ phase' = "stopping" /\ pos' = Len(list)
    /\ UNCHANGED <<graph, list, running, registered, callbacks, saved, deliveries>>

StopOne ==
    /\ phase = "stopping"
    /\ IF pos = 0 THEN phase' = "stopped" /\ UNCHANGED <<pos, running, callbacks>>
       ELSE /\ running' = running \ {list[pos]}
            /\ callbacks' = callbacks \ {list[pos]}
            /\ pos' = pos - 1
            /\ UNCHANGED phase
    /\ UNCHANGED <<graph, list, registered, saved, deliveries>>

ExtNext ==
    \/ Load \/ StartAll \/ Register \/ Started \/ StartFails \/ UndoOne \/ Undone \/ AllStarted
    \/ StopAll \/ StopOne
    \/ \E r \in Results : Deliver(r)

-----------------------------------------------------------------------------
(* Properties.                                                             *)

\* While an extension runs, from the first line of its start() to the end of
\* its stop(), all that it requires runs too, through a rollback as well.
DependenciesAround == \A e \in running : graph.hard[e] \subseteq running

\* A start that fails half way leaves nothing behind: no setting of the
\* extensions that had started reaches a session, and no recovered result
\* was given to some of them only.
NothingAfterFailure ==
    phase = "failed" => /\ registered = <<>> /\ callbacks = {} /\ running = {}
                        /\ tasks = {} /\ \A r \in Results : got[r] = {}

\* A recovered result reaches every frontend, not only those that started
\* before it was let out.
RecoveredReachAll ==
    [][\A r \in Results : got'[r] # got[r] /\ phase \notin {"stopping", "stopped"}
         => got'[r] = Frontends \cap ToSet(list)]_evars
=============================================================================

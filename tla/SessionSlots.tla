---------------------------- MODULE SessionSlots ----------------------------
(***************************************************************************)
(* The sessions of one user and their slot numbers: create_session,        *)
(* _next_slot, destroy_session and the part of recover() that decides      *)
(* which directories become sessions again.                                *)
(*                                                                         *)
(* create_session checks the limit and picks the slot, awaits the tmux     *)
(* server, and only then registers the session.  Its callers are the       *)
(* Telegram handlers, which python-telegram-bot runs one at a time, and    *)
(* the cron scheduler: two calls may overlap.                              *)
(***************************************************************************)
EXTENDS Naturals, FiniteSets

CONSTANTS
    Calls,          \* the calls of create_session, hence the sessions
    Limits,         \* the values max_sessions_per_user takes (SIGHUP reloads it)
    MaxInFlight     \* how many create_session calls may overlap

ASSUME SlotsAssumption ==
    /\ IsFiniteSet(Calls)
    /\ Limits \subseteq Nat /\ Limits # {}
    /\ MaxInFlight \in Nat \ {0}

VARIABLES
    limit,      \* max_sessions_per_user
    stage,      \* of each call: new | creating | live | leaving | refused | gone
    slot,       \* the slot chosen by each call, 0 before
    \* History:
    met,        \* the pairs of calls that overlapped
    revived     \* the sessions that a restart found half destroyed

vars == <<limit, stage, slot, met, revived>>

Live == {c \in Calls : stage[c] = "live"}          \* the `sessions` dict
Creating == {c \in Calls : stage[c] = "creating"}  \* awaiting tmux
Used == {slot[c] : c \in Live}
Kept == Live \ revived

Stages == {"new", "creating", "live", "leaving", "refused", "gone"}

SlotsTypeOK ==
    /\ limit \in Limits
    /\ stage \in [Calls -> Stages]
    /\ slot \in [Calls -> Nat]
    /\ met \in SUBSET (Calls \X Calls)
    /\ revived \in SUBSET Calls

Init ==
    /\ limit \in Limits
    /\ stage = [c \in Calls |-> "new"]
    /\ slot = [c \in Calls |-> 0]
    /\ met = {} /\ revived = {}

\* Mutants: the slot after the number of sessions; the slot after the highest.
IsNextSlot_Count(i) == i \in 1..limit /\ i = Cardinality(Live) + 1
IsNextSlot_Highest(i) == i \in 1..limit /\ \A j \in Used : j < i

IsNextSlot(i) ==
    /\ i \in 1..limit
    /\ i \notin Used
    /\ \A j \in 1..limit : j < i => j \in Used

UnderLimit == Cardinality(Live) < limit

\* The limit check and the choice of a slot, up to the await of tmux.
BeginCreate(c) ==
    /\ stage[c] = "new"
    /\ Cardinality(Creating) < MaxInFlight
    /\ UnderLimit
    /\ \E i \in 1..limit :
          /\ IsNextSlot(i)
          /\ slot' = [slot EXCEPT ![c] = i]
    /\ stage' = [stage EXCEPT ![c] = "creating"]
    /\ met' = met \cup ({c} \X Creating) \cup (Creating \X {c})
    /\ UNCHANGED <<limit, revived>>

\* The limit is reached; or, were it possible, _next_slot finds no slot.
Refuse(c) ==
    /\ stage[c] = "new"
    /\ UnderLimit => \A i \in 1..limit : ~IsNextSlot(i)
    /\ stage' = [stage EXCEPT ![c] = "refused"]
    /\ UNCHANGED <<limit, slot, met, revived>>

\* tmux answers: the session is registered, queued and saved; on failure its
\* directory is removed.
TmuxCreated(c) ==
    /\ stage[c] = "creating"
    /\ stage' = [stage EXCEPT ![c] = "live"]
    /\ UNCHANGED <<limit, slot, met, revived>>

TmuxFailed(c) ==
    /\ stage[c] = "creating"
    /\ stage' = [stage EXCEPT ![c] = "gone"]
    /\ UNCHANGED <<limit, slot, met, revived>>

\* The session leaves the dict, and frees its slot ...
Destroy(c) ==
    /\ stage[c] = "live"
    /\ stage' = [stage EXCEPT ![c] = "leaving"]
    /\ UNCHANGED <<limit, slot, met, revived>>

\* ... before tmux is killed and its directory goes.
Removed(c) ==
    /\ stage[c] = "leaving"
    /\ stage' = [stage EXCEPT ![c] = "gone"]
    /\ UNCHANGED <<limit, slot, met, revived>>

\* recover() loads every directory that holds a state.json: a session whose
\* creation was interrupted has none, one that was being destroyed still has.
Restart ==
    /\ stage' = [c \in Calls |-> CASE stage[c] = "creating" -> "gone"
                                   [] stage[c] = "leaving" -> "live"
                                   [] OTHER -> stage[c]]
    /\ revived' = revived \cup {c \in Calls : stage[c] = "leaving"}
    /\ limit' \in Limits
    /\ UNCHANGED <<slot, met>>

\* SIGHUP.
Reload ==
    /\ limit' \in Limits
    /\ UNCHANGED <<stage, slot, met, revived>>

Next ==
    \/ \E c \in Calls : BeginCreate(c) \/ Refuse(c) \/ TmuxCreated(c) \/ TmuxFailed(c)
                        \/ Destroy(c) \/ Removed(c)
    \/ Restart \/ Reload

Spec == Init /\ [][Next]_vars

-----------------------------------------------------------------------------
(* Properties.                                                             *)

\* Two sessions of a user have the same slot, which the chat commands use to
\* name them, only if their create_session calls overlapped, or if a restart
\* brought one of them back from its destruction, with its old slot.
SlotsDistinct ==
    \A c, d \in Kept : slot[c] = slot[d] => c = d \/ <<c, d>> \in met

\* A create_session call that passes the limit check finds a slot, whatever
\* the limit was when the present sessions got theirs.
SlotAvailable == Cardinality(Live) < limit => \E i \in 1..limit : IsNextSlot(i)

\* The user never ends up with more sessions than the largest limit that was
\* in force, plus one for each call that overlapped another (and those that a
\* restart brought back).
OvershootBounded ==
    \E m \in Limits : Cardinality(Kept) + Cardinality(Creating) <= m + MaxInFlight - 1
=============================================================================

---------------------------- MODULE EngineProofs ----------------------------
(***************************************************************************)
(* What the engine keeps around the sessions, for any constants: their     *)
(* slots and names, and the session a message reaches (Conversations,      *)
(* which implements SessionSlots); the order of the extensions, what runs  *)
(* of them and what they registered (Extensions); and the settings of a    *)
(* prompt (PromptSettings).                                                *)
(***************************************************************************)
EXTENDS Conversations, PromptSettings, SequenceTheorems, FiniteSetTheorems, WellFoundedInduction,
        TLAPS

-----------------------------------------------------------------------------
(* Numbers and recursion.                                                  *)

\* A set of numbers has a least element, also one of the numbers for which
\* something fails: the induction of this module.
LEMMA LeastNumber ==
    ASSUME NEW S \in SUBSET Nat, S # {}
    PROVE  \E i \in S : \A j \in S : i <= j
<1>1. PICK i \in S : \A j \in S : ~(<<j, i>> \in OpToRel(<, Nat))
  BY NatLessThanWellFounded, WFMin
<1>2. \A j \in S : ~(j < i)
  BY <1>1 DEF OpToRel
<1>3. QED
  BY <1>2

\* The first n results of a recursive function that begins with b and goes on
\* with f.
Follows(h, f, n) == \A i \in Nat : i < n => h[i + 1] = f[<<i, h[i]>>]
FirstResults(h, S, b, f, n) == h \in [0..n -> S] /\ h[0] = b /\ Follows(h, f, n)

LEMMA OneMore ==
    ASSUME NEW S, NEW b, NEW f \in [Nat \X S -> S], NEW n \in Nat, NEW g, FirstResults(g, S, b, f, n)
    PROVE  \E h : FirstResults(h, S, b, f, n + 1)
<1> DEFINE last == f[<<n, g[n]>>]
           h == [i \in 0..(n + 1) |-> IF i = n + 1 THEN last ELSE g[i]]
<1>1. last \in S
  <2>1. g[n] \in S
    BY DEF FirstResults
  <2> QED
    BY <2>1
<1> HIDE DEF last
<1>2. \A i \in 0..(n + 1) : i = n + 1 \/ i \in 0..n
  OBVIOUS
<1>3. h \in [0..(n + 1) -> S]
  BY <1>1, <1>2 DEF FirstResults
<1>4. h[0] = b /\ 0 \in 0..(n + 1)
  BY DEF FirstResults
<1>5. ASSUME NEW i \in Nat, i < n + 1 PROVE h[i + 1] = f[<<i, h[i]>>]
  <2>1. i \in 0..(n + 1) /\ i # n + 1 /\ i + 1 \in 0..(n + 1)
    BY <1>5
  <2>2. h[i] = g[i]
    BY <2>1
  <2>3. CASE i = n
    BY <2>1, <2>2, <2>3 DEF last
  <2>4. CASE i # n
    <3>1. i < n /\ h[i + 1] = g[i + 1]
      BY <1>5, <2>1, <2>4
    <3> QED
      BY <2>2, <3>1 DEF FirstResults, Follows
  <2> QED
    BY <2>3, <2>4
<1> QED
  BY <1>3, <1>4, <1>5 DEF FirstResults, Follows

LEMMA HasResults ==
    ASSUME NEW S, NEW b \in S, NEW f \in [Nat \X S -> S], NEW n \in Nat
    PROVE  \E h : FirstResults(h, S, b, f, n)
<1> DEFINE bad == {m \in Nat : ~\E h : FirstResults(h, S, b, f, m)}
<1>1. ASSUME bad # {} PROVE FALSE
  <2>1. PICK m \in bad : \A j \in bad : m <= j
    BY <1>1, LeastNumber
  <2>2. m \in Nat /\ ~\E h : FirstResults(h, S, b, f, m)
    BY <2>1
  <2>3. CASE m = 0
    <3>1. FirstResults([i \in 0..0 |-> b], S, b, f, 0)
      BY DEF FirstResults, Follows
    <3> QED
      BY <2>2, <2>3, <3>1
  <2>4. CASE m # 0
    <3>1. m - 1 \in Nat /\ m - 1 + 1 = m /\ ~(m <= m - 1)
      BY <2>2, <2>4
    <3>2. \E h : FirstResults(h, S, b, f, m - 1)
      BY <2>1, <3>1
    <3> QED
      BY <2>2, <3>1, <3>2, OneMore
  <2> QED
    BY <2>3, <2>4
<1> QED
  BY <1>1

LEMMA SameResults ==
    ASSUME NEW S, NEW b, NEW f, NEW n \in Nat, NEW m \in Nat, m <= n,
           NEW g, NEW h, FirstResults(g, S, b, f, m), FirstResults(h, S, b, f, n)
    PROVE  g[m] = h[m]
<1> DEFINE bad == {i \in 0..m : g[i] # h[i]}
<1>0. bad \in SUBSET Nat
  OBVIOUS
<1>1. ASSUME bad # {} PROVE FALSE
  <2>1. PICK i \in bad : \A j \in bad : i <= j
    BY <1>0, <1>1, LeastNumber
  <2>2. i \in 0..m /\ g[i] # h[i]
    BY <2>1
  <2>3. i # 0
    BY <2>2 DEF FirstResults
  <2>4. i - 1 \in Nat /\ i - 1 + 1 = i /\ i - 1 < m /\ i - 1 < n /\ ~(i <= i - 1) /\ i - 1 \in 0..m
    BY <2>2, <2>3
  <2>5. g[i - 1] = h[i - 1]
    BY <2>1, <2>4
  <2>6. g[i] = f[<<i - 1, g[i - 1]>>] /\ h[i] = f[<<i - 1, h[i - 1]>>]
    BY <2>4 DEF FirstResults, Follows
  <2> QED
    BY <2>2, <2>5, <2>6
<1>2. m \in 0..m
  OBVIOUS
<1> QED
  BY <1>1, <1>2

Recurs(h, S, b, f) == h \in [Nat -> S] /\ h[0] = b /\ \A i \in Nat : h[i + 1] = f[<<i, h[i]>>]

LEMMA Recursion ==
    ASSUME NEW S, NEW b \in S, NEW f \in [Nat \X S -> S]
    PROVE  \E h : Recurs(h, S, b, f)
<1> DEFINE part(n) == CHOOSE h : FirstResults(h, S, b, f, n)
           h == [n \in Nat |-> part(n)[n]]
<1>1. ASSUME NEW n \in Nat PROVE FirstResults(part(n), S, b, f, n)
  BY HasResults
<1> HIDE DEF part
<1>2. h \in [Nat -> S]
  BY <1>1 DEF FirstResults
<1>3. h[0] = b
  BY <1>1 DEF FirstResults
<1>4. ASSUME NEW i \in Nat PROVE h[i + 1] = f[<<i, h[i]>>]
  <2>1. i + 1 \in Nat /\ i <= i + 1 /\ i < i + 1
    OBVIOUS
  <2>2. part(i)[i] = part(i + 1)[i]
    BY <1>1, <2>1, SameResults
  <2>3. part(i + 1)[i + 1] = f[<<i, part(i + 1)[i]>>]
    BY <1>1, <2>1 DEF FirstResults, Follows
  <2> QED
    BY <2>1, <2>2, <2>3
<1> QED
  BY <1>2, <1>3, <1>4 DEF Recurs

-----------------------------------------------------------------------------
(* Type correctness.                                                       *)

\* Every variable keeps its type.
THEOREM SlotsTypeCorrect == Spec => []SlotsTypeOK
<1>1. Init => SlotsTypeOK
  BY DEF Init, SlotsTypeOK, Stages
<1>2. SlotsTypeOK /\ [Next]_vars => SlotsTypeOK'
  <2> SUFFICES ASSUME SlotsTypeOK, [Next]_vars
               PROVE  SlotsTypeOK'
    OBVIOUS
  <2> USE SlotsAssumption DEF SlotsTypeOK, Stages
  <2>1. ASSUME NEW c \in Calls, BeginCreate(c)
        PROVE  SlotsTypeOK'
    BY <2>1 DEF BeginCreate, UnderLimit, Creating
  <2>2. ASSUME NEW c \in Calls, Refuse(c) \/ TmuxCreated(c) \/ TmuxFailed(c)
                              \/ Destroy(c) \/ Removed(c)
        PROVE  SlotsTypeOK'
    BY <2>2 DEF Refuse, TmuxCreated, TmuxFailed, Destroy, Removed
  <2>3. CASE Restart \/ Reload
    BY <2>3 DEF Restart, Reload
  <2>4. CASE UNCHANGED vars
    BY <2>4 DEF vars
  <2>5. QED
    BY <2>1, <2>2, <2>3, <2>4 DEF Next
<1>3. QED
  BY <1>1, <1>2, PTL DEF Spec

-----------------------------------------------------------------------------
(* A free slot.                                                            *)

LEMMA LiveIsFinite == IsFiniteSet(Live) /\ IsFiniteSet(Kept) /\ IsFiniteSet(Creating)
  BY SlotsAssumption, FS_Subset DEF Live, Kept, Creating

\* The pigeonhole argument: fewer sessions than slots leave a slot unused.
LEMMA SomeSlotUnused ==
    ASSUME SlotsTypeOK, Cardinality(Live) < limit
    PROVE  \E i \in 1..limit : i \notin Used
<1> SUFFICES ASSUME \A i \in 1..limit : i \in Used
             PROVE  FALSE
  OBVIOUS
<1> DEFINE holder == [i \in 1..limit |-> CHOOSE c \in Live : slot[c] = i]
<1>1. limit \in Nat
  BY SlotsAssumption DEF SlotsTypeOK
<1>2. \A i \in 1..limit : holder[i] \in Live /\ slot[holder[i]] = i
  BY DEF Used
<1>3. holder \in [1..limit -> Live]
  BY <1>2
<1>4. IsFiniteSet(1..limit) /\ Cardinality(1..limit) = limit
  BY <1>1, FS_Interval
<1>5. PICK i, j \in 1..limit : i # j /\ holder[i] = holder[j]
  <2> HIDE DEF holder
  <2> QED
    BY <1>3, <1>4, LiveIsFinite, FS_PigeonHole
<1>6. QED
  BY <1>2, <1>5

\* A create_session call that passes the limit check finds a slot, whatever
\* the limits were before.
THEOREM SlotIsAvailable == Spec => []SlotAvailable
<1>1. SlotsTypeOK => SlotAvailable
  <2> SUFFICES ASSUME SlotsTypeOK, Cardinality(Live) < limit
               PROVE  \E i \in 1..limit : IsNextSlot(i)
    BY DEF SlotAvailable
  <2> DEFINE free == {i \in 1..limit : i \notin Used}
  <2>1. limit \in Nat /\ free \subseteq Nat /\ free # {}
    BY SomeSlotUnused, SlotsAssumption DEF SlotsTypeOK
  <2>2. PICK i \in free : \A j \in free : i <= j
    BY <2>1, LeastNumber
  <2>3. ASSUME NEW j \in 1..limit, j < i
        PROVE  j \in Used
    BY <2>1, <2>2, <2>3
  <2>4. QED
    BY <2>2, <2>3 DEF IsNextSlot
<1>2. QED
  BY <1>1, SlotsTypeCorrect, PTL

-----------------------------------------------------------------------------
(* The sharing of slots.                                                   *)

\* A call that awaits tmux shares its slot with no session or other call, but
\* for those it overlapped.
SharedInv ==
    /\ SlotsTypeOK
    /\ \A c \in Creating, d \in Live : slot[c] = slot[d] => <<c, d>> \in met /\ <<d, c>> \in met
    /\ \A c, d \in Creating : c = d \/ <<c, d>> \in met
    /\ SlotsDistinct

\* Two sessions have the same slot only if the calls that created them
\* overlapped, however many calls overlap.
THEOREM SlotsAreDistinct == Spec => []SlotsDistinct
<1> USE DEF SharedInv, SlotsDistinct, Creating, Live, Kept
<1>1. Init => SharedInv
  BY SlotsAssumption DEF Init, SlotsTypeOK, Stages
<1>2. SharedInv /\ SlotsTypeOK' /\ [Next]_vars => SharedInv'
  <2> SUFFICES ASSUME SharedInv, SlotsTypeOK', [Next]_vars
               PROVE  SharedInv'
    OBVIOUS
  <2>1. ASSUME NEW c \in Calls, BeginCreate(c)
        PROVE  SharedInv'
    <3>1. PICK i \in 1..limit : i \notin Used /\ slot' = [slot EXCEPT ![c] = i]
      BY <2>1 DEF BeginCreate, UnderLimit, IsNextSlot
    <3>2. /\ stage[c] = "new" /\ stage' = [stage EXCEPT ![c] = "creating"]
          /\ UNCHANGED revived
          /\ met' = met \cup ({c} \X Creating) \cup (Creating \X {c})
      BY <2>1 DEF BeginCreate, UnderLimit
    <3>3. /\ Creating' = Creating \cup {c} /\ Live' = Live
          /\ c \notin Live /\ c \notin Creating
      BY <3>2 DEF SlotsTypeOK
    <3>4. /\ \A d \in Live : slot'[d] = slot[d] /\ slot'[c] # slot[d]
          /\ \A d \in Creating : slot'[d] = slot[d]
      BY <3>1, <3>3 DEF SlotsTypeOK, Used
    <3>5. /\ \A d \in Creating : <<c, d>> \in met' /\ <<d, c>> \in met'
          /\ met \subseteq met'
      BY <3>2
    <3> HIDE DEF Creating, Live
    <3>6. \A a \in Creating', d \in Live' :
              slot'[a] = slot'[d] => <<a, d>> \in met' /\ <<d, a>> \in met'
      BY <3>3, <3>4, <3>5
    <3>7. \A a, d \in Creating' : a = d \/ <<a, d>> \in met'
      BY <3>3, <3>5
    <3>8. SlotsDistinct'
      BY <3>2, <3>3, <3>4, <3>5
    <3>9. QED
      BY <3>6, <3>7, <3>8
  <2>2. ASSUME NEW c \in Calls, TmuxCreated(c)
        PROVE  SharedInv'
    <3>1. /\ Live' = Live \cup {c} /\ Creating' = Creating \ {c}
          /\ c \in Creating
      BY <2>2 DEF TmuxCreated, SlotsTypeOK
    <3>2. UNCHANGED <<slot, met, revived>>
      BY <2>2 DEF TmuxCreated
    <3> HIDE DEF Creating, Live
    <3>3. \A a \in Creating', d \in Live' :
              slot'[a] = slot'[d] => <<a, d>> \in met' /\ <<d, a>> \in met'
      BY <3>1, <3>2
    <3>4. SlotsDistinct'
      BY <3>1, <3>2
    <3>5. QED
      BY <3>1, <3>2, <3>3, <3>4
  <2>3. ASSUME NEW c \in Calls, Refuse(c) \/ TmuxFailed(c) \/ Destroy(c) \/ Removed(c)
        PROVE  SharedInv'
    <3>1. /\ Live' \subseteq Live /\ Creating' \subseteq Creating
          /\ UNCHANGED <<slot, met, revived>>
      BY <2>3 DEF Refuse, TmuxFailed, Destroy, Removed, SlotsTypeOK
    <3>2. QED
      BY <3>1
  <2>4. CASE Restart \/ Reload \/ UNCHANGED vars
    <3>1. Kept' \subseteq Kept /\ UNCHANGED <<slot, met>>
      BY <2>4 DEF Restart, Reload, vars, SlotsTypeOK
    <3>2. Creating' = {} \/ (Creating' = Creating /\ Live' = Live)
      BY <2>4 DEF Restart, Reload, vars, SlotsTypeOK
    <3>3. QED
      BY <3>1, <3>2
  <2>5. QED
    BY <2>1, <2>2, <2>3, <2>4 DEF Next
<1>3. QED
  BY <1>1, <1>2, SlotsTypeCorrect, PTL DEF Spec

-----------------------------------------------------------------------------
(* The limit.                                                              *)

\* Each call that overlaps another can exceed the limit by one session.
THEOREM OvershootIsBounded == Spec => []OvershootBounded
<1> DEFINE taken == Cardinality(Kept) + Cardinality(Creating)
<1>1. Init => OvershootBounded
  <2> SUFFICES ASSUME Init
               PROVE  OvershootBounded
    OBVIOUS
  <2>1. Kept = {} /\ Creating = {}
    BY DEF Init, Kept, Live, Creating
  <2>2. QED
    BY <2>1, FS_EmptySet, SlotsAssumption DEF Init, OvershootBounded
<1>2. SlotsTypeOK /\ SlotsTypeOK' /\ OvershootBounded /\ [Next]_vars => OvershootBounded'
  <2> SUFFICES ASSUME SlotsTypeOK, SlotsTypeOK', OvershootBounded, [Next]_vars
               PROVE  OvershootBounded'
    OBVIOUS
  <2>1. /\ IsFiniteSet(Kept) /\ IsFiniteSet(Creating)
        /\ Cardinality(Kept) \in Nat /\ Cardinality(Creating) \in Nat
    BY LiveIsFinite, FS_CardinalityType
  <2>2. ASSUME NEW c \in Calls, BeginCreate(c)
        PROVE  OvershootBounded'
    <3>1. Live' = Live /\ Kept' = Kept /\ Creating' = Creating \cup {c} /\ c \notin Creating
      BY <2>2 DEF BeginCreate, UnderLimit, Kept, Live, Creating, SlotsTypeOK
    <3>2. Cardinality(Creating') = Cardinality(Creating) + 1
      BY <2>1, <3>1, FS_AddElement
    <3>3. /\ limit \in Limits /\ limit \in Nat /\ MaxInFlight \in Nat
          /\ Cardinality(Live) < limit /\ Cardinality(Creating) < MaxInFlight
      BY <2>2, SlotsAssumption DEF BeginCreate, UnderLimit, SlotsTypeOK
    <3>4. Cardinality(Kept) <= Cardinality(Live) /\ Cardinality(Live) \in Nat
      BY LiveIsFinite, FS_Subset, FS_CardinalityType DEF Kept
    <3>5. Cardinality(Kept') + Cardinality(Creating') <= limit + MaxInFlight - 1
      BY <2>1, <3>1, <3>2, <3>3, <3>4
    <3>6. QED
      BY <3>3, <3>5 DEF OvershootBounded
  <2>3. ASSUME NEW c \in Calls, TmuxCreated(c)
        PROVE  OvershootBounded'
    <3>1. /\ Kept' \subseteq Kept \cup {c} /\ c \notin Kept
          /\ Creating' = Creating \ {c} /\ c \in Creating
      BY <2>3 DEF TmuxCreated, Kept, Live, Creating, SlotsTypeOK
    <3>2. /\ IsFiniteSet(Kept \cup {c}) /\ Cardinality(Kept \cup {c}) = Cardinality(Kept) + 1
          /\ Cardinality(Creating') = Cardinality(Creating) - 1
      BY <2>1, <3>1, FS_AddElement, FS_RemoveElement
    <3>3. Cardinality(Kept') <= Cardinality(Kept) + 1 /\ Cardinality(Kept') \in Nat
      BY <3>1, <3>2, FS_Subset, FS_CardinalityType
    <3>4. PICK m \in Limits : taken <= m + MaxInFlight - 1
      BY DEF OvershootBounded
    <3>5. taken' <= m + MaxInFlight - 1
      BY <2>1, <3>2, <3>3, <3>4, SlotsAssumption
    <3>6. QED
      BY <3>5 DEF OvershootBounded
  <2>4. ASSUME Kept' \subseteq Kept, Creating' \subseteq Creating
        PROVE  OvershootBounded'
    <3>1. /\ Cardinality(Kept') <= Cardinality(Kept) /\ Cardinality(Kept') \in Nat
          /\ Cardinality(Creating') <= Cardinality(Creating) /\ Cardinality(Creating') \in Nat
      BY <2>1, <2>4, FS_Subset, FS_CardinalityType
    <3>2. PICK m \in Limits :
              Cardinality(Kept) + Cardinality(Creating) <= m + MaxInFlight - 1
      BY DEF OvershootBounded
    <3>3. Cardinality(Kept') + Cardinality(Creating') <= m + MaxInFlight - 1
      BY <2>1, <3>1, <3>2, SlotsAssumption
    <3>4. QED
      BY <3>3 DEF OvershootBounded
  <2>5. CASE \/ \E c \in Calls : Refuse(c) \/ TmuxFailed(c) \/ Destroy(c) \/ Removed(c)
             \/ Restart \/ Reload \/ UNCHANGED vars
    <3>1. Kept' \subseteq Kept /\ Creating' \subseteq Creating
      BY <2>5 DEF Refuse, TmuxFailed, Destroy, Removed, Restart, Reload, vars, Kept, Live, Creating,
                  SlotsTypeOK
    <3>2. QED
      BY <2>4, <3>1
  <2>6. QED
    BY <2>2, <2>3, <2>5 DEF Next
<1>3. QED
  BY <1>1, <1>2, SlotsTypeCorrect, PTL DEF Spec

-----------------------------------------------------------------------------
(* The conversations use the slots as SessionSlots says.                   *)

\* The steps of a conversation that concern its session, and the others.
LEMMA StepOfSlots == CNext => Next \/ UNCHANGED vars
<1> SUFFICES ASSUME CNext PROVE Next \/ UNCHANGED vars
  OBVIOUS
<1>1. ASSUME NEW c \in Calls, NEW n \in Names, New(c, n) \/ Rename(c, n)
      PROVE  Next \/ UNCHANGED vars
  BY <1>1 DEF New, Rename, Next
<1>2. ASSUME NEW c \in Calls,
             \/ CronCreate(c) \/ Created(c) \/ CreateFails(c) \/ Refused(c) \/ Switch(c)
             \/ Delete(c) \/ Deleted(c) \/ CronDestroy(c)
             \/ MessageTo(c) \/ MessageToOther(c) \/ MessageToNew(c)
      PROVE  Next \/ UNCHANGED vars
  BY <1>2 DEF CronCreate, Created, CreateFails, Refused, Switch, Delete, Deleted, CronDestroy,
              MessageTo, MessageToOther, MessageToNew, Next
<1>3. CASE CRestart \/ CReload
  BY <1>3 DEF CRestart, CReload, Next
<1> QED
  BY <1>1, <1>2, <1>3 DEF CNext

\* Conversations implements SessionSlots: whatever the chat commands and the
\* scheduler do, sessions are created and destroyed by its actions.
THEOREM SlotsAreKept == CSpec => Spec
<1>1. CInit => Init
  BY DEF CInit
<1>2. [CNext]_cvars => [Next]_vars
  BY StepOfSlots DEF cvars
<1> QED
  BY <1>1, <1>2, PTL DEF CSpec, Spec

\* SlotsDistinct and SlotAvailable of the conversations.
THEOREM SlotsInConversations == CSpec => [](SlotsDistinct /\ SlotAvailable)
BY SlotsAreKept, SlotsAreDistinct, SlotIsAvailable, PTL

-----------------------------------------------------------------------------
(* Names.                                                                  *)

\* The chat handler creates or deletes one session; what the scheduler
\* creates has its own kind of name.
HandlerInv ==
    /\ handler # NoCall => handler \in Calls /\ stage[handler] \in {"creating", "leaving"}
    /\ \A c \in Calls : stage[c] = "new" => name[c] = CronName
    /\ \A c \in Creating : c = handler \/ name[c] = CronName

SameName(c, d) == name[c] = name[d] => c = d \/ name[c] = CronName \/ {c, d} \cap auto # {}

\* The session under creation already has its name to itself.
NamesInv == \A c, d \in Kept \cup Creating : SameName(c, d)

CTypes == SlotsTypeOK /\ name \in [Calls -> Names \cup {CronName}] /\ auto \subseteq Calls

LEMMA CTypeStep == ASSUME CTypes, SlotsTypeOK', [CNext]_cvars PROVE CTypes'
<1> USE DEF CTypes, traits
<1>1. ASSUME NEW c \in Calls, NEW n \in Names, New(c, n) \/ Rename(c, n)
      PROVE  CTypes'
  BY <1>1 DEF New, Rename
<1>2. ASSUME NEW c \in Calls, MessageToNew(c)
      PROVE  CTypes'
  BY <1>2 DEF MessageToNew
<1>3. ASSUME NEW c \in Calls, CreateFails(c) \/ Deleted(c)
      PROVE  CTypes'
  BY <1>3 DEF CreateFails, Deleted, Forget
<1>4. ASSUME NEW c \in Calls,
             \/ CronCreate(c) \/ Created(c) \/ Refused(c) \/ Switch(c)
             \/ Delete(c) \/ CronDestroy(c) \/ MessageTo(c) \/ MessageToOther(c)
      PROVE  CTypes'
  BY <1>4 DEF CronCreate, Created, Refused, Switch, Delete, CronDestroy, MessageTo, MessageToOther
<1>5. CASE CRestart \/ CReload \/ UNCHANGED cvars
  BY <1>5 DEF CRestart, CReload, cvars
<1> QED
  BY <1>1, <1>2, <1>3, <1>4, <1>5 DEF CNext

\* What a step does to the stage of its session.
LEMMA StageStep ==
    ASSUME SlotsTypeOK, NEW c \in Calls, NEW t, stage' = [stage EXCEPT ![c] = t]
    PROVE  /\ t = "live" => Live' = Live \cup {c}
           /\ t # "live" => Live' = Live \ {c}
           /\ t = "creating" => Creating' = Creating \cup {c}
           /\ t # "creating" => Creating' = Creating \ {c}
           /\ stage'[c] = t /\ \A d \in Calls \ {c} : stage'[d] = stage[d]
<1>1. stage'[c] = t /\ \A d \in Calls \ {c} : stage'[d] = stage[d]
  BY DEF SlotsTypeOK
<1> QED
  BY <1>1 DEF Live, Creating

LEMMA StageLeft ==
    ASSUME SlotsTypeOK, NEW c \in Calls, NEW t \in {"leaving", "gone", "refused"},
           stage' = [stage EXCEPT ![c] = t]
    PROVE  /\ Live' = Live \ {c} /\ Creating' = Creating \ {c} /\ stage'[c] = t
           /\ \A d \in Calls \ {c} : stage'[d] = stage[d]
BY StageStep

\* A session that a chat handler begins to create, under a name n that no
\* other session has, or as the automatic session of a message.
LEMMA BeginNames ==
    ASSUME CTypes, HandlerInv, NamesInv, NEW c \in Calls, NEW n \in Names, BeginCreate(c), Idle,
           name' = [name EXCEPT ![c] = n], handler' = c,
           \/ NameFree(n) /\ auto' = auto
           \/ auto' = auto \cup {c}
    PROVE  HandlerInv' /\ NamesInv'
<1>1. /\ stage[c] = "new" /\ stage' = [stage EXCEPT ![c] = "creating"] /\ revived' = revived
  BY DEF BeginCreate
<1>2. /\ Live' = Live \ {c} /\ Creating' = Creating \cup {c} /\ c \notin Live
      /\ stage'[c] = "creating" /\ \A d \in Calls \ {c} : stage'[d] = stage[d]
  BY <1>1, StageStep DEF CTypes, Live
<1>3. name'[c] = n /\ \A d \in Calls \ {c} : name'[d] = name[d]
  BY DEF CTypes
<1>4. \A d \in Creating : name[d] = CronName
  BY NoCallAssumption DEF HandlerInv, Idle, Creating
<1>5. HandlerInv'
  <2>1. \A d \in Calls : stage'[d] = "new" => d # c /\ stage[d] = "new"
    BY <1>2
  <2>2. \A d \in Creating' : d = handler' \/ name'[d] = CronName
    BY <1>2, <1>3, <1>4 DEF Creating
  <2> QED
    BY <1>2, <1>3, <2>1, <2>2 DEF HandlerInv
<1>6. Kept' = Kept /\ Kept \subseteq Live /\ Live \subseteq Calls /\ Creating \subseteq Calls
  BY <1>1, <1>2 DEF Kept, Live, Creating
<1>7. ASSUME NEW d \in Kept \cup Creating, d # c PROVE SameName(c, d)' /\ SameName(d, c)'
  <2>1. CASE auto' = auto \cup {c}
    BY <2>1 DEF SameName
  <2>2. CASE NameFree(n) /\ d \in Kept
    <3>1. name[d] # n
      BY <1>6, <2>2 DEF NameFree
    <3> QED
      BY <1>3, <1>6, <1>7, <3>1 DEF SameName
  <2>3. CASE d \in Creating
    BY <1>3, <1>4, <1>6, <1>7, <2>3 DEF SameName
  <2> QED
    BY <1>7, <2>1, <2>2, <2>3
<1>8. ASSUME NEW d \in Kept \cup Creating, NEW e \in Kept \cup Creating, d # c, e # c
      PROVE  SameName(d, e)'
  <2>1. SameName(d, e)
    BY <1>8 DEF NamesInv
  <2> QED
    BY <1>3, <1>6, <1>8, <2>1 DEF SameName
<1>9. SameName(c, c)'
  BY DEF SameName
<1> QED
  BY <1>2, <1>5, <1>6, <1>7, <1>8, <1>9 DEF NamesInv

LEMMA NewNames ==
    ASSUME CTypes, HandlerInv, NamesInv, NEW c \in Calls,
           (\E n \in Names : New(c, n)) \/ MessageToNew(c)
    PROVE  HandlerInv' /\ NamesInv'
<1>1. ASSUME NEW n \in Names, New(c, n) PROVE HandlerInv' /\ NamesInv'
  BY <1>1, BeginNames DEF New
<1>2. CASE MessageToNew(c)
  <2>1. PICK n \in Names : name' = [name EXCEPT ![c] = n]
    BY <1>2 DEF MessageToNew
  <2> QED
    BY <1>2, <2>1, BeginNames DEF MessageToNew
<1> QED
  BY <1>1, <1>2

\* A new name is looked up among the sessions, and no other is being created
\* under a name of its own.
LEMMA RenameNames ==
    ASSUME CTypes, HandlerInv, NamesInv, NEW c \in Calls, NEW n \in Names, Rename(c, n)
    PROVE  HandlerInv' /\ NamesInv'
<1>1. /\ Idle /\ c \in Live /\ NameFree(n) /\ name' = [name EXCEPT ![c] = n]
      /\ UNCHANGED <<stage, revived, handler, auto>>
  BY DEF Rename, vars
<1>2. name'[c] = n /\ \A d \in Calls \ {c} : name'[d] = name[d]
  BY <1>1 DEF CTypes
<1>3. Live' = Live /\ Creating' = Creating /\ Kept' = Kept /\ Kept \subseteq Live
      /\ Creating \subseteq Calls /\ c \notin Creating /\ Live \subseteq Calls
  BY <1>1 DEF Live, Creating, Kept
<1>4. \A d \in Creating : name[d] = CronName
  BY <1>1, NoCallAssumption DEF HandlerInv, Idle, Creating
<1>5. HandlerInv'
  <2>1. stage[c] = "live" /\ handler = NoCall
    BY <1>1 DEF Live, Idle
  <2>2. \A d \in Calls : stage'[d] = "new" => name'[d] = CronName
    BY <1>1, <1>2, <2>1 DEF HandlerInv
  <2> QED
    BY <1>1, <1>2, <1>3, <1>4, <2>1, <2>2 DEF HandlerInv
<1>6. ASSUME NEW d \in Kept \cup Creating, d # c PROVE SameName(c, d)' /\ SameName(d, c)'
  <2>1. name[d] # n \/ name[d] = CronName
    BY <1>1, <1>3, <1>4, <1>6 DEF NameFree
  <2> QED
    BY <1>2, <1>3, <1>6, <2>1 DEF SameName
<1>7. ASSUME NEW d \in Kept \cup Creating, NEW e \in Kept \cup Creating, d # c, e # c
      PROVE  SameName(d, e)'
  <2>1. SameName(d, e)
    BY <1>7 DEF NamesInv
  <2> QED
    BY <1>1, <1>2, <1>3, <1>7, <2>1 DEF SameName
<1>8. SameName(c, c)'
  BY DEF SameName
<1> QED
  BY <1>3, <1>5, <1>6, <1>7, <1>8 DEF NamesInv

\* A step that gives no session a name and makes none that had none before.
LEMMA QuietNames ==
    ASSUME NamesInv, Kept' \cup Creating' \subseteq Kept \cup Creating,
           \A d \in Kept' \cup Creating' : name'[d] = name[d] /\ (d \in auto' <=> d \in auto)
    PROVE  NamesInv'
BY DEF NamesInv, SameName

\* The other steps of a session: it leaves, or the one that was being created
\* becomes live under the name it has.
LEMMA OtherNames ==
    ASSUME CTypes, HandlerInv, NamesInv, NEW c \in Calls,
           \/ CronCreate(c) \/ Created(c) \/ CreateFails(c) \/ Refused(c)
           \/ Delete(c) \/ Deleted(c) \/ CronDestroy(c)
    PROVE  HandlerInv' /\ NamesInv'
<1>0. Live \subseteq Calls /\ Creating \subseteq Calls /\ Kept = Live \ revived
  BY DEF Live, Creating, Kept
<1>1. CASE CronCreate(c)
  <2>1. /\ stage[c] = "new" /\ stage' = [stage EXCEPT ![c] = "creating"]
        /\ UNCHANGED <<revived, name, auto, handler>>
    BY <1>1 DEF CronCreate, BeginCreate
  <2>2. /\ Live' = Live \ {c} /\ Creating' = Creating \cup {c} /\ stage'[c] = "creating"
        /\ \A d \in Calls \ {c} : stage'[d] = stage[d]
    BY <2>1, StageStep DEF CTypes
  <2>3. name[c] = CronName /\ handler # c
    BY <2>1, NoCallAssumption DEF HandlerInv
  <2>4. HandlerInv'
    <3>1. handler # NoCall => stage'[handler] \in {"creating", "leaving"}
      BY <2>2 DEF HandlerInv
    <3>2. \A d \in Calls : stage'[d] = "new" => stage[d] = "new"
      BY <2>2
    <3> QED
      BY <2>1, <2>2, <2>3, <3>1, <3>2 DEF HandlerInv
  <2>5. \A d \in Calls : SameName(c, d) /\ SameName(d, c)
    BY <2>3 DEF SameName
  <2>6. NamesInv'
    BY <1>0, <2>1, <2>2, <2>5 DEF NamesInv, SameName, Kept
  <2> QED
    BY <2>4, <2>6
<1>2. CASE Created(c)
  <2>1. /\ stage[c] = "creating" /\ stage' = [stage EXCEPT ![c] = "live"]
        /\ UNCHANGED <<revived, name, auto>>
        /\ handler' = IF handler = c THEN NoCall ELSE handler
    BY <1>2 DEF Created, TmuxCreated, traits
  <2>2. /\ Live' = Live \cup {c} /\ Creating' = Creating \ {c} /\ stage'[c] = "live"
        /\ \A d \in Calls \ {c} : stage'[d] = stage[d]
    BY <2>1, StageStep DEF CTypes
  <2>3. HandlerInv'
    BY <1>0, <2>1, <2>2 DEF HandlerInv
  <2>4. c \in Creating
    BY <2>1 DEF Creating
  <2>5. NamesInv'
    BY <1>0, <2>1, <2>2, <2>4, QuietNames DEF Kept
  <2> QED
    BY <2>3, <2>5
<1>3. CASE CreateFails(c) \/ Deleted(c)
  <2>1. /\ stage[c] # "new" /\ stage' = [stage EXCEPT ![c] = "gone"]
        /\ revived' = revived /\ Forget(c)
        /\ handler' = IF handler = c THEN NoCall ELSE handler
    BY <1>3 DEF CreateFails, Deleted, TmuxFailed, Removed
  <2>2. /\ Live' = Live \ {c} /\ Creating' = Creating \ {c} /\ stage'[c] = "gone"
        /\ \A d \in Calls \ {c} : stage'[d] = stage[d]
    <3>1. SlotsTypeOK /\ stage' = [stage EXCEPT ![c] = "gone"]
      BY <2>1 DEF CTypes
    <3> QED
      BY <3>1, StageLeft
  <2>3. /\ \A d \in Calls \ {c} : name'[d] = name[d] /\ (d \in auto' <=> d \in auto)
    BY <2>1 DEF Forget, CTypes
  <2>4. HandlerInv'
    <3>1. \A d \in Calls : stage'[d] = "new" => d # c /\ stage[d] = "new"
      BY <2>2
    <3> QED
      BY <1>0, <2>1, <2>2, <2>3, <3>1 DEF HandlerInv
  <2>5. NamesInv'
    BY <1>0, <2>1, <2>2, <2>3, QuietNames DEF Kept
  <2> QED
    BY <2>4, <2>5
<1>4. CASE Refused(c)
  <2>1. /\ stage' = [stage EXCEPT ![c] = "refused"] /\ Idle /\ handler' = handler
        /\ UNCHANGED <<revived, name, auto>>
    BY <1>4 DEF Refused, Refuse, traits
  <2>2. /\ Live' = Live \ {c} /\ Creating' = Creating \ {c} /\ stage'[c] = "refused"
        /\ \A d \in Calls \ {c} : stage'[d] = stage[d]
    <3>1. SlotsTypeOK /\ stage' = [stage EXCEPT ![c] = "refused"]
      BY <2>1 DEF CTypes
    <3> QED
      BY <3>1, StageLeft
  <2>3. HandlerInv'
    BY <2>1, <2>2 DEF HandlerInv, Idle
  <2>4. NamesInv'
    BY <1>0, <2>1, <2>2, QuietNames DEF Kept
  <2> QED
    BY <2>3, <2>4
<1>5. CASE Delete(c) \/ CronDestroy(c)
  <2>1. /\ stage[c] = "live" /\ stage' = [stage EXCEPT ![c] = "leaving"]
        /\ UNCHANGED <<revived, name, auto>>
        /\ handler' = c \/ (handler' = handler /\ CronDestroy(c))
        /\ handler' = c => Idle \/ handler = c
    BY <1>5 DEF Delete, CronDestroy, Destroy, traits
  <2>2. /\ Live' = Live \ {c} /\ Creating' = Creating \ {c} /\ stage'[c] = "leaving"
        /\ \A d \in Calls \ {c} : stage'[d] = stage[d]
    BY <2>1, StageStep DEF CTypes
  <2>3. c \notin Creating
    BY <2>1 DEF Creating
  <2>4. handler # c
    BY <2>1, NoCallAssumption DEF HandlerInv
  <2>5. HandlerInv'
    <3>1. handler' # NoCall => handler' \in Calls /\ stage'[handler'] \in {"creating", "leaving"}
      BY <2>1, <2>2 DEF HandlerInv
    <3>2. \A d \in Creating' : d = handler' \/ name[d] = CronName
      BY <1>0, <2>1, <2>2, <2>3, <2>4, NoCallAssumption DEF HandlerInv, Idle
    <3>3. \A d \in Calls : stage'[d] = "new" => stage[d] = "new"
      BY <2>2
    <3> QED
      BY <2>1, <3>1, <3>2, <3>3 DEF HandlerInv
  <2>6. NamesInv'
    BY <1>0, <2>1, <2>2, QuietNames DEF Kept
  <2> QED
    BY <2>5, <2>6
<1> QED
  BY <1>1, <1>2, <1>3, <1>4, <1>5

\* A restart ends the handlers, and what it brings back is revived.
LEMMA RestartNames ==
    ASSUME CTypes, HandlerInv, NamesInv, CRestart PROVE HandlerInv' /\ NamesInv'
<1>1. /\ UNCHANGED <<name, auto>> /\ handler' = NoCall
      /\ stage' = [c \in Calls |-> CASE stage[c] = "creating" -> "gone"
                                     [] stage[c] = "leaving" -> "live"
                                     [] OTHER -> stage[c]]
      /\ revived' = revived \cup {c \in Calls : stage[c] = "leaving"}
  BY DEF CRestart, Restart, traits
<1>2. Creating' = {} /\ \A c \in Calls : stage'[c] = "new" => stage[c] = "new"
  BY <1>1 DEF Creating
<1>3. Kept' \subseteq Kept
  <2>1. ASSUME NEW c \in Kept' PROVE c \in Kept
    BY <1>1, <2>1 DEF Kept, Live
  <2> QED
    BY <2>1
<1>4. HandlerInv'
  BY <1>1, <1>2 DEF HandlerInv
<1>5. NamesInv'
  BY <1>1, <1>2, <1>3, QuietNames
<1> QED
  BY <1>4, <1>5

LEMMA NamesStep ==
    ASSUME CTypes, HandlerInv, NamesInv, [CNext]_cvars PROVE HandlerInv' /\ NamesInv'
<1>1. CASE \/ \E c \in Calls : Switch(c) \/ MessageTo(c) \/ MessageToOther(c)
           \/ CReload \/ UNCHANGED cvars
  <2>1. UNCHANGED <<stage, revived, name, auto, handler>>
    BY <1>1 DEF Switch, MessageTo, MessageToOther, CReload, Reload, cvars, vars, traits
  <2> QED
    BY <2>1 DEF HandlerInv, NamesInv, SameName, Kept, Live, Creating
<1> QED
  BY <1>1, NewNames, RenameNames, OtherNames, RestartNames DEF CNext

\* NamesDistinct: /new and /rename look the name up before an await, and no
\* other session of that name can appear during it.
THEOREM NamesAreDistinct == CSpec => []NamesDistinct
<1> DEFINE Inv == CTypes /\ HandlerInv /\ NamesInv
<1>1. CInit => Inv
  <2> SUFFICES ASSUME CInit PROVE Inv
    OBVIOUS
  <2>1. SlotsTypeOK
    BY DEF CInit, Init, SlotsTypeOK, Stages
  <2>2. Live = {} /\ Creating = {}
    BY DEF CInit, Init, Live, Creating
  <2> QED
    BY <2>1, <2>2 DEF CInit, CTypes, HandlerInv, NamesInv, Kept
<1>2. Inv /\ SlotsTypeOK' /\ [CNext]_cvars => Inv'
  BY CTypeStep, NamesStep
<1>3. Inv => NamesDistinct
  BY DEF NamesInv, SameName, NamesDistinct
<1> QED
  BY <1>1, <1>2, <1>3, SlotsAreKept, SlotsTypeCorrect, PTL DEF CSpec

-----------------------------------------------------------------------------
(* The active session.                                                     *)

\* The file names the session that the user wants, and memory names it or
\* nothing; a session that a handler is deleting is not wanted.
ActiveInv ==
    /\ wanted # NoCall => /\ wanted \in Calls /\ stored = wanted
                          /\ chosen \in {wanted, NoCall}
    /\ handler # NoCall /\ stage[handler] = "leaving" => handler # wanted

\* While it is there, the wanted session is the active one.
LEMMA ActiveIsWanted == ASSUME ActiveInv, wanted \in Live PROVE Active = wanted
<1>1. wanted # NoCall /\ NoCall \notin Live
  BY NoCallAssumption DEF Live
<1> QED
  BY <1>1 DEF ActiveInv, Active

\* A step that leaves the handler where it is, or takes it to a session under
\* creation, changes nothing of it.
LEMMA SameTalk ==
    ASSUME ActiveInv, UNCHANGED <<chosen, stored, wanted>>,
           handler' # NoCall /\ stage'[handler'] = "leaving" =>
               handler' = handler /\ stage[handler] = "leaving"
    PROVE  ActiveInv'
BY DEF ActiveInv

\* One that makes a session the active one, the handler being done.
LEMMA NewTalk ==
    ASSUME NEW c \in Calls, SetActive(c), handler' = NoCall
    PROVE  ActiveInv'
BY DEF SetActive, Persists, ActiveInv

LEMMA ActiveStep ==
    ASSUME CTypes, HandlerInv, ActiveInv, [CNext]_cvars PROVE ActiveInv'
<1>1. ASSUME NEW c \in Calls, (\E n \in Names : New(c, n)) \/ MessageToNew(c)
      PROVE  ActiveInv'
  <2>1. UNCHANGED <<chosen, stored, wanted>> /\ handler' = c /\ stage' = [stage EXCEPT ![c] = "creating"]
    BY <1>1 DEF New, MessageToNew, BeginCreate, talk
  <2>2. stage'[c] = "creating"
    BY <2>1 DEF CTypes, SlotsTypeOK
  <2> QED
    BY <2>1, <2>2, SameTalk
<1>2. ASSUME NEW c \in Calls, (\E n \in Names : Rename(c, n))
      PROVE  ActiveInv'
  BY <1>2, SameTalk DEF Rename, vars, talk
<1>3. ASSUME NEW c \in Calls, CronCreate(c) \/ Refused(c) \/ CreateFails(c) \/ CronDestroy(c)
      PROVE  ActiveInv'
  <2>1. /\ UNCHANGED <<chosen, stored, wanted>> /\ handler' \in {handler, NoCall}
        /\ \E t \in Stages : stage' = [stage EXCEPT ![c] = t] /\ (t = "leaving" => stage[c] = "live")
    BY <1>3 DEF CronCreate, BeginCreate, Refused, Refuse, CreateFails, TmuxFailed, CronDestroy,
                Destroy, Stages, talk
  <2>2. handler' # NoCall => handler' = handler /\ handler \in Calls
                             /\ stage[handler] \in {"creating", "leaving"}
    BY <2>1 DEF HandlerInv
  <2>3. PICK t \in Stages : stage' = [stage EXCEPT ![c] = t] /\ (t = "leaving" => stage[c] = "live")
    BY <2>1
  <2>4. handler' # NoCall /\ stage'[handler'] = "leaving" => stage[handler] = "leaving"
    BY <2>2, <2>3 DEF CTypes, SlotsTypeOK
  <2> QED
    BY <2>1, <2>2, <2>4, SameTalk
<1>4. ASSUME NEW c \in Calls, Created(c)
      PROVE  ActiveInv'
  <2>1. CASE handler = c
    BY <1>4, <2>1, NewTalk DEF Created
  <2>2. CASE handler # c
    <3>1. handler' = handler /\ UNCHANGED <<chosen, stored, wanted>>
          /\ stage' = [stage EXCEPT ![c] = "live"]
      BY <1>4, <2>2 DEF Created, TmuxCreated
    <3>2. handler # NoCall => stage'[handler] = stage[handler]
      BY <2>2, <3>1 DEF HandlerInv, CTypes, SlotsTypeOK
    <3> QED
      BY <3>1, <3>2, SameTalk
  <2> QED
    BY <2>1, <2>2
<1>5. ASSUME NEW c \in Calls, Switch(c) \/ MessageToOther(c)
      PROVE  ActiveInv'
  BY <1>5, NewTalk DEF Switch, MessageToOther, Idle
<1>6. ASSUME NEW c \in Calls, Delete(c)
      PROVE  ActiveInv'
  <2>1. /\ handler' = c /\ wanted' = IF wanted = c THEN NoCall ELSE wanted
        /\ UNCHANGED <<chosen, stored>>
    BY <1>6 DEF Delete
  <2> QED
    BY <2>1, NoCallAssumption DEF ActiveInv
<1>7. ASSUME NEW c \in Calls, Deleted(c)
      PROVE  ActiveInv'
  <2>1. stage[c] = "leaving" /\ stage' = [stage EXCEPT ![c] = "gone"] /\ wanted' = wanted
    BY <1>7 DEF Deleted, Removed
  <2>2. CASE handler = c
    <3>1. handler' = NoCall /\ wanted # c
      BY <1>7, <2>1, <2>2, NoCallAssumption DEF Deleted, ActiveInv
    <3>2. wanted # NoCall => chosen # c /\ stored # c
      BY <3>1, NoCallAssumption DEF ActiveInv
    <3> QED
      BY <1>7, <2>1, <2>2, <3>1, <3>2 DEF Deleted, ActiveInv
  <2>3. CASE handler # c
    <3>1. UNCHANGED <<handler, chosen, stored, wanted>>
      BY <1>7, <2>1, <2>3 DEF Deleted
    <3>2. handler # NoCall => stage'[handler] = stage[handler]
      BY <2>1, <2>3 DEF HandlerInv, CTypes, SlotsTypeOK
    <3> QED
      BY <3>1, <3>2, SameTalk
  <2> QED
    BY <2>2, <2>3
<1>8. ASSUME NEW c \in Calls, MessageTo(c)
      PROVE  ActiveInv'
  <2>1. /\ handler = NoCall /\ handler' = NoCall /\ UNCHANGED <<stage, stored, wanted>>
        /\ chosen' = Active /\ Active # NoCall
    BY <1>8 DEF MessageTo, Idle, vars
  <2>2. wanted # NoCall => Active = wanted
    BY <2>1 DEF ActiveInv, Active
  <2> QED
    BY <2>1, <2>2 DEF ActiveInv
<1>9. CASE CRestart
  BY <1>9 DEF CRestart, ActiveInv
<1>10. CASE CReload \/ UNCHANGED cvars
  BY <1>10, SameTalk DEF CReload, Reload, cvars, vars, talk
<1> QED
  BY <1>1, <1>2, <1>3, <1>4, <1>5, <1>6, <1>7, <1>8, <1>9, <1>10 DEF CNext

\* A message goes to the active session, which is the wanted one; nothing
\* else sends one.
LEMMA LetterStep ==
    ASSUME ActiveInv, MessageWhereChosen, [CNext]_cvars PROVE MessageWhereChosen'
<1>1. ASSUME NEW c \in Calls, MessageTo(c) \/ MessageToOther(c) \/ MessageToNew(c)
      PROVE  MessageWhereChosen'
  <2>1. letter' = ({wanted} \cap Live) \X {c}
    BY <1>1 DEF MessageTo, MessageToOther, MessageToNew, Reaches
  <2>2. ASSUME wanted \in Live PROVE c = wanted
    <3>1. Active = wanted /\ Active # NoCall
      BY <2>2, ActiveIsWanted, NoCallAssumption DEF Live
    <3> QED
      BY <1>1, <3>1 DEF MessageTo, MessageToOther, MessageToNew
  <2> QED
    BY <2>1, <2>2 DEF MessageWhereChosen
<1>2. ASSUME UNCHANGED letter PROVE MessageWhereChosen'
  BY <1>2 DEF MessageWhereChosen
<1>3. ASSUME NEW c \in Calls, NEW n \in Names, New(c, n) \/ Rename(c, n)
      PROVE  UNCHANGED letter
  BY <1>3 DEF New, Rename, talk
<1>4. ASSUME NEW c \in Calls,
             \/ CronCreate(c) \/ Created(c) \/ CreateFails(c) \/ Refused(c) \/ Switch(c)
             \/ Delete(c) \/ Deleted(c) \/ CronDestroy(c)
      PROVE  UNCHANGED letter
  BY <1>4 DEF CronCreate, Created, CreateFails, Refused, Switch, Delete, Deleted, CronDestroy, talk
<1>5. CASE CRestart \/ CReload \/ UNCHANGED cvars
  BY <1>2, <1>5 DEF CRestart, CReload, cvars, talk
<1> QED
  BY <1>1, <1>2, <1>3, <1>4, <1>5 DEF CNext

\* MessageWhereChosen: memory is lost in a restart and the file is erased by
\* /delete, but never so that a message reaches another session than the one
\* chosen last, which is still there.
THEOREM MessageGoesWhereChosen == CSpec => []MessageWhereChosen
<1> DEFINE Inv == CTypes /\ HandlerInv /\ NamesInv /\ ActiveInv /\ MessageWhereChosen
<1>1. CInit => Inv
  <2> SUFFICES ASSUME CInit PROVE Inv
    OBVIOUS
  <2>1. SlotsTypeOK
    BY DEF CInit, Init, SlotsTypeOK, Stages
  <2>2. Live = {} /\ Creating = {}
    BY DEF CInit, Init, Live, Creating
  <2> QED
    BY <2>1, <2>2 DEF CInit, CTypes, HandlerInv, NamesInv, ActiveInv, Kept, MessageWhereChosen
<1>2. Inv /\ SlotsTypeOK' /\ [CNext]_cvars => Inv'
  BY CTypeStep, NamesStep, ActiveStep, LetterStep
<1>3. Inv => MessageWhereChosen
  OBVIOUS
<1> QED
  BY <1>1, <1>2, <1>3, SlotsAreKept, SlotsTypeCorrect, PTL DEF CSpec

-----------------------------------------------------------------------------
(* The sort of the extensions.                                             *)

LEMMA SetOfAppend ==
    ASSUME NEW S, NEW s \in Seq(S), NEW e \in S
    PROVE  /\ ToSet(Append(s, e)) = ToSet(s) \cup {e} /\ ToSet(s) \subseteq S
           /\ Append(s, e) \in Seq(S) /\ ToSet(<<>>) = {}
<1> DEFINE t == Append(s, e)
<1>1. /\ t \in Seq(S) /\ Len(t) = Len(s) + 1 /\ Len(s) \in Nat /\ t[Len(s) + 1] = e
      /\ \A i \in 1..Len(s) : t[i] = s[i]
  BY AppendProperties, LenProperties
<1>2. /\ ToSet(t) = {t[i] : i \in 1..Len(t)} /\ ToSet(s) = {s[i] : i \in 1..Len(s)}
      /\ ToSet(<<>>) = {}
  BY <1>1, LenProperties DEF ToSet
<1> HIDE DEF t
<1>3. 1..Len(t) = 1..Len(s) \cup {Len(s) + 1}
  BY <1>1
<1>4. ToSet(t) = ToSet(s) \cup {e}
  BY <1>1, <1>2, <1>3
<1>5. ToSet(s) \subseteq S
  BY <1>2, ElementOfSeq
<1> QED
  BY <1>1, <1>2, <1>4, <1>5 DEF t

LEMMA SetOfSeq ==
    ASSUME NEW S, NEW s \in Seq(S)
    PROVE  /\ ToSet(s) = {s[i] : i \in 1..Len(s)} /\ ToSet(s) \subseteq S
           /\ \A i \in 1..Len(s) : s[i] \in ToSet(s) /\ s[i] \in S
           /\ Len(s) \in Nat
<1>1. ToSet(s) = {s[i] : i \in 1..Len(s)} /\ Len(s) \in Nat
  BY LenProperties DEF ToSet
<1>2. \A i \in 1..Len(s) : s[i] \in S
  BY ElementOfSeq
<1> QED
  BY <1>1, <1>2

Phases == {"loading", "starting", "undoing", "failed", "running", "stopping", "stopped"}

ExtTypes ==
    /\ graph \in Graphs /\ phase \in Phases /\ pos \in Nat
    /\ registered \in Seq(Exts) /\ saved.registered \in Seq(Exts)
    /\ list \in Seq(Exts)

Orders == Seq(Exts)

\* What visits of extensions es, one after the other, return.
LEMMA VisitAllIs ==
    ASSUME NEW visit \in [Visits -> Orders], NEW order \in Orders, NEW visiting \in SUBSET Exts,
           NEW es \in Seq(Exts)
    PROVE  \E g \in [0..Len(es) -> Orders] :
              /\ g[0] = order
              /\ \A i \in 1..Len(es) : g[i] = visit[<<g[i - 1], visiting, es[i]>>]
              /\ VisitAll(visit, order, visiting, es) = g[Len(es)]
<1> DEFINE n == Len(es)
           f == [x \in Nat \X Orders |->
                   IF x[1] + 1 \in 1..n THEN visit[<<x[2], visiting, es[x[1] + 1]>>] ELSE x[2]]
<1>1. n \in Nat /\ \A i \in 1..n : es[i] \in Exts
  BY SetOfSeq
<1>2. f \in [Nat \X Orders -> Orders]
  <2>1. ASSUME NEW x \in Nat \X Orders, x[1] + 1 \in 1..n
        PROVE  visit[<<x[2], visiting, es[x[1] + 1]>>] \in Orders
    <3>1. <<x[2], visiting, es[x[1] + 1]>> \in Visits
      BY <1>1, <2>1 DEF Visits, Orders
    <3> QED
      BY <3>1
  <2> QED
    BY <2>1
<1> HIDE DEF f
<1>3. PICK h : Recurs(h, Orders, order, f)
  BY <1>2, Recursion
<1>4. ASSUME NEW i \in 1..n PROVE h[i] = visit[<<h[i - 1], visiting, es[i]>>]
  <2>1. i - 1 \in Nat /\ (i - 1) + 1 = i /\ h[i - 1] \in Orders
    BY <1>1, <1>3 DEF Recurs
  <2>2. f[<<i - 1, h[i - 1]>>] = visit[<<h[i - 1], visiting, es[i]>>]
    BY <2>1 DEF f
  <2> QED
    BY <1>3, <2>1, <2>2 DEF Recurs
<1> DEFINE g == [i \in 0..n |-> h[i]]
<1>5. g = [i \in 0..n |-> IF i = 0 THEN order ELSE visit[<<g[i - 1], visiting, es[i]>>]]
  <2>1. ASSUME NEW i \in 0..n
        PROVE  g[i] = IF i = 0 THEN order ELSE visit[<<g[i - 1], visiting, es[i]>>]
    <3>1. i # 0 => i \in 1..n /\ g[i - 1] = h[i - 1]
      BY <1>1
    <3> QED
      BY <1>3, <1>4, <3>1 DEF Recurs
  <2> QED
    BY <2>1
<1> HIDE DEF g
<1>6. PICK a : /\ a = [i \in 0..n |-> IF i = 0 THEN order ELSE visit[<<a[i - 1], visiting, es[i]>>]]
               /\ VisitAll(visit, order, visiting, es) = a[n]
  BY <1>5 DEF VisitAll
<1>7. a[0] = order /\ \A i \in 1..n : a[i] = visit[<<a[i - 1], visiting, es[i]>>]
  BY <1>1, <1>6
<1>8. a \in [0..n -> Orders]
  <2> DEFINE bad == {i \in 0..n : a[i] \notin Orders}
  <2>0. bad \in SUBSET Nat
    BY <1>1
  <2>1. ASSUME bad # {} PROVE FALSE
    <3>1. PICK i \in bad : \A j \in bad : i <= j
      BY <2>0, <2>1, LeastNumber
    <3>2. i \in 0..n /\ a[i] \notin Orders
      BY <3>1
    <3>3. i # 0
      BY <1>7, <3>2
    <3>4. i \in 1..n /\ i - 1 \in 0..n /\ ~(i <= i - 1)
      BY <1>1, <3>2, <3>3
    <3>5. a[i - 1] \in Orders
      BY <3>1, <3>4
    <3>6. <<a[i - 1], visiting, es[i]>> \in Visits
      BY <1>1, <3>4, <3>5 DEF Visits, Orders
    <3> QED
      BY <1>7, <3>2, <3>4, <3>6
  <2> QED
    BY <1>6, <2>1
<1> QED
  BY <1>6, <1>7, <1>8

LEMMA SeqOfSet ==
    ASSUME NEW S \in SUBSET Exts
    PROVE  SetToSeq(S) \in Seq(Exts) /\ ToSet(SetToSeq(S)) = S
<1> DEFINE n == Cardinality(S)
           f == SetToSeq(S)
<1>1. IsFiniteSet(S)
  BY FS_Subset, ExtensionsAssumption DEF ExtensionsAssumption
<1>2. n \in Nat /\ ExistsBijection(1..n, S)
  BY <1>1, FS_CardinalityType
<1>3. \E b \in [1..n -> S] : IsInjective(b)
  BY <1>2 DEF ExistsBijection, Bijection, Injection
<1>4. f \in [1..n -> S] /\ IsInjective(f)
  BY <1>3 DEF SetToSeq
<1>5. f \in Injection(1..n, S)
  BY <1>4 DEF Injection
<1>6. Cardinality(1..n) = n
  BY <1>2, FS_Interval
<1>7. f \in Surjection(1..n, S)
  BY <1>1, <1>5, <1>6, FS_Injection
<1> HIDE DEF f
<1>8. f \in Seq(Exts) /\ DOMAIN f = 1..n
  BY <1>2, <1>4, SeqDef
<1>9. ToSet(f) = S
  BY <1>4, <1>7, <1>8 DEF ToSet, Surjection
<1> QED
  BY <1>8, <1>9 DEF f

LEMMA ConcatSet ==
    ASSUME NEW s \in Seq(Exts), NEW t \in Seq(Exts)
    PROVE  s \o t \in Seq(Exts) /\ ToSet(s \o t) = ToSet(s) \cup ToSet(t)
<1>1. /\ s \o t \in Seq(Exts) /\ Len(s \o t) = Len(s) + Len(t)
      /\ \A i \in 1..(Len(s) + Len(t)) :
           (s \o t)[i] = IF i <= Len(s) THEN s[i] ELSE t[i - Len(s)]
  BY ConcatProperties
<1> DEFINE u == s \o t
<1>2. /\ ToSet(s) = {s[i] : i \in 1..Len(s)} /\ ToSet(t) = {t[i] : i \in 1..Len(t)}
      /\ ToSet(u) = {u[i] : i \in 1..Len(u)} /\ Len(s) \in Nat /\ Len(t) \in Nat
  BY <1>1, SetOfSeq
<1> HIDE DEF u
<1>3. ASSUME NEW i \in 1..Len(u) PROVE u[i] \in ToSet(s) \cup ToSet(t)
  <2>1. CASE i <= Len(s)
    BY <1>1, <1>2, <2>1 DEF u
  <2>2. CASE ~(i <= Len(s))
    <3>1. i - Len(s) \in 1..Len(t) /\ u[i] = t[i - Len(s)]
      BY <1>1, <1>2, <2>2 DEF u
    <3> QED
      BY <1>2, <3>1
  <2> QED
    BY <2>1, <2>2
<1>4. ASSUME NEW i \in 1..Len(s) PROVE s[i] \in ToSet(u)
  <2>1. i \in 1..Len(u) /\ u[i] = s[i]
    BY <1>1, <1>2 DEF u
  <2> QED
    BY <1>2, <2>1
<1>5. ASSUME NEW i \in 1..Len(t) PROVE t[i] \in ToSet(u)
  <2>1. Len(s) + i \in 1..Len(u) /\ u[Len(s) + i] = t[i]
    BY <1>1, <1>2 DEF u
  <2> QED
    BY <1>2, <2>1
<1> QED
  BY <1>1, <1>2, <1>3, <1>4, <1>5 DEF u

LEMMA BeforeIs ==
    ASSUME ExtTypes, NEW e \in Exts
    PROVE  /\ Before(e) \in Seq(Exts)
           /\ ToSet(Before(e)) = graph.hard[e] \cup (graph.soft[e] \cap ToSet(list))
<1>1. graph.hard[e] \in SUBSET Exts /\ graph.soft[e] \in SUBSET Exts
  BY ExtensionsAssumption DEF ExtensionsAssumption, ExtTypes
<1>2. graph.soft[e] \cap ToSet(list) \in SUBSET Exts
  BY <1>1
<1> QED
  BY <1>1, <1>2, SeqOfSet, ConcatSet DEF Before

Still == [v \in Visits |-> v[1]]

LEMMA DeeperType ==
    ASSUME ExtTypes, NEW visit \in [Visits -> Orders]
    PROVE  Deeper(visit) \in [Visits -> Orders] /\ Still \in [Visits -> Orders]
<1>1. ASSUME NEW v \in Visits PROVE v[1] \in Orders /\ v[2] \in SUBSET Exts /\ v[3] \in Exts
  BY DEF Visits, Orders
<1>2. ASSUME NEW order \in Orders, NEW visiting \in SUBSET Exts, NEW e \in Exts
      PROVE  Append(VisitAll(visit, order, visiting \cup {e}, Before(e)), e) \in Orders
  <2>1. Before(e) \in Seq(Exts) /\ Len(Before(e)) \in 0..Len(Before(e))
    BY BeforeIs, LenProperties
  <2>2. VisitAll(visit, order, visiting \cup {e}, Before(e)) \in Orders
    BY <2>1, VisitAllIs
  <2> QED
    BY <2>2, SetOfAppend DEF Orders
<1>3. Still \in [Visits -> Orders]
  BY <1>1 DEF Still
<1>4. Deeper(visit) \in [Visits -> Orders]
  BY <1>1, <1>2 DEF Deeper
<1> QED
  BY <1>3, <1>4

LEMMA VisitIs ==
    ASSUME ExtTypes
    PROVE  /\ Visit \in [Nat -> [Visits -> Orders]]
           /\ Visit[0] = Still /\ \A n \in Nat : Visit[n + 1] = Deeper(Visit[n])
<1> DEFINE T == [Visits -> Orders]
           f == [x \in Nat \X T |-> Deeper(x[2])]
<1>0. Still \in T
  <2>1. \A v \in Visits : v[1] \in Orders
    BY DEF Visits, Orders
  <2> QED
    BY <2>1 DEF Still
<1>1. ASSUME NEW x \in Nat \X T PROVE Deeper(x[2]) \in T
  BY DeeperType
<1>2. f \in [Nat \X T -> T]
  BY <1>1
<1> HIDE DEF f
<1>3. PICK h : Recurs(h, T, Still, f)
  BY <1>0, <1>2, Recursion
<1>4. ASSUME NEW i \in Nat PROVE h[i + 1] = Deeper(h[i])
  <2>1. <<i, h[i]>> \in Nat \X T
    BY <1>3 DEF Recurs
  <2>2. f[<<i, h[i]>>] = Deeper(h[i])
    BY <2>1 DEF f
  <2> QED
    BY <1>3, <2>2 DEF Recurs
<1>5. h = [n \in Nat |-> IF n = 0 THEN Still ELSE Deeper(h[n - 1])]
  <2>1. ASSUME NEW n \in Nat PROVE h[n] = IF n = 0 THEN Still ELSE Deeper(h[n - 1])
    <3>1. n # 0 => n - 1 \in Nat /\ (n - 1) + 1 = n
      OBVIOUS
    <3> QED
      BY <1>3, <1>4, <3>1 DEF Recurs
  <2> QED
    BY <1>3, <2>1 DEF Recurs
<1>6. Visit = [n \in Nat |-> IF n = 0 THEN Still ELSE Deeper(Visit[n - 1])]
  BY <1>5 DEF Visit, Still
<1>7. Visit[0] = Still
  BY <1>6
<1>8. ASSUME NEW n \in Nat PROVE Visit[n + 1] = Deeper(Visit[n])
  <2>1. n + 1 \in Nat /\ n + 1 # 0 /\ (n + 1) - 1 = n
    OBVIOUS
  <2> QED
    BY <1>6, <2>1
<1>9. Visit \in [Nat -> T]
  <2> DEFINE bad == {n \in Nat : Visit[n] \notin T}
  <2>1. ASSUME bad # {} PROVE FALSE
    <3>1. PICK n \in bad : \A j \in bad : n <= j
      BY <2>1, LeastNumber
    <3>2. n \in Nat /\ Visit[n] \notin T
      BY <3>1
    <3>3. n # 0
      BY <1>0, <1>7, <3>2
    <3>4. n - 1 \in Nat /\ ~(n <= n - 1) /\ (n - 1) + 1 = n
      BY <3>2, <3>3
    <3>5. Visit[n - 1] \in T
      BY <3>1, <3>4
    <3>6. Visit[n] = Deeper(Visit[n - 1])
      BY <1>8, <3>4
    <3> QED
      BY <3>2, <3>5, <3>6, DeeperType
  <2> QED
    BY <1>6, <2>1
<1> QED
  BY <1>7, <1>8, <1>9

\* No extension twice, each after those it requires.
Ordered(s) ==
    /\ s \in Seq(Exts)
    /\ \A i, j \in 1..Len(s) : s[i] = s[j] => i = j
    /\ \A i \in 1..Len(s) : \A d \in graph.hard[s[i]] : \E j \in 1..Len(s) : j < i /\ s[j] = d

LEMMA DistinctAppend ==
    ASSUME NEW S, NEW s \in Seq(S), NEW e \in S, e \notin ToSet(s),
           \A i, j \in 1..Len(s) : s[i] = s[j] => i = j
    PROVE  \A i, j \in 1..Len(Append(s, e)) : Append(s, e)[i] = Append(s, e)[j] => i = j
<1>1. \A i \in 1..Len(s) : s[i] # e
  BY LenProperties DEF ToSet
<1>2. /\ Len(Append(s, e)) = Len(s) + 1 /\ Len(s) \in Nat /\ Append(s, e)[Len(s) + 1] = e
      /\ \A i \in 1..Len(s) : Append(s, e)[i] = s[i]
  BY AppendProperties, LenProperties
<1>3. 1..(Len(s) + 1) = 1..Len(s) \cup {Len(s) + 1}
  BY <1>2
<1> QED
  BY <1>1, <1>2, <1>3

\* What an extension is to be started after, and an order that grows by visits.
Needs(e) == graph.hard[e] \cup (graph.soft[e] \cap ToSet(list))

Good(s) ==
    /\ s \in Seq(Exts) /\ ToSet(s) \subseteq ToSet(list)
    /\ \A i, j \in 1..Len(s) : s[i] = s[j] => i = j
    /\ \A i \in 1..Len(s) : \A d \in Needs(s[i]) : \E j \in 1..Len(s) : j < i /\ s[j] = d

\* It grows by more than e, but by nothing that is being visited.
Grown(r, order, visiting) ==
    Good(r) /\ ToSet(order) \subseteq ToSet(r) /\ ToSet(r) \cap visiting \subseteq ToSet(order)

LEMMA GoodAppend ==
    ASSUME NEW s, Good(s), NEW e \in ToSet(list), e \notin ToSet(s), Needs(e) \subseteq ToSet(s),
           e \in Exts
    PROVE  Good(Append(s, e)) /\ ToSet(Append(s, e)) = ToSet(s) \cup {e}
<1> DEFINE t == Append(s, e)
<1>1. /\ t \in Seq(Exts) /\ Len(t) = Len(s) + 1 /\ Len(s) \in Nat /\ t[Len(s) + 1] = e
      /\ \A i \in 1..Len(s) : t[i] = s[i]
  BY AppendProperties, LenProperties DEF Good
<1>2. ToSet(t) = ToSet(s) \cup {e}
  BY SetOfAppend DEF Good
<1>3. \A i, j \in 1..Len(t) : t[i] = t[j] => i = j
  BY DistinctAppend DEF Good
<1>4. ToSet(s) = {s[i] : i \in 1..Len(s)}
  BY SetOfSeq DEF Good
<1> HIDE DEF t
<1>5. ASSUME NEW i \in 1..Len(t), NEW d \in Needs(t[i])
      PROVE  \E j \in 1..Len(t) : j < i /\ t[j] = d
  <2>1. CASE i \in 1..Len(s)
    <3>1. PICK j \in 1..Len(s) : j < i /\ s[j] = d
      BY <1>1, <1>5, <2>1 DEF Good
    <3>2. j \in 1..Len(t) /\ t[j] = d
      BY <1>1, <3>1
    <3> QED
      BY <3>1, <3>2
  <2>2. CASE i \notin 1..Len(s)
    <3>1. i = Len(s) + 1
      BY <1>1, <2>2
    <3>2. d \in ToSet(s)
      BY <1>1, <1>5, <3>1
    <3>3. PICK j \in 1..Len(s) : s[j] = d
      BY <1>4, <3>2
    <3>4. j \in 1..Len(t) /\ t[j] = d /\ j < i
      BY <1>1, <3>1, <3>3
    <3> QED
      BY <3>4
  <2> QED
    BY <2>1, <2>2
<1>6. t \in Seq(Exts) /\ ToSet(t) \subseteq ToSet(list)
  BY <1>1, <1>2 DEF Good
<1> QED
  BY <1>2, <1>3, <1>5, <1>6 DEF Good, t

\* A graph without cycles: extensions have heights.
Heights(h) ==
    h \in [Exts -> Nat] /\ \A e \in Exts : \A d \in graph.hard[e] \cup graph.soft[e] : h[d] < h[e]

\* visit, for e, while less is being visited than leaves `depth` extensions.
Visitable(h, depth, order, visiting, e) ==
    /\ Good(order) /\ visiting \subseteq ToSet(list) /\ e \in ToSet(list)
    /\ Cardinality(ToSet(list) \ visiting) <= depth
    /\ \A v \in visiting : h[e] < h[v]

Sorts(visit, h, depth) ==
    \A order \in Orders, visiting \in SUBSET Exts, e \in Exts :
       Visitable(h, depth, order, visiting, e)
         => /\ Grown(visit[<<order, visiting, e>>], order, visiting)
            /\ e \in ToSet(visit[<<order, visiting, e>>])

LEMMA VisitsSort ==
    ASSUME ExtTypes, NEW visit \in [Visits -> Orders], NEW h, NEW depth \in Nat,
           Sorts(visit, h, depth),
           NEW order \in Orders, NEW visiting \in SUBSET Exts, NEW es \in Seq(Exts),
           Good(order), \A e \in ToSet(es) : Visitable(h, depth, order, visiting, e)
    PROVE  /\ Grown(VisitAll(visit, order, visiting, es), order, visiting)
           /\ ToSet(es) \subseteq ToSet(VisitAll(visit, order, visiting, es))
<1> DEFINE n == Len(es)
<1>1. PICK g \in [0..n -> Orders] :
         /\ g[0] = order
         /\ \A i \in 1..n : g[i] = visit[<<g[i - 1], visiting, es[i]>>]
         /\ VisitAll(visit, order, visiting, es) = g[n]
  BY VisitAllIs
<1>2. n \in Nat /\ ToSet(es) = {es[i] : i \in 1..n}
      /\ \A i \in 1..n : es[i] \in ToSet(es) /\ es[i] \in Exts
  BY SetOfSeq
<1> DEFINE Done(i) == Grown(g[i], order, visiting) /\ \A k \in 1..i : es[k] \in ToSet(g[i])
<1>3. Done(0)
  BY <1>1 DEF Grown
<1>4. ASSUME NEW i \in 1..n, Done(i - 1) PROVE Done(i)
  <2>0. i - 1 \in 0..n
    BY <1>2
  <2>1. g[i - 1] \in Orders /\ g[i] = visit[<<g[i - 1], visiting, es[i]>>]
    BY <1>1, <2>0
  <2>2. Visitable(h, depth, g[i - 1], visiting, es[i])
    <3>1. Visitable(h, depth, order, visiting, es[i])
      BY <1>2
    <3> QED
      BY <1>4, <3>1 DEF Visitable, Grown
  <2>3. Grown(g[i], g[i - 1], visiting) /\ es[i] \in ToSet(g[i])
    BY <1>2, <2>1, <2>2 DEF Sorts
  <2>4. Grown(g[i], order, visiting)
    BY <1>4, <2>3 DEF Grown
  <2>5. ASSUME NEW k \in 1..i PROVE es[k] \in ToSet(g[i])
    <3>1. k = i \/ k \in 1..(i - 1)
      BY <1>2
    <3> QED
      BY <1>4, <2>3, <3>1 DEF Grown
  <2> QED
    BY <2>4, <2>5
<1>5. Done(n)
  <2> DEFINE bad == {i \in 0..n : ~Done(i)}
  <2>0. bad \in SUBSET Nat
    BY <1>2
  <2> HIDE DEF Done
  <2>1. ASSUME bad # {} PROVE FALSE
    <3>1. PICK i \in bad : \A j \in bad : i <= j
      BY <2>0, <2>1, LeastNumber
    <3>2. i \in 0..n /\ ~Done(i)
      BY <3>1
    <3>3. i # 0
      BY <1>3, <3>2
    <3>4. i \in 1..n /\ i - 1 \in 0..n /\ ~(i <= i - 1)
      BY <1>2, <3>2, <3>3
    <3>5. Done(i - 1)
      BY <3>1, <3>4
    <3> QED
      BY <1>4, <3>2, <3>4, <3>5
  <2>2. n \in 0..n
    BY <1>2
  <2> QED
    BY <2>1, <2>2
<1> QED
  BY <1>1, <1>2, <1>5

LEMMA DeeperSorts ==
    ASSUME ExtTypes, Complete, NEW h, Heights(h), NEW depth \in Nat,
           NEW visit \in [Visits -> Orders], Sorts(visit, h, depth)
    PROVE  Sorts(Deeper(visit), h, depth + 1)
<1> SUFFICES ASSUME NEW order \in Orders, NEW visiting \in SUBSET Exts, NEW e \in Exts,
                    Visitable(h, depth + 1, order, visiting, e)
             PROVE  /\ Grown(Deeper(visit)[<<order, visiting, e>>], order, visiting)
                    /\ e \in ToSet(Deeper(visit)[<<order, visiting, e>>])
  BY DEF Sorts
<1> DEFINE now == visiting \cup {e}
           all == VisitAll(visit, order, now, Before(e))
<1>0. /\ Good(order) /\ visiting \subseteq ToSet(list) /\ e \in ToSet(list)
      /\ Cardinality(ToSet(list) \ visiting) <= depth + 1
      /\ \A v \in visiting : h[e] < h[v]
  BY DEF Visitable
<1>1. e \notin visiting /\ h \in [Exts -> Nat]
  BY <1>0 DEF Heights
<1>2. <<order, visiting, e>> \in Visits
  BY DEF Visits, Orders
<1>3. CASE e \in ToSet(order)
  <2>1. Deeper(visit)[<<order, visiting, e>>] = order
    BY <1>2, <1>3 DEF Deeper
  <2> QED
    BY <1>0, <1>3, <2>1 DEF Grown
<1>4. CASE e \notin ToSet(order)
  <2>1. Deeper(visit)[<<order, visiting, e>>] = Append(all, e)
    BY <1>1, <1>2, <1>4 DEF Deeper
  <2>2. Before(e) \in Seq(Exts) /\ ToSet(Before(e)) = Needs(e)
    BY BeforeIs DEF Needs
  <2>3. Needs(e) \subseteq ToSet(list)
    BY <1>0 DEF Needs, Complete
  <2>4. ASSUME NEW d \in Needs(e) PROVE Visitable(h, depth, order, now, d)
    <3>1. d \in Exts /\ h[d] < h[e]
      BY <2>2, <2>4, SetOfSeq DEF Heights, Needs
    <3>2. \A v \in now : h[d] < h[v]
      <4>1. \A v \in visiting : h[v] \in Nat
        BY <1>1
      <4>2. h[d] \in Nat /\ h[e] \in Nat
        BY <1>1, <3>1
      <4> QED
        BY <1>0, <3>1, <4>1, <4>2
    <3>3. Cardinality(ToSet(list) \ now) <= depth
      <4>1. ToSet(list) \subseteq Exts
        BY SetOfSeq DEF ExtTypes
      <4>2. IsFiniteSet(ToSet(list) \ visiting)
        BY <4>1, FS_Subset, ExtensionsAssumption DEF ExtensionsAssumption
      <4>3. ToSet(list) \ now = (ToSet(list) \ visiting) \ {e} /\ e \in ToSet(list) \ visiting
        BY <1>0, <1>1
      <4>4. Cardinality(ToSet(list) \ visiting) \in Nat
        BY <4>2, FS_CardinalityType
      <4>5. Cardinality((ToSet(list) \ visiting) \ {e}) = Cardinality(ToSet(list) \ visiting) - 1
        BY <4>2, <4>3, FS_RemoveElement
      <4>6. Cardinality(ToSet(list) \ now) = Cardinality(ToSet(list) \ visiting) - 1
        BY <4>3, <4>5
      <4> QED
        BY <1>0, <4>4, <4>6
    <3> QED
      BY <1>0, <2>3, <3>2, <3>3 DEF Visitable
  <2>5. now \in SUBSET Exts
    OBVIOUS
  <2> HIDE DEF now
  <2>6. Grown(all, order, now) /\ Needs(e) \subseteq ToSet(all)
    BY <1>0, <2>2, <2>4, <2>5, VisitsSort
  <2> HIDE DEF all
  <2>7. e \notin ToSet(all) /\ Good(all)
    BY <1>4, <2>6 DEF Grown, now
  <2>8. Good(Append(all, e)) /\ ToSet(Append(all, e)) = ToSet(all) \cup {e}
    BY <1>0, <2>6, <2>7, GoodAppend
  <2> QED
    BY <1>1, <2>1, <2>6, <2>8 DEF Grown, now
<1> QED
  BY <1>3, <1>4

LEMMA VisitSorts ==
    ASSUME ExtTypes, Complete, NEW h, Heights(h), NEW depth \in Nat
    PROVE  Sorts(Visit[depth], h, depth)
<1>1. Sorts(Visit[0], h, 0)
  <2> SUFFICES ASSUME NEW order \in Orders, NEW visiting \in SUBSET Exts, NEW e \in Exts,
                      Visitable(h, 0, order, visiting, e)
               PROVE  FALSE
    BY DEF Sorts
  <2>1. ToSet(list) \subseteq Exts
    BY SetOfSeq DEF ExtTypes
  <2>2. IsFiniteSet(ToSet(list) \ visiting)
    BY <2>1, FS_Subset, ExtensionsAssumption DEF ExtensionsAssumption
  <2>3. Cardinality(ToSet(list) \ visiting) = 0
    BY <2>2, FS_CardinalityType DEF Visitable
  <2>4. ToSet(list) \ visiting = {}
    BY <2>2, <2>3, FS_EmptySet
  <2>5. h[e] < h[e] /\ h[e] \in Nat
    BY <2>4 DEF Visitable, Heights
  <2> QED
    BY <2>5
<1>2. ASSUME NEW n \in Nat, Sorts(Visit[n], h, n) PROVE Sorts(Visit[n + 1], h, n + 1)
  BY <1>2, VisitIs, DeeperSorts
<1> DEFINE bad == {n \in Nat : ~Sorts(Visit[n], h, n)}
<1>3. ASSUME bad # {} PROVE FALSE
  <2>1. PICK n \in bad : \A j \in bad : n <= j
    BY <1>3, LeastNumber
  <2>2. n \in Nat /\ ~Sorts(Visit[n], h, n)
    BY <2>1
  <2>3. n # 0
    BY <1>1, <2>2
  <2>4. n - 1 \in Nat /\ (n - 1) + 1 = n /\ ~(n <= n - 1)
    BY <2>2, <2>3
  <2>5. Sorts(Visit[n - 1], h, n - 1)
    BY <2>1, <2>4
  <2> QED
    BY <1>2, <2>2, <2>4, <2>5
<1> QED
  BY <1>3

LEMMA SortedIsOrdered ==
    ASSUME ExtTypes, Complete, NEW h, Heights(h)
    PROVE  Ordered(Sorted)
<1>1. Len(list) \in Nat /\ ToSet(list) \subseteq Exts /\ <<>> \in Orders /\ ToSet(<<>>) = {}
  BY SetOfSeq, EmptySeq DEF ExtTypes, ToSet, Orders
<1>2. Cardinality(ToSet(list)) <= Len(list)
  <2>1. /\ list \in [1..Len(list) -> Exts] /\ ToSet(list) = {list[i] : i \in 1..Len(list)}
        /\ \A i \in 1..Len(list) : list[i] \in ToSet(list)
    BY SetOfSeq, LenProperties DEF ExtTypes
  <2>2. list \in [1..Len(list) -> ToSet(list)]
    BY <2>1
  <2>3. list \in Surjection(1..Len(list), ToSet(list))
    BY <2>1, <2>2 DEF Surjection
  <2>4. ExistsSurjection(1..Len(list), ToSet(list))
    BY <2>3 DEF ExistsSurjection
  <2> QED
    BY <1>1, <2>4, FS_SurjCardinalityBound
<1>3. Good(<<>>)
  BY <1>1 DEF Good, Orders
<1>4. \A e \in ToSet(list) : Visitable(h, Len(list), <<>>, {}, e)
  <2>1. ToSet(list) \ {} = ToSet(list)
    OBVIOUS
  <2> QED
    BY <1>2, <1>3, <2>1 DEF Visitable
<1>5. Visit[Len(list)] \in [Visits -> Orders] /\ Sorts(Visit[Len(list)], h, Len(list))
  BY <1>1, VisitIs, VisitSorts
<1>6. {} \in SUBSET Exts /\ list \in Seq(Exts)
  BY DEF ExtTypes
<1>7. Grown(Sorted, <<>>, {})
  BY <1>1, <1>3, <1>4, <1>5, <1>6, VisitsSort DEF Sorted
<1> QED
  BY <1>7 DEF Grown, Good, Ordered, Needs

LEMMA SortedType == ASSUME ExtTypes PROVE Sorted \in Seq(Exts)
<1>1. Len(list) \in Nat /\ <<>> \in Orders /\ {} \in SUBSET Exts /\ list \in Seq(Exts)
  BY LenProperties, EmptySeq DEF ExtTypes, Orders
<1>2. Visit[Len(list)] \in [Visits -> Orders]
  BY <1>1, VisitIs
<1>3. Sorted \in Orders
  BY <1>1, <1>2, VisitAllIs DEF Sorted
<1> QED
  BY <1>3 DEF Orders

-----------------------------------------------------------------------------
(* What is registered while extensions start.                              *)

Up(k) == {list[i] : i \in 1..k}

NothingOut == tasks = {} /\ \A r \in Results : got[r] = {}

\* The extensions that have begun to start are those that run, and what is
\* registered is theirs; results are held back until all have started.
StartingInv ==
    phase = "starting" =>
       /\ pos \in 1..(Len(list) + 1)
       /\ \/ running = Up(pos - 1)
          \/ pos <= Len(list) /\ running = Up(pos)
       /\ holdBack = TRUE /\ ToSet(registered) = running /\ callbacks = Frontends \cap running

OutInv ==
    /\ phase = "loading" => pos = 1 /\ running = {} /\ registered = <<>> /\ callbacks = {}
    /\ phase = "running" => running = Up(Len(list)) /\ callbacks = Frontends \cap ToSet(list)
    /\ phase \in {"loading", "starting", "undoing", "failed"} => NothingOut
    /\ phase = "failed" => registered = <<>> /\ callbacks = {} /\ running = {}

ExtInv == ExtTypes /\ StartingInv /\ OutInv

LEMMA InitExt == ExtInit => ExtInv
<1> SUFFICES ASSUME ExtInit PROVE ExtInv
  OBVIOUS
<1>1. ExtTypes
  <2>1. list \in Seq(Exts) /\ registered \in Seq(Exts) /\ saved.registered \in Seq(Exts)
    BY EmptySeq DEF ExtInit, Manager
  <2> QED
    BY <2>1 DEF ExtInit, ExtTypes, Phases
<1>2. NothingOut
  BY DEF ExtInit, NothingOut
<1> QED
  BY <1>1, <1>2 DEF ExtInit, ExtInv, StartingInv, OutInv

LEMMA UpTo ==
    ASSUME ExtTypes, NEW k \in Nat, k < Len(list)
    PROVE  Up(k + 1) = Up(k) \cup {list[k + 1]} /\ list[k + 1] \in Exts
<1>1. Len(list) \in Nat /\ k + 1 \in 1..Len(list)
  BY LenProperties DEF ExtTypes
<1>2. 1..(k + 1) = 1..k \cup {k + 1}
  OBVIOUS
<1>3. Up(k + 1) = Up(k) \cup {list[k + 1]}
  BY <1>2 DEF Up
<1>4. list[k + 1] \in Exts
  BY <1>1, ElementOfSeq DEF ExtTypes
<1> QED
  BY <1>3, <1>4

LEMMA UpToAll == ASSUME ExtTypes PROVE Up(Len(list)) = ToSet(list) /\ Up(0) = {}
BY LenProperties DEF ExtTypes, Up, ToSet

LEMMA LoadStep == ASSUME ExtInv, Load PROVE ExtInv'
<1>1. PICK e \in Exts \ ToSet(list) : list' = Append(list, e)
  BY DEF Load
<1>2. list' \in Seq(Exts)
  BY <1>1, SetOfAppend DEF ExtInv, ExtTypes
<1>3. /\ phase = "loading"
      /\ UNCHANGED <<graph, phase, pos, running, registered, callbacks, saved, holdBack, tasks, got>>
  BY DEF Load, deliveries
<1>4. ExtTypes'
  BY <1>2, <1>3 DEF ExtInv, ExtTypes
<1> QED
  BY <1>3, <1>4 DEF ExtInv, StartingInv, OutInv, NothingOut

LEMMA StartStep == ASSUME ExtInv, StartAll PROVE ExtInv'
<1>1. /\ phase = "loading"
      /\ UNCHANGED <<graph, pos, running, registered, callbacks, tasks, got>>
      /\ saved' = Manager
  BY DEF StartAll
<1>2. saved'.registered \in Seq(Exts)
  BY <1>1 DEF Manager, ExtInv, ExtTypes
<1>3. pos = 1 /\ running = {} /\ registered = <<>> /\ callbacks = {} /\ NothingOut
  BY <1>1 DEF ExtInv, OutInv
<1>4. CASE Complete
  <2>1. phase' = "starting" /\ list' = Sorted /\ holdBack' = TRUE
    BY <1>4 DEF StartAll
  <2>2. ExtTypes'
    BY <1>1, <1>2, <2>1, SortedType DEF ExtInv, ExtTypes, Phases
  <2>3. StartingInv'
    <3>1. Up(0)' = {} /\ ToSet(<<>>) = {}
      BY DEF Up, ToSet
    <3>2. Len(list') \in Nat
      BY <2>2, LenProperties DEF ExtTypes
    <3>3. pos' = 1 /\ running' = {} /\ registered' = <<>> /\ callbacks' = {}
      BY <1>1, <1>3
    <3>4. pos' \in 1..(Len(list') + 1) /\ pos' - 1 = 0
      BY <3>2, <3>3
    <3>5. running' = {list'[i] : i \in 1..(pos' - 1)}
      BY <3>1, <3>3, <3>4 DEF Up
    <3>6. ToSet(registered') = running' /\ callbacks' = Frontends \cap running'
      BY <3>1, <3>3
    <3> QED
      BY <2>1, <3>4, <3>5, <3>6 DEF StartingInv, Up
  <2> QED
    BY <1>1, <1>3, <2>1, <2>2, <2>3 DEF ExtInv, OutInv, NothingOut
<1>5. CASE ~Complete
  <2>1. phase' = "failed" /\ UNCHANGED <<list, holdBack>>
    BY <1>5 DEF StartAll
  <2>2. ExtTypes'
    BY <1>1, <1>2, <2>1 DEF ExtInv, ExtTypes, Phases
  <2> QED
    BY <1>1, <1>3, <2>1, <2>2 DEF ExtInv, StartingInv, OutInv, NothingOut
<1> QED
  BY <1>4, <1>5

LEMMA RegisterStep == ASSUME ExtInv, Register PROVE ExtInv'
<1>1. /\ phase = "starting" /\ pos <= Len(list) /\ list[pos] \notin ToSet(registered)
      /\ registered' = Append(registered, list[pos]) /\ running' = running \cup {list[pos]}
      /\ callbacks' = callbacks \cup (Frontends \cap {list[pos]})
      /\ UNCHANGED <<graph, list, phase, pos, saved, holdBack, got>>
  BY DEF Register, Starting
<1>2. holdBack = TRUE /\ ToSet(registered) = running /\ callbacks = Frontends \cap running
      /\ NothingOut /\ pos \in 1..(Len(list) + 1)
  BY <1>1 DEF ExtInv, StartingInv, OutInv
<1>3. tasks' = tasks
  BY <1>2 DEF Register, FlushesNow
<1>4. pos \in Nat /\ Len(list) \in Nat /\ (pos - 1) + 1 = pos /\ pos - 1 \in Nat
  BY <1>2, LenProperties DEF ExtInv, ExtTypes
<1>5. Up(pos) = Up(pos - 1) \cup {list[pos]} /\ list[pos] \in Exts
  BY <1>1, <1>4, UpTo DEF ExtInv
<1>6. running = Up(pos - 1)
  BY <1>1, <1>2, <1>5 DEF ExtInv, StartingInv
<1>7. registered' \in Seq(Exts) /\ ToSet(registered') = running'
  BY <1>1, <1>2, <1>5, SetOfAppend DEF ExtInv, ExtTypes
<1>8. running' = Up(pos)
  BY <1>1, <1>5, <1>6
<1>9. Up(pos)' = Up(pos)
  BY <1>1 DEF Up
<1>10. ExtTypes'
  BY <1>1, <1>7 DEF ExtInv, ExtTypes
<1>11. callbacks' = Frontends \cap running'
  BY <1>1, <1>2
<1>12. StartingInv'
  BY <1>1, <1>2, <1>7, <1>8, <1>9, <1>11 DEF StartingInv
<1>13. OutInv'
  BY <1>1, <1>2, <1>3 DEF OutInv, NothingOut
<1> QED
  BY <1>10, <1>12, <1>13 DEF ExtInv

LEMMA StartedStep == ASSUME ExtInv, Started PROVE ExtInv'
<1>1. /\ phase = "starting" /\ pos <= Len(list) /\ list[pos] \in ToSet(registered)
      /\ pos' = pos + 1 /\ saved' = Manager
      /\ UNCHANGED <<graph, list, phase, running, registered, callbacks, holdBack, tasks, got>>
  BY DEF Started, Starting, deliveries
<1>2. ToSet(registered) = running /\ pos \in 1..(Len(list) + 1)
  BY <1>1 DEF ExtInv, StartingInv
<1>3. pos \in Nat /\ Len(list) \in Nat /\ (pos - 1) + 1 = pos /\ pos - 1 \in Nat
  BY <1>2, LenProperties DEF ExtInv, ExtTypes
<1>4. Up(pos) = Up(pos - 1) \cup {list[pos]}
  BY <1>1, <1>3, UpTo DEF ExtInv
<1>5. running = Up(pos)
  BY <1>1, <1>2, <1>4 DEF ExtInv, StartingInv
<1>6. running' = {list'[i] : i \in 1..(pos' - 1)}
  BY <1>1, <1>3, <1>5 DEF Up
<1>7. saved'.registered \in Seq(Exts)
  BY <1>1 DEF Manager, ExtInv, ExtTypes
<1>8. ExtTypes'
  BY <1>1, <1>3, <1>7 DEF ExtInv, ExtTypes
<1>9. pos' \in 1..(Len(list') + 1)
  BY <1>1, <1>3
<1>12. holdBack' = TRUE /\ ToSet(registered') = running' /\ callbacks' = Frontends \cap running'
  BY <1>1 DEF ExtInv, StartingInv
<1>10. StartingInv'
  BY <1>6, <1>9, <1>12 DEF StartingInv, Up
<1>11. OutInv'
  BY <1>1 DEF ExtInv, OutInv, NothingOut
<1> QED
  BY <1>8, <1>10, <1>11 DEF ExtInv

LEMMA StartFailsStep == ASSUME ExtInv, StartFails PROVE ExtInv'
<1>1. /\ phase = "starting" /\ phase' = "undoing" /\ registered' = saved.registered
      /\ UNCHANGED <<graph, list, pos, saved, holdBack, tasks, got>>
  BY DEF StartFails, Starting, deliveries
<1>2. ExtTypes'
  BY <1>1 DEF ExtInv, ExtTypes, Phases
<1> QED
  BY <1>1, <1>2 DEF ExtInv, StartingInv, OutInv, NothingOut

LEMMA UndoStep == ASSUME ExtInv, UndoOne PROVE ExtInv'
<1>1. /\ phase = "undoing"
      /\ UNCHANGED <<graph, list, phase, pos, registered, saved, holdBack, tasks, got>>
  BY DEF UndoOne, deliveries
<1> QED
  BY <1>1 DEF ExtInv, ExtTypes, StartingInv, OutInv, NothingOut

LEMMA UndoneStep == ASSUME ExtInv, Undone PROVE ExtInv'
<1>1. /\ phase = "undoing" /\ running = {} /\ phase' = "failed"
      /\ registered' = <<>> /\ callbacks' = {}
      /\ UNCHANGED <<graph, list, pos, running, saved, tasks, got>>
  BY DEF Undone, Initially
<1>2. ExtTypes'
  BY <1>1, EmptySeq DEF ExtInv, ExtTypes, Phases
<1> QED
  BY <1>1, <1>2 DEF ExtInv, StartingInv, OutInv, NothingOut

LEMMA AllStartedStep == ASSUME ExtInv, AllStarted PROVE ExtInv'
<1>1. /\ phase = "starting" /\ pos > Len(list) /\ phase' = "running"
      /\ UNCHANGED <<graph, list, pos, running, registered, callbacks, saved, got>>
  BY DEF AllStarted
<1>2. pos \in 1..(Len(list) + 1) /\ Len(list) \in Nat /\ callbacks = Frontends \cap running
  BY <1>1, LenProperties DEF ExtInv, ExtTypes, StartingInv
<1>3. pos - 1 = Len(list) /\ ~(pos <= Len(list))
  BY <1>1, <1>2
<1>4. running = Up(Len(list))
  BY <1>1, <1>3 DEF ExtInv, StartingInv
<1>5. running' = Up(Len(list))' /\ callbacks' = Frontends \cap ToSet(list')
  BY <1>1, <1>2, <1>4, UpToAll DEF Up, ExtInv
<1>6. ExtTypes'
  BY <1>1 DEF ExtInv, ExtTypes, Phases
<1> QED
  BY <1>1, <1>5, <1>6 DEF ExtInv, StartingInv, OutInv

LEMMA DeliverStep == ASSUME ExtInv, NEW r \in Results, Deliver(r) PROVE ExtInv'
<1>1. /\ r \in tasks
      /\ UNCHANGED <<graph, list, phase, pos, running, registered, callbacks, saved, holdBack>>
  BY DEF Deliver
<1>2. phase \notin {"loading", "starting", "undoing", "failed"}
  BY <1>1 DEF ExtInv, OutInv, NothingOut
<1> QED
  BY <1>1, <1>2 DEF ExtInv, ExtTypes, StartingInv, OutInv, Up

LEMMA StoppingStep == ASSUME ExtInv, StopAll \/ StopOne PROVE ExtInv'
<1>1. /\ phase \in {"running", "stopping"} /\ phase' \in {"stopping", "stopped"}
      /\ UNCHANGED <<graph, list, registered, saved, holdBack, tasks, got>>
  BY DEF StopAll, StopOne, deliveries
<1>2. Len(list) \in Nat /\ pos \in Nat /\ (pos # 0 => pos - 1 \in Nat)
  BY LenProperties DEF ExtInv, ExtTypes
<1>3. pos' \in Nat
  BY <1>2 DEF StopAll, StopOne
<1>4. ExtTypes'
  BY <1>1, <1>3 DEF ExtInv, ExtTypes, Phases
<1> QED
  BY <1>1, <1>4 DEF ExtInv, StartingInv, OutInv

LEMMA NextExt == ASSUME ExtInv, [SettingsNext]_svars PROVE ExtInv'
<1>1. CASE UNCHANGED evars
  BY <1>1 DEF evars, ExtInv, ExtTypes, StartingInv, OutInv, NothingOut, Up
<1>2. CASE ExtNext
  BY <1>2, LoadStep, StartStep, RegisterStep, StartedStep, StartFailsStep, UndoStep, UndoneStep,
     AllStartedStep, StoppingStep, DeliverStep DEF ExtNext
<1> QED
  BY <1>1, <1>2 DEF SettingsNext, RunPrompt, ReloadTemplates, svars

LEMMA ExtIsTracked == SettingsSpec => []ExtInv
<1>1. SettingsInit => ExtInv
  BY InitExt DEF SettingsInit
<1>2. ExtInv /\ [SettingsNext]_svars => ExtInv'
  BY NextExt
<1> QED
  BY <1>1, <1>2, PTL DEF SettingsSpec

\* A start that fails half way leaves nothing behind (start_all,
\* _rollback_started), whatever the dependencies.
THEOREM FailureLeavesNothing == SettingsSpec => []NothingAfterFailure
<1>1. ExtInv => NothingAfterFailure
  BY DEF ExtInv, OutInv, NothingOut, NothingAfterFailure
<1> QED
  BY ExtIsTracked, <1>1, PTL

\* A recovered result reaches every frontend (set_delivery_flush_enabled,
\* flush_pending_deliveries).
THEOREM ResultsReachAll == SettingsSpec => RecoveredReachAll
<1>1. ASSUME ExtInv, [SettingsNext]_svars
      PROVE  [\A r \in Results : got'[r] # got[r] /\ phase \notin {"stopping", "stopped"}
                 => got'[r] = Frontends \cap ToSet(list)]_evars
  <2>1. CASE got' = got
    BY <2>1
  <2>2. CASE \E r \in Results : Deliver(r)
    <3>1. PICK q \in Results : q \in tasks /\ got' = [got EXCEPT ![q] = callbacks]
      BY <2>2 DEF Deliver
    <3>2. phase \notin {"stopping", "stopped"} => phase = "running"
      BY <1>1, <3>1 DEF ExtInv, ExtTypes, Phases, OutInv, NothingOut
    <3>3. phase = "running" => callbacks = Frontends \cap ToSet(list)
      BY <1>1 DEF ExtInv, OutInv
    <3> QED
      BY <3>1, <3>2, <3>3
  <2>3. got' = got \/ \E r \in Results : Deliver(r)
    BY <1>1 DEF SettingsNext, ExtNext, Load, StartAll, Register, Started, StartFails, UndoOne, Undone,
       AllStarted, StopAll, StopOne, RunPrompt, ReloadTemplates, svars, evars, deliveries
  <2> QED
    BY <2>1, <2>2, <2>3
<1> QED
  BY ExtIsTracked, <1>1, PTL DEF SettingsSpec, RecoveredReachAll

-----------------------------------------------------------------------------
(* The extensions that run are the first ones of the order.                *)

\* The dependencies can be layered: no extension depends on itself, over
\* others or not.
Acyclic(g) ==
    \E h \in [Exts -> Nat] : \A e \in Exts : \A d \in g.hard[e] \cup g.soft[e] : h[d] < h[e]

Distinct(s) == \A i, j \in 1..Len(s) : s[i] = s[j] => i = j

\* In every phase the order is sorted, what runs is its beginning: start_all
\* extends it, the rollback and stop_all shorten it from its end.
PrefixInv ==
    /\ Distinct(list)
    /\ phase \in {"starting", "undoing", "running", "stopping"} => Ordered(list)
    /\ phase = "undoing" => pos <= Len(list) /\ \E k \in 0..pos : running = Up(k)
    /\ phase = "stopping" => pos <= Len(list) /\ running = Up(pos)
    /\ phase = "stopped" => running = {}

LEMMA InitPrefix == ExtInit => PrefixInv
<1> SUFFICES ASSUME ExtInit PROVE PrefixInv
  OBVIOUS
<1>1. list = <<>> /\ phase = "loading"
  BY DEF ExtInit
<1>2. Distinct(<<>>)
  BY EmptySeq DEF Distinct
<1> QED
  BY <1>1, <1>2 DEF PrefixInv

LEMMA NotYetUp ==
    ASSUME ExtTypes, Distinct(list), NEW k \in Nat, k < Len(list)
    PROVE  list[k + 1] \notin Up(k)
<1>1. Len(list) \in Nat /\ k + 1 \in 1..Len(list)
  BY LenProperties DEF ExtTypes
<1>2. ASSUME NEW i \in 1..k PROVE list[i] # list[k + 1]
  BY <1>1 DEF Distinct
<1> QED
  BY <1>2 DEF Up

LEMMA StartPrefix ==
    ASSUME ExtInv, PrefixInv, StartAll, \A g \in Graphs : Acyclic(g) PROVE PrefixInv'
<1>1. phase = "loading" /\ graph \in Graphs /\ graph' = graph
  BY DEF StartAll, ExtInv, ExtTypes
<1>2. CASE Complete
  <2>1. phase' = "starting" /\ list' = Sorted
    BY <1>2 DEF StartAll
  <2>2. PICK h : Heights(h)
    BY <1>1 DEF Acyclic, Heights
  <2>3. Ordered(Sorted)
    BY <1>2, <2>2, SortedIsOrdered DEF ExtInv
  <2>4. Ordered(list)' /\ Distinct(list)'
    BY <1>1, <2>1, <2>3 DEF Ordered, Distinct
  <2> QED
    BY <2>1, <2>4 DEF PrefixInv
<1>3. CASE ~Complete
  <2>1. phase' = "failed" /\ UNCHANGED list
    BY <1>3 DEF StartAll
  <2> QED
    BY <2>1 DEF PrefixInv, Distinct
<1> QED
  BY <1>2, <1>3

LEMMA FailPrefix == ASSUME ExtInv, PrefixInv, StartFails PROVE PrefixInv'
<1>1. /\ phase = "starting" /\ pos <= Len(list) /\ phase' = "undoing"
      /\ running' = running \cup {list[pos]} /\ UNCHANGED <<graph, list, pos>>
  BY DEF StartFails, Starting, deliveries
<1>2. pos \in 1..(Len(list) + 1) /\ (running = Up(pos - 1) \/ running = Up(pos))
  BY <1>1 DEF ExtInv, StartingInv
<1>3. pos \in Nat /\ Len(list) \in Nat /\ (pos - 1) + 1 = pos /\ pos - 1 \in Nat /\ pos \in 0..pos
  BY <1>2, LenProperties DEF ExtInv, ExtTypes
<1>4. Up(pos) = Up(pos - 1) \cup {list[pos]}
  BY <1>1, <1>3, UpTo DEF ExtInv
<1>5. running' = Up(pos)
  BY <1>1, <1>2, <1>4
<1>6. running' = Up(pos)'
  BY <1>1, <1>5 DEF Up
<1>7. (\E k \in 0..pos : running = Up(k))'
  BY <1>1, <1>3, <1>6
<1> QED
  BY <1>1, <1>7 DEF PrefixInv, Ordered, Distinct

\* The extension to undo is the last one that runs.
LEMMA UndoesLast ==
    ASSUME ExtTypes, Distinct(list), pos <= Len(list), NEW k \in 1..pos, running = Up(k)
    PROVE  NextToUndo = k
<1>1. Len(list) \in Nat /\ pos \in Nat /\ 1..pos \subseteq 1..Len(list)
  BY LenProperties DEF ExtTypes
<1>2. \A i \in 1..pos : list[i] \in running <=> i <= k
  <2> SUFFICES ASSUME NEW i \in 1..pos PROVE list[i] \in running <=> i <= k
    OBVIOUS
  <2>1. ASSUME list[i] \in running PROVE i <= k
    <3>1. PICK j \in 1..k : list[j] = list[i]
      BY <2>1 DEF Up
    <3>2. j \in 1..Len(list) /\ i \in 1..Len(list)
      BY <1>1
    <3>3. i = j
      BY <3>1, <3>2 DEF Distinct
    <3> QED
      BY <3>3
  <2>2. ASSUME i <= k PROVE list[i] \in running
    BY <2>2 DEF Up
  <2> QED
    BY <2>1, <2>2
<1> DEFINE IsLast(i) == list[i] \in running /\ \A j \in (i + 1)..pos : list[j] \notin running
<1>3. IsLast(k)
  <2>1. \A j \in (k + 1)..pos : j \in 1..pos /\ ~(j <= k)
    BY <1>1
  <2> QED
    BY <1>2, <2>1
<1>4. ASSUME NEW i \in 1..pos, IsLast(i) PROVE i = k
  <2>1. i <= k
    BY <1>2, <1>4
  <2>2. ~(i < k)
    <3>1. list[k] \in running /\ (i < k => k \in (i + 1)..pos)
      BY <1>2
    <3> QED
      BY <1>4, <3>1
  <2> QED
    BY <2>1, <2>2
<1>5. NextToUndo = CHOOSE i \in 1..pos : IsLast(i)
  BY DEF NextToUndo
<1> HIDE DEF IsLast
<1> QED
  BY <1>3, <1>4, <1>5

LEMMA UndoPrefix == ASSUME ExtInv, PrefixInv, UndoOne PROVE PrefixInv'
<1>1. /\ phase = "undoing" /\ running # {} /\ running' = running \ {list[NextToUndo]}
      /\ UNCHANGED <<graph, list, phase, pos>>
  BY DEF UndoOne, deliveries
<1>2. PICK k \in 0..pos : running = Up(k)
  BY <1>1 DEF PrefixInv
<1>3. k \in 1..pos
  BY <1>1, <1>2, UpToAll DEF ExtInv
<1>4. NextToUndo = k /\ pos <= Len(list)
  BY <1>1, <1>2, <1>3, UndoesLast DEF ExtInv, PrefixInv
<1>5. k - 1 \in 0..pos /\ (k - 1) + 1 = k /\ k - 1 \in Nat /\ k - 1 < Len(list)
  BY <1>3, <1>4, LenProperties DEF ExtInv, ExtTypes
<1>6. Up(k) = Up(k - 1) \cup {list[k]} /\ list[k] \notin Up(k - 1)
  BY <1>5, UpTo, NotYetUp DEF ExtInv, PrefixInv
<1>7. running' = Up(k - 1)
  BY <1>1, <1>2, <1>4, <1>6
<1>8. running' = Up(k - 1)' /\ UNCHANGED <<list, pos>>
  BY <1>1, <1>7 DEF Up
<1>9. (\E j \in 0..pos : running = Up(j))'
  BY <1>1, <1>5, <1>8
<1> QED
  BY <1>1, <1>9 DEF PrefixInv, Ordered, Distinct

LEMMA StopPrefix == ASSUME ExtInv, PrefixInv, StopAll \/ StopOne PROVE PrefixInv'
<1>1. Len(list) \in Nat /\ pos \in Nat
  BY LenProperties DEF ExtInv, ExtTypes
<1>2. CASE StopAll
  <2>1. /\ phase = "running" /\ phase' = "stopping" /\ pos' = Len(list)
        /\ UNCHANGED <<graph, list, running>>
    BY <1>2 DEF StopAll
  <2>2. running' = Up(pos)' /\ pos' <= Len(list')
    BY <1>1, <2>1 DEF ExtInv, OutInv, Up
  <2> QED
    BY <2>1, <2>2 DEF PrefixInv, Ordered, Distinct
<1>3. CASE StopOne /\ pos = 0
  <2>1. phase = "stopping" /\ phase' = "stopped" /\ UNCHANGED <<graph, list, pos, running>>
    BY <1>3 DEF StopOne
  <2>2. running = {}
    BY <1>3, <2>1, UpToAll DEF ExtInv, PrefixInv
  <2> QED
    BY <2>1, <2>2 DEF PrefixInv, Ordered, Distinct
<1>4. CASE StopOne /\ pos # 0
  <2>1. /\ phase = "stopping" /\ phase' = "stopping" /\ pos' = pos - 1
        /\ running' = running \ {list[pos]} /\ UNCHANGED <<graph, list>>
    BY <1>4 DEF StopOne
  <2>2. running = Up(pos) /\ pos <= Len(list)
    BY <2>1 DEF PrefixInv
  <2>3. pos - 1 \in Nat /\ (pos - 1) + 1 = pos /\ pos - 1 < Len(list)
    BY <1>1, <1>4, <2>2
  <2>4. Up(pos) = Up(pos - 1) \cup {list[pos]} /\ list[pos] \notin Up(pos - 1)
    BY <2>3, UpTo, NotYetUp DEF ExtInv, PrefixInv
  <2>5. running' = Up(pos - 1)
    BY <2>1, <2>2, <2>4
  <2>6. running' = {list'[i] : i \in 1..pos'}
    BY <2>1, <2>5 DEF Up
  <2>7. running' = Up(pos)' /\ pos' <= Len(list')
    BY <1>1, <2>1, <2>2, <2>6 DEF Up
  <2> QED
    BY <2>1, <2>7 DEF PrefixInv, Ordered, Distinct
<1> QED
  BY <1>2, <1>3, <1>4

LEMMA SameOrder == ASSUME UNCHANGED <<graph, list>>, Ordered(list) PROVE Ordered(list)'
BY DEF Ordered

LEMMA NextPrefix ==
    ASSUME \A g \in Graphs : Acyclic(g), ExtInv, PrefixInv, [SettingsNext]_svars PROVE PrefixInv'
<1>1. CASE UNCHANGED <<graph, list, phase, pos, running>>
  BY <1>1 DEF PrefixInv, Ordered, Distinct, Up
<1>2. CASE Load
  <2>1. PICK e \in Exts \ ToSet(list) : list' = Append(list, e)
    BY <1>2 DEF Load
  <2>2. Distinct(list)'
    BY <2>1, DistinctAppend DEF ExtInv, ExtTypes, PrefixInv, Distinct
  <2>3. phase' = "loading"
    BY <1>2 DEF Load
  <2> QED
    BY <2>2, <2>3 DEF PrefixInv
<1>3. CASE Register \/ Started \/ AllStarted \/ Undone
  <2>1. /\ phase' \in {"starting", "running", "failed"} /\ UNCHANGED <<graph, list>>
        /\ phase \in {"starting", "undoing"}
    BY <1>3 DEF Register, Started, AllStarted, Undone, Starting
  <2>2. Ordered(list) /\ Distinct(list)
    BY <2>1 DEF PrefixInv
  <2>3. Ordered(list)'
    BY <2>1, <2>2, SameOrder
  <2>4. Distinct(list)'
    BY <2>1, <2>2 DEF Distinct
  <2> QED
    BY <2>1, <2>3, <2>4 DEF PrefixInv
<1>4. CASE \E r \in Results : Deliver(r)
  BY <1>1, <1>4 DEF Deliver
<1>5. ExtNext \/ UNCHANGED <<graph, list, phase, pos, running>>
  BY DEF SettingsNext, RunPrompt, ReloadTemplates, svars, evars
<1> QED
  BY <1>1, <1>2, <1>3, <1>4, <1>5, StartPrefix, FailPrefix, UndoPrefix, StopPrefix DEF ExtNext

\* Whatever runs requires only what runs (_validate_and_sort, start_all,
\* _rollback_started, stop_all), if the dependencies have no cycle.
THEOREM DependenciesStay ==
    ASSUME \A g \in Graphs : Acyclic(g)
    PROVE  SettingsSpec => []DependenciesAround
<1>1. SettingsInit => PrefixInv
  BY InitPrefix DEF SettingsInit
<1>2. ExtInv /\ PrefixInv /\ [SettingsNext]_svars => PrefixInv'
  BY NextPrefix
<1>3. ASSUME ExtInv, PrefixInv PROVE DependenciesAround
  <2>1. Len(list) \in Nat
    BY LenProperties DEF ExtInv, ExtTypes
  <2>2. CASE running = {}
    BY <2>2 DEF DependenciesAround
  <2>3. CASE phase \in {"starting", "undoing", "running", "stopping"}
    <3>1. PICK k \in 0..Len(list) : running = Up(k)
      <4>1. phase = "starting" => pos \in 1..(Len(list) + 1)
                                  /\ (running = Up(pos - 1) \/ (pos <= Len(list) /\ running = Up(pos)))
        BY <1>3 DEF ExtInv, StartingInv
      <4>2. CASE phase = "starting"
        BY <2>1, <4>1, <4>2
      <4>3. CASE phase = "undoing"
        <5>1. PICK k \in 0..pos : running = Up(k)
          BY <1>3, <4>3 DEF PrefixInv
        <5>2. k \in 0..Len(list)
          BY <1>3, <2>1, <4>3 DEF PrefixInv, ExtInv, ExtTypes
        <5> QED
          BY <5>1, <5>2
      <4>4. CASE phase = "stopping"
        <5>1. pos \in 0..Len(list) /\ running = Up(pos)
          BY <1>3, <2>1, <4>4 DEF PrefixInv, ExtInv, ExtTypes
        <5> QED
          BY <5>1
      <4>5. CASE phase = "running"
        <5>1. Len(list) \in 0..Len(list) /\ running = Up(Len(list))
          BY <1>3, <2>1, <4>5 DEF ExtInv, OutInv
        <5> QED
          BY <5>1
      <4> QED
        BY <2>3, <4>2, <4>3, <4>4, <4>5
    <3>2. ASSUME NEW e \in running, NEW d \in graph.hard[e] PROVE d \in running
      <4>1. PICK i \in 1..k : list[i] = e
        BY <3>1, <3>2 DEF Up
      <4>2. i \in 1..Len(list)
        BY <2>1
      <4>3. PICK j \in 1..Len(list) : j < i /\ list[j] = d
        BY <1>3, <2>3, <3>2, <4>1, <4>2 DEF PrefixInv, Ordered
      <4>4. j \in 1..k
        BY <2>1, <4>3
      <4> QED
        BY <3>1, <4>3, <4>4 DEF Up
    <3> QED
      BY <3>2 DEF DependenciesAround
  <2>4. running = {} \/ phase \in {"starting", "undoing", "running", "stopping"}
    BY <1>3 DEF ExtInv, ExtTypes, Phases, OutInv, PrefixInv
  <2> QED
    BY <2>2, <2>3, <2>4
<1> QED
  BY ExtIsTracked, <1>1, <1>2, <1>3, PTL DEF SettingsSpec

-----------------------------------------------------------------------------
(* The overrides of a prompt.                                              *)

AllowList(S) == (SUBSET S) \cup {None}

\* The merged allowlists leave out all that o's do, and o's denials are kept.
Under(m, o) ==
    /\ m.tools # None \/ o.tools = None
    /\ \A t \in Tools : m.tools # None /\ t \in m.tools => Allows(o.tools, t)
    /\ m.servers # None \/ o.servers = None
    /\ \A s : m.servers # None /\ s \in m.servers => Allows(o.servers, s)
    /\ o.deny \subseteq m.deny

LEMMA MeetIs ==
    ASSUME NEW S, S = Tools \/ S = Servers,
           NEW a \in AllowList(S), NEW b \in AllowList(S)
    PROVE  /\ Meet(a, b) \in AllowList(S)
           /\ Meet(a, b) = None => a = None /\ b = None
           /\ \A x : Meet(a, b) # None /\ x \in Meet(a, b) => Allows(a, x) /\ Allows(b, x)
<1>1. \A s \in SUBSET S : s # None
  BY SettingsAssumption DEF SettingsAssumption
<1>2. CASE a = None \/ b = None
  BY <1>1, <1>2 DEF Meet, Allows, AllowList
<1>3. CASE a # None /\ b # None
  <2>1. Meet(a, b) = a \cap b
    BY <1>3 DEF Meet
  <2>2. a \cap b \in SUBSET S
    BY <1>3 DEF AllowList
  <2> QED
    BY <1>1, <2>1, <2>2 DEF Allows, AllowList
<1> QED
  BY <1>2, <1>3

LEMMA MergeType ==
    ASSUME NEW a \in OverrideType, NEW b \in OverrideType
    PROVE  Merge(a, b) \in OverrideType
<1>1. /\ Meet(a.tools, b.tools) \in (SUBSET Tools) \cup {None}
      /\ Meet(a.servers, b.servers) \in (SUBSET Servers) \cup {None}
  <2>1. /\ a.tools \in AllowList(Tools) /\ b.tools \in AllowList(Tools)
        /\ a.servers \in AllowList(Servers) /\ b.servers \in AllowList(Servers)
    BY DEF OverrideType, AllowList
  <2>2. Meet(a.tools, b.tools) \in AllowList(Tools) /\ Meet(a.servers, b.servers) \in AllowList(Servers)
    BY <2>1, MeetIs
  <2> QED
    BY <2>2 DEF AllowList
<1> QED
  BY <1>1 DEF Merge, OverrideType

LEMMA MergeIsUnder ==
    ASSUME NEW a \in OverrideType, NEW b \in OverrideType
    PROVE  /\ Under(Merge(a, b), b)
           /\ \A o : Under(a, o) => Under(Merge(a, b), o)
<1> DEFINE c == Merge(a, b)
<1>1. /\ c.tools = Meet(a.tools, b.tools) /\ c.servers = Meet(a.servers, b.servers)
      /\ c.deny = a.deny \cup b.deny
  BY DEF Merge
<1>2. /\ a.tools \in (SUBSET Tools) \cup {None} /\ b.tools \in (SUBSET Tools) \cup {None}
      /\ a.servers \in (SUBSET Servers) \cup {None} /\ b.servers \in (SUBSET Servers) \cup {None}
  BY DEF OverrideType
<1> HIDE DEF c
<1>3. /\ c.tools = None => a.tools = None /\ b.tools = None
      /\ \A x : c.tools # None /\ x \in c.tools => Allows(a.tools, x) /\ Allows(b.tools, x)
  <2>1. PICK x, y : x = a.tools /\ y = b.tools
    OBVIOUS
  <2>2. x \in AllowList(Tools) /\ y \in AllowList(Tools)
    BY <1>2, <2>1 DEF AllowList
  <2>3. /\ Meet(x, y) = None => x = None /\ y = None
        /\ \A z : Meet(x, y) # None /\ z \in Meet(x, y) => Allows(x, z) /\ Allows(y, z)
    BY <2>2, MeetIs
  <2> QED
    BY <1>1, <2>1, <2>3
<1>4. /\ c.servers = None => a.servers = None /\ b.servers = None
      /\ \A x : c.servers # None /\ x \in c.servers => Allows(a.servers, x) /\ Allows(b.servers, x)
  <2>1. PICK x, y : x = a.servers /\ y = b.servers
    OBVIOUS
  <2>2. x \in AllowList(Servers) /\ y \in AllowList(Servers)
    BY <1>2, <2>1 DEF AllowList
  <2>3. /\ Meet(x, y) = None => x = None /\ y = None
        /\ \A z : Meet(x, y) # None /\ z \in Meet(x, y) => Allows(x, z) /\ Allows(y, z)
    BY <2>2, MeetIs
  <2> QED
    BY <1>1, <2>1, <2>3
<1>5. Under(c, b)
  BY <1>1, <1>3, <1>4 DEF Under
<1>6. ASSUME NEW o, Under(a, o) PROVE Under(c, o)
  <2>1. /\ c.tools # None \/ o.tools = None
        /\ \A t \in Tools : c.tools # None /\ t \in c.tools => Allows(o.tools, t)
    BY <1>3, <1>6 DEF Under, Allows
  <2>2. /\ c.servers # None \/ o.servers = None
        /\ \A s : c.servers # None /\ s \in c.servers => Allows(o.servers, s)
    BY <1>4, <1>6 DEF Under, Allows
  <2> QED
    BY <1>1, <1>6, <2>1, <2>2 DEF Under
<1> QED
  BY <1>5, <1>6 DEF c

LEMMA CollectedIs ==
    ASSUME NEW given \in Seq(OverrideType)
    PROVE  \E g \in [0..Len(given) -> OverrideType] :
              /\ \A i \in 1..Len(given) : g[i] = Merge(g[i - 1], given[i])
              /\ Collected(given) = g[Len(given)]
<1> DEFINE n == Len(given)
           f == [x \in Nat \X OverrideType |->
                   IF x[1] + 1 \in 1..n THEN Merge(x[2], given[x[1] + 1]) ELSE x[2]]
<1>1. n \in Nat /\ \A i \in 1..n : given[i] \in OverrideType
  BY LenProperties, ElementOfSeq
<1>2. f \in [Nat \X OverrideType -> OverrideType]
  <2>1. ASSUME NEW x \in Nat \X OverrideType, x[1] + 1 \in 1..n
        PROVE  Merge(x[2], given[x[1] + 1]) \in OverrideType
    BY <1>1, <2>1, MergeType
  <2> QED
    BY <2>1
<1> HIDE DEF f
<1>3. NoOverrides \in OverrideType
  BY DEF NoOverrides, OverrideType
<1>4. PICK h : Recurs(h, OverrideType, NoOverrides, f)
  BY <1>2, <1>3, Recursion
<1>5. ASSUME NEW i \in 1..n PROVE h[i] = Merge(h[i - 1], given[i])
  <2>1. i - 1 \in Nat /\ (i - 1) + 1 = i /\ h[i - 1] \in OverrideType
    BY <1>1, <1>4 DEF Recurs
  <2>2. f[<<i - 1, h[i - 1]>>] = Merge(h[i - 1], given[i])
    BY <2>1 DEF f
  <2> QED
    BY <1>4, <2>1, <2>2 DEF Recurs
<1> DEFINE g == [i \in 0..n |-> h[i]]
<1>6. g = [i \in 0..n |-> IF i = 0 THEN NoOverrides ELSE Merge(g[i - 1], given[i])]
  <2>1. ASSUME NEW i \in 0..n
        PROVE  g[i] = IF i = 0 THEN NoOverrides ELSE Merge(g[i - 1], given[i])
    <3>1. i # 0 => i \in 1..n /\ g[i - 1] = h[i - 1]
      BY <1>1
    <3> QED
      BY <1>4, <1>5, <3>1 DEF Recurs
  <2> QED
    BY <2>1
<1> HIDE DEF g
<1>7. PICK a : /\ a = [i \in 0..n |-> IF i = 0 THEN NoOverrides ELSE Merge(a[i - 1], given[i])]
               /\ Collected(given) = a[n]
  BY <1>6 DEF Collected
<1>8. a[0] = NoOverrides /\ \A i \in 1..n : a[i] = Merge(a[i - 1], given[i])
  BY <1>1, <1>7
<1>9. a \in [0..n -> OverrideType]
  <2> DEFINE bad == {i \in 0..n : a[i] \notin OverrideType}
  <2>0. bad \in SUBSET Nat
    BY <1>1
  <2>1. ASSUME bad # {} PROVE FALSE
    <3>1. PICK i \in bad : \A j \in bad : i <= j
      BY <2>0, <2>1, LeastNumber
    <3>2. i \in 0..n /\ a[i] \notin OverrideType
      BY <3>1
    <3>3. i # 0
      BY <1>3, <1>8, <3>2
    <3>4. i \in 1..n /\ i - 1 \in 0..n /\ ~(i <= i - 1)
      BY <1>1, <3>2, <3>3
    <3>5. a[i - 1] \in OverrideType
      BY <3>1, <3>4
    <3> QED
      BY <1>1, <1>8, <3>2, <3>4, <3>5, MergeType
  <2> QED
    BY <1>7, <2>1
<1> QED
  BY <1>7, <1>8, <1>9

\* No override is lost, whatever comes before and after it.
LEMMA CollectedIsUnder ==
    ASSUME NEW given \in Seq(OverrideType)
    PROVE  /\ Collected(given) \in OverrideType
           /\ \A k \in 1..Len(given) : Under(Collected(given), given[k])
<1> DEFINE n == Len(given)
<1>1. PICK g \in [0..n -> OverrideType] : /\ \A i \in 1..n : g[i] = Merge(g[i - 1], given[i])
                                          /\ Collected(given) = g[n]
  BY CollectedIs
<1>2. n \in Nat /\ \A i \in 1..n : given[i] \in OverrideType
  BY LenProperties, ElementOfSeq
<1> DEFINE bad == {i \in 0..n : \E k \in 1..i : ~Under(g[i], given[k])}
<1>3. bad \in SUBSET Nat
  BY <1>2
<1>4. ASSUME bad # {} PROVE FALSE
  <2>1. PICK i \in bad : \A j \in bad : i <= j
    BY <1>3, <1>4, LeastNumber
  <2>2. PICK k \in 1..i : ~Under(g[i], given[k])
    BY <2>1
  <2>3. i \in 1..n /\ i - 1 \in 0..n /\ ~(i <= i - 1) /\ (k = i \/ k \in 1..(i - 1))
    BY <1>2, <2>1, <2>2
  <2>4. g[i] = Merge(g[i - 1], given[i]) /\ g[i - 1] \in OverrideType /\ given[i] \in OverrideType
    BY <1>1, <1>2, <2>3
  <2>5. k \in 1..(i - 1) => Under(g[i - 1], given[k])
    BY <2>1, <2>3
  <2> QED
    BY <2>2, <2>3, <2>4, <2>5, MergeIsUnder
<1>5. n \in 0..n
  BY <1>2
<1> QED
  BY <1>1, <1>4, <1>5

TemplateInv == template \in OverrideType \cup {None}

LEMMA GivenType ==
    ASSUME ExtInv, TemplateInv, NEW of \in {<<>>, <<FromTemplate>>},
           NEW outs \in [1..Cardinality(Customizing) -> Overrides \cup {NoOverrides}]
    PROVE  of \o outs \in Seq(OverrideType)
<1>1. NoOverrides \in OverrideType /\ [NoOverrides EXCEPT !.tools = {}, !.servers = {}] \in OverrideType
  BY DEF NoOverrides, OverrideType
<1>2. FromTemplate \in OverrideType
  BY <1>1 DEF FromTemplate, TemplateInv
<1>3. of \in Seq(OverrideType)
  <2>1. <<FromTemplate>> \in Seq(OverrideType)
    BY <1>2
  <2>2. <<>> \in Seq(OverrideType)
    BY EmptySeq
  <2> QED
    BY <2>1, <2>2
<1>4. Cardinality(Customizing) \in Nat
  <2>1. Customizing \subseteq Exts
    BY SetOfSeq DEF Customizing, ExtInv, ExtTypes
  <2> QED
    BY <2>1, FS_Subset, FS_CardinalityType, ExtensionsAssumption DEF ExtensionsAssumption
<1>5. Overrides \cup {NoOverrides} \subseteq OverrideType
  BY <1>1, SettingsAssumption DEF SettingsAssumption
<1>6. outs \in [1..Cardinality(Customizing) -> OverrideType]
  BY <1>5
<1>7. outs \in Seq(OverrideType)
  BY <1>4, <1>6, SeqDef
<1> QED
  BY <1>3, <1>7, ConcatProperties

LEMMA PromptStep == ASSUME ExtInv, TemplateInv, RunPrompt PROVE NeverWidened'
<1>1. PICK of \in {<<>>, <<FromTemplate>>},
           outs \in [1..Cardinality(Customizing) -> Overrides \cup {NoOverrides}] :
         LET given == of \o outs
             o == Collected(given) IN
           prompt' = [given |-> given, tools |-> Meet(EngineTools, o.tools),
                       servers |-> ServersFor(o),
                       denied |-> EngineDenied \cup o.deny, model |-> o.model]
  BY DEF RunPrompt
<1> DEFINE given == of \o outs
           all == Collected(given)
<1>2. given \in Seq(OverrideType)
  BY GivenType
<1>3. PICK merged : merged = all
  OBVIOUS
<1>4. /\ prompt'.given = given /\ prompt'.tools = Meet(EngineTools, merged.tools)
      /\ prompt'.servers = ServersFor(merged) /\ prompt'.denied = EngineDenied \cup merged.deny
  BY <1>1, <1>3
<1>5. merged \in OverrideType /\ \A k \in 1..Len(given) : Under(merged, given[k])
  BY <1>2, <1>3, CollectedIsUnder
<1>6. DOMAIN given = 1..Len(given)
  BY <1>2, LenProperties
<1> HIDE DEF given
<1>7. ASSUME NEW i \in 1..Len(given)
      PROVE  LET o == given[i] IN
               /\ prompt'.tools # None \/ o.tools = None
               /\ \A t \in Tools : prompt'.tools # None /\ t \in prompt'.tools
                                     => Allows(o.tools, t) /\ Allows(EngineTools, t)
               /\ \A m \in prompt'.servers : Allows(o.servers, m)
               /\ o.deny \subseteq prompt'.denied
  <2>1. Under(merged, given[i])
    BY <1>5
  <2>2. merged.tools \in AllowList(Tools) /\ EngineTools \in AllowList(Tools)
    BY <1>5, SettingsAssumption DEF SettingsAssumption, OverrideType, AllowList
  <2>3. /\ prompt'.tools = None => merged.tools = None
        /\ \A x : prompt'.tools # None /\ x \in prompt'.tools
                    => Allows(EngineTools, x) /\ Allows(merged.tools, x)
    <3>1. PICK x : x = merged.tools
      OBVIOUS
    <3>2. /\ Meet(EngineTools, x) = None => x = None
          /\ \A z : Meet(EngineTools, x) # None /\ z \in Meet(EngineTools, x)
                      => Allows(EngineTools, z) /\ Allows(x, z)
      BY <2>2, <3>1, MeetIs
    <3> QED
      BY <1>4, <3>1, <3>2
  <2>4. prompt'.tools # None \/ given[i].tools = None
    BY <2>1, <2>3 DEF Under
  <2>5. ASSUME NEW t \in Tools, prompt'.tools # None, t \in prompt'.tools
        PROVE  Allows(given[i].tools, t) /\ Allows(EngineTools, t)
    BY <2>1, <2>3, <2>5 DEF Under, Allows
  <2>6. ASSUME NEW m \in prompt'.servers PROVE Allows(given[i].servers, m)
    <3>1. merged.servers = None \/ m \in merged.servers
      BY <1>4, <2>6 DEF ServersFor
    <3> QED
      BY <2>1, <3>1 DEF Under, Allows
  <2>7. given[i].deny \subseteq prompt'.denied
    BY <1>4, <2>1 DEF Under
  <2> QED
    BY <2>4, <2>5, <2>6, <2>7
<1> QED
  BY <1>4, <1>6, <1>7 DEF NeverWidened

\* No customizer's allowlist or denial is lost in a prompt's settings
\* (_collect_overrides, _generate_mcp_config).
THEOREM SettingsNeverWiden == SettingsSpec => []NeverWidened
<1>1. SettingsInit => TemplateInv /\ NeverWidened
  <2> SUFFICES ASSUME SettingsInit PROVE TemplateInv /\ NeverWidened
    OBVIOUS
  <2>1. prompt.given = <<>>
    BY DEF SettingsInit, NoPrompt
  <2>2. TemplateInv
    BY SettingsAssumption DEF SettingsAssumption, SettingsInit, TemplateInv
  <2> QED
    BY <2>1, <2>2 DEF NeverWidened
<1>2. ExtInv /\ TemplateInv /\ NeverWidened /\ [SettingsNext]_svars => TemplateInv' /\ NeverWidened'
  <2> SUFFICES ASSUME ExtInv, TemplateInv, NeverWidened, [SettingsNext]_svars
               PROVE  TemplateInv' /\ NeverWidened'
    OBVIOUS
  <2>1. template' \in Known \cup {template}
    BY DEF SettingsNext, RunPrompt, ReloadTemplates, svars
  <2>2. TemplateInv'
    BY <2>1, SettingsAssumption DEF SettingsAssumption, TemplateInv
  <2>3. CASE prompt' = prompt
    BY <2>2, <2>3 DEF NeverWidened
  <2>4. CASE prompt' = NoPrompt
    <3>1. prompt'.given = <<>>
      BY <2>4 DEF NoPrompt
    <3> QED
      BY <2>2, <3>1 DEF NeverWidened
  <2>5. prompt' = prompt \/ prompt' = NoPrompt \/ RunPrompt
    BY DEF SettingsNext, ReloadTemplates, svars
  <2> QED
    BY <2>2, <2>3, <2>4, <2>5, PromptStep
<1> QED
  BY ExtIsTracked, <1>1, <1>2, PTL DEF SettingsSpec
=============================================================================

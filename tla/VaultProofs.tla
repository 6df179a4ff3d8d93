---------------------------- MODULE VaultProofs -----------------------------
(***************************************************************************)
(* Proofs about Vault: the exclusive lock excludes, so that the secrets    *)
(* are only replaced under the key that sealed them and a listing is of    *)
(* one moment; and the two files implement the map that VaultMap promises. *)
(***************************************************************************)
EXTENDS Vault, TLAPS

Mutating(p) == pc[p] \in {"locked", "half"}

\* A mutation is one of the calls, and belongs to the holder of the lock.
LockInv == \A p \in Procs : Mutating(p) => holder = p /\ op[p] \in Ops

\* What a process found when it took the lock holds until it writes.
SealInv == \A p \in Procs : pc[p] = "locked" => Decrypts(p)

LEMMA OpFields ==
    ASSUME NEW o \in Ops
    PROVE  /\ o.key \in Keys
           /\ o.kind \in {"put", "delete", "set"}
           /\ o.kind = "put" => o.value \in Values /\ o.tier \in Tiers \cup {NoTier}
           /\ o.kind = "set" => o.tier \in Tiers
BY DEF Ops

LEMMA NewTierType ==
    ASSUME TypeOK, NEW o \in Ops
    PROVE  NewTier(o) \in Tiers \cup {NoTier}
<1>1. meta[o.key] \in Tiers \cup {NoTier}
  BY OpFields DEF TypeOK
<1> QED
  BY <1>1, OpFields DEF NewTier, Tiers

\* The steps of Next, by name.
LEMMA Cases ==
    ASSUME NEW G, [Next]_vars,
           UNCHANGED vars => G,
           \A p \in Procs :
              /\ Start(p) => G
              /\ LoadSalt(p) => G
              /\ WriteSalt(p) => G
              /\ ReadForMigration(p) => G
              /\ WriteMigrated(p) => G
              /\ WriteSecrets(p) => G
              /\ WriteMeta(p) => G
              /\ List(p) => G
              /\ Crash(p) => G
              /\ \A o \in Ops : Begin(p, o) => G
    PROVE  G
BY DEF Next, Step

TypeInv == TypeOK /\ LockInv

LEMMA TypeStep == TypeInv /\ [Next]_vars => TypeInv'
<1> SUFFICES ASSUME TypeInv, [Next]_vars PROVE TypeInv'
  OBVIOUS
<1> USE VaultAssumption DEF TypeInv, TypeOK, LockInv, Mutating, disk, Stages
<1>1. UNCHANGED vars => TypeInv'
  BY DEF vars
<1>2. ASSUME NEW p \in Procs, Start(p) PROVE TypeInv'
  BY <1>2 DEF Start
<1>3. ASSUME NEW p \in Procs, LoadSalt(p) PROVE TypeInv'
  <2>1. PICK w \in Passphrases :
           crypt' = [crypt EXCEPT ![p] = <<w, IF salt = NoSalt THEN p ELSE salt>>]
    BY <1>3 DEF LoadSalt
  <2>2. <<w, IF salt = NoSalt THEN p ELSE salt>> \in CryptKeys
    BY DEF CryptKeys
  <2>3. crypt' \in [Procs -> CryptKeys \cup {NoKey}]
    BY <2>1, <2>2
  <2> QED BY <1>3, <2>3 DEF LoadSalt
<1>4. ASSUME NEW p \in Procs, WriteSalt(p) PROVE TypeInv'
  BY <1>4 DEF WriteSalt
<1>5. ASSUME NEW p \in Procs, ReadForMigration(p) PROVE TypeInv'
  <2>1. copy' \in [Procs -> [Keys -> Values \cup {NoValue}]]
    BY <1>5 DEF ReadForMigration, Empty
  <2>2. /\ pc' \in [Procs -> Stages]
        /\ \A q \in Procs : Mutating(q)' => Mutating(q)
    BY <1>5 DEF ReadForMigration
  <2> QED
    BY <1>5, <2>1, <2>2 DEF ReadForMigration
<1>6. ASSUME NEW p \in Procs, WriteMigrated(p) PROVE TypeInv'
  BY <1>6 DEF WriteMigrated, Empty, Tiers
<1>7. ASSUME NEW p \in Procs, WriteSecrets(p) PROVE TypeInv'
  BY <1>7 DEF WriteSecrets
<1>8. ASSUME NEW p \in Procs, WriteMeta(p) PROVE TypeInv'
  <2>1. op[p] \in Ops /\ holder = p
    BY <1>8 DEF WriteMeta
  <2>2. meta' \in [Keys -> Tiers \cup {NoTier}]
    BY <1>8, <2>1, NewTierType DEF WriteMeta
  <2> QED
    BY <1>8, <2>1, <2>2 DEF WriteMeta, Empty
<1>9. ASSUME NEW p \in Procs, List(p) PROVE TypeInv'
  BY <1>9 DEF List, Tiers
<1>10. ASSUME NEW p \in Procs, Crash(p) PROVE TypeInv'
  BY <1>10 DEF Crash, Empty
<1>11. ASSUME NEW p \in Procs, NEW o \in Ops, Begin(p, o) PROVE TypeInv'
  <2>1. copy' \in [Procs -> [Keys -> Values \cup {NoValue}]]
    BY <1>11, OpFields DEF Begin
  <2> QED
    BY <1>11, <2>1 DEF Begin, LockFree
<1> QED
  BY <1>1, <1>2, <1>3, <1>4, <1>5, <1>6, <1>7, <1>8, <1>9, <1>10, <1>11, Cases

LEMMA TypeHolds == Spec => []TypeInv
<1>1. Init => TypeInv
  <2> SUFFICES ASSUME Init PROVE TypeInv
    OBVIOUS
  <2>1. sealed \in CryptKeys \cup {NoKey}
    BY DEF Init, CryptKeys
  <2>2. salt \in Procs \cup {NoSalt} /\ secrets \in [Keys -> Values \cup {NoValue}]
    BY DEF Init, Empty
  <2>3. \A q \in Procs : pc[q] = "down"
    BY DEF Init
  <2>4. pc \in [Procs -> Stages] /\ crypt \in [Procs -> CryptKeys \cup {NoKey}]
    BY DEF Init, Stages
  <2>5. op \in [Procs -> Ops \cup {NoOp}]
    BY DEF Init
  <2>6. copy \in [Procs -> [Keys -> Values \cup {NoValue}]]
    BY DEF Init, Empty
  <2>7. meta \in [Keys -> Tiers \cup {NoTier}] /\ listing \in [Keys -> Tiers \cup {NoTier}]
    BY DEF Init, NoListing
  <2>8. migrated \in BOOLEAN /\ holder \in Procs \cup {NoProc}
    BY DEF Init
  <2>9. crashes \in 0..MaxCrashes
    <3>1. MaxCrashes \in Nat /\ crashes = 0
      BY VaultAssumption DEF Init
    <3> QED
      BY <3>1
  <2> QED
    BY <2>1, <2>2, <2>3, <2>4, <2>5, <2>6, <2>7, <2>8, <2>9 DEF TypeInv, TypeOK, LockInv, Mutating
<1> QED
  BY <1>1, TypeStep, PTL DEF Spec

\* Every variable of Vault keeps its type, for any processes and keys.
THEOREM VaultTypeCorrect == Spec => []TypeOK
BY TypeHolds, PTL DEF TypeInv

-----------------------------------------------------------------------------

LEMMA SealStep == TypeInv /\ SealInv /\ [Next]_vars => SealInv'
<1> SUFFICES ASSUME TypeInv, SealInv, [Next]_vars, NEW q \in Procs, pc'[q] = "locked"
             PROVE  sealed' \in {NoKey, crypt'[q]}
  BY DEF SealInv, Decrypts
<1> DEFINE G == sealed' \in {NoKey, crypt'[q]}
<1> USE DEF TypeInv, TypeOK, LockInv, SealInv, Decrypts, Mutating, disk
<1>1. UNCHANGED vars => G
  BY DEF vars
<1>2. ASSUME NEW p \in Procs PROVE Start(p) => G
  BY DEF Start
<1>3. ASSUME NEW p \in Procs PROVE LoadSalt(p) => G
  BY DEF LoadSalt
<1>4. ASSUME NEW p \in Procs PROVE WriteSalt(p) => G
  BY DEF WriteSalt
<1>5. ASSUME NEW p \in Procs PROVE ReadForMigration(p) => G
  BY DEF ReadForMigration
<1>6. ASSUME NEW p \in Procs PROVE WriteMigrated(p) => G
  BY DEF WriteMigrated
<1>7. ASSUME NEW p \in Procs PROVE WriteSecrets(p) => G
  BY DEF WriteSecrets
<1>8. ASSUME NEW p \in Procs PROVE WriteMeta(p) => G
  BY DEF WriteMeta
<1>9. ASSUME NEW p \in Procs PROVE List(p) => G
  BY DEF List
<1>10. ASSUME NEW p \in Procs PROVE Crash(p) => G
  BY DEF Crash
<1>11. ASSUME NEW p \in Procs, NEW o \in Ops PROVE Begin(p, o) => G
  BY DEF Begin, Opens
<1> HIDE DEF G
<1>12. G
  BY <1>1, <1>2, <1>3, <1>4, <1>5, <1>6, <1>7, <1>8, <1>9, <1>10, <1>11, Cases
<1> QED
  BY <1>12 DEF G

LEMMA SealHolds == Spec => []SealInv
<1>1. Init => SealInv
  BY DEF Init, SealInv
<1> QED
  BY <1>1, TypeHolds, SealStep, PTL DEF Spec

\* A process with another passphrase or salt never replaces the secrets file.
THEOREM VaultStaysSealed == Spec => SealIsKept
<1>1. SealInv /\ [Next]_vars => [sealed = NoKey \/ sealed' = sealed]_vars
  <2> SUFFICES ASSUME SealInv, [Next]_vars PROVE sealed = NoKey \/ sealed' = sealed \/ UNCHANGED vars
    OBVIOUS
  <2>1. ASSUME NEW p \in Procs, WriteSecrets(p) PROVE sealed = NoKey \/ sealed' = sealed
    BY <2>1 DEF WriteSecrets, SealInv, Decrypts
  <2>2. ASSUME NEW p \in Procs, NEW o \in Ops, Begin(p, o) PROVE sealed' = sealed
    BY <2>2 DEF Begin, disk
  <2> QED
    BY <2>1, <2>2 DEF Next, Step, Start, LoadSalt, WriteSalt, ReadForMigration,
       WriteMigrated, WriteMeta, List, Crash, disk
<1> QED
  BY <1>1, SealHolds, PTL DEF Spec, SealIsKept

\* list_keys() returns the keys and tiers of one moment.
THEOREM ListingIsOneMoment == Spec => ListsOneMoment
<1> DEFINE Good == listing' # listing =>
              listing' = [k \in Keys |-> IF Value[k] = NoValue THEN NoTier ELSE Tier[k]]
<1>1. TypeInv /\ [Next]_vars => [Good]_vars
  <2> SUFFICES ASSUME TypeInv, [Next]_vars, listing' # listing PROVE Good
    OBVIOUS
  <2>1. PICK p \in Procs : List(p)
    BY DEF Next, Step, Start, LoadSalt, WriteSalt, ReadForMigration, WriteMigrated,
       WriteSecrets, WriteMeta, Crash, Begin, vars
  <2>2. holder = NoProc
    BY <2>1 DEF List, MayRead, LockFree
  <2>3. Value = secrets
    BY <2>2, VaultAssumption DEF Value, TypeInv, LockInv, Mutating
  <2> QED
    BY <2>1, <2>3 DEF List, Tier
<1> QED
  BY <1>1, TypeHolds, PTL DEF Spec, ListsOneMoment

-----------------------------------------------------------------------------
(* The refinement of VaultMap.                                             *)

\* How a call changes the secrets from v to w.
Changes(o, v, w) ==
    /\ o.kind = "put" => w = [v EXCEPT ![o.key] = o.value]
    /\ o.kind = "delete" => v[o.key] # NoValue /\ w = [v EXCEPT ![o.key] = NoValue]
    /\ o.kind = "set" => w = v

\* The secrets file and the copy are the two sides of the call.
MidInv ==
    \A p \in Procs :
        /\ pc[p] = "locked" => Changes(op[p], secrets, copy[p])
        /\ pc[p] = "half" => Changes(op[p], copy[p], secrets)

\* While there is no metadata one process is at work, and it changes no secret.
SetupInv ==
    /\ ~migrated => /\ meta = NoListing
                    /\ \A p, q \in Procs : pc[p] # "down" /\ pc[q] # "down" => p = q
    /\ \A p \in Procs :
          /\ pc[p] = "ready" \/ Mutating(p) => migrated
          /\ pc[p] = "migrating" => ~migrated /\ copy[p] \in {secrets, Empty}

MapInv == TypeInv /\ MidInv /\ SetupInv

LEMMA MidStep == TypeInv /\ MidInv /\ [Next]_vars => MidInv'
<1> SUFFICES ASSUME TypeInv, MidInv, [Next]_vars, NEW q \in Procs
             PROVE  /\ pc'[q] = "locked" => Changes(op'[q], secrets', copy'[q])
                    /\ pc'[q] = "half" => Changes(op'[q], copy'[q], secrets')
  BY DEF MidInv, Changes
<1> DEFINE G == /\ pc'[q] = "locked" => Changes(op'[q], secrets', copy'[q])
                /\ pc'[q] = "half" => Changes(op'[q], copy'[q], secrets')
<1> USE DEF TypeInv, TypeOK, LockInv, MidInv, Mutating, disk
<1>1. UNCHANGED vars => G
  BY DEF vars
<1>2. ASSUME NEW p \in Procs PROVE Start(p) => G
  BY DEF Start
<1>3. ASSUME NEW p \in Procs PROVE LoadSalt(p) => G
  BY DEF LoadSalt
<1>4. ASSUME NEW p \in Procs PROVE WriteSalt(p) => G
  BY DEF WriteSalt
<1>5. ASSUME NEW p \in Procs PROVE ReadForMigration(p) => G
  BY DEF ReadForMigration
<1>6. ASSUME NEW p \in Procs PROVE WriteMigrated(p) => G
  BY DEF WriteMigrated
<1>7. ASSUME NEW p \in Procs PROVE WriteSecrets(p) => G
  BY DEF WriteSecrets
<1>8. ASSUME NEW p \in Procs PROVE WriteMeta(p) => G
  BY DEF WriteMeta
<1>9. ASSUME NEW p \in Procs PROVE List(p) => G
  BY DEF List
<1>10. ASSUME NEW p \in Procs PROVE Crash(p) => G
  BY DEF Crash
<1>11. ASSUME NEW p \in Procs, NEW o \in Ops, Begin(p, o) PROVE G
  <2>1. ~Mutating(p) /\ \A r \in Procs : ~Mutating(r)
    BY <1>11, VaultAssumption DEF Begin, LockFree
  <2>2. CASE q = p
    BY <1>11, <2>2, OpFields DEF Begin, Opens, Changes
  <2>3. CASE q # p
    BY <1>11, <2>1, <2>3 DEF Begin
  <2> QED
    BY <2>2, <2>3
<1> HIDE DEF G
<1>12. G
  BY <1>1, <1>2, <1>3, <1>4, <1>5, <1>6, <1>7, <1>8, <1>9, <1>10, <1>11, Cases
<1> QED
  BY <1>12 DEF G

LEMMA SetupStep ==
    ASSUME LoneFirstStart, TypeInv, SetupInv, [Next]_vars
    PROVE  SetupInv'
<1> USE DEF TypeInv, TypeOK, LockInv, SetupInv, Mutating, disk
<1>1. UNCHANGED vars => SetupInv'
  BY DEF vars
<1>2. ASSUME NEW p \in Procs PROVE Start(p) => SetupInv'
  BY DEF Start
<1>3. ASSUME NEW p \in Procs PROVE LoadSalt(p) => SetupInv'
  BY DEF LoadSalt
<1>4. ASSUME NEW p \in Procs PROVE WriteSalt(p) => SetupInv'
  BY DEF WriteSalt
<1>5. ASSUME NEW p \in Procs PROVE ReadForMigration(p) => SetupInv'
  BY DEF ReadForMigration
<1>6. ASSUME NEW p \in Procs PROVE WriteMigrated(p) => SetupInv'
  BY DEF WriteMigrated
<1>7. ASSUME NEW p \in Procs PROVE WriteSecrets(p) => SetupInv'
  BY DEF WriteSecrets
<1>8. ASSUME NEW p \in Procs PROVE WriteMeta(p) => SetupInv'
  BY DEF WriteMeta
<1>9. ASSUME NEW p \in Procs PROVE List(p) => SetupInv'
  BY DEF List
<1>10. ASSUME NEW p \in Procs PROVE Crash(p) => SetupInv'
  BY DEF Crash
<1>11. ASSUME NEW p \in Procs, NEW o \in Ops PROVE Begin(p, o) => SetupInv'
  BY DEF Begin
<1> QED
  BY <1>1, <1>2, <1>3, <1>4, <1>5, <1>6, <1>7, <1>8, <1>9, <1>10, <1>11, Cases

LEMMA MapHolds == ASSUME LoneFirstStart PROVE Spec => []MapInv
<1>1. Init => MidInv /\ SetupInv
  BY DEF Init, MidInv, SetupInv, Mutating
<1>2. MapInv /\ [Next]_vars => MapInv'
  BY TypeStep, MidStep, SetupStep DEF MapInv
<1>3. Spec => []TypeInv
  BY TypeHolds
<1>4. TypeInv /\ MidInv /\ SetupInv <=> MapInv
  BY DEF MapInv
<1> QED
  BY <1>1, <1>2, <1>3, <1>4, PTL DEF Spec

ValueFacts ==
    /\ \A p \in Procs : pc[p] = "half" => Value = copy[p]
    /\ (\A p \in Procs : pc[p] # "half") => Value = secrets

LEMMA ValueIs == TypeInv => ValueFacts
BY DEF TypeInv, LockInv, Mutating, ValueFacts, Value

LEMMA ValueIsNext == TypeInv' => ValueFacts'
BY ValueIs, PTL

LEMMA ValueType == TypeInv => Value \in [Keys -> Values \cup {NoValue}]
<1> SUFFICES ASSUME TypeInv PROVE Value \in [Keys -> Values \cup {NoValue}]
  OBVIOUS
<1>1. CASE \A p \in Procs : pc[p] # "half"
  BY <1>1, ValueIs DEF ValueFacts, TypeInv, TypeOK
<1>2. ASSUME NEW p \in Procs, pc[p] = "half" PROVE Value \in [Keys -> Values \cup {NoValue}]
  BY <1>2, ValueIs DEF ValueFacts, TypeInv, TypeOK
<1> QED
  BY <1>1, <1>2

LEMMA InitMap == Init /\ TypeInv => Map!Init
<1> SUFFICES ASSUME Init, TypeInv PROVE Map!Init
  OBVIOUS
<1>1. Value = secrets
  BY ValueIs DEF ValueFacts, Init
<1>2. Tier = [k \in Keys |-> IF Value[k] = NoValue THEN NoTier ELSE "weak"]
  BY DEF Init, NoListing, Tier
<1> QED
  BY <1>1, <1>2 DEF Map!Init, TypeInv, TypeOK

\* A step that begins and ends no mutation, and changes no file.
LEMMA StutterMap ==
    ASSUME TypeInv, TypeInv', meta' = meta, secrets' = secrets,
           \A q \in Procs : /\ pc[q] = "half" <=> pc'[q] = "half"
                            /\ pc[q] = "half" => copy'[q] = copy[q]
    PROVE  UNCHANGED <<Value, Tier>>
<1>1. Value' = Value
  <2>1. CASE \A q \in Procs : pc[q] # "half"
    BY <2>1, ValueIs, ValueIsNext DEF ValueFacts
  <2>2. ASSUME NEW q \in Procs, pc[q] = "half" PROVE Value' = Value
    BY <2>2, ValueIs, ValueIsNext DEF ValueFacts
  <2> QED
    BY <2>1, <2>2
<1> QED
  BY <1>1 DEF Tier

LEMMA BeginMap ==
    ASSUME MapInv, TypeInv', NEW p \in Procs, NEW o \in Ops, Begin(p, o)
    PROVE  UNCHANGED <<Value, Tier>>
<1> USE DEF MapInv, TypeInv, TypeOK, disk
<1>1. \A q \in Procs : pc[q] # "half"
  BY VaultAssumption DEF Begin, LockFree, LockInv, Mutating
<1>2. Value = secrets
  BY <1>1, ValueIs DEF ValueFacts
<1>3. Value' = secrets
  <2>1. CASE o.kind = "set"
    <3>1. pc'[p] = "half" /\ copy'[p] = secrets
      BY <2>1 DEF Begin
    <3> QED
      BY <3>1, ValueIsNext DEF ValueFacts
  <2>2. CASE o.kind # "set"
    <3>1. \A q \in Procs : pc'[q] # "half"
      BY <2>2, <1>1 DEF Begin
    <3> QED
      BY <3>1, ValueIsNext DEF ValueFacts, Begin
  <2> QED
    BY <2>1, <2>2
<1> QED
  BY <1>2, <1>3 DEF Tier, Begin

LEMMA WriteSecretsMap ==
    ASSUME MapInv, TypeInv', NEW p \in Procs, WriteSecrets(p)
    PROVE  UNCHANGED <<Value, Tier>>
<1> USE DEF MapInv, TypeInv, TypeOK
<1>1. \A q \in Procs : pc[q] # "half"
  BY DEF WriteSecrets, LockInv, Mutating
<1>2. Value = secrets
  BY <1>1, ValueIs DEF ValueFacts
<1>3. Value' = secrets
  BY ValueIsNext DEF WriteSecrets, ValueFacts
<1> QED
  BY <1>2, <1>3 DEF Tier, WriteSecrets

\* The metadata made from the secrets say what missing metadata say.
LEMMA WriteMigratedMap ==
    ASSUME MapInv, TypeInv', NEW p \in Procs, WriteMigrated(p)
    PROVE  UNCHANGED <<Value, Tier>>
<1> USE DEF MapInv, TypeInv, TypeOK
<1>1. meta = NoListing /\ copy[p] \in {secrets, Empty}
  BY DEF WriteMigrated, SetupInv
<1>2. \A q \in Procs : pc[q] # "half" /\ pc'[q] # "half"
  BY DEF WriteMigrated, SetupInv, Mutating
<1>3. Value = secrets /\ Value' = secrets
  BY <1>2, ValueIs, ValueIsNext DEF ValueFacts, WriteMigrated
<1>4. \A k \in Keys :
         /\ meta[k] = NoTier
         /\ meta'[k] \in {"weak", NoTier}
         /\ meta'[k] = "weak" => secrets[k] # NoValue
  <2> SUFFICES ASSUME NEW k \in Keys
               PROVE  /\ meta[k] = NoTier
                      /\ meta'[k] \in {"weak", NoTier}
                      /\ meta'[k] = "weak" => secrets[k] # NoValue
    OBVIOUS
  <2>1. meta[k] = NoTier
    BY <1>1 DEF NoListing
  <2>2. meta'[k] = IF copy[p][k] # NoValue THEN "weak" ELSE NoTier
    BY DEF WriteMigrated
  <2>3. copy[p][k] # NoValue => secrets[k] # NoValue
    BY <1>1 DEF Empty
  <2> QED
    BY <2>1, <2>2, <2>3, VaultAssumption DEF Tiers
<1> QED
  BY <1>3, <1>4 DEF Tier

\* The second file is written: the call takes place.
LEMMA WriteMetaMap ==
    ASSUME MapInv, TypeInv', NEW p \in Procs, WriteMeta(p)
    PROVE  Map!Next
<1> USE DEF MapInv, TypeInv, TypeOK
<1> DEFINE o == op[p]
           k == op[p].key
<1>1. o \in Ops /\ Changes(o, copy[p], secrets)
  BY DEF WriteMeta, LockInv, Mutating, MidInv
<1>2. k \in Keys
  BY <1>1, OpFields
<1>3. \A q \in Procs : pc'[q] # "half"
  BY DEF WriteMeta, LockInv, Mutating
<1>4. Value = copy[p] /\ Value' = secrets
  BY <1>3, ValueIs, ValueIsNext DEF ValueFacts, WriteMeta
<1>5. /\ Value \in [Keys -> Values \cup {NoValue}]
      /\ meta \in [Keys -> Tiers \cup {NoTier}]
  BY ValueType
<1>6. meta' = [meta EXCEPT ![k] = NewTier(o)]
  BY DEF WriteMeta
<1>7. Changes(o, Value, Value')
  BY <1>1, <1>4
<1>8. NoTier \notin Tiers /\ "weak" \in Tiers /\ NoValue \notin Values
  BY VaultAssumption DEF Tiers
<1> HIDE DEF o, k
<1>9. CASE o.kind = "put"
  <2>1. o.value \in Values /\ o.tier \in Tiers \cup {NoTier}
    BY <1>9, <1>1, OpFields
  <2>2. Value' = [Value EXCEPT ![k] = o.value]
    BY <1>7, <1>9 DEF Changes, k, o
  <2>3. NewTier(o) = IF o.tier # NoTier THEN o.tier ELSE IF meta[k] = NoTier THEN "weak" ELSE meta[k]
    BY <1>9 DEF NewTier, k, o
  <2>4. Tier' = [Tier EXCEPT ![k] =
                   IF o.tier # NoTier THEN o.tier ELSE IF @ # NoTier THEN @ ELSE "weak"]
    BY <1>2, <1>5, <1>6, <1>8, <2>1, <2>2, <2>3 DEF Tier
  <2> QED
    BY <1>2, <2>1, <2>2, <2>4 DEF Map!Next, Map!Put
<1>10. CASE o.kind = "delete"
  <2>1. Value[k] # NoValue /\ Value' = [Value EXCEPT ![k] = NoValue]
    BY <1>7, <1>10 DEF Changes, k, o
  <2>2. NewTier(o) = NoTier
    BY <1>10 DEF NewTier
  <2>3. Tier' = [Tier EXCEPT ![k] = NoTier]
    BY <1>2, <1>5, <1>6, <2>1, <2>2 DEF Tier
  <2> QED
    BY <1>2, <2>1, <2>3 DEF Map!Next, Map!Delete
<1>11. CASE o.kind = "set"
  <2>1. o.tier \in Tiers /\ Value' = Value
    BY <1>1, <1>7, <1>11, OpFields DEF Changes
  <2>2. NewTier(o) = o.tier
    BY <1>11 DEF NewTier
  <2>3. Tier' = [Tier EXCEPT ![k] = o.tier]
    BY <1>2, <1>5, <1>6, <1>8, <2>1, <2>2 DEF Tier
  <2> QED
    BY <1>2, <2>1, <2>3 DEF Map!Next, Map!SetTier
<1> QED
  BY <1>1, <1>9, <1>10, <1>11, OpFields

\* A process is killed: between the two files, the call is torn.
LEMMA CrashMap ==
    ASSUME MapInv, TypeInv', NEW p \in Procs, Crash(p)
    PROVE  Map!Next \/ UNCHANGED <<Value, Tier>>
<1> USE DEF MapInv, TypeInv, TypeOK, disk
<1>1. CASE pc[p] # "half"
  BY <1>1, StutterMap DEF Crash
<1>2. CASE pc[p] = "half"
  <2> DEFINE o == op[p]
             k == op[p].key
  <2>1. o \in Ops /\ Changes(o, copy[p], secrets)
    BY <1>2 DEF LockInv, Mutating, MidInv
  <2>2. k \in Keys
    BY <2>1, OpFields
  <2>3. \A q \in Procs : pc'[q] # "half"
    BY <1>2 DEF Crash, LockInv, Mutating
  <2>4. Value = copy[p] /\ Value' = secrets /\ meta' = meta
    BY <1>2, <2>3, ValueIs, ValueIsNext DEF ValueFacts, Crash
  <2>5. Value \in [Keys -> Values \cup {NoValue}] /\ secrets[k] \in Values \cup {NoValue}
    BY <2>2, ValueType
  <2>6. Value' = [Value EXCEPT ![k] = secrets[k]]
    <3>1. CASE o.kind = "put"
      BY <3>1, <2>1, <2>2, <2>4, <2>5 DEF Changes
    <3>2. CASE o.kind = "delete"
      BY <3>2, <2>1, <2>2, <2>4, <2>5 DEF Changes
    <3>3. CASE o.kind = "set"
      BY <3>3, <2>1, <2>2, <2>4, <2>5 DEF Changes
    <3> QED
      BY <3>1, <3>2, <3>3, <2>1, OpFields
  <2>7. meta[k] \in {"weak", "strong", NoTier}
    BY <2>2 DEF Tiers
  <2> HIDE DEF o, k
  <2>8. Tier' = [Tier EXCEPT ![k] = Tier'[k]]
    BY <2>2, <2>4, <2>5, <2>6 DEF Tier
  <2>9. Tier'[k] \in IF Tier[k] = "strong" THEN {"strong"} ELSE {"weak", NoTier}
    BY <2>2, <2>4, <2>7, VaultAssumption DEF Tier, Tiers
  <2>10. Map!Torn(k, secrets[k])
    BY <2>6, <2>8, <2>9 DEF Map!Torn
  <2> QED
    BY <2>2, <2>5, <2>10 DEF Map!Next
<1> QED
  BY <1>1, <1>2

LEMMA MapStep ==
    ASSUME MapInv, TypeInv', [Next]_vars
    PROVE  Map!Next \/ UNCHANGED <<Value, Tier>>
<1> DEFINE G == Map!Next \/ UNCHANGED <<Value, Tier>>
<1> USE DEF MapInv, TypeInv, TypeOK, disk
<1>1. UNCHANGED vars => G
  BY StutterMap DEF vars
<1>2. ASSUME NEW p \in Procs, Start(p) PROVE G
  BY <1>2, StutterMap DEF Start
<1>3. ASSUME NEW p \in Procs, LoadSalt(p) PROVE G
  BY <1>3, StutterMap DEF LoadSalt
<1>4. ASSUME NEW p \in Procs, WriteSalt(p) PROVE G
  BY <1>4, StutterMap DEF WriteSalt
<1>5. ASSUME NEW p \in Procs, ReadForMigration(p) PROVE G
  <2>1. ASSUME NEW q \in Procs
        PROVE  /\ pc[q] = "half" <=> pc'[q] = "half"
               /\ pc[q] = "half" => copy'[q] = copy[q]
    <3>1. CASE q = p
      BY <1>5, <3>1 DEF ReadForMigration
    <3>2. CASE q # p
      BY <1>5, <3>2 DEF ReadForMigration
    <3> QED
      BY <3>1, <3>2
  <2> QED
    BY <1>5, <2>1, StutterMap DEF ReadForMigration
<1>6. ASSUME NEW p \in Procs, List(p) PROVE G
  BY <1>6, StutterMap DEF List
<1> HIDE DEF G
<1>7. \A p \in Procs :
         /\ WriteMigrated(p) => G
         /\ WriteSecrets(p) => G
         /\ WriteMeta(p) => G
         /\ Crash(p) => G
         /\ \A o \in Ops : Begin(p, o) => G
  BY WriteMigratedMap, WriteSecretsMap, WriteMetaMap, CrashMap, BeginMap DEF G
<1>8. G
  BY <1>1, <1>2, <1>3, <1>4, <1>5, <1>6, <1>7, Cases
<1> QED
  BY <1>8 DEF G

\* When nobody else runs while a vault is set up, the two files are one map
\* that every call changes in a single step, whoever else calls or crashes.
THEOREM VaultMapIsKept == ASSUME LoneFirstStart PROVE Spec => KeepsVaultMap
<1>1. Init /\ TypeInv => Map!Init
  BY InitMap
<1>2. MapInv /\ TypeInv' /\ [Next]_vars => [Map!Next]_(Map!vars)
  BY MapStep DEF Map!vars
<1>3. Spec => []MapInv
  BY MapHolds
<1>4. MapInv => TypeInv
  BY DEF MapInv
<1> QED
  BY <1>1, <1>2, <1>3, <1>4, PTL DEF Spec, KeepsVaultMap, Map!Spec

=============================================================================

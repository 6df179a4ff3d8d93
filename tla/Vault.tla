------------------------------- MODULE Vault --------------------------------
(***************************************************************************)
(* The credential vault: VaultStore over its files, used by the processes  *)
(* that run the vault extension.  Two of them overlap when a new claude-ext *)
(* starts before the old one has shut down.                                *)
(*                                                                         *)
(* A mutation takes the exclusive lock, decrypts the secrets, replaces     *)
(* their file, then replaces the metadata file, and releases the lock; a   *)
(* crash may fall before each of those steps, and frees the lock.  Opening *)
(* the vault makes the salt and migrates the metadata without that lock.   *)
(***************************************************************************)
EXTENDS Naturals

CONSTANTS
    Procs, Keys, Values,
    Passphrases,        \* what the environment variable or the file may hold
    NoValue, NoTier, NoProc, NoSalt, NoKey, NoOp,
    MaxCrashes,         \* crashes in a behaviour
    LoneFirstStart      \* TRUE: nobody else runs while a new vault is set up

Tiers == {"weak", "strong"}

ASSUME VaultAssumption ==
    /\ MaxCrashes \in Nat
    /\ LoneFirstStart \in BOOLEAN
    /\ NoProc \notin Procs /\ NoValue \notin Values /\ NoTier \notin Tiers
    /\ NoSalt \notin Procs /\ NoKey \notin Passphrases \X Procs

VARIABLES
    salt,       \* the salt file; a process that makes one makes its own
    sealed,     \* the key the secrets file is encrypted with, NoKey: no file
    secrets,    \* its contents
    meta,       \* key_metadata.json: the tier of each key
    migrated,   \* key_metadata.json exists
    holder,     \* of the exclusive lock
    pc,         \* of each process
    crypt,      \* of each process: its Fernet key
    op,         \* of each process: the call it is executing
    copy,       \* of each process: the secrets it will write, or has replaced
    listing,    \* history: what the last list_keys() returned
    crashes     \* number of crashes, bounded by MaxCrashes

vars == <<salt, sealed, secrets, meta, migrated, holder, pc, crypt, op, copy, listing, crashes>>
disk == <<salt, sealed, secrets, meta, migrated>>

Stages == {"down", "opening", "salting", "salted", "migrating", "ready", "locked", "half"}
Empty == [k \in Keys |-> NoValue]
NoListing == [k \in Keys |-> NoTier]

\* The calls that change the vault.
Ops ==
    [kind : {"put"}, key : Keys, value : Values, tier : Tiers \cup {NoTier}]
      \cup [kind : {"delete"}, key : Keys] \cup [kind : {"set"}, key : Keys, tier : Tiers]

CryptKeys == Passphrases \X (Procs \cup {NoSalt})

\* A new vault, or one from before there was metadata.
Init ==
    /\ \/ salt = NoSalt /\ sealed = NoKey /\ secrets = Empty
       \/ /\ salt \in Procs
          /\ \E w \in Passphrases : sealed = <<w, salt>>
          /\ secrets \in [Keys -> Values \cup {NoValue}]
    /\ meta = NoListing /\ migrated = FALSE
    /\ holder = NoProc
    /\ pc = [p \in Procs |-> "down"]
    /\ crypt = [p \in Procs |-> NoKey]
    /\ op = [p \in Procs |-> NoOp]
    /\ copy = [p \in Procs |-> Empty]
    /\ listing = NoListing /\ crashes = 0

TypeOK ==
    /\ salt \in Procs \cup {NoSalt} /\ sealed \in CryptKeys \cup {NoKey}
    /\ secrets \in [Keys -> Values \cup {NoValue}]
    /\ meta \in [Keys -> Tiers \cup {NoTier}] /\ migrated \in BOOLEAN
    /\ holder \in Procs \cup {NoProc}
    /\ pc \in [Procs -> Stages]
    /\ crypt \in [Procs -> CryptKeys \cup {NoKey}]
    /\ op \in [Procs -> Ops \cup {NoOp}]
    /\ copy \in [Procs -> [Keys -> Values \cup {NoValue}]]
    /\ listing \in [Keys -> Tiers \cup {NoTier}]
    /\ crashes \in 0..MaxCrashes

-----------------------------------------------------------------------------
(* Opening the vault: VaultStore.__init__.                                 *)

Start(p) ==
    /\ pc[p] = "down"
    /\ LoneFirstStart /\ (salt = NoSalt \/ ~migrated)
         => \A q \in Procs : pc[q] = "down"
    /\ pc' = [pc EXCEPT ![p] = "opening"]
    /\ UNCHANGED <<disk, holder, crypt, op, copy, listing, crashes>>

\* The passphrase is read, and the salt: a process that finds none makes one.
LoadSalt(p) ==
    /\ pc[p] = "opening"
    /\ \E w \in Passphrases :
          crypt' = [crypt EXCEPT ![p] = <<w, IF salt = NoSalt THEN p ELSE salt>>]
    /\ pc' = [pc EXCEPT ![p] = IF salt = NoSalt THEN "salting" ELSE "salted"]
    /\ UNCHANGED <<disk, holder, op, copy, listing, crashes>>

WriteSalt(p) ==
    /\ pc[p] = "salting"
    /\ salt' = p
    /\ pc' = [pc EXCEPT ![p] = "salted"]
    /\ UNCHANGED <<sealed, secrets, meta, migrated, holder, crypt, op, copy, listing, crashes>>

\* _decrypt_file: a missing file is an empty vault, and another key an error.
Decrypts(p) == sealed \in {NoKey, crypt[p]}

\* Metadata that is missing is made from the secrets, read under the shared
\* lock, or from nothing if they cannot be decrypted.
ReadForMigration(p) ==
    /\ pc[p] = "salted"
    /\ \/ migrated /\ pc' = [pc EXCEPT ![p] = "ready"] /\ UNCHANGED copy
       \/ /\ ~migrated /\ holder = NoProc
          /\ pc' = [pc EXCEPT ![p] = "migrating"]
          /\ copy' = [copy EXCEPT ![p] = IF Decrypts(p) THEN secrets ELSE Empty]
    /\ UNCHANGED <<disk, holder, crypt, op, listing, crashes>>

WriteMigrated(p) ==
    /\ pc[p] = "migrating"
    /\ meta' = [k \in Keys |-> IF copy[p][k] # NoValue THEN "weak" ELSE NoTier]
    /\ migrated' = TRUE
    /\ copy' = [copy EXCEPT ![p] = Empty]
    /\ pc' = [pc EXCEPT ![p] = "ready"]
    /\ UNCHANGED <<salt, sealed, secrets, holder, crypt, op, listing, crashes>>

-----------------------------------------------------------------------------
(* The calls.                                                              *)

\* Mutants: no lock is taken; the secrets are not decrypted before a write.
LockFree_Unlocked == TRUE
Opens_Blind(p, o) == o.kind = "delete" => secrets[o.key] # NoValue

LockFree == holder = NoProc

\* A call that is not refused at once: set_metadata reads no secret, and
\* delete does nothing to a key that has none.
Opens(p, o) ==
    /\ o.kind # "set" => Decrypts(p)
    /\ o.kind = "delete" => secrets[o.key] # NoValue

\* The exclusive lock is taken and the secrets are read.
Begin(p, o) ==
    /\ pc[p] = "ready"
    /\ LockFree
    /\ Opens(p, o)
    /\ holder' = p
    /\ op' = [op EXCEPT ![p] = o]
    /\ copy' = [copy EXCEPT ![p] =
                  CASE o.kind = "put" -> [secrets EXCEPT ![o.key] = o.value]
                    [] o.kind = "delete" -> [secrets EXCEPT ![o.key] = NoValue]
                    [] o.kind = "set" -> secrets]
    /\ pc' = [pc EXCEPT ![p] = IF o.kind = "set" THEN "half" ELSE "locked"]
    /\ UNCHANGED <<disk, crypt, listing, crashes>>

\* _encrypt_and_write: a new file replaces the old one, of which the process
\* keeps a copy here for the refinement only.
WriteSecrets(p) ==
    /\ pc[p] = "locked"
    /\ secrets' = copy[p]
    /\ sealed' = crypt[p]
    /\ copy' = [copy EXCEPT ![p] = secrets]
    /\ pc' = [pc EXCEPT ![p] = "half"]
    /\ UNCHANGED <<salt, meta, migrated, holder, crypt, op, listing, crashes>>

\* The tier a call leaves its key with.
NewTier(o) ==
    CASE o.kind = "delete" -> NoTier
      [] o.kind = "set" -> o.tier
      [] o.kind = "put" -> IF o.tier # NoTier THEN o.tier
                           ELSE IF meta[o.key] = NoTier THEN "weak" ELSE meta[o.key]

WriteMeta(p) ==
    /\ pc[p] = "half"
    /\ meta' = [meta EXCEPT ![op[p].key] = NewTier(op[p])]
    /\ migrated' = TRUE
    /\ holder' = NoProc
    /\ op' = [op EXCEPT ![p] = NoOp]
    /\ copy' = [copy EXCEPT ![p] = Empty]
    /\ pc' = [pc EXCEPT ![p] = "ready"]
    /\ UNCHANGED <<salt, sealed, secrets, crypt, listing, crashes>>

\* Mutant: the two files are read under no lock.
MayRead_Unlocked(p) == pc[p] = "ready" /\ Decrypts(p)

MayRead(p) == pc[p] = "ready" /\ LockFree /\ Decrypts(p)

\* list_keys() reads both files under the shared lock.
List(p) ==
    /\ MayRead(p)
    /\ listing' = [k \in Keys |-> IF secrets[k] = NoValue THEN NoTier
                                  ELSE IF meta[k] = NoTier THEN "weak" ELSE meta[k]]
    /\ UNCHANGED <<disk, holder, pc, crypt, op, copy, crashes>>

Crash(p) ==
    /\ pc[p] # "down" /\ crashes < MaxCrashes
    /\ crashes' = crashes + 1
    /\ pc' = [pc EXCEPT ![p] = "down"]
    /\ holder' = IF holder = p THEN NoProc ELSE holder
    /\ crypt' = [crypt EXCEPT ![p] = NoKey]
    /\ op' = [op EXCEPT ![p] = NoOp]
    /\ copy' = [copy EXCEPT ![p] = Empty]
    /\ UNCHANGED <<disk, listing>>

Step(p) ==
    \/ LoadSalt(p) \/ WriteSalt(p) \/ ReadForMigration(p) \/ WriteMigrated(p)
    \/ WriteSecrets(p) \/ WriteMeta(p)

Next == \E p \in Procs : Start(p) \/ Step(p) \/ List(p) \/ Crash(p) \/ \E o \in Ops : Begin(p, o)

Spec == Init /\ [][Next]_vars

-----------------------------------------------------------------------------
(* Properties.                                                             *)

\* What the vault holds: while a mutation is between its two files, what it
\* held before.
Value == IF \E p \in Procs : pc[p] = "half"
           THEN copy[CHOOSE p \in Procs : pc[p] = "half"] ELSE secrets

\* A secret without metadata counts as weak.
Tier == [k \in Keys |-> IF meta[k] = NoTier /\ Value[k] # NoValue THEN "weak" ELSE meta[k]]

Map == INSTANCE VaultMap WITH value <- Value, tier <- Tier

\* put, delete and set_metadata are atomic over the two files, whatever
\* processes call them and wherever one is killed: no call is lost or half
\* visible, but for the value of the one key whose call was killed between
\* the two files.
KeepsVaultMap == Map!Spec

\* A process that has another passphrase, or another salt, than the one that
\* wrote the secrets never replaces their file.
SealIsKept == [][sealed = NoKey \/ sealed' = sealed]_vars

\* What list_keys returns are the keys and tiers of one moment, not of two.
ListsOneMoment ==
    [][listing' # listing =>
         listing' = [k \in Keys |-> IF Value[k] = NoValue THEN NoTier ELSE Tier[k]]]_vars

=============================================================================

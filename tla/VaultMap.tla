------------------------------ MODULE VaultMap ------------------------------
(***************************************************************************)
(* What the vault promises: two maps, one from keys to secret values and   *)
(* one from keys to protection tiers, which every call changes in one      *)
(* step.  A call that a crash cuts short is one step too, and the worst it *)
(* does is to change the value of its key and not the tier.  A vault from  *)
(* before there were tiers has its secrets at the weak one.                *)
(***************************************************************************)
CONSTANTS Keys, Values, Tiers, NoValue, NoTier

VARIABLES value, tier

vars == <<value, tier>>

Init ==
    /\ value \in [Keys -> Values \cup {NoValue}]
    /\ tier = [k \in Keys |-> IF value[k] = NoValue THEN NoTier ELSE "weak"]

\* A secret is stored; without a tier it keeps the one of its key.
Put(k, v, t) ==
    /\ value' = [value EXCEPT ![k] = v]
    /\ tier' = [tier EXCEPT ![k] =
                   IF t # NoTier THEN t ELSE IF @ # NoTier THEN @ ELSE "weak"]

Delete(k) ==
    /\ value[k] # NoValue
    /\ value' = [value EXCEPT ![k] = NoValue]
    /\ tier' = [tier EXCEPT ![k] = NoTier]

SetTier(k, t) == tier' = [tier EXCEPT ![k] = t] /\ UNCHANGED value

\* A crash in the middle of a Put or a Delete: what was strong is strong.
Torn(k, v) ==
    /\ value' = [value EXCEPT ![k] = v]
    /\ \E t \in IF tier[k] = "strong" THEN {"strong"} ELSE {"weak", NoTier} :
          tier' = [tier EXCEPT ![k] = t]

Next == \E k \in Keys :
            \/ Delete(k)
            \/ \E t \in Tiers : SetTier(k, t)
            \/ \E v \in Values : \E t \in Tiers \cup {NoTier} : Put(k, v, t)
            \/ \E v \in Values \cup {NoValue} : Torn(k, v)

Spec == Init /\ [][Next]_vars
=============================================================================

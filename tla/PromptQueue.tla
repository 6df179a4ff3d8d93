---------------------------- MODULE PromptQueue -----------------------------
(***************************************************************************)
(* What SessionManager promises its callers, without coroutines, files or  *)
(* tmux: prompts are worked on one at a time in the order they were        *)
(* accepted, and each is decided once and for all.                         *)
(***************************************************************************)
EXTENDS Naturals, Sequences, Functions

CONSTANTS Prompts, NoPrompt

VARIABLES
    open,       \* the session exists
    waiting,    \* accepted prompts, oldest first
    current,    \* the prompt being worked on
    fate        \* what became of each prompt

vars == <<open, waiting, current, fate>>

Decisions == {"completed", "timeout", "stopped"}
Fates == {"unsent", "waiting", "running", "dropped"} \cup Decisions

Init ==
    /\ open = TRUE
    /\ waiting = <<>>
    /\ current = NoPrompt
    /\ fate = [p \in Prompts |-> "unsent"]

Submit(p) ==
    /\ open
    /\ fate[p] = "unsent"
    /\ waiting' = Append(waiting, p)
    /\ fate' = [fate EXCEPT ![p] = "waiting"]
    /\ UNCHANGED <<open, current>>

Start ==
    /\ current = NoPrompt
    /\ waiting # <<>>
    /\ current' = Head(waiting)
    /\ waiting' = Tail(waiting)
    /\ fate' = [fate EXCEPT ![Head(waiting)] = "running"]
    /\ UNCHANGED open

Decide(decision) ==
    /\ current # NoPrompt
    /\ current' = NoPrompt
    /\ fate' = [fate EXCEPT ![current] = decision]
    /\ UNCHANGED <<open, waiting>>

\* The work on a prompt ends without a decision.
Fail ==
    /\ current # NoPrompt
    /\ current' = NoPrompt
    /\ fate' = [fate EXCEPT ![current] = "dropped"]
    /\ UNCHANGED <<open, waiting>>

\* The oldest prompt is refused: the session died while it waited.
Refuse ==
    /\ current = NoPrompt
    /\ waiting # <<>>
    /\ waiting' = Tail(waiting)
    /\ fate' = [fate EXCEPT ![Head(waiting)] = "dropped"]
    /\ UNCHANGED <<open, current>>

DropAll(S) == fate' = [p \in Prompts |-> IF p \in S THEN "dropped" ELSE fate[p]]

\* A stop cancels what waits; what runs is decided by its worker.
Drain ==
    /\ waiting' = <<>>
    /\ DropAll(Range(waiting))
    /\ UNCHANGED <<open, current>>

Close ==
    /\ open
    /\ open' = FALSE
    /\ waiting' = <<>>
    /\ current' = NoPrompt
    /\ DropAll(Range(waiting) \cup {current})

Next ==
    \/ \E p \in Prompts : Submit(p)
    \/ \E decision \in Decisions : Decide(decision)
    \/ Start \/ Fail \/ Refuse \/ Drain \/ Close

Spec == Init /\ [][Next]_vars
=============================================================================

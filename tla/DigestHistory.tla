--------------------------- MODULE DigestHistory ---------------------------
(***************************************************************************)
(* What digest generation promises to a reader of the digests of a scope   *)
(* and a day: every generation adds one version after the others, nothing  *)
(* already there is changed, and the digest that is shown moves only to a  *)
(* version that has just been completed.                                   *)
(***************************************************************************)
EXTENDS Naturals, Sequences

CONSTANT Scopes

VARIABLES
    history,   \* the versions of a scope, oldest first: "fresh" or "failed"
    shown      \* the versions marked current

vars == <<history, shown>>

Init ==
    /\ history = [s \in Scopes |-> <<>>]
    /\ shown   = [s \in Scopes |-> {}]

Complete(s) ==
    /\ history' = [history EXCEPT ![s] = Append(@, "fresh")]
    /\ shown'   = [shown EXCEPT ![s] = {Len(history[s]) + 1}]

GiveUp(s) ==
    /\ history' = [history EXCEPT ![s] = Append(@, "failed")]
    /\ UNCHANGED shown

Next == \E s \in Scopes : Complete(s) \/ GiveUp(s)

Spec == Init /\ [][Next]_vars
=============================================================================

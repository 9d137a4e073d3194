------------------------------ MODULE WorkPool ------------------------------
(***************************************************************************)
(* What every work-sharing scheme of the repository promises, whoever the  *)
(* workers are and however the work reaches them: each task of a fixed set *)
(* is carried out exactly Copies times.                                    *)
(*                                                                         *)
(* The only state is how often each task still has to be carried out.  No  *)
(* task may be carried out once too often (the safety part), and in the    *)
(* end nothing is left over (the liveness part).                           *)
(***************************************************************************)
EXTENDS Naturals

CONSTANTS Tasks,    \* the units of work
          Copies    \* how often each of them has to be carried out, a natural

VARIABLE remaining  \* how often each task still has to be carried out

Init == remaining = [t \in Tasks |-> Copies]

CarryOut(t) ==
  /\ remaining[t] > 0
  /\ remaining' = [remaining EXCEPT ![t] = @ - 1]

Next == \E t \in Tasks : CarryOut(t)

SafeSpec == Init /\ [][Next]_remaining

Spec == SafeSpec /\ WF_remaining(Next)
=============================================================================

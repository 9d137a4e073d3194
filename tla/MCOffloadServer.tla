-------------------------- MODULE MCOffloadServer ---------------------------
(* Small instances of OffloadServer for TLC.                               *)
EXTENDS OffloadServer, TLC

CONSTANTS c1, c2
MCCalls == {c1, c2}

\* Calls that differ in what they are worth, here and on the host.
MCLocal == (c1 :> 2) @@ (c2 :> 1)
MCRemote == (c1 :> 3) @@ (c2 :> 2)

Symmetry == Permutations(Threads) \cup Permutations(Objects)
=============================================================================

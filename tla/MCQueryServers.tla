--------------------------- MODULE MCQueryServers ---------------------------
EXTENDS QueryServers

\* In the batching programs the first client sends two requests and has a
\* polygon left over, and the second sends one; in the others they send two each.
MCFiles ==
  1 :> ("c1" :> <<"two", "none">> @@ "c2" :> <<"one", "one">>) @@
  2 :> ("c1" :> <<"two", "one", "none", "one", "one">> @@ "c2" :> <<"two", "none">>)
MCCandidates == [two |-> <<TRUE, FALSE>>, one |-> <<FALSE>>, none |-> <<>>]
=============================================================================

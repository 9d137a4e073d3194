--------------------------- MODULE MCStreamServer ---------------------------
EXTENDS StreamServer

\* Three calls of RecordRoute: the third may be given the address of the first.
\* The other rpcs are called together with one that shares nothing but the queue.
SmallMixes ==
  {<<"RecordRoute", "RecordRoute", "RecordRoute">>, <<"GetFeature", "GetFeature">>,
   <<"RouteChat", "ListFeatures">>}
SmallMessages == [r \in Rpcs |-> IF r = "RecordRoute" THEN 1 ELSE 2]
SmallAddresses == [r \in Rpcs |-> CASE r = "RecordRoute" -> 4 [] r = "GetFeature" -> 3 [] OTHER -> 2]
SmallAtOnce == [mix \in SmallMixes |-> IF Len(mix) = 3 THEN 1 ELSE 2]

\* The least address: those of deleted jobs are given again before any other.
LeastAddress(free) == {j \in free : \A k \in free : j[2] <= k[2]}
=============================================================================

----------------------------- MODULE RTreeJoin -----------------------------
(***************************************************************************)
(* The programs that keep geometries in an R-tree of GEOS and query it     *)
(* from threads: exp1_blocking_rtree, exp1_non_blocking_rtree, and the     *)
(* handlers of the DPU of exp2, which share one tree.                      *)
(*                                                                         *)
(* An STRtree is filled first and queried later: the first query builds    *)
(* it, and what is inserted then is ignored or corrupts it.  Its functions *)
(* take time, so calls on one tree overlap.  What an overlap does depends  *)
(* on the version of the library: two first queries build the tree at once *)
(* unless building is locked, an insertion next to anything is undefined.  *)
(* A first query of an empty tree builds it, or does not.                  *)
(*                                                                         *)
(* The trees hold envelopes: what the callback is given for an inserted    *)
(* geometry is its envelope, and intersectCount counts the geometries that *)
(* meet those.                                                             *)
(*                                                                         *)
(* Abstractions: a geometry is a set of points on a line; the maps are     *)
(* sequences in the order of their keys; times are not kept, only how many *)
(* are pushed.                                                             *)
(***************************************************************************)
EXTENDS Integers, Sequences, FiniteSets, FiniteSetsExt

CONSTANTS Geometries,  \* the geometries of the files
          Most,        \* at most how many a file has
          Every        \* how many intersections to a time pushed (100)

ASSUME RTreeAssumption ==
  /\ Geometries \subseteq SUBSET Int
  /\ \A g \in Geometries : \E lo, hi \in g : \A x \in g : lo <= x /\ x <= hi
  /\ Most \in Nat /\ Every \in Nat \ {0}

Threads == {"main", "thread1", "thread2"}

VARIABLES
  program, library,  \* which program runs with which library
  geoms,             \* the maps geomsBase and geomsQuery
  calls,             \* the calls on trees that each thread has before it
  now,               \* what each thread is doing
  trees,             \* treeBase (or tree) and treeQuery
  found,             \* the intersections found: a thread, an item, a geometry
  intersectCount, elapsedTimes,
  undefined          \* whether behaviour is undefined

vars == <<program, library, geoms, calls, now, trees, found, intersectCount, elapsedTimes, undefined>>
-----------------------------------------------------------------------------
\* The programs: which calls each thread makes -------------------------------

Insert(tree, i) == [op |-> "insert", tree |-> tree, of |-> tree, i |-> i]
Query(tree, of, i) == [op |-> "query", tree |-> tree, of |-> of, i |-> i]

Inserts(tree, maps) == [i \in DOMAIN maps[tree] |-> Insert(tree, i)]
Queries(tree, of, maps) == [i \in DOMAIN maps[of] |-> Query(tree, of, i)]

\* non_blocking_rtree_intersect: each geometry is inserted in one tree and then
\* looked for in the other.
Alternating(tree1, tree2, maps) ==
  [k \in 1 .. 2 * Len(maps[tree1]) |->
     IF k % 2 = 1 THEN Insert(tree1, (k + 1) \div 2) ELSE Query(tree2, tree1, k \div 2)]

\* Mutant of blocking: the tree is queried while it is filled.
blockingInTurns(maps) ==
  [main |-> Inserts("base", [maps EXCEPT !.base = SubSeq(@, 1, Len(@) \div 2)]) \o Queries("base", "query", maps)
            \o Inserts("base", maps),
   thread1 |-> <<>>, thread2 |-> <<>>]

\* One thread, which fills the tree before it queries it.
blocking(maps) ==
  [main |-> Inserts("base", maps) \o Queries("base", "query", maps),
   thread1 |-> <<>>, thread2 |-> <<>>]

\* Mutant of non_blocking: each thread fills its tree before it looks in the other.
non_blockingFillFirst(maps) ==
  [main |-> <<>>,
   thread1 |-> Inserts("base", maps) \o Queries("query", "base", maps),
   thread2 |-> Inserts("query", maps) \o Queries("base", "query", maps)]

non_blocking(maps) ==
  [main |-> <<>>,
   thread1 |-> Alternating("base", "query", maps), thread2 |-> Alternating("query", "base", maps)]

\* Mutant of handlers: a handler fills the tree.
handlersFill(maps) ==
  [main |-> <<>>, thread1 |-> Inserts("base", maps) \o Queries("base", "query", maps),
   thread2 |-> Queries("base", "query", maps)]

\* The handlers are started when the tree is filled; each has a request to look
\* up the same geometries.  (They also share one GEOS context, which is not meant
\* for two threads at once; that is left out.)
handlers(maps) ==
  [main |-> Inserts("base", maps),
   thread1 |-> Queries("base", "query", maps), thread2 |-> Queries("base", "query", maps)]

CallsOf(name, maps) ==
  CASE name = "blocking" -> blocking(maps)
    [] name = "non_blocking" -> non_blocking(maps)
    [] name = "handlers" -> handlers(maps)
-----------------------------------------------------------------------------
Idle == [phase |-> "idle"]

Init ==
  /\ program \in {"blocking", "non_blocking", "handlers"}
  /\ library \in [locksBuild : BOOLEAN, freezesEmpty : BOOLEAN]
  /\ geoms \in [{"base", "query"} -> UNION {[1 .. n -> Geometries] : n \in 0 .. Most}]
  /\ calls = CallsOf(program, geoms)
  /\ now = [t \in Threads |-> Idle]
  /\ trees = [tree \in {"base", "query"} |-> [items |-> {}, built |-> FALSE]]
  /\ found = {} /\ intersectCount = 0 /\ elapsedTimes = 0 /\ undefined = FALSE

Geometry(item) == geoms[item[1]][item[2]]
Envelope(g) == Min(g) .. Max(g)
Meets(item, geom) == Envelope(Geometry(item)) \cap Geometry(geom) # {}

Ended(t) == calls[t] = <<>> /\ now[t] = Idle

\* Threads other than main are started when it has made its calls.
Starts(t) ==
  /\ now[t] = Idle /\ calls[t] # <<>>
  /\ t # "main" => Ended("main")

\* A call that another thread's call on the same tree does not allow.
Clash(call) ==
  \E u \in Threads :
    /\ now[u].phase \notin {"idle"} /\ now[u].call.tree = call.tree
    /\ \/ "insert" \in {call.op, now[u].call.op}
       \/ now[u].builds /\ ~library.locksBuild

Undefine ==
  /\ undefined' = TRUE
  /\ UNCHANGED <<program, library, geoms, calls, now, trees, found, intersectCount, elapsedTimes>>

Doing(t, what) == now' = [now EXCEPT ![t] = what]

\* GEOSSTRtree_insert_r: into a tree that is built, nothing or the worst.
BeginInsert(t) ==
  LET call == Head(calls[t])
  IN  /\ Starts(t) /\ call.op = "insert"
      /\ \/ /\ ~Clash(call)
            /\ Doing(t, [phase |-> "inserting", call |-> call, builds |-> FALSE])
            /\ calls' = [calls EXCEPT ![t] = Tail(@)]
            /\ UNCHANGED <<program, library, geoms, trees, found, intersectCount, elapsedTimes, undefined>>
         \/ (Clash(call) \/ trees[call.tree].built) /\ Undefine

EndInsert(t) ==
  LET call == now[t].call
  IN  /\ now[t].phase = "inserting" /\ Doing(t, Idle)
      /\ trees' = [trees EXCEPT ![call.tree].items =
                     IF trees[call.tree].built THEN @ ELSE @ \cup {<<call.of, call.i>>}]
      /\ UNCHANGED <<program, library, geoms, calls, found, intersectCount, elapsedTimes, undefined>>

\* GEOSSTRtree_query_r: the tree is built if it is not, and the callback is
\* called for what it holds.
BeginQuery(t) ==
  LET call == Head(calls[t])
      tree == trees[call.tree]
      builds == ~tree.built /\ (tree.items # {} \/ library.freezesEmpty)
  IN  /\ Starts(t) /\ call.op = "query"
      /\ \/ /\ ~Clash(call)
            /\ Doing(t, [phase |-> "querying", call |-> call, builds |-> builds,
                         hits |-> {item \in tree.items : Meets(item, <<call.of, call.i>>)}])
            /\ calls' = [calls EXCEPT ![t] = Tail(@)]
            /\ trees' = [trees EXCEPT ![call.tree].built = @ \/ builds]
            /\ UNCHANGED <<program, library, geoms, found, intersectCount, elapsedTimes, undefined>>
         \/ Clash(call) /\ Undefine

EndQuery(t) ==
  /\ now[t].phase = "querying" /\ now[t].hits = {} /\ Doing(t, Idle)
  /\ UNCHANGED <<program, library, geoms, calls, trees, found, intersectCount, elapsedTimes, undefined>>

\* intersect_callback -------------------------------------------------------

\* An intersection is found: intersectCount is loaded to add one.  (The counter
\* of the handlers is OffloadServer's.)
Load(t) ==
  /\ now[t].phase = "querying"
  /\ \E item \in now[t].hits :
       /\ found' = found \cup {<<t, item, <<now[t].call.of, now[t].call.i>>>>}
       /\ Doing(t, [phase |-> IF program = "handlers" THEN "querying" ELSE "loaded",
                    call |-> now[t].call, builds |-> now[t].builds,
                    hits |-> now[t].hits \ {item}, loaded |-> intersectCount])
  /\ UNCHANGED <<program, library, geoms, calls, trees, intersectCount, elapsedTimes, undefined>>

Store(t) ==
  /\ now[t].phase = "loaded"
  /\ intersectCount' = now[t].loaded + 1
  /\ Doing(t, [now[t] EXCEPT !.phase = "stored"])
  /\ UNCHANGED <<program, library, geoms, calls, trees, found, elapsedTimes, undefined>>

\* if (intersectCount % 100 == 0) reads the counter again.
Test(t) ==
  /\ now[t].phase = "stored"
  /\ Doing(t, [now[t] EXCEPT !.phase = IF intersectCount % Every = 0 THEN "pushing" ELSE "querying"])
  /\ UNCHANGED <<program, library, geoms, calls, trees, found, intersectCount, elapsedTimes, undefined>>

\* elapsedTimes.push_back: two at once are undefined.
Push(t) ==
  /\ now[t].phase = "pushing"
  /\ \/ /\ elapsedTimes' = elapsedTimes + 1 /\ Doing(t, [now[t] EXCEPT !.phase = "querying"])
        /\ UNCHANGED <<program, library, geoms, calls, trees, found, intersectCount, undefined>>
     \/ (\E u \in Threads \ {t} : now[u].phase = "pushing") /\ Undefine

Next ==
  /\ ~undefined
  /\ \E t \in Threads :
       \/ BeginInsert(t) \/ EndInsert(t) \/ BeginQuery(t) \/ EndQuery(t)
       \/ Load(t) \/ Store(t) \/ Test(t) \/ Push(t)

Spec == Init /\ [][Next]_vars
-----------------------------------------------------------------------------
\* Properties ---------------------------------------------------------------

Items(tree) == {tree} \X DOMAIN geoms[tree]
AllEnded == \A t \in Threads : Ended(t)
FoundBy(t) == {<<pair[2], pair[3]>> : pair \in {p \in found : p[1] = t}}

\* The queries that meet an envelope, and those that meet what is in it.
Candidates == {p \in Items("base") \X Items("query") : Meets(p[1], p[2])}
Intersecting == {p \in Items("base") \X Items("query") : Geometry(p[1]) \cap Geometry(p[2]) # {}}

\* The blocking program prints how many queries meet an envelope, which is never
\* less than the number of intersections, and pushes a time for every so many.
BlockingIsExact ==
  program = "blocking" =>
    /\ ~undefined
    /\ AllEnded => /\ intersectCount = Cardinality(Candidates)
                   /\ intersectCount >= Cardinality(Intersecting)
                   /\ elapsedTimes = intersectCount \div Every

\* Where a query freezes an empty tree, every run of the non-blocking program
\* that comes to its end leaves one of its trees with one geometry or none,
\* whatever the threads' speed: nearly all of that file was never looked at.
FrozenEarly ==
  program = "non_blocking" /\ library.freezesEmpty /\ AllEnded /\ ~undefined
  /\ (\A side \in {"base", "query"} : geoms[side] # <<>>) =>
    \E side \in {"base", "query"} : trees[side].built /\ Cardinality(trees[side].items) <= 1

\* The handlers each find all that meets their queries, and nothing else, and as
\* for the tree only one thing may go wrong: a query that begins while another
\* handler's builds the tree, in a library that does not lock the building.
QueriesAgree ==
  program = "handlers" =>
    /\ undefined => /\ ~library.locksBuild
                    /\ \E u \in {"thread1", "thread2"} : now[u].phase = "querying" /\ now[u].builds
    /\ \A t \in {"thread1", "thread2"} :
         /\ FoundBy(t) \subseteq Candidates
         /\ AllEnded => FoundBy(t) = Candidates
=============================================================================

-------------------------- MODULE RTreeJoinProofs --------------------------
(***************************************************************************)
(* What the R-tree programs promise, for files of any length: a tree that  *)
(* is filled before it is queried gives exact results, to one thread and   *)
(* to several (FillInv, CountInv); one that is filled and queried in turns *)
(* may be frozen with a single geometry (FrozenInv).                       *)
(***************************************************************************)
EXTENDS RTreeJoin, FiniteSetTheorems, TLAPS

\* A geometry lies in its envelope.
LEMMA InEnvelope == \A g \in Geometries : g \subseteq Envelope(g)
<1> SUFFICES ASSUME NEW g \in Geometries, NEW x \in g PROVE x \in Envelope(g)
  OBVIOUS
<1>1. g \subseteq Int /\ \E lo, hi \in g : \A y \in g : lo <= y /\ y <= hi
  BY RTreeAssumption
<1>2. Min(g) \in g /\ \A y \in g : Min(g) <= y
  BY <1>1 DEF Min
<1>3. Max(g) \in g /\ \A y \in g : y <= Max(g)
  BY <1>1 DEF Max
<1> QED
  BY <1>1, <1>2, <1>3 DEF Envelope

Sides == {"base", "query"}
Item == Sides \X Nat
Call == [op : {"insert", "query"}, tree : Sides, of : Sides, i : Nat]
InCallback == {"loaded", "stored", "pushing"}
Activity ==
  {Idle}
  \cup [phase : {"inserting"}, call : Call, builds : BOOLEAN]
  \cup [phase : {"querying"}, call : Call, builds : BOOLEAN, hits : SUBSET Item]
  \cup [phase : {"querying"} \cup InCallback, call : Call, builds : BOOLEAN, hits : SUBSET Item, loaded : Nat]

TreeTypes ==
  /\ program \in {"blocking", "non_blocking", "handlers"}
  /\ library \in [locksBuild : BOOLEAN, freezesEmpty : BOOLEAN]
  /\ geoms \in [Sides -> Seq(Geometries)]
  /\ calls \in [Threads -> Seq(Call)]
  /\ now \in [Threads -> Activity]
  /\ trees \in [Sides -> [items : SUBSET Item, built : BOOLEAN]]
  /\ intersectCount \in Nat /\ elapsedTimes \in Nat /\ undefined \in BOOLEAN

\* What a call that begins leaves to be called.
LEMMA NextCall ==
  ASSUME NEW s \in Seq(Call), s # <<>>
  PROVE  /\ Head(s) \in Call /\ Tail(s) \in Seq(Call) /\ Len(Tail(s)) = Len(s) - 1 /\ Len(s) \in Nat \ {0}
         /\ Head(s) = s[1] /\ \A j \in 1 .. Len(s) - 1 : Tail(s)[j] = s[j + 1]
OBVIOUS

\* The threads of every program make calls.
LEMMA CallsTypes ==
  ASSUME NEW maps \in [Sides -> Seq(Geometries)], NEW name \in {"blocking", "non_blocking", "handlers"}
  PROVE  CallsOf(name, maps) \in [Threads -> Seq(Call)]
<1>1. ASSUME NEW tree \in Sides, NEW of \in Sides
      PROVE  Inserts(tree, maps) \in Seq(Call) /\ Queries(tree, of, maps) \in Seq(Call)
             /\ Alternating(tree, of, maps) \in Seq(Call)
  <2>1. /\ Len(maps[tree]) \in Nat /\ DOMAIN maps[tree] = 1 .. Len(maps[tree])
        /\ Len(maps[of]) \in Nat /\ DOMAIN maps[of] = 1 .. Len(maps[of])
    OBVIOUS
  <2>2. \A i \in Nat : Insert(tree, i) \in Call /\ Query(tree, of, i) \in Call /\ Query(of, tree, i) \in Call
    BY DEF Insert, Query, Call
  <2>3. \A k \in 1 .. 2 * Len(maps[tree]) : (k + 1) \div 2 \in Nat /\ k \div 2 \in Nat
    BY <2>1
  <2> QED
    BY <2>1, <2>2, <2>3 DEF Inserts, Queries, Alternating
<1>2. <<>> \in Seq(Call)
  OBVIOUS
<1>3. ASSUME NEW a \in Seq(Call), NEW b \in Seq(Call), NEW c \in Seq(Call)
      PROVE  [main |-> a, thread1 |-> b, thread2 |-> c] \in [Threads -> Seq(Call)]
  BY DEF Threads
<1>4. \A a, b \in Seq(Call) : a \o b \in Seq(Call)
  OBVIOUS
<1>5. CASE name = "blocking"
  BY <1>1, <1>2, <1>3, <1>4, <1>5 DEF CallsOf, blocking, Sides
<1>6. CASE name = "non_blocking"
  BY <1>1, <1>2, <1>3, <1>6 DEF CallsOf, non_blocking, Sides
<1>7. CASE name = "handlers"
  BY <1>1, <1>2, <1>3, <1>7 DEF CallsOf, handlers, Sides
<1> QED
  BY <1>5, <1>6, <1>7

\* Going from one place of the callback to the next.
LEMMA Moved ==
  ASSUME NEW x \in Activity, x.phase \in InCallback, NEW ph \in {"querying"} \cup InCallback
  PROVE  /\ [x EXCEPT !.phase = ph] \in Activity
         /\ [x EXCEPT !.phase = ph].phase = ph /\ [x EXCEPT !.phase = ph].call = x.call
         /\ [x EXCEPT !.phase = ph].hits = x.hits /\ [x EXCEPT !.phase = ph].builds = x.builds
         /\ [x EXCEPT !.phase = ph].loaded = x.loaded
<1>1. x \in [phase : {"querying"} \cup InCallback, call : Call, builds : BOOLEAN, hits : SUBSET Item, loaded : Nat]
  BY DEF Activity, Idle, InCallback
<1> QED
  BY <1>1 DEF Activity

\* The types hold at first.
LEMMA TypesInit == Init => TreeTypes
<1> SUFFICES ASSUME Init PROVE TreeTypes
  OBVIOUS
<1>1. geoms \in [Sides -> Seq(Geometries)]
  BY RTreeAssumption DEF Init, Sides
<1>2. calls \in [Threads -> Seq(Call)]
  BY <1>1, CallsTypes DEF Init
<1> QED
  BY <1>1, <1>2 DEF Init, TreeTypes, Sides, Activity

\* What a thread is doing in the phases of a call.
LEMMA Phases ==
  ASSUME TreeTypes, NEW t \in Threads
  PROVE  /\ now[t].phase \in {"idle", "inserting", "querying"} \cup InCallback
         /\ now[t].phase = "idle" <=> now[t] = Idle
         /\ now[t].phase # "idle" => now[t].call \in Call /\ now[t].builds \in BOOLEAN
         /\ now[t].phase \in {"querying"} \cup InCallback => now[t].hits \in SUBSET Item
         /\ now[t].phase \in InCallback => now[t].loaded \in Nat
<1>1. now[t] \in Activity
  BY DEF TreeTypes
<1> QED
  BY <1>1 DEF Activity, Idle, InCallback

\* A step keeps the types.
LEMMA TypesNext == TreeTypes /\ [Next]_vars => TreeTypes'
<1> SUFFICES ASSUME TreeTypes, [Next]_vars PROVE TreeTypes'
  OBVIOUS
<1>1. CASE UNCHANGED vars
  BY <1>1 DEF TreeTypes, vars
<1>2. ASSUME NEW t \in Threads, BeginInsert(t) PROVE TreeTypes'
  <2>1. CASE Undefine
    BY <2>1 DEF Undefine, TreeTypes
  <2>2. CASE ~Undefine
    <3>1. calls[t] \in Seq(Call) /\ calls[t] # <<>>
      BY <1>2 DEF BeginInsert, Starts, TreeTypes
    <3>2. Tail(calls[t]) \in Seq(Call) /\ Head(calls[t]) \in Call
      BY <3>1, NextCall
    <3>3. [phase |-> "inserting", call |-> Head(calls[t]), builds |-> FALSE] \in Activity
      BY <3>2 DEF Activity
    <3> QED
      BY <1>2, <2>2, <3>2, <3>3 DEF BeginInsert, Doing, TreeTypes
  <2> QED
    BY <2>1, <2>2
<1>3. ASSUME NEW t \in Threads, EndInsert(t) PROVE TreeTypes'
  <2>1. now[t].call \in Call
    BY <1>3, Phases DEF EndInsert
  <2>2. <<now[t].call.of, now[t].call.i>> \in Item /\ now[t].call.tree \in Sides
    BY <2>1 DEF Call, Item
  <2>3. Idle \in Activity
    BY DEF Activity
  <2>4. trees' \in [Sides -> [items : SUBSET Item, built : BOOLEAN]]
    BY <1>3, <2>2 DEF EndInsert, TreeTypes
  <2> QED
    BY <1>3, <2>3, <2>4 DEF EndInsert, Doing, TreeTypes
<1>4. ASSUME NEW t \in Threads, BeginQuery(t) PROVE TreeTypes'
  <2>1. CASE Undefine
    BY <2>1 DEF Undefine, TreeTypes
  <2>2. CASE ~Undefine
    <3> DEFINE call == Head(calls[t])
               tree == trees[call.tree]
               builds == ~tree.built /\ (tree.items # {} \/ library.freezesEmpty)
               hits == {item \in tree.items : Meets(item, <<call.of, call.i>>)}
    <3>1. calls[t] \in Seq(Call) /\ calls[t] # <<>>
      BY <1>4 DEF BeginQuery, Starts, TreeTypes
    <3>2. Tail(calls[t]) \in Seq(Call) /\ call \in Call /\ call.tree \in Sides
      BY <3>1, NextCall DEF Call
    <3>3. tree.items \in SUBSET Item /\ builds \in BOOLEAN /\ hits \in SUBSET Item
      BY <3>2 DEF TreeTypes
    <3>4. [phase |-> "querying", call |-> call, builds |-> builds, hits |-> hits] \in Activity
      BY <3>2, <3>3 DEF Activity
    <3>5. /\ now' = [now EXCEPT ![t] = [phase |-> "querying", call |-> call, builds |-> builds, hits |-> hits]]
          /\ calls' = [calls EXCEPT ![t] = Tail(@)]
          /\ trees' = [trees EXCEPT ![call.tree].built = @ \/ builds]
          /\ UNCHANGED <<program, library, geoms, found, intersectCount, elapsedTimes, undefined>>
      BY <1>4, <2>2 DEF BeginQuery, Doing
    <3> HIDE DEF call, builds, hits
    <3>6. trees' \in [Sides -> [items : SUBSET Item, built : BOOLEAN]]
      <4>1. trees \in [Sides -> [items : SUBSET Item, built : BOOLEAN]]
        BY DEF TreeTypes
      <4>2. (trees[call.tree].built \/ builds) \in BOOLEAN
        OBVIOUS
      <4> QED
        BY <3>2, <3>5, <4>1, <4>2
    <3> QED
      BY <3>2, <3>4, <3>5, <3>6 DEF TreeTypes
  <2> QED
    BY <2>1, <2>2
<1>5. ASSUME NEW t \in Threads, EndQuery(t) PROVE TreeTypes'
  BY <1>5 DEF EndQuery, Doing, TreeTypes, Activity
<1>6. ASSUME NEW t \in Threads, Load(t) PROVE TreeTypes'
  <2>1. now[t].call \in Call /\ now[t].builds \in BOOLEAN /\ now[t].hits \in SUBSET Item
    BY <1>6, Phases DEF Load
  <2>2. ASSUME NEW item
        PROVE  [phase |-> IF program = "handlers" THEN "querying" ELSE "loaded", call |-> now[t].call,
                builds |-> now[t].builds, hits |-> now[t].hits \ {item}, loaded |-> intersectCount] \in Activity
    BY <2>1 DEF Activity, InCallback, TreeTypes
  <2>3. PICK item : Doing(t, [phase |-> IF program = "handlers" THEN "querying" ELSE "loaded", call |-> now[t].call,
                              builds |-> now[t].builds, hits |-> now[t].hits \ {item}, loaded |-> intersectCount])
    BY <1>6 DEF Load
  <2>4. now' \in [Threads -> Activity]
    BY <2>2, <2>3 DEF Doing, TreeTypes
  <2> QED
    BY <1>6, <2>4 DEF Load, TreeTypes
<1>7. ASSUME NEW t \in Threads, Store(t) \/ Test(t) \/ Push(t) PROVE TreeTypes'
  <2>1. CASE Undefine
    BY <2>1 DEF Undefine, TreeTypes
  <2>2. CASE ~Undefine
    <3>1. now[t] \in Activity /\ now[t].phase \in InCallback /\ now[t].loaded \in Nat
      BY <1>7, Phases DEF Store, Test, Push, TreeTypes, InCallback
    <3>2. \A ph \in {"querying"} \cup InCallback : [now[t] EXCEPT !.phase = ph] \in Activity
      BY <3>1, Moved
    <3>3. \E ph \in {"querying"} \cup InCallback : now' = [now EXCEPT ![t] = [now[t] EXCEPT !.phase = ph]]
      BY <1>7, <2>2 DEF Store, Test, Push, Doing, InCallback
    <3>4. now' \in [Threads -> Activity]
      <4>1. PICK ph \in {"querying"} \cup InCallback : now' = [now EXCEPT ![t] = [now[t] EXCEPT !.phase = ph]]
        BY <3>3
      <4>2. [now[t] EXCEPT !.phase = ph] \in Activity /\ now \in [Threads -> Activity]
        BY <3>2 DEF TreeTypes
      <4> QED
        BY <4>1, <4>2
    <3>5. intersectCount' \in Nat /\ elapsedTimes' \in Nat
      BY <1>7, <3>1, <2>2 DEF Store, Test, Push, TreeTypes
    <3> QED
      BY <1>7, <2>2, <3>4, <3>5 DEF Store, Test, Push, TreeTypes
  <2> QED
    BY <2>1, <2>2
<1> QED
  BY <1>1, <1>2, <1>3, <1>4, <1>5, <1>6, <1>7 DEF Next
-----------------------------------------------------------------------------
\* The tree that is frozen --------------------------------------------------

SideOf(t) == IF t = "thread1" THEN "base" ELSE "query"
OtherOf(t) == IF t = "thread1" THEN "query" ELSE "base"

\* The thread has not begun a query, and its tree holds at most its first geometry.
Early(t) ==
  /\ trees[SideOf(t)].items \subseteq {<<SideOf(t), 1>>}
  /\ calls[t] # <<>>
  /\ \/ /\ now[t] = Idle /\ Len(calls[t]) >= 2
        /\ calls[t][1] = Insert(SideOf(t), 1) /\ calls[t][2] = Query(OtherOf(t), SideOf(t), 1)
     \/ /\ calls[t][1] = Query(OtherOf(t), SideOf(t), 1) /\ now[t].phase \in {"idle", "inserting"}
        /\ now[t].phase = "inserting" => now[t].call = Insert(SideOf(t), 1)

FrozenAt(side) == trees[side].built /\ trees[side].items \subseteq {<<side, 1>>}

FreezesEarly ==
  program = "non_blocking" /\ library.freezesEmpty /\ (\A side \in Sides : geoms[side] # <<>>) /\ ~undefined =>
    /\ Ended("main")
    /\ (\E side \in Sides : FrozenAt(side)) \/ (Early("thread1") /\ Early("thread2"))

FrozenInv == TreeTypes /\ FreezesEarly

\* At first no thread of the non-blocking program has begun a query.
LEMMA FrozenInit == Init => FrozenInv
<1> SUFFICES ASSUME Init PROVE FrozenInv
  OBVIOUS
<1>1. TreeTypes
  BY TypesInit
<1>2. ASSUME program = "non_blocking", \A side \in Sides : geoms[side] # <<>>, NEW t \in {"thread1", "thread2"}
      PROVE  Early(t)
  <2>1. calls[t] = Alternating(SideOf(t), OtherOf(t), geoms)
    BY <1>2 DEF Init, CallsOf, non_blocking, SideOf, OtherOf
  <2>2. SideOf(t) \in Sides
    BY DEF SideOf, Sides
  <2>3. Len(geoms[SideOf(t)]) \in Nat \ {0}
    BY <1>1, <1>2, <2>2 DEF TreeTypes
  <2>4. \A m \in Nat \ {0} : 1 \in 1 .. 2 * m /\ 2 \in 1 .. 2 * m /\ 2 * m \in Nat
    OBVIOUS
  <2>5. 1 \in 1 .. 2 * Len(geoms[SideOf(t)]) /\ 2 \in 1 .. 2 * Len(geoms[SideOf(t)])
    BY <2>3, <2>4
  <2>6. DOMAIN calls[t] = 1 .. 2 * Len(geoms[SideOf(t)]) /\ calls[t][1] = Insert(SideOf(t), 1)
        /\ calls[t][2] = Query(OtherOf(t), SideOf(t), 1)
    BY <2>1, <2>5 DEF Alternating
  <2>7. calls[t] \in Seq(Call)
    BY <1>1 DEF TreeTypes, Threads
  <2>8. Len(calls[t]) >= 2 /\ calls[t] # <<>>
    BY <2>5, <2>6, <2>7
  <2> QED
    BY <2>2, <2>6, <2>8 DEF Init, Early, Threads, Sides
<1>3. ASSUME program = "non_blocking" PROVE Ended("main")
  BY <1>3 DEF Init, Ended, CallsOf, non_blocking, Threads
<1> QED
  BY <1>1, <1>2, <1>3 DEF FrozenInv, FreezesEarly

\* A tree that is built stays as it is.
LEMMA BuiltStays ==
  ASSUME TreeTypes, [Next]_vars, NEW side \in Sides, FrozenAt(side)
  PROVE  FrozenAt(side)'
<1>1. CASE trees' = trees
  BY <1>1 DEF FrozenAt
<1>2. CASE \E t \in Threads : EndInsert(t)
  <2>1. PICK t \in Threads : EndInsert(t)
    BY <1>2
  <2>2. now[t].call.tree \in Sides
    BY <2>1, Phases DEF EndInsert, Call
  <2>3. CASE now[t].call.tree = side
    BY <2>1, <2>2, <2>3 DEF EndInsert, FrozenAt, TreeTypes
  <2>4. CASE now[t].call.tree # side
    BY <2>1, <2>2, <2>4 DEF EndInsert, FrozenAt, TreeTypes
  <2> QED
    BY <2>3, <2>4
<1>3. CASE \E t \in Threads : BeginQuery(t) /\ ~Undefine
  <2>1. PICK t \in Threads : BeginQuery(t) /\ ~Undefine
    BY <1>3
  <2>2. Head(calls[t]).tree \in Sides
    BY <2>1, NextCall DEF BeginQuery, Starts, TreeTypes, Call
  <2>3. PICK b : trees' = [trees EXCEPT ![Head(calls[t]).tree].built = @ \/ b]
    BY <2>1 DEF BeginQuery
  <2> QED
    BY <2>2, <2>3 DEF FrozenAt, TreeTypes
<1> QED
  BY <1>1, <1>2, <1>3 DEF Next, vars, Undefine, BeginInsert, BeginQuery, EndQuery, Load, Store, Test, Push

\* A thread that has not begun a query inserts its first geometry or begins one,
\* and the tree that it looks in then holds one geometry or none.
LEMMA EarlyStep ==
  ASSUME TreeTypes, library.freezesEmpty, NEW t \in {"thread1", "thread2"}, NEW u \in {"thread1", "thread2"}, u # t,
         Early(t), Early(u), ~undefined', [Next]_vars,
         \/ BeginInsert(t) \/ EndInsert(t) \/ BeginQuery(t) \/ EndQuery(t)
         \/ Load(t) \/ Store(t) \/ Test(t) \/ Push(t)
  PROVE  (\E side \in Sides : FrozenAt(side)') \/ (Early(t)' /\ Early(u)')
<1>1. /\ SideOf(t) \in Sides /\ SideOf(u) = OtherOf(t) /\ OtherOf(t) \in Sides /\ SideOf(t) # OtherOf(t)
      /\ t \in Threads /\ u \in Threads
      /\ calls \in [Threads -> Seq(Call)] /\ now \in [Threads -> Activity]
      /\ trees \in [Sides -> [items : SUBSET Item, built : BOOLEAN]]
      /\ calls[t] \in Seq(Call) /\ calls[t] # <<>>
  BY DEF SideOf, OtherOf, Sides, Threads, TreeTypes, Early
<1>2. /\ Head(calls[t]) \in Call /\ Tail(calls[t]) \in Seq(Call) /\ Len(Tail(calls[t])) = Len(calls[t]) - 1
      /\ Len(calls[t]) \in Nat \ {0} /\ Head(calls[t]) = calls[t][1]
      /\ \A j \in 1 .. Len(calls[t]) - 1 : Tail(calls[t])[j] = calls[t][j + 1]
  BY <1>1, NextCall
<1>3. ~Undefine
  BY DEF Undefine
<1>4. ASSUME calls'[u] = calls[u], now'[u] = now[u], trees'[SideOf(u)] = trees[SideOf(u)] PROVE Early(u)'
  BY <1>4 DEF Early
<1>5. CASE BeginInsert(t)
  <2>1. /\ now' = [now EXCEPT ![t] = [phase |-> "inserting", call |-> Head(calls[t]), builds |-> FALSE]]
        /\ calls' = [calls EXCEPT ![t] = Tail(@)] /\ trees' = trees
        /\ now[t] = Idle /\ Head(calls[t]).op = "insert"
    BY <1>3, <1>5 DEF BeginInsert, Starts, Doing
  <2>2. calls[t][1] # Query(OtherOf(t), SideOf(t), 1)
    BY <1>2, <2>1 DEF Query
  <2>3. Len(calls[t]) >= 2 /\ calls[t][1] = Insert(SideOf(t), 1) /\ calls[t][2] = Query(OtherOf(t), SideOf(t), 1)
    BY <2>2 DEF Early
  <2>4. /\ now'[t] = [phase |-> "inserting", call |-> Insert(SideOf(t), 1), builds |-> FALSE]
        /\ calls'[t] = Tail(calls[t]) /\ now'[u] = now[u] /\ calls'[u] = calls[u]
    BY <1>1, <1>2, <2>1, <2>3
  <2>5. calls'[t] # <<>> /\ calls'[t][1] = Query(OtherOf(t), SideOf(t), 1)
    <3>1. 1 \in 1 .. Len(calls[t]) - 1 /\ Len(Tail(calls[t])) # 0
      BY <1>2, <2>3
    <3>2. Len(<<>>) = 0
      OBVIOUS
    <3>3. Tail(calls[t]) # <<>>
      BY <3>1, <3>2, Zenon
    <3>4. Tail(calls[t])[1] = Query(OtherOf(t), SideOf(t), 1)
      BY <1>2, <2>3, <3>1
    <3> QED
      BY <2>4, <3>3, <3>4
  <2>6. Early(t)'
    BY <2>1, <2>4, <2>5 DEF Early
  <2> QED
    BY <1>4, <2>1, <2>4, <2>6
<1>6. CASE EndInsert(t)
  <2>1. now[t].phase = "inserting" /\ now[t] # Idle
    BY <1>6 DEF EndInsert, Idle
  <2>2. now[t].call = Insert(SideOf(t), 1) /\ calls[t][1] = Query(OtherOf(t), SideOf(t), 1)
    BY <2>1 DEF Early
  <2>3. /\ now' = [now EXCEPT ![t] = Idle] /\ calls' = calls
        /\ trees' = [trees EXCEPT ![SideOf(t)].items =
                        IF trees[SideOf(t)].built THEN @ ELSE @ \cup {<<SideOf(t), 1>>}]
    BY <1>6, <2>2 DEF EndInsert, Insert, Doing
  <2>4. /\ trees'[SideOf(u)] = trees[SideOf(u)] /\ trees'[SideOf(t)].items \subseteq {<<SideOf(t), 1>>}
        /\ now'[t] = Idle /\ now'[u] = now[u]
    BY <1>1, <2>3 DEF Early
  <2>5. Early(t)'
    BY <2>2, <2>3, <2>4 DEF Early, Idle
  <2> QED
    BY <1>4, <2>3, <2>4, <2>5
<1>7. CASE BeginQuery(t)
  <2> DEFINE call == Head(calls[t])
             builds == ~trees[call.tree].built /\ (trees[call.tree].items # {} \/ library.freezesEmpty)
  <2>1. /\ trees' = [trees EXCEPT ![call.tree].built = @ \/ builds]
        /\ now[t] = Idle /\ call.op = "query"
    BY <1>3, <1>7 DEF BeginQuery, Starts
  <2>2. calls[t][1] = Query(OtherOf(t), SideOf(t), 1)
    BY <1>2, <2>1 DEF Early, Insert
  <2>3. call.tree = OtherOf(t)
    BY <1>2, <2>2 DEF Query
  <2>4. trees[OtherOf(t)].built \/ builds
    BY <2>3
  <2> HIDE DEF builds
  <2>5. trees'[OtherOf(t)].built /\ trees'[OtherOf(t)].items = trees[OtherOf(t)].items
    BY <1>1, <2>1, <2>3, <2>4
  <2>6. trees'[OtherOf(t)].items \subseteq {<<OtherOf(t), 1>>}
    BY <1>1, <2>5 DEF Early
  <2> QED
    BY <1>1, <2>5, <2>6 DEF FrozenAt
<1>8. CASE EndQuery(t) \/ Load(t) \/ Store(t) \/ Test(t) \/ Push(t)
  BY <1>8 DEF Early, Idle, EndQuery, Load, Store, Test, Push
<1> QED
  BY <1>5, <1>6, <1>7, <1>8

\* Main never does anything; a step of a thread freezes a tree, or none has begun
\* a query after it.
LEMMA FrozenNext == FrozenInv /\ [Next]_vars => FrozenInv'
<1> SUFFICES ASSUME FrozenInv, [Next]_vars PROVE FrozenInv'
  OBVIOUS
<1>1. TreeTypes /\ TreeTypes'
  BY TypesNext DEF FrozenInv
<1>2. UNCHANGED <<program, library, geoms>>
  BY DEF Next, vars, BeginInsert, EndInsert, BeginQuery, EndQuery, Load, Store, Test, Push, Undefine
<1>3. undefined => undefined'
  BY DEF Next, vars
<1>4. ASSUME program = "non_blocking", library.freezesEmpty, \A side \in Sides : geoms[side] # <<>>, ~undefined'
      PROVE  /\ Ended("main")'
             /\ (\E side \in Sides : FrozenAt(side)') \/ (Early("thread1")' /\ Early("thread2")')
  <2>1. /\ Ended("main")
        /\ (\E side \in Sides : FrozenAt(side)) \/ (Early("thread1") /\ Early("thread2"))
    BY <1>3, <1>4 DEF FrozenInv, FreezesEarly
  <2>2. CASE UNCHANGED vars
    BY <2>1, <2>2 DEF vars, Ended, Early, FrozenAt
  <2>3. ASSUME NEW t \in Threads,
               \/ BeginInsert(t) \/ EndInsert(t) \/ BeginQuery(t) \/ EndQuery(t)
               \/ Load(t) \/ Store(t) \/ Test(t) \/ Push(t)
        PROVE  /\ Ended("main")'
               /\ (\E side \in Sides : FrozenAt(side)') \/ (Early("thread1")' /\ Early("thread2")')
    <3>1. t \in {"thread1", "thread2"}
      <4>1. calls[t] # <<>> \/ now[t].phase # "idle"
        BY <2>3 DEF BeginInsert, EndInsert, BeginQuery, EndQuery, Load, Store, Test, Push, Starts
      <4> QED
        BY <2>1, <4>1 DEF Ended, Idle, Threads
    <3>2. Ended("main")'
      <4>1. calls'["main"] = calls["main"] /\ now'["main"] = now["main"]
        BY <1>1, <2>3, <3>1 DEF TreeTypes, Threads, BeginInsert, EndInsert, BeginQuery, EndQuery, Load, Store, Test,
               Push, Doing, Undefine
      <4> QED
        BY <2>1, <4>1 DEF Ended
    <3>3. CASE \E side \in Sides : FrozenAt(side)
      BY <1>1, <3>2, <3>3, BuiltStays
    <3>4. CASE Early("thread1") /\ Early("thread2")
      <4>1. PICK u \in {"thread1", "thread2"} : u # t
        OBVIOUS
      <4>2. Early(t) /\ Early(u)
        BY <3>1, <3>4
      <4>3. (\E side \in Sides : FrozenAt(side)') \/ (Early(t)' /\ Early(u)')
        BY <1>1, <1>4, <2>3, <3>1, <4>1, <4>2, EarlyStep
      <4>4. Early(t)' /\ Early(u)' => Early("thread1")' /\ Early("thread2")'
        BY <3>1, <4>1
      <4> QED
        BY <3>2, <4>3, <4>4
    <3> QED
      BY <2>1, <3>3, <3>4
  <2> QED
    BY <2>2, <2>3 DEF Next
<1> QED
  BY <1>1, <1>2, <1>4 DEF FrozenInv, FreezesEarly

\* A run of exp1_non_blocking_rtree that comes to its end leaves a tree with one
\* geometry or none, where a query freezes an empty tree, however long the files
\* are and however fast the threads.
THEOREM FrozenEarlyAlways == Spec => []FrozenEarly
<1>1. FrozenInv => FrozenEarly
  <2> SUFFICES ASSUME FrozenInv, program = "non_blocking", library.freezesEmpty, AllEnded, ~undefined,
                      \A side \in Sides : geoms[side] # <<>>
               PROVE  \E side \in Sides : trees[side].built /\ Cardinality(trees[side].items) <= 1
    BY DEF FrozenEarly, Sides
  <2>1. PICK side \in Sides : FrozenAt(side)
    BY DEF FrozenInv, FreezesEarly, Early, AllEnded, Ended, Threads
  <2>2. trees[side].items = {} \/ trees[side].items = {<<side, 1>>}
    BY <2>1 DEF FrozenAt
  <2>3. Cardinality({}) = 0 /\ Cardinality({<<side, 1>>}) = 1
    BY FS_EmptySet, FS_Singleton
  <2>4. Cardinality(trees[side].items) = 0 \/ Cardinality(trees[side].items) = 1
    BY <2>2, <2>3, Zenon
  <2>5. Cardinality(trees[side].items) <= 1
    BY <2>4
  <2> QED
    BY <2>1, <2>5 DEF FrozenAt
<1> QED
  BY <1>1, FrozenInit, FrozenNext, PTL DEF Spec
-----------------------------------------------------------------------------
\* The tree that is filled before it is queried ------------------------------

\* How many calls a thread makes, its k-th call, and how many it has begun.
Fills(t) == IF t = "main" THEN Len(geoms["base"]) ELSE 0
Looks(t) == IF (t = "main") <=> (program = "blocking") THEN Len(geoms["query"]) ELSE 0
CallNo(t, k) == IF k <= Fills(t) THEN Insert("base", k) ELSE Query("base", "query", k - Fills(t))
Made(t) == Fills(t) + Looks(t) - Len(calls[t])

InQuery(t) == now[t].phase \in {"querying"} \cup InCallback
Inserting(t) == now[t].phase = "inserting"

\* What a thread has found: all that meets the geometries it has looked up, but
\* for what the callback has yet to be called for.
Seen(t) ==
  {p \in Candidates : /\ p[2][2] <= Made(t) - Fills(t)
                      /\ ~(InQuery(t) /\ p[2][2] = Made(t) - Fills(t) /\ p[1] \in now[t].hits)}

Working(t) ==
  /\ Made(t) >= 0
  /\ \A j \in 1 .. Len(calls[t]) : calls[t][j] = CallNo(t, Made(t) + j)
  /\ Inserting(t) => Made(t) \in 1 .. Fills(t) /\ now[t].call = Insert("base", Made(t))
  /\ InQuery(t) => /\ Made(t) > Fills(t)
                   /\ now[t].call = Query("base", "query", Made(t) - Fills(t))
                   /\ \A item \in now[t].hits : <<item, <<"query", Made(t) - Fills(t)>>>> \in Candidates
  /\ t # "main" /\ Made(t) > 0 => Ended("main")
  /\ program = "handlers" => now[t].phase \notin InCallback
  /\ FoundBy(t) = Seen(t)

\* What main has put in the tree, which is built by queries only.
Filled ==
  /\ trees["base"].items =
       {"base"} \X {i \in 1 .. Len(geoms["base"]) : i <= Made("main") /\ ~(Inserting("main") /\ i = Made("main"))}
  /\ trees["base"].built => Made("main") >= Fills("main") /\ ~Inserting("main")

\* A handler's query builds the tree and nothing keeps the others from theirs.
Unlocked ==
  /\ program = "handlers" /\ ~library.locksBuild
  /\ \E u \in {"thread1", "thread2"} : now[u].phase = "querying" /\ now[u].builds

FillsFirst ==
  program \in {"blocking", "handlers"} =>
    /\ undefined => Unlocked
    /\ Filled
    /\ \A t \in Threads : Working(t)

FillInv == TreeTypes /\ FillsFirst

Acts(t) ==
  \/ BeginInsert(t) \/ EndInsert(t) \/ BeginQuery(t) \/ EndQuery(t)
  \/ Load(t) \/ Store(t) \/ Test(t) \/ Push(t)

\* At first the calls to make are those of CallNo, and nothing is found.
LEMMA FillInit == Init => FillInv
<1> SUFFICES ASSUME Init PROVE FillInv
  OBVIOUS
<1>1. TreeTypes
  BY TypesInit
<1> SUFFICES ASSUME program \in {"blocking", "handlers"} PROVE Filled /\ (\A t \in Threads : Working(t)) /\ ~undefined
  BY <1>1 DEF FillInv, FillsFirst
<1>2. /\ geoms["base"] \in Seq(Geometries) /\ geoms["query"] \in Seq(Geometries)
      /\ Len(geoms["base"]) \in Nat /\ Len(geoms["query"]) \in Nat
      /\ DOMAIN geoms["base"] = 1 .. Len(geoms["base"]) /\ DOMAIN geoms["query"] = 1 .. Len(geoms["query"])
  BY <1>1 DEF TreeTypes, Sides
<1>3. ASSUME NEW t \in Threads
      PROVE  /\ Len(calls[t]) = Fills(t) + Looks(t)
             /\ \A k \in 1 .. Len(calls[t]) : calls[t][k] = CallNo(t, k)
  <2> DEFINE ins == Inserts("base", geoms)
             qs == Queries("base", "query", geoms)
  <2>1. /\ ins \in Seq(Call) /\ Len(ins) = Len(geoms["base"])
        /\ \A k \in 1 .. Len(geoms["base"]) : ins[k] = Insert("base", k)
    BY <1>2 DEF Inserts, Insert, Call, Sides
  <2>2. /\ qs \in Seq(Call) /\ Len(qs) = Len(geoms["query"])
        /\ \A k \in 1 .. Len(geoms["query"]) : qs[k] = Query("base", "query", k)
    BY <1>2 DEF Queries, Query, Call, Sides
  <2>3. calls = CallsOf(program, geoms)
    BY DEF Init
  <2> HIDE DEF ins, qs
  <2>4. CASE program = "blocking" /\ t = "main"
    <3>1. calls[t] = ins \o qs
      BY <2>3, <2>4 DEF CallsOf, blocking, ins, qs
    <3>2. /\ Len(ins \o qs) = Len(ins) + Len(qs)
          /\ \A k \in 1 .. Len(ins) + Len(qs) : (ins \o qs)[k] = IF k <= Len(ins) THEN ins[k] ELSE qs[k - Len(ins)]
      <4>1. ASSUME NEW a \in Seq(Call), NEW b \in Seq(Call)
            PROVE  /\ Len(a \o b) = Len(a) + Len(b)
                   /\ \A k \in 1 .. Len(a) + Len(b) : (a \o b)[k] = IF k <= Len(a) THEN a[k] ELSE b[k - Len(a)]
        OBVIOUS
      <4> QED
        BY <2>1, <2>2, <4>1
    <3>3. ASSUME NEW k \in 1 .. Len(ins) + Len(qs)
          PROVE  (ins \o qs)[k] = CallNo(t, k)
      <4>1. CASE k <= Len(ins)
        BY <1>2, <2>1, <2>2, <2>4, <3>2, <4>1 DEF CallNo, Fills
      <4>2. CASE ~(k <= Len(ins))
        <5>1. k - Len(ins) \in 1 .. Len(qs)
          <6>1. \A x, y \in Nat : \A m \in 1 .. x + y : ~(m <= x) => m - x \in 1 .. y
            OBVIOUS
          <6>2. Len(ins) \in Nat /\ Len(qs) \in Nat
            BY <1>2, <2>1, <2>2
          <6> QED
            BY <4>2, <6>1, <6>2
        <5> QED
          BY <1>2, <2>1, <2>2, <2>4, <3>2, <4>2, <5>1 DEF CallNo, Fills
      <4> QED
        BY <4>1, <4>2
    <3> QED
      BY <2>1, <2>2, <2>4, <3>1, <3>2, <3>3 DEF Fills, Looks
  <2>5. CASE program = "blocking" /\ t # "main"
    <3>1. calls[t] = <<>>
      BY <2>3, <2>5 DEF CallsOf, blocking, Threads
    <3> QED
      BY <2>5, <3>1 DEF Fills, Looks
  <2>6. CASE program = "handlers" /\ t = "main"
    <3>1. calls[t] = ins
      BY <2>3, <2>6 DEF CallsOf, handlers, ins
    <3> QED
      BY <1>2, <2>1, <2>6, <3>1 DEF Fills, Looks, CallNo
  <2>7. CASE program = "handlers" /\ t # "main"
    <3>1. calls[t] = qs
      BY <2>3, <2>7 DEF CallsOf, handlers, qs, Threads
    <3> QED
      BY <1>2, <2>2, <2>7, <3>1 DEF Fills, Looks, CallNo
  <2> QED
    BY <2>4, <2>5, <2>6, <2>7
<1>4. ASSUME NEW t \in Threads PROVE Fills(t) \in Nat /\ Looks(t) \in Nat /\ Made(t) = 0 /\ now[t] = Idle
  <2>1. Fills(t) \in Nat /\ Looks(t) \in Nat
    BY <1>2 DEF Fills, Looks
  <2>2. Fills(t) + Looks(t) - Len(calls[t]) = 0
    BY <1>3, <2>1
  <2> QED
    BY <2>1, <2>2 DEF Made, Init
<1>5. Filled
  <2>1. {i \in 1 .. Len(geoms["base"]) : i <= Made("main") /\ ~(Inserting("main") /\ i = Made("main"))} = {}
    BY <1>2, <1>4 DEF Threads
  <2>2. trees["base"].items = {} /\ ~trees["base"].built
    BY DEF Init
  <2> QED
    BY <2>1, <2>2 DEF Filled
<1>6. ASSUME NEW t \in Threads PROVE Working(t)
  <2>1. ~InQuery(t) /\ ~Inserting(t)
    BY <1>4 DEF InQuery, Inserting, InCallback, Idle
  <2>2. \A p \in Candidates : p[2][2] \in 1 .. Len(geoms["query"])
    BY <1>2 DEF Candidates, Items
  <2>3. Seen(t) = {}
    BY <1>2, <1>4, <2>2 DEF Seen
  <2>4. FoundBy(t) = {}
    BY DEF Init, FoundBy
  <2> QED
    BY <1>3, <1>4, <2>1, <2>3, <2>4 DEF Working, InQuery
<1> QED
  BY <1>5, <1>6 DEF Init

\* The numbers of calls.
LEMMA Numbers ==
  ASSUME TreeTypes, NEW t \in Threads
  PROVE  /\ Fills(t) \in Nat /\ Looks(t) \in Nat /\ Len(calls[t]) \in Nat /\ Made(t) \in Int
         /\ Made(t) <= Fills(t) + Looks(t) /\ (calls[t] = <<>> => Made(t) = Fills(t) + Looks(t))
         /\ DOMAIN geoms["base"] = 1 .. Len(geoms["base"]) /\ Len(geoms["base"]) \in Nat
         /\ DOMAIN geoms["query"] = 1 .. Len(geoms["query"]) /\ Len(geoms["query"]) \in Nat
<1>1. /\ DOMAIN geoms["base"] = 1 .. Len(geoms["base"]) /\ Len(geoms["base"]) \in Nat
      /\ DOMAIN geoms["query"] = 1 .. Len(geoms["query"]) /\ Len(geoms["query"]) \in Nat
  BY DEF TreeTypes, Sides
<1>2. Fills(t) \in Nat /\ Looks(t) \in Nat
  BY <1>1 DEF Fills, Looks
<1>3. Len(calls[t]) \in Nat /\ (calls[t] = <<>> => Len(calls[t]) = 0)
  BY DEF TreeTypes
<1> QED
  BY <1>1, <1>2, <1>3 DEF Made

\* What the program and the files determine.
LEMMA Same ==
  ASSUME UNCHANGED <<program, geoms>>
  PROVE  /\ Candidates' = Candidates
         /\ \A t : Fills(t)' = Fills(t) /\ Looks(t)' = Looks(t)
         /\ \A t, k : CallNo(t, k)' = CallNo(t, k)
<1>1. \A t : Fills(t)' = Fills(t) /\ Looks(t)' = Looks(t)
  BY DEF Fills, Looks
<1> QED
  BY <1>1 DEF Candidates, Items, Meets, Geometry, CallNo

\* The pairs that meet.
LEMMA Pairs ==
  ASSUME TreeTypes
  PROVE  /\ \A p \in Candidates : \E i \in DOMAIN geoms["base"], k \in DOMAIN geoms["query"] :
                                   p = <<<<"base", i>>, <<"query", k>>>>
         /\ \A i \in DOMAIN geoms["base"], k \in DOMAIN geoms["query"] :
              <<<<"base", i>>, <<"query", k>>>> \in Candidates <=> Meets(<<"base", i>>, <<"query", k>>)
BY DEF Candidates, Items

\* While main fills the tree nobody else does anything, and in the blocking
\* program nobody else ever does.
LEMMA Others ==
  ASSUME FillInv, program \in {"blocking", "handlers"}, NEW u \in Threads, u # "main",
         program = "blocking" \/ ~Ended("main")
  PROVE  now[u] = Idle /\ (program = "blocking" => calls[u] = <<>>)
<1>1. TreeTypes /\ Working(u)
  BY DEF FillInv, FillsFirst
<1>2. Fills(u) = 0 /\ (program = "blocking" => Looks(u) = 0)
  BY DEF Fills, Looks
<1>3. Made(u) <= 0
  <2>1. CASE program = "blocking"
    BY <1>1, <1>2, <2>1, Numbers
  <2>2. CASE ~Ended("main")
    BY <1>1, <2>2, Numbers DEF Working
  <2> QED
    BY <2>1, <2>2
<1>4. ~Inserting(u) /\ ~InQuery(u)
  BY <1>1, <1>2, <1>3, Numbers DEF Working
<1>5. now[u] = Idle
  BY <1>1, <1>4, Phases DEF Inserting, InQuery
<1>6. ASSUME program = "blocking" PROVE calls[u] = <<>>
  <2>1. Made(u) = 0 + 0 - Len(calls[u])
    BY <1>2, <1>6 DEF Made
  <2>2. Made(u) >= 0 /\ Len(calls[u]) \in Nat /\ calls[u] \in Seq(Call)
    BY <1>1 DEF Working, TreeTypes
  <2>3. Len(calls[u]) = 0 /\ calls[u] \in Seq(Call)
    BY <2>1, <2>2
  <2> QED
    BY <2>3
<1> QED
  BY <1>5, <1>6

\* A call begins.
LEMMA Begun ==
  ASSUME TreeTypes, NEW t \in Threads, Working(t), calls[t] # <<>>,
         calls' = [calls EXCEPT ![t] = Tail(@)], UNCHANGED <<program, geoms>>
  PROVE  /\ Made(t)' = Made(t) + 1 /\ Made(t) + 1 \in 1 .. Fills(t) + Looks(t)
         /\ \A j \in 1 .. Len(calls'[t]) : calls'[t][j] = CallNo(t, Made(t) + 1 + j)
<1>1. calls \in [Threads -> Seq(Call)] /\ calls[t] \in Seq(Call) /\ calls'[t] = Tail(calls[t])
  BY DEF TreeTypes
<1>2. /\ Len(calls'[t]) = Len(calls[t]) - 1 /\ Len(calls[t]) \in Nat \ {0}
      /\ \A j \in 1 .. Len(calls[t]) - 1 : calls'[t][j] = calls[t][j + 1]
  BY <1>1, NextCall
<1>3. Fills(t)' = Fills(t) /\ Looks(t)' = Looks(t) /\ Fills(t) \in Nat /\ Looks(t) \in Nat /\ Made(t) >= 0
      /\ Made(t) \in Int
  BY Same, Numbers DEF Working
<1>4. Made(t)' = Made(t) + 1 /\ Made(t) + 1 \in 1 .. Fills(t) + Looks(t)
  BY <1>2, <1>3 DEF Made
<1>5. ASSUME NEW j \in 1 .. Len(calls'[t]) PROVE calls'[t][j] = CallNo(t, Made(t) + 1 + j)
  <2>1. j \in 1 .. Len(calls[t]) - 1 /\ j + 1 \in 1 .. Len(calls[t]) /\ Made(t) + (j + 1) = Made(t) + 1 + j
    BY <1>2, <1>3, <1>5
  <2> QED
    BY <1>2, <2>1 DEF Working
<1> QED
  BY <1>4, <1>5

\* The call that begins is the next one.
LEMMA Beginning ==
  ASSUME TreeTypes, NEW t \in Threads, Working(t), calls[t] # <<>>
  PROVE  Head(calls[t]) = CallNo(t, Made(t) + 1) /\ Made(t) + 1 \in 1 .. Fills(t) + Looks(t) /\ Made(t) \in Nat
<1>1. calls[t] \in Seq(Call)
  BY DEF TreeTypes
<1>2. Len(calls[t]) \in Nat \ {0} /\ Head(calls[t]) = calls[t][1] /\ 1 \in 1 .. Len(calls[t])
  BY <1>1, NextCall
<1>3. Fills(t) \in Nat /\ Looks(t) \in Nat /\ Made(t) >= 0 /\ Made(t) \in Int
  BY Numbers DEF Working
<1> QED
  BY <1>2, <1>3 DEF Working, Made

\* Whoever acts is in a call or has one to make.
LEMMA Busy ==
  ASSUME NEW t \in Threads, Acts(t)
  PROVE  calls[t] # <<>> \/ now[t].phase \in {"inserting", "querying", "loaded", "stored", "pushing"}
<1>1. BeginInsert(t) \/ BeginQuery(t) => calls[t] # <<>>
  BY DEF BeginInsert, BeginQuery, Starts
<1>2. EndInsert(t) => now[t].phase = "inserting"
  BY DEF EndInsert
<1>3. EndQuery(t) \/ Load(t) => now[t].phase = "querying"
  BY DEF EndQuery, Load
<1>4. Store(t) \/ Test(t) \/ Push(t) => now[t].phase \in {"loaded", "stored", "pushing"}
  BY DEF Store, Test, Push
<1> QED
  BY <1>1, <1>2, <1>3, <1>4 DEF Acts

\* What another thread has to call, and what it does, is not touched.
LEMMA Untouched ==
  ASSUME TreeTypes, NEW t \in Threads, Acts(t), NEW u \in Threads, u # t
  PROVE  calls'[u] = calls[u] /\ now'[u] = now[u]
<1>1. calls \in [Threads -> Seq(Call)] /\ now \in [Threads -> Activity]
  BY DEF TreeTypes
<1>2. BeginInsert(t) \/ BeginQuery(t) => calls' = [calls EXCEPT ![t] = Tail(@)] \/ calls' = calls
  BY DEF BeginInsert, BeginQuery, Undefine
<1>3. EndInsert(t) \/ EndQuery(t) \/ Load(t) \/ Store(t) \/ Test(t) \/ Push(t) => calls' = calls
  BY DEF EndInsert, EndQuery, Load, Store, Test, Push, Undefine
<1>4. calls'[u] = calls[u]
  BY <1>1, <1>2, <1>3 DEF Acts
<1>5. BeginInsert(t) \/ BeginQuery(t) => now' = now \/ \E x : now' = [now EXCEPT ![t] = x]
  BY DEF BeginInsert, BeginQuery, Undefine, Doing
<1>6. EndInsert(t) \/ EndQuery(t) \/ Load(t) => \E x : now' = [now EXCEPT ![t] = x]
  BY DEF EndInsert, EndQuery, Load, Doing
<1>7. Store(t) \/ Test(t) \/ Push(t) => now' = now \/ \E x : now' = [now EXCEPT ![t] = x]
  BY DEF Store, Test, Push, Undefine, Doing
<1>8. now' = now \/ \E x : now' = [now EXCEPT ![t] = x]
  BY <1>5, <1>6, <1>7 DEF Acts
<1> QED
  BY <1>1, <1>4, <1>8

\* What the others have found, and what they do, stays.
LEMMA OthersWork ==
  ASSUME FillInv, program \in {"blocking", "handlers"}, NEW t \in Threads, Acts(t), NEW u \in Threads, u # t
  PROVE  Working(u)'
<1>1. TreeTypes /\ Working(u)
  BY DEF FillInv, FillsFirst
<1>2. /\ UNCHANGED <<program, geoms>> /\ calls'[u] = calls[u] /\ now'[u] = now[u]
  <2>1. UNCHANGED <<program, geoms>>
    BY DEF Acts, BeginInsert, EndInsert, BeginQuery, EndQuery, Load, Store, Test, Push, Undefine
  <2> QED
    BY <1>1, <2>1, Untouched
<1>3. FoundBy(u)' = FoundBy(u)
  <2>1. CASE Load(t)
    <3>1. PICK item, g : found' = found \cup {<<t, item, g>>}
      BY <2>1 DEF Load
    <3> QED
      BY <3>1 DEF FoundBy
  <2>2. CASE ~Load(t)
    <3>1. found' = found
      BY <2>2 DEF Acts, BeginInsert, EndInsert, BeginQuery, EndQuery, Store, Test, Push, Undefine
    <3> QED
      BY <3>1 DEF FoundBy
  <2> QED
    BY <2>1, <2>2
<1>4. Ended("main") => Ended("main")'
  <2>1. ASSUME Ended("main") PROVE t # "main"
    <3>1. calls["main"] = <<>> /\ now["main"].phase = "idle"
      BY <2>1 DEF Ended, Idle
    <3> QED
      BY <3>1, Busy
  <2>2. ASSUME t # "main" PROVE calls'["main"] = calls["main"] /\ now'["main"] = now["main"]
    <3>1. "main" \in Threads
      BY DEF Threads
    <3> QED
      BY <1>1, <2>2, <3>1, Untouched
  <2> QED
    BY <2>1, <2>2 DEF Ended
<1>5. Made(u)' = Made(u) /\ Fills(u)' = Fills(u) /\ Candidates' = Candidates
  BY <1>2, Same DEF Made
<1>6. Seen(u)' = Seen(u)
  BY <1>2, <1>5 DEF Seen, InQuery
<1>7. \A k : CallNo(u, k)' = CallNo(u, k)
  BY <1>2, Same
<1> QED
  BY <1>1, <1>2, <1>3, <1>4, <1>5, <1>6, <1>7 DEF Working, Inserting, InQuery

\* What a step of a thread has to establish.
Goal(t) == Filled' /\ Working(t)' /\ (undefined' => Unlocked')

\* An insertion is main's and begins while nobody else does anything.
LEMMA BeginInsertWorks ==
  ASSUME FillInv, program \in {"blocking", "handlers"}, ~undefined, NEW t \in Threads, BeginInsert(t)
  PROVE  Goal(t)
<1>1. TreeTypes /\ Working(t) /\ Filled /\ calls[t] # <<>> /\ now[t] = Idle
  BY DEF FillInv, FillsFirst, BeginInsert, Starts
<1> DEFINE call == Head(calls[t])
<1>2. call = CallNo(t, Made(t) + 1) /\ Made(t) \in Nat /\ Fills(t) \in Nat /\ call.op = "insert"
  BY <1>1, Beginning, Numbers DEF BeginInsert
<1>3. Made(t) + 1 <= Fills(t) /\ call = Insert("base", Made(t) + 1)
  BY <1>2 DEF CallNo, Query
<1>4. t = "main"
  BY <1>2, <1>3 DEF Fills
<1>5. \A u \in Threads : now[u] = Idle
  BY <1>1, <1>4, Others DEF Ended
<1>6. ~Clash(call) /\ ~trees[call.tree].built
  BY <1>1, <1>2, <1>3, <1>4, <1>5 DEF Clash, Idle, Filled, Insert
<1>7. /\ now' = [now EXCEPT ![t] = [phase |-> "inserting", call |-> call, builds |-> FALSE]]
      /\ calls' = [calls EXCEPT ![t] = Tail(@)]
      /\ UNCHANGED <<program, library, geoms, trees, found, undefined>>
  BY <1>6 DEF BeginInsert, Doing
<1>8. now'[t] = [phase |-> "inserting", call |-> Insert("base", Made(t) + 1), builds |-> FALSE]
  BY <1>1, <1>3, <1>7 DEF TreeTypes
<1> HIDE DEF call
<1>9. /\ Made(t)' = Made(t) + 1 /\ Fills(t)' = Fills(t) /\ Candidates' = Candidates
      /\ \A j \in 1 .. Len(calls'[t]) : calls'[t][j] = CallNo(t, Made(t) + 1 + j)
      /\ \A k : CallNo(t, k)' = CallNo(t, k)
  BY <1>1, <1>7, Begun, Same
<1>10. Inserting(t)' /\ ~InQuery(t)' /\ ~Inserting(t) /\ ~InQuery(t)
  BY <1>1, <1>8 DEF Inserting, InQuery, Idle, InCallback
<1>11. Seen(t)' = {} /\ Seen(t) = {}
  <2>1. \A p \in Candidates : p[2][2] \in Nat \ {0}
    BY <1>1, Pairs, Numbers
  <2>2. \A k \in Nat \ {0} : ~(k <= Made(t) - Fills(t)) /\ ~(k <= (Made(t) + 1) - Fills(t))
    BY <1>2, <1>3
  <2>3. \A p \in Candidates : ~(p[2][2] <= Made(t) - Fills(t)) /\ ~(p[2][2] <= Made(t)' - Fills(t)')
    BY <1>9, <2>1, <2>2
  <2> QED
    BY <1>9, <2>3 DEF Seen
<1>12. FoundBy(t)' = FoundBy(t)
  BY <1>7 DEF FoundBy
<1>13. Working(t)'
  <2>1. Made(t) + 1 >= 0 /\ Made(t) + 1 \in 1 .. Fills(t)
    BY <1>2, <1>3
  <2>2. now'[t].call = Insert("base", Made(t) + 1) /\ now'[t].phase = "inserting"
    BY <1>8
  <2>3. Made(t)' = Made(t) + 1 /\ Fills(t)' = Fills(t) /\ t = "main" /\ Seen(t)' = FoundBy(t)'
    BY <1>1, <1>4, <1>9, <1>10, <1>11, <1>12 DEF Working
  <2>4. (\A j \in 1 .. Len(calls[t]) : calls[t][j] = CallNo(t, Made(t) + j))'
    BY <1>9, <2>3
  <2>5. now'[t].phase \notin InCallback
    BY <2>2 DEF InCallback
  <2> QED
    BY <1>10, <2>1, <2>2, <2>3, <2>4, <2>5 DEF Working
<1>14. Filled'
  <2>1. trees'["base"].items = trees["base"].items /\ ~trees'["base"].built
    BY <1>3, <1>6, <1>7 DEF Insert
  <2>2. {i \in 1 .. Len(geoms["base"]) : i <= Made(t) /\ ~(Inserting(t) /\ i = Made(t))}
        = {i \in 1 .. Len(geoms["base"]) : i <= Made(t) + 1 /\ ~(i = Made(t) + 1)}
    BY <1>2, <1>10
  <2> QED
    BY <1>1, <1>4, <1>7, <1>9, <1>10, <2>1, <2>2 DEF Filled
<1> QED
  BY <1>7, <1>13, <1>14 DEF Goal

\* The tree then holds one geometry more.
LEMMA EndInsertWorks ==
  ASSUME FillInv, program \in {"blocking", "handlers"}, ~undefined, NEW t \in Threads, EndInsert(t)
  PROVE  Goal(t)
<1>1. TreeTypes /\ Working(t) /\ Filled /\ Inserting(t)
  BY DEF FillInv, FillsFirst, EndInsert, Inserting
<1>2. Made(t) \in 1 .. Fills(t) /\ now[t].call = Insert("base", Made(t)) /\ Fills(t) \in Nat
  BY <1>1, Numbers DEF Working
<1>3. t = "main"
  BY <1>2 DEF Fills
<1>4. /\ now' = [now EXCEPT ![t] = Idle]
      /\ trees' = [trees EXCEPT !["base"].items =
                      IF trees["base"].built THEN @ ELSE @ \cup {<<"base", Made(t)>>}]
      /\ UNCHANGED <<program, library, geoms, calls, found, undefined>>
  BY <1>2 DEF EndInsert, Doing, Insert
<1>5. /\ now'[t] = Idle /\ trees'["base"].built = trees["base"].built
      /\ trees'["base"].items = trees["base"].items \cup {<<"base", Made(t)>>}
  BY <1>1, <1>3, <1>4 DEF TreeTypes, Filled, Sides
<1>6. /\ Made(t)' = Made(t) /\ Fills(t)' = Fills(t) /\ Candidates' = Candidates
      /\ \A k : CallNo(t, k)' = CallNo(t, k)
  BY <1>4, Same DEF Made
<1>7. ~Inserting(t)' /\ ~InQuery(t)' /\ ~InQuery(t)
  BY <1>1, <1>5 DEF Inserting, InQuery, Idle, InCallback
<1>8. Seen(t)' = Seen(t) /\ FoundBy(t)' = FoundBy(t)
  BY <1>4, <1>6, <1>7 DEF Seen, FoundBy
<1>9. Working(t)'
  BY <1>1, <1>3, <1>4, <1>5, <1>6, <1>7, <1>8 DEF Working, Idle, InCallback
<1>10. Filled'
  <2>1. Made(t) \in 1 .. Len(geoms["base"])
    BY <1>2, <1>3 DEF Fills
  <2>2. {i \in 1 .. Len(geoms["base"]) : i <= Made(t) /\ ~(i = Made(t))} \cup {Made(t)}
        = {i \in 1 .. Len(geoms["base"]) : i <= Made(t)}
    BY <2>1
  <2>3. trees'["base"].items = {"base"} \X {i \in 1 .. Len(geoms["base"]) : i <= Made(t)}
    BY <1>1, <1>3, <1>5, <2>2 DEF Filled
  <2> QED
    BY <1>1, <1>3, <1>4, <1>5, <1>6, <1>7, <2>3 DEF Filled
<1> QED
  BY <1>4, <1>9, <1>10 DEF Goal

\* When a query is made the tree holds all geometries, and stays as it is.
LEMMA QueriesLate ==
  ASSUME FillInv, program \in {"blocking", "handlers"}, NEW t \in Threads,
         \/ InQuery(t)
         \/ Starts(t) /\ Made(t) + 1 > Fills(t)
  PROVE  /\ Made("main") >= Fills("main") /\ ~Inserting("main") /\ trees["base"].items = Items("base")
         /\ t # "main" => Ended("main") /\ program = "handlers"
<1>1. TreeTypes /\ Working(t) /\ Filled /\ "main" \in Threads
  BY DEF FillInv, FillsFirst, Threads
<1>2. t # "main" => Ended("main") /\ program = "handlers"
  <2>1. ASSUME t # "main" PROVE Ended("main") /\ program = "handlers"
    <3>1. Fills(t) = 0
      BY <2>1 DEF Fills
    <3>2. Ended("main")
      BY <1>1, <2>1, <3>1, Numbers DEF Working, Starts
    <3>3. now[t] # Idle \/ calls[t] # <<>>
      BY DEF InQuery, Idle, Starts, InCallback
    <3> QED
      BY <2>1, <3>2, <3>3, Others
  <2> QED
    BY <2>1
<1>3. Made("main") >= Fills("main") /\ ~Inserting("main")
  <2>1. CASE t # "main"
    <3>1. calls["main"] = <<>> /\ now["main"] = Idle
      BY <1>2, <2>1 DEF Ended
    <3> QED
      BY <1>1, <3>1, Numbers DEF Inserting, Idle
  <2>2. CASE t = "main" /\ InQuery(t)
    BY <1>1, <2>2, Numbers DEF Working, InQuery, Inserting, InCallback
  <2>3. CASE t = "main" /\ Starts(t) /\ Made(t) + 1 > Fills(t)
    BY <1>1, <2>3, Numbers DEF Starts, Inserting, Idle
  <2> QED
    BY <2>1, <2>2, <2>3
<1>4. {i \in 1 .. Len(geoms["base"]) : i <= Made("main") /\ ~(Inserting("main") /\ i = Made("main"))}
      = DOMAIN geoms["base"]
  BY <1>1, <1>3, Numbers DEF Fills
<1> QED
  BY <1>1, <1>2, <1>3, <1>4 DEF Filled, Items

\* A step of a query leaves the tree as it is.
LEMMA QueriesKeep ==
  ASSUME FillInv, program \in {"blocking", "handlers"}, NEW t \in Threads,
         InQuery(t) \/ (Starts(t) /\ Made(t) + 1 > Fills(t)),
         UNCHANGED <<program, geoms>>, trees'["base"].items = trees["base"].items,
         Made(t)' \in Int, Made(t)' >= Made(t), ~Inserting(t)',
         \A u \in Threads : u # t => calls'[u] = calls[u] /\ now'[u] = now[u]
  PROVE  Filled'
<1>1. /\ TreeTypes /\ "main" \in Threads /\ Made("main") >= Fills("main") /\ ~Inserting("main")
      /\ trees["base"].items = Items("base")
  BY QueriesLate DEF FillInv, Threads
<1>2. Fills("main")' = Fills("main")
  BY Same
<1>3. Made("main")' >= Fills("main") /\ ~Inserting("main")' /\ Made("main")' \in Int
  <2>1. CASE t = "main"
    BY <1>1, <2>1, Numbers
  <2>2. CASE t # "main"
    BY <1>1, <2>2, Same, Numbers DEF Made, Inserting
  <2> QED
    BY <2>1, <2>2
<1>4. {i \in 1 .. Len(geoms["base"]) : i <= Made("main")' /\ ~(Inserting("main")' /\ i = Made("main")')}
      = DOMAIN geoms["base"]
  BY <1>1, <1>3, Numbers DEF Fills
<1> QED
  BY <1>1, <1>2, <1>3, <1>4 DEF Filled, Items

\* The pairs of the geometry that a thread looks up.
LEMMA OfQuery ==
  ASSUME TreeTypes, NEW k \in Int, NEW p \in Candidates, p[2][2] = k
  PROVE  p = <<p[1], <<"query", k>>>> /\ p[1] \in Items("base") /\ Meets(p[1], <<"query", k>>)
BY DEF Candidates, Items

\* A query begins with all that meets it still to be found; two first queries
\* meet only where the library does not lock.
LEMMA BeginQueryWorks ==
  ASSUME FillInv, program \in {"blocking", "handlers"}, ~undefined, NEW t \in Threads, BeginQuery(t)
  PROVE  Goal(t)
<1>1. TreeTypes /\ Working(t) /\ Filled /\ calls[t] # <<>> /\ now[t] = Idle /\ Starts(t)
  BY DEF FillInv, FillsFirst, BeginQuery, Starts
<1> DEFINE call == Head(calls[t])
           k == (Made(t) + 1) - Fills(t)
<1>2. /\ call = CallNo(t, Made(t) + 1) /\ Made(t) \in Nat /\ Fills(t) \in Nat /\ Looks(t) \in Nat
      /\ Made(t) + 1 <= Fills(t) + Looks(t) /\ call.op = "query"
  <2>1. call.op = "query"
    BY DEF BeginQuery
  <2>2. Fills(t) \in Nat /\ Looks(t) \in Nat
    BY <1>1, Numbers
  <2>3. call = CallNo(t, Made(t) + 1) /\ Made(t) + 1 \in 1 .. Fills(t) + Looks(t) /\ Made(t) \in Nat
    BY <1>1, Beginning
  <2> QED
    BY <2>1, <2>2, <2>3
<1>3. Made(t) + 1 > Fills(t) /\ call = Query("base", "query", k) /\ k \in 1 .. Looks(t)
  BY <1>2 DEF CallNo, Insert
<1>4. k \in DOMAIN geoms["query"]
  BY <1>1, <1>3, Numbers DEF Looks
<1>5. /\ Made("main") >= Fills("main") /\ ~Inserting("main") /\ trees["base"].items = Items("base")
      /\ t # "main" => Ended("main") /\ program = "handlers"
  BY <1>1, <1>3, QueriesLate
<1>6. call.tree = "base" /\ call.of = "query" /\ call.i = k
  BY <1>3 DEF Query
<1> HIDE DEF call, k
<1>7. CASE Undefine
  <2>1. Clash(call) \/ ~Undefine
    BY <1>1 DEF BeginQuery, call, Undefine
  <2>2. PICK u \in Threads : /\ now[u].phase \notin {"idle"}
                             /\ \/ "insert" \in {call.op, now[u].call.op}
                                \/ now[u].builds /\ ~library.locksBuild
    BY <1>7, <2>1 DEF Clash
  <2>3. u # t /\ u # "main"
    <3>1. u # t
      BY <1>1, <2>2 DEF Idle
    <3>2. u = "main" => now[u] # Idle
      BY <2>2 DEF Idle
    <3>3. ASSUME u = "main" PROVE FALSE
      <4>1. program = "blocking" => t = "main"
        BY <1>5
      <4> QED
        BY <1>5, <3>1, <3>2, <3>3 DEF Ended
    <3> QED
      BY <3>1, <3>3
  <2>4. program = "handlers"
    BY <2>2, <2>3, Others DEF Idle
  <2>5. Working(u)
    BY DEF FillInv, FillsFirst
  <2>6. InQuery(u) /\ now[u].call.op = "query"
    <3>1. ~Inserting(u)
      BY <1>1, <2>3, <2>5, Numbers DEF Working, Fills
    <3>2. InQuery(u)
      BY <1>1, <2>2, <3>1, Phases DEF InQuery, Inserting
    <3> QED
      BY <2>5, <3>2 DEF Working, Query
  <2>7. ~library.locksBuild /\ now[u].builds
    BY <1>2, <2>2, <2>6
  <2>12. u \in {"thread1", "thread2"} /\ now[u].phase = "querying"
    BY <2>3, <2>4, <2>5, <2>6 DEF Working, InQuery, Threads
  <2>8. UNCHANGED <<program, library, geoms, calls, now, trees, found>>
    BY <1>7 DEF Undefine
  <2>9. Candidates' = Candidates /\ Fills(t)' = Fills(t) /\ Made(t)' = Made(t)
        /\ Fills("main")' = Fills("main") /\ Made("main")' = Made("main") /\ \A j : CallNo(t, j)' = CallNo(t, j)
    BY <2>8, Same DEF Made
  <2>10. Filled'
    BY <1>1, <2>8, <2>9 DEF Filled, Inserting
  <2>11. Working(t)'
    BY <1>1, <2>8, <2>9 DEF Working, Inserting, InQuery, Ended, Seen, FoundBy
  <2>13. Unlocked'
    BY <2>4, <2>7, <2>8, <2>12 DEF Unlocked
  <2> QED
    BY <2>10, <2>11, <2>13 DEF Goal
<1>8. CASE ~Undefine
  <2> DEFINE hits == {item \in trees["base"].items : Meets(item, <<"query", k>>)}
             builds == ~trees["base"].built /\ (trees["base"].items # {} \/ library.freezesEmpty)
  <2>1. /\ now' = [now EXCEPT ![t] = [phase |-> "querying", call |-> call, builds |-> builds, hits |-> hits]]
        /\ calls' = [calls EXCEPT ![t] = Tail(@)]
        /\ trees' = [trees EXCEPT !["base"].built = @ \/ builds]
        /\ UNCHANGED <<program, library, geoms, found, undefined>>
    <3> HIDE DEF call, k
    <3>1. call = Query("base", "query", k)
      BY <1>3
    <3>2. call.tree = "base" /\ <<call.of, call.i>> = <<"query", k>> /\ Head(calls[t]) = call
      BY <3>1 DEF Query, call
    <3>3. /\ now' = [now EXCEPT ![t] =
                         [phase |-> "querying", call |-> call,
                          builds |-> ~trees[call.tree].built /\ (trees[call.tree].items # {} \/ library.freezesEmpty),
                          hits |-> {item \in trees[call.tree].items : Meets(item, <<call.of, call.i>>)}]]
          /\ calls' = [calls EXCEPT ![t] = Tail(@)]
          /\ trees' = [trees EXCEPT ![call.tree].built =
                          @ \/ (~trees[call.tree].built /\ (trees[call.tree].items # {} \/ library.freezesEmpty))]
          /\ UNCHANGED <<program, library, geoms, found, undefined>>
      <4>1. BeginQuery(t) /\ ~Undefine
        BY <1>8
      <4> QED
        BY <4>1 DEF BeginQuery, Doing, call
    <3> QED
      BY <3>2, <3>3
  <2> HIDE DEF builds
  <2>2. /\ now'[t] = [phase |-> "querying", call |-> call, builds |-> builds, hits |-> hits]
        /\ trees'["base"].items = trees["base"].items
        /\ \A u \in Threads : u # t => calls'[u] = calls[u] /\ now'[u] = now[u]
    BY <1>1, <2>1 DEF TreeTypes, Sides
  <2> HIDE DEF hits
  <2>3. /\ Made(t)' = Made(t) + 1 /\ Fills(t)' = Fills(t) /\ Candidates' = Candidates
        /\ \A j \in 1 .. Len(calls'[t]) : calls'[t][j] = CallNo(t, Made(t) + 1 + j)
        /\ \A j : CallNo(t, j)' = CallNo(t, j)
    BY <1>1, <2>1, Begun, Same
  <2>4. InQuery(t)' /\ ~Inserting(t)' /\ ~InQuery(t) /\ now'[t].phase \notin InCallback /\ now'[t].hits = hits
        /\ now'[t].call = call
    BY <1>1, <2>2 DEF InQuery, Inserting, InCallback, Idle
  <2>5. Made(t)' - Fills(t)' = k
    BY <2>3 DEF k
  <2>6. hits = {item \in Items("base") : Meets(item, <<"query", k>>)}
    BY <1>5 DEF hits
  <2>7. \A item \in hits : <<item, <<"query", k>>>> \in Candidates
    BY <1>4, <2>6 DEF Candidates, Items
  <2>8. \A p \in Candidates : p[2][2] = k => p[1] \in hits
    BY <1>1, <1>3, <2>6, OfQuery
  <2>9. \A p \in Candidates : p[2][2] \in Nat
    BY <1>1, Pairs, Numbers
  <2>10. \A m \in Nat : m <= Made(t) - Fills(t) <=> (m <= k /\ m # k)
    BY <1>2 DEF k
  <2>11. Seen(t) = {p \in Candidates : p[2][2] <= Made(t) - Fills(t)}
    BY <2>4 DEF Seen
  <2>12. Seen(t)' = {p \in Candidates : p[2][2] <= k /\ p[2][2] # k}
    BY <2>3, <2>4, <2>5, <2>8 DEF Seen
  <2>13. Seen(t)' = Seen(t) /\ FoundBy(t)' = FoundBy(t)
    BY <2>1, <2>9, <2>10, <2>11, <2>12 DEF FoundBy
  <2>14. t # "main" => Ended("main")'
    <3>1. t # "main" => calls'["main"] = calls["main"] /\ now'["main"] = now["main"]
      BY <2>2 DEF Threads
    <3> QED
      BY <1>5, <3>1 DEF Ended
  <2>15. Made(t)' >= 0 /\ Made(t)' > Fills(t)' /\ Made(t)' \in Int /\ Made(t)' >= Made(t)
    BY <1>2, <1>3, <2>3
  <2>16. now'[t].call = Query("base", "query", Made(t)' - Fills(t)')
    BY <1>3, <2>4, <2>5
  <2>17. \A item \in now'[t].hits : <<item, <<"query", Made(t)' - Fills(t)'>>>> \in Candidates'
    BY <2>3, <2>4, <2>5, <2>7
  <2>18. Working(t)'
    BY <1>1, <2>3, <2>4, <2>13, <2>14, <2>15, <2>16, <2>17 DEF Working
  <2>19. Filled'
    BY <1>1, <1>3, <2>1, <2>2, <2>4, <2>15, QueriesKeep
  <2> QED
    BY <2>1, <2>18, <2>19 DEF Goal
<1> QED
  BY <1>7, <1>8

\* A step of a query that changes neither the tree nor what the thread has found.
LEMMA QueryGoesOn ==
  ASSUME FillInv, program \in {"blocking", "handlers"}, ~undefined, NEW t \in Threads, InQuery(t),
         UNCHANGED <<program, library, geoms, calls, trees, found, undefined>>,
         \A u \in Threads : u # t => now'[u] = now[u],
         \/ now'[t] = Idle /\ now[t].hits = {}
         \/ InQuery(t)' /\ now'[t].call = now[t].call /\ now'[t].hits = now[t].hits /\ now[t].phase \in InCallback
  PROVE  Goal(t)
<1>1. TreeTypes /\ Working(t) /\ Filled
  BY DEF FillInv, FillsFirst
<1>2. /\ Candidates' = Candidates /\ Fills(t)' = Fills(t) /\ Made(t)' = Made(t) /\ Made(t) \in Int
      /\ \A j : CallNo(t, j)' = CallNo(t, j)
  BY <1>1, Same, Numbers DEF Made
<1>3. ~Inserting(t)' /\ ~Inserting(t) /\ (now'[t] = Idle => ~InQuery(t)')
  BY DEF Inserting, InQuery, InCallback, Idle
<1>4. Seen(t)' = Seen(t) /\ FoundBy(t)' = FoundBy(t)
  BY <1>2, <1>3 DEF Seen, FoundBy
<1>5. t # "main" => Ended("main")'
  <2>1. t # "main" => Ended("main") /\ now'["main"] = now["main"]
    BY QueriesLate DEF Threads
  <2> QED
    BY <2>1 DEF Ended
<1>6. Working(t)'
  <2>1. program = "handlers" => now'[t] = Idle
    BY <1>1 DEF Working
  <2> QED
    BY <1>1, <1>2, <1>3, <1>4, <1>5, <2>1 DEF Working, Idle, InCallback
<1>7. Filled'
  BY <1>2, <1>3, QueriesKeep
<1> QED
  BY <1>6, <1>7 DEF Goal

\* A query ends when its callback has been called for all that meets it.
LEMMA EndQueryWorks ==
  ASSUME FillInv, program \in {"blocking", "handlers"}, ~undefined, NEW t \in Threads, EndQuery(t)
  PROVE  Goal(t)
<1>1. InQuery(t) /\ now' = [now EXCEPT ![t] = Idle] /\ now[t].hits = {} /\ now \in [Threads -> Activity]
      /\ UNCHANGED <<program, library, geoms, calls, trees, found, undefined>>
  BY DEF EndQuery, InQuery, Doing, FillInv, TreeTypes
<1>2. now'[t] = Idle /\ \A u \in Threads : u # t => now'[u] = now[u]
  BY <1>1
<1> QED
  BY <1>1, <1>2, QueryGoesOn

\* Two threads are not in the callback at the same time: only main is, in the
\* blocking program.
LEMMA CallbackWorks ==
  ASSUME FillInv, program \in {"blocking", "handlers"}, ~undefined, NEW t \in Threads, Store(t) \/ Test(t) \/ Push(t)
  PROVE  Goal(t)
<1>1. TreeTypes /\ Working(t) /\ InQuery(t) /\ now[t].phase \in InCallback /\ now \in [Threads -> Activity]
  BY DEF FillInv, FillsFirst, TreeTypes, Store, Test, Push, InQuery, InCallback
<1>2. program = "blocking"
  BY <1>1 DEF Working
<1>3. t = "main" /\ \A u \in Threads \ {t} : now[u] = Idle
  <2>1. t = "main"
    BY <1>1, <1>2, Others DEF Idle, InCallback
  <2> QED
    BY <1>2, <2>1, Others
<1>4. ~(Push(t) /\ Undefine)
  <2>1. \A u \in Threads \ {t} : now[u].phase # "pushing"
    BY <1>3 DEF Idle
  <2> QED
    BY <2>1 DEF Push, Undefine
<1>5. PICK ph \in {"querying"} \cup InCallback :
        now' = [now EXCEPT ![t] = [now[t] EXCEPT !.phase = ph]]
  BY <1>4 DEF Store, Test, Push, Doing, InCallback
<1>6. UNCHANGED <<program, library, geoms, calls, trees, found, undefined>>
  BY <1>4 DEF Store, Test, Push
<1>7. /\ now'[t] = [now[t] EXCEPT !.phase = ph] /\ now[t] \in Activity
      /\ \A u \in Threads : u # t => now'[u] = now[u]
  BY <1>1, <1>5
<1>8. now'[t].phase = ph /\ now'[t].call = now[t].call /\ now'[t].hits = now[t].hits
  BY <1>1, <1>7, Moved
<1>9. InQuery(t)'
  BY <1>8 DEF InQuery
<1> QED
  BY <1>1, <1>6, <1>7, <1>8, <1>9, QueryGoesOn

\* A thread finds one pair more.
LEMMA FoundOne ==
  ASSUME NEW t, NEW item, NEW g, found' = found \cup {<<t, item, g>>}
  PROVE  FoundBy(t)' = FoundBy(t) \cup {<<item, g>>}
<1>1. {p \in found' : p[1] = t} = {p \in found : p[1] = t} \cup {<<t, item, g>>}
  OBVIOUS
<1>2. ASSUME NEW S
      PROVE  {<<p[2], p[3]>> : p \in S \cup {<<t, item, g>>}} = {<<p[2], p[3]>> : p \in S} \cup {<<item, g>>}
  <2>1. ASSUME NEW x \in {<<p[2], p[3]>> : p \in S \cup {<<t, item, g>>}}
        PROVE  x \in {<<p[2], p[3]>> : p \in S} \cup {<<item, g>>}
    <3>1. PICK p \in S \cup {<<t, item, g>>} : x = <<p[2], p[3]>>
      OBVIOUS
    <3>2. CASE p \in S
      BY <3>1, <3>2
    <3>3. CASE p = <<t, item, g>>
      <4>1. p[2] = item /\ p[3] = g
        BY <3>3
      <4> QED
        BY <3>1, <4>1
    <3> QED
      BY <3>2, <3>3
  <2>2. <<item, g>> \in {<<p[2], p[3]>> : p \in S \cup {<<t, item, g>>}}
    <3> DEFINE p == <<t, item, g>>
    <3>1. p[2] = item /\ p[3] = g /\ p \in S \cup {p}
      OBVIOUS
    <3> HIDE DEF p
    <3>2. <<p[2], p[3]>> \in {<<q[2], q[3]>> : q \in S \cup {p}}
      BY <3>1
    <3> QED
      BY <3>1, <3>2 DEF p
  <2>3. {<<p[2], p[3]>> : p \in S} \subseteq {<<p[2], p[3]>> : p \in S \cup {<<t, item, g>>}}
    OBVIOUS
  <2> QED
    BY <2>1, <2>2, <2>3
<1>3. FoundBy(t)' = {<<p[2], p[3]>> : p \in {q \in found' : q[1] = t}}
  BY DEF FoundBy
<1> QED
  BY <1>1, <1>2, <1>3 DEF FoundBy

\* What is found is what the callback has no longer to be called for.
LEMMA LoadWorks ==
  ASSUME FillInv, program \in {"blocking", "handlers"}, ~undefined, NEW t \in Threads, Load(t)
  PROVE  Goal(t)
<1>1. TreeTypes /\ Working(t) /\ InQuery(t) /\ now \in [Threads -> Activity]
  BY DEF FillInv, FillsFirst, TreeTypes, Load, InQuery
<1> DEFINE k == Made(t) - Fills(t)
<1>2. /\ Made(t) > Fills(t) /\ now[t].call = Query("base", "query", k)
      /\ \A item \in now[t].hits : <<item, <<"query", k>>>> \in Candidates
      /\ Made(t) \in Int /\ Fills(t) \in Nat /\ k \in Int
  BY <1>1, Numbers DEF Working
<1>3. PICK item \in now[t].hits :
        /\ found' = found \cup {<<t, item, <<now[t].call.of, now[t].call.i>>>>}
        /\ now' = [now EXCEPT ![t] = [phase |-> IF program = "handlers" THEN "querying" ELSE "loaded",
                                      call |-> now[t].call, builds |-> now[t].builds,
                                      hits |-> now[t].hits \ {item}, loaded |-> intersectCount]]
  BY DEF Load, Doing
<1>4. UNCHANGED <<program, library, geoms, calls, trees, undefined>>
  BY DEF Load
<1>5. /\ now'[t].phase = IF program = "handlers" THEN "querying" ELSE "loaded"
      /\ now'[t].call = now[t].call /\ now'[t].hits = now[t].hits \ {item}
      /\ \A u \in Threads : u # t => now'[u] = now[u]
  BY <1>1, <1>3
<1>6. found' = found \cup {<<t, item, <<"query", k>>>>}
  BY <1>2, <1>3 DEF Query
<1>7. FoundBy(t)' = FoundBy(t) \cup {<<item, <<"query", k>>>>}
  BY <1>6, FoundOne
<1>8. /\ Candidates' = Candidates /\ Fills(t)' = Fills(t) /\ Made(t)' = Made(t)
      /\ \A j : CallNo(t, j)' = CallNo(t, j)
  BY <1>4, Same DEF Made
<1> HIDE DEF k
<1>9. InQuery(t)' /\ ~Inserting(t)' /\ Made(t)' - Fills(t)' = k /\ Made(t) - Fills(t) = k
  BY <1>5, <1>8 DEF InQuery, Inserting, InCallback, k
<1>10. <<item, <<"query", k>>>> \in Candidates
  BY <1>2
<1>11. \A p \in Candidates : p[2][2] = k /\ p[1] = item <=> p = <<item, <<"query", k>>>>
  <2>1. \A p \in Candidates : p[2][2] = k => p = <<p[1], <<"query", k>>>>
    BY <1>1, <1>2, OfQuery
  <2> QED
    BY <2>1
<1>12. Seen(t)' = Seen(t) \cup {<<item, <<"query", k>>>>}
  <2>1. Seen(t) = {p \in Candidates : p[2][2] <= k /\ ~(p[2][2] = k /\ p[1] \in now[t].hits)}
    BY <1>1, <1>9 DEF Seen
  <2>2. Seen(t)' = {p \in Candidates : p[2][2] <= k /\ ~(p[2][2] = k /\ p[1] \in now[t].hits \ {item})}
    BY <1>5, <1>8, <1>9 DEF Seen
  <2>3. k <= k
    BY <1>2
  <2> QED
    BY <1>10, <1>11, <2>1, <2>2, <2>3
<1>13. t # "main" => Ended("main")'
  <2>1. t # "main" => Ended("main") /\ now'["main"] = now["main"]
    BY <1>1, <1>5, QueriesLate DEF Threads
  <2> QED
    BY <1>4, <2>1 DEF Ended
<1>14. Working(t)'
  <2>1. now'[t].call = Query("base", "query", Made(t)' - Fills(t)') /\ Made(t)' > Fills(t)'
    BY <1>2, <1>5, <1>8, <1>9
  <2>2. \A i \in now'[t].hits : <<i, <<"query", Made(t)' - Fills(t)'>>>> \in Candidates'
    BY <1>2, <1>5, <1>8, <1>9
  <2>3. FoundBy(t)' = Seen(t)'
    BY <1>1, <1>7, <1>12 DEF Working
  <2>4. program' = "handlers" => now'[t].phase \notin InCallback
    BY <1>4, <1>5 DEF InCallback
  <2> QED
    BY <1>1, <1>4, <1>8, <1>9, <1>13, <2>1, <2>2, <2>3, <2>4 DEF Working
<1>15. Filled'
  BY <1>1, <1>2, <1>4, <1>5, <1>8, <1>9, QueriesKeep
<1> QED
  BY <1>4, <1>14, <1>15 DEF Goal

\* The tree is filled before it is queried, step by step.
LEMMA FillNext == FillInv /\ [Next]_vars => FillInv'
<1> SUFFICES ASSUME FillInv, [Next]_vars PROVE FillInv'
  OBVIOUS
<1>1. TreeTypes'
  BY TypesNext DEF FillInv
<1>2. UNCHANGED <<program, library, geoms>>
  BY DEF Next, vars, BeginInsert, EndInsert, BeginQuery, EndQuery, Load, Store, Test, Push, Undefine
<1>3. ASSUME program \in {"blocking", "handlers"}
      PROVE  /\ undefined' => Unlocked'
             /\ Filled' /\ \A t \in Threads : Working(t)'
  <2>1. CASE UNCHANGED vars
    <3>1. /\ Candidates' = Candidates /\ \A t : Fills(t)' = Fills(t) /\ Made(t)' = Made(t)
          /\ \A t, k : CallNo(t, k)' = CallNo(t, k)
      BY <1>2, <2>1, Same DEF Made, vars
    <3> QED
      BY <1>3, <2>1, <3>1 DEF vars, FillInv, FillsFirst, Filled, Working, Inserting, InQuery, Ended, Seen, FoundBy,
         Unlocked
  <2>2. CASE ~(UNCHANGED vars)
    <3>1. PICK t \in Threads : Acts(t)
      BY <2>2 DEF Next, Acts
    <3>2. ~undefined
      BY <2>2 DEF Next
    <3>3. Goal(t)
      BY <1>3, <3>1, <3>2, BeginInsertWorks, EndInsertWorks, BeginQueryWorks, EndQueryWorks, LoadWorks, CallbackWorks
         DEF Acts
    <3>4. \A u \in Threads : Working(u)'
      BY <1>3, <3>1, <3>3, OthersWork DEF Goal
    <3> QED
      BY <3>3, <3>4 DEF Goal
  <2> QED
    BY <2>1, <2>2
<1> QED
  BY <1>1, <1>2, <1>3 DEF FillInv, FillsFirst

\* A thread that has looked up every geometry has found all that meets them.
LEMMA AllFound ==
  ASSUME FillInv, program \in {"blocking", "handlers"}, AllEnded, NEW t \in Threads, Looks(t) = Len(geoms["query"])
  PROVE  FoundBy(t) = Candidates
<1>1. TreeTypes /\ Working(t) /\ calls[t] = <<>> /\ now[t] = Idle
  BY DEF FillInv, FillsFirst, AllEnded, Ended
<1>2. Made(t) - Fills(t) = Len(geoms["query"]) /\ Len(geoms["query"]) \in Nat
  BY <1>1, Numbers
<1>3. ~InQuery(t)
  BY <1>1 DEF InQuery, InCallback, Idle
<1>4. \A p \in Candidates : p[2][2] \in 1 .. Len(geoms["query"])
  BY <1>1, Pairs, Numbers
<1>5. \A p \in Candidates : p[2][2] <= Made(t) - Fills(t)
  BY <1>2, <1>4
<1>6. Seen(t) = Candidates
  BY <1>3, <1>5 DEF Seen
<1> QED
  BY <1>1, <1>6 DEF Working

\* The handlers of the DPU of exp2, which share a tree, all find what meets their
\* queries, and nothing else; only a query that begins while another builds the
\* tree is undefined, and only where the library does not lock the building.
THEOREM QueriesAgreeAlways == Spec => []QueriesAgree
<1>1. FillInv => QueriesAgree
  <2> SUFFICES ASSUME FillInv, program = "handlers"
               PROVE  /\ undefined => Unlocked
                      /\ \A t \in {"thread1", "thread2"} :
                           FoundBy(t) \subseteq Candidates /\ (AllEnded => FoundBy(t) = Candidates)
    BY DEF QueriesAgree, Unlocked
  <2>1. undefined => Unlocked
    BY DEF FillInv, FillsFirst
  <2>2. ASSUME NEW t \in {"thread1", "thread2"}
        PROVE  FoundBy(t) \subseteq Candidates /\ (AllEnded => FoundBy(t) = Candidates)
    <3>1. Working(t) /\ t \in Threads
      BY DEF FillInv, FillsFirst, Threads
    <3>2. FoundBy(t) \subseteq Candidates
      BY <3>1 DEF Working, Seen
    <3>3. Looks(t) = Len(geoms["query"])
      BY DEF Looks
    <3> QED
      BY <3>1, <3>2, <3>3, AllFound
  <2> QED
    BY <2>1, <2>2
<1> QED
  BY <1>1, FillInit, FillNext, PTL DEF Spec
-----------------------------------------------------------------------------
\* The counter of the blocking program ---------------------------------------

\* Quotient and remainder.
LEMMA DivMod ==
  ASSUME NEW n \in Nat, NEW e \in Nat \ {0}
  PROVE  n = e * (n \div e) + (n % e) /\ n % e \in 0 .. e - 1 /\ n \div e \in Nat
BY SMTT(30)

\* Quotients are unique.
LEMMA Unique ==
  ASSUME NEW e \in Nat \ {0}, NEW q1 \in Int, NEW q2 \in Int, NEW r1 \in 0 .. e - 1, NEW r2 \in 0 .. e - 1,
         e * q1 + r1 = e * q2 + r2
  PROVE  q1 = q2
<1>1. e * (q1 - q2) = r2 - r1
  OBVIOUS
<1>2. q1 - q2 >= 1 => e * (q1 - q2) >= e
  OBVIOUS
<1>3. q1 - q2 <= -1 => e * (q1 - q2) <= -e
  OBVIOUS
<1> QED
  BY <1>1, <1>2, <1>3

\* The quotient grows when it comes to a multiple.
LEMMA OneMore ==
  ASSUME NEW n \in Nat \ {0}, NEW e \in Nat \ {0}
  PROVE  n \div e = IF n % e = 0 THEN ((n - 1) \div e) + 1 ELSE (n - 1) \div e
<1> DEFINE q == n \div e
           r == n % e
           p == (n - 1) \div e
           s == (n - 1) % e
<1>1. n = e * q + r /\ r \in 0 .. e - 1 /\ q \in Nat
  BY DivMod
<1>2. n - 1 = e * p + s /\ s \in 0 .. e - 1 /\ p \in Nat
  <2>1. n - 1 \in Nat
    OBVIOUS
  <2> QED
    BY <2>1, DivMod
<1> HIDE DEF q, r, p, s
<1>3. CASE r = 0
  <2>1. e * q + 0 = e * p + s + 1
    BY <1>1, <1>2, <1>3
  <2>2. e * q + (e - 1) = e * (p + 1) + s
    BY <1>1, <1>2, <2>1
  <2>3. e - 1 \in 0 .. e - 1 /\ p + 1 \in Int
    BY <1>2
  <2>4. q = p + 1
    BY <1>1, <1>2, <2>2, <2>3, Unique
  <2> QED
    BY <1>3, <2>4 DEF q, r, p
<1>4. CASE r # 0
  <2>1. e * q + (r - 1) = e * p + s /\ r - 1 \in 0 .. e - 1
    BY <1>1, <1>2, <1>4
  <2>2. q = p
    BY <1>1, <1>2, <2>1, Unique
  <2> QED
    BY <1>4, <2>2 DEF q, r, p
<1> QED
  BY <1>3, <1>4

\* The counter and the times pushed when main has found c intersections: in the
\* callback the last one is counted first, then tested, then timed.
Counted(c) ==
  LET phase == now["main"].phase
  IN  /\ intersectCount = IF phase = "loaded" THEN c - 1 ELSE c
      /\ phase = "loaded" => now["main"].loaded = intersectCount
      /\ phase = "pushing" => c % Every = 0
      /\ phase \in {"stored", "pushing"} => c # 0
      /\ elapsedTimes = (IF phase \in InCallback THEN c - 1 ELSE c) \div Every

CountInv ==
  /\ FillInv
  /\ program = "blocking" => IsFiniteSet(FoundBy("main")) /\ Counted(Cardinality(FoundBy("main")))

\* At first nothing is found, counted or timed.
LEMMA CountInit == Init => CountInv
<1> SUFFICES ASSUME Init PROVE CountInv
  OBVIOUS
<1>1. FoundBy("main") = {}
  BY DEF Init, FoundBy
<1>2. IsFiniteSet(FoundBy("main")) /\ Cardinality(FoundBy("main")) = 0
  BY <1>1, FS_EmptySet
<1>3. 0 \div Every = 0
  BY RTreeAssumption
<1>4. now["main"].phase = "idle"
  BY DEF Init, Threads, Idle
<1>5. Counted(0)
  BY <1>3, <1>4 DEF Counted, Init, InCallback
<1> QED
  BY <1>2, <1>5, FillInit DEF CountInv

\* An intersection that is found was not found before.
LEMMA LoadCounts ==
  ASSUME CountInv, program = "blocking", ~undefined, Load("main")
  PROVE  IsFiniteSet(FoundBy("main"))' /\ Counted(Cardinality(FoundBy("main")))'
<1>1. TreeTypes /\ Working("main") /\ "main" \in Threads /\ now \in [Threads -> Activity] /\ InQuery("main")
  BY DEF CountInv, FillInv, FillsFirst, Threads, TreeTypes, Load, InQuery
<1>2. PICK item \in now["main"].hits :
        /\ found' = found \cup {<<"main", item, <<now["main"].call.of, now["main"].call.i>>>>}
        /\ now' = [now EXCEPT !["main"] = [phase |-> "loaded",
                                           call |-> now["main"].call, builds |-> now["main"].builds,
                                           hits |-> now["main"].hits \ {item}, loaded |-> intersectCount]]
  BY DEF Load, Doing
<1> DEFINE pair == <<item, <<now["main"].call.of, now["main"].call.i>>>>
<1>3. FoundBy("main")' = FoundBy("main") \cup {pair}
  BY <1>2, FoundOne
<1>4. pair \notin FoundBy("main")
  <2>1. pair = <<item, <<"query", Made("main") - Fills("main")>>>> /\ pair \in Candidates
    BY <1>1, <1>2 DEF Working, Query
  <2>2. FoundBy("main") = Seen("main")
    BY <1>1 DEF Working
  <2>3. pair[1] = item /\ pair[2][2] = Made("main") - Fills("main")
    BY <2>1
  <2> QED
    BY <1>1, <1>2, <2>1, <2>2, <2>3 DEF Seen
<1> HIDE DEF pair
<1>5. PICK c \in Nat : c = Cardinality(FoundBy("main")) /\ IsFiniteSet(FoundBy("main")) /\ Counted(c)
  BY FS_CardinalityType DEF CountInv
<1>6. IsFiniteSet(FoundBy("main") \cup {pair}) /\ Cardinality(FoundBy("main") \cup {pair}) = c + 1
  BY <1>4, <1>5, FS_AddElement
<1>7. IsFiniteSet(FoundBy("main")') /\ Cardinality(FoundBy("main")') = c + 1
  BY <1>3, <1>6
<1>8. now["main"].phase = "querying" /\ now'["main"].phase = "loaded" /\ now'["main"].loaded = intersectCount
      /\ intersectCount' = intersectCount /\ elapsedTimes' = elapsedTimes
  BY <1>1, <1>2 DEF Load
<1>9. intersectCount = c /\ elapsedTimes = c \div Every
  BY <1>5, <1>8 DEF Counted, InCallback
<1>10. Counted(c + 1)'
  <2>1. (c + 1) - 1 = c
    OBVIOUS
  <2> QED
    BY <1>8, <1>9, <2>1 DEF Counted, InCallback
<1> QED
  BY <1>7, <1>10

\* A step of main that finds nothing.
LEMMA CallbackCounts ==
  ASSUME CountInv, program = "blocking", ~undefined, ~undefined', NEW t \in Threads, Acts(t), ~Load(t),
         NEW c \in Nat, Counted(c)
  PROVE  Counted(c)'
<1>1. TreeTypes /\ now \in [Threads -> Activity] /\ FillInv /\ ~Undefine
  BY DEF CountInv, FillInv, TreeTypes, Undefine
<1>2. t = "main"
  <2>1. ASSUME t # "main" PROVE FALSE
    <3>1. now[t] = Idle /\ calls[t] = <<>>
      BY <1>1, <2>1, Others
    <3>2. now[t].phase = "idle"
      BY <3>1 DEF Idle
    <3> QED
      BY <3>1, <3>2, Busy
  <2> QED
    BY <2>1
<1> DEFINE x == now["main"]
<1>3. "main" \in Threads /\ x \in Activity
  BY <1>1 DEF Threads
<1>4. CASE BeginInsert(t) \/ EndInsert(t) \/ BeginQuery(t) \/ EndQuery(t)
  <2>1. now["main"].phase \notin InCallback
    <3>1. BeginInsert(t) \/ BeginQuery(t) => now[t].phase = "idle"
      <4>1. BeginInsert(t) \/ BeginQuery(t) => now[t] = Idle
        BY DEF BeginInsert, BeginQuery, Starts
      <4> QED
        BY <4>1 DEF Idle
    <3>2. EndInsert(t) \/ EndQuery(t) => now[t].phase \in {"inserting", "querying"}
      BY DEF EndInsert, EndQuery
    <3> QED
      BY <1>2, <1>4, <3>1, <3>2 DEF InCallback
  <2>2. now'["main"].phase \notin InCallback
    <3>1. now \in [Threads -> Activity] /\ "main" \in Threads
      BY <1>1, <1>3
    <3>2. BeginInsert(t) => \E c1, c2 : now' = [now EXCEPT ![t] = [phase |-> "inserting", call |-> c1, builds |-> c2]]
      BY <1>1 DEF BeginInsert, Doing
    <3>3. BeginQuery(t) => \E c1, c2, c3 : now' = [now EXCEPT ![t] = [phase |-> "querying", call |-> c1,
                                                                       builds |-> c2, hits |-> c3]]
      BY <1>1 DEF BeginQuery, Doing
    <3>4. EndInsert(t) \/ EndQuery(t) => now' = [now EXCEPT ![t] = Idle]
      BY DEF EndInsert, EndQuery, Doing
    <3>5. now'["main"].phase \in {"inserting", "querying", "idle"}
      BY <1>2, <1>4, <3>1, <3>2, <3>3, <3>4 DEF Idle
    <3> QED
      BY <3>5 DEF InCallback
  <2>3. intersectCount' = intersectCount /\ elapsedTimes' = elapsedTimes
    BY <1>1, <1>4 DEF BeginInsert, EndInsert, BeginQuery, EndQuery
  <2> QED
    BY <2>1, <2>2, <2>3 DEF Counted, InCallback
<1>5. CASE Store(t)
  <2>1. x.phase = "loaded" /\ intersectCount' = x.loaded + 1 /\ elapsedTimes' = elapsedTimes
        /\ now' = [now EXCEPT !["main"] = [x EXCEPT !.phase = "stored"]]
    BY <1>2, <1>5 DEF Store, Doing
  <2>2. now'["main"].phase = "stored"
    BY <1>1, <1>3, <2>1, Moved DEF InCallback
  <2>3. /\ intersectCount = c - 1 /\ x.loaded = intersectCount /\ intersectCount \in Nat
        /\ elapsedTimes = (c - 1) \div Every
    BY <1>1, <2>1 DEF Counted, InCallback, TreeTypes
  <2>4. intersectCount' = c /\ c # 0
    BY <2>1, <2>3
  <2> QED
    BY <2>1, <2>2, <2>3, <2>4 DEF Counted, InCallback
<1>6. CASE Test(t)
  <2> DEFINE ph == IF intersectCount % Every = 0 THEN "pushing" ELSE "querying"
  <2>1. x.phase = "stored" /\ intersectCount' = intersectCount /\ elapsedTimes' = elapsedTimes
        /\ now' = [now EXCEPT !["main"] = [x EXCEPT !.phase = ph]]
    BY <1>2, <1>6 DEF Test, Doing
  <2>2. now'["main"].phase = ph
    BY <1>1, <1>3, <2>1, Moved DEF InCallback
  <2>3. intersectCount = c /\ c # 0 /\ elapsedTimes = (c - 1) \div Every
    BY <2>1 DEF Counted, InCallback
  <2>4. c % Every # 0 => c \div Every = (c - 1) \div Every
    BY <2>3, RTreeAssumption, OneMore
  <2>5. CASE c % Every = 0
    BY <2>1, <2>2, <2>3, <2>5 DEF Counted, InCallback
  <2>6. CASE c % Every # 0
    BY <2>1, <2>2, <2>3, <2>4, <2>6 DEF Counted, InCallback
  <2> QED
    BY <2>5, <2>6
<1>7. CASE Push(t)
  <2>1. x.phase = "pushing" /\ intersectCount' = intersectCount /\ elapsedTimes' = elapsedTimes + 1
        /\ now' = [now EXCEPT !["main"] = [x EXCEPT !.phase = "querying"]]
    BY <1>1, <1>2, <1>7 DEF Push, Doing
  <2>2. now'["main"].phase = "querying"
    BY <1>1, <1>3, <2>1, Moved DEF InCallback
  <2>3. intersectCount = c /\ c # 0 /\ c % Every = 0 /\ elapsedTimes = (c - 1) \div Every
    BY <2>1 DEF Counted, InCallback
  <2>4. c \div Every = ((c - 1) \div Every) + 1
    BY <2>3, RTreeAssumption, OneMore
  <2> QED
    BY <2>1, <2>2, <2>3, <2>4 DEF Counted, InCallback
<1> QED
  BY <1>4, <1>5, <1>6, <1>7 DEF Acts

\* A step of main counts what it finds.
LEMMA CountNext == CountInv /\ [Next]_vars => CountInv'
<1> SUFFICES ASSUME CountInv, [Next]_vars PROVE CountInv'
  OBVIOUS
<1>1. FillInv /\ FillInv'
  BY FillNext DEF CountInv
<1>2. program' = program
  BY DEF Next, vars, BeginInsert, EndInsert, BeginQuery, EndQuery, Load, Store, Test, Push, Undefine
<1>3. ASSUME program = "blocking"
      PROVE  IsFiniteSet(FoundBy("main"))' /\ Counted(Cardinality(FoundBy("main")))'
  <2>1. CASE UNCHANGED vars
    BY <1>3, <2>1 DEF CountInv, vars, Counted, FoundBy
  <2>2. CASE ~(UNCHANGED vars)
    <3>1. PICK t \in Threads : Acts(t)
      BY <2>2 DEF Next, Acts
    <3>2. ~undefined /\ ~undefined'
      BY <1>1, <1>2, <1>3, <2>2 DEF Next, FillInv, FillsFirst, Unlocked
    <3>3. CASE Load(t)
      <4>1. ASSUME t # "main" PROVE FALSE
        <5>1. now[t] = Idle
          BY <1>1, <1>3, <4>1, Others
        <5> QED
          BY <3>3, <5>1 DEF Load, Idle
      <4> QED
        BY <1>3, <3>2, <3>3, <4>1, LoadCounts
    <3>4. CASE ~Load(t)
      <4>1. FoundBy("main")' = FoundBy("main")
        BY <3>1, <3>4 DEF FoundBy, Acts, BeginInsert, EndInsert, BeginQuery, EndQuery, Store, Test, Push, Undefine
      <4>2. PICK c \in Nat : c = Cardinality(FoundBy("main")) /\ IsFiniteSet(FoundBy("main")) /\ Counted(c)
        BY <1>3, FS_CardinalityType DEF CountInv
      <4>3. Counted(c)'
        BY <1>3, <3>1, <3>2, <3>4, <4>2, CallbackCounts
      <4>4. Cardinality(FoundBy("main"))' = c /\ IsFiniteSet(FoundBy("main"))'
        BY <4>1, <4>2
      <4> QED
        BY <4>3, <4>4
    <3> QED
      BY <3>3, <3>4
  <2> QED
    BY <2>1, <2>2
<1> QED
  BY <1>1, <1>2, <1>3 DEF CountInv

\* Geometries that intersect meet as envelopes do.
LEMMA MoreMeet == TreeTypes => Intersecting \subseteq Candidates
<1> SUFFICES ASSUME TreeTypes, NEW p \in Intersecting PROVE p \in Candidates
  OBVIOUS
<1>1. p \in Items("base") \X Items("query") /\ Geometry(p[1]) \cap Geometry(p[2]) # {}
  BY DEF Intersecting
<1>2. p[1][1] = "base" /\ p[1][2] \in DOMAIN geoms["base"]
  BY <1>1 DEF Items
<1>3. Geometry(p[1]) \in Geometries
  <2>1. geoms["base"] \in Seq(Geometries)
    BY DEF TreeTypes, Sides
  <2> QED
    BY <1>2, <2>1 DEF Geometry
<1>4. Geometry(p[1]) \subseteq Envelope(Geometry(p[1]))
  BY <1>3, InEnvelope
<1> QED
  BY <1>1, <1>4 DEF Candidates, Meets

\* However long its files are, exp1_blocking_rtree counts the queries that meet
\* an envelope, never fewer than intersect, and pushes a time for every so many.
THEOREM BlockingIsExactAlways == Spec => []BlockingIsExact
<1>1. CountInv => BlockingIsExact
  <2> SUFFICES ASSUME CountInv, program = "blocking"
               PROVE  /\ ~undefined
                      /\ AllEnded => /\ intersectCount = Cardinality(Candidates)
                                     /\ intersectCount >= Cardinality(Intersecting)
                                     /\ elapsedTimes = intersectCount \div Every
    BY DEF BlockingIsExact
  <2>1. ~undefined /\ FillInv /\ TreeTypes /\ "main" \in Threads
    BY DEF CountInv, FillInv, FillsFirst, Unlocked, Threads
  <2>2. ASSUME AllEnded
        PROVE  /\ intersectCount = Cardinality(Candidates) /\ intersectCount >= Cardinality(Intersecting)
               /\ elapsedTimes = intersectCount \div Every
    <3>1. Looks("main") = Len(geoms["query"])
      BY DEF Looks
    <3>2. FoundBy("main") = Candidates
      BY <2>1, <2>2, <3>1, AllFound
    <3>3. IsFiniteSet(Candidates) /\ Counted(Cardinality(Candidates))
      BY <3>2 DEF CountInv
    <3>4. now["main"].phase = "idle"
      BY <2>1, <2>2 DEF AllEnded, Ended, Idle
    <3>5. intersectCount = Cardinality(Candidates) /\ elapsedTimes = Cardinality(Candidates) \div Every
      BY <3>3, <3>4 DEF Counted, InCallback
    <3>6. Cardinality(Intersecting) <= Cardinality(Candidates) /\ Cardinality(Candidates) \in Nat
          /\ Cardinality(Intersecting) \in Nat
      BY <2>1, <3>3, MoreMeet, FS_Subset, FS_CardinalityType
    <3>7. Cardinality(Candidates) >= Cardinality(Intersecting)
      BY <3>6
    <3> QED
      BY <3>5, <3>7
  <2> QED
    BY <2>1, <2>2
<1> QED
  BY <1>1, CountInit, CountNext, PTL DEF Spec
=============================================================================

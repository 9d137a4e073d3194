-------------------------- MODULE StaticSchemesProofs -----------------------
(***************************************************************************)
(* The parts of the split file are read between their making and their     *)
(* removal, and there is a rank for each, for every number of ranks and    *)
(* lines; and what rank 0 reports is complete and fair.                    *)
(*                                                                         *)
(* The second needs what a recursive sum over the ranks comes to.  It is   *)
(* argued by a least counterexample: the subsets of a finite set are well  *)
(* founded (FiniteSetTheorems), so every set of numbers has a least one    *)
(* (LeastNumber), so two functions that total the same numbers cannot      *)
(* differ (TotalsUnique), and the sizes of a partition total the whole     *)
(* (PartitionTotal).                                                       *)
(***************************************************************************)
EXTENDS StaticSchemes, FiniteSetTheorems, WellFoundedInduction, TLAPS

Places == {"start", "barrier", "read", "loop", "reduce"}
PartOf(r) == IF r + 1 \in DOMAIN Parts THEN Parts[r + 1]
             ELSE IF r + 1 <= left THEN LeftBehind[r + 1] ELSE {}

\* The types the argument needs.
PartTypes ==
  /\ program \in {"spatial", "file"}
  /\ program = "file" => line_count \in Nat
  /\ left \in 0 .. numProcs
  /\ pc \in [Ranks -> Places] /\ phase \in [Ranks -> Nat]
  /\ geoms = [r \in Ranks |-> geoms[r]] /\ sent = [r \in Ranks |-> sent[r]]

\* What the place of a rank of the file program tells: until a rank is in its
\* reductions it has contributed nothing, and its part is what it has read.
PlaceOf(r) ==
  /\ pc[r] \in {"start", "barrier", "read"} => phase[r] = 1
  /\ phase[r] \in {1, 2}
  /\ pc[r] # "reduce" /\ phase[r] = 1 => sent[r] = <<>>
  /\ pc[r] \in {"loop", "reduce"} => geoms[r] = PartOf(r)

\* Nobody is past the barrier while a rank has yet to come to it; the parts are
\* there from when the root has made them until it is done.
PartsThere ==
  /\ (\E s \in Ranks : pc[s] = "start") => \A r \in Ranks : pc[r] \in {"start", "barrier"}
  /\ pc[root] = "start" => directory = LeftBehind
  /\ pc[root] # "start" /\ phase[root] = 1 => directory = Split(LeftBehind)
  /\ phase[root] = 2 =>
       directory = <<>> /\ \A r \in Ranks : pc[r] \notin {"start", "barrier", "read"}

PartInv ==
  /\ PartTypes
  /\ program = "file" => PartsThere /\ \A r \in Ranks : PlaceOf(r)
  /\ program = "spatial" => directory = <<>> /\ \A r \in Ranks : pc[r] \in {"loop", "reduce"}
-----------------------------------------------------------------------------
\* A part holds a line more than a fair share, rounded down, so that as many
\* parts as there are ranks hold every line.
LEMMA NoMorePartsThanRanks ==
  ASSUME PartTypes, program = "file"
  PROVE  Parts \in Seq(SUBSET Int) /\ Len(Parts) <= numProcs
<1> DEFINE q == line_count \div numProcs
           size == line_count_per_file
           d == (line_count + size - 1) \div size
<1>1. line_count \in Nat /\ numProcs \in Nat /\ numProcs > 0
  BY CountsAssumption DEF PartTypes
<1>2. q \in Nat /\ line_count < numProcs * (q + 1)
  <2> DEFINE rest == line_count % numProcs
  <2>1. line_count = numProcs * q + rest /\ rest \in 0 .. numProcs - 1 /\ q \in Nat
    BY <1>1
  <2> HIDE DEF q, rest
  <2>2. numProcs * (q + 1) = numProcs * q + numProcs /\ numProcs * q \in Nat
    BY <1>1, <2>1
  <2> QED
    BY <1>1, <2>1, <2>2
<1>3. size \in Nat /\ size > 0 /\ line_count < numProcs * size
  BY <1>2 DEF line_count_per_file
<1> HIDE DEF size
<1>4. d \in Nat /\ size * d <= line_count + size - 1
  BY <1>1, <1>3
<1> HIDE DEF d
<1>5. d <= numProcs
  <2> SUFFICES ASSUME d > numProcs PROVE FALSE
    BY <1>1, <1>4
  <2>1. size * d >= size * (numProcs + 1)
    BY <1>1, <1>3, <1>4
  <2>2. size * (numProcs + 1) = numProcs * size + size
    BY <1>1, <1>3
  <2> QED
    BY <1>1, <1>3, <1>4, <2>1, <2>2
<1>6. Parts = [k \in 1 .. d |-> (k - 1) * size .. Least(k * size, line_count) - 1]
  BY DEF Parts, size, d
<1>7. \A k \in 1 .. d : (k - 1) * size .. Least(k * size, line_count) - 1 \in SUBSET Int
  BY <1>1, <1>3, <1>4 DEF Least
<1> QED
  BY <1>4, <1>5, <1>6, <1>7
\* What the directory holds after the split: parts of this run and, beyond
\* them, of an aborted one.
LEMMA AfterSplit ==
  ASSUME PartTypes, program = "file"
  PROVE  /\ Len(LeftBehind) <= numProcs /\ Len(Split(LeftBehind)) <= numProcs
         /\ \A r \in Ranks :
              PartOf(r) = IF r + 1 \in DOMAIN Split(LeftBehind) THEN Split(LeftBehind)[r + 1] ELSE {}
<1> DEFINE larger == IF Len(LeftBehind) > Len(Parts) THEN Len(LeftBehind) ELSE Len(Parts)
<1>1. /\ LeftBehind \in Seq(SUBSET Int) /\ Len(LeftBehind) = left
      /\ left \in Nat /\ left <= numProcs /\ numProcs \in Nat
  <2>1. left \in Nat /\ left <= numProcs /\ numProcs \in Nat
    BY CountsAssumption DEF PartTypes
  <2>2. \A k \in 1 .. left : {-k} \in SUBSET Int
    OBVIOUS
  <2>3. LeftBehind \in Seq(SUBSET Int) /\ Len(LeftBehind) = left
    BY <2>1, <2>2 DEF LeftBehind
  <2> QED
    BY <2>1, <2>3
<1>2. Parts \in Seq(SUBSET Int) /\ Len(Parts) <= numProcs
  BY NoMorePartsThanRanks
<1>3. larger \in Nat /\ larger <= numProcs
  BY <1>1, <1>2
<1>4. Split(LeftBehind) = [k \in 1 .. larger |-> IF k \in DOMAIN Parts THEN Parts[k] ELSE LeftBehind[k]]
  BY DEF Split
<1>5. DOMAIN Parts = 1 .. Len(Parts) /\ Len(Parts) \in Nat
  BY <1>2
<1>6. \A k \in 1 .. larger :
        (IF k \in DOMAIN Parts THEN Parts[k] ELSE LeftBehind[k]) \in SUBSET Int
  BY <1>1, <1>2, <1>5
<1> HIDE DEF larger
<1>7. Split(LeftBehind) \in Seq(SUBSET Int) /\ Len(Split(LeftBehind)) = larger
  BY <1>3, <1>4, <1>6
<1>8. ASSUME NEW r \in Ranks
      PROVE  PartOf(r) = IF r + 1 \in DOMAIN Split(LeftBehind) THEN Split(LeftBehind)[r + 1] ELSE {}
  <2>1. r + 1 \in Nat \ {0}
    BY <1>1 DEF Ranks
  <2>2. r + 1 \in 1 .. larger <=> (r + 1 \in DOMAIN Parts \/ r + 1 <= left)
    BY <1>1, <1>5, <2>1 DEF larger
  <2> QED
    BY <1>4, <2>2 DEF PartOf
<1> QED
  BY <1>1, <1>3, <1>7, <1>8
-----------------------------------------------------------------------------
LEMMA RootIsRank == root \in Ranks
BY CountsAssumption DEF root, Ranks

\* The file program has one phase.
LEMMA OnePhase ==
  ASSUME PartTypes, program = "file", NEW r \in Ranks, phase[r] \in {1, 2}
  PROVE  Done(r) <=> phase[r] = 2
<1>1. Len(Phases) = 1
  BY DEF Phases
<1> QED
  BY <1>1 DEF Done

LEMMA PartInit == Init => PartInv
<1> SUFFICES ASSUME Init PROVE PartInv
  OBVIOUS
<1>1. PartTypes
  BY CountsAssumption, LinesAssumption DEF Init, PartTypes, Places
<1>2. program = "file" => PartsThere /\ \A r \in Ranks : PlaceOf(r)
  BY RootIsRank DEF Init, PartsThere, PlaceOf
<1>3. program = "spatial" => directory = <<>> /\ \A r \in Ranks : pc[r] \in {"loop", "reduce"}
  BY DEF Init, LeftBehind
<1> QED
  BY <1>1, <1>2, <1>3 DEF PartInv

\* Steps that leave alone what the parts depend on.
LEMMA PartStutter ==
  ASSUME PartInv, UNCHANGED <<program, line_count, left, pc, phase, geoms, directory, sent>>
  PROVE  PartInv'
<1>1. Split(LeftBehind)' = Split(LeftBehind) /\ LeftBehind' = LeftBehind
  BY DEF Parts, line_count_per_file, Split, LeftBehind
<1>2. \A r : PartOf(r)' = PartOf(r)
  BY DEF Parts, line_count_per_file, PartOf, LeftBehind
<1> QED
  BY <1>1, <1>2 DEF PartInv, PartTypes, PartsThere, PlaceOf

\* A rank goes into its reductions, and all but the root through them.
LEMMA PartEnterReduce ==
  ASSUME PartInv, NEW r \in Ranks, EnterReduce(r)
  PROVE  PartInv'
<1>1. pc[r] = "loop" /\ ~Done(r)
      /\ UNCHANGED <<program, line_count, left, geoms, directory>>
  BY DEF EnterReduce, At
<1>2. Split(LeftBehind)' = Split(LeftBehind) /\ \A s : PartOf(s)' = PartOf(s)
  BY <1>1 DEF Parts, line_count_per_file, PartOf, Split, LeftBehind
<1>3. CASE r = root
  <2>1. pc' = [pc EXCEPT ![r] = "reduce"] /\ phase' = phase
        /\ sent' = [s \in Ranks |-> sent'[s]] /\ \A s \in Ranks : s # r => sent'[s] = sent[s]
    BY <1>3 DEF EnterReduce, PartInv, PartTypes
  <2>2. PartTypes'
    BY <1>1, <2>1 DEF PartInv, PartTypes, Places
  <2>3. program = "file" => PartsThere' /\ \A s \in Ranks : PlaceOf(s)'
    BY <1>1, <1>2, <1>3, <2>1, RootIsRank DEF PartInv, PartTypes, PartsThere, PlaceOf
  <2> QED
    BY <1>1, <2>1, <2>2, <2>3 DEF PartInv, PartTypes
<1>4. CASE r # root
  <2>1. pc' = [pc EXCEPT ![r] = "loop"] /\ phase' = [phase EXCEPT ![r] = @ + 1]
        /\ sent' = [s \in Ranks |-> sent'[s]] /\ \A s \in Ranks : s # r => sent'[s] = sent[s]
    BY <1>4 DEF EnterReduce, NextPhase, PartInv, PartTypes
  <2>2. PartTypes'
    <3>1. pc' \in [Ranks -> Places]
      BY <2>1 DEF PartInv, PartTypes, Places
    <3>2. phase' \in [Ranks -> Nat]
      BY <2>1 DEF PartInv, PartTypes
    <3> QED
      BY <1>1, <2>1, <3>1, <3>2 DEF PartInv, PartTypes
  <2>3. ASSUME program = "file" PROVE PartsThere' /\ \A s \in Ranks : PlaceOf(s)'
    <3>1. phase[r] = 1 /\ phase'[r] = 2
      BY <1>1, <2>1, <2>3, OnePhase DEF PartInv, PartTypes, PlaceOf
    <3>2. PartsThere'
      BY <1>1, <1>2, <1>4, <2>1, <2>3, RootIsRank DEF PartInv, PartTypes, PartsThere
    <3>3. \A s \in Ranks : PlaceOf(s)'
      BY <1>1, <1>2, <2>1, <2>3, <3>1 DEF PartInv, PartTypes, PlaceOf
    <3> QED
      BY <3>2, <3>3
  <2> QED
    BY <1>1, <2>1, <2>2, <2>3 DEF PartInv, PartTypes
<1> QED
  BY <1>3, <1>4

\* The root waits for the contributions of all ranks, so that all have read
\* their parts when it removes them.
LEMMA PartReduce == PartInv /\ Reduce => PartInv'
<1> SUFFICES ASSUME PartInv, Reduce PROVE PartInv'
  OBVIOUS
<1>1. /\ pc[root] = "reduce" /\ ~Done(root) /\ directory' = <<>>
      /\ \A r \in Ranks : Len(sent[r]) >= phase[root]
      /\ pc' = [pc EXCEPT ![root] = "loop"] /\ phase' = [phase EXCEPT ![root] = @ + 1]
      /\ UNCHANGED <<program, line_count, left, geoms, sent>>
  BY DEF Reduce, At, NextPhase
<1>2. Split(LeftBehind)' = Split(LeftBehind) /\ \A s : PartOf(s)' = PartOf(s)
  BY <1>1 DEF Parts, line_count_per_file, PartOf, Split, LeftBehind
<1>3. PartTypes'
  BY <1>1, RootIsRank DEF PartInv, PartTypes, Places
<1>4. ASSUME program = "file" PROVE PartsThere' /\ \A s \in Ranks : PlaceOf(s)'
  <2>1. phase[root] = 1 /\ phase'[root] = 2
    BY <1>1, <1>4, OnePhase, RootIsRank DEF PartInv, PartTypes, PlaceOf
  <2>2. \A s \in Ranks : pc[s] \notin {"start", "barrier", "read"}
    <3> SUFFICES ASSUME NEW s \in Ranks, pc[s] \in {"start", "barrier", "read"} PROVE FALSE
      OBVIOUS
    <3>1. sent[s] = <<>>
      BY <1>4 DEF PartInv, PlaceOf
    <3> QED
      BY <1>1, <2>1, <3>1
  <2>3. \A s \in Ranks : pc'[s] \notin {"start", "barrier", "read"}
    BY <1>1, <2>2, RootIsRank DEF PartInv, PartTypes
  <2>4. PartsThere'
    BY <1>1, <2>1, <2>3, RootIsRank DEF PartsThere
  <2>5. \A s \in Ranks : PlaceOf(s)'
    BY <1>1, <1>2, <1>4, <2>1, <2>3, RootIsRank DEF PartInv, PartTypes, PlaceOf
  <2> QED
    BY <2>4, <2>5
<1>5. program = "spatial" => directory' = <<>> /\ \A r \in Ranks : pc'[r] \in {"loop", "reduce"}
  BY <1>1, RootIsRank DEF PartInv, PartTypes
<1> QED
  BY <1>1, <1>3, <1>4, <1>5 DEF PartInv

\* Rank 0 makes the parts before it comes to the barrier.
LEMMA PartEnterBarrier ==
  ASSUME PartInv, NEW r \in Ranks, EnterBarrier(r)
  PROVE  PartInv'
<1>1. /\ pc[r] = "start" /\ pc' = [pc EXCEPT ![r] = "barrier"]
      /\ directory' = IF r = root THEN Split(directory) ELSE directory
      /\ UNCHANGED <<program, line_count, left, phase, geoms, sent>>
  BY DEF EnterBarrier, At
<1>2. Split(LeftBehind)' = Split(LeftBehind) /\ \A s : PartOf(s)' = PartOf(s)
  BY <1>1 DEF Parts, line_count_per_file, PartOf, Split, LeftBehind
<1>3. PartTypes'
  BY <1>1 DEF PartInv, PartTypes, Places
<1>4. program = "file"
  BY <1>1 DEF PartInv, PartTypes
<1>5. \A s \in Ranks : pc[s] \in {"start", "barrier"} /\ pc'[s] \in {"start", "barrier"}
  BY <1>1, <1>4 DEF PartInv, PartTypes, PartsThere
<1>6. phase[root] = 1
  BY <1>4, <1>5, RootIsRank DEF PartInv, PlaceOf
<1>7. PartsThere'
  <2>1. pc'[root] # "start" => directory' = Split(LeftBehind)
    BY <1>1, <1>4, <1>6, RootIsRank DEF PartInv, PartTypes, PartsThere
  <2>2. pc'[root] = "start" => directory' = LeftBehind /\ LeftBehind' = LeftBehind
    BY <1>1, <1>4, RootIsRank DEF PartInv, PartTypes, PartsThere, LeftBehind
  <2> QED
    BY <1>1, <1>2, <1>5, <1>6, <2>1, <2>2 DEF PartsThere
<1>8. \A s \in Ranks : PlaceOf(s)'
  BY <1>1, <1>2, <1>4, <1>5 DEF PartInv, PartTypes, PlaceOf
<1> QED
  BY <1>1, <1>3, <1>4, <1>7, <1>8 DEF PartInv

LEMMA PartLeaveBarrier ==
  ASSUME PartInv, NEW r \in Ranks, LeaveBarrier(r)
  PROVE  PartInv'
<1>1. /\ pc[r] = "barrier" /\ pc' = [pc EXCEPT ![r] = "read"]
      /\ \A s \in Ranks : pc[s] # "start"
      /\ UNCHANGED <<program, line_count, left, phase, geoms, directory, sent>>
  BY DEF LeaveBarrier, At
<1>2. Split(LeftBehind)' = Split(LeftBehind) /\ \A s : PartOf(s)' = PartOf(s)
  BY <1>1 DEF Parts, line_count_per_file, PartOf, Split, LeftBehind
<1>3. PartTypes'
  BY <1>1 DEF PartInv, PartTypes, Places
<1>4. program = "file"
  BY <1>1 DEF PartInv, PartTypes
<1>5. PartsThere'
  BY <1>1, <1>2, <1>4, RootIsRank DEF PartInv, PartTypes, PartsThere
<1>6. \A s \in Ranks : PlaceOf(s)'
  BY <1>1, <1>2, <1>4 DEF PartInv, PartTypes, PlaceOf
<1> QED
  BY <1>1, <1>3, <1>4, <1>5, <1>6 DEF PartInv

\* A rank that reads is past the barrier, and the root not yet at its end.
LEMMA PartReadPart ==
  ASSUME PartInv, NEW r \in Ranks, ReadPart(r)
  PROVE  PartInv'
<1>1. /\ pc[r] = "read" /\ pc' = [pc EXCEPT ![r] = "loop"]
      /\ geoms' = [geoms EXCEPT ![r] = IF r + 1 \in DOMAIN directory THEN directory[r + 1] ELSE {}]
      /\ UNCHANGED <<program, line_count, left, phase, directory, sent>>
  BY DEF ReadPart, At
<1>2. Split(LeftBehind)' = Split(LeftBehind) /\ \A s : PartOf(s)' = PartOf(s)
  BY <1>1 DEF Parts, line_count_per_file, PartOf, Split, LeftBehind
<1>3. PartTypes'
  BY <1>1 DEF PartInv, PartTypes, Places
<1>4. program = "file"
  BY <1>1 DEF PartInv, PartTypes
<1>5. pc[root] # "start" /\ phase[root] = 1
  BY <1>1, <1>4, RootIsRank DEF PartInv, PartsThere, PlaceOf
<1>6. geoms'[r] = PartOf(r)
  BY <1>1, <1>4, <1>5, AfterSplit DEF PartInv, PartTypes, PartsThere
<1>7. PartsThere'
  BY <1>1, <1>2, <1>4, RootIsRank DEF PartInv, PartTypes, PartsThere
<1>8. \A s \in Ranks : PlaceOf(s)'
  BY <1>1, <1>2, <1>4, <1>6 DEF PartInv, PartTypes, PlaceOf
<1> QED
  BY <1>1, <1>3, <1>4, <1>7, <1>8 DEF PartInv

LEMMA PartNext == PartInv /\ [Next]_vars => PartInv'
<1> SUFFICES ASSUME PartInv, [Next]_vars PROVE PartInv'
  OBVIOUS
<1>1. ASSUME NEW r \in Ranks, RankStep(r) PROVE PartInv'
  <2>1. CASE RunFile(r) \/ NextRepetition(r) \/ RunLines(r)
    BY <2>1, PartStutter DEF RunFile, NextRepetition, RunLines
  <2> QED
    BY <1>1, <2>1, PartEnterReduce, PartReduce, PartEnterBarrier, PartLeaveBarrier, PartReadPart
    DEF RankStep
<1>2. CASE UNCHANGED vars
  BY <1>2, PartStutter DEF vars
<1> QED
  BY <1>1, <1>2 DEF Next

\* No rank of geos_benchmark_mpi_file_partition reads the parts of the file
\* before rank 0 has split it or after rank 0 has removed them, and there are
\* never more parts than ranks.
THEOREM ReadsItsPartAlways == Spec => []ReadsItsPart
<1>1. PartInv => ReadsItsPart
  <2> SUFFICES ASSUME PartInv PROVE ReadsItsPart
    OBVIOUS
  <2>1. Len(<<>>) = 0 /\ numProcs \in Nat
    BY CountsAssumption
  <2>2. program = "file" => Len(directory) <= numProcs
    BY <2>1, AfterSplit, RootIsRank DEF PartInv, PartsThere, PlaceOf
  <2>3. program = "spatial" => Len(directory) <= numProcs
    BY <2>1 DEF PartInv
  <2>4. \A r \in Ranks : program = "file" /\ pc[r] \notin {"start", "barrier", "read"} => geoms[r] = PartOf(r)
    BY DEF PartInv, PartTypes, Places, PlaceOf
  <2>5. Done(root) => directory = <<>>
    BY OnePhase, RootIsRank DEF PartInv, PartsThere, PlaceOf, PartTypes
  <2> QED
    BY <2>2, <2>3, <2>4, <2>5 DEF ReadsItsPart, PartOf, PartInv, PartTypes
<1> QED
  BY <1>1, PartInit, PartNext, PTL DEF Spec
-----------------------------------------------------------------------------
\* The report -----------------------------------------------------------------
\* What a rank runs of a phase with that many ranks; what it runs in phase p.
Share(r, ranks) == {u \in 0 .. partitions - 1 : u % ranks = r}
Own(r, p) == IF program = "spatial" THEN Share(r, Phases[p]) ELSE PartOf(r)

\* The types the report needs.
ReportTypes ==
  /\ program = "spatial" => left = 0
  /\ rep \in [Ranks -> 0 .. n] /\ filenum \in [Ranks -> Nat] /\ time \in [Ranks -> Nat]
  /\ sent \in [Ranks -> Seq([sum : Nat, min : Nat])]
  /\ report \in Seq([sum : Nat, max : Nat, min : Nat])
  /\ ran \in [DOMAIN Phases -> [Units -> Nat]]

\* A rank has contributed to the phases it has been through, and the root has
\* reported them but for the one it is reducing.
Ahead(r) ==
  /\ phase[r] \in 1 .. Len(Phases) + 1
  /\ pc[r] = "reduce" => r = root /\ ~Done(r)
  /\ Len(sent[r]) = IF pc[r] = "reduce" THEN phase[r] ELSE phase[r] - 1

Past(r, p) == phase[r] > p \/ (phase[r] = p /\ pc[r] = "reduce")

\* How far a rank is in a phase that it has not been through.
Progress(r) ==
  LET ranks == limit_procs(r)
      early == {u \in Share(r, ranks) : u < filenum[r]}
  IN  IF program = "spatial"
        THEN /\ r < ranks => /\ filenum[r] % ranks = r /\ filenum[r] >= r
                             /\ rep[r] = n => filenum[r] = r
                             /\ time[r] = rep[r] * Cardinality(Share(r, ranks)) + Cardinality(early)
             /\ r >= ranks => time[r] = 0
        ELSE /\ rep[r] \in {0, 1}
             /\ rep[r] = 1 => pc[r] = "loop" /\ time[r] = n * Cardinality(PartOf(r))

\* How often a rank has run a unit of its own.
RunBy(r, p, u) ==
  IF Past(r, p) THEN n
  ELSE IF phase[r] # p THEN 0
  ELSE IF program = "file" THEN n * rep[r] ELSE rep[r] + IF u < filenum[r] THEN 1 ELSE 0

\* What a rank contributes to a phase.
Contribution(r, p) ==
  [sum |-> Cardinality(Own(r, p)), min |-> IF r >= Phases[p] THEN I ELSE Cardinality(Own(r, p))]

ReportedSum == Cardinality(Units) + Cardinality({k \in 1 .. left : k > Len(Parts)})

\* What holds of a rank.
RankInv(r) ==
  /\ Ahead(r)
  /\ ~Done(r) /\ pc[r] = "loop" => Progress(r)
  /\ pc[r] \notin {"loop", "reduce"} => rep[r] = 0
  /\ \A p \in DOMAIN Phases : \A u \in Own(r, p) \cap Units : ran[p][u] = RunBy(r, p, u)
  /\ \A p \in DOMAIN sent[r] : sent[r][p] = Contribution(r, p)

\* What holds of the report: it has the phases the root has been through.
Told ==
  /\ Len(report) = phase[root] - 1
  /\ \A p \in DOMAIN report :
       /\ \A r \in Ranks : Len(sent[r]) >= p
       /\ report[p].sum = ReportedSum
       /\ program = "spatial" => report[p].max - report[p].min <= 1

ReportInv == PartInv /\ ReportTypes /\ Told /\ \A r \in Ranks : RankInv(r)
-----------------------------------------------------------------------------
\* A set of subsets of a finite set has one that contains no other.
LEMMA Minimal ==
  ASSUME NEW S, IsFiniteSet(S), NEW F, F \subseteq SUBSET S, F # {}
  PROVE  \E A \in F : \A B \in F : B \subseteq A => B = A
<1>1. IsWellFoundedOn(StrictSubsetOrdering(S), SUBSET S)
  BY FS_StrictSubsetOrderingWellFounded, FS_FiniteSubsetsOfFinite
<1>2. \E A \in F : \A B \in F : ~(<<B, A>> \in StrictSubsetOrdering(S))
  BY <1>1, WFMin
<1> QED
  BY <1>2 DEF StrictSubsetOrdering

\* A set of numbers has a least one.
LEMMA LeastNumber ==
  ASSUME NEW T, T \subseteq Nat, T # {}
  PROVE  \E m \in T : \A k \in T : m <= k
<1>1. PICK top \in T : TRUE
  OBVIOUS
<1> DEFINE S == 1 .. top
           F == {1 .. k : k \in {j \in T : j <= top}}
<1>2. IsFiniteSet(S)
  BY FS_Interval
<1>3. F \subseteq SUBSET S /\ F # {}
  OBVIOUS
<1>4. PICK A \in F : \A B \in F : B \subseteq A => B = A
  <2> HIDE DEF F, S
  <2> QED
    BY <1>2, <1>3, Minimal
<1>5. PICK m \in T : m <= top /\ A = 1 .. m
  OBVIOUS
<1>6. ASSUME NEW k \in T, k < m PROVE FALSE
  <2>1. 1 .. k \in F /\ 1 .. k \subseteq 1 .. m
    BY <1>5, <1>6
  <2>2. 1 .. k = 1 .. m
    BY <1>4, <1>5, <2>1
  <2>3. m \in 1 .. m /\ m \notin 1 .. k
    BY <1>6
  <2> QED
    BY <2>2, <2>3
<1>7. m \in Nat /\ \A k \in T : k \in Nat /\ ~(k < m)
  BY <1>6
<1>8. \A k \in T : m <= k
  BY <1>7
<1> QED
  BY <1>8

\* Quotient and remainder, and that they are unique.
LEMMA DivMod ==
  ASSUME NEW u \in Nat, NEW e \in Nat \ {0}
  PROVE  u = e * (u \div e) + (u % e) /\ u % e \in 0 .. e - 1 /\ u \div e \in Nat
BY SMTT(30)

\* Quotients are unique.
LEMMA Unique ==
  ASSUME NEW e \in Nat \ {0}, NEW q1 \in Int, NEW q2 \in Int, NEW r1 \in 0 .. e - 1, NEW r2 \in 0 .. e - 1,
         e * q1 + r1 = e * q2 + r2
  PROVE  q1 = q2
<1>1. e * (q1 - q2) = r2 - r1
  OBVIOUS
<1>2. q1 - q2 >= 1 => e * (q1 - q2) >= e
  OBVIOUS
<1>3. q1 - q2 <= -1 => e * (q1 - q2) <= -e
  OBVIOUS
<1> QED
  BY <1>1, <1>2, <1>3


LEMMA Remainder ==
  ASSUME NEW e \in Nat \ {0}, NEW q \in Int, NEW r \in 0 .. e - 1, NEW u \in Nat, u = e * q + r
  PROVE  u \div e = q /\ u % e = r
<1>1. u = e * (u \div e) + (u % e) /\ u % e \in 0 .. e - 1 /\ u \div e \in Nat
  BY DivMod
<1>2. u \div e = q
  BY <1>1, Unique
<1> QED
  BY <1>1, <1>2

LEMMA SmallRemainder ==
  ASSUME NEW e \in Nat \ {0}, NEW r \in 0 .. e - 1
  PROVE  r % e = r
<1>1. r = e * 0 + r /\ r \in Nat /\ 0 \in Int
  OBVIOUS
<1> QED
  BY <1>1, Remainder

\* The next number of the same remainder is e further.
LEMMA NextOfRemainder ==
  ASSUME NEW e \in Nat \ {0}, NEW f \in Nat
  PROVE  /\ (f + e) % e = f % e
         /\ \A u \in Nat : u % e = f % e => (u < f + e <=> (u < f \/ u = f))
<1>1. \A x \in Nat : x = e * (x \div e) + (x % e) /\ x % e \in 0 .. e - 1 /\ x \div e \in Nat
  BY DivMod
<1>2. PICK q \in Nat, r \in 0 .. e - 1 : f = e * q + r /\ f % e = r
  BY <1>1
<1>3. \A x \in Int : e * x \in Int /\ e * (x + 1) = e * x + e
  OBVIOUS
<1>4. (f + e) % e = f % e
  <2>1. f + e = e * (q + 1) + r /\ q + 1 \in Int /\ f + e \in Nat
    BY <1>2, <1>3
  <2> QED
    BY <1>2, <2>1, Remainder
<1>5. ASSUME NEW u \in Nat, u % e = f % e, u < f + e, ~(u < f), u # f PROVE FALSE
  <2>1. PICK p \in Nat : u = e * p + r
    BY <1>1, <1>2, <1>5
  <2>2. PICK d \in Int : p = q + d
    <3>1. p = q + (p - q) /\ p - q \in Int
      BY <1>2, <2>1
    <3> QED
      BY <3>1
  <2>3. e * d \in Int /\ e * p = e * q + e * d /\ e * q \in Int
    BY <1>2, <2>1, <2>2
  <2>4. e * d > 0 /\ e * d < e
    BY <1>2, <1>5, <2>1, <2>3
  <2>5. d >= 1 => e * d >= e
    OBVIOUS
  <2>6. d <= 0 => e * d <= 0
    OBVIOUS
  <2> QED
    BY <2>3, <2>4, <2>5, <2>6
<1> QED
  BY <1>4, <1>5
-----------------------------------------------------------------------------
\* The shares of the ranks --------------------------------------------------

LEMMA PhaseRanks ==
  ASSUME NEW p \in DOMAIN Phases
  PROVE  Phases[p] \in 1 .. numProcs /\ (program # "spatial" => p = 1 /\ Phases[p] = numProcs)
         /\ Len(Phases) = IF program = "spatial" THEN 3 ELSE 1
BY CountsAssumption DEF Phases

LEMMA PhaseDomain == DOMAIN Phases = 1 .. Len(Phases) /\ Len(Phases) \in Nat
<1>1. CASE program = "spatial"
  <2>1. Phases = <<1, numProcs, numProcs - 1>>
    BY <1>1 DEF Phases
  <2> QED
    BY <2>1
<1>2. CASE program # "spatial"
  <2>1. Phases = <<numProcs>>
    BY <1>2 DEF Phases
  <2> QED
    BY <2>1
<1> QED
  BY <1>1, <1>2

LEMMA Shares ==
  ASSUME NEW r \in Ranks, NEW ranks \in Nat \ {0}
  PROVE  /\ IsFiniteSet(Share(r, ranks)) /\ Cardinality(Share(r, ranks)) \in Nat
         /\ Cardinality(Share(r, ranks)) <= partitions
         /\ r >= ranks => Share(r, ranks) = {}
         /\ \A u \in Share(r, ranks) : u \in Nat /\ u >= r
<1>1. Share(r, ranks) \in SUBSET (0 .. partitions - 1)
  BY DEF Share
<1>2. IsFiniteSet(0 .. partitions - 1) /\ Cardinality(0 .. partitions - 1) = partitions
  BY CountsAssumption, FS_Interval
<1>3. IsFiniteSet(Share(r, ranks)) /\ Cardinality(Share(r, ranks)) <= partitions
  BY <1>1, <1>2, FS_Subset
<1>4. Cardinality(Share(r, ranks)) \in Nat
  BY <1>3, FS_CardinalityType
<1>5. \A u \in Nat : u % ranks \in 0 .. ranks - 1 /\ u % ranks <= u
  <2> SUFFICES ASSUME NEW u \in Nat PROVE u % ranks \in 0 .. ranks - 1 /\ u % ranks <= u
    OBVIOUS
  <2>1. u = ranks * (u \div ranks) + (u % ranks) /\ u % ranks \in 0 .. ranks - 1 /\ u \div ranks \in Nat
    BY DivMod
  <2>2. \A x \in Nat : ranks * x \in Nat
    OBVIOUS
  <2>3. ranks * (u \div ranks) \in Nat
    BY <2>1, <2>2
  <2> QED
    BY <2>1, <2>3
<1>6. 0 .. partitions - 1 \subseteq Nat /\ r \in Nat
  BY CountsAssumption DEF Ranks
<1> QED
  BY <1>3, <1>4, <1>5, <1>6 DEF Share

\* No rank has two partitions more than another.
LEMMA Fair ==
  ASSUME NEW ranks \in 1 .. numProcs, NEW a \in 0 .. ranks - 1, NEW b \in 0 .. ranks - 1
  PROVE  Cardinality(Share(a, ranks)) <= Cardinality(Share(b, ranks)) + 1
<1> DEFINE A == Share(a, ranks)
           B == Share(b, ranks)
           f == [u \in A \ {a} |-> IF b <= a THEN (u - a) + b ELSE ((u - a) + b) - ranks]
<1>1. /\ a \in Ranks /\ b \in Ranks /\ ranks \in Nat \ {0}
      /\ a \in Nat /\ b \in Nat /\ a < ranks /\ b < ranks /\ numProcs \in Nat /\ partitions \in Nat
  BY CountsAssumption DEF Ranks
<1>2. /\ IsFiniteSet(A) /\ Cardinality(A) \in Nat /\ IsFiniteSet(B) /\ Cardinality(B) \in Nat
      /\ \A u \in A : u \in Nat /\ u >= a
  BY <1>1, Shares
<1>9. ASSUME NEW v \in Nat, NEW q \in Int, v = ranks * q + b PROVE v % ranks = b
  BY <1>1, <1>9, Remainder
<1>3. ASSUME NEW u \in A \ {a} PROVE f[u] \in B
  <2>1. u \in 0 .. partitions - 1 /\ u % ranks = a /\ u \in Nat /\ u # a /\ u >= a
    BY <1>2 DEF Share
  <2>2. PICK q \in Nat : u = ranks * q + a
    BY <1>1, <2>1, DivMod
  <2>3. q >= 1
    <3>1. q = 0 => ranks * q = 0
      BY <1>1
    <3> QED
      BY <1>1, <2>1, <2>2, <3>1
  <2>4. ranks * (q - 1) = ranks * q - ranks /\ ranks * q \in Nat /\ ranks * (q - 1) \in Nat
    <3>1. ranks * (q - 1) = ranks * q - ranks
      BY <1>1, <2>2
    <3>2. \A x \in Nat : ranks * x \in Nat
      BY <1>1
    <3> QED
      BY <2>2, <2>3, <3>1, <3>2
  <2>5. CASE b <= a
    <3>1. f[u] = ranks * q + b /\ f[u] <= u
      BY <1>1, <2>1, <2>2, <2>4, <2>5
    <3>2. f[u] \in Nat
      BY <1>1, <2>4, <3>1
    <3> HIDE DEF f
    <3>3. f[u] % ranks = b
      BY <3>1, <3>2, <1>9
    <3> QED
      BY <1>1, <2>1, <3>1, <3>2, <3>3 DEF Share
  <2>6. CASE ~(b <= a)
    <3>1. f[u] = ranks * (q - 1) + b /\ f[u] <= u
      BY <1>1, <2>1, <2>2, <2>4, <2>6
    <3>2. f[u] \in Nat
      BY <1>1, <2>4, <3>1
    <3> HIDE DEF f
    <3>3. q - 1 \in Int /\ f[u] % ranks = b
      BY <3>1, <3>2, <1>9
    <3> QED
      BY <1>1, <2>1, <3>1, <3>2, <3>3 DEF Share
  <2> QED
    BY <2>5, <2>6
<1>4. \A u, v \in A \ {a} : f[u] = f[v] => u = v
  BY <1>1, <1>2
<1>5. f \in Injection(A \ {a}, B)
  <2>1. f \in [A \ {a} -> B]
    BY <1>3
  <2> HIDE DEF f
  <2> QED
    BY <1>4, <2>1 DEF Injection, IsInjective
<1> HIDE DEF A, B, f
<1>6. Cardinality(A \ {a}) <= Cardinality(B)
  BY <1>2, <1>5, FS_Injection
<1>7. Cardinality(A \ {a}) >= Cardinality(A) - 1
  <2>1. Cardinality(A \ {a}) = IF a \in A THEN Cardinality(A) - 1 ELSE Cardinality(A)
    BY <1>2, FS_RemoveElement
  <2> QED
    BY <1>2, <2>1
<1>8. Cardinality(A) <= Cardinality(B) + 1
  <2>1. IsFiniteSet(A \ {a}) /\ Cardinality(A \ {a}) \in Nat
    BY <1>2, FS_RemoveElement, FS_CardinalityType
  <2> QED
    BY <1>2, <1>6, <1>7, <2>1
<1> QED
  BY <1>8 DEF A, B
-----------------------------------------------------------------------------
\* f[k] is the total of a[1] to a[k].
IsTotal(f, N, a) == f = [k \in 0 .. N |-> IF k = 0 THEN 0 ELSE f[k - 1] + a[k]]

\* Running totals are determined by the numbers they total.
LEMMA TotalsUnique ==
  ASSUME NEW N \in Nat, NEW a, NEW s, NEW g, IsTotal(s, N, a), IsTotal(g, N, a)
  PROVE  s[N] = g[N]
<1>1. SUFFICES ASSUME s[N] # g[N] PROVE FALSE
  OBVIOUS
<1> DEFINE T == {j \in 0 .. N : s[j] # g[j]}
<1>2. T \subseteq Nat /\ T # {}
  <2>1. N \in T
    BY <1>1
  <2>2. 0 .. N \subseteq Nat
    BY SMT
  <2>3. T \subseteq 0 .. N
    BY Zenon
  <2> HIDE DEF T
  <2> QED
    BY <2>1, <2>2, <2>3, Zenon
<1>3. PICK m \in T : \A j \in T : m <= j
  <2> HIDE DEF T
  <2> QED
    BY <1>2, LeastNumber
<1>4. s[0] = 0 /\ g[0] = 0
  BY DEF IsTotal
<1>5. m \in 1 .. N /\ m - 1 \in 0 .. N
  BY <1>3, <1>4
<1>6. m - 1 \notin T
  <2>1. m - 1 < m /\ m \in Int
    BY <1>5
  <2> QED
    BY <1>3, <1>5, <2>1
<1>7. s[m - 1] = g[m - 1]
  BY <1>5, <1>6
<1>8. s[m] = s[m - 1] + a[m] /\ g[m] = g[m - 1] + a[m]
  BY <1>5 DEF IsTotal
<1>9. s[m] # g[m]
  BY <1>3
<1> QED
  BY <1>7, <1>8, <1>9

\* The sets O[0] to O[N - 1] divide All, and a[1] to a[N] are their sizes.
IsPartition(O, N, All) ==
  /\ \A r \in 0 .. N - 1 : O[r] \subseteq All
  /\ \A r1, r2 \in 0 .. N - 1 : \A x : x \in O[r1] /\ x \in O[r2] => r1 = r2
  /\ \A x \in All : \E r \in 0 .. N - 1 : x \in O[r]
AreSizes(a, O, N) == \A r \in 0 .. N - 1 : a[r + 1] = Cardinality(O[r])

\* The sizes of the sets of a partition add up to the size of the whole.
LEMMA PartitionTotal ==
  ASSUME NEW N \in Nat, NEW All, IsFiniteSet(All), NEW O, NEW a,
         IsPartition(O, N, All), AreSizes(a, O, N)
  PROVE  \E g : IsTotal(g, N, a) /\ g[N] = Cardinality(All)
<1> DEFINE U(k) == {x \in All : \E r \in 0 .. k - 1 : x \in O[r]}
           g == [k \in 0 .. N |-> Cardinality(U(k))]
<1>1. U(N) = All
  BY DEF IsPartition
<1>2. Cardinality(U(0)) = 0
  <2>1. U(0) = {}
    OBVIOUS
  <2> QED
    BY <2>1, FS_EmptySet, Zenon
<1>3. ASSUME NEW k \in 1 .. N
      PROVE  Cardinality(U(k)) = Cardinality(U(k - 1)) + a[k]
  <2>1. k - 1 \in 0 .. N - 1 /\ (k - 1) + 1 = k
    OBVIOUS
  <2>2. U(k) = U(k - 1) \cup O[k - 1]
    <3>1. 0 .. k - 1 = (0 .. (k - 1) - 1) \cup {k - 1}
      OBVIOUS
    <3>2. O[k - 1] \subseteq All
      BY <2>1 DEF IsPartition
    <3> QED
      BY <3>1, <3>2, Zenon
  <2>3. U(k - 1) \cap O[k - 1] = {}
    <3>1. \A r \in 0 .. (k - 1) - 1 : r \in 0 .. N - 1 /\ r # k - 1
      OBVIOUS
    <3> QED
      BY <2>1, <3>1, Zenon DEF IsPartition
  <2>4. U(k - 1) \in SUBSET All /\ O[k - 1] \in SUBSET All /\ a[k] = Cardinality(O[k - 1])
    BY <2>1, Zenon DEF IsPartition, AreSizes
  <2> HIDE DEF U
  <2>5. IsFiniteSet(U(k - 1)) /\ IsFiniteSet(O[k - 1])
    BY <2>4, FS_Subset, Zenon
  <2>6. Cardinality(U(k)) = Cardinality(U(k - 1)) + Cardinality(O[k - 1]) - Cardinality(U(k - 1) \cap O[k - 1])
    BY <2>2, <2>5, FS_Union, Zenon
  <2>7. Cardinality(U(k - 1) \cap O[k - 1]) = 0
    BY <2>3, FS_EmptySet, Zenon
  <2>8. Cardinality(U(k - 1)) \in Nat /\ Cardinality(O[k - 1]) \in Nat
    BY <2>5, FS_CardinalityType, Zenon
  <2> QED
    BY <2>4, <2>6, <2>7, <2>8
<1>4. IsTotal(g, N, a)
  <2> SUFFICES ASSUME NEW k \in 0 .. N PROVE g[k] = IF k = 0 THEN 0 ELSE g[k - 1] + a[k]
    BY Zenon DEF IsTotal
  <2> HIDE DEF U
  <2>1. k = 0 \/ (k \in 1 .. N /\ k # 0 /\ k - 1 \in 0 .. N)
    OBVIOUS
  <2> QED
    BY <1>2, <1>3, <2>1, Zenon
<1>5. g[N] = Cardinality(All)
  <2>1. N \in 0 .. N
    OBVIOUS
  <2>2. g[N] = Cardinality(U(N))
    BY <2>1, Zenon
  <2> QED
    BY <1>1, <2>2, Zenon
<1> HIDE DEF g
<1> QED
  BY <1>4, <1>5, Zenon

\* What SumOf computes.
LEMMA SumOfSizes ==
  ASSUME NEW p, NEW All, IsFiniteSet(All), NEW O, IsPartition(O, numProcs, All),
         \A r \in Ranks : sent[r][p].sum = Cardinality(O[r])
  PROVE  SumOf(p) = Cardinality(All)
<1> DEFINE a == [k \in 0 .. numProcs |-> sent[k - 1][p].sum]
<1>1. numProcs \in Nat
  BY CountsAssumption
<1>2. PICK g : IsTotal(g, numProcs, a) /\ g[numProcs] = Cardinality(All)
  <2>1. AreSizes(a, O, numProcs)
    BY <1>1 DEF Ranks, AreSizes
  <2> HIDE DEF a
  <2> QED
    BY <1>1, <2>1, PartitionTotal, Zenon
<1> DEFINE Total(f) == f = [k \in 0 .. numProcs |-> IF k = 0 THEN 0 ELSE f[k - 1] + sent[k - 1][p].sum]
           s == CHOOSE f : Total(f)
<1>3. Total(s)
  <2>1. Total(g)
    <3> SUFFICES ASSUME NEW k \in 0 .. numProcs
                 PROVE  (IF k = 0 THEN 0 ELSE g[k - 1] + a[k])
                        = IF k = 0 THEN 0 ELSE g[k - 1] + sent[k - 1][p].sum
      BY <1>2, Zenon DEF IsTotal
    <3> QED
      BY Zenon
  <2> QED
    BY <2>1, Zenon
<1>4. SumOf(p) = s[numProcs]
  BY DEF SumOf
<1> HIDE DEF s
<1>5. IsTotal(s, numProcs, a)
  BY <1>3 DEF IsTotal
<1> HIDE DEF Total, a
<1>6. s[numProcs] = g[numProcs]
  BY <1>1, <1>2, <1>5, TotalsUnique, Zenon
<1> QED
  BY <1>2, <1>4, <1>6
-----------------------------------------------------------------------------
\* The parts of the file ----------------------------------------------------

\* The lines of the k-th part are those whose number divided by the size of a
\* part is k - 1.
LEMMA LinesOfParts ==
  ASSUME PartTypes, program = "file"
  PROVE  /\ line_count_per_file \in Nat \ {0} /\ Len(Parts) \in 0 .. numProcs
         /\ DOMAIN Parts = 1 .. Len(Parts) /\ Units = 0 .. line_count - 1
         /\ \A u \in Units : u \div line_count_per_file \in 0 .. Len(Parts) - 1
         /\ \A k \in DOMAIN Parts : \A u :
              u \in Parts[k] <=> u \in Units /\ u \div line_count_per_file = k - 1
<1> DEFINE size == line_count_per_file
           top == line_count + size - 1
           d == top \div size
<1>1. line_count \in Nat /\ numProcs \in Nat /\ numProcs > 0
  BY CountsAssumption DEF PartTypes
<1>2. line_count \div numProcs \in Nat
  BY <1>1, DivMod
<1>3. size \in Nat \ {0}
  BY <1>2 DEF line_count_per_file
<1>4. Units = 0 .. line_count - 1
  BY DEF Units
<1>5. Parts = [k \in 1 .. d |-> (k - 1) * size .. Least(k * size, line_count) - 1]
  BY DEF Parts
<1> HIDE DEF size
<1>6. top \in Nat /\ top = line_count + (size - 1)
  BY <1>1, <1>3
<1>7. top = size * d + (top % size) /\ top % size \in 0 .. size - 1 /\ d \in Nat
  BY <1>3, <1>6, DivMod
<1> HIDE DEF d
<1>8. Parts \in Seq(SUBSET Int) /\ Len(Parts) <= numProcs
  BY NoMorePartsThanRanks
<1>9. Len(Parts) = d /\ DOMAIN Parts = 1 .. d
  BY <1>5, <1>7, <1>8
<1>10. size * d \in Nat /\ size * d >= line_count
  <2>1. \A x, y \in Nat : x * y \in Nat
    OBVIOUS
  <2> QED
    BY <1>1, <1>3, <1>6, <1>7, <2>1
<1>11. ASSUME NEW u \in Units PROVE u \div size \in 0 .. d - 1
  <2>1. u \in Nat /\ u < line_count
    BY <1>1, <1>4
  <2>2. u = size * (u \div size) + (u % size) /\ u % size \in 0 .. size - 1 /\ u \div size \in Nat
    BY <1>3, <2>1, DivMod
  <2>3. ASSUME NEW q \in Nat, q >= d PROVE size * q >= size * d
    <3>1. q = d + (q - d) /\ q - d \in Nat
      BY <1>7, <2>3
    <3>2. \A x, y, z \in Nat : x * (y + z) = x * y + x * z /\ x * z \in Nat /\ x * y \in Nat
      OBVIOUS
    <3>3. size * (d + (q - d)) = size * d + size * (q - d) /\ size * (q - d) \in Nat
      BY <1>3, <1>7, <3>1, <3>2
    <3> QED
      BY <1>10, <3>1, <3>3
  <2>4. u \div size >= d => size * (u \div size) >= size * d
    BY <2>2, <2>3
  <2>5. size * (u \div size) \in Nat
    <3>1. \A x, y \in Nat : x * y \in Nat
      OBVIOUS
    <3> QED
      BY <1>3, <2>2, <3>1
  <2>6. \A q \in Nat : u = size * q + (u % size) /\ size * q \in Nat /\ size * q >= size * d => FALSE
    BY <1>1, <1>3, <1>10, <2>1, <2>2
  <2>7. ~(u \div size >= d)
    BY <2>2, <2>4, <2>5, <2>6
  <2> QED
    BY <1>7, <2>2, <2>7
<1>12. ASSUME NEW k \in 1 .. d, NEW u
       PROVE  u \in Parts[k] <=> u \in Units /\ u \div size = k - 1
  <2>1. (k - 1) * size = size * (k - 1) /\ k * size = size * (k - 1) + size /\ size * (k - 1) \in Nat
    <3>1. \A x \in Nat : x * size = size * x /\ (x + 1) * size = size * x + size /\ size * x \in Nat
      BY <1>3
    <3>2. k - 1 \in Nat /\ (k - 1) + 1 = k
      BY <1>7
    <3> QED
      BY <3>1, <3>2
  <2>2. u \in Parts[k] <=> u \in (k - 1) * size .. Least(k * size, line_count) - 1
    BY <1>5
  <2>3. u \in Parts[k] <=> u \in Units /\ u >= size * (k - 1) /\ u < size * (k - 1) + size
    <3> DEFINE base == size * (k - 1)
    <3> HIDE DEF base
    <3>1. u \in Parts[k] <=> u \in base .. Least(base + size, line_count) - 1
      BY <2>1, <2>2 DEF base
    <3>2. base \in Nat
      BY <2>1 DEF base
    <3>3. u \in Parts[k] <=> u \in Units /\ u >= base /\ u < base + size
      BY <1>1, <1>3, <1>4, <3>1, <3>2 DEF Least
    <3> QED
      BY <3>3 DEF base
  <2>4. ASSUME u \in Units, u >= size * (k - 1), u < size * (k - 1) + size PROVE u \div size = k - 1
    <3>1. u \in Nat /\ k - 1 \in Int /\ u = size * (k - 1) + (u - size * (k - 1))
          /\ u - size * (k - 1) \in 0 .. size - 1
      BY <1>1, <1>3, <1>4, <1>7, <2>1, <2>4
    <3> QED
      BY <1>3, <3>1, Remainder
  <2>5. ASSUME u \in Units, u \div size = k - 1 PROVE u >= size * (k - 1) /\ u < size * (k - 1) + size
    <3>1. u \in Nat
      BY <1>4, <2>5
    <3>2. u = size * (k - 1) + (u % size) /\ u % size \in 0 .. size - 1
      BY <1>3, <2>5, <3>1, DivMod
    <3> QED
      BY <1>3, <2>1, <3>1, <3>2
  <2> QED
    BY <2>3, <2>4, <2>5
<1>13. Len(Parts) \in 0 .. numProcs
  BY <1>1, <1>7, <1>8, <1>9
<1>14. \A u \in Units : u \div size \in 0 .. Len(Parts) - 1
  BY <1>9, <1>11
<1>15. \A k \in DOMAIN Parts : \A u : u \in Parts[k] <=> u \in Units /\ u \div size = k - 1
  BY <1>9, <1>12, Zenon
<1>16. DOMAIN Parts = 1 .. Len(Parts)
  BY <1>9
<1> QED
  BY <1>3, <1>4, <1>13, <1>14, <1>15, <1>16, Zenon DEF size
-----------------------------------------------------------------------------
\* The parts of an aborted run that this run has not written over, and all that
\* the ranks run of a phase.
Late == {k \in 1 .. left : k > Len(Parts)}
Whole == Units \cup {-k : k \in Late}

LEMMA WholeSize ==
  ASSUME PartTypes
  PROVE  /\ IsFiniteSet(Whole) /\ Cardinality(Whole) = ReportedSum /\ ReportedSum \in Nat
         /\ IsFiniteSet(Units) /\ Units \subseteq Nat
<1> DEFINE Old == {-k : k \in Late}
           f == [k \in Late |-> -k]
<1>1. IsFiniteSet(Units) /\ Units \subseteq Nat
  <2>1. program = "spatial" => Units = 0 .. partitions - 1 /\ 0 \in Int /\ partitions - 1 \in Int
    BY CountsAssumption DEF Units
  <2>2. program = "file" => Units = 0 .. line_count - 1 /\ 0 \in Int /\ line_count - 1 \in Int
    BY DEF Units, PartTypes
  <2>3. \A a, b \in Int : a = 0 => a .. b \subseteq Nat
    OBVIOUS
  <2> QED
    BY <2>1, <2>2, <2>3, FS_Interval DEF PartTypes
<1>2. left \in Nat /\ 1 \in Int /\ left \in Int
  BY CountsAssumption DEF PartTypes
<1>3. IsFiniteSet(1 .. left) /\ Late \in SUBSET (1 .. left)
  BY <1>2, FS_Interval DEF Late
<1>4. IsFiniteSet(Late) /\ \A k \in Late : k \in Nat \ {0}
  <2>1. \A k \in 1 .. left : k \in Nat \ {0}
    BY <1>2
  <2>2. IsFiniteSet(Late)
    BY <1>3, FS_Subset
  <2> QED
    BY <1>3, <2>1, <2>2
<1>5. f \in Bijection(Late, Old)
  <2>1. \A k, j \in Late : -k = -j => k = j
    BY <1>4
  <2>2. f \in [Late -> Old]
    OBVIOUS
  <2>3. \A k, j \in Late : f[k] = f[j] => k = j
    BY <2>1
  <2>4. \A y \in Old : \E k \in Late : f[k] = y
    OBVIOUS
  <2> HIDE DEF f, Old
  <2> QED
    BY <2>2, <2>3, <2>4 DEF Bijection, Injection, Surjection, IsInjective
<1>6. IsFiniteSet(Old) /\ Cardinality(Old) = Cardinality(Late)
  <2> HIDE DEF f, Old
  <2> QED
    BY <1>4, <1>5, FS_Bijection DEF ExistsBijection
<1>7. Units \cap Old = {}
  BY <1>1, <1>4
<1> HIDE DEF Old
<1>8. /\ IsFiniteSet(Units \cup Old)
      /\ Cardinality(Units \cup Old) = Cardinality(Units) + Cardinality(Old) - Cardinality(Units \cap Old)
  BY <1>1, <1>6, FS_Union
<1>9. Cardinality(Units \cap Old) = 0
  BY <1>7, FS_EmptySet, Zenon
<1>10. Cardinality(Units) \in Nat /\ Cardinality(Late) \in Nat
  BY <1>1, <1>4, FS_CardinalityType
<1>11. Cardinality(Units \cup Old) = Cardinality(Units) + Cardinality(Late)
  BY <1>6, <1>8, <1>9, <1>10
<1> QED
  BY <1>1, <1>8, <1>10, <1>11 DEF Whole, ReportedSum, Late, Old

\* Every unit, and every line left behind that is not overwritten, is the work of
\* one rank.
LEMMA OwnPartition ==
  ASSUME PartTypes, program = "spatial" => left = 0, NEW p \in DOMAIN Phases
  PROVE  /\ \A r \in Ranks : Own(r, p) \subseteq Whole
         /\ \A r1, r2 \in Ranks : \A u : u \in Own(r1, p) /\ u \in Own(r2, p) => r1 = r2
         /\ \A u \in Whole : \E r \in Ranks : u \in Own(r, p)
<1>1. CASE program = "spatial"
  <2>1. /\ Phases[p] \in 1 .. numProcs /\ Whole = 0 .. partitions - 1
        /\ \A r : Own(r, p) = {u \in 0 .. partitions - 1 : u % Phases[p] = r}
    <3>1. 1 .. left = {}
      BY <1>1
    <3> QED
      BY <1>1, <3>1, PhaseRanks DEF Own, Share, Whole, Units, Late
  <2>2. \A u \in Whole : u % Phases[p] \in Ranks
    <3>1. \A u \in Nat : u % Phases[p] \in 0 .. Phases[p] - 1
      BY <2>1, DivMod
    <3>2. 0 .. Phases[p] - 1 \subseteq Ranks
      BY CountsAssumption, <2>1 DEF Ranks
    <3>3. Whole \subseteq Nat
      BY CountsAssumption, <2>1
    <3> QED
      BY <3>1, <3>2, <3>3
  <2> QED
    BY <2>1, <2>2
<1>2. CASE program = "file"
  <2> DEFINE q(u) == u \div line_count_per_file
  <2>1. /\ Len(Parts) \in Nat /\ Len(Parts) <= numProcs /\ DOMAIN Parts = 1 .. Len(Parts)
        /\ \A u \in Units : q(u) \in 0 .. Len(Parts) - 1
        /\ \A k \in DOMAIN Parts : \A u : u \in Parts[k] <=> u \in Units /\ q(u) = k - 1
    BY <1>2, LinesOfParts
  <2>2. left \in Nat /\ left <= numProcs /\ numProcs \in Nat /\ Units \subseteq Nat
    BY CountsAssumption, WholeSize DEF PartTypes
  <2>3. \A r : Own(r, p) = PartOf(r)
    BY <1>2 DEF Own
  <2>4. ASSUME NEW r \in Ranks, NEW u
        PROVE  u \in PartOf(r) <=> \/ u \in Units /\ q(u) = r
                                   \/ r + 1 \in Late /\ u = -(r + 1)
    <3>1. r \in Nat /\ r + 1 \in Nat /\ r + 1 >= 1 /\ (r + 1) - 1 = r
      BY DEF Ranks
    <3>2. CASE r + 1 \in DOMAIN Parts
      <4>1. r + 1 \notin Late
        BY <2>1, <3>1, <3>2 DEF Late
      <4> QED
        BY <2>1, <3>1, <3>2, <4>1, Zenon DEF PartOf
    <3>3. CASE r + 1 \notin DOMAIN Parts
      <4>1. \A v \in Units : q(v) # r
        BY <2>1, <3>1, <3>3
      <4>2. r + 1 \in Late <=> r + 1 <= left
        BY <2>1, <2>2, <3>1, <3>3 DEF Late
      <4>3. r + 1 <= left => LeftBehind[r + 1] = {-(r + 1)}
        BY <2>2, <3>1 DEF LeftBehind
      <4> HIDE DEF q
      <4> QED
        BY <3>3, <4>1, <4>2, <4>3 DEF PartOf
    <3> QED
      BY <3>2, <3>3
  <2> HIDE DEF q
  <2>5. ASSUME NEW r \in Ranks PROVE Own(r, p) \subseteq Whole
    BY <2>3, <2>4 DEF Whole
  <2>6. ASSUME NEW r1 \in Ranks, NEW r2 \in Ranks, NEW u, u \in Own(r1, p), u \in Own(r2, p)
        PROVE  r1 = r2
    BY <2>2, <2>3, <2>4, <2>6 DEF Ranks
  <2>7. ASSUME NEW u \in Whole PROVE \E r \in Ranks : u \in Own(r, p)
    <3>1. CASE u \in Units
      <4>1. q(u) \in Ranks
        BY <2>1, <2>2, <3>1 DEF Ranks
      <4> QED
        BY <2>3, <2>4, <3>1, <4>1
    <3>2. CASE u \notin Units
      <4>1. PICK k \in Late : u = -k
        BY <3>2 DEF Whole
      <4>2. k - 1 \in Ranks /\ (k - 1) + 1 = k
        BY <2>2, <4>1 DEF Ranks, Late
      <4> QED
        BY <2>3, <2>4, <4>1, <4>2
    <3> QED
      BY <3>1, <3>2
  <2> QED
    BY <2>5, <2>6, <2>7
<1> QED
  BY <1>1, <1>2 DEF PartTypes
-----------------------------------------------------------------------------
\* What the root computes of the contributions -------------------------------

LEMMA MaxMin ==
  ASSUME NEW S \in SUBSET Nat, S # {}, NEW b \in Nat, \A x \in S : x <= b
  PROVE  /\ MaxOf(S) \in S /\ \A x \in S : x <= MaxOf(S)
         /\ MinOf(S) \in S /\ \A x \in S : MinOf(S) <= x
<1>1. \E m \in S : \A x \in S : m <= x
  BY LeastNumber
<1>2. \E m \in S : \A x \in S : m >= x
  <2> DEFINE T == {b - x : x \in S}
  <2>1. T \subseteq Nat /\ T # {}
    <3>1. \A x \in S : b - x \in Nat
      OBVIOUS
    <3>2. T # {}
      BY Zenon
    <3> QED
      BY <3>1, <3>2
  <2>2. PICK t \in T : \A u \in T : t <= u
    <3> HIDE DEF T
    <3> QED
      BY <2>1, LeastNumber
  <2>3. PICK m \in S : t = b - m
    BY <2>2
  <2>4. \A x \in S : b - m <= b - x /\ x \in Nat /\ m \in Nat
    BY <2>2, <2>3
  <2> QED
    BY <2>3, <2>4
<1>3. MinOf(S) \in S /\ \A x \in S : MinOf(S) <= x
  BY <1>1 DEF MinOf
<1>4. MaxOf(S) \in S /\ \A x \in S : MaxOf(S) >= x
  BY <1>2 DEF MaxOf
<1> QED
  BY <1>3, <1>4

\* The size of what a rank runs of a phase.
LEMMA OwnSize ==
  ASSUME PartTypes, program = "spatial" => left = 0, NEW p \in DOMAIN Phases, NEW r \in Ranks
  PROVE  IsFiniteSet(Own(r, p)) /\ Cardinality(Own(r, p)) \in Nat /\ Cardinality(Own(r, p)) <= ReportedSum
<1>1. IsFiniteSet(Whole) /\ Own(r, p) \in SUBSET Whole
  BY WholeSize, OwnPartition
<1>2. IsFiniteSet(Own(r, p)) /\ Cardinality(Own(r, p)) <= Cardinality(Whole)
  BY <1>1, FS_Subset
<1> QED
  BY <1>2, FS_CardinalityType, WholeSize

\* What the root reports when all contributions to a phase are what they should be.
LEMMA Reported ==
  ASSUME PartTypes, program = "spatial" => left = 0, NEW p \in DOMAIN Phases,
         \A r \in Ranks : sent[r][p] = Contribution(r, p)
  PROVE  LET max == MaxOf({sent[r][p].sum : r \in Ranks})
             min == MinOf({sent[r][p].min : r \in Ranks})
         IN  /\ SumOf(p) = ReportedSum /\ SumOf(p) \in Nat /\ max \in Nat /\ min \in Nat
             /\ program = "spatial" => max - min <= 1
<1> DEFINE size(r) == Cardinality(Own(r, p))
           sums == {sent[r][p].sum : r \in Ranks}
           mins == {sent[r][p].min : r \in Ranks}
<1>1. \A r \in Ranks : sent[r][p].sum = size(r) /\ sent[r][p].min = IF r >= Phases[p] THEN I ELSE size(r)
  <2> SUFFICES ASSUME NEW r \in Ranks
               PROVE  sent[r][p].sum = size(r) /\ sent[r][p].min = IF r >= Phases[p] THEN I ELSE size(r)
    OBVIOUS
  <2>1. sent[r][p] = [sum |-> size(r), min |-> IF r >= Phases[p] THEN I ELSE size(r)]
    BY DEF Contribution
  <2> QED
    BY <2>1
<1>2. \A r \in Ranks : size(r) \in Nat /\ size(r) <= ReportedSum
  BY OwnSize
<1>3. root \in Ranks /\ I \in Nat /\ ReportedSum \in Nat
  BY RootIsRank, LinesAssumption, WholeSize
<1>4. SumOf(p) = ReportedSum
  <2> DEFINE O == [r \in Ranks |-> Own(r, p)]
  <2>1. \A r \in Ranks : sent[r][p].sum = Cardinality(O[r])
    BY <1>1
  <2>2. IsPartition(O, numProcs, Whole)
    <3>1. \A r \in Ranks : O[r] = Own(r, p)
      OBVIOUS
    <3> HIDE DEF O
    <3>2. /\ \A r \in Ranks : O[r] \subseteq Whole
          /\ \A r1, r2 \in Ranks : \A u : u \in O[r1] /\ u \in O[r2] => r1 = r2
          /\ \A u \in Whole : \E r \in Ranks : u \in O[r]
      <4>1. /\ \A r \in Ranks : Own(r, p) \subseteq Whole
            /\ \A r1, r2 \in Ranks : \A u : u \in Own(r1, p) /\ u \in Own(r2, p) => r1 = r2
            /\ \A u \in Whole : \E r \in Ranks : u \in Own(r, p)
        BY OwnPartition
      <4> QED
        BY <3>1, <4>1
    <3> QED
      BY <3>2, Zenon DEF IsPartition, Ranks
  <2> HIDE DEF O
  <2> QED
    BY <2>1, <2>2, WholeSize, SumOfSizes
<1> HIDE DEF size
<1>5. /\ MaxOf(sums) \in sums /\ MaxOf(sums) \in Nat
  <2>1. sums \in SUBSET Nat /\ sums # {} /\ \A x \in sums : x <= ReportedSum
    BY <1>1, <1>2, <1>3
  <2> HIDE DEF sums
  <2> QED
    BY <1>3, <2>1, MaxMin
<1>6. MinOf(mins) \in mins /\ MinOf(mins) \in Nat /\ \A x \in mins : MinOf(mins) <= x
  <2>1. mins \in SUBSET Nat /\ mins # {} /\ \A x \in mins : x <= ReportedSum + I
    BY <1>1, <1>2, <1>3
  <2>2. ReportedSum + I \in Nat
    BY <1>3
  <2> HIDE DEF mins
  <2> QED
    BY <2>1, <2>2, MaxMin
<1>7. ASSUME program = "spatial" PROVE MaxOf(sums) - MinOf(mins) <= 1
  <2>1. Phases[p] \in 1 .. numProcs /\ numProcs \in Nat
    BY CountsAssumption, PhaseRanks
  <2>2. \A r \in Ranks : size(r) = Cardinality(Share(r, Phases[p])) /\ r \in Nat
    BY <1>7 DEF size, Own, Ranks
  <2>3. PICK a \in Ranks : MaxOf(sums) = size(a)
    BY <1>1, <1>5
  <2>4. PICK b \in Ranks : MinOf(mins) = IF b >= Phases[p] THEN I ELSE size(b)
    BY <1>1, <1>6
  <2>5. b < Phases[p]
    <3> SUFFICES ASSUME b >= Phases[p] PROVE FALSE
      BY <2>1, <2>2
    <3>1. sent[root][p].min \in mins /\ ~(root >= Phases[p])
      BY <1>3, <2>1 DEF root
    <3>2. I <= size(root)
      BY <1>1, <1>3, <1>6, <2>4, <3>1
    <3>3. size(root) <= partitions /\ partitions \in Nat
      BY CountsAssumption, <1>3, <2>1, <2>2, Shares
    <3>4. partitions * n >= partitions
      BY CountsAssumption
    <3> QED
      BY LinesAssumption, CountsAssumption, <1>2, <1>3, <3>2, <3>3, <3>4
  <2>6. CASE a >= Phases[p]
    <3>1. Share(a, Phases[p]) = {}
      BY <2>1, <2>6, Shares
    <3>2. size(a) = 0
      BY <2>2, <3>1, FS_EmptySet, Zenon
    <3> QED
      BY <1>6, <2>3, <3>2
  <2>7. CASE a < Phases[p]
    <3>1. size(a) <= size(b) + 1
      BY <2>1, <2>2, <2>5, <2>7, Fair
    <3> QED
      BY <1>2, <2>1, <2>2, <2>3, <2>4, <2>5, <3>1
  <2> QED
    BY <2>1, <2>2, <2>6, <2>7
<1> QED
  BY <1>3, <1>4, <1>5, <1>6, <1>7
-----------------------------------------------------------------------------
\* The invariant -------------------------------------------------------------

\* What does not change in a run.
LEMMA Fixed ==
  ASSUME UNCHANGED <<program, line_count, left>>
  PROVE  /\ Phases' = Phases /\ Units' = Units /\ ReportedSum' = ReportedSum
         /\ \A r, p : Own(r, p)' = Own(r, p) /\ Contribution(r, p)' = Contribution(r, p)
         /\ \A r : PartOf(r)' = PartOf(r)
<1>1. Phases' = Phases /\ Units' = Units /\ Parts' = Parts /\ LeftBehind' = LeftBehind
  BY DEF Phases, Units, Parts, line_count_per_file, LeftBehind
<1>2. \A r : PartOf(r)' = PartOf(r)
  BY <1>1 DEF PartOf
<1>3. \A r, p : Own(r, p)' = Own(r, p)
  BY <1>1, <1>2 DEF Own, Share
<1>4. \A r, p : Contribution(r, p)' = Contribution(r, p)
  BY <1>1, <1>3 DEF Contribution
<1> QED
  BY <1>1, <1>2, <1>3, <1>4 DEF ReportedSum

\* A step that leaves a rank and its units alone.
LEMMA OtherRank ==
  ASSUME NEW s \in Ranks, RankInv(s), UNCHANGED <<program, line_count, left>>,
         pc'[s] = pc[s], phase'[s] = phase[s], rep'[s] = rep[s], filenum'[s] = filenum[s],
         time'[s] = time[s], sent'[s] = sent[s],
         \A p \in DOMAIN Phases : \A u \in Own(s, p) \cap Units : ran'[p][u] = ran[p][u]
  PROVE  RankInv(s)'
<1>1. Phases' = Phases /\ Units' = Units
      /\ \A p : Own(s, p)' = Own(s, p) /\ Contribution(s, p)' = Contribution(s, p)
  BY Fixed
<1>2. PartOf(s)' = PartOf(s)
  BY Fixed
<1>3. Done(s)' <=> Done(s)
  BY <1>1 DEF Done
<1>4. Ahead(s)'
  BY <1>1, <1>3 DEF RankInv, Ahead
<1>5. Progress(s)' <=> Progress(s)
  BY <1>1, <1>2 DEF Progress, limit_procs, Share
<1>6. \A p, u : RunBy(s, p, u)' = RunBy(s, p, u)
  BY DEF RunBy, Past
<1>7. \A p \in DOMAIN Phases' : \A u \in (Own(s, p) \cap Units)' : ran'[p][u] = RunBy(s, p, u)'
  BY <1>1, <1>6 DEF RankInv
<1>8. \A p \in DOMAIN sent'[s] : sent'[s][p] = Contribution(s, p)'
  BY <1>1 DEF RankInv
<1> QED
  BY <1>3, <1>4, <1>5, <1>7, <1>8 DEF RankInv

\* The state of a rank that begins a phase.
LEMMA Begins ==
  ASSUME ReportTypes, PartTypes, NEW r \in Ranks, phase[r] \in DOMAIN Phases,
         rep[r] = 0, filenum[r] = r, time[r] = 0
  PROVE  Progress(r)
<1>1. limit_procs(r) \in Nat \ {0} /\ r \in Nat /\ n # 0
  BY CountsAssumption, PhaseRanks DEF limit_procs, Ranks
<1>2. {u \in Share(r, limit_procs(r)) : u < filenum[r]} = {}
  BY <1>1, Shares
<1>3. Cardinality({u \in Share(r, limit_procs(r)) : u < filenum[r]}) = 0
  BY <1>2, FS_EmptySet, Zenon
<1>4. Cardinality(Share(r, limit_procs(r))) \in Nat
  BY <1>1, Shares
<1>5. r < limit_procs(r) => filenum[r] % limit_procs(r) = r
  <2>1. r < limit_procs(r) => r \in 0 .. limit_procs(r) - 1
    BY <1>1
  <2> QED
    BY <1>1, <2>1, SmallRemainder
<1>6. 0 = 0 * Cardinality(Share(r, limit_procs(r))) + 0
  BY <1>4
<1> QED
  BY <1>1, <1>3, <1>5, <1>6 DEF Progress

\* The same of the state after a step.
BeginsAt(r) ==
  ReportTypes /\ PartTypes /\ phase[r] \in DOMAIN Phases /\ rep[r] = 0 /\ filenum[r] = r /\ time[r] = 0

LEMMA BeginsNext == (\A r \in Ranks : BeginsAt(r) => Progress(r))'
<1>1. \A r \in Ranks : BeginsAt(r) => Progress(r)
  BY Begins DEF BeginsAt
<1> QED
  BY <1>1, PTL

LEMMA ReportInit == Init => ReportInv
<1> SUFFICES ASSUME Init PROVE ReportInv
  OBVIOUS
<1>1. PartInv /\ PartTypes
  BY PartInit DEF PartInv
<1>2. ReportTypes
  <2>1. \A r \in Ranks : r \in Nat
    BY DEF Ranks
  <2> QED
    BY <2>1, CountsAssumption DEF Init, ReportTypes
<1>3. Told
  BY RootIsRank DEF Init, Told
<1>4. ASSUME NEW r \in Ranks PROVE RankInv(r)
  <2>1. /\ phase[r] = 1 /\ rep[r] = 0 /\ filenum[r] = r /\ time[r] = 0 /\ sent[r] = <<>>
        /\ pc[r] # "reduce" /\ 1 \in DOMAIN Phases /\ Len(Phases) >= 1
    BY DEF Init, Phases
  <2>2. Ahead(r)
    BY <2>1 DEF Ahead
  <2>3. Progress(r)
    BY <1>1, <1>2, <2>1, Begins
  <2>4. ASSUME NEW p \in DOMAIN Phases, NEW u \in Own(r, p) \cap Units PROVE ran[p][u] = RunBy(r, p, u)
    <3>1. ran[p][u] = 0
      BY DEF Init
    <3>2. ~Past(r, p)
      BY <2>1, PhaseRanks DEF Past, Phases
    <3>3. CASE program = "file"
      <4>1. n * rep[r] = 0
        BY CountsAssumption, <2>1
      <4> QED
        BY <3>1, <3>2, <3>3, <4>1 DEF RunBy
    <3>4. CASE program = "spatial"
      <4>1. Phases[p] \in Nat \ {0}
        BY CountsAssumption, PhaseRanks
      <4>2. u \in Nat /\ ~(u < filenum[r])
        BY <2>1, <3>4, <4>1, Shares DEF Own, Ranks
      <4> QED
        BY <2>1, <3>1, <3>2, <3>4, <4>2 DEF RunBy
    <3> QED
      BY <1>1, <3>3, <3>4 DEF PartTypes
  <2> QED
    BY <2>1, <2>2, <2>3, <2>4 DEF RankInv
<1> QED
  BY <1>1, <1>2, <1>3, <1>4 DEF ReportInv

\* Steps that do not report.
LEMMA ToldStays ==
  ASSUME Told, UNCHANGED <<program, line_count, left, report>>, phase'[root] = phase[root],
         \A r \in Ranks : Len(sent'[r]) \in Nat /\ Len(sent[r]) \in Nat /\ Len(sent'[r]) >= Len(sent[r]),
         report \in Seq([sum : Nat, max : Nat, min : Nat])
  PROVE  Told'
<1>1. ReportedSum' = ReportedSum
  BY Fixed
<1>2. \A p \in DOMAIN report' : \A r \in Ranks : Len(sent'[r]) >= p
  <2> SUFFICES ASSUME NEW p \in DOMAIN report, NEW r \in Ranks PROVE Len(sent'[r]) >= p
    OBVIOUS
  <2>1. p \in Nat /\ Len(sent[r]) >= p
    BY DEF Told
  <2>2. \A a, b, c \in Nat : a >= b /\ b >= c => a >= c
    OBVIOUS
  <2>3. Len(sent'[r]) \in Nat /\ Len(sent[r]) \in Nat /\ Len(sent'[r]) >= Len(sent[r])
    OBVIOUS
  <2> QED
    BY <2>1, <2>2, <2>3
<1> QED
  BY <1>1, <1>2 DEF Told

\* Steps of the ranks before they are in their loops.
LEMMA ReportStarts ==
  ASSUME ReportInv, NEW r \in Ranks, EnterBarrier(r) \/ LeaveBarrier(r) \/ ReadPart(r), PartInv'
  PROVE  ReportInv'
<1>1. /\ UNCHANGED <<program, line_count, left, phase, rep, filenum, time, sent, report, ran>>
      /\ pc[r] \in {"start", "barrier", "read"} /\ pc'[r] \in {"barrier", "read", "loop"}
      /\ \A s \in Ranks : s # r => pc'[s] = pc[s]
  BY DEF EnterBarrier, LeaveBarrier, ReadPart, At, ReportInv, PartInv, PartTypes
<1>2. program = "file" /\ phase[r] = 1
  BY <1>1 DEF ReportInv, PartInv, PartTypes, PlaceOf
<1>3. /\ Phases' = Phases /\ Units' = Units
      /\ \A s, p : Own(s, p)' = Own(s, p) /\ Contribution(s, p)' = Contribution(s, p)
  BY <1>1, Fixed
<1>4. ReportTypes'
  BY <1>1, <1>3 DEF ReportInv, ReportTypes
<1>5. Told'
  <2>1. \A s \in Ranks : Len(sent[s]) \in Nat
    BY DEF ReportInv, ReportTypes
  <2> QED
    BY <1>1, <2>1, ToldStays DEF ReportInv, ReportTypes
<1>6. \A s \in Ranks : s # r => RankInv(s)'
  BY <1>1, OtherRank DEF ReportInv
<1>7. RankInv(r)'
  <2>1. rep[r] = 0 /\ RankInv(r)
    BY <1>1 DEF ReportInv, RankInv
  <2>2. Ahead(r)'
    BY <1>1, <1>3, <2>1 DEF RankInv, Ahead, Done
  <2>3. Progress(r)'
    BY <1>1, <1>2, <2>1 DEF Progress
  <2>4. \A p, u : RunBy(r, p, u)' = RunBy(r, p, u)
    BY <1>1 DEF RunBy, Past
  <2>5. \A p \in DOMAIN Phases' : \A u \in (Own(r, p) \cap Units)' : ran'[p][u] = RunBy(r, p, u)'
    BY <1>1, <1>3, <2>1, <2>4 DEF RankInv
  <2>6. \A p \in DOMAIN sent'[r] : sent'[r][p] = Contribution(r, p)'
    BY <1>1, <1>3, <2>1 DEF RankInv
  <2> QED
    BY <1>1, <2>1, <2>2, <2>3, <2>5, <2>6 DEF RankInv
<1> QED
  BY <1>4, <1>5, <1>6, <1>7 DEF ReportInv

\* A rank of the file program tests the lines of its part.
LEMMA ReportRunLines ==
  ASSUME ReportInv, NEW r \in Ranks, RunLines(r), PartInv'
  PROVE  ReportInv'
<1>1. /\ UNCHANGED <<program, line_count, left, pc, phase, filenum, geoms, sent, report>>
      /\ pc[r] = "loop" /\ ~Done(r) /\ program = "file" /\ rep[r] = 0
      /\ ran' = [ran EXCEPT ![1] = [u \in Units |-> IF u \in geoms[r] THEN @[u] + n ELSE @[u]]]
      /\ time' = [time EXCEPT ![r] = n * Cardinality(geoms[r])]
      /\ rep' = [rep EXCEPT ![r] = 1]
  BY DEF RunLines, At
<1>2. /\ Phases' = Phases /\ Units' = Units
      /\ \A s, p : Own(s, p)' = Own(s, p) /\ Contribution(s, p)' = Contribution(s, p)
      /\ \A s : PartOf(s)' = PartOf(s)
  BY <1>1, Fixed
<1>3. /\ PartTypes /\ ReportTypes /\ RankInv(r) /\ (program = "spatial" => left = 0)
      /\ geoms[r] = PartOf(r) /\ DOMAIN Phases = {1} /\ Len(Phases) = 1
  <2>1. PartTypes /\ ReportTypes /\ RankInv(r) /\ geoms[r] = PartOf(r)
    BY <1>1 DEF ReportInv, PartInv, PlaceOf
  <2>2. Phases = <<numProcs>>
    BY <1>1 DEF Phases
  <2> QED
    BY <1>1, <2>1, <2>2
<1>4. 1 \in DOMAIN Phases /\ \A s, p : Own(s, p) = PartOf(s)
  BY <1>1, <1>3 DEF Own
<1>5. Cardinality(PartOf(r)) \in Nat
  BY <1>3, <1>4, OwnSize
<1>6. \A u \in Units : ran'[1][u] = IF u \in PartOf(r) THEN ran[1][u] + n ELSE ran[1][u]
  BY <1>1, <1>3 DEF ReportTypes
<1>7. ReportTypes'
  <2>1. time' \in [Ranks -> Nat]
    <3>1. n * Cardinality(PartOf(r)) \in Nat
      BY CountsAssumption, <1>5
    <3> QED
      BY <1>1, <1>3, <3>1 DEF ReportTypes
  <2>2. rep' \in [Ranks -> 0 .. n]
    BY CountsAssumption, <1>1, <1>3 DEF ReportTypes
  <2>3. ran' \in [DOMAIN Phases -> [Units -> Nat]]
    BY CountsAssumption, <1>1, <1>3 DEF ReportTypes
  <2> QED
    BY <1>1, <1>2, <1>3, <2>1, <2>2, <2>3 DEF ReportTypes
<1>8. Told'
  <2>1. \A s \in Ranks : Len(sent[s]) \in Nat
    BY DEF ReportInv, ReportTypes
  <2> QED
    BY <1>1, <2>1, ToldStays DEF ReportInv, ReportTypes
<1>9. ASSUME NEW s \in Ranks, s # r PROVE RankInv(s)'
  <2>1. \A u \in Own(s, 1) : u \notin PartOf(r)
    BY <1>3, <1>4, <1>9, OwnPartition
  <2>2. \A p \in DOMAIN Phases : \A u \in Own(s, p) \cap Units : ran'[p][u] = ran[p][u]
    BY <1>3, <1>6, <2>1
  <2> QED
    BY <1>1, <1>3, <1>9, <2>2, OtherRank DEF ReportInv, ReportTypes
<1>10. RankInv(r)'
  <2>1. Ahead(r)'
    BY <1>1, <1>2, <1>3 DEF RankInv, Ahead, Done
  <2>2. rep'[r] = 1 /\ time'[r] = n * Cardinality(PartOf(r))
    BY <1>1, <1>3 DEF ReportTypes
  <2>3. Progress(r)'
    BY <1>1, <1>2, <2>2 DEF Progress
  <2>4. \A p \in DOMAIN sent'[r] : sent'[r][p] = Contribution(r, p)'
    BY <1>1, <1>2, <1>3 DEF RankInv
  <2>5. ASSUME NEW u \in PartOf(r) \cap Units PROVE ran'[1][u] = RunBy(r, 1, u)'
    <3>1. phase[r] = 1
      BY <1>1, <1>3 DEF Done, RankInv, Ahead
    <3>2. ~Past(r, 1) /\ ~Past(r, 1)'
      BY <1>1, <3>1 DEF Past
    <3>3. ran[1][u] = n * rep[r]
      BY <1>1, <1>3, <1>4, <3>1, <3>2 DEF RankInv, RunBy
    <3>4. ran'[1][u] = n * rep[r] + n
      BY <1>6, <3>3
    <3>5. n * 0 + n = n * 1
      BY CountsAssumption
    <3> QED
      BY <1>1, <2>2, <3>1, <3>2, <3>4, <3>5 DEF RunBy
  <2>6. \A p \in DOMAIN Phases' : \A u \in (Own(r, p) \cap Units)' : ran'[p][u] = RunBy(r, p, u)'
    BY <1>2, <1>3, <1>4, <2>5
  <2> QED
    BY <1>1, <2>1, <2>3, <2>4, <2>6 DEF RankInv
<1> QED
  BY <1>7, <1>8, <1>9, <1>10 DEF ReportInv

\* A function with another value at one place.
LEMMA Updated ==
  ASSUME NEW D, NEW S, NEW g \in [D -> S], NEW d, NEW v \in S
  PROVE  [g EXCEPT ![d] = v] \in [D -> S]
OBVIOUS

\* A rank runs the next partition of its share.
LEMMA ReportRunFile ==
  ASSUME ReportInv, NEW r \in Ranks, RunFile(r), PartInv'
  PROVE  ReportInv'
<1> DEFINE ranks == limit_procs(r)
           f == filenum[r]
           share == Share(r, ranks)
           early == {u \in share : u < f}
<1>1. /\ UNCHANGED <<program, line_count, left, pc, phase, rep, geoms, directory, sent, report>>
      /\ pc[r] = "loop" /\ ~Done(r) /\ program = "spatial" /\ r < ranks /\ rep[r] < n /\ f < partitions
      /\ ran' = [ran EXCEPT ![phase[r]][f] = @ + 1]
      /\ time' = [time EXCEPT ![r] = @ + 1]
      /\ filenum' = [filenum EXCEPT ![r] = @ + ranks]
  BY DEF RunFile, Working, At
<1>2. /\ Phases' = Phases /\ Units' = Units
      /\ \A s, p : Own(s, p)' = Own(s, p) /\ Contribution(s, p)' = Contribution(s, p)
  BY <1>1, Fixed
<1>3. PartTypes /\ ReportTypes /\ RankInv(r) /\ (program = "spatial" => left = 0) /\ Progress(r)
  BY <1>1 DEF ReportInv, PartInv, ReportTypes, RankInv
<1>4. /\ phase[r] \in DOMAIN Phases /\ ranks = Phases[phase[r]] /\ ranks \in Nat \ {0}
      /\ Own(r, phase[r]) = share /\ Units = 0 .. partitions - 1 /\ partitions \in Nat
      /\ f \in Nat /\ rep[r] \in Nat /\ rep[r] <= n /\ time[r] \in Nat /\ n \in Nat
  <2>1. phase[r] \in DOMAIN Phases
    BY <1>1, <1>3 DEF Done, RankInv, Ahead, Phases
  <2>2. ranks = Phases[phase[r]] /\ ranks \in Nat \ {0}
    BY CountsAssumption, <2>1, PhaseRanks DEF limit_procs
  <2> QED
    BY CountsAssumption, <1>1, <1>3, <2>1, <2>2 DEF Own, Units, ReportTypes
<1>5. f % ranks = r /\ f >= r /\ time[r] = rep[r] * Cardinality(share) + Cardinality(early)
  BY <1>1, <1>3 DEF Progress
<1>6. f \in share /\ f \in Units
  BY <1>4, <1>1, <1>5 DEF Share
<1>7. /\ filenum'[r] = f + ranks /\ time'[r] = time[r] + 1 /\ rep'[r] = rep[r]
      /\ (f + ranks) % ranks = r
  <2>1. filenum'[r] = f + ranks /\ time'[r] = time[r] + 1 /\ rep'[r] = rep[r]
    BY <1>1, <1>3 DEF ReportTypes
  <2>2. ranks \in Nat \ {0} /\ f \in Nat /\ f % ranks = r
    BY <1>4, <1>5
  <2> HIDE DEF f, ranks
  <2>3. (f + ranks) % ranks = f % ranks
    BY <2>2, NextOfRemainder
  <2> QED
    BY <2>1, <2>2, <2>3
<1> HIDE DEF ranks, f
<1>8. \A u \in share : (u < f + ranks <=> (u < f \/ u = f))
  <2>1. \A u \in share : u \in Nat /\ u % ranks = f % ranks
    BY <1>4, <1>5 DEF Share
  <2>2. ranks \in Nat \ {0} /\ f \in Nat
    BY <1>4
  <2>3. \A u \in Nat : u % ranks = f % ranks => (u < f + ranks <=> (u < f \/ u = f))
    BY <2>2, NextOfRemainder
  <2> HIDE DEF share
  <2> QED
    BY <2>1, <2>3
<1>9. ReportTypes'
  <2>1. filenum' \in [Ranks -> Nat] /\ time' \in [Ranks -> Nat]
    <3>1. /\ filenum \in [Ranks -> Nat] /\ time \in [Ranks -> Nat]
          /\ filenum[r] + ranks \in Nat /\ time[r] + 1 \in Nat
      BY <1>3, <1>4 DEF ReportTypes, f
    <3>2. /\ filenum' = [filenum EXCEPT ![r] = filenum[r] + ranks]
          /\ time' = [time EXCEPT ![r] = time[r] + 1]
      BY <1>1
    <3> QED
      BY <3>1, <3>2, Updated
  <2>2. ran' \in [DOMAIN Phases -> [Units -> Nat]]
    <3>1. /\ ran \in [DOMAIN Phases -> [Units -> Nat]] /\ phase[r] \in DOMAIN Phases /\ f \in Units
          /\ ran' = [ran EXCEPT ![phase[r]][f] = @ + 1]
      BY <1>1, <1>3, <1>4, <1>6 DEF ReportTypes
    <3>2. /\ ran[phase[r]] \in [Units -> Nat] /\ ran[phase[r]][f] + 1 \in Nat
      BY <3>1
    <3>3. [ran[phase[r]] EXCEPT ![f] = @ + 1] \in [Units -> Nat]
      BY <3>2
    <3> QED
      BY <3>1, <3>3
  <2> QED
    BY <1>1, <1>2, <1>3, <2>1, <2>2 DEF ReportTypes
<1>10. Told'
  <2>1. \A s \in Ranks : Len(sent[s]) \in Nat
    BY DEF ReportInv, ReportTypes
  <2> QED
    BY <1>1, <2>1, ToldStays DEF ReportInv, ReportTypes
<1>11. \A p \in DOMAIN Phases : \A u \in Units :
         ran'[p][u] = IF p = phase[r] /\ u = f THEN ran[p][u] + 1 ELSE ran[p][u]
  BY <1>1, <1>3, <1>4, <1>6 DEF ReportTypes
<1>12. ASSUME NEW s \in Ranks, s # r PROVE RankInv(s)'
  <2>1. f \notin Own(s, phase[r])
    BY <1>3, <1>4, <1>6, <1>12, OwnPartition
  <2>2. \A p \in DOMAIN Phases : \A u \in Own(s, p) \cap Units : ran'[p][u] = ran[p][u]
    BY <1>11, <2>1
  <2> QED
    BY <1>1, <1>3, <1>12, <2>2, OtherRank DEF ReportInv, ReportTypes
<1>13. RankInv(r)'
  <2>1. Ahead(r)'
    BY <1>1, <1>2, <1>3 DEF RankInv, Ahead, Done
  <2>2. Progress(r)'
    <3> DEFINE later == {u \in share : u < f + ranks}
    <3>1. later = early \cup {f}
      BY <1>6, <1>8
    <3>2. f \notin early
      BY <1>4
    <3>3. IsFiniteSet(early) /\ Cardinality(early) \in Nat /\ Cardinality(share) \in Nat
      <4>1. IsFiniteSet(share) /\ early \in SUBSET share /\ Cardinality(share) \in Nat
        BY <1>4, Shares
      <4> HIDE DEF early, share
      <4> QED
        BY <4>1, FS_Subset, FS_CardinalityType
    <3> HIDE DEF early, share, later
    <3>4. Cardinality(later) = Cardinality(early) + 1
      <4>1. Cardinality(early \cup {f}) = IF f \in early THEN Cardinality(early) ELSE Cardinality(early) + 1
        BY <3>3, FS_AddElement
      <4> QED
        BY <3>1, <3>2, <4>1
    <3>5. time'[r] = rep[r] * Cardinality(share) + Cardinality(later)
      <4>1. \A x, y \in Nat : (x + y) + 1 = x + (y + 1)
        OBVIOUS
      <4>2. rep[r] * Cardinality(share) \in Nat
        <5>1. \A x, y \in Nat : x * y \in Nat
          OBVIOUS
        <5> QED
          BY <1>4, <3>3, <5>1
      <4> QED
        BY <1>5, <1>7, <3>3, <3>4, <4>1, <4>2
    <3>6. limit_procs(r)' = ranks
      BY <1>1, <1>2 DEF limit_procs, ranks
    <3>7. f + ranks >= r
      BY <1>4, <1>5 DEF Ranks
    <3> QED
      <4>1. Share(r, limit_procs(r))' = share /\ {u \in share : u < filenum'[r]} = later
        BY <1>7, <3>6 DEF share, later, Share
      <4>2. ~(r >= ranks) /\ rep[r] # n
        BY <1>1, <1>4 DEF Ranks
      <4> QED
        BY <1>1, <1>7, <3>5, <3>6, <3>7, <4>1, <4>2 DEF Progress
  <2>3. \A p \in DOMAIN sent'[r] : sent'[r][p] = Contribution(r, p)'
    BY <1>1, <1>2, <1>3 DEF RankInv
  <2>4. ASSUME NEW p \in DOMAIN Phases, NEW u \in Own(r, p) \cap Units PROVE ran'[p][u] = RunBy(r, p, u)'
    <3>1. ran[p][u] = RunBy(r, p, u)
      BY <1>3 DEF RankInv
    <3>2. Past(r, p)' <=> Past(r, p)
      BY <1>1 DEF Past
    <3>3. CASE p # phase[r]
      BY <1>1, <1>11, <3>1, <3>2, <3>3 DEF RunBy
    <3>4. CASE p = phase[r]
      <4>1. ~Past(r, p) /\ u \in share /\ (u < f + ranks <=> (u < f \/ u = f)) /\ u \in Nat
        <5>1. phase[r] \in Nat /\ u \in share
          BY <1>3, <1>4, <3>4 DEF PartTypes
        <5>2. u \in Nat
          BY <1>4, <5>1 DEF Share
        <5> HIDE DEF share
        <5> QED
          BY <1>1, <1>8, <3>4, <5>1, <5>2 DEF Past
      <4>2. ran[p][u] = rep[r] + IF u < f THEN 1 ELSE 0
        BY <1>1, <3>1, <3>4, <4>1 DEF RunBy, f
      <4>3. RunBy(r, p, u)' = rep[r] + IF u < f + ranks THEN 1 ELSE 0
        BY <1>1, <1>7, <3>2, <3>4, <4>1 DEF RunBy
      <4>4. ran'[p][u] = IF u = f THEN ran[p][u] + 1 ELSE ran[p][u]
        BY <1>11, <3>4
      <4> HIDE DEF share
      <4>5. CASE u = f
        BY <1>4, <4>1, <4>2, <4>3, <4>4, <4>5
      <4>6. CASE u # f
        BY <1>4, <4>1, <4>2, <4>3, <4>4, <4>6
      <4> QED
        BY <4>5, <4>6
    <3> QED
      BY <3>3, <3>4
  <2>5. \A p \in DOMAIN Phases' : \A u \in (Own(r, p) \cap Units)' : ran'[p][u] = RunBy(r, p, u)'
    BY <1>2, <2>4
  <2> QED
    BY <1>1, <2>1, <2>2, <2>3, <2>5 DEF RankInv
<1> QED
  BY <1>9, <1>10, <1>12, <1>13 DEF ReportInv

\* What a rank of the spatial program knows in its loop.
LEMMA InLoop ==
  ASSUME ReportInv, NEW r \in Ranks, ~Done(r), program = "spatial"
  PROVE  /\ phase[r] \in DOMAIN Phases /\ limit_procs(r) = Phases[phase[r]]
         /\ limit_procs(r) \in Nat \ {0}
         /\ Own(r, phase[r]) = Share(r, limit_procs(r)) /\ Units = 0 .. partitions - 1
         /\ filenum[r] \in Nat /\ rep[r] \in 0 .. n /\ time[r] \in Nat /\ n \in Nat \ {0}
         /\ Share(r, limit_procs(r)) \subseteq {u \in 0 .. partitions - 1 : u >= r}
         /\ Cardinality(Share(r, limit_procs(r))) \in Nat
         /\ r >= limit_procs(r) => Share(r, limit_procs(r)) = {}
<1>1. PartTypes /\ ReportTypes /\ RankInv(r)
  BY DEF ReportInv, PartInv
<1>2. phase[r] \in DOMAIN Phases
  BY <1>1 DEF Done, RankInv, Ahead, Phases
<1>3. limit_procs(r) = Phases[phase[r]] /\ limit_procs(r) \in Nat \ {0}
  BY CountsAssumption, <1>2, PhaseRanks DEF limit_procs
<1>4. /\ Cardinality(Share(r, limit_procs(r))) \in Nat /\ \A u \in Share(r, limit_procs(r)) : u >= r
      /\ r >= limit_procs(r) => Share(r, limit_procs(r)) = {}
  BY <1>3, Shares
<1>5. Share(r, limit_procs(r)) \subseteq {u \in 0 .. partitions - 1 : u >= r}
  BY <1>4 DEF Share
<1> QED
  BY CountsAssumption, <1>1, <1>2, <1>3, <1>4, <1>5 DEF Own, Units, ReportTypes

\* A rank has run its share once more, and goes back to its first partition.
LEMMA ReportNextRepetition ==
  ASSUME ReportInv, NEW r \in Ranks, NextRepetition(r), PartInv'
  PROVE  ReportInv'
<1> DEFINE ranks == limit_procs(r)
           share == Share(r, ranks)
           early == {u \in share : u < filenum[r]}
<1>1. /\ UNCHANGED <<program, line_count, left, pc, phase, geoms, time, directory, sent, report, ran>>
      /\ pc[r] = "loop" /\ ~Done(r) /\ program = "spatial" /\ r < ranks /\ rep[r] < n
      /\ filenum[r] >= partitions
      /\ rep' = [rep EXCEPT ![r] = @ + 1] /\ filenum' = [filenum EXCEPT ![r] = r]
  BY DEF NextRepetition, Working, At
<1>2. /\ Phases' = Phases /\ Units' = Units
      /\ \A s, p : Own(s, p)' = Own(s, p) /\ Contribution(s, p)' = Contribution(s, p)
  BY <1>1, Fixed
<1>3. ReportTypes /\ RankInv(r) /\ Progress(r) /\ r \in Nat
  BY <1>1 DEF ReportInv, RankInv, Ranks
<1>4. /\ phase[r] \in DOMAIN Phases /\ ranks \in Nat \ {0} /\ Own(r, phase[r]) = share
      /\ filenum[r] \in Nat /\ rep[r] \in 0 .. n /\ time[r] \in Nat /\ n \in Nat \ {0}
      /\ share \subseteq {u \in 0 .. partitions - 1 : u >= r} /\ Cardinality(share) \in Nat
      /\ partitions \in Nat
  BY <1>1, CountsAssumption, InLoop
<1>5. time[r] = rep[r] * Cardinality(share) + Cardinality(early)
  BY <1>1, <1>3 DEF Progress
<1>6. rep'[r] = rep[r] + 1 /\ filenum'[r] = r
  BY <1>1, <1>3 DEF ReportTypes
<1> HIDE DEF ranks
<1>7. ReportTypes'
  <2>1. rep' \in [Ranks -> 0 .. n] /\ filenum' \in [Ranks -> Nat]
    BY <1>1, <1>3, <1>4 DEF ReportTypes
  <2> QED
    BY <1>1, <1>2, <1>3, <2>1 DEF ReportTypes
<1>8. Told'
  <2>1. \A s \in Ranks : Len(sent[s]) \in Nat
    BY DEF ReportInv, ReportTypes
  <2> QED
    BY <1>1, <2>1, ToldStays DEF ReportInv, ReportTypes
<1>9. ASSUME NEW s \in Ranks, s # r PROVE RankInv(s)'
  BY <1>1, <1>3, <1>9, OtherRank DEF ReportInv, ReportTypes
<1>10. RankInv(r)'
  <2>1. Ahead(r)'
    BY <1>1, <1>2, <1>3 DEF RankInv, Ahead, Done
  <2>2. Progress(r)'
    <3>1. early = share /\ {u \in share : u < r} = {}
      BY <1>1, <1>3, <1>4
    <3> HIDE DEF share, early
    <3>2. Cardinality({u \in share : u < r}) = 0
      BY <3>1, FS_EmptySet, Zenon
    <3>3. time[r] = (rep[r] + 1) * Cardinality(share) + 0
      <4>1. \A x, y \in Nat : x * y + y = (x + 1) * y + 0
        OBVIOUS
      <4> QED
        BY <1>4, <1>5, <3>1, <4>1
    <3>4. r % ranks = r
      <4>1. r \in 0 .. ranks - 1
        BY <1>1, <1>3, <1>4 DEF ranks
      <4> QED
        BY <1>4, <4>1, SmallRemainder
    <3>5. Share(r, limit_procs(r))' = share /\ limit_procs(r)' = ranks
      BY <1>1, <1>2 DEF share, Share, limit_procs, ranks
    <3>6. ~(r >= ranks)
      BY <1>1, <1>3, <1>4 DEF ranks
    <3> QED
      <4>1. rep'[r] = rep[r] + 1 /\ filenum'[r] = r /\ time'[r] = time[r] /\ program' = "spatial"
        BY <1>1, <1>6
      <4>2. filenum'[r] >= r
        BY <1>3, <4>1
      <4> QED
        BY <3>2, <3>3, <3>4, <3>5, <3>6, <4>1, <4>2 DEF Progress
  <2>3. \A p \in DOMAIN sent'[r] : sent'[r][p] = Contribution(r, p)'
    BY <1>1, <1>2, <1>3 DEF RankInv
  <2>4. ASSUME NEW p \in DOMAIN Phases, NEW u \in Own(r, p) \cap Units PROVE ran'[p][u] = RunBy(r, p, u)'
    <3>1. ran'[p][u] = RunBy(r, p, u)
      BY <1>1, <1>3 DEF RankInv
    <3>2. Past(r, p)' <=> Past(r, p)
      BY <1>1 DEF Past
    <3>3. CASE p # phase[r]
      BY <1>1, <3>1, <3>2, <3>3 DEF RunBy
    <3>4. CASE p = phase[r]
      <4>1. u \in Nat /\ u >= r /\ u < filenum[r]
        BY <1>1, <1>4, <3>4
      <4>2. RunBy(r, p, u)' = RunBy(r, p, u)
        BY <1>1, <1>3, <1>4, <1>6, <3>2, <3>4, <4>1 DEF RunBy
      <4> QED
        BY <3>1, <4>2
    <3> QED
      BY <3>3, <3>4
  <2>5. \A p \in DOMAIN Phases' : \A u \in (Own(r, p) \cap Units)' : ran'[p][u] = RunBy(r, p, u)'
    BY <1>2, <2>4
  <2> QED
    BY <1>1, <2>1, <2>2, <2>3, <2>5 DEF RankInv
<1> QED
  BY <1>7, <1>8, <1>9, <1>10 DEF ReportInv

\* (n * c) \div n is c.
LEMMA Average ==
  ASSUME NEW c \in Nat
  PROVE  (n * c) \div n = c
<1>1. n \in Nat \ {0} /\ n * c \in Nat /\ n * c = n * c + 0 /\ 0 \in 0 .. n - 1
  BY CountsAssumption
<1> QED
  BY <1>1, Remainder

\* A rank comes to its reductions with the work of its phase done, once for each
\* repetition.
LEMMA Completes ==
  ASSUME ReportInv, NEW r \in Ranks, ~Done(r), pc[r] = "loop",
         IF program = "spatial" THEN ~(r < limit_procs(r) /\ rep[r] < n) ELSE rep[r] = 1
  PROVE  /\ phase[r] \in DOMAIN Phases
         /\ [sum |-> time[r] \div n, min |-> MinInput(r)] = Contribution(r, phase[r])
         /\ \A u \in Own(r, phase[r]) \cap Units : ran[phase[r]][u] = n
<1> DEFINE p == phase[r]
<1>1. PartTypes /\ ReportTypes /\ RankInv(r) /\ Progress(r) /\ r \in Nat /\ n \in Nat \ {0}
      /\ (program = "spatial" => left = 0)
  <2>1. PartTypes /\ ReportTypes /\ RankInv(r) /\ Progress(r)
    BY DEF ReportInv, PartInv, RankInv
  <2>2. r \in Nat /\ n \in Nat \ {0}
    BY CountsAssumption DEF Ranks
  <2>3. program = "spatial" => left = 0
    BY <2>1 DEF ReportTypes
  <2> QED
    BY <2>1, <2>2, <2>3
<1>2. p \in DOMAIN Phases /\ ~Past(r, p) /\ limit_procs(r) = Phases[p]
  BY <1>1 DEF Done, RankInv, Ahead, Phases, Past, limit_procs, PartTypes
<1>3. Cardinality(Own(r, p)) \in Nat
  BY <1>1, <1>2, OwnSize
<1>4. \A u \in Own(r, p) \cap Units :
        ran[p][u] = IF program = "file" THEN n * rep[r] ELSE rep[r] + IF u < filenum[r] THEN 1 ELSE 0
  BY <1>1, <1>2 DEF RankInv, RunBy
<1>5. CASE program = "file"
  <2>1. time[r] = n * Cardinality(Own(r, p)) /\ rep[r] = 1
    BY <1>1, <1>5 DEF Progress, Own
  <2>2. time[r] \div n = Cardinality(Own(r, p))
    BY <1>3, <2>1, Average
  <2>3. n * 1 = n
    BY <1>1
  <2>4. \A u \in Own(r, p) \cap Units : ran[p][u] = n
    BY <1>4, <1>5, <2>1, <2>3
  <2> QED
    BY <1>2, <2>2, <2>4 DEF Contribution, MinInput
<1>6. CASE program = "spatial"
  <2> DEFINE share == Share(r, limit_procs(r))
             early == {u \in share : u < filenum[r]}
  <2>1. /\ Own(r, p) = share /\ limit_procs(r) \in Nat /\ rep[r] \in 0 .. n
        /\ share \subseteq {u \in 0 .. partitions - 1 : u >= r}
        /\ r >= limit_procs(r) => share = {}
    BY <1>6, InLoop
  <2>2. CASE r >= limit_procs(r)
    <3>1. Cardinality(Own(r, p)) = 0 /\ Own(r, p) = {}
      BY <2>1, <2>2, FS_EmptySet, Zenon
    <3>2. time[r] = n * 0
      BY <1>1, <1>6, <2>2 DEF Progress
    <3>3. time[r] \div n = 0
      BY <3>2, Average
    <3> QED
      BY <1>2, <3>1, <3>3 DEF Contribution, MinInput
  <2>3. CASE r < limit_procs(r)
    <3>1. rep[r] = n /\ ~(r >= limit_procs(r))
      BY <1>1, <1>6, <2>1, <2>3
    <3>2. filenum[r] = r /\ time[r] = n * Cardinality(share) + Cardinality(early)
      BY <1>1, <1>6, <2>3, <3>1 DEF Progress
    <3>3. \A u \in share : ~(u < r)
      BY <1>1, <2>1
    <3>4. Cardinality(early) = 0
      <4>1. early = {}
        BY <3>2, <3>3
      <4> QED
        BY <4>1, FS_EmptySet, Zenon
    <3>5. time[r] = n * Cardinality(share)
      BY <1>1, <1>3, <2>1, <3>2, <3>4
    <3>6. time[r] \div n = Cardinality(Own(r, p))
      BY <1>3, <2>1, <3>5, Average
    <3>7. \A u \in Own(r, p) \cap Units : ran[p][u] = n
      BY <1>1, <1>4, <1>6, <2>1, <3>1, <3>2, <3>3
    <3> QED
      BY <1>2, <3>1, <3>6, <3>7 DEF Contribution, MinInput
  <2> QED
    BY <1>1, <2>1, <2>2, <2>3
<1> QED
  BY <1>1, <1>5, <1>6 DEF PartTypes

\* Appending to a sequence.
LEMMA AppendFacts ==
  ASSUME NEW T, NEW a \in Seq(T), NEW e \in T
  PROVE  /\ Append(a, e) \in Seq(T) /\ Len(Append(a, e)) = Len(a) + 1 /\ Len(a) \in Nat
         /\ DOMAIN a = 1 .. Len(a)
         /\ \A p \in DOMAIN Append(a, e) :
              \/ p \in DOMAIN a /\ Append(a, e)[p] = a[p]
              \/ p = Len(a) + 1 /\ Append(a, e)[p] = e
OBVIOUS

\* A rank gives its times to the reductions.
LEMMA ReportEnterReduce ==
  ASSUME ReportInv, NEW r \in Ranks, EnterReduce(r), PartInv'
  PROVE  ReportInv'
<1> DEFINE p0 == phase[r]
           given == [sum |-> time[r] \div n, min |-> MinInput(r)]
<1>1. /\ UNCHANGED <<program, line_count, left, report, ran>>
      /\ pc[r] = "loop" /\ ~Done(r)
      /\ IF program = "spatial" THEN ~(r < limit_procs(r) /\ rep[r] < n) ELSE rep[r] = 1
      /\ sent' = [sent EXCEPT ![r] = Append(@, given)]
      /\ IF r = root
           THEN pc' = [pc EXCEPT ![r] = "reduce"] /\ UNCHANGED <<phase, rep, filenum, time>>
           ELSE NextPhase(r)
  BY DEF EnterReduce, At, Working
<1>2. /\ Phases' = Phases /\ Units' = Units
      /\ \A s, p : Own(s, p)' = Own(s, p) /\ Contribution(s, p)' = Contribution(s, p)
  BY <1>1, Fixed
<1>3. PartTypes /\ PartTypes' /\ ReportTypes /\ RankInv(r) /\ r \in Nat /\ n # 0
      /\ (program = "spatial" => left = 0)
  <2>1. PartTypes /\ PartTypes' /\ ReportTypes /\ RankInv(r) /\ (program = "spatial" => left = 0)
    BY DEF ReportInv, PartInv, ReportTypes
  <2>2. r \in Nat /\ n # 0
    BY CountsAssumption DEF Ranks
  <2> QED
    BY <2>1, <2>2
<1>4. /\ p0 \in DOMAIN Phases /\ given = Contribution(r, p0)
      /\ \A u \in Own(r, p0) \cap Units : ran[p0][u] = n
  BY <1>1, Completes
<1>5. given \in [sum : Nat, min : Nat]
  <2>1. Cardinality(Own(r, p0)) \in Nat /\ I \in Nat
    BY <1>3, <1>4, OwnSize, LinesAssumption
  <2> QED
    BY <1>4, <2>1 DEF Contribution
<1> HIDE DEF given
<1>6. /\ sent[r] \in Seq([sum : Nat, min : Nat]) /\ sent'[r] = Append(sent[r], given)
      /\ \A s \in Ranks : s # r => sent'[s] = sent[s]
  BY <1>1, <1>3 DEF ReportTypes
<1>7. /\ Len(sent'[r]) = Len(sent[r]) + 1 /\ Len(sent[r]) = p0 - 1 /\ p0 \in Nat
      /\ \A p \in DOMAIN sent'[r] : sent'[r][p] = Contribution(r, p)
  <2>1. Len(sent[r]) = p0 - 1 /\ p0 \in Nat
    BY <1>1, <1>3 DEF RankInv, Ahead, PartTypes
  <2>2. \A p \in DOMAIN sent'[r] : (p \in DOMAIN sent[r] /\ sent'[r][p] = sent[r][p])
                                   \/ (p = p0 /\ sent'[r][p] = given)
    BY <1>5, <1>6, <2>1, AppendFacts
  <2> QED
    BY <1>3, <1>4, <1>5, <1>6, <2>1, <2>2, AppendFacts DEF RankInv
<1>8. /\ sent' \in [Ranks -> Seq([sum : Nat, min : Nat])]
      /\ \A s \in Ranks : Len(sent'[s]) \in Nat /\ Len(sent[s]) \in Nat /\ Len(sent'[s]) >= Len(sent[s])
  <2>1. \A s \in Ranks : sent[s] \in Seq([sum : Nat, min : Nat]) /\ Len(sent[s]) \in Nat
    BY <1>3 DEF ReportTypes
  <2>2. \A s \in Ranks : sent'[s] \in Seq([sum : Nat, min : Nat])
    <3>1. sent'[r] \in Seq([sum : Nat, min : Nat])
      BY <1>5, <1>6, AppendFacts
    <3> QED
      BY <1>6, <2>1, <3>1
  <2>3. sent' = [s \in Ranks |-> sent'[s]]
    BY <1>3 DEF PartTypes
  <2>4. \A s \in Ranks : Len(sent'[s]) \in Nat /\ Len(sent'[s]) >= Len(sent[s])
    <3> SUFFICES ASSUME NEW s \in Ranks PROVE Len(sent'[s]) \in Nat /\ Len(sent'[s]) >= Len(sent[s])
      OBVIOUS
    <3>1. Len(sent[s]) \in Nat
      BY <2>1
    <3>2. CASE s = r
      BY <1>7, <3>1, <3>2
    <3>3. CASE s # r
      BY <1>6, <3>1, <3>3
    <3> QED
      BY <3>2, <3>3
  <2> QED
    BY <2>1, <2>2, <2>3, <2>4
<1>9. CASE r = root
  <2>1. /\ pc' = [pc EXCEPT ![r] = "reduce"] /\ UNCHANGED <<phase, rep, filenum, time>> /\ pc'[r] = "reduce"
    BY <1>1, <1>3, <1>9 DEF PartTypes
  <2>2. ReportTypes'
    BY <1>1, <1>2, <1>3, <1>8, <2>1 DEF ReportTypes
  <2>3. Told'
    BY <1>1, <1>8, <2>1, ToldStays DEF ReportInv, ReportTypes
  <2>4. ASSUME NEW s \in Ranks, s # r PROVE RankInv(s)'
    <3>1. pc'[s] = pc[s] /\ sent'[s] = sent[s]
      BY <1>3, <1>6, <2>1, <2>4 DEF PartTypes
    <3> QED
      BY <1>1, <2>1, <3>1, OtherRank DEF ReportInv
  <2>5. RankInv(r)'
    <3>1. Ahead(r)'
      BY <1>1, <1>2, <1>3, <1>7, <1>9, <2>1 DEF RankInv, Ahead, Done
    <3>2. ASSUME NEW p \in DOMAIN Phases, NEW u \in Own(r, p) \cap Units
          PROVE  ran'[p][u] = RunBy(r, p, u)'
      <4>1. ran'[p][u] = RunBy(r, p, u)
        BY <1>1, <1>3 DEF RankInv
      <4>2. CASE p = p0
        <5>1. Past(r, p)'
          BY <2>1, <4>2 DEF Past
        <5> QED
          BY <1>1, <1>4, <4>2, <5>1 DEF RunBy
      <4>3. CASE p # p0
        <5>1. Past(r, p)' <=> Past(r, p)
          BY <2>1, <4>3 DEF Past
        <5> QED
          BY <2>1, <4>1, <4>3, <5>1 DEF RunBy
      <4> QED
        BY <4>2, <4>3
    <3>3. \A p \in DOMAIN Phases' : \A u \in (Own(r, p) \cap Units)' : ran'[p][u] = RunBy(r, p, u)'
      BY <1>2, <3>2
    <3>4. \A p \in DOMAIN sent'[r] : sent'[r][p] = Contribution(r, p)'
      BY <1>2, <1>7
    <3> QED
      BY <2>1, <3>1, <3>3, <3>4 DEF RankInv
  <2> QED
    BY <2>2, <2>3, <2>4, <2>5 DEF ReportInv
<1>10. CASE r # root
  <2>1. /\ phase' = [phase EXCEPT ![r] = @ + 1] /\ pc' = [pc EXCEPT ![r] = "loop"]
        /\ rep' = [rep EXCEPT ![r] = 0] /\ filenum' = [filenum EXCEPT ![r] = r]
        /\ time' = [time EXCEPT ![r] = 0]
    BY <1>1, <1>10 DEF NextPhase
  <2>2. /\ phase'[r] = p0 + 1 /\ pc'[r] = "loop" /\ rep'[r] = 0 /\ filenum'[r] = r /\ time'[r] = 0
        /\ phase'[root] = phase[root]
    BY <1>3, <1>10, <2>1, RootIsRank DEF PartTypes, ReportTypes
  <2>3. ReportTypes'
    <3>1. /\ rep' \in [Ranks -> 0 .. n] /\ filenum' \in [Ranks -> Nat] /\ time' \in [Ranks -> Nat]
      BY CountsAssumption, <1>3, <2>1 DEF ReportTypes
    <3> QED
      BY <1>1, <1>2, <1>3, <1>8, <3>1 DEF ReportTypes
  <2>4. Told'
    BY <1>1, <1>8, <2>2, ToldStays DEF ReportInv, ReportTypes
  <2>5. ASSUME NEW s \in Ranks, s # r PROVE RankInv(s)'
    <3>1. /\ pc'[s] = pc[s] /\ sent'[s] = sent[s] /\ phase'[s] = phase[s] /\ rep'[s] = rep[s]
          /\ filenum'[s] = filenum[s] /\ time'[s] = time[s]
      BY <1>3, <1>6, <2>1, <2>5 DEF PartTypes, ReportTypes
    <3> QED
      BY <1>1, <3>1, OtherRank DEF ReportInv
  <2>6. RankInv(r)'
    <3>1. p0 + 1 \in 1 .. Len(Phases) + 1 /\ Len(Phases) \in Nat
      BY <1>4, <1>7, PhaseDomain
    <3>2. Ahead(r)'
      BY <1>2, <1>7, <2>2, <3>1 DEF Ahead
    <3>3. ~Done(r)' => Progress(r)'
      <4>1. ~Done(r)' => phase'[r] \in DOMAIN Phases'
        BY <1>2, <1>7, <2>2, <3>1 DEF Done, Phases
      <4> QED
        BY <1>3, <2>2, <2>3, <4>1, BeginsNext DEF BeginsAt
    <3>4. ASSUME NEW p \in DOMAIN Phases, NEW u \in Own(r, p) \cap Units
          PROVE  ran'[p][u] = RunBy(r, p, u)'
      <4>1. ran'[p][u] = RunBy(r, p, u) /\ p \in Nat
        BY <1>1, <1>3 DEF RankInv, Phases
      <4>2. CASE p = p0
        <5>1. Past(r, p)'
          BY <1>7, <2>2, <4>2 DEF Past
        <5> QED
          BY <1>1, <1>4, <4>2, <5>1 DEF RunBy
      <4>3. CASE p # p0 /\ p # p0 + 1
        <5>1. Past(r, p)' <=> Past(r, p)
          BY <1>7, <2>2, <4>1, <4>3 DEF Past
        <5> QED
          BY <2>2, <4>1, <4>3, <5>1 DEF RunBy
      <4>4. CASE p = p0 + 1
        <5>1. ~Past(r, p)' /\ ~Past(r, p) /\ p # p0 /\ program = "spatial" /\ program' = program
          BY <1>1, <1>3, <1>4, <1>7, <2>2, <4>4, PhaseRanks DEF Past, PartTypes
        <5>2. ran'[p][u] = 0
          BY <4>1, <5>1 DEF RunBy
        <5>3. u \in Nat /\ ~(u < r)
          <6>1. Phases[p] \in Nat \ {0}
            BY CountsAssumption, PhaseRanks
          <6> QED
            BY <1>3, <5>1, <6>1, Shares DEF Own
        <5> QED
          BY <2>2, <4>4, <5>1, <5>2, <5>3 DEF RunBy
      <4> QED
        BY <4>2, <4>3, <4>4
    <3>5. \A p \in DOMAIN Phases' : \A u \in (Own(r, p) \cap Units)' : ran'[p][u] = RunBy(r, p, u)'
      BY <1>2, <3>4
    <3>6. \A p \in DOMAIN sent'[r] : sent'[r][p] = Contribution(r, p)'
      BY <1>2, <1>7
    <3> QED
      BY <2>2, <3>2, <3>3, <3>5, <3>6 DEF RankInv
  <2> QED
    BY <2>3, <2>4, <2>5, <2>6 DEF ReportInv
<1> QED
  BY <1>9, <1>10

\* The root reports: every rank has given its contribution.
LEMMA ReportReduce ==
  ASSUME ReportInv, Reduce, PartInv'
  PROVE  ReportInv'
<1> DEFINE p0 == phase[root]
           max == MaxOf({sent[r][p0].sum : r \in Ranks})
           min == MinOf({sent[r][p0].min : r \in Ranks})
           line == [sum |-> SumOf(p0), max |-> max, min |-> min]
<1>1. /\ UNCHANGED <<program, line_count, left, geoms, sent, ran>>
      /\ pc[root] = "reduce" /\ ~Done(root)
      /\ \A r \in Ranks : Len(sent[r]) >= p0
      /\ report' = Append(report, line)
      /\ phase' = [phase EXCEPT ![root] = @ + 1] /\ pc' = [pc EXCEPT ![root] = "loop"]
      /\ rep' = [rep EXCEPT ![root] = 0] /\ filenum' = [filenum EXCEPT ![root] = root]
      /\ time' = [time EXCEPT ![root] = 0]
  BY DEF Reduce, NextPhase, At
<1>2. /\ Phases' = Phases /\ Units' = Units /\ ReportedSum' = ReportedSum
      /\ \A s, p : Own(s, p)' = Own(s, p) /\ Contribution(s, p)' = Contribution(s, p)
  BY <1>1, Fixed
<1>3. PartTypes /\ PartTypes' /\ ReportTypes /\ Told /\ (program = "spatial" => left = 0)
  BY DEF ReportInv, PartInv, ReportTypes
<1>4. RankInv(root) /\ root \in Ranks /\ root = 0
  BY RootIsRank DEF ReportInv, root
<1>5. p0 \in DOMAIN Phases /\ p0 \in Nat /\ p0 # 0
  BY <1>1, <1>3, <1>4, PhaseDomain DEF Done, RankInv, Ahead, PartTypes
<1>6. \A r \in Ranks : sent[r][p0] = Contribution(r, p0)
  <2> SUFFICES ASSUME NEW r \in Ranks PROVE p0 \in DOMAIN sent[r]
    BY DEF ReportInv, RankInv
  <2>1. sent[r] \in Seq([sum : Nat, min : Nat])
    BY <1>3 DEF ReportTypes
  <2> QED
    BY <1>1, <1>5, <2>1
<1>7. /\ SumOf(p0) = ReportedSum /\ SumOf(p0) \in Nat /\ max \in Nat /\ min \in Nat
      /\ program = "spatial" => max - min <= 1
  BY <1>3, <1>5, <1>6, Reported
<1> HIDE DEF max, min
<1>8. /\ line \in [sum : Nat, max : Nat, min : Nat]
      /\ line.sum = ReportedSum /\ (program = "spatial" => line.max - line.min <= 1)
  BY <1>7
<1> HIDE DEF line
<1>9. /\ report \in Seq([sum : Nat, max : Nat, min : Nat])
      /\ report' \in Seq([sum : Nat, max : Nat, min : Nat])
      /\ Len(report) = p0 - 1 /\ Len(report') = Len(report) + 1
      /\ \A p \in DOMAIN report' :
           \/ p \in DOMAIN report /\ report'[p] = report[p]
           \/ p = p0 /\ report'[p] = line
  <2>1. report \in Seq([sum : Nat, max : Nat, min : Nat]) /\ Len(report) = p0 - 1
    BY <1>3 DEF ReportTypes, Told
  <2>2. (p0 - 1) + 1 = p0
    BY <1>5
  <2> QED
    <3>1. /\ report' \in Seq([sum : Nat, max : Nat, min : Nat])
          /\ Len(report') = Len(report) + 1
          /\ \A p \in DOMAIN report' :
               \/ p \in DOMAIN report /\ report'[p] = report[p]
               \/ p = Len(report) + 1 /\ report'[p] = line
      BY <1>1, <1>8, <2>1, AppendFacts
    <3> QED
      BY <2>1, <2>2, <3>1
<1>10. /\ phase'[root] = p0 + 1 /\ pc'[root] = "loop" /\ rep'[root] = 0 /\ filenum'[root] = root
       /\ time'[root] = 0
  BY <1>1, <1>3, <1>4 DEF PartTypes, ReportTypes
<1>11. ReportTypes'
  <2>1. rep' \in [Ranks -> 0 .. n] /\ filenum' \in [Ranks -> Nat] /\ time' \in [Ranks -> Nat]
    BY CountsAssumption, <1>1, <1>3, <1>4 DEF ReportTypes
  <2> QED
    BY <1>1, <1>2, <1>3, <1>9, <2>1 DEF ReportTypes
<1>12. Told'
  <2>1. Len(report') = phase'[root] - 1
    BY <1>5, <1>9, <1>10
  <2>2. ASSUME NEW p \in DOMAIN report'
        PROVE  /\ \A r \in Ranks : Len(sent'[r]) >= p
               /\ report'[p].sum = ReportedSum
               /\ program = "spatial" => report'[p].max - report'[p].min <= 1
    BY <1>1, <1>3, <1>8, <1>9 DEF Told
  <2> QED
    BY <1>1, <1>2, <2>1, <2>2 DEF Told
<1>13. ASSUME NEW s \in Ranks, s # root PROVE RankInv(s)'
  <2>1. /\ pc'[s] = pc[s] /\ sent'[s] = sent[s] /\ phase'[s] = phase[s] /\ rep'[s] = rep[s]
        /\ filenum'[s] = filenum[s] /\ time'[s] = time[s]
    BY <1>1, <1>3, <1>13 DEF PartTypes, ReportTypes
  <2> QED
    BY <1>1, <2>1, OtherRank DEF ReportInv
<1>14. RankInv(root)'
  <2>1. p0 + 1 \in 1 .. Len(Phases) + 1 /\ Len(Phases) \in Nat
    BY <1>5, PhaseDomain
  <2>2. Ahead(root)'
    <3>1. Len(sent[root]) = p0
      BY <1>1, <1>4 DEF RankInv, Ahead
    <3>2. p0 = (p0 + 1) - 1
      BY <1>5
    <3> QED
      BY <1>1, <1>2, <1>10, <2>1, <3>1, <3>2 DEF Ahead
  <2>3. ~Done(root)' => Progress(root)'
    <3>1. ~Done(root)' => phase'[root] \in DOMAIN Phases'
      BY <1>2, <1>5, <1>10, <2>1, PhaseDomain DEF Done
    <3> QED
      BY <1>3, <1>4, <1>10, <1>11, <3>1, BeginsNext DEF BeginsAt
  <2>4. ASSUME NEW p \in DOMAIN Phases, NEW u \in Own(root, p) \cap Units
        PROVE  ran'[p][u] = RunBy(root, p, u)'
    <3>1. ran'[p][u] = RunBy(root, p, u) /\ p \in Nat
      BY <1>1, <1>4, PhaseDomain DEF RankInv
    <3>2. Past(root, p)' <=> Past(root, p)
      BY <1>1, <1>5, <1>10, <3>1 DEF Past
    <3>3. CASE Past(root, p)
      BY <3>1, <3>2, <3>3 DEF RunBy
    <3>4. CASE ~Past(root, p)
      <4>1. p # p0
        BY <1>1, <3>4 DEF Past
      <4>2. CASE p # p0 + 1
        BY <1>10, <3>1, <3>2, <3>4, <4>1, <4>2 DEF RunBy
      <4>3. CASE p = p0 + 1
        <5>1. program = "spatial" /\ program' = program
          BY <1>1, <1>3, <1>5, <4>3, PhaseRanks DEF PartTypes
        <5>2. u \in Nat /\ ~(u < root)
          <6>1. Phases[p] \in Nat \ {0}
            BY CountsAssumption, PhaseRanks
          <6>2. u \in Share(root, Phases[p])
            BY <5>1 DEF Own
          <6> QED
            BY <1>4, <6>1, <6>2, Shares
        <5> QED
          BY <1>10, <3>1, <3>2, <3>4, <4>1, <4>3, <5>1, <5>2 DEF RunBy
      <4> QED
        BY <4>2, <4>3
    <3> QED
      BY <3>3, <3>4
  <2>5. \A p \in DOMAIN Phases' : \A u \in (Own(root, p) \cap Units)' : ran'[p][u] = RunBy(root, p, u)'
    BY <1>2, <2>4
  <2>6. \A p \in DOMAIN sent'[root] : sent'[root][p] = Contribution(root, p)'
    BY <1>1, <1>2, <1>4 DEF RankInv
  <2> QED
    BY <1>10, <2>2, <2>3, <2>5, <2>6 DEF RankInv
<1> QED
  BY <1>11, <1>12, <1>13, <1>14 DEF ReportInv

LEMMA ReportNext == ReportInv /\ [Next]_vars => ReportInv'
<1> SUFFICES ASSUME ReportInv, [Next]_vars PROVE ReportInv'
  OBVIOUS
<1>1. PartInv'
  BY PartNext DEF ReportInv
<1>2. ASSUME NEW r \in Ranks, RankStep(r) PROVE ReportInv'
  BY <1>1, <1>2, ReportRunFile, ReportNextRepetition, ReportEnterReduce, ReportStarts, ReportRunLines,
     ReportReduce DEF RankStep
<1>3. CASE UNCHANGED vars
  <2>1. UNCHANGED <<program, line_count, left, pc, phase, rep, filenum, time, sent, report, ran>>
    BY <1>3 DEF vars
  <2>2. ReportTypes'
    BY <2>1, Fixed DEF ReportInv, ReportTypes
  <2>3. Told'
    BY <2>1, Fixed DEF ReportInv, Told
  <2>4. \A r \in Ranks : RankInv(r)'
    BY <2>1, OtherRank DEF ReportInv
  <2> QED
    BY <1>1, <2>2, <2>3, <2>4 DEF ReportInv
<1> QED
  BY <1>2, <1>3 DEF Next

\* What rank 0 of the static programs reports of a phase is complete, and fair: all
\* partitions or lines have been run n times and are in the sum once, although
\* ranks are ahead in later phases, and of partitions that take the same time the
\* slowest rank has at most one more than the fastest.
THEOREM ReportIsRightAlways == Spec => []ReportIsRight
<1>1. ReportInv => ReportIsRight
  <2> SUFFICES ASSUME ReportInv, NEW p \in DOMAIN report
               PROVE  /\ \A u \in Units : ran[p][u] = n
                      /\ report[p].sum = ReportedSum
                      /\ program = "spatial" => report[p].max - report[p].min <= 1
    BY DEF ReportIsRight, ReportIsComplete, RangeIsFair, ReportedSum
  <2>1. PartTypes /\ ReportTypes /\ Told /\ (program = "spatial" => left = 0)
    BY DEF ReportInv, PartInv, ReportTypes
  <2>2. p \in DOMAIN Phases /\ p \in Nat
    <3>1. Len(report) = phase[root] - 1 /\ phase[root] \in 1 .. Len(Phases) + 1
      BY <2>1, RootIsRank DEF Told, ReportInv, RankInv, Ahead
    <3>2. p \in 1 .. Len(report)
      BY <2>1 DEF ReportTypes
    <3> QED
      BY <3>1, <3>2, PhaseDomain
  <2>3. ASSUME NEW u \in Units PROVE ran[p][u] = n
    <3>1. PICK r \in Ranks : u \in Own(r, p)
      BY <2>1, <2>2, OwnPartition DEF Whole
    <3>2. RankInv(r) /\ Len(sent[r]) >= p /\ phase[r] \in Nat
      BY <2>1 DEF ReportInv, Told, PartTypes
    <3>3. Past(r, p)
      BY <2>2, <3>2 DEF RankInv, Ahead, Past
    <3> QED
      BY <2>2, <3>1, <3>2, <3>3 DEF RankInv, RunBy
  <2> QED
    BY <2>1, <2>3 DEF Told
<1> QED
  BY <1>1, ReportInit, ReportNext, PTL DEF Spec
=============================================================================

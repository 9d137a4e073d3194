----------------------------- MODULE GeosSuite -----------------------------
(***************************************************************************)
(* The twelve timed tests of the benchmarks in src/mpi, and the one that   *)
(* is left in the programs of derda_grpc, as each process runs them.       *)
(*                                                                         *)
(* A test fills an STRtree with the polygons of the first file and queries *)
(* it with those of the second; the callback evaluates one predicate of    *)
(* GEOS, and its result is discarded.  select_test runs a test n times.    *)
(* geos_benchmark and geos_benchmark_mpi give a test the names of the      *)
(* files: it makes the GEOS handle, opens and reads the files, releases    *)
(* what it made, and never closes a file.  The others read the files once  *)
(* and give a test two vectors.  geos_benchmark_mpi runs in every rank on  *)
(* a file of its own and reduces the times to the root.                    *)
(*                                                                         *)
(* Abstractions: of a line only what the reading does with it is kept; the *)
(* boxes of all polygons meet, so that every pair is a candidate; times    *)
(* are left out (LoadBalance has what becomes of them).                    *)
(***************************************************************************)
EXTENDS Naturals, Sequences, FiniteSets

CONSTANTS Inputs,   \* how a program may be started
          MaxGeoms  \* MAX_GEOM_NUMBER

\* A line is a polygon, at most five characters, a text without parenthesis,
\* a text that begins with one, or a polygon longer than MAX_LINE_LENGTH.
Lines == {"polygon", "short", "text", "open", "long"}
Missing == <<"missing">>
NoTree == <<"no tree">>

VARIABLES
  input,    \* the program, n, the files, and the limits of the system
  at,       \* where each rank is: the test, its pass and the step of it
  geos,     \* each rank's GEOS: is there a handle, and the tree
  first, second,  \* the polygons of each rank that are not destroyed
  leaked,   \* how many geometries nothing refers to
  opened,   \* how many files are open
  element_count,  \* the counter that is printed as the number of geometries
  applied,  \* how often each predicate has been evaluated
  died,     \* why a rank has ended, if one has
  reported  \* has the root printed the reduced times?

polygonVars == <<first, second, leaked>>
countVars == <<element_count, applied>>
suiteVars == <<input, at, geos, polygonVars, opened, countVars, died, reported>>
-----------------------------------------------------------------------------
\* The tests ----------------------------------------------------------------

\* A test: how many arrays of MAX_GEOM_NUMBER it has on the stack, what it does
\* with a candidate, and its steps.
Test(arrays, predicate, steps) == [arrays |-> arrays, predicate |-> predicate, steps |-> steps]

Creating == <<"initGEOS", "create", "insert", "destroyTree", "finishGEOS">>
Iterating == <<"initGEOS", "create", "insert", "iterate", "destroyTree", "destroyFirst", "finishGEOS">>
Joining == <<"initGEOS", "create", "insert", "read", "visit", "destroySecond", "destroyTree",
             "destroyFirst", "finishGEOS">>

\* geos_benchmark: the second file is read into a vector.
sequential_create_tree == Test(0, "none", Creating)
sequential_iterate_tree == Test(1, "none", Iterating)
sequential_query == Test(1, "none", Joining)
sequential_intersect == Test(1, "GEOSIntersects", Joining)
sequential_overlap == Test(1, "GEOSOverlaps", Joining)
sequential_touch == Test(1, "GEOSTouches", Joining)
sequential_cross == Test(1, "GEOSCrosses", Joining)
sequential_contain == Test(1, "GEOSContains", Joining)
sequential_equal == Test(1, "GEOSEquals", Joining)
sequential_equal_exact == Test(1, "GEOSEqualsExact", Joining)
sequential_cover == Test(1, "GEOSCovers", Joining)
\* Mutant of sequential_covered_by: the callback of the test before it.
sequential_covered_by_Covers == Test(1, "GEOSCovers", Joining)
sequential_covered_by == Test(1, "GEOSCoveredBy", Joining)

\* geos_benchmark_mpi: both files are read into arrays.
mpi_create_tree == Test(0, "none", Creating)
mpi_iterate_tree == Test(1, "none", Iterating)
mpi_query == Test(2, "none", Joining)
mpi_intersect == Test(2, "GEOSIntersects", Joining)
mpi_overlap == Test(2, "GEOSOverlaps", Joining)
mpi_touch == Test(2, "GEOSTouches", Joining)
mpi_cross == Test(2, "GEOSCrosses", Joining)
mpi_contain == Test(2, "GEOSContains", Joining)
mpi_equal == Test(2, "GEOSEquals", Joining)
mpi_equal_exact == Test(2, "GEOSEqualsExact", Joining)
mpi_cover == Test(2, "GEOSCovers", Joining)
mpi_covered_by == Test(2, "GEOSCoveredBy", Joining)

\* Mutant of VectorJoin: the tree is destroyed before it is queried.
VectorJoinLate(predicate) == Test(0, predicate, <<"create", "insert", "destroyTree", "visit">>)

\* all_tests of the spatial partition, on two vectors.
VectorJoin(predicate) == Test(0, predicate, <<"create", "insert", "visit", "destroyTree">>)
spatial_create_tree == Test(0, "none", <<"create", "insert", "destroyTree">>)
spatial_iterate_tree == Test(0, "none", <<"create", "insert", "iterate", "destroyTree">>)
spatial_query == VectorJoin("none")
spatial_intersect == VectorJoin("GEOSIntersects")
spatial_overlap == VectorJoin("GEOSOverlaps")
spatial_touch == VectorJoin("GEOSTouches")
spatial_cross == VectorJoin("GEOSCrosses")
spatial_contain == VectorJoin("GEOSContains")
spatial_equal == VectorJoin("GEOSEquals")
spatial_equal_exact == VectorJoin("GEOSEqualsExact")
spatial_cover == VectorJoin("GEOSCovers")
spatial_covered_by == VectorJoin("GEOSCoveredBy")

\* The programs that run the one test.
file_intersect == VectorJoin("GEOSIntersects")
exp6_client_intersect == VectorJoin("GEOSIntersects")
exp6_server_intersect == VectorJoin("GEOSIntersects")
lb_mt_client_intersect == VectorJoin("GEOSIntersects")
lb_mt_server_intersect == VectorJoin("GEOSIntersects")

\* The programs: whether each test reads the files, whether there is a global
\* GEOS handle, and whether the polygons are destroyed in the end.
geos_benchmark ==
  [readsInTests |-> TRUE, handle |-> FALSE, tidy |-> TRUE,
   tests |-> <<sequential_create_tree, sequential_iterate_tree, sequential_query, sequential_intersect,
               sequential_overlap, sequential_touch, sequential_cross, sequential_contain, sequential_equal,
               sequential_equal_exact, sequential_cover, sequential_covered_by>>]
geos_benchmark_mpi ==
  [readsInTests |-> TRUE, handle |-> FALSE, tidy |-> TRUE,
   tests |-> <<mpi_create_tree, mpi_iterate_tree, mpi_query, mpi_intersect, mpi_overlap, mpi_touch, mpi_cross,
               mpi_contain, mpi_equal, mpi_equal_exact, mpi_cover, mpi_covered_by>>]
all_tests ==
  [readsInTests |-> FALSE, handle |-> TRUE, tidy |-> TRUE,
   tests |-> <<spatial_create_tree, spatial_iterate_tree, spatial_query, spatial_intersect, spatial_overlap,
               spatial_touch, spatial_cross, spatial_contain, spatial_equal, spatial_equal_exact, spatial_cover,
               spatial_covered_by>>]
intersect_only == [all_tests EXCEPT !.tests = <<spatial_intersect>>]
file_partition == [intersect_only EXCEPT !.tests = <<file_intersect>>]

\* start_test of the clients and servers: exp6 has called initGEOS, lb_mt has
\* only a context, and its callback calls GEOSIntersects without it.
Untidy(handle, test) == [readsInTests |-> FALSE, handle |-> handle, tidy |-> FALSE, tests |-> <<test>>]
exp6_client == Untidy(TRUE, exp6_client_intersect)
exp6_server == Untidy(TRUE, exp6_server_intersect)
lb_mt_client == Untidy(FALSE, lb_mt_client_intersect)
lb_mt_server == Untidy(FALSE, lb_mt_server_intersect)

Programs ==
  [geos_benchmark |-> geos_benchmark, geos_benchmark_mpi |-> geos_benchmark_mpi, all_tests |-> all_tests,
   intersect_only |-> intersect_only, file_partition |-> file_partition, exp6_client |-> exp6_client,
   exp6_server |-> exp6_server, lb_mt_client |-> lb_mt_client, lb_mt_server |-> lb_mt_server]

\* A repetition count of zero is taken as one; a file is there or is not; the
\* root, rank 0, always runs.
ASSUME InputsAssumption ==
  /\ MaxGeoms \in Nat
  /\ \A i \in Inputs : /\ i.program \in DOMAIN Programs /\ i.n \in Nat \ {0}
                       /\ i.files \in Nat /\ i.stack \in Nat
                       /\ i.second = Missing \/ i.second \in Seq(Lines)
                       /\ 0 \in DOMAIN i.first
                       /\ \A r \in DOMAIN i.first : i.first[r] = Missing \/ i.first[r] \in Seq(Lines)

Predicates == {"GEOSIntersects", "GEOSOverlaps", "GEOSTouches", "GEOSCrosses", "GEOSContains", "GEOSEquals",
               "GEOSEqualsExact", "GEOSCovers", "GEOSCoveredBy"}

Program == Programs[input.program]
Processes == DOMAIN input.first
-----------------------------------------------------------------------------
\* Reading ------------------------------------------------------------------

\* The lines of a file that are in a set, in their order.
LinesIn(file, set) ==
  LET taken == {i \in DOMAIN file : file[i] \in set}
  IN  [k \in 1 .. Cardinality(taken) |->
         file[CHOOSE i \in taken : Cardinality({j \in taken : j <= i}) = k]]

\* strlen(line) > 5 && line.find("("): find is 0, that is false, only when the
\* parenthesis comes first; a line without any passes.
Accepted(file) == LinesIn(file, Lines \ {"short", "open"})
\* The tests that read the second file themselves look at the length only.
AcceptedSecond(file) ==
  IF Program.readsInTests THEN LinesIn(file, Lines \ {"short"}) ELSE Accepted(file)

\* GEOSGeomFromWKT: a null for a text, and for the pieces fgets makes of a line
\* longer than its buffer.  getline has no limit.
GEOSGeomFromWKT(line) ==
  IF line = "polygon" \/ (line = "long" /\ ~Program.readsInTests) THEN "polygon" ELSE "null"

Parsed(lines) == [i \in DOMAIN lines |-> GEOSGeomFromWKT(lines[i])]
Nulls(polygons) == \E i \in DOMAIN polygons : polygons[i] = "null"
Contents(file) == IF file = Missing THEN <<>> ELSE file

\* What a rank reads.
FirstOf(r) == Parsed(Accepted(Contents(input.first[r])))
SecondOf == Parsed(AcceptedSecond(Contents(input.second)))
\* Only iterate_tree of geos_benchmark stops at a full array.
Truncates(test) == input.program = "geos_benchmark" /\ test.steps = Iterating
Kept(polygons, test) ==
  IF Truncates(test) /\ Len(polygons) > MaxGeoms THEN SubSeq(polygons, 1, MaxGeoms) ELSE polygons
-----------------------------------------------------------------------------
\* Positions: test 0 is the reading before the tests, and the one after the last
\* is the end.
Begin == [test |-> 0, pass |-> 1, step |-> 1]
SuiteInit ==
  /\ input \in Inputs
  /\ at = [r \in Processes |-> Begin]
  /\ geos = [r \in Processes |-> [handle |-> Program.handle, tree |-> NoTree]]
  /\ first = [r \in Processes |-> <<>>] /\ second = [r \in Processes |-> <<>>] /\ leaked = [r \in Processes |-> 0]
  /\ opened = [r \in Processes |-> 0]
  /\ element_count = [r \in Processes |-> 0]
  /\ applied = [r \in Processes |-> [p \in Predicates |-> 0]]
  /\ died = "no" /\ reported = FALSE

TestOf(r) == Program.tests[at[r].test]
InTest(r) == at[r].test \in DOMAIN Program.tests
Step(r) == IF InTest(r) THEN TestOf(r).steps[at[r].step] ELSE "none"
AtEnd(r) == at[r].test = Len(Program.tests) + 1
Ended(r) == at[r].test = Len(Program.tests) + 2

\* The next step; select_test's next pass; the next test.
Following(p, steps) ==
  IF p.step < Len(steps) THEN [test |-> p.test, pass |-> p.pass, step |-> p.step + 1]
  ELSE IF p.pass < input.n THEN [test |-> p.test, pass |-> p.pass + 1, step |-> 1]
  ELSE [test |-> p.test + 1, pass |-> 1, step |-> 1]
Advance(r) == at' = [at EXCEPT ![r] = Following(at[r], TestOf(r).steps)]

CannotOpen(r, file) == Program.readsInTests /\ (file = Missing \/ opened[r] = input.files)
Overflows(r, polygons, arrays) == TestOf(r).arrays >= arrays /\ Len(Kept(polygons, TestOf(r))) > MaxGeoms

\* All that is wrong with the step; the process ends by one of them.
Faults(r) ==
  LET step == Step(r)
      wrong == [stack |-> step = "initGEOS" /\ TestOf(r).arrays > input.stack,
                file |-> \/ step = "insert" /\ CannotOpen(r, input.first[r])
                         \/ step = "read" /\ CannotOpen(r, input.second),
                null |-> \/ step = "insert" /\ Nulls(Kept(FirstOf(r), TestOf(r)))
                         \/ step = "visit" /\ Nulls(second[r]),
                array |-> \/ step = "insert" /\ Overflows(r, FirstOf(r), 1)
                          \/ step = "read" /\ Overflows(r, SecondOf, 2),
                misuse |-> \/ step \in {"insert", "iterate", "visit", "destroyTree"} /\ geos[r].tree = NoTree
                           \/ step = "visit" /\ geos[r].tree # first[r]
                           \/ step # "initGEOS" /\ Program.readsInTests /\ ~geos[r].handle]
  IN  {fault \in DOMAIN wrong : wrong[fault]}
-----------------------------------------------------------------------------
\* The steps ----------------------------------------------------------------

Runs(r, step) == died = "no" /\ Step(r) = step /\ Faults(r) = {}

\* get_polygons, twice; all_tests and file_partition go on only with polygons in
\* the first file.  The other programs start with their first test.
Load(r) ==
  LET loads == ~Program.readsInTests
      empty == loads /\ Program.tidy /\ FirstOf(r) = <<>>
  IN  /\ died = "no" /\ at[r].test = 0
      /\ first' = [first EXCEPT ![r] = IF loads THEN FirstOf(r) ELSE <<>>]
      /\ second' = [second EXCEPT ![r] = IF loads /\ ~empty THEN SecondOf ELSE <<>>]
      /\ at' = [at EXCEPT ![r].test = IF empty THEN Len(Program.tests) + 1 ELSE 1]
      /\ UNCHANGED <<input, geos, leaked, opened, countVars, died, reported>>

initGEOS(r) ==
  /\ Runs(r, "initGEOS") /\ Advance(r)
  /\ geos' = [geos EXCEPT ![r].handle = TRUE]
  /\ UNCHANGED <<input, polygonVars, opened, countVars, died, reported>>

\* GEOSSTRtree_create
Create(r) ==
  /\ Runs(r, "create") /\ Advance(r)
  /\ geos' = [geos EXCEPT ![r].tree = <<>>]
  /\ UNCHANGED <<input, polygonVars, opened, countVars, died, reported>>

\* The polygons of the first file are inserted, each with an envelope made for it
\* that is lost; a test that reads the file keeps them in its array, except
\* create_tree, which has none.
Insert(r) ==
  LET polygons == IF Program.readsInTests THEN Kept(FirstOf(r), TestOf(r)) ELSE first[r]
      keeps == TestOf(r).steps # Creating
  IN  /\ Runs(r, "insert") /\ Advance(r)
      /\ geos' = [geos EXCEPT ![r].tree = polygons]
      /\ first' = [first EXCEPT ![r] = IF keeps THEN polygons ELSE @]
      /\ leaked' = [leaked EXCEPT ![r] = @ + Len(polygons) * IF keeps THEN 1 ELSE 2]
      /\ opened' = [opened EXCEPT ![r] = IF Program.readsInTests THEN @ + 1 ELSE @]
      /\ UNCHANGED <<input, second, countVars, died, reported>>

\* GEOSSTRtree_iterate counts; the counter is never reset.
Iterate(r) ==
  /\ Runs(r, "iterate") /\ Advance(r)
  /\ element_count' = [element_count EXCEPT ![r] = @ + Len(geos[r].tree)]
  /\ UNCHANGED <<input, geos, polygonVars, opened, applied, died, reported>>

\* The second file is opened and read.
Read(r) ==
  /\ Runs(r, "read") /\ Advance(r)
  /\ second' = [second EXCEPT ![r] = SecondOf]
  /\ opened' = [opened EXCEPT ![r] = @ + 1]
  /\ UNCHANGED <<input, geos, first, leaked, countVars, died, reported>>

\* Every polygon of the second file queries the tree, and the callback evaluates
\* the predicate for each candidate.  GEOS without a handle returns an error
\* instead or, in later versions, throws.
Visit(r) ==
  LET pairs == Len(geos[r].tree) * Len(second[r])
      predicate == TestOf(r).predicate
      evaluates == predicate # "none" /\ pairs > 0
  IN  /\ Runs(r, "visit")
      /\ \/ /\ evaluates /\ geos[r].handle
            /\ applied' = [applied EXCEPT ![r][predicate] = @ + pairs]
            /\ Advance(r) /\ UNCHANGED died
         \/ /\ evaluates => ~geos[r].handle
            /\ Advance(r) /\ UNCHANGED <<applied, died>>
         \/ /\ evaluates /\ ~geos[r].handle
            /\ died' = "handle" /\ UNCHANGED <<applied, at>>
      /\ UNCHANGED <<input, geos, polygonVars, opened, element_count, reported>>

DestroySecond(r) ==
  /\ Runs(r, "destroySecond") /\ Advance(r)
  /\ second' = [second EXCEPT ![r] = <<>>]
  /\ UNCHANGED <<input, geos, first, leaked, opened, countVars, died, reported>>

\* GEOSSTRtree_destroy does not own what was inserted.
DestroyTree(r) ==
  /\ Runs(r, "destroyTree") /\ Advance(r)
  /\ geos' = [geos EXCEPT ![r].tree = NoTree]
  /\ UNCHANGED <<input, polygonVars, opened, countVars, died, reported>>

DestroyFirst(r) ==
  /\ Runs(r, "destroyFirst") /\ Advance(r)
  /\ first' = [first EXCEPT ![r] = <<>>]
  /\ UNCHANGED <<input, geos, second, leaked, opened, countVars, died, reported>>

finishGEOS(r) ==
  /\ Runs(r, "finishGEOS") /\ Advance(r)
  /\ geos' = [geos EXCEPT ![r].handle = FALSE]
  /\ UNCHANGED <<input, polygonVars, opened, countVars, died, reported>>

\* After the tests the vectors are destroyed, or lost when start_test returns.
Release(r) ==
  /\ died = "no" /\ AtEnd(r)
  /\ at' = [at EXCEPT ![r].test = @ + 1]
  /\ leaked' = [leaked EXCEPT ![r] = IF Program.tidy THEN @ ELSE @ + Len(first[r]) + Len(second[r])]
  /\ first' = [first EXCEPT ![r] = <<>>] /\ second' = [second EXCEPT ![r] = <<>>]
  /\ UNCHANGED <<input, geos, opened, countVars, died, reported>>

\* The process ends with a signal, and mpirun ends the others.
Crash(r) ==
  /\ died = "no" /\ InTest(r) /\ died' \in Faults(r)
  /\ UNCHANGED <<input, at, geos, polygonVars, opened, countVars, reported>>

\* Mutant of Report: the root does not wait for the reductions.
ReportAtOnce ==
  /\ died = "no" /\ ~reported /\ Ended(0)
  /\ reported' = TRUE
  /\ UNCHANGED <<input, at, geos, polygonVars, opened, countVars, died>>

\* The root has the reduced times of every rank.
Report ==
  /\ died = "no" /\ ~reported /\ \A r \in Processes : Ended(r)
  /\ reported' = TRUE
  /\ UNCHANGED <<input, at, geos, polygonVars, opened, countVars, died>>

Rank(r) ==
  \/ Load(r) \/ initGEOS(r) \/ Create(r) \/ Insert(r) \/ Iterate(r) \/ Read(r) \/ Visit(r)
  \/ DestroySecond(r) \/ DestroyTree(r) \/ DestroyFirst(r) \/ finishGEOS(r) \/ Release(r) \/ Crash(r)

SuiteNext == (\E r \in Processes : Rank(r)) \/ Report

\* Every process runs on.
SuiteFairness == (\A r \in {0, 1} : WF_suiteVars(r \in Processes /\ Rank(r))) /\ WF_suiteVars(Report)

SuiteSpec == SuiteInit /\ [][SuiteNext]_suiteVars /\ SuiteFairness
-----------------------------------------------------------------------------
\* Properties ---------------------------------------------------------------

Polygons(r) == Len(FirstOf(r))
FullSuite == input.program \in {"geos_benchmark", "geos_benchmark_mpi", "all_tests"}

\* What is reported is the work a reader of the report takes it for: in each of
\* the n passes every predicate of the suite has been evaluated once for every
\* pair of a polygon of the first file and one of the second, and no other
\* predicate; but in the programs lb_mt, which have no handle, for no pair.  What
\* is printed as the number of geometries is n times theirs in the last pass.
EveryPair ==
  reported => \A r \in Processes :
    /\ \A p \in Predicates :
         applied[r][p] =
           IF input.program \in {"lb_mt_client", "lb_mt_server"} \/ ~(FullSuite \/ p = "GEOSIntersects") THEN 0
           ELSE input.n * Polygons(r) * Len(SecondOf)
    /\ element_count[r] = IF FullSuite THEN input.n * Polygons(r) ELSE 0

\* Nothing is used before it is made or after it is released, and of what is made
\* only three things are never destroyed: the envelope of each insertion, what
\* create_tree reads, and both files in the programs that run start_test, once for
\* each job.
Insertions(r) == (IF FullSuite THEN 12 ELSE 1) * input.n * Polygons(r)
Released ==
  /\ died # "misuse"
  /\ reported => \A r \in Processes :
       leaked[r] = Insertions(r) + IF Program.readsInTests THEN input.n * Polygons(r)
                                   ELSE IF Program.tidy THEN 0
                                   ELSE Polygons(r) + Len(SecondOf)

\* The files a program can work on: all are there, no accepted line is one that
\* GEOS cannot parse, and they fit the arrays.  A program that reads in its tests
\* leaves 22 files open in each pass, and geos_benchmark_mpi needs a stack for
\* two arrays.
Suitable ==
  /\ \A r \in Processes : ~Nulls(FirstOf(r))
  /\ Nulls(SecondOf) => Program.tidy /\ ~Program.readsInTests /\ \A r \in Processes : FirstOf(r) = <<>>
  /\ Program.readsInTests =>
       /\ input.second # Missing /\ \A r \in Processes : input.first[r] # Missing
       /\ \A r \in Processes : Polygons(r) <= MaxGeoms
       /\ 22 * input.n <= input.files
       /\ input.stack >= IF input.program = "geos_benchmark_mpi" THEN 2 ELSE 1
       /\ input.program = "geos_benchmark_mpi" => Len(SecondOf) <= MaxGeoms
NoHandle == ~Program.handle /\ ~Program.readsInTests /\ \E r \in Processes : Polygons(r) * Len(SecondOf) > 0

\* A program prints its report exactly when its input is suitable: one rank whose
\* file is missing or that runs out of files takes the report from all.
ReportsIfSuitable == [](reported => Suitable) /\ (Suitable /\ ~NoHandle => <>reported)
=============================================================================

---------------------------- MODULE LoadBalance -----------------------------
(***************************************************************************)
(* Dynamic load balancing of the spatially partitioned MPI benchmark,      *)
(* all_files_load_balancing of geos_benchmark_mpi_spatial_partition.cpp.   *)
(*                                                                         *)
(* Rank 0 is the master.  Every other rank below limit_procs is a worker:  *)
(* in each of the n_repeats repetitions it first runs the partition with   *)
(* its own number, asks the master for more with an empty WORK message,    *)
(* and runs whatever partitions the master sends it until it receives a    *)
(* TERMINATION message.  There is no barrier between repetitions: a worker *)
(* told to stop goes straight on to its next repetition.  After the last   *)
(* repetition all ranks take part in three reductions.                     *)
(*                                                                         *)
(* Abstractions: a partition is its number, and running the tests on it is *)
(* one unit of time averaged over the repetitions asked of all_tests (an   *)
(* infinity when zero repetitions are asked).  Messages are buffered and   *)
(* do not overtake one another, which is what MPI gives a pair of ranks.   *)
(***************************************************************************)
EXTENDS Integers, Sequences, FiniteSets, SequencesExt

CONSTANTS numProcs,     \* size of MPI_COMM_WORLD
          limit_procs,  \* ranks that take part, the master included
          partitions,   \* number of partition files, numbered from 0
          n_repeats,    \* repetitions ("duplication") of the benchmark
          Inf,          \* the double +inf
          I             \* the largest finite double, line 36

ASSUME ProcsAssumption == numProcs \in Nat \ {0} /\ limit_procs \in 1 .. numProcs
ASSUME WorkAssumption == partitions \in Nat /\ n_repeats \in Nat \ {0}
ASSUME DoubleAssumption == Inf \notin Nat /\ I \notin Nat /\ I # Inf

root == 0
Ranks == 0 .. numProcs - 1
Workers == 1 .. limit_procs - 1
Idle == (Ranks \ Workers) \ {root}
Files == 0 .. partitions - 1
NoFile == -1

\* The two message tags of the program, each with the integer it carries.
Work(file) == [tag |-> "WORK_TAG", file |-> file]
Termination(file) == [tag |-> "TERMINATION_TAG", file |-> file]
Message == [tag : {"WORK_TAG", "TERMINATION_TAG"}, file : Nat]

VARIABLES
  n,          \* each rank's repetition counter
  pc,         \* where each rank is: "start", "run", "recv", "serve", "reduce", "end"
  file,       \* the partition a worker is running, or NoFile
  request,    \* WORK messages of each worker not yet received by the master
  mail,       \* messages of the master not yet received by each worker
  filenum,    \* the master's next partition
  stopped,    \* terminations the master has sent in this repetition (its i - 1)
  time,       \* test_time_arr[12] of each rank, times n_repeats
  called,     \* how often all_tests was called on each partition (history)
  tested,     \* how often the tests have run on each partition (history)
  report      \* what the reductions leave at the master

vars == <<n, pc, file, request, mail, filenum, stopped, time, called, tested, report>>
-----------------------------------------------------------------------------
\* Sum, maximum and minimum over doubles of which some are infinite.
Plus(a, b) == IF Inf \in {a, b} THEN Inf ELSE a + b
AtMost(a, b) == \/ b = Inf
                \/ a = I /\ b = I
                \/ b = I /\ a # Inf
                \/ {a, b} \cap {Inf, I} = {} /\ a <= b
MaxOf(S) == CHOOSE m \in S : \A x \in S : AtMost(x, m)
MinOf(S) == CHOOSE m \in S : \A x \in S : AtMost(m, x)

\* The time all_tests adds for one partition when asked for k repetitions.
AllTests(k) == IF k = 0 THEN Inf ELSE 1

NoReport == [sum |-> 0, max |-> 0, min |-> 0]
-----------------------------------------------------------------------------
Init ==
  /\ n = [r \in Ranks |-> 0]
  /\ pc = [r \in Ranks |-> IF r = root THEN "serve" ELSE "start"]
  /\ file = [w \in Workers |-> NoFile]
  /\ request = [w \in Workers |-> 0]
  /\ mail = [w \in Workers |-> <<>>]
  /\ filenum = numProcs
  /\ stopped = 0
  /\ time = [r \in Ranks |-> 0]
  /\ called = [f \in Files |-> 0]
  /\ tested = [f \in Files |-> 0]
  /\ report = NoReport

\* Workers ------------------------------------------------------------------

\* A repetition begins with the partition of the worker's own number; a worker
\* whose number is no partition asks the master at once.
Start(w) ==
  /\ pc[w] = "start" /\ n[w] < n_repeats
  /\ IF w < partitions
       THEN /\ file' = [file EXCEPT ![w] = w]
            /\ pc' = [pc EXCEPT ![w] = "run"]
            /\ UNCHANGED request
       ELSE /\ request' = [request EXCEPT ![w] = @ + 1]
            /\ pc' = [pc EXCEPT ![w] = "recv"]
            /\ UNCHANGED file
  /\ UNCHANGED <<n, mail, filenum, stopped, time, called, tested, report>>

\* Mutant of RunTests: a call runs the tests once, as the comment at line 742
\* means it to.
RunTestsOnce(w) ==
  /\ pc[w] = "run"
  /\ time' = [time EXCEPT ![w] = Plus(@, AllTests(1))]
  /\ called' = [called EXCEPT ![file[w]] = @ + 1]
  /\ tested' = [tested EXCEPT ![file[w]] = @ + 1]
  /\ file' = [file EXCEPT ![w] = NoFile]
  /\ request' = [request EXCEPT ![w] = @ + 1]
  /\ pc' = [pc EXCEPT ![w] = "recv"]
  /\ UNCHANGED <<n, mail, filenum, stopped, report>>

\* all_tests returns.  It was passed the index of the repetition as its number
\* of repetitions, so it has run the tests that often: not at all in
\* repetition 0, k times in repetition k.
RunTests(w) ==
  /\ pc[w] = "run"
  /\ time' = [time EXCEPT ![w] = Plus(@, AllTests(n[w]))]
  /\ called' = [called EXCEPT ![file[w]] = @ + 1]
  /\ tested' = [tested EXCEPT ![file[w]] = @ + n[w]]
  /\ file' = [file EXCEPT ![w] = NoFile]
  /\ request' = [request EXCEPT ![w] = @ + 1]
  /\ pc' = [pc EXCEPT ![w] = "recv"]
  /\ UNCHANGED <<n, mail, filenum, stopped, report>>

ReceiveWork(w) ==
  /\ pc[w] = "recv" /\ mail[w] # <<>>
  /\ Head(mail[w]).tag # "TERMINATION_TAG"
  /\ file' = [file EXCEPT ![w] = Head(mail[w]).file]
  /\ mail' = [mail EXCEPT ![w] = Tail(@)]
  /\ pc' = [pc EXCEPT ![w] = "run"]
  /\ UNCHANGED <<n, request, filenum, stopped, time, called, tested, report>>

\* Mutant of ReceiveTermination: the next request is sent before the tag is
\* looked at.
ReceiveTerminationAndAsk(w) ==
  /\ pc[w] = "recv" /\ mail[w] # <<>>
  /\ Head(mail[w]).tag = "TERMINATION_TAG"
  /\ mail' = [mail EXCEPT ![w] = Tail(@)]
  /\ request' = [request EXCEPT ![w] = @ + 1]
  /\ n' = [n EXCEPT ![w] = @ + 1]
  /\ pc' = [pc EXCEPT ![w] = "start"]
  /\ UNCHANGED <<file, filenum, stopped, time, called, tested, report>>

ReceiveTermination(w) ==
  /\ pc[w] = "recv" /\ mail[w] # <<>>
  /\ Head(mail[w]).tag = "TERMINATION_TAG"
  /\ mail' = [mail EXCEPT ![w] = Tail(@)]
  /\ n' = [n EXCEPT ![w] = @ + 1]
  /\ pc' = [pc EXCEPT ![w] = "start"]
  /\ UNCHANGED <<file, request, filenum, stopped, time, called, tested, report>>

\* A rank that takes no part counts its repetitions and does nothing else.
SkipRepetition(r) ==
  /\ pc[r] = "start" /\ n[r] < n_repeats
  /\ n' = [n EXCEPT ![r] = @ + 1]
  /\ UNCHANGED <<pc, file, request, mail, filenum, stopped, time, called, tested, report>>

\* The master ---------------------------------------------------------------

\* Answer one request, from whichever worker, with the next partition.
ServeWork(w) ==
  /\ pc[root] = "serve" /\ n[root] < n_repeats
  /\ filenum < partitions
  /\ request[w] > 0
  /\ request' = [request EXCEPT ![w] = @ - 1]
  /\ mail' = [mail EXCEPT ![w] = Append(@, Work(filenum))]
  /\ filenum' = filenum + 1
  /\ UNCHANGED <<n, pc, file, stopped, time, called, tested, report>>

\* The partitions are gone: answer one request, from whichever worker, with
\* a termination; limit_procs - 1 of them are sent per repetition.
Terminate(w) ==
  /\ pc[root] = "serve" /\ n[root] < n_repeats
  /\ filenum >= partitions
  /\ stopped < limit_procs - 1
  /\ request[w] > 0
  /\ request' = [request EXCEPT ![w] = @ - 1]
  /\ mail' = [mail EXCEPT ![w] = Append(@, Termination(filenum))]
  /\ stopped' = stopped + 1
  /\ UNCHANGED <<n, pc, file, filenum, time, called, tested, report>>

\* Mutants of NextRepetition: the loop counters live outside the loop over
\* repetitions and are not reset, or the first partition is miscounted.
NextRepetitionKeepsStopped ==
  /\ pc[root] = "serve" /\ n[root] < n_repeats
  /\ filenum >= partitions
  /\ stopped = limit_procs - 1
  /\ n' = [n EXCEPT ![root] = @ + 1]
  /\ filenum' = numProcs
  /\ UNCHANGED <<pc, file, request, mail, stopped, time, called, tested, report>>

NextRepetitionFromOwn ==
  /\ pc[root] = "serve" /\ n[root] < n_repeats
  /\ filenum >= partitions
  /\ stopped = limit_procs - 1
  /\ n' = [n EXCEPT ![root] = @ + 1]
  /\ filenum' = root + 1
  /\ stopped' = 0
  /\ UNCHANGED <<pc, file, request, mail, time, called, tested, report>>

\* All terminations of this repetition are sent.
NextRepetition ==
  /\ pc[root] = "serve" /\ n[root] < n_repeats
  /\ filenum >= partitions
  /\ stopped = limit_procs - 1
  /\ n' = [n EXCEPT ![root] = @ + 1]
  /\ filenum' = numProcs
  /\ stopped' = 0
  /\ UNCHANGED <<pc, file, request, mail, time, called, tested, report>>

\* The reductions -----------------------------------------------------------

\* A rank leaves the loop over repetitions and hands in its contribution.
EnterReduce(r) ==
  /\ pc[r] \in {"start", "serve"} /\ n[r] = n_repeats
  /\ pc' = [pc EXCEPT ![r] = "reduce"]
  /\ UNCHANGED <<n, file, request, mail, filenum, stopped, time, called, tested, report>>

\* What a rank hands in to the minimum: I unless it is a worker.
MinInput(r) == IF r >= limit_procs \/ r = root THEN I ELSE time[r]

\* The master has the contributions of all ranks.
Reduce ==
  /\ \A r \in Ranks : pc[r] = "reduce"
  /\ report' = [sum |-> FoldFunction(Plus, 0, time),
                max |-> MaxOf({time[r] : r \in Ranks}),
                min |-> MinOf({MinInput(r) : r \in Ranks})]
  /\ pc' = [r \in Ranks |-> "end"]
  /\ UNCHANGED <<n, file, request, mail, filenum, stopped, time, called, tested>>
-----------------------------------------------------------------------------
WorkerStep(w) == \/ Start(w) \/ RunTests(w)
                 \/ ReceiveWork(w) \/ ReceiveTermination(w)
RootStep == NextRepetition \/ \E w \in Workers : ServeWork(w) \/ Terminate(w)

\* All ranks have left the benchmark.
Finished == \A r \in Ranks : pc[r] = "end"
Stop == Finished /\ UNCHANGED vars

Next == \/ \E w \in Workers : WorkerStep(w)
        \/ \E r \in Idle : SkipRepetition(r)
        \/ RootStep
        \/ \E r \in Ranks : EnterReduce(r)
        \/ Reduce
        \/ Stop

\* Every rank is a process of its own that keeps running, and a blocked
\* receive returns once a matching message has been sent.
Fairness == /\ \A w \in Workers : WF_vars(WorkerStep(w))
            /\ \A r \in Idle : WF_vars(SkipRepetition(r))
            /\ WF_vars(RootStep)
            /\ \A r \in Ranks : WF_vars(EnterReduce(r))
            /\ WF_vars(Reduce)

SafeSpec == Init /\ [][Next]_vars
Spec == SafeSpec /\ Fairness
-----------------------------------------------------------------------------
TypeOK ==
  /\ n \in [Ranks -> 0 .. n_repeats]
  /\ pc \in [Ranks -> {"start", "run", "recv", "serve", "reduce", "end"}]
  /\ file \in [Workers -> Files \cup {NoFile}]
  /\ request \in [Workers -> Nat]
  /\ mail \in [Workers -> Seq(Message)]
  /\ filenum \in Nat
  /\ stopped \in 0 .. limit_procs - 1
  /\ time \in [Ranks -> Nat \cup {Inf}]
  /\ called \in [Files -> Nat] /\ tested \in [Files -> Nat]

(***************************************************************************)
(* A worker between its first request and its termination waits for        *)
(* exactly one thing: its request is on the way, or the answer is, or it   *)
(* is running a partition.  A second outstanding request would make the    *)
(* master hand the same worker two answers and starve another one.         *)
(***************************************************************************)
Waiting(w) ==
  /\ pc[w] = "recv" => request[w] + Len(mail[w]) = 1
  /\ pc[w] # "recv" => request[w] + Len(mail[w]) = 0
OneOutstanding == \A w \in Workers : Waiting(w)

\* The partitions that the master or the start of a repetition hands out:
\* not partition 0, which neither a worker nor the master's loop starts with,
\* and not those between limit_procs and numProcs.
Covered == {f \in Files : f \in Workers \/ f >= numProcs}

(***************************************************************************)
(* The scheme calls all_tests on every covered partition once per          *)
(* repetition, over all repetitions together: on none once too often,      *)
(* however the repetitions of the ranks overlap, and in the end none is    *)
(* left.  This is about the sharing of the work; how often a call runs the *)
(* tests is TestsRun.                                                      *)
(***************************************************************************)
Pool == INSTANCE WorkPool WITH
          Tasks <- Covered, Copies <- n_repeats,
          remaining <- [f \in Covered |-> n_repeats - called[f]]
IsWorkPool == Pool!Spec

(***************************************************************************)
(* Every rank gets through its repetitions and the reductions.             *)
(***************************************************************************)
Terminates == <>Finished
-----------------------------------------------------------------------------
(* The inductive invariant: where the ranks can be, and an account of      *)
(* every partition.                                                        *)

\* The partitions the master hands out.
Served == {f \in Files : f >= numProcs}

\* A worker runs its own partition or a served one, and is sent served ones.
Place(w) ==
  /\ pc[w] \in {"start", "run", "recv", "reduce", "end"}
  /\ pc[w] \in {"run", "recv"} => n[w] < n_repeats
  /\ pc[w] = "run" => file[w] \in Served \cup ({w} \cap Files)
  /\ pc[w] # "run" => file[w] = NoFile
  /\ \A k \in DOMAIN mail[w] : mail[w][k].tag = "WORK_TAG" => mail[w][k].file \in Served

MasterPlace ==
  /\ pc[root] \in {"serve", "reduce", "end"}
  /\ filenum >= numProcs
  /\ n[root] = n_repeats => filenum = numProcs /\ stopped = 0

\* The workers a served partition is running on or under way to: two of them
\* when a slow worker still has it from an earlier repetition.
Carries(w, f) == \/ file[w] = f
                 \/ \E k \in DOMAIN mail[w] : mail[w][k] = Work(f)
Carriers(f) == {w \in Workers : Carries(w, f)}

\* How often the master has handed out a partition, and how often of these
\* after the first.
HandedOut(f) == n[root] + (IF filenum > f THEN 1 ELSE 0)
HandedOutAgain(f) == IF HandedOut(f) = 0 THEN 0 ELSE HandedOut(f) - 1

\* all_tests has been called on a served partition, or it is carried, once for
\* each time the master has handed it out.
ServedAccount ==
  \A f \in Served : called[f] + Cardinality(Carriers(f)) = HandedOut(f)

\* A worker's own partition comes first in each of its repetitions.
OwnAccount ==
  \A w \in Workers \cap Files :
    called[w] + (IF file[w] = w THEN 1 ELSE 0)
      = n[w] + (IF pc[w] \in {"run", "recv"} THEN 1 ELSE 0)

\* Nobody ever starts with a partition that is not covered, or is sent it.
SkippedAccount == \A f \in Files \ Covered : called[f] = 0 /\ tested[f] = 0

(***************************************************************************)
(* The type invariant, one outstanding request per worker, and every       *)
(* partition accounted for while the repetitions of the ranks overlap:     *)
(* the served ones, the workers' own ones, and those the scheme leaves     *)
(* out, partition 0 among them, on which all_tests is never called.        *)
(***************************************************************************)
Accounted == /\ TypeOK /\ OneOutstanding /\ MasterPlace
             /\ \A w \in Workers : Place(w)
             /\ ServedAccount /\ OwnAccount /\ SkippedAccount

\* While the master hands out partitions for the first time every worker is in
\* its first repetition.
FirstRepetition ==
  n[root] = 0 /\ filenum < partitions =>
    \A w \in Workers : /\ n[w] = 0
                       /\ \A k \in DOMAIN mail[w] : mail[w][k].tag = "WORK_TAG"

\* The carriers of a partition that will run its tests at all.
LateCarriers(f) == {w \in Carriers(f) : n[w] > 0}

\* A served partition is tested at most n_repeats - 1 times for each time it
\* was handed out, or is going to be, after the first.
ServedTests ==
  \A f \in Served :
    tested[f] + (n_repeats - 1) * Cardinality(LateCarriers(f))
      <= (n_repeats - 1) * HandedOutAgain(f)

\* The calls on a worker's own partition have tested it 0, 1, 2, ... times.
OwnTests == \A w \in Workers \cap Files : 2 * tested[w] = called[w] * (called[w] - 1)

\* The inductive invariant behind TestsRun.
TestsAccounted == Accounted /\ FirstRepetition /\ ServedTests /\ OwnTests

(***************************************************************************)
(* How often the tests run, the index of a repetition being passed for     *)
(* their number: with k calls a worker's own partition is tested           *)
(* 0 + 1 + ... + k - 1 times; a served one is not tested the first time it *)
(* is handed out, however far the worker it goes to has come, and at most  *)
(* n_repeats - 1 times each time after that.  So a duplication of 1, the   *)
(* default, tests nothing.                                                 *)
(***************************************************************************)
TestsRun ==
  \A f \in Files :
    /\ f \in Workers => 2 * tested[f] = called[f] * (called[f] - 1)
    /\ f \in Served => tested[f] <= (n_repeats - 1) * HandedOutAgain(f)
    /\ f \notin Covered => tested[f] = 0
-----------------------------------------------------------------------------
(* What the program says of itself and does not do.                        *)

(***************************************************************************)
(* "This time, like the others, reflects the average of the n              *)
(* duplications": the sequential time the master reports is one unit per   *)
(* partition and duplication.                                              *)
(***************************************************************************)
ReportIsAverage ==
  Finished => report.sum = n_repeats * Cardinality(Covered)
=============================================================================

---------------------------- MODULE StaticSchemes ---------------------------
(***************************************************************************)
(* The MPI benchmarks that share their work in a fixed way.                *)
(*   "spatial": the three round-robin phases of                            *)
(*     geos_benchmark_mpi_spatial_partition, with 1, all and all but one   *)
(*     of the ranks, before its load-balancing phase;                      *)
(*   "file": geos_benchmark_mpi_file_partition, whose rank 0 splits one    *)
(*     file into a part for each rank and removes the parts at the end.    *)
(*                                                                         *)
(* Abstractions: a unit of work (a partition, or a line) takes the time 1, *)
(* so a time is a number of units; the test suite is one step.             *)
(*                                                                         *)
(* A run of the file program that is aborted leaves its parts behind, and  *)
(* the next finds them: the file may have become shorter since.            *)
(***************************************************************************)
EXTENDS Integers, Sequences, FiniteSets

CONSTANTS numProcs, partitions, n,  \* ranks, partitions, repetitions
          LineCounts,               \* the lengths the file to split may have
          I                         \* a number larger than every time

ASSUME CountsAssumption == /\ numProcs \in Nat /\ numProcs > 1
                           /\ partitions \in Nat /\ n \in Nat \ {0}
ASSUME LinesAssumption == /\ LineCounts \subseteq Nat /\ I \in Nat
                          /\ I > partitions * n /\ \A c \in LineCounts : I > c

VARIABLES
  program, line_count,  \* which program runs, and on how many lines
  left,                 \* how many parts an aborted run has left behind
  pc, phase,            \* of each rank, where it is
  rep, filenum,         \* its loop counters
  geoms,                \* the lines it has read
  time,                 \* what it has timed in this phase
  directory,            \* the parts that exist, as sets of lines
  sent,                 \* what each rank has given to the reductions
  report,               \* what the root has reported
  ran                   \* history: how often each unit of each phase was run

vars == <<program, line_count, left, pc, phase, rep, filenum, geoms, time, directory, sent, report, ran>>

Ranks == 0 .. numProcs - 1
root == 0
Phases == IF program = "spatial" THEN <<1, numProcs, numProcs - 1>> ELSE <<numProcs>>
Units == IF program = "spatial" THEN 0 .. partitions - 1 ELSE 0 .. line_count - 1
limit_procs(r) == Phases[phase[r]]
Done(r) == phase[r] > Len(Phases)

\* The parts of an aborted run, each with a line of the file of then.
LeftBehind == [k \in 1 .. left |-> {-k}]
-----------------------------------------------------------------------------
Init ==
  /\ program \in {"spatial", "file"}
  /\ line_count \in IF program = "file" THEN LineCounts ELSE {0}
  /\ left \in IF program = "file" THEN 0 .. numProcs ELSE {0}
  /\ pc = [r \in Ranks |-> IF program = "file" THEN "start" ELSE "loop"]
  /\ phase = [r \in Ranks |-> 1]
  /\ rep = [r \in Ranks |-> 0] /\ filenum = [r \in Ranks |-> r]
  /\ geoms = [r \in Ranks |-> {}] /\ time = [r \in Ranks |-> 0]
  /\ directory = LeftBehind
  /\ sent = [r \in Ranks |-> <<>>] /\ report = <<>>
  /\ ran = [p \in DOMAIN Phases |-> [u \in Units |-> 0]]

At(r, where) == pc[r] = where /\ ~Done(r)

\* The rank begins its next phase, where all its counters are new variables.
NextPhase(r) ==
  /\ phase' = [phase EXCEPT ![r] = @ + 1]
  /\ pc' = [pc EXCEPT ![r] = "loop"]
  /\ rep' = [rep EXCEPT ![r] = 0] /\ filenum' = [filenum EXCEPT ![r] = r]
  /\ time' = [time EXCEPT ![r] = 0]
-----------------------------------------------------------------------------
\* all_files_round_robin ----------------------------------------------------

Working(r) == At(r, "loop") /\ program = "spatial" /\ r < limit_procs(r) /\ rep[r] < n

RunFile(r) ==
  /\ Working(r) /\ filenum[r] < partitions
  /\ ran' = [ran EXCEPT ![phase[r]][filenum[r]] = @ + 1]
  /\ time' = [time EXCEPT ![r] = @ + 1]
  /\ filenum' = [filenum EXCEPT ![r] = @ + limit_procs(r)]
  /\ UNCHANGED <<program, line_count, left, pc, phase, rep, geoms, directory, sent, report>>

NextRepetition(r) ==
  /\ Working(r) /\ filenum[r] >= partitions
  /\ rep' = [rep EXCEPT ![r] = @ + 1]
  /\ filenum' = [filenum EXCEPT ![r] = r]
  /\ UNCHANGED <<program, line_count, left, pc, phase, geoms, time, directory, sent, report, ran>>

\* Mutant of MinInput: ranks without work count as the fastest.
MinInputZero(r) == time[r] \div n

\* A rank without work must not be the minimum.  (The file program has no minimum.)
MinInput(r) == IF r >= limit_procs(r) THEN I ELSE time[r] \div n

\* A rank at its three reductions: all but the root are free to go on.
EnterReduce(r) ==
  /\ At(r, "loop")
  /\ IF program = "spatial" THEN ~Working(r) ELSE rep[r] = 1
  /\ sent' = [sent EXCEPT ![r] = Append(@, [sum |-> time[r] \div n, min |-> MinInput(r)])]
  /\ IF r = root
       THEN pc' = [pc EXCEPT ![r] = "reduce"] /\ UNCHANGED <<phase, rep, filenum, time>>
       ELSE NextPhase(r)
  /\ UNCHANGED <<program, line_count, left, geoms, directory, report, ran>>

SumOf(p) == LET sum[k \in 0 .. numProcs] ==
                  IF k = 0 THEN 0 ELSE sum[k - 1] + sent[k - 1][p].sum
            IN  sum[numProcs]
MinOf(S) == CHOOSE x \in S : \A y \in S : x <= y
MaxOf(S) == CHOOSE x \in S : \A y \in S : x >= y

\* Mutant of Reduce: the root asks again and again for ranks that are where it is.
ReduceInStep ==
  /\ At(root, "reduce")
  /\ IF \A r \in Ranks : phase[r] = phase[root]
       THEN NextPhase(root) /\ UNCHANGED <<report, directory>>
       ELSE UNCHANGED <<phase, pc, rep, filenum, time, report, directory>>
  /\ UNCHANGED <<program, line_count, left, geoms, sent, ran>>

\* The root has the contributions of all ranks to its phase, and reports.  The
\* file program then removes the parts.
Reduce ==
  /\ At(root, "reduce")
  /\ LET p == phase[root]
     IN  /\ \A r \in Ranks : Len(sent[r]) >= p
         /\ report' = Append(report, [sum |-> SumOf(p),
                                      max |-> MaxOf({sent[r][p].sum : r \in Ranks}),
                                      min |-> MinOf({sent[r][p].min : r \in Ranks})])
  /\ directory' = <<>>
  /\ NextPhase(root)
  /\ UNCHANGED <<program, line_count, left, geoms, sent, ran>>
-----------------------------------------------------------------------------
\* The file program ---------------------------------------------------------

Least(a, b) == IF a < b THEN a ELSE b

line_count_per_file == (line_count \div numProcs) + 1

\* What split makes of the file: the k-th part, for as many parts as it takes.
Parts ==
  LET size == line_count_per_file
  IN  [k \in 1 .. (line_count + size - 1) \div size |->
         (k - 1) * size .. Least(k * size, line_count) - 1]

\* The parts are written over those of the same names; other parts stay.
Split(parts) ==
  [k \in 1 .. (IF Len(parts) > Len(Parts) THEN Len(parts) ELSE Len(Parts)) |->
     IF k \in DOMAIN Parts THEN Parts[k] ELSE parts[k]]

\* Rank 0 splits the file before it enters the barrier.
EnterBarrier(r) ==
  /\ At(r, "start")
  /\ directory' = IF r = root THEN Split(directory) ELSE directory
  /\ pc' = [pc EXCEPT ![r] = "barrier"]
  /\ UNCHANGED <<program, line_count, left, phase, rep, filenum, geoms, time, sent, report, ran>>

\* Mutant of LeaveBarrier: there is none.
LeaveBarrierAtOnce(r) ==
  /\ At(r, "barrier")
  /\ pc' = [pc EXCEPT ![r] = "read"]
  /\ UNCHANGED <<program, line_count, left, phase, rep, filenum, geoms, time, directory, sent,
                 report, ran>>

LeaveBarrier(r) ==
  /\ At(r, "barrier")
  /\ \A s \in Ranks : pc[s] # "start"
  /\ pc' = [pc EXCEPT ![r] = "read"]
  /\ UNCHANGED <<program, line_count, left, phase, rep, filenum, geoms, time, directory, sent,
                 report, ran>>

\* A part that is not there reads as an empty one.
ReadPart(r) ==
  /\ At(r, "read")
  /\ geoms' = [geoms EXCEPT ![r] = IF r + 1 \in DOMAIN directory THEN directory[r + 1] ELSE {}]
  /\ pc' = [pc EXCEPT ![r] = "loop"]
  /\ UNCHANGED <<program, line_count, left, phase, rep, filenum, time, directory, sent, report, ran>>

\* The test runs n times; the average leaves the number of lines.
RunLines(r) ==
  /\ At(r, "loop") /\ program = "file" /\ rep[r] = 0
  /\ ran' = [ran EXCEPT ![1] = [u \in Units |-> IF u \in geoms[r] THEN @[u] + n ELSE @[u]]]
  /\ time' = [time EXCEPT ![r] = n * Cardinality(geoms[r])]
  /\ rep' = [rep EXCEPT ![r] = 1]
  /\ UNCHANGED <<program, line_count, left, pc, phase, filenum, geoms, directory, sent, report>>
-----------------------------------------------------------------------------
RankStep(r) == \/ RunFile(r) \/ NextRepetition(r) \/ EnterReduce(r)
               \/ EnterBarrier(r) \/ LeaveBarrier(r) \/ ReadPart(r) \/ RunLines(r)
               \/ r = root /\ Reduce

Finished == \A r \in Ranks : Done(r)

Next == \/ \E r \in Ranks : RankStep(r)
        \/ Finished /\ UNCHANGED vars

Fairness == \A r \in Ranks : WF_vars(RankStep(r))

Spec == Init /\ [][Next]_vars /\ Fairness
-----------------------------------------------------------------------------
(***************************************************************************)
(* What the root reports is complete: every partition, or every line of    *)
(* the split file, has been run n times, by whichever ranks, and is in the *)
(* reported sum once, although ranks run ahead into later phases.  After   *)
(* an aborted run the sum has one thing more: the lines of the parts this  *)
(* run has not written over.                                               *)
(***************************************************************************)
ReportIsComplete ==
  \A p \in DOMAIN report :
    /\ \A u \in Units : ran[p][u] = n
    /\ report[p].sum = Cardinality(Units) + Cardinality({k \in 1 .. left : k > Len(Parts)})

(***************************************************************************)
(* Of partitions that take the same time, the fixed stride reports a       *)
(* bottleneck range of at most one: no rank has two partitions more than   *)
(* another, and the ranks that take no part do not count.                  *)
(***************************************************************************)
RangeIsFair ==
  \A p \in DOMAIN report : program = "spatial" => report[p].max - report[p].min <= 1

\* What the root reports is complete, and fair where that is claimed.
ReportIsRight == ReportIsComplete /\ RangeIsFair

(***************************************************************************)
(* No rank reads the parts before they are made or after they are removed, *)
(* and there are no more parts than ranks to read them.  What an aborted   *)
(* run has left is read only by ranks for which this run has no part, and  *)
(* is gone when this run has ended.                                        *)
(***************************************************************************)
ReadsItsPart ==
  /\ Len(directory) <= numProcs
  /\ \A r \in Ranks :
       program = "file" /\ pc[r] \notin {"start", "barrier", "read"} =>
         geoms[r] = IF r + 1 \in DOMAIN Parts THEN Parts[r + 1]
                    ELSE IF r + 1 <= left THEN LeftBehind[r + 1] ELSE {}
  /\ Done(root) => directory = <<>>

\* Every rank comes to the end of its phases.
Terminates == <>Finished
=============================================================================

# Verification of the DPU benchmark suite

This directory is the formal model of the programs of this repository: a suite
of benchmarks that move spatial (and vector-similarity) queries between a host
and a BlueField DPU, over gRPC, MPI, raw DMA and DOCA communication channels.
Each component has a TLA+ module, small TLC instances of it (the modules and
configurations whose names begin with `MC`) and, where it pays, theorems that
TLAPS checks for every value of the constants.

## 1. Inventory

| Component | Sources | State | Operations | Hard behaviour |
|---|---|---|---|---|
| MPI dynamic load balancing | `mpi/geos_benchmark_mpi_spatial_partition.cpp` 717-835 | repetition counters, the master's next partition, requests and answers in transit, times | start own partition, request, serve, terminate, reduce | repetitions of different ranks overlap; any-source receives |
| MPI static schemes | the same file, 624-715, and `mpi/geos_benchmark_mpi_file_partition.cpp` | each rank's stride and times, the parts of the split file | run the stride, reduce, split the file, read and remove the parts | boundary of the stride; parts read before they are made, or left by an aborted run; ranks ahead of the root |
| GEOS test suites | `mpi/geos_benchmark.cpp`, `mpi/geos_benchmark_mpi.cpp`, the tests of the other MPI programs and of the job-queue programs | the GEOS handle, a tree, two lists of polygons, open files | twelve timed tests, each repeated; report | limits of files and stack; inputs that are not polygons; order of releases, copied twelve times |
| gRPC asynchronous server | every `*_server.cc` and `*_dpu.cc` of `derda_grpc/experiments` | completion queue, one `CallData` per call, its status | register, match, handle, finish, delete | several threads on one queue; object lifetime; a client that goes away |
| Offloading DPU and counting host (exp2) | `exp2_*` | the shared counter of intersections, the answer of the host | split a batch, send one part on, count the other, join, reply | unsynchronised counters shared by handlers |
| Polygon arrays of exp2 | `exp2_*`, their encoding and decoding | the batch under construction | encode, split, decode | headers, off-by-one at the last polygon, rounding |
| Batching text DPU (exp3, exp4, zzz_fpc) | `exp3_*`, `exp4_*`, `zzz_fpc_lb_mt_mfr_sc.cc` | a counter and a string, both global; the batch | batch, split, send to the host, count, answer with both | answers of other requests in the global string |
| Callback DPU (exp5, lb_mt_tfr) | `exp5_*`, `lb_mt_tfr_*` | a global answer, a global queue | nested call from a query callback, swap of queues | stale answers; results of one request in another; hung calls |
| Job-queue clients (exp6, lb_mt) | `exp6_*`, `lb_mt_client.cc`, `lb_mt_server.cc` | the job queue, a running total, the handle of GEOS | take a job, run it, send it | check-then-act on a shared queue; a handle several jobs finish |
| R-tree experiments (exp1) | `exp1_blocking_rtree.cc`, `exp1_non_blocking_rtree.cc` | the trees, the count | insert, freeze, query, count | a tree filled and queried by several threads |
| gRPC server-client example | `gRPC server-client example/*` | a job per call with a counter of pending operations, queues of responses and tags | streaming calls of four kinds | events in any order; clients that leave; state kept by address |
| DMA copy | `dma/*.c` | device, mapping, socket, job | export, receive, copy, acknowledge, clean up | a timeout racing a copy; partial failure; order of clean-up |
| DOCA channel and DMA | `DOCA/*.c` | channel, mapping, task | two-message handshake, task, clean up | ordering of messages, partial failure |
| DOCA feature probes | `DOCA/*.c` | - | single calls of the library | - |
| Spatial operator | `spatial_operator/*` | - | forward a message | a sketch that does not compile |
| Unbuilt and tutorial servers | `geosbm_*`, `z_lb_mt_fr_server.cc`, `greeter_*`, `tutorial_grpc_test` | - | - | copies of the skeleton |
| Scripts and data | `vector_similarity_test`, `Data`, `Documents` | - | scripts that time a library or prepare data | sequential |

How they interact. A batching client reads polygons, encodes a batch as an array
of floats (or as text) and calls a server. A DPU server is itself a client of the host: it
splits the batch, sends one part on, counts the intersections of the other part
and adds the answers. All servers share the same skeleton, an asynchronous gRPC
service whose handler threads take events from a completion queue. The MPI
programs are independent of the servers: the ranks share partition files, and
only messages and reductions connect them. The DMA and DOCA programs come in
pairs, an exporter and a copier, connected by a socket or a channel.

What makes each part correct: work is neither lost nor done twice (load
balancing, batching, queues); every accepted call is answered exactly once and
its object is freed exactly once (server); an answer counts the polygons of its
own request (offloading); decoding gives back what was encoded (wire format);
memory stays mapped while a copy may touch it, and what is acknowledged has
happened (DMA).

## 2. Plan

Done, in this order, because the first three carry the concurrency all the
benchmarks depend on:

1. `WorkPool` (what a work-sharing scheme promises) and `LoadBalance` (the
   dynamic scheme), with its refinement proved in `LoadBalanceProofs`.
2. `AsyncServer`: the life of `CallData` objects under several handler threads,
   which implements the same `WorkPool`.
3. `OffloadServer`: the handler of the DPU, its counter and its join, composed
   with `AsyncServer`; `ServerProofs`, about both.
4. `PolygonWire`: the encoder, the splitter and the decoders.
5. `RemoteCopy`: the DMA sender, receiver and local copy.
6. `StaticSchemes`: the fixed shares of the MPI programs, and the split file;
   `StaticSchemesProofs`.
7. `QueryServers`: the text DPU and the callback DPU with their clients (exp3, exp4,
   zzz_fpc, exp5, lb_mt_tfr), one module for six programs.
8. `JobQueue`: the job-queue clients and their servers; `JobQueueProofs`.
9. `RTreeJoin`: the R-tree programs (exp1) and the lazily built tree of the servers.
10. `GeosSuite`: the test suites of nine programs.
11. `StreamServer`: the streaming example.

12. Proofs of the remaining safety properties: `RemoteCopyProofs`,
    `StreamServerProofs`, `RTreeJoinProofs`, `QueryServersProofs`, the sums of
    `JobQueueProofs` and `StaticSchemesProofs`, and `GeosSuite` in `LoadBalanceProofs`.

The plan has nothing left; what stays model-checked only, or is not modelled, is in
sections 5 and 7.

## 3. Modules

### WorkPool

The abstract specification of work sharing: `remaining` says how often each
task still has to be carried out, `CarryOut` carries one out. Its safety part
says that no task is carried out once too often, its fairness that none is left.
`LoadBalance` implements it with the partitions as tasks and the duplications as
copies, `AsyncServer` (the safety part) with the calls as tasks and one copy each.

### LoadBalance

`all_files_load_balancing` of `geos_benchmark_mpi_spatial_partition.cpp`. Every
rank has its repetition counter `n` and a `pc`; the master has `filenum` and
`stopped` (its loop variables); `request` and `mail` are the messages under way
in the two directions. A message is in a buffer of its pair of ranks, in order,
which is what MPI promises for one communicator; `MPI_ANY_SOURCE` is the choice of
`w` in `ServeWork` and `Terminate`. There is one action for each piece of code
between two communications:

| Code | Action |
|---|---|
| worker, start of a repetition, 742-756 | `Start` |
| `all_tests` and the request that follows | `RunTests` |
| receive, by tag, 757-766 | `ReceiveWork`, `ReceiveTermination` |
| master, loop over partitions, 775-784 | `ServeWork` |
| master, loop over the workers, 787-792 | `Terminate` |
| end of the master's repetition | `NextRepetition` |
| reductions | `EnterReduce`, `Reduce` |
| ranks from `limit_procs` on | `SkipRepetition` |

`called` and `tested` are history variables: how often `all_tests` was called on each
partition, and how often its tests ran. The two differ, since the index of the
repetition is passed for the number of repetitions: a call in repetition k runs the
tests k times, the first call none. `time` counts units, one per run of the tests, so
that the division by the number of repetitions asked of `all_tests` can be followed, an
infinity included. The work pool is one of calls: `Implements` says how often
`all_tests` is called, `TestsRun` how often that tests anything.

### AsyncServer

The skeleton all `*_server.cc` and `*_dpu.cc` share, taken from the exp2 server with
several handler threads. A thread's `pc` is its place between two accesses to shared
objects: `New` (`new CallData`), `SetProcess` and `RequestSayHello` (the two
statements of the CREATE branch), `NextEvent` (`cq_->Next` and `GPR_ASSERT(ok)`),
`Proceed` (the branch on `status_`), `Process` (the work), `SetFinish` and `Finish`
(the two statements after it), `Delete` (the assertion on `status_` and `delete
this`). An object that is deleted is "free" and may be returned by the next `New`:
reuse of an address is in the model, so a late access by a thread that no longer
owns an object would show. `Match` and `Carry` are the gRPC runtime, modelled from
its use and marked external; `Send` and `Leave` are clients. `Throw` is an exception
that leaves a handler thread and ends the process.

### OffloadServer

Extends `AsyncServer`: the processing is now `Begin` (split the request and start
`sendQuery` in a thread), `Load` and `Store` (the two halves of `intersectCount++` in
the query callback), `SetReply` (after `join`) and `Reset` (clear the counter), with
`SendLoad` and `SendStore` for the addition of the host's answer by the sending
thread, and `SendFails` for the exception of `stoi`. The counter is one plain `int` for
all threads, so that additions interleave as loads and stores; a data race has no
meaning in C++, and a load and a store of an aligned `int` are what the build
produces. With `Offload = FALSE` it is the host server, with `TRUE` the DPU.
`Reset` contains `Process`, the last step of the processing, so each step of the module
is a step of `AsyncServer` or leaves its variables alone; `ImplementsServer` proves it.

### PolygonWire

The arrays of exp2. `Appended` is the client's encoding of one polygon with its
header, `SendIndex` and `SendArray` the DPU's walk over the headers and the part it
sends on, `DecodeDpu` and `DecodeHost` the two decoders, which differ in when they read
a header. A coordinate is a negative number that occurs once, so that a coordinate
taken for a header, lost or doubled is noticed; `AsFloat` rounds a header above
`Exact` (2^24 for `float`) and `Junk` is what a read past the end may return.
`ReadPolygon` is the client's loop, `Split`, `QueryDpu` and `QueryHost` the use of a
request by the two servers, each at its own pace. `IsArrayOf`, which only properties
use, says independently of the encoder what the array of given polygons is.

### RemoteCopy

`dma_remote_copy_sender`, `dma_remote_copy_receiver` and `dma_local_copy`. Each is a list
of calls (`Calls`), any of which may fail; `UndoAfter` is the list of objects its error
path releases after each call, translated label by label. `held` is what a program
holds, `undo` what it has still to release. `Connect`, `Write`, `Ack`, `Listen`,
`Accept`, `Recv` and `Import` are the TCP exchange, with a partial `recv`, a closed
socket, a connection that is queued but not accepted, and the sender's timeout of
five seconds (a nondeterministic failure of `Ack`). Closing its socket does not take a
sender's connection from the queue: the receiver may accept it later and read what was
written (`Release` leaves `queue` and `sent` alone). `Engine` is the DMA engine; when
the memory it reads has been unmapped it may have read anything ("torn").

### StaticSchemes

The three round-robin phases `main` runs before the load balancing, with 1, all and all
but one of the ranks, and the program that splits one file. Each rank has its
`phase`; only the root waits in a reduction, so the others run ahead, and `sent` keeps
what each has contributed to each of them. For the splitter `directory` holds the
parts that exist, at first those an aborted run has left (`left`, `LeftBehind`);
`EnterBarrier` contains the split of rank 0, which writes over parts of the same
names only, `Reduce` the removal of all. `ran` is a history variable: how often each
partition, or line, was run. The two programs share `EnterReduce` and `Reduce`, whose
minimum only the first reports.

### QueryServers

The programs of exp3, exp4, zzz_fpc, exp5 and lb_mt_tfr are one server with
different parts, and so is the module: a program is a record of what its `Run` does in
order, of the operations of its `Proceed` in order, of what its query callback does
(`count`, `ask` the host, `push` on a queue), and of its client. A handler takes a
request in one step (the events are `AsyncServer`'s) and then goes through the
operations; its callback is called for each candidate in turn. The globals are an
`int`, whose increment is a load and a store, and a string or queue (`text`): a write
has a beginning and an end, and another handler's access between them is undefined
behaviour, after which the model says nothing (`Undefined`). `CallHost`, `SayHello` and
`KeepAnswer` are the call to the host, which may fail, or never return for some
clients (`hung`). `ReadLine` and `Receive` are the client: a batch is sent when it is
full, what is left over never. `overlaps` records which requests were processed at the
same time.

### JobQueue

The `std::queue` of exp6 and lb_mt as the deque it is: `Empty`, `Front`, `Pop` and
`Advance` are the accesses of a thread to it, between which others come; reading or
destroying a string twice, or past the tail, is `Misread`. What a thread does with a job is
the list of stages of the program: exp6 initialises and finishes the process-wide (or,
depending on the version of GEOS, thread-local) handle for each job, lb_mt does not.
`SayHello` and `Reply` are the sending thread of exp6, `Proceed` the server's handlers,
which go on with a job whose call has failed.

### RTreeJoin

Insertions and queries of an STRtree as operations with a beginning and an end, so that
calls overlap. A program is, for each thread, the sequence of its calls: `blocking`
(one thread), `non_blocking` (two, each inserting into its tree and looking in the
other's) and `handlers` (the tree of the exp2 DPU, filled by `main`). The library is
external and has two parameters: whether it locks the building of a tree, and whether a
query freezes an empty tree. `Load`, `Store`, `Test` and `Push` are the callback.

### GeosSuite

What one process does in one of the nine programs that test GEOS. A test is a list of
steps with what it has on the stack and its predicate; a program is a list of tests, with
whether it reads the files in each test or once before them. A file is a sequence of
kinds of lines (`Lines`), on which the reading decides as the code does. `Faults` is what
is wrong with a step, `Crash` is what happens then; `Report` needs every rank.

### StreamServer

The server of the streaming example. `HandleRpcs` (the events of the runtime) puts tags
in `gIncomingTags`, `processRpcs` takes them. A job is a record with the members of
the code's classes; `doSendResponse`, `OnWrite`, `IsDone` and the rest are translated as
operators on that record, the four job classes and the four processors as operators on
a job and a tag. A job's address is its identity, and the next job gets the least
free one, so that state kept by address (`mRecordRouteMap`) is met again. Clients may go
away at any point (`GoAway`), and the runtime reports the done event before or after the
others. `SendResponses` is the sending of the next queued response, or of the status when
there is none; `MayGive` and `Addresses` say which addresses a job of each rpc may be
given, so that a run can mix rpcs that share nothing. `SafeSpec` is the specification
without its fairness, which the theorems are about.

## 4. Runs

| Run | Instance | What it shows |
|---|---|---|
| `load_balance` | 5 ranks of which 4 take part, 6 partitions, 3 repetitions | one outstanding request per worker (`OneOutstanding`); every partition accounted for although repetitions overlap, the ones nobody calls included (`Accounted`), hence no call lost or doubled (`IsWorkPool`); how often the calls run the tests, which is not once each (`TestsRun`); the benchmark ends (`Terminates`) |
| `lb_average` (violation) | the same | the reported time is not the average over the duplications (`ReportIsAverage`) |
| `async_server` | 2 threads, 2 calls, 4 objects; clients leave, work throws | `OnePlace`: no object is shared, used after its delete or leaked; `WorkBeforeAnswer`; `IsWorkPool`: at most one answer per call; `SentIsAnswered`: and one unless the client leaves, or the process ends, for which some client must have left or some work thrown |
| `offload_server` | the DPU, 2 handlers and their sending threads, 2 calls | `NothingInvented`, `QuietIsZero`, `AloneIsCounted`: what races may do to the counter, and that they stay with the requests that raced |
| `polygon_wire` | every file of up to 5 polygons of 1 to 3 points, requests of 2, a split after 0 to 3 | `WholeBatch`: host and DPU query each polygon once; `ThrowsOnlyIfShort`; `ReadIsKept`: each request is the array of its polygons, and what is under construction that of the rest |
| `remote_copy` | 2 senders and a receiver, or a local copy; every call may fail | `ReleasedInOrder`, `NothingLeaked`, `CopySound` (acknowledged when the receiver is through with the job; a success of the receiver means copied, or torn because the sender gave up; no overlapping ranges), `BothReturn` |
| `static_schemes` | 3 ranks, 4 partitions, 2 repetitions; files of 0 to 7 lines, 0 to 3 parts of an aborted run | `ReportIsRight` (complete, and fair), `ReadsItsPart`, `Terminates` |
| `query_servers` | exp4_server, exp4_dpu, exp5_dpu, lb_mt_tfr_server; 2 clients, 2 handlers | `FreshAnswer`: no text of a request that was over; `AloneIsRight`: a request processed alone gets the sequential answer; `WholeFile`: the n-th answer counts the n-th run of the file; `OthersAnswered`: hung calls take one handler each |
| `job_queue` | 2 working threads and the sending one, 2 jobs; every client with every server, every set of threads | `SkippedIsDoubled`; `AloneIsExact`; `HostServesOneAtATime`: only the last job and those of failed calls are under way at the server, and only the latter make its shared handle unsafe |
| `rtree_join` | every pair of files of up to 2 geometries, three programs, four kinds of library | `BlockingIsExact`; `FrozenEarly`; `QueriesAgree`: handlers find the same, and the one thing that can go wrong is a query during an unlocked build |
| `geos_suite` | nine programs, a file of each kind, 1 or 2 passes, limits just enough and just too small, 1 or 2 ranks | `EveryPair`: what is reported is every predicate on every pair; `Released`; `ReportsIfSuitable`: the report comes exactly for inputs that every rank can work on (its safety part is `OnlySuitable` of the proofs) |
| `stream_server` | mixes of 2 calls at once and 3 in turn, over the four rpcs | `OpsCounted`: a job lives exactly as long as the runtime has something to report of it; `OneOperation`; `OkIsComplete`; `SummaryIsOwn`; `JobsReleased` |

### Why these bounds

* Load balancing: three workers are the fewest with which two can run the same
  partition in different repetitions while the third waits; two partitions are served
  by the master, to one worker or to two; three repetitions overlap, of which the first
  runs no tests, the second one and the third two; one rank only joins the reductions. Workers with no partition of their own (more workers than
  partitions) are covered by the theorems, which hold for every number of each.
* Server: two threads share the queue; two calls need, with two threads, four
  objects at most at a time, and a deleted object is reused by a later `New`. The
  theorems hold for every number of all three.
* Offloading: one intersection or two per call is enough for a lost update, a late
  addition and an answer read between them. Here clients do not leave, which
  `async_server` covers: it would only end the process earlier.
* Wire format: five polygons make two full requests and a remainder; a DPU part of 3
  is larger than a request; with `Exact = 9` two small polygons fit and two large
  ones do not, so the rounding of headers happens.
* DMA: two senders compete for one `accept`. There is one receiver, as the program
  accepts once. Four addresses and two lengths make disjoint, touching and
  overlapping ranges.
* Static schemes: 4 partitions are divided evenly by the stride 2 and not by 3; the
  files are shorter than, as long as, and longer than the number of ranks, and some
  make fewer parts than ranks and than an aborted run has left.
* Query servers: two handlers and two clients are enough for every pair of
  conflicting accesses. exp4_server stands for exp3_server and exp4_dpu for
  zzz_fpc, which have the same record in the module. A batch of two, with the empty
  string before it, is split in two parts and one; one client sends two batches, so that
  one follows another, and has a polygon left over; a polygon has two candidates, of which
  one is found. In the unbatched programs
  each client sends two requests.
* Job queue: two jobs let one be skipped and another run twice; a third thread
  finds the queue empty.
* R-tree: the point 1 lies in the envelope of {0, 2} but not in it; two geometries per
  file allow an insertion before and after a first query; a time is pushed every 2.
* Suites: `MaxGeoms` is 2, so a file of two polygons fills an array and one of three
  is too long; 43 and 44 are one less than and as many as the files two passes leave
  open; the stack holds one array or two.
* Streams: three routes in turn, so that the third may be given the address of the
  first; of the other rpcs, two calls at once share nothing but the queue of tags,
  whose two places let an event overtake the processing of another.

### Fairness

* MPI: each rank is a process of its own that keeps running, and a blocking receive
  or reduction returns when its message has been sent: weak fairness of each rank's
  steps (load balancing, static schemes, suites). No fairness favours a particular
  sender at the master's any-source receive.
* Server: weak fairness of each handler thread and of the runtime's matching and
  carrying. None for clients, which need not call; none for `Throw` and `Leave`.
* DMA: weak fairness of each program as a whole and of the engine. Failures are
  never required to occur, so that `SenderReturns` says that the sender's call of
  `recv` ends: with its answer, or with its timeout, which is enabled without one.
* Query servers: weak fairness of each handler thread, of `Run` and of the carrying of
  an answer. A host that is not hung answers within its handler's steps; a hung one
  never does, which no fairness repairs.
* Streams: weak fairness of the two threads, `HandleRpcs` and `processRpcs`. The
  runtime reports every operation, and a client that streams comes to an end; whether
  clients call or go away is left open.

Runs without deadlock checking are those whose programs end, or wait for clients that
need not come; where it is on, the modules have a step for the end.

## 5. Proofs

| Module | Theorems |
|---|---|
| `LoadBalanceProofs` | of `LoadBalance`: `TypeCorrect`, `AccountedAlways`, `OneOutstandingAlways`, `TestsRunAlways`, `Implements`; of `GeosSuite`: `SuiteSoundAlways`, `EveryPairAlways`, `ReleasedAlways`, `OnlySuitableAlways` |
| `ServerProofs` | of `AsyncServer`: `SoundAlways`, `TypeCorrect`, `OnePlaceAlways`, `StatusAssertionAlways`, `WorkBeforeAnswerAlways`, `Implements`; of `OffloadServer`: `ImplementsServer`, `OffloadOnePlace`, `OffloadTypeCorrect`, `NothingInventedAlways`, `QuietIsZeroAlways`, `AloneIsCountedAlways`; of `PolygonWire`: `WholeBatchAlways`, `ThrowsOnlyIfShortAlways`, `ReadIsKeptAlways` |
| `RemoteCopyProofs` | `CopyInvAlways`, `ReleasedInOrderAlways`, `NothingLeakedAlways`, `CopySoundAlways` |
| `StaticSchemesProofs` | `ReadsItsPartAlways`, `ReportIsRightAlways` |
| `QueryServersProofs` | `FreshAnswerAlways`, `AloneIsRightAlways`, `WholeFileAlways` |
| `JobQueueProofs` | `HostServesOneAtATimeAlways`, `AloneIsExactAlways`, `SkippedIsDoubledAlways` |
| `RTreeJoinProofs` | `FrozenEarlyAlways`, `QueriesAgreeAlways`, `BlockingIsExactAlways` |
| `StreamServerProofs` | `OpsInvAlways`, `OpsCountedAlways`, `OneOperationAlways`, `AnswersInvAlways`, `OkIsCompleteAlways`, `SummaryIsOwnAlways` |

*Load balancing.* That a partition is not run too often is not inductive: a partition
that is under way must be counted too. `Accounted` says where everything can be (one
request or answer per waiting worker, served partitions only in the mail) and keeps three
accounts: a served partition has been called, or is carried by a worker, once for each
time the master has handed it out (`ServedAccount`, a sum with the cardinality of
the workers that carry it), a worker's own partition once for each repetition it
has begun (`OwnAccount`), and the others never (`SkippedAccount`). The accounts rest on the
places (`Located`) and are proved separately. `Implements` follows: when `all_tests` is
called on a partition the account leaves room for one more call. `TestsRun` needs more
(`TestsAccounted`): a worker's own partition has been tested 0 + 1 + ... times
(`OwnTests`); while the master hands out partitions for the first time every worker is in
its first repetition, in which nothing is tested (`FirstRepetition`); and of the later
times each accounts for at most one run less than there are repetitions (`ServedTests`,
over the workers that carry a partition in a later repetition). The assumptions are that there is at least one rank, that `limit_procs` is at
most their number, and at least one repetition; `main` passes all ranks as
`limit_procs` and replaces a duplication of zero by one (a negative argument, which makes
the loops empty, is left out).

*Test suites.* The tests are tables, so the proof has two layers. The first is about
the tables: which programs read in their tests, which test of a suite evaluates a
predicate (`TestOK`, `SuiteFacts`), and that each of the six lists of steps makes what its
steps use and leaves nothing (`Orderly`, `Clean`), which is read off step by step. The second,
`SuiteSound`, says that a rank's place determines everything else: its tree, handle and
polygons by the steps of the test that have run (`Holding`), what it has leaked and counted
by how often it has taken each step (`Times`, `Since`), and that a rank that has filled a tree without
a full array has room for its polygons (`Fit`), without which `iterate_tree` could have
counted fewer. A step changes what is held as its name says and is counted once
(`StepKeeps`); a rank that has ended has taken every step n times. `OnlySuitable` needs
another invariant beside it, `SuiteShown`: a step that was taken had no fault, and so has
shown something of the input that stays true (`Passes`: the file was there, it parsed, it
fitted the array, the stack held the arrays), and the number of open files follows from
the place (`Openings`), since none is closed. A rank that has ended has been through every
step, which gives each conjunct of `Suitable`, the 22 files of a pass among them. It is assumed that a
program is one of the nine, that the number of repetitions is positive (a zero is replaced by one),
that a file is missing or a sequence of lines, and that rank 0, the root, is there; of
other ranks there may be any number.

*Server.* Each object in one place is not inductive without what its place means: a
registered object waits for a call, an object of an event is due or done, and the `pc` of
a thread says what its object is. `Sound` is that relation, with one object per call, and
holds only while the process has not aborted, after which nothing moves. Absence of
deleted-object accesses, of double deletes and of leaks (`OnePlace`), the assertion
on `status_` (`StatusAssertion`) and the work pool are its consequences. The only
assumption is that `None` is neither an object nor a call.

*Offloading.* `ImplementsServer` carries the server's theorems over. `CountingOK` is
inductive relative to `Sound`: types, that what a thread has loaded is at most all that
was added, and how the stage of a handler determines the state of its sending thread
(`SplitOK`). `QuietIsZero` follows from the order in which a handler clears the counter
and leaves. `AloneIsCounted` needs `AloneSound`: for a request that runs alone, the value of
the counter at each stage of its two threads, given what each has still to add, and
that earlier replies of requests that ran alone are final.

*Polygon arrays.* The state is little: a request is the array of its polygons, and what the
DPU and the host keep of it is what they compute (`WireInv`). The argument is about the
arrays. `Laid` says what the array of given polygons is, by the index at which each ends,
and implies `IsArrayOf` (`LaidIsArray`), from which `ReadIsKept` follows; it is kept by the client's encoding (`LaidAppended`) and holds of every prefix that ends
with a polygon (`LaidPrefix`). The walk over the headers and the two decoders are recursive
functions, of which has to be shown that they exist (`DecoderExists`, built from the last index
downwards) and what they return on such an array (`WalkValue`, `DecoderValue`), by
induction over the polygons; `DpuValue` and `HostValue` differ in the two loops' arithmetic.
The assumptions are those of `PolygonWire`: polygons have a point, requests a polygon.

*Split file.* That the directory holds the parts when a rank reads them needs both ends:
nobody is past the barrier while the root has not split, and the root, which waits
for the contribution of every rank, cannot have removed them while a rank that has
contributed nothing has still to read (`PlaceOf`, `PartsThere`). That there are no more
parts than ranks is arithmetic: a part has a line more than a fair share, rounded down
(`NoMorePartsThanRanks`). It is assumed that there is more than one rank.

*Report of the static schemes.* What the root reports is a sum over the ranks, computed by
a recursive function, and has to be shown equal to the number of lines or partitions. The
library's induction theorems cannot be used, but an induction by least counterexample can:
the subsets of a finite set are well founded, so every set of numbers has a least one
(`LeastNumber`); two functions that total the same numbers would first differ somewhere,
and do not (`TotalsUnique`); and the sizes of the parts of a partition total the size of the
whole (`PartitionTotal`). `ReportInv` says what each rank has contributed to each of its
reductions (`RankInv`) and that a report is made of contributions that are there (`Told`);
that the spread is at most one is arithmetic of quotients (`MaxMin`).

*DMA.* What a program holds is determined by its place in its list of calls, and what it has
still to release by the call that failed (`HoldsInv`); that the lists fit together, position
by position, are facts about constants (`ListHolds`, `UndoCovers`). From them follow the
order of releases and that nothing is leaked. The rest of `CopyInv` relates the two sides
(`Connected`, `Acknowledged`, `JobsInv`, `Torn`): what is acknowledged comes after the
receiver is through with the job, which may have failed; and a job has read memory that was
no longer mapped only if the wait of its sender has failed, or the receiver's retrieving.
It holds for any set of senders.

*Query servers.* `FreshAnswer` follows a text from the global that a handler or its sending
thread writes, through the reply of a handler, perhaps another one, to the client. Requests
that are processed at the same time have overlapped (`Together`); a text in the global is
of a request that is processed still and has not come past its `resetText` (`Cleared`), or,
in exp5_dpu, which resets nothing, is fresh for every request whose callback has been
called (`Told`), as each callback writes over what was there; so what is replied is
fresh (`Said`), and the client whose answer it is has no other request anywhere (`Placed`).
The steps of a handler that leave the text alone share a lemma (`PlainStep`).

`AloneIsRight` is about the six programs at once. A handler whose request overlaps no
other is the only one that is busy (`OnlyBusy`), so all there is to say of the others is how
they leave the globals: a count that is not zero, or a text, belongs to a handler that has
yet to reset it (`Zeroed`, `Cleared`), and so the request finds both empty (`TakeRight`).
From then on `Works` keeps the account of its program: what has been counted, and what is
found among the candidates still to be visited, are together the count of its part, and
the host's string is the count of the other part (`Counting`); the last candidate still to
be visited is the last of the request (`Asking`); what is in the queue and still to be found
is what the request asks for (`Pushing`). `Halfway` says where a handler may be between the two
steps of an access. That the parts add up is `Parts`, which rests on what `FlattenSeq` and the
count of found candidates make of a concatenation (`FlattenConcat`, `NumFoundConcat`): like
the sums of the static schemes, by an induction that is derived from the well-foundedness of
finite sets (`Induction`, `SeqInduction`); there is only one function that satisfies the recursion
of `FlattenSeq` (`FlatUnique`). For `WholeFile`, `FileInv` relates what a client has sent and
collected to its file, by the quotient and the remainder of its line by the size of a batch.
It is assumed that the programs that run are among the six, that `None` is neither a
thread, nor a request, nor a text, that there is a positive number of polygons to a batch, and
that files are of polygons and each polygon has a sequence of candidates.

*Job queue.* That the server's handlers never meet is not inductive without the
sender: of the jobs whose calls have not failed only the last one sent may be under way,
and then the sender waits for it (`OneUnderWay`); so as long as no call has failed, or if
each thread has a handle of its own, a job at work has the handle it uses (`HandleKept`). For
`AloneIsExact` the place of the thread in the queue (`Place`) determines what it has
done: the jobs up to the head, but for the one it has taken and not yet run, added or
sent (`Behind`, `Runs`, `Sends`). For `SkippedIsDoubled` any number of threads take from the
queue at once: unless something was undefined, at most one thread is between the two
halves of `pop` and it has the head in hand (`Queue`), so that the jobs dealt with and
those in hand are together as many as the head has advanced (`TakenInv`), whichever
jobs they are. The sum over the jobs is the size of a set of pairs (`SumCounts`), again by a
least counterexample. It is assumed that there is a job and that the threads are finitely
many; where GEOS keeps its handle does not matter.

*R-tree.* What a tree can hold follows from where its inserting thread is (`FillInv`), and
what a query finds in it from whether that is over; what is undefined needs a handler
whose query builds the tree (`Unlocked`); that a tree is frozen early is a fact
about the two threads that fill and query each other's trees (`FrozenInv`). The
count of the blocking program is one loop over one file inside another over the second:
`CountInv` gives the count and the times pushed at every call, by quotient and remainder of
what has been counted. It is assumed that a geometry has a first and a last point.

*Streams.* Two layers. The first says, for each job, that every operation the counter of
the job counts is under way at the runtime, or in the queue of tags, or being
processed, each kind at most once (`OneEach`, `LiveOps`); that the job is there as long as
one is (`OpsCounted`) and that no two of the same kind overlap (`OneOperation`) follow. The second
says what a job has answered, queued and still to read, given the place the first layer
gives it (`Answers`), and that the state kept by address is a route's own from its first
point on. Each layer has one lemma per kind of rpc and event.

Model-checked only: all liveness (`Terminates`, `SentIsAnswered`, `BothReturn`,
`OthersAnswered`, `ReportsIfSuitable`, `JobsReleased`, and the fairness part of the
work pool), which is out of the prover's reach; the safety part of `ReportsIfSuitable` is a
theorem, and so is every invariant of the runs.

## 6. What the checks found

A run of its own:

* `lb_average`: the repetition index is passed for the number of repetitions, so the
  times of the load-balancing benchmark are no averages (and infinite from the first
  repetition).

In the models, and named in the properties that hold in spite of them:

* Partition 0 belongs to no worker and the master serves from the number of ranks on, so
  the load-balancing benchmark leaves it out, unlike its counterparts (`Accounted`,
  whose `SkippedAccount` says that exactly the partitions left out are never called).
* For the same reason as `lb_average`, the load-balancing benchmark runs no test in its
  first repetition, and with the default duplication of 1 none at all (`TestsRun`).
* A client that cancels or dies before its answer is carried makes `GPR_ASSERT(ok)`
  abort the server with every other call in progress, and so does an exception of a call's
  work (`SentIsAnswered` lets it, and nothing else, keep calls from their answers).
* Concurrent clients get wrong counts from the servers of exp2 to exp4, although `Run`
  starts eight handlers: `AloneIsCounted` and `AloneIsRight` hold for requests
  processed alone, and no more can be said.
* The receiver acknowledges a DMA that failed, or whose event it could not retrieve, and
  the sender reports success: its success alone does not mean that anything was copied
  (`CopySound` says that the receiver is through with the job, and that a success of both
  sides means a copy).
* The sender may stop waiting, and unmap its memory, while the receiver's engine reads it;
  the receiver then reports success for what it has read (`CopySound`).
* A sender that has left is still accepted, and its description read (`BothReturn`).
* A failed call to the exp6 server leaves its job running next to later ones, and the
  GEOS handle that each of them finishes may be the same one (`HostServesOneAtATime`).
* The handlers of the exp2 DPU rely on the library to lock the building of the tree
  they share (`QueriesAgree`).
* The callback of the lb_mt programs calls `GEOSIntersects` without the handle they
  never made: it evaluates nothing (`EveryPair`).
* exp1 inserts the envelopes of geometries and gives those to its callback, so its count
  is one of envelopes (`BlockingIsExact`); of its two trees one ends with at most one
  geometry where a query freezes an empty tree (`FrozenEarly`).
* The suites that read their files in the tests open 22 files in each pass and close
  none (`ReportsIfSuitable`).
* The summary of a route may count points of a client that went away (`SummaryIsOwn`).
* The client of lb_mt_tfr reads the first element of `geomreply`, which the server
  never sets (`Receive`).

## 7. Not modelled, and why

* GEOS geometry: which polygons intersect. A candidate is found or not; in `RTreeJoin`
  geometries are sets of points on a line.
* Times, except as counts of units, and all printing.
* The GEOS context the handlers of the exp2 DPU share: what two threads that parse
  polygons and query with one context do to each other (in `RTreeJoin` they meet on the
  tree only).
* Suites with no repetitions: `GeosSuite` assumes at least one, as `main` asks for. The
  calls of the load balancing in its first repetition, with none, are in `LoadBalance`, where
  they test nothing.
* The single-process case of the MPI programs: with one rank and more than one
  partition the load-balancing master waits for a request nobody can send, and the
  file program reads a part that was never made, or that an aborted run has left.
* The test suites that were left in the clients of exp5 and lb_mt_tfr, which nothing
  calls, and the server of exp1, of which no handler is ever started.
* DOCA channel and DMA: `host_cc_client_exporter.c` does not compile (a line of it is
  not C++ or C), `host_dma_responder.c` sends on a socket it does not declare, and
  `bf_dma_initiator.c` reads from a file it has not opened, so the pairs have no behaviour
  to model; the one program that is whole, `bluefield_cc_server_dma.c`, is a list of calls
  like those of `RemoteCopy` that exits at the first failure.
* DOCA feature probes: sequential calls that print what the library returns.
* The spatial operator, a sketch whose client does not compile.
* Servers left out of the build and tutorial servers: copies of the skeleton
  `AsyncServer` models.
* Scripts and data: sequential scripts without state of their own.

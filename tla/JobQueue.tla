------------------------------ MODULE JobQueue ------------------------------
(***************************************************************************)
(* The job-queue programs of derda_grpc/experiments.  A client puts jobs,  *)
(* names of files, in a std::queue and starts threads that take from it    *)
(* until it is empty: doWork runs each job itself, sendWork (exp6_client   *)
(* only) sends it to a server that runs it.                                *)
(*                                                                         *)
(* There is no lock.  The queue is modelled as the deque it is: the jobs   *)
(* from head to tail, whose strings pop destroys before it advances head.  *)
(* A job that is read or destroyed twice, or read past the tail, is        *)
(* undefined behaviour, after which nothing is said.                       *)
(*                                                                         *)
(* The programs named exp6 use the GEOS functions without a context, so    *)
(* every job initialises and finishes one global handle, which the library *)
(* keeps per process or per thread.  The programs named lb_mt make a       *)
(* context once.                                                           *)
(*                                                                         *)
(* Abstractions: a string is copied in one step; what a job computes is    *)
(* GeosSuite's; the events of the server are AsyncServer's.                *)
(***************************************************************************)
EXTENDS Naturals, Sequences, FiniteSets, Functions

CONSTANTS Workers,   \* the threads of doWork (8 in the code)
          Sender,    \* the thread of sendWork
          Jobs       \* how many jobs (128)

ASSUME JobsAssumption == Jobs \in Nat \ {0} /\ IsFiniteSet(Workers) /\ Sender \notin Workers

VARIABLES
  program,     \* the client, the server, and where GEOS keeps the handle
  active,      \* the threads the client starts
  head,        \* of the queue
  alive,       \* the jobs whose strings are not destroyed
  at,          \* the next operation of each thread
  work, from,  \* the job it copied, and the head it loaded
  handles,     \* the owners whose GEOS handle is initialised
  runs,        \* how often the client has run each job
  added, total_intersect_time,  \* what a thread loaded of the total, and the total
  sent,        \* the jobs sent, in order of sending
  serving,     \* what the server is doing: a stage for each job sent
  failed,      \* the calls that returned "RPC failed"
  undefined    \* what had undefined behaviour: "client" or "server"

clientVars == <<at, work, from, runs, added, total_intersect_time>>
queueVars == <<head, alive>>
serverVars == <<sent, serving, failed>>
vars == <<program, active, clientVars, queueVars, serverVars, handles, undefined>>
-----------------------------------------------------------------------------
\* The programs -------------------------------------------------------------

\* Mutant of exp6_client: the handle is finished before it is used.
exp6_client_FinishFirst == [sends |-> TRUE, start_test |-> <<"init", "finish", "work", "load", "store">>]

\* Whether the client has a sendWork thread, and the stages of start_test.
exp6_client == [sends |-> TRUE, start_test |-> <<"init", "work", "load", "store", "finish">>]
lb_mt_client == [sends |-> FALSE, start_test |-> <<"work", "load", "store">>]
exp6_server == [start_test |-> <<"init", "work", "finish">>]
lb_mt_server == [start_test |-> <<"work">>]

Clients == [exp6_client |-> exp6_client, lb_mt_client |-> lb_mt_client]
Servers == [exp6_server |-> exp6_server, lb_mt_server |-> lb_mt_server]
Client == Clients[program.client]
Server == Servers[program.server]

Threads == Workers \cup {Sender}

\* Whose handle a thread of the client, or the handler of the n-th job, uses.
OwnerOf(process, u) == <<process, IF program.perThread THEN u ELSE "all">>
Owner(w) == OwnerOf("client", w)
Handler(n) == OwnerOf("server", n)
Usable(owner, stages) == stages[1] = "init" => owner \in handles
-----------------------------------------------------------------------------
Init ==
  /\ program \in [client : DOMAIN Clients, server : DOMAIN Servers, perThread : BOOLEAN]
  /\ Client.sends \/ program.server = "lb_mt_server"
  /\ active \in SUBSET (Workers \cup IF Client.sends THEN {Sender} ELSE {})
  /\ head = 1 /\ alive = 1 .. Jobs
  /\ at = [w \in Threads |-> IF w \in active THEN "empty" ELSE "ended"]
  /\ work = [w \in Threads |-> 0] /\ from = [w \in Threads |-> 0]
  /\ handles = {} /\ runs = [j \in 1 .. Jobs |-> 0]
  /\ added = [w \in Threads |-> 0] /\ total_intersect_time = 0
  /\ sent = <<>> /\ serving = <<>> /\ failed = {}
  /\ undefined = {}

\* The queue ----------------------------------------------------------------

Goes(w, op) == at' = [at EXCEPT ![w] = op]

\* while (!jobQueue.empty())
Empty(w) ==
  /\ at[w] = "empty"
  /\ Goes(w, IF head > Jobs THEN "ended" ELSE "front")
  /\ UNCHANGED <<program, active, work, from, runs, added, total_intersect_time, queueVars,
                 serverVars, handles, undefined>>

\* work = jobQueue.front(): a copy of the string at the head, if it is there.
\* (sendWork prints it first.)
Front(w) ==
  /\ at[w] = "front" /\ head \in alive
  /\ work' = [work EXCEPT ![w] = head]
  /\ Goes(w, "pop")
  /\ UNCHANGED <<program, active, from, runs, added, total_intersect_time, queueVars, serverVars,
                 handles, undefined>>

\* Mutant of Pop: the string is not destroyed.
PopAdvancesOnly(w) ==
  /\ at[w] = "pop" /\ head \in alive
  /\ from' = [from EXCEPT ![w] = head]
  /\ Goes(w, "advance")
  /\ UNCHANGED <<program, active, work, runs, added, total_intersect_time, queueVars, serverVars,
                 handles, undefined>>

\* jobQueue.pop() destroys the string at the head ...
Pop(w) ==
  /\ at[w] = "pop" /\ head \in alive
  /\ from' = [from EXCEPT ![w] = head]
  /\ alive' = alive \ {head}
  /\ Goes(w, "advance")
  /\ UNCHANGED <<program, active, work, runs, added, total_intersect_time, head, serverVars,
                 handles, undefined>>

\* ... and advances it.
Advance(w) ==
  /\ at[w] = "advance"
  /\ head' = from[w] + 1
  /\ Goes(w, IF w = Sender THEN "send" ELSE Client.start_test[1])
  /\ UNCHANGED <<program, active, work, from, runs, added, total_intersect_time, alive, serverVars,
                 handles, undefined>>

\* The string at the head is gone, or was never there.
Misread(w) ==
  /\ at[w] \in {"front", "pop"} /\ head \notin alive
  /\ undefined' = undefined \cup {"client"}
  /\ UNCHANGED <<program, active, clientVars, queueVars, serverVars, handles>>

\* doWork -------------------------------------------------------------------

Stages == Client.start_test

Following(stages, op, end) ==
  LET k == CHOOSE k \in DOMAIN stages : stages[k] = op
  IN  IF k + 1 \in DOMAIN stages THEN stages[k + 1] ELSE end
GoesOn(w) == Goes(w, Following(Stages, at[w], "empty"))

\* initGEOS makes the handle unless there is one; finishGEOS destroys it.
initGEOS(w) ==
  /\ at[w] = "init" /\ GoesOn(w)
  /\ handles' = handles \cup {Owner(w)}
  /\ UNCHANGED <<program, active, work, from, runs, added, total_intersect_time, queueVars,
                 serverVars, undefined>>

finishGEOS(w) ==
  /\ at[w] = "finish" /\ GoesOn(w)
  /\ handles' = handles \ {Owner(w)}
  /\ UNCHANGED <<program, active, work, from, runs, added, total_intersect_time, queueVars,
                 serverVars, undefined>>

\* The files are read and joined: with a handle that another thread has
\* finished this is undefined.
start_test(w) ==
  /\ at[w] = "work" /\ GoesOn(w)
  /\ runs' = [runs EXCEPT ![work[w]] = @ + 1]
  /\ undefined' = IF Usable(Owner(w), Stages) THEN undefined ELSE undefined \cup {"client"}
  /\ UNCHANGED <<program, active, work, from, added, total_intersect_time, queueVars, serverVars,
                 handles>>

\* total_intersect_time += intersect_time, each run taking one.
AddTime(w) ==
  /\ \/ /\ at[w] = "load" /\ added' = [added EXCEPT ![w] = total_intersect_time]
        /\ UNCHANGED total_intersect_time
     \/ /\ at[w] = "store" /\ total_intersect_time' = added[w] + 1
        /\ UNCHANGED added
  /\ GoesOn(w)
  /\ UNCHANGED <<program, active, work, from, runs, queueVars, serverVars, handles, undefined>>

\* sendWork -----------------------------------------------------------------

\* SayHello: the call is made, and the thread waits.
SayHello ==
  /\ at[Sender] = "send" /\ Goes(Sender, "waiting")
  /\ sent' = Append(sent, work[Sender]) /\ serving' = Append(serving, "called")
  /\ UNCHANGED <<program, active, work, from, runs, added, total_intersect_time, queueVars, failed,
                 handles, undefined>>

\* Mutant of Reply: the thread does not wait for the reply.
ReplyAtOnce ==
  /\ at[Sender] = "waiting" /\ Goes(Sender, "empty")
  /\ UNCHANGED <<failed, program, active, work, from, runs, added, total_intersect_time, queueVars,
                 sent, serving, handles, undefined>>

\* The call returns: the job is done or, at any time before, the call has
\* failed.  What SayHello returns is printed and nothing else.
Reply ==
  /\ at[Sender] = "waiting" /\ Goes(Sender, "empty")
  /\ failed' \in {failed \cup {Len(sent)}} \cup (IF serving[Len(sent)] = "done" THEN {failed} ELSE {})
  /\ UNCHANGED <<program, active, work, from, runs, added, total_intersect_time, queueVars, sent,
                 serving, handles, undefined>>

\* The server ---------------------------------------------------------------

\* A handler goes through start_test for the n-th job sent; the handle it uses
\* may be that of another handler.  A call that has failed may not arrive.
Proceed(n) ==
  LET stages == Server.start_test
  IN  /\ serving[n] # "done"
      /\ serving' = [serving EXCEPT ![n] = IF @ = "called" THEN stages[1] ELSE Following(stages, @, "done")]
      /\ handles' = CASE serving[n] = "init" -> handles \cup {Handler(n)}
                      [] serving[n] = "finish" -> handles \ {Handler(n)}
                      [] OTHER -> handles
      /\ undefined' = IF serving[n] = "work" /\ ~Usable(Handler(n), stages)
                        THEN undefined \cup {"server"} ELSE undefined
      /\ UNCHANGED <<program, active, clientVars, queueVars, sent, failed>>

Work(w) ==
  \/ Empty(w) \/ Front(w) \/ Pop(w) \/ Advance(w) \/ Misread(w)
  \/ initGEOS(w) \/ finishGEOS(w) \/ start_test(w) \/ AddTime(w)
Serve == \E n \in DOMAIN serving : Proceed(n)

Next ==
  /\ undefined = {}
  /\ (\E w \in Threads : Work(w)) \/ SayHello \/ Reply \/ Serve

Spec == Init /\ [][Next]_vars
-----------------------------------------------------------------------------
\* Properties ---------------------------------------------------------------

Ended == \A w \in Threads : at[w] = "ended"
SentTimes(j) == Cardinality({n \in DOMAIN sent : sent[n] = j})
Times(j) == runs[j] + SentTimes(j)

\* Unless behaviour is undefined the jobs taken are as many as those put in the
\* queue: a job that no thread took is made up for by one that was taken twice.
\* The number of runs, which is all the output shows, says nothing about it.
SkippedIsDoubled ==
  Ended /\ active # {} /\ undefined = {} =>
    SumFunction([j \in 1 .. Jobs |-> Times(j)]) = Jobs

\* A thread that has the queue to itself takes every job once, in order, and its
\* times add up; nothing is undefined, wherever GEOS keeps its handle.
AloneIsExact ==
  Cardinality(active) = 1 =>
    /\ "client" \notin undefined
    /\ \A j \in 1 .. Jobs : Times(j) <= 1 /\ (Times(j) = 1 => j < head)
    /\ Ended => /\ \A j \in 1 .. Jobs : Times(j) = 1
                /\ Sender \notin active => total_intersect_time = Jobs

\* sendWork waits for its call, so the only jobs under way at the server are the
\* last one sent and those whose calls have failed: one that a failed call leaves
\* behind is what it takes for a handler to use a handle that another handler has
\* finished, and only if GEOS keeps one for the process.
HostServesOneAtATime ==
  /\ \A n \in DOMAIN serving : serving[n] # "done" => n = Len(sent) \/ n \in failed
  /\ "server" \in undefined => failed # {} /\ ~program.perThread

=============================================================================

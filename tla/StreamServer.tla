---------------------------- MODULE StreamServer ----------------------------
(***************************************************************************)
(* The server of "gRPC server-client example": four rpcs, one of each kind *)
(* of streaming, served by jobs that the runtime, the thread of HandleRpcs *)
(* and the thread of processRpcs pass to each other.                       *)
(*                                                                         *)
(* HandleRpcs takes each event of the runtime, a tag, and puts it in       *)
(* gIncomingTags; processRpcs takes it from there and calls it.  Jobs are  *)
(* touched, and deleted, by processRpcs alone; but the runtime may report  *)
(* that an rpc is done before it reports the operations the job still has: *)
(* mAsyncOpCounter must tell when nothing is left.                         *)
(*                                                                         *)
(* A job is its address, of which a later job may be given the same: the   *)
(* maps of ServerImpl have it for a key.                                   *)
(*                                                                         *)
(* Abstractions: a message is a number; a client's message is sent when    *)
(* the server reads it, a response received when it is written; the maps   *)
(* of responders and the counters of rpcs hold the jobs that live;         *)
(* mAsyncReadInProgress, which nothing reads, is left out; processRpcs     *)
(* moves the list out under the mutex, here it takes its head.             *)
(***************************************************************************)
EXTENDS Naturals, Sequences, FiniteSets, SequencesExt

CONSTANTS Mixes,     \* the calls that are made: sequences of rpcs (40 in clientmain)
          Messages,  \* at most how many messages a call of each rpc has
          AtOnce,    \* how many clients there may be at once, for each mix
          Backlog,   \* at most how many tags wait in gIncomingTags
          Addresses, \* how many jobs of each rpc there may be at once
  MayGive(_) \* which of free addresses the allocator may give a new job

Rpcs == {"GetFeature", "ListFeatures", "RecordRoute", "RouteChat"}

ASSUME StreamAssumption ==
  /\ Mixes \subseteq Seq(Rpcs) /\ Messages \in [Rpcs -> Nat] /\ AtOnce \in [Mixes -> Nat] /\ Backlog \in Nat
  /\ Addresses \in [Rpcs -> Nat]
  /\ \A mix \in Mixes, r \in Rpcs : Addresses[r] > Cardinality({c \in DOMAIN mix : mix[c] = r})

Jobs == UNION {{r} \X (1 .. Addresses[r]) : r \in Rpcs}
Rpc(j) == j[1]

ASSUME AllocatorAssumption ==
  \A free \in SUBSET Jobs : MayGive(free) \subseteq free /\ (free # {} => MayGive(free) # {})

VARIABLES
  rpc,             \* what the calls, in the order they are made, are calls of
  call,            \* "unmade", "open", "closed" with status OK, "gone": cancelled
  sent, got,       \* how many messages the client sent, and what it received
  jobs,            \* the job at each address, or NoJob
  pending,         \* the operations of each job that the runtime has
  gIncomingTags,   \* the events taken from the runtime and not processed
  mRecordRouteMap  \* the points recorded for each address

Calls == DOMAIN rpc

clientVars == <<call, sent, got>>
vars == <<rpc, clientVars, jobs, pending, gIncomingTags, mRecordRouteMap>>
-----------------------------------------------------------------------------
\* Jobs ---------------------------------------------------------------------

NoJob == <<>>
NoCall == 0

\* A job that has queued its request.  "starts" are the operations it starts
\* while a tag is processed and "out" what its responder is given meanwhile.
RpcJob ==
  [call |-> NoCall, mAsyncOpCounter |-> 1, mAsyncWriteInProgress |-> FALSE, mOnDoneCalled |-> FALSE,
   mResponseQueue |-> <<>>, mServerStreamingDone |-> FALSE, mClientStreamingDone |-> FALSE,
   starts |-> {}, out |-> <<>>]

AsyncOpStarted(job, op) ==
  [job EXCEPT !.mAsyncOpCounter = @ + 1, !.mAsyncWriteInProgress = @ \/ op = "write",
              !.starts = @ \cup {op}]

AsyncOpFinished(job, op) ==
  [job EXCEPT !.mAsyncOpCounter = @ - 1, !.mAsyncWriteInProgress = @ /\ op # "write"]

\* Mutant of IsDone: the job waits for more.
IsDoneNever(job) == FALSE

\* Done is called: the job is erased from its map and deleted.
IsDone(job) == job.mAsyncOpCounter = 0 /\ job.mOnDoneCalled

\* Finish sends the status, and with it the response of rpcs that have but one.
doFinish(job, response) ==
  [AsyncOpStarted(job, "finish") EXCEPT !.out = Append(@, <<"finish", response>>)]

doSendResponse(job) ==
  [AsyncOpStarted(job, "write") EXCEPT !.out = Append(@, <<"write", Head(job.mResponseQueue)>>)]

\* Mutant of SendResponse: the response is written at once.
SendResponseAtOnce(job, response) ==
  doSendResponse([job EXCEPT !.mResponseQueue = Append(@, response)])

\* Responses are queued in turn, and the first is written if no other is.
SendResponses(job, responses) ==
  LET queued == [job EXCEPT !.mResponseQueue = @ \o responses]
  IN  IF job.mAsyncWriteInProgress \/ responses = <<>> THEN queued ELSE doSendResponse(queued)

SendResponse(job, response) == SendResponses(job, <<response>>)

\* SendResponse(nullptr): the stream ends with what is queued.
EndResponses(job) ==
  LET ended == [job EXCEPT !.mServerStreamingDone = TRUE]
  IN  IF job.mAsyncWriteInProgress THEN ended ELSE doFinish(ended, 0)

\* Mutant of OnWrite: the rpc is finished before the queue is empty.
OnWriteFinishFirst(job, ok) ==
  LET popped == [job EXCEPT !.mResponseQueue = Tail(@)]
  IN  IF ~ok THEN popped
      ELSE IF popped.mServerStreamingDone THEN doFinish(popped, 0)
      ELSE IF popped.mResponseQueue # <<>> THEN doSendResponse(popped)
      ELSE popped

OnWrite(job, ok) ==
  LET popped == [job EXCEPT !.mResponseQueue = Tail(@)]
  IN  IF ~ok THEN popped
      ELSE IF popped.mResponseQueue # <<>> THEN doSendResponse(popped)
      ELSE IF popped.mServerStreamingDone THEN doFinish(popped, 0)
      ELSE popped

\* The application ----------------------------------------------------------

GetFeatureProcessor(job) == doFinish(job, 1)

\* The features in the rectangle that was asked for, n of them.
ListFeaturesProcessor(job, n) ==
  EndResponses(SendResponses(job, [i \in 1 .. n |-> i]))

\* The points recorded so far are summed up when there are no more.
RecordRouteProcessor(job, ok, points) ==
  IF ok THEN job ELSE doFinish(job, points)

\* A note is echoed: this is the n-th.
RouteChatProcessor(job, ok, n) ==
  IF ok THEN SendResponse(job, n) ELSE EndResponses(job)

\* The classes of jobs: what a tag does to a job that is not done, n being the
\* number of messages, or of points, that belong to the call ----------------

UnaryRpcJob(job, tag) ==
  IF tag.op = "request" THEN GetFeatureProcessor(job) ELSE job

ServerStreamingRpcJob(job, tag, n) ==
  CASE tag.op = "request" -> ListFeaturesProcessor(job, n)
    [] tag.op = "write" -> OnWrite(job, tag.ok)
    [] OTHER -> job

\* The next read is queued when the message is processed; there is none after
\* the last.
ClientStreamingRpcJob(job, tag, points) ==
  CASE tag.op = "request" \/ (tag.op = "read" /\ tag.ok) -> AsyncOpStarted(job, "read")
    [] tag.op = "read" /\ ~tag.ok ->
         RecordRouteProcessor([job EXCEPT !.mClientStreamingDone = TRUE], FALSE, points)
    [] OTHER -> job

BidirectionalStreamingRpcJob(job, tag) ==
  CASE tag.op = "request" -> AsyncOpStarted(job, "read")
    [] tag.op = "read" /\ tag.ok ->
         AsyncOpStarted(RouteChatProcessor(job, TRUE, tag.message), "read")
    [] tag.op = "read" /\ ~tag.ok ->
         RouteChatProcessor([job EXCEPT !.mClientStreamingDone = TRUE], FALSE, 0)
    [] tag.op = "write" -> OnWrite(job, tag.ok)
    [] OTHER -> job

Handled(j, job, tag) ==
  CASE Rpc(j) = "GetFeature" -> UnaryRpcJob(job, tag)
    [] Rpc(j) = "ListFeatures" -> ServerStreamingRpcJob(job, tag, tag.message)
    [] Rpc(j) = "RecordRoute" -> ClientStreamingRpcJob(job, tag, mRecordRouteMap[j])
    [] Rpc(j) = "RouteChat" -> BidirectionalStreamingRpcJob(job, tag)
-----------------------------------------------------------------------------
\* HandleRpcs creates a job of each kind.
Init ==
  /\ rpc \in Mixes
  /\ call = [c \in Calls |-> "unmade"]
  /\ sent = [c \in Calls |-> 0] /\ got = [c \in Calls |-> <<>>]
  /\ jobs = [j \in Jobs |-> IF j[2] = 1 THEN RpcJob ELSE NoJob]
  /\ pending = [j \in Jobs |-> IF j[2] = 1 THEN {"request"} ELSE {}]
  /\ gIncomingTags = <<>>
  /\ mRecordRouteMap = [j \in Jobs |-> 0]

\* Clients ------------------------------------------------------------------

Call(c) ==
  /\ call[c] = "unmade" /\ \A d \in Calls : d < c => call[d] # "unmade"
  /\ Cardinality({d \in Calls : call[d] = "open"}) < AtOnce[rpc]
  /\ call' = [call EXCEPT ![c] = "open"]
  /\ UNCHANGED <<rpc, sent, got, jobs, pending, gIncomingTags, mRecordRouteMap>>

\* The client's process exits.
GoAway(c) ==
  /\ call[c] = "open"
  /\ call' = [call EXCEPT ![c] = "gone"]
  /\ UNCHANGED <<rpc, sent, got, jobs, pending, gIncomingTags, mRecordRouteMap>>

\* HandleRpcs: the runtime reports the end of an operation ------------------

Report(j, op, ok, message) ==
  /\ Len(gIncomingTags) < Backlog
  /\ gIncomingTags' = Append(gIncomingTags, [job |-> j, op |-> op, ok |-> ok, message |-> message])
  /\ pending' = [pending EXCEPT ![j] = (@ \ {op}) \cup IF op = "request" THEN {"done"} ELSE {}]

Served(c) == \E j \in Jobs : jobs[j] # NoJob /\ jobs[j].call = c

\* A call meets a queued request.  A rectangle has any number of features.
Accept(j, c) ==
  /\ "request" \in pending[j]
  /\ call[c] = "open" /\ rpc[c] = Rpc(j) /\ ~Served(c)
  /\ jobs' = [jobs EXCEPT ![j].call = c]
  /\ \E n \in IF rpc[c] = "ListFeatures" THEN 0 .. Messages[rpc[c]] ELSE {0} :
       sent' = [sent EXCEPT ![c] = n] /\ Report(j, "request", TRUE, n)
  /\ UNCHANGED <<rpc, call, got, mRecordRouteMap>>

\* A message has come: a client that went away may have sent it before.
ReadMessage(j) ==
  LET c == jobs[j].call
  IN  /\ "read" \in pending[j] /\ sent[c] < Messages[Rpc(j)]
      /\ sent' = [sent EXCEPT ![c] = @ + 1]
      /\ Report(j, "read", TRUE, sent[c] + 1)
      /\ UNCHANGED <<rpc, call, got, jobs, mRecordRouteMap>>

\* The client has no more messages, or went away.
ReadEnds(j) ==
  /\ "read" \in pending[j] /\ Report(j, "read", FALSE, 0)
  /\ UNCHANGED <<rpc, clientVars, jobs, mRecordRouteMap>>

\* A write or the finish is over: it fails only if the client has gone.
Written(j, op) ==
  /\ op \in pending[j]
  /\ \E ok \in {TRUE} \cup {call[jobs[j].call] # "gone"} : Report(j, op, ok, 0)
  /\ UNCHANGED <<rpc, clientVars, jobs, mRecordRouteMap>>

\* The rpc is done; operations the job has started may be reported later.
RpcDone(j) ==
  /\ "done" \in pending[j] /\ call[jobs[j].call] \in {"closed", "gone"}
  /\ Report(j, "done", TRUE, 0)
  /\ UNCHANGED <<rpc, clientVars, jobs, mRecordRouteMap>>

HandleRpcs ==
  \E j \in Jobs :
    \/ \E c \in Calls : Accept(j, c)
    \/ ReadMessage(j) \/ ReadEnds(j) \/ RpcDone(j)
    \/ \E op \in {"write", "finish"} : Written(j, op)

\* processRpcs --------------------------------------------------------------

\* The operations a job has started go to the runtime.
Started(j, job) == [pending EXCEPT ![j] = @ \cup job.starts]
Settled(job) == [job EXCEPT !.starts = {}, !.out = <<>>]

\* What it has given its responder reaches a client that is there.
Deliver(job) ==
  LET c == job.call
  IN  IF call[c] = "open"
        THEN /\ got' = [got EXCEPT ![c] = @ \o job.out]
             /\ call' = IF "finish" \in job.starts THEN [call EXCEPT ![c] = "closed"] ELSE call
        ELSE UNCHANGED <<got, call>>

\* The free addresses for a job, among them those of deleted jobs: a new one there
\* meets what is left of them.
FreeAddresses(r) == {j \in Jobs : Rpc(j) = r /\ jobs[j] = NoJob}

\* A request has come: another job is created for the next.
OnRequest ==
  /\ gIncomingTags # <<>> /\ Head(gIncomingTags).op = "request"
  /\ LET tag == Head(gIncomingTags)
         j == tag.job
         job == Handled(j, AsyncOpFinished(jobs[j], "request"), tag)
     IN  /\ \E new \in MayGive(FreeAddresses(Rpc(j))) :
              /\ jobs' = [jobs EXCEPT ![j] = Settled(job), ![new] = RpcJob]
              /\ pending' = [Started(j, job) EXCEPT ![new] = {"request"}]
         /\ Deliver(job)
  /\ gIncomingTags' = Tail(gIncomingTags)
  /\ UNCHANGED <<rpc, sent, mRecordRouteMap>>

\* A job that is done is deleted.  Its points stay in mRecordRouteMap.
Delete(j) ==
  /\ jobs' = [jobs EXCEPT ![j] = NoJob]
  /\ UNCHANGED <<got, call, pending, mRecordRouteMap>>

\* Mutant of Recorded: the points are not forgotten.
RecordedForever(tag, points) == IF tag.op = "read" /\ tag.ok THEN points + 1 ELSE points

\* The points of an address: forgotten with the summary.
Recorded(tag, points) ==
  CASE tag.op = "read" /\ tag.ok -> points + 1
    [] tag.op = "read" /\ ~tag.ok -> 0
    [] OTHER -> points

OnOperation ==
  /\ gIncomingTags # <<>> /\ Head(gIncomingTags).op \in {"read", "write", "finish"}
  /\ LET tag == Head(gIncomingTags)
         j == tag.job
         finished == AsyncOpFinished(jobs[j], tag.op)
         job == Handled(j, finished, tag)
     IN  IF IsDone(finished) THEN Delete(j)
         ELSE /\ jobs' = [jobs EXCEPT ![j] = Settled(job)]
              /\ pending' = Started(j, job)
              /\ Deliver(job)
              /\ mRecordRouteMap' = [mRecordRouteMap EXCEPT ![j] =
                                       IF Rpc(j) = "RecordRoute" THEN Recorded(tag, @) ELSE @]
  /\ gIncomingTags' = Tail(gIncomingTags)
  /\ UNCHANGED <<rpc, sent>>

\* Mutant of OnDone: the job is deleted whatever the runtime still has of it.
OnDoneDeletes ==
  /\ gIncomingTags # <<>> /\ Head(gIncomingTags).op = "done"
  /\ Delete(Head(gIncomingTags).job)
  /\ gIncomingTags' = Tail(gIncomingTags)
  /\ UNCHANGED <<rpc, sent>>

OnDone ==
  /\ gIncomingTags # <<>> /\ Head(gIncomingTags).op = "done"
  /\ LET j == Head(gIncomingTags).job
         job == [jobs[j] EXCEPT !.mOnDoneCalled = TRUE]
     IN  IF IsDone(job) THEN Delete(j)
         ELSE /\ jobs' = [jobs EXCEPT ![j] = job]
              /\ UNCHANGED <<got, call, pending, mRecordRouteMap>>
  /\ gIncomingTags' = Tail(gIncomingTags)
  /\ UNCHANGED <<rpc, sent>>

processRpcs == OnRequest \/ OnOperation \/ OnDone

Next == HandleRpcs \/ processRpcs \/ \E c \in Calls : Call(c) \/ GoAway(c)

SafeSpec == Init /\ [][Next]_vars

\* Both threads run on; the runtime reports every operation, and a client that
\* streams comes to the end of what it has to send.
Spec == SafeSpec /\ WF_vars(HandleRpcs) /\ WF_vars(processRpcs)
-----------------------------------------------------------------------------
\* Properties ---------------------------------------------------------------

\* The operations of the job at an address that are with the runtime or on the
\* way from it.
Outstanding(j) ==
  LET reported == {i \in DOMAIN gIncomingTags : gIncomingTags[i].job = j}
  IN  [ops |-> pending[j] \cup {gIncomingTags[i].op : i \in reported},
       number |-> Cardinality(pending[j]) + Cardinality(reported)]

\* A job lives as long as the runtime will report something of it, and no
\* longer: what its counter says, and whether it is done, is what is left.  No
\* tag is called that belongs to a deleted job.
OpsCounted ==
  \A j \in Jobs :
    LET left == Outstanding(j)
    IN  IF jobs[j] = NoJob THEN left.number = 0
        ELSE /\ left.number > 0
             /\ left.number = jobs[j].mAsyncOpCounter + IF "done" \in left.ops THEN 1 ELSE 0
             /\ "done" \in left.ops => ~jobs[j].mOnDoneCalled

\* "Only 1 async operation can be pending at a time with an exception that both
\* async read and write can be pending at the same time."  And SendResponse
\* asserts that no rpc is finished before its client has streamed everything.
OneOperation ==
  \A j \in Jobs :
    LET ops == Outstanding(j).ops \ {"done"}
    IN  jobs[j] # NoJob =>
          /\ jobs[j].mAsyncOpCounter = Cardinality(ops)
          /\ ops = {"read", "write"} \/ Cardinality(ops) <= 1
          /\ "finish" \in ops /\ Rpc(j) \in {"RecordRoute", "RouteChat"} =>
               jobs[j].mClientStreamingDone

\* A client that is told OK has everything its call promises, in order: each
\* feature in the rectangle, an echo of each note, or the one response.
OkIsComplete ==
  \A c \in Calls :
    LET promised == IF rpc[c] \in {"ListFeatures", "RouteChat"} THEN sent[c] ELSE 0
    IN  /\ Len(got[c]) <= promised + 1
        /\ \A i \in DOMAIN got[c] : got[c][i][1] = "write" => got[c][i][2] = i /\ i <= promised
        /\ call[c] = "closed" => Len(got[c]) = promised + 1 /\ Last(got[c])[1] = "finish"

\* The summary of a route counts its own points as long as no client that
\* records a route goes away: the points of one that does may stay with the
\* address of its job, and are counted with those of a later job there.
SummaryIsOwn ==
  \A c \in Calls :
    call[c] = "closed" /\ rpc[c] = "RecordRoute" =>
      /\ got[c][1][2] >= sent[c]
      /\ (\A d \in Calls : rpc[d] = "RecordRoute" => call[d] # "gone") => got[c][1][2] = sent[c]

\* Every call ends, and then only the jobs that wait for requests are left.
JobsReleased == <>[](\A j \in Jobs : jobs[j] # NoJob => jobs[j].call = NoCall)
=============================================================================

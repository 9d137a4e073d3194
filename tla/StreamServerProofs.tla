------------------------- MODULE StreamServerProofs -------------------------
(***************************************************************************)
(* The jobs of the gRPC example live exactly as long as the runtime will   *)
(* report something of them, and a client that is told OK has all that its *)
(* call promises, for any calls, any number of clients and messages, and   *)
(* any allocator of addresses.                                             *)
(*                                                                         *)
(* The invariant has three layers: each operation of a job is at one place,*)
(* with the runtime or in the queue (OneEach); what the fields of a job    *)
(* say is which operations these are (LiveOps); and what a client has got, *)
(* with the responses that are queued, is what the job has made of what    *)
(* the client sent (Answers).                                              *)
(***************************************************************************)
EXTENDS StreamServer, FiniteSetTheorems, SequenceTheorems, TLAPS

JobOps == {"request", "read", "write", "finish"}
AllOps == JobOps \cup {"done"}
CallStates == {"unmade", "open", "closed", "gone"}
Given == {"write", "finish"} \X Nat

JobRecords ==
  [call : Nat, mAsyncOpCounter : Nat, mAsyncWriteInProgress : BOOLEAN, mOnDoneCalled : BOOLEAN,
   mResponseQueue : Seq(Nat), mServerStreamingDone : BOOLEAN, mClientStreamingDone : BOOLEAN,
   starts : SUBSET JobOps, out : Seq(Given)]
Tags == [job : Jobs, op : AllOps, ok : BOOLEAN, message : Nat]

StreamTypes ==
  /\ rpc \in Mixes
  /\ call \in [Calls -> CallStates] /\ sent \in [Calls -> Nat] /\ got \in [Calls -> Seq(Given)]
  /\ jobs \in [Jobs -> JobRecords \cup {NoJob}] /\ pending \in [Jobs -> SUBSET AllOps]
  /\ gIncomingTags \in Seq(Tags) /\ mRecordRouteMap \in [Jobs -> Nat]
-----------------------------------------------------------------------------
\* The invariant ------------------------------------------------------------

Elements(s) == {s[i] : i \in DOMAIN s}
Waiting == Elements(gIncomingTags)

\* No two tags of the queue are of the same operation of a job.
Distinct(s) == \A i, k \in DOMAIN s : i # k => s[i].job # s[k].job \/ s[i].op # s[k].op

OpsIn(tags, j) == {t.op : t \in {u \in tags : u.job = j}}
Ops(j) == pending[j] \cup OpsIn(Waiting, j)

OneEach == Distinct(gIncomingTags) /\ \A j \in Jobs : pending[j] \cap OpsIn(Waiting, j) = {}

\* What a job may have under way at once, and how many these are.
OpSets(r) == {{}, {"request"}, {"finish"}}
             \cup (IF r \in {"RecordRoute", "RouteChat"} THEN {{"read"}} ELSE {})
             \cup (IF r \in {"ListFeatures", "RouteChat"} THEN {{"write"}} ELSE {})
             \cup (IF r = "RouteChat" THEN {{"read", "write"}} ELSE {})
Number(O) == IF O = {} THEN 0 ELSE IF O = {"read", "write"} THEN 2 ELSE 1

\* The fields of a job say what is under way.
FieldsOk(r, job, O) ==
  /\ O \in OpSets(r)
  /\ job.mAsyncOpCounter = Number(O)
  /\ job.mAsyncWriteInProgress <=> "write" \in O
  /\ IF "request" \in O
       THEN job.mResponseQueue = <<>> /\ ~job.mServerStreamingDone /\ ~job.mClientStreamingDone
       ELSE /\ r \in {"RecordRoute", "RouteChat"} => (job.mClientStreamingDone <=> "read" \notin O)
            /\ r \in {"ListFeatures", "RouteChat"} => (job.mServerStreamingDone <=> "read" \notin O)
            /\ "write" \in O => job.mResponseQueue # <<>>

JobOk(r, job, O) == /\ FieldsOk(r, job, O) /\ job.starts = {} /\ job.out = <<>>
                    /\ O = {} => ~job.mOnDoneCalled

LiveAt(r, job, O, requested) ==
  /\ JobOk(r, job, O \ {"done"})
  /\ ("done" \in O <=> job.call # NoCall /\ ~job.mOnDoneCalled)
  /\ (job.call = NoCall <=> requested) /\ (job.call = NoCall => ~job.mOnDoneCalled)

LiveOps ==
  \A j \in Jobs : IF jobs[j] = NoJob THEN Ops(j) = {}
                  ELSE /\ LiveAt(Rpc(j), jobs[j], Ops(j), "request" \in pending[j])
                       /\ jobs[j].call \in Calls \cup {NoCall}

OpsInv == StreamTypes /\ OneEach /\ LiveOps

\* A call is served by one job, until it is closed or its client has gone.
Serves(j, c) == jobs[j] # NoJob /\ jobs[j].call = c
OneServes == \A j, k \in Jobs, c \in Calls : Serves(j, c) /\ Serves(k, c) => k = j

\* What a tag carries belongs to the call.
TagsOf(j) == {t \in Waiting : t.job = j}
Carries(t, state, s) ==
  /\ t.op = "request" \/ (t.op = "read" /\ t.ok) => t.message = s
  /\ t.op = "read" /\ t.ok => t.message > 0
  /\ t.op = "write" /\ ~t.ok => state = "gone"

\* The messages of a call that its job has processed.
ReadOk(j) == \E t \in TagsOf(j) : t.op = "read" /\ t.ok
Processed(j, c) == sent[c] - IF ReadOk(j) THEN 1 ELSE 0

Streams(r) == r \in {"ListFeatures", "RouteChat"}
IsWrites(g) == \A i \in DOMAIN g : g[i] = <<"write", i>>

\* The last response the client got is being written: it heads the queue, and
\* the others behind it end with that of the last message processed.
Queued(queue, g, processed) ==
  /\ Len(g) > 0 /\ Len(g) + Len(queue) = processed + 1
  /\ \A i \in DOMAIN queue : queue[i] = Len(g) - 1 + i

\* A client that waits for more.
Under(r, O, queue, g, processed) ==
  /\ O \cap {"read", "write"} # {} /\ "finish" \notin O /\ IsWrites(g)
  /\ ~Streams(r) => g = <<>>
  /\ Streams(r) => IF "write" \in O THEN Queued(queue, g, processed) ELSE queue = <<>> /\ Len(g) = processed

\* What a client has got, while it is served and when its call is closed.
Progress(r, O, queue, state, s, g, processed) ==
  /\ "request" \in O => g = <<>> /\ state # "closed" /\ (r # "ListFeatures" => s = 0)
  /\ "request" \notin O /\ state = "open" => Under(r, O, queue, g, processed)
  /\ state = "closed" => O \subseteq {"finish"}

Well(j, c) ==
  /\ rpc[c] = Rpc(j) /\ call[c] # "unmade"
  /\ jobs[j].mOnDoneCalled \/ "done" \in OpsIn(Waiting, j) => call[c] # "open"
  /\ \A t \in TagsOf(j) : Carries(t, call[c], sent[c])
  /\ Progress(Rpc(j), Ops(j) \ {"done"}, jobs[j].mResponseQueue, call[c], sent[c], got[c], Processed(j, c))

\* Nothing has come of a call that no job serves yet.
Fresh(c) == call[c] = "unmade" \/ (call[c] = "open" /\ \A j \in Jobs : ~Serves(j, c)) => sent[c] = 0 /\ got[c] = <<>>

\* The points recorded at an address: at least those of the call it serves, and
\* no others as long as no client that records a route has gone.
NoneGone == \A d \in Calls : rpc[d] = "RecordRoute" => call[d] # "gone"

Points(j) ==
  Rpc(j) = "RecordRoute" =>
    IF "read" \in Ops(j)
      THEN /\ mRecordRouteMap[j] >= Processed(j, jobs[j].call)
           /\ NoneGone => mRecordRouteMap[j] = Processed(j, jobs[j].call)
      ELSE NoneGone => mRecordRouteMap[j] = 0

\* OkIsComplete and SummaryIsOwn, of one call.
Promised(r, s) == IF Streams(r) THEN s ELSE 0
OkayAt(r, state, s, g) ==
  /\ Len(g) <= Promised(r, s) + 1
  /\ \A i \in DOMAIN g : g[i][1] = "write" => g[i][2] = i /\ i <= Promised(r, s)
  /\ state = "closed" => Len(g) = Promised(r, s) + 1 /\ Last(g)[1] = "finish"
Okay(c) == OkayAt(rpc[c], call[c], sent[c], got[c])
Own(c) == call[c] = "closed" /\ rpc[c] = "RecordRoute" =>
            got[c][1][2] >= sent[c] /\ (NoneGone => got[c][1][2] = sent[c])

Answers ==
  /\ OneServes /\ \A j \in Jobs, c \in Calls : Serves(j, c) => Well(j, c)
  /\ \A j \in Jobs : Points(j)
  /\ \A c \in Calls : Fresh(c) /\ Okay(c) /\ Own(c)

AnswersInv == OpsInv /\ Answers
-----------------------------------------------------------------------------
\* The queue of tags --------------------------------------------------------

LEMMA Appended ==
  ASSUME NEW s \in Seq(Tags), NEW t \in Tags, Distinct(s), t.op \notin OpsIn(Elements(s), t.job)
  PROVE  /\ Append(s, t) \in Seq(Tags) /\ Distinct(Append(s, t))
         /\ Elements(Append(s, t)) = Elements(s) \cup {t}
<1>1. /\ Append(s, t) \in Seq(Tags) /\ DOMAIN Append(s, t) = DOMAIN s \cup {Len(s) + 1}
      /\ Len(s) + 1 \notin DOMAIN s /\ Append(s, t)[Len(s) + 1] = t
      /\ \A i \in DOMAIN s : Append(s, t)[i] = s[i]
  OBVIOUS
<1>2. \A i \in DOMAIN s : s[i].job # t.job \/ s[i].op # t.op
  BY DEF OpsIn, Elements
<1> QED
  BY <1>1, <1>2 DEF Distinct, Elements

LEMMA Removed ==
  ASSUME NEW s \in Seq(Tags), s # <<>>, Distinct(s)
  PROVE  /\ Tail(s) \in Seq(Tags) /\ Distinct(Tail(s)) /\ Head(s) \in Elements(s) /\ Head(s) \in Tags
         /\ Elements(Tail(s)) = Elements(s) \ {Head(s)}
         /\ \A u \in Elements(s) : u.job = Head(s).job /\ u.op = Head(s).op => u = Head(s)
<1>1. /\ Tail(s) \in Seq(Tags) /\ 1 \in DOMAIN s /\ s[1] = Head(s) /\ Head(s) \in Tags
      /\ \A i \in DOMAIN Tail(s) : i + 1 \in DOMAIN s /\ i + 1 # 1 /\ Tail(s)[i] = s[i + 1] /\ i \in Nat
      /\ \A i \in DOMAIN s : i # 1 => i - 1 \in DOMAIN Tail(s) /\ Tail(s)[i - 1] = s[i]
  OBVIOUS
<1>2. Distinct(Tail(s))
  <2>1. ASSUME NEW i \in DOMAIN Tail(s), NEW k \in DOMAIN Tail(s), i # k
        PROVE  Tail(s)[i].job # Tail(s)[k].job \/ Tail(s)[i].op # Tail(s)[k].op
    <3>1. i + 1 # k + 1
      BY <1>1, <2>1
    <3> QED
      BY <1>1, <3>1 DEF Distinct
  <2> QED
    BY <2>1 DEF Distinct
<1>3. \A i \in DOMAIN s : i # 1 => s[i].job # Head(s).job \/ s[i].op # Head(s).op
  BY <1>1 DEF Distinct
<1>4. Elements(Tail(s)) = Elements(s) \ {Head(s)}
  <2>1. ASSUME NEW u \in Elements(Tail(s)) PROVE u \in Elements(s) \ {Head(s)}
    BY <1>1, <1>3 DEF Elements
  <2>2. ASSUME NEW u \in Elements(s) \ {Head(s)} PROVE u \in Elements(Tail(s))
    <3>1. PICK i \in DOMAIN s : u = s[i] /\ i # 1
      BY <1>1 DEF Elements
    <3> QED
      BY <1>1, <3>1 DEF Elements
  <2> QED
    BY <2>1, <2>2
<1>5. ASSUME NEW u \in Elements(s), u.job = Head(s).job, u.op = Head(s).op PROVE u = Head(s)
  <2>1. PICK i \in DOMAIN s : u = s[i]
    BY DEF Elements
  <2>2. i = 1
    BY <1>3, <1>5, <2>1
  <2> QED
    BY <1>1, <2>1, <2>2
<1>6. Head(s) \in Elements(s)
  BY <1>1 DEF Elements
<1> QED
  BY <1>1, <1>2, <1>4, <1>5, <1>6

\* HandleRpcs puts the tag of an operation into the queue.
LEMMA Reporting ==
  ASSUME StreamTypes, OneEach, NEW j \in Jobs, NEW op \in pending[j], NEW ok \in BOOLEAN, NEW m \in Nat,
         op = "request" => "done" \notin Ops(j), Report(j, op, ok, m)
  PROVE  /\ OneEach' /\ gIncomingTags' \in Seq(Tags) /\ pending' \in [Jobs -> SUBSET AllOps]
         /\ Waiting' = Waiting \cup {[job |-> j, op |-> op, ok |-> ok, message |-> m]}
         /\ \A k \in Jobs : /\ Ops(k)' = Ops(k) \cup IF k = j /\ op = "request" THEN {"done"} ELSE {}
                            /\ "request" \in pending'[k] <=> "request" \in pending[k] /\ ~(k = j /\ op = "request")
                            /\ OpsIn(Waiting, k)' = OpsIn(Waiting, k) \cup IF k = j THEN {op} ELSE {}
         /\ op \notin OpsIn(Waiting, j)
<1> DEFINE t == [job |-> j, op |-> op, ok |-> ok, message |-> m]
<1>1. t \in Tags /\ t.job = j /\ t.op = op /\ pending \in [Jobs -> SUBSET AllOps] /\ gIncomingTags \in Seq(Tags)
  BY DEF Tags, StreamTypes
<1>2. gIncomingTags' = Append(gIncomingTags, t)
  BY DEF Report
<1>3. /\ pending' \in [Jobs -> SUBSET AllOps]
      /\ pending'[j] = (pending[j] \ {op}) \cup (IF op = "request" THEN {"done"} ELSE {})
      /\ \A k \in Jobs : k # j => pending'[k] = pending[k]
  BY <1>1 DEF Report, AllOps
<1> HIDE DEF t
<1>4. op \notin OpsIn(Waiting, j)
  BY DEF OneEach
<1>5. gIncomingTags' \in Seq(Tags) /\ Distinct(gIncomingTags') /\ Waiting' = Waiting \cup {t}
  BY <1>1, <1>2, <1>4, Appended DEF OneEach, Waiting
<1>6. \A k \in Jobs : OpsIn(Waiting, k)' = OpsIn(Waiting, k) \cup IF k = j THEN {op} ELSE {}
  BY <1>1, <1>5 DEF OpsIn
<1>7. \A k \in Jobs : Ops(k)' = Ops(k) \cup IF k = j /\ op = "request" THEN {"done"} ELSE {}
  BY <1>3, <1>6 DEF Ops
<1>8. \A k \in Jobs : pending'[k] \cap OpsIn(Waiting, k)' = {}
  BY <1>3, <1>4, <1>6 DEF OneEach, Ops
<1>9. OneEach'
  BY <1>5, <1>8 DEF OneEach
<1>10. \A k \in Jobs : "request" \in pending'[k] <=> "request" \in pending[k] /\ ~(k = j /\ op = "request")
  BY <1>3
<1> QED
  BY <1>3, <1>4, <1>5, <1>6, <1>7, <1>9, <1>10 DEF t

\* processRpcs takes a tag out of it, and starts other operations.
LEMMA Taking ==
  ASSUME StreamTypes, OneEach, gIncomingTags # <<>>, gIncomingTags' = Tail(gIncomingTags),
         NEW X \in [Jobs -> SUBSET AllOps], pending' \in [Jobs -> SUBSET AllOps],
         \A k \in Jobs : /\ pending'[k] = pending[k] \cup X[k]
                         /\ \A op \in X[k] : op \notin Ops(k) \/ (k = Head(gIncomingTags).job
                                                                 /\ op = Head(gIncomingTags).op)
  PROVE  /\ OneEach' /\ gIncomingTags' \in Seq(Tags) /\ Waiting' = Waiting \ {Head(gIncomingTags)}
         /\ \A k \in Jobs :
              IF k = Head(gIncomingTags).job
                THEN /\ Ops(k)' = (Ops(k) \ {Head(gIncomingTags).op}) \cup X[k]
                     /\ OpsIn(Waiting, k)' = OpsIn(Waiting, k) \ {Head(gIncomingTags).op}
                ELSE Ops(k)' = Ops(k) \cup X[k] /\ OpsIn(Waiting, k)' = OpsIn(Waiting, k)
<1> DEFINE h == Head(gIncomingTags)
           taken(k) == IF k = h.job THEN {h.op} ELSE {}
<1>1. /\ gIncomingTags' \in Seq(Tags) /\ Distinct(gIncomingTags') /\ Waiting' = Waiting \ {h} /\ h \in Waiting
      /\ \A u \in Waiting : u.job = h.job /\ u.op = h.op => u = h
      /\ h.job \in Jobs
  BY Removed DEF StreamTypes, OneEach, Waiting, Tags
<1> HIDE DEF h
<1>2. ASSUME NEW k \in Jobs PROVE OpsIn(Waiting, k)' = OpsIn(Waiting, k) \ taken(k)
  BY <1>1 DEF OpsIn
<1>3. ASSUME NEW k \in Jobs PROVE taken(k) \cap pending[k] = {} /\ pending[k] \cap OpsIn(Waiting, k) = {}
  BY <1>1 DEF OneEach, OpsIn
<1>4. ASSUME NEW k \in Jobs
      PROVE  Ops(k)' = (Ops(k) \ taken(k)) \cup X[k] /\ pending'[k] \cap OpsIn(Waiting, k)' = {}
  <2>1. \A op \in X[k] : op \notin Ops(k) \/ op \in taken(k)
    BY DEF h
  <2> HIDE DEF taken
  <2> QED
    BY <1>2, <1>3, <2>1 DEF Ops
<1>5. OneEach'
  BY <1>1, <1>4 DEF OneEach
<1>6. ASSUME NEW k \in Jobs, k = h.job
      PROVE  Ops(k)' = (Ops(k) \ {h.op}) \cup X[k] /\ OpsIn(Waiting, k)' = OpsIn(Waiting, k) \ {h.op}
  <2>1. taken(k) = {h.op}
    BY <1>6
  <2> HIDE DEF taken
  <2> QED
    BY <1>2, <1>4, <2>1
<1>7. ASSUME NEW k \in Jobs, k # h.job PROVE Ops(k)' = Ops(k) \cup X[k] /\ OpsIn(Waiting, k)' = OpsIn(Waiting, k)
  <2>1. taken(k) = {}
    BY <1>7
  <2> HIDE DEF taken
  <2> QED
    BY <1>2, <1>4, <2>1
<1> QED
  BY <1>1, <1>5, <1>6, <1>7 DEF h
-----------------------------------------------------------------------------
\* What a tag does to a job -------------------------------------------------

LEMMA RpcJobIsJob == RpcJob \in JobRecords /\ \A job \in JobRecords : job # NoJob
<1>1. RpcJob \in JobRecords
  BY EmptySeq DEF RpcJob, JobRecords, NoCall
<1>2. ASSUME NEW job \in JobRecords PROVE job # NoJob
  <2>1. "call" \in DOMAIN job
    BY DEF JobRecords
  <2>2. DOMAIN NoJob = {}
    BY DEF NoJob
  <2> QED
    BY <2>1, <2>2
<1> QED
  BY <1>1, <1>2

\* The fields that none of the elementary steps changes.
SameBut(next, job) == /\ next.call = job.call /\ next.mOnDoneCalled = job.mOnDoneCalled
                      /\ next.mServerStreamingDone = job.mServerStreamingDone
                      /\ next.mClientStreamingDone = job.mClientStreamingDone

LEMMA FieldsSet ==
  ASSUME NEW job \in JobRecords
  PROVE  /\ \A o \in Seq(Given) : [job EXCEPT !.out = o] \in JobRecords
         /\ \A q \in Seq(Nat) : [job EXCEPT !.mResponseQueue = q] \in JobRecords
         /\ \A b \in BOOLEAN : /\ [job EXCEPT !.mOnDoneCalled = b] \in JobRecords
                              /\ [job EXCEPT !.mServerStreamingDone = b] \in JobRecords
                              /\ [job EXCEPT !.mClientStreamingDone = b] \in JobRecords
         /\ \A c \in Nat : [job EXCEPT !.call = c] \in JobRecords
<1>1. ASSUME NEW o \in Seq(Given) PROVE [job EXCEPT !.out = o] \in JobRecords
  BY DEF JobRecords
<1>2. ASSUME NEW q \in Seq(Nat) PROVE [job EXCEPT !.mResponseQueue = q] \in JobRecords
  BY DEF JobRecords
<1>3. ASSUME NEW b \in BOOLEAN
      PROVE  /\ [job EXCEPT !.mOnDoneCalled = b] \in JobRecords
             /\ [job EXCEPT !.mServerStreamingDone = b] \in JobRecords
             /\ [job EXCEPT !.mClientStreamingDone = b] \in JobRecords
  BY DEF JobRecords
<1>4. ASSUME NEW c \in Nat PROVE [job EXCEPT !.call = c] \in JobRecords
  BY DEF JobRecords
<1> QED
  BY <1>1, <1>2, <1>3, <1>4

LEMMA StartedFields ==
  ASSUME NEW job \in JobRecords, NEW op \in JobOps
  PROVE  LET next == AsyncOpStarted(job, op) IN
         /\ next \in JobRecords /\ SameBut(next, job)
         /\ next.mAsyncOpCounter = job.mAsyncOpCounter + 1
         /\ (next.mAsyncWriteInProgress <=> job.mAsyncWriteInProgress \/ op = "write")
         /\ next.starts = job.starts \cup {op}
         /\ next.mResponseQueue = job.mResponseQueue /\ next.out = job.out
<1> DEFINE next == AsyncOpStarted(job, op)
<1>1. (next.mAsyncWriteInProgress <=> job.mAsyncWriteInProgress \/ op = "write")
  BY Zenon DEF AsyncOpStarted, JobRecords
<1>2. /\ next.mAsyncOpCounter = job.mAsyncOpCounter + 1 /\ next.starts = job.starts \cup {op}
      /\ SameBut(next, job) /\ next.mResponseQueue = job.mResponseQueue /\ next.out = job.out
  BY DEF AsyncOpStarted, JobRecords, SameBut
<1>3. next \in JobRecords
  <2>1. ASSUME NEW b \in BOOLEAN, NEW n \in Nat, NEW S \in SUBSET JobOps
        PROVE  [job EXCEPT !.mAsyncOpCounter = n, !.mAsyncWriteInProgress = b, !.starts = S] \in JobRecords
    BY DEF JobRecords
  <2>2. (job.mAsyncWriteInProgress \/ op = "write") \in BOOLEAN
    OBVIOUS
  <2>3. job.mAsyncOpCounter + 1 \in Nat /\ job.starts \cup {op} \in SUBSET JobOps
    BY DEF JobRecords
  <2> QED
    BY <2>1, <2>2, <2>3, Zenon DEF AsyncOpStarted
<1> QED
  BY <1>1, <1>2, <1>3

LEMMA FinishedFields ==
  ASSUME NEW job \in JobRecords, NEW op \in JobOps, job.mAsyncOpCounter > 0
  PROVE  LET next == AsyncOpFinished(job, op) IN
         /\ next \in JobRecords /\ SameBut(next, job)
         /\ next.mAsyncOpCounter = job.mAsyncOpCounter - 1
         /\ next.mAsyncWriteInProgress = (job.mAsyncWriteInProgress /\ op # "write")
         /\ next.starts = job.starts /\ next.mResponseQueue = job.mResponseQueue /\ next.out = job.out
<1> DEFINE next == AsyncOpFinished(job, op)
<1>1. next.mAsyncWriteInProgress = (job.mAsyncWriteInProgress /\ op # "write")
  BY Zenon DEF AsyncOpFinished, JobRecords
<1>2. /\ next.mAsyncOpCounter = job.mAsyncOpCounter - 1 /\ next.starts = job.starts
      /\ SameBut(next, job) /\ next.mResponseQueue = job.mResponseQueue /\ next.out = job.out
  BY DEF AsyncOpFinished, JobRecords, SameBut
<1>3. next \in JobRecords
  <2>1. ASSUME NEW b \in BOOLEAN, NEW n \in Nat
        PROVE  [job EXCEPT !.mAsyncOpCounter = n, !.mAsyncWriteInProgress = b] \in JobRecords
    BY DEF JobRecords
  <2>2. (job.mAsyncWriteInProgress /\ op # "write") \in BOOLEAN
    OBVIOUS
  <2>3. job.mAsyncOpCounter - 1 \in Nat
    BY DEF JobRecords
  <2> QED
    BY <2>1, <2>2, <2>3, Zenon DEF AsyncOpFinished
<1> QED
  BY <1>1, <1>2, <1>3

\* A job with these fields, the others being those of f.
IsLike(next, f, counter, writing, starts, out, queue) ==
  /\ next \in JobRecords /\ SameBut(next, f)
  /\ next.mAsyncOpCounter = counter /\ (next.mAsyncWriteInProgress <=> writing)
  /\ next.starts = starts /\ next.out = out /\ next.mResponseQueue = queue

\* What a job has given its responder when it has started one of these.
Writing(n) == <<<<"write", n>>>>
Finishing(n) == <<<<"finish", n>>>>

LEMMA GivenOne ==
  ASSUME NEW job \in JobRecords, NEW op \in {"write", "finish"}, NEW n \in Nat, job.starts = {}, job.out = <<>>
  PROVE  IsLike([AsyncOpStarted(job, op) EXCEPT !.out = Append(@, <<op, n>>)], job, job.mAsyncOpCounter + 1,
                job.mAsyncWriteInProgress \/ op = "write", {op}, <<<<op, n>>>>, job.mResponseQueue)
<1> DEFINE started == AsyncOpStarted(job, op)
           next == [started EXCEPT !.out = Append(@, <<op, n>>)]
<1>1. /\ started \in JobRecords /\ SameBut(started, job)
      /\ started.mAsyncOpCounter = job.mAsyncOpCounter + 1
      /\ (started.mAsyncWriteInProgress <=> job.mAsyncWriteInProgress \/ op = "write")
      /\ started.starts = {op}
      /\ started.mResponseQueue = job.mResponseQueue /\ started.out = <<>>
  <2>1. op \in JobOps /\ {} \cup {op} = {op}
    BY DEF JobOps
  <2> QED
    BY <2>1, StartedFields
<1>2. Append(<<>>, <<op, n>>) = <<<<op, n>>>>
  OBVIOUS
<1>3. <<<<op, n>>>> \in Seq(Given)
  BY DEF Given
<1>4. next = [started EXCEPT !.out = <<<<op, n>>>>]
  BY <1>1, <1>2
<1> HIDE DEF started, next
<1>5. next \in JobRecords
  BY <1>1, <1>3, <1>4, FieldsSet
<1>6. /\ next.mAsyncOpCounter = started.mAsyncOpCounter
      /\ next.mAsyncWriteInProgress = started.mAsyncWriteInProgress
      /\ next.starts = started.starts /\ next.out = <<<<op, n>>>>
      /\ next.mResponseQueue = started.mResponseQueue /\ SameBut(next, started)
  BY <1>1, <1>4 DEF JobRecords, SameBut
<1>7. SameBut(next, job)
  BY <1>1, <1>6 DEF SameBut
<1> QED
  BY <1>1, <1>5, <1>6, <1>7 DEF IsLike, started, next

LEMMA FinishFields ==
  ASSUME NEW f \in JobRecords, NEW n \in Nat, f.starts = {}, f.out = <<>>, ~f.mAsyncWriteInProgress
  PROVE  IsLike(doFinish(f, n), f, f.mAsyncOpCounter + 1, FALSE, {"finish"}, Finishing(n), f.mResponseQueue)
BY GivenOne DEF doFinish, Finishing, IsLike

LEMMA WriteFields ==
  ASSUME NEW f \in JobRecords, f.mResponseQueue # <<>>, f.starts = {}, f.out = <<>>
  PROVE  IsLike(doSendResponse(f), f, f.mAsyncOpCounter + 1, TRUE, {"write"}, Writing(Head(f.mResponseQueue)),
                f.mResponseQueue)
<1>1. Head(f.mResponseQueue) \in Nat
  BY DEF JobRecords
<1> QED
  BY <1>1, GivenOne DEF doSendResponse, Writing, IsLike

LEMMA SendResponsesFields ==
  ASSUME NEW f \in JobRecords, NEW rs \in Seq(Nat), f.starts = {}, f.out = <<>>
  PROVE  LET next == SendResponses(f, rs)
             queue == f.mResponseQueue \o rs
         IN  /\ f.mAsyncWriteInProgress =>
                  IsLike(next, f, f.mAsyncOpCounter, TRUE, {}, <<>>, queue)
             /\ ~f.mAsyncWriteInProgress /\ rs = <<>> =>
                  IsLike(next, f, f.mAsyncOpCounter, FALSE, {}, <<>>, queue)
             /\ ~f.mAsyncWriteInProgress /\ rs # <<>> =>
                  IsLike(next, f, f.mAsyncOpCounter + 1, TRUE, {"write"}, Writing(Head(queue)), queue)
<1> DEFINE queued == [f EXCEPT !.mResponseQueue = @ \o rs]
           queue == f.mResponseQueue \o rs
<1>1. f.mResponseQueue \in Seq(Nat) /\ queue \in Seq(Nat)
  BY DEF JobRecords
<1>2. /\ queued \in JobRecords /\ SameBut(queued, f) /\ queued.mResponseQueue = queue
      /\ queued.mAsyncOpCounter = f.mAsyncOpCounter /\ queued.mAsyncWriteInProgress = f.mAsyncWriteInProgress
      /\ queued.starts = {} /\ queued.out = <<>>
  BY <1>1, FieldsSet DEF JobRecords, SameBut
<1>3. CASE f.mAsyncWriteInProgress \/ rs = <<>>
  <2>1. SendResponses(f, rs) = queued
    BY <1>3 DEF SendResponses
  <2> HIDE DEF queued, queue
  <2> QED
    BY <1>2, <1>3, <2>1 DEF SameBut, IsLike, queue
<1>4. CASE ~f.mAsyncWriteInProgress /\ rs # <<>>
  <2>1. SendResponses(f, rs) = doSendResponse(queued)
    BY <1>4 DEF SendResponses
  <2>2. queue # <<>>
    BY <1>1, <1>4
  <2> HIDE DEF queued, queue
  <2>3. IsLike(doSendResponse(queued), queued, f.mAsyncOpCounter + 1, TRUE, {"write"}, Writing(Head(queue)), queue)
    BY <1>2, <2>2, WriteFields
  <2> QED
    BY <1>2, <1>4, <2>1, <2>3 DEF SameBut, IsLike, queue
<1> QED
  BY <1>3, <1>4

Ended(f) == [f EXCEPT !.mServerStreamingDone = TRUE]

LEMMA EndResponsesFields ==
  ASSUME NEW f \in JobRecords
  PROVE  /\ Ended(f) \in JobRecords /\ Ended(f).mServerStreamingDone
         /\ Ended(f).call = f.call /\ Ended(f).mOnDoneCalled = f.mOnDoneCalled
         /\ Ended(f).mClientStreamingDone = f.mClientStreamingDone
         /\ f.mAsyncWriteInProgress =>
              IsLike(EndResponses(f), Ended(f), f.mAsyncOpCounter, TRUE, f.starts, f.out, f.mResponseQueue)
         /\ ~f.mAsyncWriteInProgress /\ f.starts = {} /\ f.out = <<>> =>
              IsLike(EndResponses(f), Ended(f), f.mAsyncOpCounter + 1, FALSE, {"finish"}, Finishing(0), f.mResponseQueue)
<1>1. /\ Ended(f) \in JobRecords /\ Ended(f).call = f.call /\ Ended(f).mOnDoneCalled = f.mOnDoneCalled
      /\ Ended(f).mResponseQueue = f.mResponseQueue /\ Ended(f).mServerStreamingDone
      /\ Ended(f).mClientStreamingDone = f.mClientStreamingDone
      /\ Ended(f).mAsyncOpCounter = f.mAsyncOpCounter /\ Ended(f).mAsyncWriteInProgress = f.mAsyncWriteInProgress
      /\ Ended(f).starts = f.starts /\ Ended(f).out = f.out
  <2>1. Ended(f) \in JobRecords
    BY FieldsSet DEF Ended
  <2> QED
    BY <2>1 DEF JobRecords, Ended
<1>2. CASE f.mAsyncWriteInProgress
  <2>1. EndResponses(f) = Ended(f)
    BY <1>2 DEF EndResponses, Ended
  <2> QED
    BY <1>1, <1>2, <2>1 DEF IsLike, SameBut
<1>3. CASE ~f.mAsyncWriteInProgress
  <2>1. EndResponses(f) = doFinish(Ended(f), 0)
    BY <1>3 DEF EndResponses, Ended
  <2> QED
    BY <1>1, <1>3, <2>1, FinishFields
<1> QED
  BY <1>1, <1>2, <1>3

LEMMA OnWriteFields ==
  ASSUME NEW f \in JobRecords, NEW ok \in BOOLEAN, f.starts = {}, f.out = <<>>, f.mResponseQueue # <<>>,
         ~f.mAsyncWriteInProgress
  PROVE  LET next == OnWrite(f, ok)
             queue == Tail(f.mResponseQueue)
         IN  /\ ok /\ queue # <<>> =>
                  IsLike(next, f, f.mAsyncOpCounter + 1, TRUE, {"write"}, Writing(Head(queue)), queue)
             /\ ok /\ queue = <<>> /\ f.mServerStreamingDone =>
                  IsLike(next, f, f.mAsyncOpCounter + 1, FALSE, {"finish"}, Finishing(0), queue)
             /\ ~ok \/ (queue = <<>> /\ ~f.mServerStreamingDone) =>
                  IsLike(next, f, f.mAsyncOpCounter, FALSE, {}, <<>>, queue)
<1> DEFINE popped == [f EXCEPT !.mResponseQueue = Tail(@)]
           queue == Tail(f.mResponseQueue)
<1>1. queue \in Seq(Nat)
  BY DEF JobRecords
<1>2. /\ popped \in JobRecords /\ SameBut(popped, f) /\ popped.mResponseQueue = queue
      /\ popped.mAsyncOpCounter = f.mAsyncOpCounter /\ ~popped.mAsyncWriteInProgress
      /\ popped.starts = {} /\ popped.out = <<>>
  BY <1>1, FieldsSet DEF JobRecords, SameBut
<1>3. CASE ok /\ queue # <<>>
  <2>1. OnWrite(f, ok) = doSendResponse(popped)
    BY <1>2, <1>3 DEF OnWrite
  <2> HIDE DEF popped, queue
  <2>2. IsLike(doSendResponse(popped), popped, f.mAsyncOpCounter + 1, TRUE, {"write"}, Writing(Head(queue)), queue)
    BY <1>2, <1>3, WriteFields
  <2> QED
    BY <1>2, <1>3, <2>1, <2>2 DEF SameBut, IsLike, queue
<1>4. CASE ok /\ queue = <<>> /\ f.mServerStreamingDone
  <2>1. OnWrite(f, ok) = doFinish(popped, 0)
    BY <1>2, <1>4 DEF OnWrite, SameBut
  <2> HIDE DEF popped, queue
  <2>2. IsLike(doFinish(popped, 0), popped, f.mAsyncOpCounter + 1, FALSE, {"finish"}, Finishing(0), queue)
    BY <1>2, FinishFields
  <2> QED
    BY <1>2, <1>4, <2>1, <2>2 DEF SameBut, IsLike, queue
<1>5. CASE ~ok \/ (queue = <<>> /\ ~f.mServerStreamingDone)
  <2>1. OnWrite(f, ok) = popped
    BY <1>2, <1>5 DEF OnWrite, SameBut
  <2> HIDE DEF popped, queue
  <2> QED
    BY <1>2, <1>5, <2>1 DEF SameBut, IsLike, queue
<1> QED
  BY <1>3, <1>4, <1>5 DEF queue

\* A job when one of its operations, op, is over and R are the others.
Halfway(r, f, R, op) ==
  /\ f \in JobRecords /\ f.starts = {} /\ f.out = <<>>
  /\ R \cup {op} \in OpSets(r) /\ op \notin R
  /\ f.mAsyncOpCounter = Number(R) /\ (f.mAsyncWriteInProgress <=> "write" \in R)
  /\ IF op = "request"
       THEN f.mResponseQueue = <<>> /\ ~f.mServerStreamingDone /\ ~f.mClientStreamingDone
       ELSE /\ r \in {"RecordRoute", "RouteChat"} => (f.mClientStreamingDone <=> "read" \notin R \cup {op})
            /\ r \in {"ListFeatures", "RouteChat"} => (f.mServerStreamingDone <=> "read" \notin R \cup {op})
            /\ "write" \in R \cup {op} => f.mResponseQueue # <<>>

\* What the job is then made: it starts other operations, and says so.
Moved(r, f, next, R, starts, out) ==
  /\ next \in JobRecords /\ next.call = f.call /\ next.mOnDoneCalled = f.mOnDoneCalled
  /\ next.starts = starts /\ next.out = out
  /\ FieldsOk(r, next, R \cup starts)

\* GetFeature: the response goes with the finish.
LEMMA UnaryMoves ==
  ASSUME NEW f, NEW tag, NEW R, Halfway("GetFeature", f, R, tag.op)
  PROVE  /\ R = {} /\ tag.op \in {"request", "finish"}
         /\ tag.op = "request" => Moved("GetFeature", f, UnaryRpcJob(f, tag), R, {"finish"}, Finishing(1))
         /\ tag.op = "finish" => Moved("GetFeature", f, UnaryRpcJob(f, tag), R, {}, <<>>)
<1>1. R = {} /\ tag.op \in {"request", "finish"}
  BY DEF Halfway, OpSets
<1>2. f \in JobRecords /\ f.starts = {} /\ f.out = <<>> /\ f.mAsyncOpCounter = 0 /\ ~f.mAsyncWriteInProgress
  BY <1>1 DEF Halfway, Number
<1>3. CASE tag.op = "request"
  <2>1. UnaryRpcJob(f, tag) = doFinish(f, 1)
    BY <1>3 DEF UnaryRpcJob, GetFeatureProcessor
  <2>2. IsLike(doFinish(f, 1), f, 1, FALSE, {"finish"}, Finishing(1), f.mResponseQueue)
    BY <1>2, FinishFields DEF IsLike
  <2>3. FieldsOk("GetFeature", doFinish(f, 1), {"finish"})
    BY <2>2 DEF FieldsOk, OpSets, Number, IsLike
  <2> QED
    BY <1>1, <1>3, <2>1, <2>2, <2>3 DEF Moved, SameBut, IsLike
<1>4. CASE tag.op = "finish"
  <2>1. UnaryRpcJob(f, tag) = f
    BY <1>4 DEF UnaryRpcJob
  <2>2. FieldsOk("GetFeature", f, {})
    BY <1>2 DEF FieldsOk, OpSets, Number
  <2> QED
    BY <1>1, <1>2, <1>4, <2>1, <2>2 DEF Moved
<1> QED
  BY <1>1, <1>3, <1>4

\* ListFeatures: one response after the other, then the finish.
ListMade(f, tag, R, next) ==
  LET queue == Tail(f.mResponseQueue)
      Made(starts, out) == Moved("ListFeatures", f, next, R, starts, out)
  IN  /\ R = {} /\ tag.op \in {"request", "write", "finish"}
      /\ tag.op = "request" /\ tag.message = 0 => Made({"finish"}, Finishing(0))
      /\ tag.op = "request" /\ tag.message > 0 =>
           Made({"write"}, Writing(1)) /\ next.mResponseQueue = [i \in 1 .. tag.message |-> i]
      /\ tag.op = "write" /\ ~tag.ok => Made({}, <<>>)
      /\ tag.op = "write" /\ tag.ok /\ queue = <<>> => Made({"finish"}, Finishing(0))
      /\ tag.op = "write" /\ tag.ok /\ queue # <<>> =>
           Made({"write"}, Writing(Head(queue))) /\ next.mResponseQueue = queue
      /\ tag.op = "finish" => Made({}, <<>>)

LEMMA ListMoves ==
  ASSUME NEW f, NEW tag \in Tags, NEW R, Halfway("ListFeatures", f, R, tag.op)
  PROVE  ListMade(f, tag, R, ServerStreamingRpcJob(f, tag, tag.message))
<1> DEFINE next == ServerStreamingRpcJob(f, tag, tag.message)
           queue == Tail(f.mResponseQueue)
<1>1. R = {} /\ tag.op \in {"request", "write", "finish"} /\ tag.message \in Nat /\ tag.ok \in BOOLEAN
  BY DEF Halfway, OpSets, Tags
<1>2. f \in JobRecords /\ f.starts = {} /\ f.out = <<>> /\ f.mAsyncOpCounter = 0 /\ ~f.mAsyncWriteInProgress
  BY <1>1 DEF Halfway, Number
<1>3. CASE tag.op = "request"
  <2> DEFINE rs == [i \in 1 .. tag.message |-> i]
             given == SendResponses(f, rs)
  <2>1. next = EndResponses(given)
    BY <1>3 DEF ServerStreamingRpcJob, ListFeaturesProcessor
  <2>2. rs \in Seq(Nat) /\ Len(rs) = tag.message
    BY <1>1
  <2>3. f.mResponseQueue \o rs = rs
    BY <1>3, <2>2, ConcatEmptySeq DEF Halfway
  <2>4. CASE tag.message = 0
    <3>1. rs = <<>>
      BY <2>2, <2>4, EmptySeq
    <3> HIDE DEF rs, next
    <3>2. IsLike(given, f, 0, FALSE, {}, <<>>, <<>>)
      BY <1>2, <2>2, <2>3, <3>1, SendResponsesFields DEF IsLike
    <3> HIDE DEF given
    <3>3. IsLike(EndResponses(given), Ended(given), 1, FALSE, {"finish"}, Finishing(0), <<>>)
      BY <3>2, EndResponsesFields DEF IsLike
    <3>4. Ended(given).mServerStreamingDone /\ Ended(given).call = f.call /\ Ended(given).mOnDoneCalled = f.mOnDoneCalled
      BY <3>2, EndResponsesFields DEF IsLike, SameBut
    <3>5. FieldsOk("ListFeatures", next, {"finish"})
      BY <2>1, <3>3, <3>4 DEF FieldsOk, OpSets, Number, IsLike, SameBut
    <3>6. Moved("ListFeatures", f, next, R, {"finish"}, Finishing(0))
      BY <1>1, <2>1, <3>3, <3>4, <3>5 DEF Moved, IsLike, SameBut
    <3> QED
      BY <1>1, <1>3, <2>4, <3>6 DEF next, ListMade
  <2>5. CASE tag.message > 0
    <3>1. rs # <<>> /\ Head(rs) = 1
      BY <1>1, <2>2, <2>5
    <3> HIDE DEF rs, next
    <3>2. IsLike(given, f, 1, TRUE, {"write"}, Writing(1), rs)
      <4>1. IsLike(given, f, f.mAsyncOpCounter + 1, TRUE, {"write"}, Writing(Head(f.mResponseQueue \o rs)),
                   f.mResponseQueue \o rs)
        BY <1>2, <2>2, <3>1, SendResponsesFields
      <4> QED
        BY <1>2, <2>3, <3>1, <4>1 DEF IsLike
    <3> HIDE DEF given
    <3>3. IsLike(EndResponses(given), Ended(given), 1, TRUE, {"write"}, Writing(1), rs)
      BY <3>2, EndResponsesFields DEF IsLike
    <3>4. Ended(given).mServerStreamingDone /\ Ended(given).call = f.call /\ Ended(given).mOnDoneCalled = f.mOnDoneCalled
      BY <3>2, EndResponsesFields DEF IsLike, SameBut
    <3>5. FieldsOk("ListFeatures", next, {"write"})
      BY <2>1, <3>1, <3>3, <3>4 DEF FieldsOk, OpSets, Number, IsLike, SameBut
    <3>6. Moved("ListFeatures", f, next, R, {"write"}, Writing(1)) /\ next.mResponseQueue = rs
      BY <1>1, <2>1, <3>3, <3>4, <3>5 DEF Moved, IsLike, SameBut
    <3> QED
      BY <1>1, <1>3, <2>5, <3>6 DEF next, rs, ListMade
  <2> QED
    BY <1>1, <2>4, <2>5
<1>4. CASE tag.op = "write"
  <2>1. next = OnWrite(f, tag.ok)
    BY <1>4 DEF ServerStreamingRpcJob
  <2>2. f.mResponseQueue # <<>> /\ f.mServerStreamingDone
    BY <1>1, <1>4 DEF Halfway
  <2> HIDE DEF next, queue
  <2>3. /\ tag.ok /\ queue # <<>> => IsLike(next, f, 1, TRUE, {"write"}, Writing(Head(queue)), queue)
        /\ tag.ok /\ queue = <<>> => IsLike(next, f, 1, FALSE, {"finish"}, Finishing(0), queue)
        /\ ~tag.ok => IsLike(next, f, 0, FALSE, {}, <<>>, queue)
    BY <1>1, <1>2, <2>1, <2>2, OnWriteFields DEF IsLike, queue
  <2>4. CASE ~tag.ok
    <3>1. FieldsOk("ListFeatures", next, {})
      BY <2>2, <2>3, <2>4 DEF FieldsOk, OpSets, Number, IsLike, SameBut
    <3>2. Moved("ListFeatures", f, next, R, {}, <<>>)
      BY <1>1, <2>3, <2>4, <3>1 DEF Moved, IsLike, SameBut
    <3> QED
      BY <1>1, <1>4, <2>4, <3>2 DEF next, ListMade
  <2>5. CASE tag.ok /\ queue = <<>>
    <3>1. FieldsOk("ListFeatures", next, {"finish"})
      BY <2>2, <2>3, <2>5 DEF FieldsOk, OpSets, Number, IsLike, SameBut
    <3>2. Moved("ListFeatures", f, next, R, {"finish"}, Finishing(0))
      BY <1>1, <2>3, <2>5, <3>1 DEF Moved, IsLike, SameBut
    <3> QED
      BY <1>1, <1>4, <2>5, <3>2 DEF next, queue, ListMade
  <2>6. CASE tag.ok /\ queue # <<>>
    <3> DEFINE given == Writing(Head(queue))
    <3>0. IsLike(next, f, 1, TRUE, {"write"}, given, queue)
      BY <2>3, <2>6
    <3> HIDE DEF given
    <3>1. FieldsOk("ListFeatures", next, {"write"})
      BY <2>2, <2>6, <3>0 DEF FieldsOk, OpSets, Number, IsLike, SameBut
    <3>2. Moved("ListFeatures", f, next, R, {"write"}, given) /\ next.mResponseQueue = queue
      BY <1>1, <3>0, <3>1 DEF Moved, IsLike, SameBut
    <3> QED
      BY <1>1, <1>4, <2>6, <3>2 DEF next, queue, given, ListMade
  <2> QED
    BY <2>4, <2>5, <2>6
<1>5. CASE tag.op = "finish"
  <2>1. next = f
    BY <1>5 DEF ServerStreamingRpcJob
  <2>2. FieldsOk("ListFeatures", f, {})
    BY <1>1, <1>2, <1>5 DEF FieldsOk, OpSets, Number, Halfway
  <2>3. Moved("ListFeatures", f, f, R, {}, <<>>)
    BY <1>1, <1>2, <2>2 DEF Moved
  <2> HIDE DEF next
  <2> QED
    BY <1>1, <1>5, <2>1, <2>3 DEF next, ListMade
<1> QED
  BY <1>1, <1>3, <1>4, <1>5

\* RecordRoute: one read after the other, then the finish.
LEMMA RecordMoves ==
  ASSUME NEW f, NEW tag \in Tags, NEW R, NEW points \in Nat, Halfway("RecordRoute", f, R, tag.op)
  PROVE  LET next == ClientStreamingRpcJob(f, tag, points)
             Made(starts, out) == Moved("RecordRoute", f, next, R, starts, out)
         IN  /\ R = {} /\ tag.op \in {"request", "read", "finish"}
             /\ tag.op = "request" \/ (tag.op = "read" /\ tag.ok) => Made({"read"}, <<>>)
             /\ tag.op = "read" /\ ~tag.ok => Made({"finish"}, Finishing(points))
             /\ tag.op = "finish" => Made({}, <<>>)
<1> DEFINE next == ClientStreamingRpcJob(f, tag, points)
<1>1. R = {} /\ tag.op \in {"request", "read", "finish"} /\ tag.ok \in BOOLEAN
  BY DEF Halfway, OpSets, Tags
<1>2. f \in JobRecords /\ f.starts = {} /\ f.out = <<>> /\ f.mAsyncOpCounter = 0 /\ ~f.mAsyncWriteInProgress
  BY <1>1 DEF Halfway, Number
<1>3. CASE tag.op = "request" \/ (tag.op = "read" /\ tag.ok)
  <2>1. next = AsyncOpStarted(f, "read")
    BY <1>3 DEF ClientStreamingRpcJob
  <2> HIDE DEF next
  <2>2. IsLike(next, f, 1, FALSE, {"read"}, <<>>, f.mResponseQueue)
    BY <1>2, <2>1, StartedFields DEF IsLike, JobOps
  <2>3. ~f.mClientStreamingDone
    BY <1>1, <1>3 DEF Halfway
  <2>4. FieldsOk("RecordRoute", next, {"read"})
    BY <2>2, <2>3 DEF FieldsOk, OpSets, Number, IsLike, SameBut
  <2>5. Moved("RecordRoute", f, next, R, {"read"}, <<>>)
    BY <1>1, <2>2, <2>4 DEF Moved, IsLike, SameBut
  <2> QED
    BY <1>1, <1>3, <2>5 DEF next
<1>4. CASE tag.op = "read" /\ ~tag.ok
  <2> DEFINE ended == [f EXCEPT !.mClientStreamingDone = TRUE]
  <2>1. next = doFinish(ended, points)
    BY <1>4 DEF ClientStreamingRpcJob, RecordRouteProcessor
  <2>2. /\ ended \in JobRecords /\ ended.starts = {} /\ ended.out = <<>> /\ ended.mAsyncOpCounter = 0
        /\ ~ended.mAsyncWriteInProgress /\ ended.mClientStreamingDone
        /\ ended.call = f.call /\ ended.mOnDoneCalled = f.mOnDoneCalled
    BY <1>2, FieldsSet DEF JobRecords
  <2> HIDE DEF ended, next
  <2>3. IsLike(next, ended, 1, FALSE, {"finish"}, Finishing(points), ended.mResponseQueue)
    BY <2>1, <2>2, FinishFields DEF IsLike
  <2>4. FieldsOk("RecordRoute", next, {"finish"})
    BY <2>2, <2>3 DEF FieldsOk, OpSets, Number, IsLike, SameBut
  <2>5. Moved("RecordRoute", f, next, R, {"finish"}, Finishing(points))
    BY <1>1, <2>2, <2>3, <2>4 DEF Moved, IsLike, SameBut
  <2> QED
    BY <1>1, <1>4, <2>5 DEF next
<1>5. CASE tag.op = "finish"
  <2>1. next = f
    BY <1>5 DEF ClientStreamingRpcJob
  <2>2. FieldsOk("RecordRoute", f, {})
    BY <1>1, <1>2, <1>5 DEF FieldsOk, OpSets, Number, Halfway
  <2>3. Moved("RecordRoute", f, f, R, {}, <<>>)
    BY <1>1, <1>2, <2>2 DEF Moved
  <2> HIDE DEF next
  <2> QED
    BY <1>1, <1>5, <2>1, <2>3 DEF next
<1> QED
  BY <1>1, <1>3, <1>4, <1>5

\* RouteChat: reads, and writes of what is queued, until both have ended.
ChatMade(f, tag, R, next) ==
  LET queue == Append(f.mResponseQueue, tag.message)
      left == Tail(f.mResponseQueue)
      Made(starts, out) == Moved("RouteChat", f, next, R, starts, out)
  IN  /\ tag.op \in {"request", "finish"} => R = {}
      /\ tag.op = "read" => R \in {{}, {"write"}}
      /\ tag.op = "write" => R \in {{}, {"read"}}
      /\ tag.op \in {"request", "read", "write", "finish"}
      /\ tag.op = "request" => Made({"read"}, <<>>) /\ next.mResponseQueue = <<>>
      /\ tag.op = "read" /\ tag.ok /\ R = {} =>
           Made({"read", "write"}, Writing(Head(queue))) /\ next.mResponseQueue = queue
      /\ tag.op = "read" /\ tag.ok /\ R # {} => Made({"read"}, <<>>) /\ next.mResponseQueue = queue
      /\ tag.op = "read" /\ ~tag.ok /\ R = {} => Made({"finish"}, Finishing(0))
      /\ tag.op = "read" /\ ~tag.ok /\ R # {} =>
           Made({}, <<>>) /\ next.mResponseQueue = f.mResponseQueue
      /\ tag.op = "write" /\ tag.ok /\ left # <<>> =>
           Made({"write"}, Writing(Head(left))) /\ next.mResponseQueue = left
      /\ tag.op = "write" /\ tag.ok /\ left = <<>> /\ R = {} => Made({"finish"}, Finishing(0))
      /\ tag.op = "write" /\ tag.ok /\ left = <<>> /\ R # {} =>
           Made({}, <<>>) /\ next.mResponseQueue = left
      /\ tag.op = "write" /\ ~tag.ok => Made({}, <<>>)
      /\ tag.op = "finish" => Made({}, <<>>)

LEMMA ChatMoves ==
  ASSUME NEW f, NEW tag \in Tags, NEW R, Halfway("RouteChat", f, R, tag.op)
  PROVE  ChatMade(f, tag, R, BidirectionalStreamingRpcJob(f, tag))
<1> DEFINE next == BidirectionalStreamingRpcJob(f, tag)
           queue == Append(f.mResponseQueue, tag.message)
           left == Tail(f.mResponseQueue)
<1>1. /\ tag.op \in {"request", "finish"} => R = {}
      /\ tag.op = "read" => R \in {{}, {"write"}}
      /\ tag.op = "write" => R \in {{}, {"read"}}
      /\ tag.op \in {"request", "read", "write", "finish"} /\ tag.message \in Nat /\ tag.ok \in BOOLEAN
  <2>1. /\ R \cup {tag.op} \in {{}, {"request"}, {"finish"}, {"read"}, {"write"}, {"read", "write"}}
        /\ tag.op \notin R
    BY DEF Halfway, OpSets
  <2> QED
    BY <2>1 DEF Tags
<1>2. /\ f \in JobRecords /\ f.starts = {} /\ f.out = <<>> /\ f.mAsyncOpCounter = Number(R)
      /\ (f.mAsyncWriteInProgress <=> "write" \in R) /\ f.mResponseQueue \in Seq(Nat)
  BY DEF Halfway, JobRecords
<1>3. Number({}) = 0 /\ Number({"read"}) = 1 /\ Number({"write"}) = 1
  BY DEF Number
<1>4. CASE tag.op = "request"
  <2>1. next = AsyncOpStarted(f, "read")
    BY <1>4 DEF BidirectionalStreamingRpcJob
  <2> HIDE DEF next
  <2>3. ~f.mClientStreamingDone /\ ~f.mServerStreamingDone /\ f.mResponseQueue = <<>>
    BY <1>4 DEF Halfway
  <2>2. IsLike(next, f, 1, FALSE, {"read"}, <<>>, <<>>)
    <3>1. {} \cup {"read"} = {"read"} /\ "read" \in JobOps /\ R = {}
      BY <1>1, <1>4 DEF JobOps
    <3> QED
      BY <1>2, <1>3, <2>1, <2>3, <3>1, StartedFields DEF IsLike
  <2>4. FieldsOk("RouteChat", next, {"read"})
    BY <2>2, <2>3 DEF FieldsOk, OpSets, Number, IsLike, SameBut
  <2>5. Moved("RouteChat", f, next, R, {"read"}, <<>>) /\ next.mResponseQueue = <<>>
    BY <1>1, <1>4, <2>2, <2>4 DEF Moved, IsLike, SameBut
  <2> QED
    BY <1>1, <1>4, <2>5 DEF next, ChatMade
<1>5. CASE tag.op = "read" /\ tag.ok
  <2> DEFINE given == SendResponses(f, <<tag.message>>)
             head == Head(queue)
  <2>1. next = AsyncOpStarted(given, "read")
    BY <1>5 DEF BidirectionalStreamingRpcJob, RouteChatProcessor, SendResponse
  <2>2. f.mResponseQueue \o <<tag.message>> = queue /\ <<tag.message>> \in Seq(Nat) /\ <<tag.message>> # <<>>
    BY <1>1, <1>2
  <2>3. ~f.mClientStreamingDone /\ ~f.mServerStreamingDone /\ queue # <<>>
    <3>1. tag.op = "read" /\ "read" \in R \cup {"read"}
      BY <1>5
    <3>2. ~f.mClientStreamingDone /\ ~f.mServerStreamingDone
      BY <3>1 DEF Halfway
    <3> QED
      BY <1>1, <1>2, <3>2
  <2> HIDE DEF next, queue, head
  <2>4. CASE R = {}
    <3>1. IsLike(given, f, f.mAsyncOpCounter + 1, TRUE, {"write"}, Writing(head), queue)
      BY <1>1, <1>2, <2>2, <2>4, SendResponsesFields DEF head
    <3> HIDE DEF given
    <3>2. IsLike(next, given, 2, TRUE, {"read", "write"}, Writing(head), queue)
      <4>1. {"write"} \cup {"read"} = {"read", "write"} /\ "read" \in JobOps
        BY DEF JobOps
      <4> QED
        BY <1>2, <1>3, <2>1, <2>4, <3>1, <4>1, StartedFields DEF IsLike
    <3>3. ~next.mClientStreamingDone /\ ~next.mServerStreamingDone /\ next.mResponseQueue # <<>>
      BY <2>3, <3>1, <3>2 DEF IsLike, SameBut
    <3>4. Number({"read", "write"}) = 2
      BY DEF Number
    <3>5. FieldsOk("RouteChat", next, {"read", "write"})
      BY <3>2, <3>3, <3>4 DEF FieldsOk, OpSets, IsLike
    <3>6. Moved("RouteChat", f, next, R, {"read", "write"}, Writing(head)) /\ next.mResponseQueue = queue
      BY <2>4, <3>1, <3>2, <3>5 DEF Moved, IsLike, SameBut
    <3> QED
      BY <1>1, <1>5, <2>4, <3>6 DEF next, queue, head, ChatMade
  <2>5. CASE R # {}
    <3>0. R = {"write"}
      BY <1>1, <1>5, <2>5
    <3>1. IsLike(given, f, f.mAsyncOpCounter, TRUE, {}, <<>>, queue)
      BY <1>2, <2>2, <3>0, SendResponsesFields
    <3> HIDE DEF given
    <3>2. IsLike(next, given, 2, TRUE, {"read"}, <<>>, queue)
      <4>1. {} \cup {"read"} = {"read"} /\ "read" \in JobOps
        BY DEF JobOps
      <4> QED
        BY <1>2, <1>3, <2>1, <3>0, <3>1, <4>1, StartedFields DEF IsLike
    <3>3. ~next.mClientStreamingDone /\ ~next.mServerStreamingDone /\ next.mResponseQueue # <<>>
      BY <2>3, <3>1, <3>2 DEF IsLike, SameBut
    <3>4. Number({"read", "write"}) = 2 /\ R \cup {"read"} = {"read", "write"}
      BY <3>0 DEF Number
    <3>5. FieldsOk("RouteChat", next, {"read", "write"})
      BY <3>2, <3>3, <3>4 DEF FieldsOk, OpSets, IsLike
    <3>6. Moved("RouteChat", f, next, R, {"read"}, <<>>) /\ next.mResponseQueue = queue
      BY <3>1, <3>2, <3>4, <3>5 DEF Moved, IsLike, SameBut
    <3> QED
      BY <1>1, <1>5, <2>5, <3>6 DEF next, queue, ChatMade
  <2> QED
    BY <2>4, <2>5
<1>6. CASE tag.op = "read" /\ ~tag.ok
  <2> DEFINE over == [f EXCEPT !.mClientStreamingDone = TRUE]
  <2>1. next = EndResponses(over)
    BY <1>6 DEF BidirectionalStreamingRpcJob, RouteChatProcessor
  <2>2. /\ over \in JobRecords /\ over.starts = {} /\ over.out = <<>> /\ over.mAsyncOpCounter = f.mAsyncOpCounter
        /\ (over.mAsyncWriteInProgress <=> "write" \in R) /\ over.mClientStreamingDone
        /\ over.mResponseQueue = f.mResponseQueue
        /\ over.call = f.call /\ over.mOnDoneCalled = f.mOnDoneCalled
    <3>1. over \in JobRecords
      BY <1>2, FieldsSet
    <3>2. /\ over.starts = f.starts /\ over.out = f.out /\ over.mAsyncOpCounter = f.mAsyncOpCounter
          /\ over.mAsyncWriteInProgress = f.mAsyncWriteInProgress /\ over.mClientStreamingDone
          /\ over.mResponseQueue = f.mResponseQueue
          /\ over.call = f.call /\ over.mOnDoneCalled = f.mOnDoneCalled
      BY <1>2 DEF JobRecords
    <3> HIDE DEF over, next
    <3> QED
      BY <1>2, <3>1, <3>2
  <2> HIDE DEF over, next
  <2>3. /\ Ended(over).mServerStreamingDone /\ Ended(over).mClientStreamingDone
        /\ Ended(over).call = f.call /\ Ended(over).mOnDoneCalled = f.mOnDoneCalled
    BY <2>2, EndResponsesFields
  <2>4. CASE R = {}
    <3>1. IsLike(next, Ended(over), 1, FALSE, {"finish"}, Finishing(0), f.mResponseQueue)
      BY <1>2, <1>3, <2>1, <2>2, <2>4, EndResponsesFields DEF IsLike
    <3>2. FieldsOk("RouteChat", next, {"finish"})
      BY <2>3, <3>1 DEF FieldsOk, OpSets, Number, IsLike, SameBut
    <3>3. Moved("RouteChat", f, next, R, {"finish"}, Finishing(0))
      BY <2>3, <2>4, <3>1, <3>2 DEF Moved, IsLike, SameBut
    <3> QED
      BY <1>1, <1>6, <2>4, <3>3 DEF next, ChatMade
  <2>5. CASE R # {}
    <3>0. R = {"write"} /\ f.mResponseQueue # <<>>
      BY <1>1, <1>6, <2>5 DEF Halfway
    <3>1. IsLike(next, Ended(over), 1, TRUE, {}, <<>>, f.mResponseQueue)
      BY <1>2, <1>3, <2>1, <2>2, <3>0, EndResponsesFields DEF IsLike
    <3>2. FieldsOk("RouteChat", next, {"write"})
      BY <2>3, <3>0, <3>1 DEF FieldsOk, OpSets, Number, IsLike, SameBut
    <3>3. Moved("RouteChat", f, next, R, {}, <<>>) /\ next.mResponseQueue = f.mResponseQueue
      BY <2>3, <3>0, <3>1, <3>2 DEF Moved, IsLike, SameBut
    <3> QED
      BY <1>1, <1>6, <2>5, <3>3 DEF next, ChatMade
  <2> QED
    BY <2>4, <2>5
<1>7. CASE tag.op = "write"
  <2>1. next = OnWrite(f, tag.ok)
    BY <1>7 DEF BidirectionalStreamingRpcJob
  <2>2. /\ f.mResponseQueue # <<>> /\ (f.mServerStreamingDone <=> R = {}) /\ (f.mClientStreamingDone <=> R = {})
        /\ ~f.mAsyncWriteInProgress
    BY <1>1, <1>2, <1>7 DEF Halfway
  <2> DEFINE n == f.mAsyncOpCounter
             given == Writing(Head(left))
  <2> HIDE DEF next, left, n, given
  <2>3. /\ tag.ok /\ left # <<>> => IsLike(next, f, n + 1, TRUE, {"write"}, given, left)
        /\ tag.ok /\ left = <<>> /\ R = {} => IsLike(next, f, n + 1, FALSE, {"finish"}, Finishing(0), left)
        /\ ~tag.ok \/ (left = <<>> /\ R # {}) => IsLike(next, f, n, FALSE, {}, <<>>, left)
    BY <1>1, <1>2, <2>1, <2>2, OnWriteFields DEF left, given, n
  <2>4. (n = 0 /\ R = {}) \/ (n = 1 /\ R = {"read"})
    BY <1>1, <1>2, <1>3, <1>7 DEF n
  <2>5. CASE tag.ok /\ left # <<>>
    <3>1. IsLike(next, f, n + 1, TRUE, {"write"}, given, left)
      BY <2>3, <2>5
    <3>2. FieldsOk("RouteChat", next, R \cup {"write"})
      <4>1. CASE R = {}
        <5>1. R \cup {"write"} = {"write"} /\ n = 0
          BY <2>4, <4>1
        <5>2. FieldsOk("RouteChat", next, {"write"})
          BY <2>2, <2>5, <3>1, <4>1, <5>1 DEF FieldsOk, OpSets, Number, IsLike, SameBut
        <5> QED
          BY <5>1, <5>2
      <4>2. CASE R # {}
        <5>1. R \cup {"write"} = {"read", "write"} /\ n = 1 /\ Number({"read", "write"}) = 2
          BY <2>4, <4>2 DEF Number
        <5>2. FieldsOk("RouteChat", next, {"read", "write"})
          BY <2>2, <2>5, <3>1, <4>2, <5>1 DEF FieldsOk, OpSets, IsLike, SameBut
        <5> QED
          BY <5>1, <5>2
      <4> QED
        BY <4>1, <4>2
    <3>3. Moved("RouteChat", f, next, R, {"write"}, given) /\ next.mResponseQueue = left
      BY <3>1, <3>2 DEF Moved, IsLike, SameBut
    <3> QED
      BY <1>1, <1>7, <2>5, <3>3 DEF next, left, given, ChatMade
  <2>6. CASE tag.ok /\ left = <<>> /\ R = {}
    <3>1. IsLike(next, f, n + 1, FALSE, {"finish"}, Finishing(0), left) /\ n = 0
      BY <2>3, <2>4, <2>6
    <3>2. FieldsOk("RouteChat", next, {"finish"})
      BY <2>2, <2>6, <3>1 DEF FieldsOk, OpSets, Number, IsLike, SameBut
    <3>3. Moved("RouteChat", f, next, R, {"finish"}, Finishing(0))
      BY <2>6, <3>1, <3>2 DEF Moved, IsLike, SameBut
    <3> QED
      BY <1>1, <1>7, <2>6, <3>3 DEF next, left, ChatMade
  <2>7. CASE ~tag.ok \/ (left = <<>> /\ R # {})
    <3>1. IsLike(next, f, n, FALSE, {}, <<>>, left)
      BY <2>3, <2>7
    <3>2. FieldsOk("RouteChat", next, R)
      <4>1. CASE R = {}
        BY <2>2, <2>4, <3>1, <4>1 DEF FieldsOk, OpSets, Number, IsLike, SameBut
      <4>2. CASE R = {"read"}
        <5>1. n = 1
          BY <2>4, <4>2
        <5>2. FieldsOk("RouteChat", next, {"read"})
          BY <1>3, <2>2, <3>1, <4>2, <5>1 DEF FieldsOk, OpSets, IsLike, SameBut
        <5> QED
          BY <4>2, <5>2
      <4> QED
        BY <2>4, <4>1, <4>2
    <3>3. Moved("RouteChat", f, next, R, {}, <<>>) /\ next.mResponseQueue = left
      BY <3>1, <3>2 DEF Moved, IsLike, SameBut
    <3> QED
      BY <1>1, <1>7, <2>7, <3>3 DEF next, left, ChatMade
  <2> QED
    BY <2>5, <2>6, <2>7
<1>8. CASE tag.op = "finish"
  <2>1. next = f
    BY <1>8 DEF BidirectionalStreamingRpcJob
  <2>2. FieldsOk("RouteChat", f, {})
    BY <1>1, <1>2, <1>3, <1>8 DEF FieldsOk, OpSets, Number, Halfway
  <2>3. Moved("RouteChat", f, f, R, {}, <<>>)
    BY <1>1, <1>2, <1>8, <2>2 DEF Moved
  <2> HIDE DEF next
  <2> QED
    BY <1>1, <1>8, <2>1, <2>3 DEF next, ChatMade
<1> QED
  BY <1>1, <1>4, <1>5, <1>6, <1>7, <1>8

\* A job when the tag of one of its operations is processed.
Taken(r, job, O, op, f) ==
  /\ Halfway(r, f, O \ {op}, op) /\ SameBut(f, job) /\ f.mResponseQueue = job.mResponseQueue
  /\ op \in JobOps
  /\ IsDone(f) <=> O = {op} /\ job.mOnDoneCalled

LEMMA TakenFields ==
  ASSUME NEW r \in Rpcs, NEW job \in JobRecords, NEW O, NEW op \in O, JobOk(r, job, O)
  PROVE  Taken(r, job, O, op, AsyncOpFinished(job, op))
<1> DEFINE f == AsyncOpFinished(job, op)
           R == O \ {op}
<1>1. /\ O \in {{"request"}, {"finish"}, {"read"}, {"write"}, {"read", "write"}} /\ O \in OpSets(r)
      /\ job.mAsyncOpCounter = Number(O) /\ (job.mAsyncWriteInProgress <=> "write" \in O)
      /\ job.starts = {} /\ job.out = <<>>
  BY DEF JobOk, FieldsOk, OpSets
<1>2. Number(O) > 0 /\ Number(R) = Number(O) - 1 /\ (Number(R) = 0 <=> R = {}) /\ Number(O) \in Nat
  <2>1. CASE O = {"read", "write"}
    <3>1. Number(O) = 2
      BY <2>1 DEF Number
    <3>2. R = {"read"} \/ R = {"write"}
      BY <2>1
    <3>3. Number(R) = 1 /\ R # {}
      BY <3>2 DEF Number
    <3> QED
      BY <3>1, <3>3
  <2>2. CASE O # {"read", "write"}
    <3>1. R = {} /\ O # {}
      BY <1>1, <2>2
    <3>2. Number(R) = 0 /\ Number(O) = 1
      BY <2>2, <3>1 DEF Number
    <3> QED
      BY <3>1, <3>2
  <2> QED
    BY <2>1, <2>2
<1>3. op \in JobOps
  BY <1>1 DEF JobOps
<1>4. /\ f \in JobRecords /\ SameBut(f, job) /\ f.mAsyncOpCounter = Number(R)
      /\ f.mAsyncWriteInProgress = (job.mAsyncWriteInProgress /\ op # "write")
      /\ f.starts = {} /\ f.mResponseQueue = job.mResponseQueue /\ f.out = <<>>
  BY <1>1, <1>2, <1>3, FinishedFields
<1>5. f.mAsyncWriteInProgress <=> "write" \in R
  BY <1>1, <1>4
<1>6. R \cup {op} = O /\ op \notin R
  OBVIOUS
<1> HIDE DEF f, R
<1>7. Halfway(r, f, R, op)
  <2>1. CASE op = "request"
    <3>1. "request" \in O
      BY <2>1
    <3> QED
      BY <1>1, <1>4, <1>5, <1>6, <2>1, <3>1 DEF Halfway, JobOk, FieldsOk, SameBut
  <2>2. CASE op # "request"
    <3>1. "request" \notin O
      BY <1>1, <2>2
    <3> QED
      BY <1>1, <1>4, <1>5, <1>6, <2>2, <3>1 DEF Halfway, JobOk, FieldsOk, SameBut
  <2> QED
    BY <2>1, <2>2
<1>8. IsDone(f) <=> O = {op} /\ job.mOnDoneCalled
  BY <1>2, <1>4, <1>6 DEF IsDone, SameBut
<1> QED
  BY <1>3, <1>4, <1>7, <1>8 DEF f, R, Taken

\* What every step of a job has in common.
Handles(r, f, job, R) ==
  /\ job \in JobRecords /\ job.call = f.call /\ job.mOnDoneCalled = f.mOnDoneCalled
  /\ job.starts \subseteq {"read", "write", "finish"} /\ job.starts \cap R = {}
  /\ FieldsOk(r, job, R \cup job.starts)

LEMMA HandledMoves ==
  ASSUME NEW j \in Jobs, NEW f, NEW tag \in Tags, NEW R, Halfway(Rpc(j), f, R, tag.op),
         mRecordRouteMap[j] \in Nat
  PROVE  /\ Handles(Rpc(j), f, Handled(j, f, tag), R)
         /\ tag.op = "request" => R = {} /\ Handled(j, f, tag).starts # {}
<1> DEFINE job == Handled(j, f, tag)
           Made(starts, out) == Moved(Rpc(j), f, job, R, starts, out)
<1>1. Rpc(j) \in Rpcs
  BY DEF Jobs, Rpc
<1>2. \A starts, out : Made(starts, out) /\ starts \subseteq {"read", "write", "finish"} /\ starts \cap R = {}
        => Handles(Rpc(j), f, job, R) /\ job.starts = starts
  BY DEF Moved, Handles
<1>3. tag.ok \in BOOLEAN /\ tag.message \in Nat
  BY DEF Tags
<1>4. CASE Rpc(j) = "GetFeature"
  <2>1. job = UnaryRpcJob(f, tag)
    BY <1>4 DEF Handled
  <2> HIDE DEF job
  <2>2. /\ R = {} /\ tag.op \in {"request", "finish"}
        /\ tag.op = "request" => Made({"finish"}, Finishing(1))
        /\ tag.op = "finish" => Made({}, <<>>)
    BY <1>4, <2>1, UnaryMoves
  <2> HIDE DEF Made
  <2> QED
    BY <1>2, <2>2 DEF job
<1>5. CASE Rpc(j) = "ListFeatures"
  <2>1. job = ServerStreamingRpcJob(f, tag, tag.message)
    BY <1>5 DEF Handled
  <2> DEFINE queue == Tail(f.mResponseQueue)
  <2> HIDE DEF job
  <2>2. /\ R = {} /\ tag.op \in {"request", "write", "finish"}
        /\ tag.op = "request" /\ tag.message = 0 => Made({"finish"}, Finishing(0))
        /\ tag.op = "request" /\ tag.message > 0 => Made({"write"}, Writing(1))
        /\ tag.op = "write" /\ ~tag.ok => Made({}, <<>>)
        /\ tag.op = "write" /\ tag.ok /\ queue = <<>> => Made({"finish"}, Finishing(0))
        /\ tag.op = "write" /\ tag.ok /\ queue # <<>> => Made({"write"}, Writing(Head(queue)))
        /\ tag.op = "finish" => Made({}, <<>>)
    <3>1. ListMade(f, tag, R, job)
      BY <1>5, <2>1, ListMoves
    <3> QED
      BY <1>5, <3>1 DEF ListMade
  <2> HIDE DEF Made, queue
  <2> QED
    BY <1>2, <1>3, <2>2 DEF job
<1>6. CASE Rpc(j) = "RecordRoute"
  <2>1. job = ClientStreamingRpcJob(f, tag, mRecordRouteMap[j])
    BY <1>6 DEF Handled
  <2> HIDE DEF job
  <2>2. /\ R = {} /\ tag.op \in {"request", "read", "finish"}
        /\ tag.op = "request" \/ (tag.op = "read" /\ tag.ok) => Made({"read"}, <<>>)
        /\ tag.op = "read" /\ ~tag.ok => Made({"finish"}, Finishing(mRecordRouteMap[j]))
        /\ tag.op = "finish" => Made({}, <<>>)
    BY <1>6, <2>1, RecordMoves
  <2> HIDE DEF Made
  <2> QED
    BY <1>2, <1>3, <2>2 DEF job
<1>7. CASE Rpc(j) = "RouteChat"
  <2>1. job = BidirectionalStreamingRpcJob(f, tag)
    BY <1>7 DEF Handled
  <2> DEFINE first == Writing(Head(Append(f.mResponseQueue, tag.message)))
             left == Tail(f.mResponseQueue)
  <2> HIDE DEF job
  <2>2. /\ tag.op \in {"request", "finish"} => R = {}
        /\ tag.op = "read" => R \in {{}, {"write"}}
        /\ tag.op = "write" => R \in {{}, {"read"}}
        /\ tag.op \in {"request", "read", "write", "finish"}
        /\ tag.op = "request" => Made({"read"}, <<>>)
        /\ tag.op = "read" /\ tag.ok /\ R = {} => Made({"read", "write"}, first)
        /\ tag.op = "read" /\ tag.ok /\ R # {} => Made({"read"}, <<>>)
        /\ tag.op = "read" /\ ~tag.ok /\ R = {} => Made({"finish"}, Finishing(0))
        /\ tag.op = "read" /\ ~tag.ok /\ R # {} => Made({}, <<>>)
        /\ tag.op = "write" /\ tag.ok /\ left # <<>> => Made({"write"}, Writing(Head(left)))
        /\ tag.op = "write" /\ tag.ok /\ left = <<>> /\ R = {} => Made({"finish"}, Finishing(0))
        /\ tag.op = "write" /\ tag.ok /\ left = <<>> /\ R # {} => Made({}, <<>>)
        /\ tag.op = "write" /\ ~tag.ok => Made({}, <<>>)
        /\ tag.op = "finish" => Made({}, <<>>)
    <3>1. ChatMade(f, tag, R, job)
      BY <1>7, <2>1, ChatMoves
    <3> QED
      BY <1>7, <3>1 DEF ChatMade, left, first
  <2> HIDE DEF Made, left, first
  <2>3. \E starts, out : Made(starts, out) /\ starts \subseteq {"read", "write", "finish"} /\ starts \cap R = {}
                         /\ (tag.op = "request" => starts # {})
    <3>1. CASE tag.op = "request" \/ tag.op = "finish"
      BY <2>2, <3>1
    <3>2. CASE tag.op = "read"
      BY <1>3, <2>2, <3>2
    <3>3. CASE tag.op = "write"
      BY <1>3, <2>2, <3>3
    <3> QED
      BY <2>2, <3>1, <3>2, <3>3
  <2> QED
    BY <1>2, <2>2, <2>3 DEF job
<1> QED
  BY <1>1, <1>4, <1>5, <1>6, <1>7 DEF Rpcs

-----------------------------------------------------------------------------
\* The operations of jobs ---------------------------------------------------

\* HandleRpcs moves an operation from the runtime to the queue: the job need not know.
LEMMA ReportedOp ==
  ASSUME OpsInv, NEW j \in Jobs, NEW op \in pending[j], NEW ok \in BOOLEAN, NEW m \in Nat, op # "request",
         Report(j, op, ok, m), UNCHANGED <<rpc, jobs>>
  PROVE  /\ OneEach' /\ LiveOps' /\ gIncomingTags' \in Seq(Tags) /\ pending' \in [Jobs -> SUBSET AllOps]
         /\ Waiting' = Waiting \cup {[job |-> j, op |-> op, ok |-> ok, message |-> m]}
         /\ \A k \in Jobs : /\ Ops(k)' = Ops(k)
                            /\ OpsIn(Waiting, k)' = OpsIn(Waiting, k) \cup IF k = j THEN {op} ELSE {}
         /\ op \notin OpsIn(Waiting, j)
<1>1. /\ OneEach' /\ gIncomingTags' \in Seq(Tags) /\ pending' \in [Jobs -> SUBSET AllOps]
      /\ Waiting' = Waiting \cup {[job |-> j, op |-> op, ok |-> ok, message |-> m]}
      /\ \A k \in Jobs : /\ Ops(k)' = Ops(k) \cup IF k = j /\ op = "request" THEN {"done"} ELSE {}
                         /\ "request" \in pending'[k] <=> "request" \in pending[k] /\ ~(k = j /\ op = "request")
                         /\ OpsIn(Waiting, k)' = OpsIn(Waiting, k) \cup IF k = j THEN {op} ELSE {}
      /\ op \notin OpsIn(Waiting, j)
  <2>1. StreamTypes /\ OneEach
    BY DEF OpsInv
  <2> QED
    BY <2>1, Reporting
<1>2. \A k \in Jobs : Ops(k)' = Ops(k)
  <2>1. \A k : (IF k = j /\ op = "request" THEN {"done"} ELSE {}) = {}
    OBVIOUS
  <2>2. \A k \in Jobs : Ops(k)' = Ops(k) \cup {}
    BY <1>1, <2>1
  <2> QED
    BY <2>2
<1>3. LiveOps'
  <2>1. Calls' = Calls
    BY DEF Calls
  <2>2. \A k \in Jobs : jobs'[k] = jobs[k] /\ ("request" \in pending'[k] <=> "request" \in pending[k])
    BY <1>1
  <2> QED
    BY <1>2, <2>1, <2>2 DEF OpsInv, LiveOps, LiveAt
<1> QED
  BY <1>1, <1>2, <1>3

\* A job with an operation that has begun serves a call.
LEMMA BegunServes ==
  ASSUME OpsInv, NEW j \in Jobs, NEW op \in Ops(j), op # "request" \/ op \notin pending[j]
  PROVE  /\ jobs[j] \in JobRecords /\ jobs[j] # NoJob /\ jobs[j].call \in Calls
         /\ LiveAt(Rpc(j), jobs[j], Ops(j), FALSE) /\ "request" \notin pending[j]
<1>1. jobs[j] # NoJob /\ jobs[j] \in JobRecords
  BY DEF OpsInv, LiveOps, StreamTypes
<1>2. LiveAt(Rpc(j), jobs[j], Ops(j), "request" \in pending[j]) /\ jobs[j].call \in Calls \cup {NoCall}
  BY <1>1 DEF OpsInv, LiveOps
<1>3. "request" \notin pending[j]
  <2>1. CASE op = "request"
    BY <2>1
  <2>2. CASE op # "request"
    <3>1. op # "done" => ~("request" \in Ops(j))
      BY <1>2, <2>2 DEF LiveAt, JobOk, FieldsOk, OpSets
    <3>2. op = "done" => jobs[j].call # NoCall
      BY <1>2 DEF LiveAt
    <3> QED
      BY <1>2, <3>1, <3>2 DEF LiveAt, Ops
  <2> QED
    BY <2>1, <2>2
<1>4. LiveAt(Rpc(j), jobs[j], Ops(j), FALSE)
  BY <1>2, <1>3 DEF LiveAt
<1> QED
  BY <1>1, <1>2, <1>3, <1>4 DEF LiveAt

\* A call is taken by a job that waits for one.
LEMMA RequestedJob ==
  ASSUME OpsInv, NEW j \in Jobs, "request" \in pending[j]
  PROVE  /\ jobs[j] \in JobRecords /\ jobs[j].call = NoCall /\ ~jobs[j].mOnDoneCalled /\ Ops(j) = {"request"}
         /\ JobOk(Rpc(j), jobs[j], {"request"}) /\ jobs[j] # NoJob
<1>1. "request" \in Ops(j)
  BY DEF Ops
<1>2. jobs[j] # NoJob /\ jobs[j] \in JobRecords
  BY <1>1 DEF OpsInv, LiveOps, StreamTypes
<1>3. LiveAt(Rpc(j), jobs[j], Ops(j), TRUE)
  BY <1>2 DEF OpsInv, LiveOps, LiveAt
<1>4. Ops(j) \ {"done"} = {"request"} /\ "done" \notin Ops(j)
  BY <1>1, <1>3 DEF LiveAt, JobOk, FieldsOk, OpSets
<1> QED
  BY <1>2, <1>3, <1>4 DEF LiveAt

RequestTag(j, n) == [job |-> j, op |-> "request", ok |-> TRUE, message |-> n]

LEMMA AcceptOps ==
  ASSUME OpsInv, NEW j \in Jobs, NEW c \in Calls, Accept(j, c), StreamAssumption
  PROVE  /\ OpsInv' /\ UNCHANGED <<rpc, call, got, mRecordRouteMap>>
         /\ \E n \in Nat : /\ rpc[c] # "ListFeatures" => n = 0
                          /\ sent' = [sent EXCEPT ![c] = n]
                          /\ Waiting' = Waiting \cup {RequestTag(j, n)}
         /\ jobs[j] # NoJob /\ jobs[j].call = NoCall /\ Ops(j) = {"request"} /\ Ops(j)' = {"request", "done"}
         /\ "request" \notin OpsIn(Waiting, j)
         /\ jobs'[j] # NoJob /\ jobs'[j].call = c /\ ~jobs'[j].mOnDoneCalled
         /\ \A k \in Jobs : k # j => jobs'[k] = jobs[k] /\ Ops(k)' = Ops(k)
<1>1. /\ jobs[j] \in JobRecords /\ jobs[j].call = NoCall /\ ~jobs[j].mOnDoneCalled /\ Ops(j) = {"request"}
      /\ JobOk(Rpc(j), jobs[j], {"request"}) /\ jobs[j] # NoJob
  BY RequestedJob DEF Accept
<1>2. PICK n \in Nat : /\ sent' = [sent EXCEPT ![c] = n] /\ Report(j, "request", TRUE, n)
                       /\ rpc[c] # "ListFeatures" => n = 0
  <2>1. rpc[c] \in Rpcs
    BY DEF OpsInv, StreamTypes, Calls, StreamAssumption
  <2>2. Messages[rpc[c]] \in Nat
    BY <2>1 DEF StreamAssumption
  <2> DEFINE most == Messages[rpc[c]]
             numbers == IF rpc[c] = "ListFeatures" THEN 0 .. most ELSE {0}
  <2>3. \E n \in numbers : sent' = [sent EXCEPT ![c] = n] /\ Report(j, "request", TRUE, n)
    BY DEF Accept
  <2> HIDE DEF most
  <2>4. numbers \subseteq Nat /\ (rpc[c] # "ListFeatures" => numbers = {0})
    BY <2>2 DEF most
  <2> HIDE DEF numbers
  <2>5. PICK n \in numbers : sent' = [sent EXCEPT ![c] = n] /\ Report(j, "request", TRUE, n)
    BY <2>3
  <2>6. n \in Nat /\ (rpc[c] # "ListFeatures" => n = 0)
    BY <2>4
  <2> QED
    BY <2>5, <2>6
<1>3. /\ OneEach' /\ gIncomingTags' \in Seq(Tags) /\ pending' \in [Jobs -> SUBSET AllOps]
      /\ \A k \in Jobs : /\ Ops(k)' = Ops(k) \cup IF k = j THEN {"done"} ELSE {}
                         /\ "request" \in pending'[k] <=> "request" \in pending[k] /\ k # j
      /\ Waiting' = Waiting \cup {RequestTag(j, n)}
      /\ "request" \notin OpsIn(Waiting, j)
  <2>1. "request" \in pending[j] /\ "done" \notin Ops(j)
    BY <1>1 DEF Accept
  <2>2. StreamTypes /\ OneEach
    BY DEF OpsInv
  <2>3. /\ OneEach' /\ gIncomingTags' \in Seq(Tags) /\ pending' \in [Jobs -> SUBSET AllOps]
        /\ \A k \in Jobs : /\ Ops(k)' = Ops(k) \cup IF k = j THEN {"done"} ELSE {}
                           /\ "request" \in pending'[k] <=> "request" \in pending[k] /\ k # j
        /\ "request" \notin OpsIn(Waiting, j)
    BY <1>2, <2>1, <2>2, Reporting
  <2>4. Waiting' = Waiting \cup {RequestTag(j, n)}
    BY <1>2, <2>1, <2>2, Reporting DEF RequestTag
  <2> QED
    BY <2>3, <2>4
<1>4. c \in Nat /\ c # NoCall
  BY DEF OpsInv, StreamTypes, Calls, StreamAssumption, NoCall
<1> DEFINE job == [jobs[j] EXCEPT !.call = c]
<1>5. /\ jobs' = [jobs EXCEPT ![j] = job] /\ UNCHANGED <<rpc, call, got, mRecordRouteMap>>
      /\ Calls' = Calls
  BY DEF Accept, Calls
<1>6. /\ job \in JobRecords /\ job # NoJob /\ JobOk(Rpc(j), job, {"request"}) /\ job.call = c
      /\ job.mOnDoneCalled = jobs[j].mOnDoneCalled
  <2>1. job \in JobRecords
    BY <1>1, <1>4, FieldsSet
  <2>2. /\ job.mAsyncOpCounter = jobs[j].mAsyncOpCounter
        /\ job.mAsyncWriteInProgress = jobs[j].mAsyncWriteInProgress
        /\ job.mResponseQueue = jobs[j].mResponseQueue /\ job.mServerStreamingDone = jobs[j].mServerStreamingDone
        /\ job.mClientStreamingDone = jobs[j].mClientStreamingDone
        /\ job.starts = jobs[j].starts /\ job.out = jobs[j].out
        /\ job.mOnDoneCalled = jobs[j].mOnDoneCalled /\ job.call = c
    BY <1>1 DEF JobRecords
  <2> HIDE DEF job
  <2>3. JobOk(Rpc(j), job, {"request"})
    BY <1>1, <2>2 DEF JobOk, FieldsOk
  <2> QED
    BY <2>1, <2>2, <2>3, RpcJobIsJob
<1> HIDE DEF job
<1>7. jobs \in [Jobs -> JobRecords \cup {NoJob}]
  BY DEF OpsInv, StreamTypes
<1>8. StreamTypes'
  <2>1. sent' \in [Calls -> Nat]
    BY <1>2 DEF OpsInv, StreamTypes
  <2>2. gIncomingTags' \in Seq(Tags) /\ pending' \in [Jobs -> SUBSET AllOps]
    BY <1>3
  <2> QED
    BY <1>5, <1>6, <2>1, <2>2 DEF OpsInv, StreamTypes
<1>9. ASSUME NEW k \in Jobs
      PROVE  IF jobs'[k] = NoJob THEN Ops(k)' = {}
             ELSE /\ LiveAt(Rpc(k), jobs'[k], Ops(k)', "request" \in pending'[k])
                  /\ jobs'[k].call \in Calls' \cup {NoCall}
  <2>1. CASE k = j
    <3>1. jobs'[k] = job /\ Ops(k)' = {"request", "done"} /\ "request" \notin pending'[k]
      BY <1>1, <1>3, <1>5, <1>7, <2>1
    <3>2. {"request", "done"} \ {"done"} = {"request"}
      OBVIOUS
    <3>3. LiveAt(Rpc(k), job, {"request", "done"}, FALSE)
      BY <1>1, <1>4, <1>6, <2>1, <3>2 DEF LiveAt
    <3>4. LiveAt(Rpc(k), jobs'[k], Ops(k)', "request" \in pending'[k])
      BY <3>1, <3>3 DEF LiveAt
    <3> QED
      BY <1>5, <1>6, <3>1, <3>4
  <2>2. CASE k # j
    <3>1. jobs'[k] = jobs[k] /\ Ops(k)' = Ops(k) /\ ("request" \in pending'[k] <=> "request" \in pending[k])
      BY <1>3, <1>5, <1>7, <2>2
    <3> QED
      BY <1>5, <3>1 DEF OpsInv, LiveOps, LiveAt
  <2> QED
    BY <2>1, <2>2
<1>10. LiveOps'
  BY <1>9 DEF LiveOps
<1>11. OpsInv'
  BY <1>3, <1>8, <1>10 DEF OpsInv
<1>12. \A k \in Jobs : IF k = j THEN jobs'[k] = job /\ Ops(k)' = {"request", "done"}
                      ELSE jobs'[k] = jobs[k] /\ Ops(k)' = Ops(k)
  BY <1>1, <1>3, <1>5, <1>7
<1>13. \E m \in Nat : /\ rpc[c] # "ListFeatures" => m = 0
                     /\ sent' = [sent EXCEPT ![c] = m] /\ Waiting' = Waiting \cup {RequestTag(j, m)}
  <2>1. (rpc[c] # "ListFeatures" => n = 0) /\ sent' = [sent EXCEPT ![c] = n] /\ Waiting' = Waiting \cup {RequestTag(j, n)}
    BY <1>2, <1>3
  <2> QED
    BY <2>1
<1>14. "request" \notin OpsIn(Waiting, j)
  BY <1>3
<1> QED
  BY <1>1, <1>5, <1>6, <1>11, <1>12, <1>13, <1>14

LEMMA ReportOps ==
  ASSUME OpsInv, StreamAssumption, NEW j \in Jobs,
         ReadMessage(j) \/ ReadEnds(j) \/ RpcDone(j) \/ \E op \in {"write", "finish"} : Written(j, op)
  PROVE  OpsInv'
<1>1. ASSUME NEW op \in pending[j], NEW ok \in BOOLEAN, NEW m \in Nat, op # "request", Report(j, op, ok, m),
             UNCHANGED <<rpc, call, got, jobs, mRecordRouteMap>>, sent' \in [Calls -> Nat]
      PROVE  OpsInv'
  <2>1. OneEach' /\ LiveOps' /\ gIncomingTags' \in Seq(Tags) /\ pending' \in [Jobs -> SUBSET AllOps]
    BY <1>1, ReportedOp
  <2>2. Calls' = Calls
    BY <1>1 DEF Calls
  <2>3. StreamTypes'
    BY <1>1, <2>1, <2>2 DEF OpsInv, StreamTypes
  <2> QED
    BY <2>1, <2>3 DEF OpsInv
<1>2. sent \in [Calls -> Nat]
  BY DEF OpsInv, StreamTypes
<1>3. CASE ReadMessage(j)
  <2>1. "read" \in pending[j] /\ "read" \in Ops(j)
    BY <1>3 DEF ReadMessage, Ops
  <2>2. jobs[j].call \in Calls
    BY <2>1, BegunServes
  <2>3. sent[jobs[j].call] + 1 \in Nat /\ sent' \in [Calls -> Nat]
    BY <1>2, <1>3, <2>2 DEF ReadMessage
  <2> QED
    BY <1>1, <1>3, <2>1, <2>3 DEF ReadMessage
<1>4. CASE ReadEnds(j)
  BY <1>1, <1>2, <1>4 DEF ReadEnds, clientVars
<1>5. CASE RpcDone(j)
  BY <1>1, <1>2, <1>5 DEF RpcDone, clientVars
<1>6. ASSUME NEW op \in {"write", "finish"}, Written(j, op) PROVE OpsInv'
  <2>1. PICK ok \in BOOLEAN : Report(j, op, ok, 0)
    BY <1>6 DEF Written
  <2> QED
    BY <1>1, <1>2, <1>6, <2>1 DEF Written, clientVars
<1> QED
  BY <1>3, <1>4, <1>5, <1>6

LEMMA ClientOps ==
  ASSUME OpsInv, NEW c \in Calls, Call(c) \/ GoAway(c)
  PROVE  OpsInv'
<1>1. UNCHANGED <<rpc, sent, got, jobs, pending, gIncomingTags, mRecordRouteMap>> /\ call' \in [Calls -> CallStates]
  BY DEF Call, GoAway, OpsInv, StreamTypes, CallStates
<1>2. Calls' = Calls /\ Waiting' = Waiting /\ \A k \in Jobs : Ops(k)' = Ops(k)
  BY <1>1 DEF Calls, Waiting, Ops
<1> QED
  BY <1>1, <1>2 DEF OpsInv, StreamTypes, OneEach, LiveOps

\* What processRpcs finds when it calls the tag of an operation.
LEMMA Processing ==
  ASSUME OpsInv, gIncomingTags # <<>>, Head(gIncomingTags).op # "done"
  PROVE  LET tag == Head(gIncomingTags)
             j == tag.job
             R == (Ops(j) \ {"done"}) \ {tag.op}
             f == AsyncOpFinished(jobs[j], tag.op)
         IN  /\ tag \in Tags /\ tag \in Waiting /\ j \in Jobs /\ tag.op \in Ops(j) /\ tag.op \notin pending[j]
             /\ jobs[j] \in JobRecords /\ jobs[j] # NoJob /\ jobs[j].call \in Calls
             /\ LiveAt(Rpc(j), jobs[j], Ops(j), FALSE)
             /\ Halfway(Rpc(j), f, R, tag.op) /\ SameBut(f, jobs[j])
             /\ f.mResponseQueue = jobs[j].mResponseQueue
             /\ IsDone(f) <=> R = {} /\ jobs[j].mOnDoneCalled
             /\ Handles(Rpc(j), f, Handled(j, f, tag), R)
             /\ tag.op = "request" => R = {} /\ Handled(j, f, tag).starts # {}
<1> DEFINE tag == Head(gIncomingTags)
           j == tag.job
           O == Ops(j) \ {"done"}
           R == O \ {tag.op}
           f == AsyncOpFinished(jobs[j], tag.op)
<1>1. tag \in Tags /\ tag \in Waiting
  BY Removed DEF OpsInv, StreamTypes, OneEach, Waiting
<1>2. j \in Jobs /\ mRecordRouteMap[j] \in Nat
  BY <1>1 DEF Tags, OpsInv, StreamTypes
<1>3. tag.op \in OpsIn(Waiting, j)
  BY <1>1 DEF OpsIn
<1>4. tag.op \in Ops(j) /\ tag.op \notin pending[j] /\ tag.op \in O
  BY <1>2, <1>3 DEF Ops, OpsInv, OneEach
<1> HIDE DEF tag, O, f
<1>5. /\ jobs[j] \in JobRecords /\ jobs[j] # NoJob /\ jobs[j].call \in Calls
      /\ LiveAt(Rpc(j), jobs[j], Ops(j), FALSE)
  BY <1>2, <1>4, BegunServes
<1>6. Rpc(j) \in Rpcs /\ JobOk(Rpc(j), jobs[j], O)
  BY <1>2, <1>5 DEF Jobs, Rpc, LiveAt, O
<1>7. /\ Halfway(Rpc(j), f, R, tag.op) /\ SameBut(f, jobs[j]) /\ f.mResponseQueue = jobs[j].mResponseQueue
      /\ IsDone(f) <=> O = {tag.op} /\ jobs[j].mOnDoneCalled
  <2>1. Taken(Rpc(j), jobs[j], O, tag.op, f)
    BY <1>4, <1>5, <1>6, TakenFields DEF f
  <2> QED
    BY <2>1 DEF Taken
<1>8. O = {tag.op} <=> R = {}
  BY <1>4
<1> HIDE DEF R
<1>9. /\ Handles(Rpc(j), f, Handled(j, f, tag), R)
      /\ tag.op = "request" => R = {} /\ Handled(j, f, tag).starts # {}
  BY <1>1, <1>2, <1>7, HandledMoves
<1> QED
  BY <1>1, <1>2, <1>4, <1>5, <1>7, <1>8, <1>9 DEF tag, R, O, f

\* The job as it is kept.
IsKept(r, f, job, R, kept) ==
  /\ kept \in JobRecords /\ kept # NoJob /\ kept.call = f.call /\ kept.mOnDoneCalled = f.mOnDoneCalled
  /\ FieldsOk(r, kept, R \cup job.starts) /\ kept.starts = {} /\ kept.out = <<>>
  /\ kept.mResponseQueue = job.mResponseQueue

LEMMA SettledFields ==
  ASSUME NEW r, NEW f, NEW job, NEW R, Handles(r, f, job, R)
  PROVE  IsKept(r, f, job, R, Settled(job))
<1> DEFINE kept == Settled(job)
<1>1. job \in JobRecords
  BY DEF Handles
<1>2. kept \in JobRecords
  BY <1>1, EmptySeq DEF Settled, JobRecords
<1>3. /\ kept.call = job.call /\ kept.mOnDoneCalled = job.mOnDoneCalled
      /\ kept.mAsyncOpCounter = job.mAsyncOpCounter /\ kept.mAsyncWriteInProgress = job.mAsyncWriteInProgress
      /\ kept.mResponseQueue = job.mResponseQueue /\ kept.mServerStreamingDone = job.mServerStreamingDone
      /\ kept.mClientStreamingDone = job.mClientStreamingDone /\ kept.starts = {} /\ kept.out = <<>>
  BY <1>1 DEF Settled, JobRecords
<1> HIDE DEF kept
<1>4. FieldsOk(r, kept, R \cup job.starts)
  BY <1>3 DEF Handles, FieldsOk
<1> QED
  BY <1>2, <1>3, <1>4, RpcJobIsJob DEF Handles, kept, IsKept

LEMMA Delivering ==
  ASSUME StreamTypes, NEW job \in JobRecords, Deliver(job)
  PROVE  call' \in [Calls -> CallStates] /\ got' \in [Calls -> Seq(Given)]
<1>1. job.out \in Seq(Given)
  BY DEF JobRecords
<1>2. CASE call[job.call] = "open"
  <2> DEFINE c == job.call
  <2>1. c \in Calls => got[c] \o job.out \in Seq(Given)
    BY <1>1, ConcatProperties DEF StreamTypes
  <2>2. got' = [got EXCEPT ![c] = @ \o job.out]
        /\ call' = IF "finish" \in job.starts THEN [call EXCEPT ![c] = "closed"] ELSE call
    BY <1>2 DEF Deliver
  <2> HIDE DEF c
  <2> QED
    BY <2>1, <2>2 DEF StreamTypes, CallStates
<1>3. CASE call[job.call] # "open"
  BY <1>3 DEF Deliver, StreamTypes
<1> QED
  BY <1>2, <1>3

LEMMA KeptLive ==
  ASSUME NEW r, NEW before, NEW O, LiveAt(r, before, O, FALSE), NEW op, op # "done",
         NEW f, SameBut(f, before), NEW job, Handles(r, f, job, (O \ {"done"}) \ {op}),
         ((O \ {"done"}) \ {op}) \cup job.starts = {} => ~before.mOnDoneCalled
  PROVE  LiveAt(r, Settled(job), (O \ {op}) \cup job.starts, FALSE)
<1> DEFINE R == (O \ {"done"}) \ {op}
           kept == Settled(job)
           Next1 == (O \ {op}) \cup job.starts
<1>1. /\ kept.call = f.call /\ kept.mOnDoneCalled = f.mOnDoneCalled /\ FieldsOk(r, kept, R \cup job.starts)
      /\ kept.starts = {} /\ kept.out = <<>>
  <2>1. Handles(r, f, job, R)
    OBVIOUS
  <2> HIDE DEF R
  <2>2. IsKept(r, f, job, R, kept)
    BY <2>1, SettledFields
  <2> HIDE DEF kept
  <2> QED
    BY <2>2 DEF IsKept
<1>2. f.call = before.call /\ f.mOnDoneCalled = before.mOnDoneCalled
  BY DEF SameBut
<1>3. Next1 \ {"done"} = R \cup job.starts /\ ("done" \in Next1 <=> "done" \in O)
  BY DEF Handles
<1> HIDE DEF kept, Next1, R
<1>4. JobOk(r, kept, Next1 \ {"done"})
  BY <1>1, <1>2, <1>3 DEF JobOk, R
<1>5. LiveAt(r, kept, Next1, FALSE)
  BY <1>1, <1>2, <1>3, <1>4 DEF LiveAt
<1> QED
  BY <1>5 DEF kept, Next1

\* When no job but j, and perhaps an address that was free, is touched.
LEMMA OthersLive ==
  ASSUME OpsInv, NEW k \in Jobs, rpc' = rpc, jobs'[k] = jobs[k], Ops(k)' = Ops(k), pending'[k] = pending[k]
  PROVE  IF jobs'[k] = NoJob THEN Ops(k)' = {}
         ELSE LiveAt(Rpc(k), jobs'[k], Ops(k)', "request" \in pending'[k]) /\ jobs'[k].call \in Calls' \cup {NoCall}
<1>1. Calls' = Calls
  BY DEF Calls
<1> QED
  BY <1>1 DEF OpsInv, LiveOps

\* Nothing is left of a job that is deleted.
LEMMA DeletedOps ==
  ASSUME OpsInv, gIncomingTags # <<>>, gIncomingTags' = Tail(gIncomingTags), UNCHANGED <<rpc, sent>>,
         NEW j \in Jobs, Delete(j), j = Head(gIncomingTags).job, Ops(j) = {Head(gIncomingTags).op}
  PROVE  /\ OpsInv' /\ Waiting' = Waiting \ {Head(gIncomingTags)}
         /\ \A k \in Jobs \ {j} : Ops(k)' = Ops(k) /\ OpsIn(Waiting, k)' = OpsIn(Waiting, k)
         /\ \A k \in Jobs \ {j} : jobs'[k] = jobs[k]
<1> DEFINE X == [k \in Jobs |-> {}]
<1>1. pending' = pending /\ pending' \in [Jobs -> SUBSET AllOps] /\ X \in [Jobs -> SUBSET AllOps]
  BY DEF Delete, OpsInv, StreamTypes
<1>2. \A k \in Jobs : /\ pending'[k] = pending[k] \cup X[k]
                      /\ \A op \in X[k] : op \notin Ops(k) \/ (k = Head(gIncomingTags).job
                                                                /\ op = Head(gIncomingTags).op)
  BY <1>1
<1>3. /\ OneEach' /\ gIncomingTags' \in Seq(Tags) /\ Waiting' = Waiting \ {Head(gIncomingTags)}
      /\ Ops(j)' = (Ops(j) \ {Head(gIncomingTags).op}) \cup X[j]
      /\ OpsIn(Waiting, j)' = OpsIn(Waiting, j) \ {Head(gIncomingTags).op}
      /\ \A k \in Jobs : k # j => Ops(k)' = Ops(k) \cup X[k] /\ OpsIn(Waiting, k)' = OpsIn(Waiting, k)
  BY <1>1, <1>2, Taking DEF OpsInv
<1>4. /\ \A k \in Jobs \ {j} : Ops(k)' = Ops(k) /\ OpsIn(Waiting, k)' = OpsIn(Waiting, k)
      /\ Ops(j)' = {}
  <2>1. \A k \in Jobs : X[k] = {}
    OBVIOUS
  <2> HIDE DEF X
  <2>2. ASSUME NEW k \in Jobs, k # j PROVE Ops(k)' = Ops(k) /\ OpsIn(Waiting, k)' = OpsIn(Waiting, k)
    <3>1. Ops(k)' = Ops(k) \cup X[k] /\ OpsIn(Waiting, k)' = OpsIn(Waiting, k)
      BY <1>3, <2>2
    <3> QED
      BY <2>1, <3>1
  <2>3. Ops(j)' = Ops(j) \ {Head(gIncomingTags).op}
    BY <1>3, <2>1
  <2> QED
    BY <2>2, <2>3
<1>5. /\ jobs' = [jobs EXCEPT ![j] = NoJob] /\ jobs' \in [Jobs -> JobRecords \cup {NoJob}]
      /\ \A k \in Jobs \ {j} : jobs'[k] = jobs[k]
      /\ jobs'[j] = NoJob /\ Calls' = Calls
  BY DEF Delete, OpsInv, StreamTypes, Calls
<1>6. StreamTypes'
  BY <1>1, <1>3, <1>5 DEF Delete, OpsInv, StreamTypes
<1>7. LiveOps'
  <2>1. ASSUME NEW k \in Jobs
        PROVE  IF jobs'[k] = NoJob THEN Ops(k)' = {}
               ELSE /\ LiveAt(Rpc(k), jobs'[k], Ops(k)', "request" \in pending'[k])
                    /\ jobs'[k].call \in Calls' \cup {NoCall}
    <3>1. CASE k = j
      BY <1>4, <1>5, <3>1
    <3>2. CASE k # j
      BY <1>1, <1>4, <1>5, <3>2, OthersLive
    <3> QED
      BY <3>1, <3>2
  <2> QED
    BY <2>1 DEF LiveOps
<1> QED
  BY <1>3, <1>4, <1>5, <1>6, <1>7 DEF OpsInv

\* The end of an rpc is noted, and the job deleted if it has nothing else left.
LEMMA DoneStep ==
  ASSUME OpsInv, OnDone
  PROVE  \E tag \in Tags :
           LET j == tag.job
           IN  /\ tag \in Waiting /\ tag.op = "done" /\ OpsInv' /\ Waiting' = Waiting \ {tag}
               /\ UNCHANGED <<rpc, call, sent, got, mRecordRouteMap>> /\ jobs[j] # NoJob
               /\ \A k \in Jobs : k # j => Ops(k)' = Ops(k) /\ jobs'[k] = jobs[k]
               /\ \/ jobs'[j] = NoJob /\ Ops(j) = {"done"}
                  \/ /\ jobs'[j] # NoJob /\ Ops(j)' = Ops(j) \ {"done"}
                     /\ jobs'[j].call = jobs[j].call /\ jobs'[j].mResponseQueue = jobs[j].mResponseQueue
<1>0. PICK tag \in Tags : tag = Head(gIncomingTags) /\ tag \in Waiting
  BY Removed DEF OpsInv, StreamTypes, OneEach, Waiting, OnDone
<1> DEFINE j == tag.job
           job == [jobs[j] EXCEPT !.mOnDoneCalled = TRUE]
<1>1. tag \in Waiting /\ gIncomingTags # <<>> /\ tag.op = "done"
  BY <1>0 DEF OnDone
<1>2. j \in Jobs /\ "done" \in OpsIn(Waiting, j)
  BY <1>1 DEF Tags, OpsIn
<1>3. "done" \in Ops(j) /\ "done" \notin pending[j]
  BY <1>2 DEF Ops, OpsInv, OneEach
<1>4. /\ jobs[j] \in JobRecords /\ jobs[j] # NoJob /\ jobs[j].call \in Calls
      /\ LiveAt(Rpc(j), jobs[j], Ops(j), FALSE) /\ "request" \notin pending[j]
  BY <1>2, <1>3, BegunServes
<1>5. /\ job \in JobRecords /\ job # NoJob /\ job.mOnDoneCalled /\ job.call = jobs[j].call
      /\ job.mAsyncOpCounter = jobs[j].mAsyncOpCounter
      /\ job.mAsyncWriteInProgress = jobs[j].mAsyncWriteInProgress
      /\ job.mResponseQueue = jobs[j].mResponseQueue /\ job.mServerStreamingDone = jobs[j].mServerStreamingDone
      /\ job.mClientStreamingDone = jobs[j].mClientStreamingDone
      /\ job.starts = jobs[j].starts /\ job.out = jobs[j].out
  <2>1. job \in JobRecords
    BY <1>4, FieldsSet
  <2>2. job # NoJob
    BY <2>1, RpcJobIsJob
  <2> QED
    BY <1>4, <2>1, <2>2 DEF JobRecords
<1>6. OnDone => /\ UNCHANGED <<rpc, sent>> /\ gIncomingTags' = Tail(gIncomingTags)
                /\ IF IsDone(job) THEN Delete(j)
                   ELSE jobs' = [jobs EXCEPT ![j] = job] /\ UNCHANGED <<got, call, pending, mRecordRouteMap>>
  BY <1>0 DEF OnDone
<1> HIDE DEF job
<1>7. IsDone(job) <=> Ops(j) = {"done"}
  <2>1. Number(Ops(j) \ {"done"}) = 0 <=> Ops(j) \ {"done"} = {}
    BY DEF Number
  <2> QED
    BY <1>3, <1>4, <1>5, <2>1 DEF IsDone, LiveAt, JobOk, FieldsOk
<1>8. CASE IsDone(job)
  <2>1. Delete(j) /\ UNCHANGED <<rpc, sent>> /\ gIncomingTags' = Tail(gIncomingTags) /\ Ops(j) = {"done"}
    BY <1>6, <1>7, <1>8
  <2>2. /\ OpsInv' /\ Waiting' = Waiting \ {tag}
        /\ \A k \in Jobs \ {j} : Ops(k)' = Ops(k) /\ jobs'[k] = jobs[k]
    BY <1>0, <1>1, <1>2, <2>1, DeletedOps
  <2>3. jobs'[j] = NoJob /\ UNCHANGED <<got, call, mRecordRouteMap>>
    BY <1>2, <2>1 DEF Delete, OpsInv, StreamTypes
  <2> QED
    BY <1>1, <1>4, <2>1, <2>2, <2>3
<1>9. CASE ~IsDone(job)
  <2> DEFINE X == [k \in Jobs |-> {}]
  <2>1. /\ pending' = pending /\ pending' \in [Jobs -> SUBSET AllOps] /\ X \in [Jobs -> SUBSET AllOps]
        /\ jobs' = [jobs EXCEPT ![j] = job] /\ UNCHANGED <<rpc, sent, got, call, mRecordRouteMap>>
        /\ gIncomingTags' = Tail(gIncomingTags)
    BY <1>6, <1>9 DEF OpsInv, StreamTypes
  <2>2. \A k \in Jobs : /\ pending'[k] = pending[k] \cup X[k]
                        /\ \A op \in X[k] : op \notin Ops(k) \/ (k = Head(gIncomingTags).job
                                                                  /\ op = Head(gIncomingTags).op)
    BY <2>1
  <2>3. /\ OneEach' /\ gIncomingTags' \in Seq(Tags) /\ Waiting' = Waiting \ {tag}
        /\ Ops(j)' = (Ops(j) \ {tag.op}) \cup X[j]
        /\ OpsIn(Waiting, j)' = OpsIn(Waiting, j) \ {tag.op}
        /\ \A k \in Jobs : k # j => Ops(k)' = Ops(k) \cup X[k] /\ OpsIn(Waiting, k)' = OpsIn(Waiting, k)
    BY <1>0, <1>1, <1>2, <2>1, <2>2, Taking DEF OpsInv
  <2>4. /\ \A k \in Jobs \ {j} : Ops(k)' = Ops(k)
        /\ Ops(j)' = Ops(j) \ {"done"}
    <3>1. \A k \in Jobs : X[k] = {}
      OBVIOUS
    <3> HIDE DEF X
    <3>2. ASSUME NEW k \in Jobs \ {j} PROVE Ops(k)' = Ops(k)
      BY <1>2, <2>3, <3>1
    <3>3. Ops(j)' = Ops(j) \ {tag.op}
      BY <1>0, <1>2, <2>3, <3>1
    <3> QED
      BY <1>1, <3>2, <3>3
  <2>5. /\ jobs' \in [Jobs -> JobRecords \cup {NoJob}] /\ jobs'[j] = job /\ Calls' = Calls
        /\ \A k \in Jobs \ {j} : jobs'[k] = jobs[k]
    BY <1>2, <1>5, <2>1 DEF OpsInv, StreamTypes, Calls
  <2>6. StreamTypes'
    BY <2>1, <2>3, <2>5 DEF OpsInv, StreamTypes
  <2>7. LiveAt(Rpc(j), job, Ops(j) \ {"done"}, FALSE)
    <3>1. (Ops(j) \ {"done"}) \ {"done"} = Ops(j) \ {"done"} /\ Ops(j) \ {"done"} # {}
      BY <1>3, <1>7, <1>9
    <3>2. JobOk(Rpc(j), job, Ops(j) \ {"done"})
      BY <1>4, <1>5, <3>1 DEF LiveAt, JobOk, FieldsOk
    <3> QED
      BY <1>3, <1>4, <1>5, <3>1, <3>2 DEF LiveAt
  <2>8. LiveOps'
    <3>1. ASSUME NEW k \in Jobs
          PROVE  IF jobs'[k] = NoJob THEN Ops(k)' = {}
                 ELSE /\ LiveAt(Rpc(k), jobs'[k], Ops(k)', "request" \in pending'[k])
                      /\ jobs'[k].call \in Calls' \cup {NoCall}
      <4>1. CASE k = j
        <5>1. LiveAt(Rpc(j), job, Ops(j) \ {"done"}, "request" \in pending'[j])
          BY <1>4, <2>1, <2>7 DEF LiveAt
        <5>2. LiveAt(Rpc(k), jobs'[k], Ops(k)', "request" \in pending'[k])
          BY <2>4, <2>5, <4>1, <5>1 DEF LiveAt
        <5> QED
          BY <1>4, <1>5, <2>5, <4>1, <5>2
      <4>2. CASE k # j
        BY <2>1, <2>4, <2>5, <4>2, OthersLive
      <4> QED
        BY <4>1, <4>2
    <3> QED
      BY <3>1 DEF LiveOps
  <2>9. OpsInv'
    BY <2>3, <2>6, <2>8 DEF OpsInv
  <2> QED
    BY <1>1, <1>4, <1>5, <2>1, <2>3, <2>4, <2>5, <2>9
<1> QED
  BY <1>8, <1>9

\* An operation starts others: what changes of the job it belongs to, and the queue.
LEMMA OperationStep ==
  ASSUME OpsInv, OnOperation
  PROVE  \E tag \in Tags :
           LET j == tag.job
               f == AsyncOpFinished(jobs[j], tag.op)
               job == Handled(j, f, tag)
           IN  /\ tag = Head(gIncomingTags) /\ tag \in Waiting /\ tag.op \in {"read", "write", "finish"}
               /\ OpsInv' /\ Waiting' = Waiting \ {tag} /\ UNCHANGED <<rpc, sent>>
               /\ \A k \in Jobs : k # j => /\ Ops(k)' = Ops(k) /\ OpsIn(Waiting, k)' = OpsIn(Waiting, k)
                                           /\ jobs'[k] = jobs[k] /\ mRecordRouteMap'[k] = mRecordRouteMap[k]
               /\ IF IsDone(f)
                    THEN jobs'[j] = NoJob /\ UNCHANGED <<got, call, mRecordRouteMap>>
                    ELSE /\ jobs'[j] = Settled(job) /\ Deliver(job)
                         /\ Ops(j)' = (Ops(j) \ {tag.op}) \cup job.starts
                         /\ OpsIn(Waiting, j)' = OpsIn(Waiting, j) \ {tag.op}
                         /\ mRecordRouteMap' = [mRecordRouteMap EXCEPT ![j] =
                                                  IF Rpc(j) = "RecordRoute" THEN Recorded(tag, @) ELSE @]
<1>1. gIncomingTags # <<>> /\ Head(gIncomingTags).op \in {"read", "write", "finish"}
  BY DEF OnOperation
<1>2. PICK tag \in Tags : tag = Head(gIncomingTags)
  BY <1>1, Processing
<1> DEFINE j == tag.job
           R == (Ops(j) \ {"done"}) \ {tag.op}
           f == AsyncOpFinished(jobs[j], tag.op)
           job == Handled(j, f, tag)
<1>3. /\ tag \in Waiting /\ j \in Jobs /\ tag.op \in Ops(j) /\ tag.op \notin pending[j] /\ tag.op # "done"
      /\ jobs[j] \in JobRecords /\ jobs[j] # NoJob /\ jobs[j].call \in Calls
      /\ LiveAt(Rpc(j), jobs[j], Ops(j), FALSE) /\ SameBut(f, jobs[j])
      /\ IsDone(f) <=> R = {} /\ jobs[j].mOnDoneCalled
      /\ Handles(Rpc(j), f, job, R)
  BY <1>1, <1>2, Processing
<1>4. OnOperation => /\ UNCHANGED <<rpc, sent>> /\ gIncomingTags' = Tail(gIncomingTags)
                     /\ IF IsDone(f) THEN Delete(j)
                        ELSE /\ jobs' = [jobs EXCEPT ![j] = Settled(job)] /\ pending' = Started(j, job) /\ Deliver(job)
                             /\ mRecordRouteMap' = [mRecordRouteMap EXCEPT ![j] =
                                                      IF Rpc(j) = "RecordRoute" THEN Recorded(tag, @) ELSE @]
  BY <1>2 DEF OnOperation
<1> HIDE DEF f, job
<1>5. CASE IsDone(f)
  <2>1. Ops(j) = {tag.op}
    BY <1>3, <1>5 DEF LiveAt
  <2>2. Delete(j) /\ UNCHANGED <<rpc, sent>> /\ gIncomingTags' = Tail(gIncomingTags)
    BY <1>4, <1>5
  <2>3. /\ OpsInv' /\ Waiting' = Waiting \ {tag}
        /\ \A k \in Jobs \ {j} : Ops(k)' = Ops(k) /\ OpsIn(Waiting, k)' = OpsIn(Waiting, k)
        /\ \A k \in Jobs \ {j} : jobs'[k] = jobs[k]
    BY <1>1, <1>2, <1>3, <2>1, <2>2, DeletedOps
  <2>4. jobs'[j] = NoJob /\ UNCHANGED <<got, call, mRecordRouteMap>>
    BY <1>3, <2>2 DEF Delete, OpsInv, StreamTypes
  <2> QED
    BY <1>1, <1>2, <1>3, <1>5, <2>2, <2>3, <2>4 DEF f, job
<1>6. CASE ~IsDone(f)
  <2>1. /\ jobs' = [jobs EXCEPT ![j] = Settled(job)] /\ pending' = Started(j, job) /\ Deliver(job)
        /\ UNCHANGED <<rpc, sent>> /\ gIncomingTags' = Tail(gIncomingTags)
        /\ mRecordRouteMap' = [mRecordRouteMap EXCEPT ![j] = IF Rpc(j) = "RecordRoute" THEN Recorded(tag, @) ELSE @]
    BY <1>4, <1>6
  <2>2. job \in JobRecords /\ job.starts \subseteq {"read", "write", "finish"} /\ job.starts \cap R = {}
    BY <1>3 DEF Handles
  <2> DEFINE X == [k \in Jobs |-> IF k = j THEN job.starts ELSE {}]
  <2>3. /\ X[j] = job.starts /\ \A k \in Jobs : k # j => X[k] = {}
        /\ X \in [Jobs -> SUBSET AllOps]
    BY <1>3, <2>2 DEF AllOps, JobOps
  <2> HIDE DEF X
  <2>4. /\ pending' \in [Jobs -> SUBSET AllOps] /\ pending'[j] = pending[j] \cup X[j]
        /\ \A k \in Jobs : k # j => pending'[k] = pending[k]
    BY <1>3, <2>1, <2>2, <2>3 DEF Started, OpsInv, StreamTypes, AllOps, JobOps
  <2>5. \A k \in Jobs : /\ pending'[k] = pending[k] \cup X[k]
                        /\ \A op \in X[k] : op \notin Ops(k) \/ (k = Head(gIncomingTags).job
                                                                  /\ op = Head(gIncomingTags).op)
    BY <1>2, <2>2, <2>3, <2>4
  <2>6. /\ OneEach' /\ gIncomingTags' \in Seq(Tags) /\ Waiting' = Waiting \ {tag}
        /\ \A k \in Jobs :
              IF k = tag.job
                THEN /\ Ops(k)' = (Ops(k) \ {tag.op}) \cup X[k]
                     /\ OpsIn(Waiting, k)' = OpsIn(Waiting, k) \ {tag.op}
                ELSE Ops(k)' = Ops(k) \cup X[k] /\ OpsIn(Waiting, k)' = OpsIn(Waiting, k)
    BY <1>1, <1>2, <2>1, <2>3, <2>4, <2>5, Taking DEF OpsInv
  <2>7. Ops(j)' = (Ops(j) \ {tag.op}) \cup job.starts /\ OpsIn(Waiting, j)' = OpsIn(Waiting, j) \ {tag.op}
    BY <1>3, <2>3, <2>6
  <2>8. ASSUME NEW k \in Jobs, k # j
        PROVE  Ops(k)' = Ops(k) /\ OpsIn(Waiting, k)' = OpsIn(Waiting, k)
    <3>1. Ops(k)' = Ops(k) \cup X[k] /\ OpsIn(Waiting, k)' = OpsIn(Waiting, k) /\ X[k] = {}
      BY <2>3, <2>6, <2>8
    <3> QED
      BY <3>1
  <2>9. LiveAt(Rpc(j), Settled(job), (Ops(j) \ {tag.op}) \cup job.starts, FALSE)
    BY <1>3, <1>6, KeptLive
  <2>10. /\ Settled(job) \in JobRecords /\ Settled(job) # NoJob /\ Settled(job).call = jobs[j].call
    <3>1. IsKept(Rpc(j), f, job, R, Settled(job))
      BY <1>3, SettledFields
    <3> QED
      BY <1>3, <3>1 DEF IsKept, SameBut
  <2>11. /\ jobs' \in [Jobs -> JobRecords \cup {NoJob}] /\ jobs'[j] = Settled(job)
         /\ \A k \in Jobs : k # j => jobs'[k] = jobs[k]
    BY <1>3, <2>1, <2>10 DEF OpsInv, StreamTypes
  <2>12. /\ mRecordRouteMap' \in [Jobs -> Nat]
         /\ \A k \in Jobs : k # j => mRecordRouteMap'[k] = mRecordRouteMap[k]
    <3>1. mRecordRouteMap[j] \in Nat /\ Recorded(tag, mRecordRouteMap[j]) \in Nat
      BY <1>3 DEF OpsInv, StreamTypes, Recorded
    <3> QED
      BY <1>3, <2>1, <3>1 DEF OpsInv, StreamTypes
  <2>13. StreamTypes'
    <3>1. Calls' = Calls /\ call' \in [Calls -> CallStates] /\ got' \in [Calls -> Seq(Given)]
      BY <2>1, <2>2, Delivering DEF OpsInv, Calls
    <3> QED
      BY <2>1, <2>4, <2>6, <2>11, <2>12, <3>1 DEF OpsInv, StreamTypes
  <2>14. LiveOps'
    <3>1. ASSUME NEW k \in Jobs
          PROVE  IF jobs'[k] = NoJob THEN Ops(k)' = {}
                 ELSE /\ LiveAt(Rpc(k), jobs'[k], Ops(k)', "request" \in pending'[k])
                      /\ jobs'[k].call \in Calls' \cup {NoCall}
      <4>1. CASE k = j
        <5>1. "request" \notin pending'[j]
          <6>1. "request" \notin pending[j]
            BY <1>3, BegunServes
          <6> QED
            BY <2>2, <2>3, <2>4, <6>1
        <5>2. LiveAt(Rpc(j), Settled(job), (Ops(j) \ {tag.op}) \cup job.starts, "request" \in pending'[j])
          BY <2>9, <5>1 DEF LiveAt
        <5>3. LiveAt(Rpc(k), jobs'[k], Ops(k)', "request" \in pending'[k])
          BY <2>7, <2>11, <4>1, <5>2 DEF LiveAt
        <5>4. Calls' = Calls
          BY <2>1 DEF Calls
        <5> QED
          BY <1>3, <2>10, <2>11, <4>1, <5>3, <5>4
      <4>2. CASE k # j
        BY <2>1, <2>4, <2>8, <2>11, <4>2, OthersLive
      <4> QED
        BY <4>1, <4>2
    <3> QED
      BY <3>1 DEF LiveOps
  <2>15. OpsInv'
    BY <2>6, <2>13, <2>14 DEF OpsInv
  <2> QED
    BY <1>1, <1>2, <1>3, <1>6, <2>1, <2>6, <2>7, <2>8, <2>11, <2>12, <2>15 DEF f, job
<1> QED
  BY <1>5, <1>6

LEMMA TwoChanges ==
  ASSUME NEW S, NEW T, NEW F \in [S -> T], NEW a \in S, NEW b \in S, a # b, NEW x \in T, NEW y \in T
  PROVE  LET G == [F EXCEPT ![a] = x, ![b] = y]
         IN  G \in [S -> T] /\ G[a] = x /\ G[b] = y /\ \A k \in S : k # a /\ k # b => G[k] = F[k]
OBVIOUS

\* A request is taken, and another job is created.
LEMMA RequestStep ==
  ASSUME OpsInv, OnRequest, AllocatorAssumption
  PROVE  \E tag \in Tags, new \in Jobs :
           LET j == tag.job
               job == Handled(j, AsyncOpFinished(jobs[j], "request"), tag)
           IN  /\ tag = Head(gIncomingTags) /\ tag \in Waiting /\ tag.op = "request"
               /\ OpsInv' /\ Waiting' = Waiting \ {tag} /\ UNCHANGED <<rpc, sent, mRecordRouteMap>>
               /\ new # j /\ jobs[new] = NoJob /\ jobs'[new] = RpcJob
               /\ Ops(new) = {} /\ Ops(new)' = {"request"} /\ OpsIn(Waiting, new)' = {}
               /\ jobs'[j] = Settled(job) /\ Deliver(job)
               /\ Ops(j)' = (Ops(j) \ {"request"}) \cup job.starts
               /\ OpsIn(Waiting, j)' = OpsIn(Waiting, j) \ {"request"}
               /\ \A k \in Jobs : k # j /\ k # new =>
                    Ops(k)' = Ops(k) /\ OpsIn(Waiting, k)' = OpsIn(Waiting, k) /\ jobs'[k] = jobs[k]
<1>1. gIncomingTags # <<>> /\ Head(gIncomingTags).op = "request"
  BY DEF OnRequest
<1>2. PICK tag \in Tags : tag = Head(gIncomingTags)
  BY <1>1, Processing
<1> DEFINE j == tag.job
           R == (Ops(j) \ {"done"}) \ {tag.op}
           f == AsyncOpFinished(jobs[j], "request")
           job == Handled(j, f, tag)
<1>3. /\ tag \in Waiting /\ j \in Jobs /\ tag.op \in Ops(j) /\ tag.op \notin pending[j] /\ tag.op = "request"
      /\ jobs[j] \in JobRecords /\ jobs[j] # NoJob /\ jobs[j].call \in Calls
      /\ LiveAt(Rpc(j), jobs[j], Ops(j), FALSE) /\ SameBut(f, jobs[j])
      /\ Handles(Rpc(j), f, job, R)
      /\ R = {} /\ job.starts # {}
  BY <1>1, <1>2, Processing
<1>4. PICK new \in Jobs :
        /\ new \in FreeAddresses(Rpc(j))
        /\ jobs' = [jobs EXCEPT ![j] = Settled(job), ![new] = RpcJob]
        /\ pending' = [Started(j, job) EXCEPT ![new] = {"request"}]
  <2>1. MayGive(FreeAddresses(Rpc(j))) \subseteq FreeAddresses(Rpc(j)) /\ FreeAddresses(Rpc(j)) \subseteq Jobs
    BY DEF AllocatorAssumption, FreeAddresses
  <2>2. PICK new \in MayGive(FreeAddresses(Rpc(j))) :
          /\ jobs' = [jobs EXCEPT ![j] = Settled(job), ![new] = RpcJob]
          /\ pending' = [Started(j, job) EXCEPT ![new] = {"request"}]
    BY <1>2 DEF OnRequest
  <2> QED
    BY <2>1, <2>2
<1>5. new \in Jobs /\ jobs[new] = NoJob /\ new # j /\ Ops(new) = {}
  <2>1. new \in Jobs /\ jobs[new] = NoJob
    BY <1>4 DEF FreeAddresses
  <2> QED
    BY <1>3, <2>1 DEF OpsInv, LiveOps
<1>6. UNCHANGED <<rpc, sent, mRecordRouteMap>> /\ gIncomingTags' = Tail(gIncomingTags) /\ Deliver(job)
  BY <1>2 DEF OnRequest
<1> HIDE DEF f, job
<1>7. job \in JobRecords /\ job.starts \subseteq {"read", "write", "finish"} /\ job.starts \cap R = {}
  BY <1>3 DEF Handles
<1> DEFINE X == [k \in Jobs |-> IF k = j THEN job.starts ELSE IF k = new THEN {"request"} ELSE {}]
<1>8. /\ X[j] = job.starts /\ X[new] = {"request"} /\ \A k \in Jobs : k # j /\ k # new => X[k] = {}
      /\ X \in [Jobs -> SUBSET AllOps]
  BY <1>3, <1>5, <1>7 DEF AllOps, JobOps
<1> HIDE DEF X
<1>9. /\ pending' \in [Jobs -> SUBSET AllOps] /\ pending'[j] = pending[j] \cup X[j]
      /\ pending'[new] = {"request"} /\ \A k \in Jobs : k # j /\ k # new => pending'[k] = pending[k]
  <2>1. pending' = [pending EXCEPT ![j] = pending[j] \cup X[j], ![new] = {"request"}]
    BY <1>4, <1>8 DEF Started
  <2>2. pending \in [Jobs -> SUBSET AllOps] /\ pending[j] \cup X[j] \in SUBSET AllOps /\ {"request"} \in SUBSET AllOps
    BY <1>3, <1>8 DEF OpsInv, StreamTypes, AllOps, JobOps
  <2> QED
    BY <1>3, <1>5, <2>1, <2>2, TwoChanges
<1>10. \A k \in Jobs : /\ pending'[k] = pending[k] \cup X[k]
                       /\ \A op \in X[k] : op \notin Ops(k) \/ (k = Head(gIncomingTags).job
                                                                 /\ op = Head(gIncomingTags).op)
  <2>1. pending[new] = {}
    BY <1>5 DEF Ops
  <2>2. pending'[new] = pending[new] \cup X[new] /\ \A op \in X[new] : op \notin Ops(new)
    BY <1>5, <1>8, <1>9, <2>1
  <2>3. \A op \in X[j] : op \notin Ops(j) \/ op = tag.op
    BY <1>7, <1>8
  <2> QED
    BY <1>2, <1>8, <1>9, <2>2, <2>3
<1>11. /\ OneEach' /\ gIncomingTags' \in Seq(Tags) /\ Waiting' = Waiting \ {tag}
       /\ \A k \in Jobs :
             IF k = tag.job
               THEN /\ Ops(k)' = (Ops(k) \ {tag.op}) \cup X[k]
                    /\ OpsIn(Waiting, k)' = OpsIn(Waiting, k) \ {tag.op}
               ELSE Ops(k)' = Ops(k) \cup X[k] /\ OpsIn(Waiting, k)' = OpsIn(Waiting, k)
  BY <1>1, <1>2, <1>6, <1>8, <1>9, <1>10, Taking DEF OpsInv
<1>12. Ops(j)' = (Ops(j) \ {"request"}) \cup job.starts /\ OpsIn(Waiting, j)' = OpsIn(Waiting, j) \ {"request"}
  BY <1>3, <1>8, <1>11
<1>13. Ops(new)' = {"request"} /\ OpsIn(Waiting, new)' = {}
  <2>1. Ops(new)' = Ops(new) \cup X[new] /\ OpsIn(Waiting, new)' = OpsIn(Waiting, new)
    BY <1>5, <1>11
  <2>2. OpsIn(Waiting, new) = {}
    BY <1>5 DEF Ops
  <2> QED
    BY <1>5, <1>8, <2>1, <2>2
<1>14. ASSUME NEW k \in Jobs, k # j, k # new
       PROVE  Ops(k)' = Ops(k) /\ OpsIn(Waiting, k)' = OpsIn(Waiting, k)
  <2>1. Ops(k)' = Ops(k) \cup X[k] /\ OpsIn(Waiting, k)' = OpsIn(Waiting, k) /\ X[k] = {}
    BY <1>8, <1>11, <1>14
  <2> QED
    BY <2>1
<1>15. LiveAt(Rpc(j), Settled(job), (Ops(j) \ {"request"}) \cup job.starts, FALSE)
  BY <1>3, KeptLive
<1>16. /\ Settled(job) \in JobRecords /\ Settled(job) # NoJob /\ Settled(job).call = jobs[j].call
  <2>1. IsKept(Rpc(j), f, job, R, Settled(job))
    BY <1>3, SettledFields
  <2> QED
    BY <1>3, <2>1 DEF IsKept, SameBut
<1>17. RpcJob \in JobRecords /\ RpcJob # NoJob
  BY RpcJobIsJob
<1>18. /\ jobs' \in [Jobs -> JobRecords \cup {NoJob}] /\ jobs'[j] = Settled(job) /\ jobs'[new] = RpcJob
       /\ \A k \in Jobs : k # j /\ k # new => jobs'[k] = jobs[k]
  <2>1. jobs \in [Jobs -> JobRecords \cup {NoJob}]
    BY DEF OpsInv, StreamTypes
  <2>2. Settled(job) \in JobRecords \cup {NoJob} /\ RpcJob \in JobRecords \cup {NoJob}
    BY <1>16, <1>17
  <2> DEFINE kept == Settled(job)
             T == JobRecords \cup {NoJob}
  <2>3. jobs' = [jobs EXCEPT ![j] = kept, ![new] = RpcJob]
    BY <1>4
  <2> HIDE DEF kept, T
  <2>4. jobs \in [Jobs -> T] /\ kept \in T /\ RpcJob \in T
    BY <2>1, <2>2 DEF kept, T
  <2>5. /\ jobs' \in [Jobs -> T] /\ jobs'[j] = kept /\ jobs'[new] = RpcJob
        /\ \A k \in Jobs : k # j /\ k # new => jobs'[k] = jobs[k]
    BY <1>3, <1>5, <2>3, <2>4, TwoChanges
  <2> QED
    BY <2>5 DEF kept, T
<1>19. Calls' = Calls
  BY <1>6 DEF Calls
<1>20. StreamTypes'
  <2>1. call' \in [Calls -> CallStates] /\ got' \in [Calls -> Seq(Given)]
    BY <1>6, <1>7, Delivering DEF OpsInv
  <2> QED
    BY <1>6, <1>9, <1>11, <1>18, <1>19, <2>1 DEF OpsInv, StreamTypes
<1>21. LiveOps'
  <2>1. ASSUME NEW k \in Jobs
        PROVE  IF jobs'[k] = NoJob THEN Ops(k)' = {}
               ELSE /\ LiveAt(Rpc(k), jobs'[k], Ops(k)', "request" \in pending'[k])
                    /\ jobs'[k].call \in Calls' \cup {NoCall}
    <3>1. CASE k = j
      <4>1. "request" \notin pending'[j]
        <5>1. "request" \notin pending[j]
          BY <1>3
        <5> QED
          BY <1>7, <1>8, <1>9, <5>1
      <4>2. LiveAt(Rpc(j), Settled(job), (Ops(j) \ {"request"}) \cup job.starts, "request" \in pending'[j])
        BY <1>15, <4>1 DEF LiveAt
      <4>3. LiveAt(Rpc(k), jobs'[k], Ops(k)', "request" \in pending'[k])
        BY <1>12, <1>18, <3>1, <4>2 DEF LiveAt
      <4> QED
        BY <1>3, <1>16, <1>18, <1>19, <3>1, <4>3
    <3>2. CASE k = new
      <4>1. "request" \in pending'[k] /\ jobs'[k] = RpcJob /\ Ops(k)' = {"request"}
        BY <1>9, <1>13, <1>18, <3>2
      <4>2. {"request"} \ {"done"} = {"request"}
        OBVIOUS
      <4>3. JobOk(Rpc(k), RpcJob, {"request"})
        BY DEF JobOk, FieldsOk, OpSets, Number, RpcJob
      <4>4. RpcJob.call = NoCall /\ ~RpcJob.mOnDoneCalled
        BY DEF RpcJob
      <4>5. LiveAt(Rpc(k), jobs'[k], Ops(k)', "request" \in pending'[k])
        BY <4>1, <4>2, <4>3, <4>4 DEF LiveAt
      <4> QED
        BY <1>17, <4>1, <4>4, <4>5
    <3>3. CASE k # j /\ k # new
      BY <1>6, <1>9, <1>14, <1>18, <3>3, OthersLive
    <3> QED
      BY <3>1, <3>2, <3>3
  <2> QED
    BY <2>1 DEF LiveOps
<1>22. OpsInv'
  BY <1>11, <1>20, <1>21 DEF OpsInv
<1> WITNESS tag \in Tags, new \in Jobs
<1> QED
  BY <1>2, <1>3, <1>5, <1>6, <1>11, <1>12, <1>13, <1>14, <1>18, <1>22 DEF f, job

LEMMA InitOps == Init /\ StreamAssumption => OpsInv
<1> SUFFICES ASSUME Init, StreamAssumption PROVE OpsInv
  OBVIOUS
<1>1. Waiting = {} /\ \A j \in Jobs : OpsIn(Waiting, j) = {}
  BY DEF Init, Waiting, Elements, OpsIn
<1>2. /\ jobs = [j \in Jobs |-> IF j[2] = 1 THEN RpcJob ELSE NoJob]
      /\ pending = [j \in Jobs |-> IF j[2] = 1 THEN {"request"} ELSE {}]
      /\ RpcJob \in JobRecords /\ RpcJob # NoJob
  BY RpcJobIsJob DEF Init
<1>3. StreamTypes
  <2>1. jobs \in [Jobs -> JobRecords \cup {NoJob}] /\ pending \in [Jobs -> SUBSET AllOps]
    BY <1>2 DEF AllOps, JobOps
  <2>2. got \in [Calls -> Seq(Given)]
    BY EmptySeq DEF Init
  <2>3. call \in [Calls -> CallStates] /\ sent \in [Calls -> Nat] /\ mRecordRouteMap \in [Jobs -> Nat] /\ rpc \in Mixes
        /\ gIncomingTags \in Seq(Tags)
    BY EmptySeq DEF Init, CallStates
  <2> QED
    BY <2>1, <2>2, <2>3 DEF StreamTypes
<1>4. OneEach
  BY <1>1 DEF Init, OneEach, Distinct
<1>5. LiveOps
  <2>1. ASSUME NEW j \in Jobs
        PROVE  IF jobs[j] = NoJob THEN Ops(j) = {}
               ELSE /\ LiveAt(Rpc(j), jobs[j], Ops(j), "request" \in pending[j])
                    /\ jobs[j].call \in Calls \cup {NoCall}
    <3>1. CASE j[2] = 1
      <4>1. "request" \in pending[j] /\ jobs[j] = RpcJob /\ Ops(j) = {"request"}
        BY <1>1, <1>2, <3>1 DEF Ops
      <4>2. {"request"} \ {"done"} = {"request"}
        OBVIOUS
      <4>3. JobOk(Rpc(j), RpcJob, {"request"})
        BY DEF JobOk, FieldsOk, OpSets, Number, RpcJob
      <4>4. RpcJob.call = NoCall /\ ~RpcJob.mOnDoneCalled
        BY DEF RpcJob
      <4>5. LiveAt(Rpc(j), jobs[j], Ops(j), "request" \in pending[j])
        BY <4>1, <4>2, <4>3, <4>4 DEF LiveAt
      <4> QED
        BY <1>2, <4>1, <4>4, <4>5
    <3>2. CASE j[2] # 1
      BY <1>1, <1>2, <3>2 DEF Ops
    <3> QED
      BY <3>1, <3>2
  <2> QED
    BY <2>1 DEF LiveOps
<1> QED
  BY <1>3, <1>4, <1>5 DEF OpsInv

LEMMA NextOps == OpsInv /\ [Next]_vars /\ StreamAssumption /\ AllocatorAssumption => OpsInv'
<1> SUFFICES ASSUME OpsInv, [Next]_vars, StreamAssumption, AllocatorAssumption PROVE OpsInv'
  OBVIOUS
<1>1. CASE HandleRpcs
  BY <1>1, AcceptOps, ReportOps DEF HandleRpcs
<1>2. CASE OnRequest
  BY <1>2, RequestStep
<1>3. CASE OnOperation
  BY <1>3, OperationStep
<1>4. CASE OnDone
  BY <1>4, DoneStep
<1>5. CASE \E c \in Calls : Call(c) \/ GoAway(c)
  BY <1>5, ClientOps
<1>6. CASE UNCHANGED vars
  <2>1. /\ UNCHANGED <<rpc, call, sent, got, jobs, pending, gIncomingTags, mRecordRouteMap>>
        /\ Calls' = Calls /\ Waiting' = Waiting /\ \A k \in Jobs : Ops(k)' = Ops(k)
    BY <1>6 DEF vars, clientVars, Calls, Waiting, Ops
  <2> QED
    BY <2>1 DEF OpsInv, StreamTypes, OneEach, LiveOps
<1> QED
  BY <1>1, <1>2, <1>3, <1>4, <1>5, <1>6 DEF Next, processRpcs

\* The fields of every job say which operations of it are under way, and each of
\* these is at one place.
THEOREM OpsInvAlways == SafeSpec => []OpsInv
  BY InitOps, NextOps, StreamAssumption, AllocatorAssumption, PTL DEF SafeSpec

\* Outstanding counts tags, and Ops names operations: there are as many.
LEMMA OutstandingOps ==
  ASSUME OpsInv, NEW j \in Jobs
  PROVE  /\ Outstanding(j).ops = Ops(j)
         /\ IsFiniteSet(Ops(j)) /\ Outstanding(j).number = Cardinality(Ops(j))
<1> DEFINE reported == {i \in DOMAIN gIncomingTags : gIncomingTags[i].job = j}
           waiting == OpsIn(Waiting, j)
           f == [i \in reported |-> gIncomingTags[i].op]
<1>1. waiting = {gIncomingTags[i].op : i \in reported}
  BY DEF OpsIn, Waiting, Elements
<1>2. pending[j] \in SUBSET AllOps /\ waiting \in SUBSET AllOps
  <2>1. \A i \in DOMAIN gIncomingTags : gIncomingTags[i] \in Tags
    BY DEF OpsInv, StreamTypes
  <2> QED
    BY <1>1, <2>1 DEF Tags, OpsInv, StreamTypes
<1>3. IsFiniteSet(AllOps)
  <2>1. AllOps = {"request"} \cup {"read"} \cup {"write"} \cup {"finish"} \cup {"done"}
    BY DEF AllOps, JobOps
  <2> QED
    BY <2>1, FS_Singleton, FS_Union
<1>4. IsFiniteSet(pending[j]) /\ IsFiniteSet(waiting)
  BY <1>2, <1>3, FS_Subset
<1>5. f \in Bijection(reported, waiting)
  <2>1. f \in [reported -> waiting] /\ \A t \in waiting : \E i \in reported : f[i] = t
    BY <1>1
  <2>2. \A i, k \in reported : f[i] = f[k] => i = k
    BY DEF OpsInv, OneEach, Distinct
  <2> HIDE DEF f, reported, waiting
  <2> QED
    BY <2>1, <2>2 DEF Bijection, Injection, Surjection, IsInjective
<1>6. Cardinality(reported) = Cardinality(waiting)
  <2>1. f \in Injection(reported, waiting) /\ f \in Surjection(reported, waiting)
    BY <1>5 DEF Bijection
  <2> HIDE DEF f, reported, waiting
  <2> QED
    BY <1>4, <2>1, FS_Injection
<1>7. pending[j] \cap waiting = {}
  BY DEF OpsInv, OneEach
<1>8. IsFiniteSet(pending[j] \cup waiting) /\ Cardinality(pending[j] \cup waiting) = Cardinality(pending[j]) + Cardinality(waiting)
  <2> DEFINE p == pending[j]
  <2>1. IsFiniteSet(p) /\ IsFiniteSet(waiting) /\ p \cap waiting = {}
    BY <1>4, <1>7
  <2> HIDE DEF p, waiting
  <2>2. /\ IsFiniteSet(p \cup waiting)
        /\ Cardinality(p \cup waiting) = Cardinality(p) + Cardinality(waiting) - Cardinality(p \cap waiting)
    BY <2>1, FS_Union
  <2>3. Cardinality(p) \in Nat /\ Cardinality(waiting) \in Nat /\ Cardinality(p \cap waiting) = 0
    BY <2>1, FS_CardinalityType, FS_EmptySet
  <2> QED
    BY <2>2, <2>3 DEF p
<1> QED
  BY <1>1, <1>6, <1>8 DEF Outstanding, Ops

LEMMA NumberIsCardinality ==
  ASSUME NEW r, NEW O \in OpSets(r)
  PROVE  IsFiniteSet(O) /\ Cardinality(O) = Number(O) /\ Number(O) \in Nat
<1>1. O \in {{}, {"request"}, {"finish"}, {"read"}, {"write"}, {"read", "write"}}
  BY DEF OpSets
<1>2. CASE O = {}
  BY <1>2, FS_EmptySet DEF Number
<1>3. CASE O \in {{"request"}, {"finish"}, {"read"}, {"write"}}
  <2>1. Number(O) = 1
    BY <1>3 DEF Number
  <2>2. IsFiniteSet(O) /\ Cardinality(O) = 1
    BY <1>3, FS_Singleton, Zenon
  <2> QED
    BY <2>1, <2>2
<1>4. CASE O = {"read", "write"}
  <2>1. O = {"read"} \cup {"write"} /\ "write" \notin {"read"}
    BY <1>4
  <2>2. IsFiniteSet({"read"}) /\ Cardinality({"read"}) = 1
    BY FS_Singleton
  <2>3. IsFiniteSet(O) /\ Cardinality(O) = 2
    BY <2>1, <2>2, FS_AddElement
  <2> QED
    BY <1>4, <2>3 DEF Number
<1> QED
  BY <1>1, <1>2, <1>3, <1>4

\* A job is deleted exactly when the runtime has nothing more to report of it.
THEOREM OpsCountedAlways == SafeSpec => []OpsCounted
<1>1. ASSUME OpsInv PROVE OpsCounted
  <2>1. SUFFICES ASSUME NEW j \in Jobs
                 PROVE  LET left == Outstanding(j)
                        IN  IF jobs[j] = NoJob THEN left.number = 0
                            ELSE /\ left.number > 0
                                 /\ left.number = jobs[j].mAsyncOpCounter + IF "done" \in left.ops THEN 1 ELSE 0
                                 /\ "done" \in left.ops => ~jobs[j].mOnDoneCalled
    BY DEF OpsCounted
  <2>2. Outstanding(j).ops = Ops(j) /\ IsFiniteSet(Ops(j)) /\ Outstanding(j).number = Cardinality(Ops(j))
    BY <1>1, OutstandingOps
  <2>3. CASE jobs[j] = NoJob
    BY <1>1, <2>2, <2>3, FS_EmptySet DEF OpsInv, LiveOps
  <2>4. CASE jobs[j] # NoJob
    <3> DEFINE O == Ops(j) \ {"done"}
    <3>1. LiveAt(Rpc(j), jobs[j], Ops(j), "request" \in pending[j])
      BY <1>1, <2>4 DEF OpsInv, LiveOps
    <3>2. /\ O \in OpSets(Rpc(j)) /\ jobs[j].mAsyncOpCounter = Number(O)
          /\ "done" \in Ops(j) => ~jobs[j].mOnDoneCalled
      BY <3>1 DEF LiveAt, JobOk, FieldsOk
    <3>3. IsFiniteSet(O) /\ Cardinality(O) = Number(O) /\ Number(O) \in Nat
      BY <3>2, NumberIsCardinality
    <3>4. "done" \notin O /\ (O = {} => "done" \in Ops(j))
      <4>1. O = {} => ~jobs[j].mOnDoneCalled /\ "request" \notin pending[j]
        BY <3>1 DEF LiveAt, JobOk, Ops
      <4> QED
        BY <3>1, <4>1 DEF LiveAt
    <3>5. Cardinality(Ops(j)) = Number(O) + IF "done" \in Ops(j) THEN 1 ELSE 0
      <4>1. CASE "done" \in Ops(j)
        <5>1. Ops(j) = O \cup {"done"}
          BY <4>1
        <5> HIDE DEF O
        <5> QED
          BY <3>3, <3>4, <4>1, <5>1, FS_AddElement
      <4>2. CASE "done" \notin Ops(j)
        <5>1. Ops(j) = O
          BY <4>2
        <5> QED
          BY <3>3, <4>2, <5>1
      <4> QED
        BY <4>1, <4>2
    <3>6. O # {} => Number(O) > 0
      BY DEF Number
    <3> HIDE DEF O
    <3> QED
      BY <2>2, <2>4, <3>2, <3>3, <3>4, <3>5, <3>6
  <2> QED
    BY <2>3, <2>4
<1> QED
  BY <1>1, OpsInvAlways, PTL

\* Two operations are never under way at once but a read and a write, and no rpc
\* is finished before its client has streamed everything.
THEOREM OneOperationAlways == SafeSpec => []OneOperation
<1>1. ASSUME OpsInv PROVE OneOperation
  <2>1. SUFFICES ASSUME NEW j \in Jobs, jobs[j] # NoJob
                 PROVE  LET ops == Outstanding(j).ops \ {"done"}
                        IN  /\ jobs[j].mAsyncOpCounter = Cardinality(ops)
                            /\ ops = {"read", "write"} \/ Cardinality(ops) <= 1
                            /\ "finish" \in ops /\ Rpc(j) \in {"RecordRoute", "RouteChat"} =>
                                 jobs[j].mClientStreamingDone
    BY DEF OneOperation
  <2> DEFINE O == Ops(j) \ {"done"}
  <2>2. Outstanding(j).ops = Ops(j)
    BY <1>1, OutstandingOps
  <2>3. LiveAt(Rpc(j), jobs[j], Ops(j), "request" \in pending[j])
    BY <1>1, <2>1 DEF OpsInv, LiveOps
  <2>4. FieldsOk(Rpc(j), jobs[j], O)
    BY <2>3 DEF LiveAt, JobOk
  <2> HIDE DEF O
  <2>5. IsFiniteSet(O) /\ Cardinality(O) = Number(O)
    BY <2>4, NumberIsCardinality DEF FieldsOk
  <2>6. O = {"read", "write"} \/ Number(O) <= 1
    BY DEF Number
  <2>7. "finish" \in O => "request" \notin O /\ "read" \notin O
    BY <2>4 DEF FieldsOk, OpSets
  <2>8. "finish" \in O /\ Rpc(j) \in {"RecordRoute", "RouteChat"} => jobs[j].mClientStreamingDone
    BY <2>4, <2>7 DEF FieldsOk
  <2>9. jobs[j].mAsyncOpCounter = Number(O)
    BY <2>4 DEF FieldsOk
  <2> QED
    BY <2>2, <2>5, <2>6, <2>8, <2>9 DEF O
<1> QED
  BY <1>1, OpsInvAlways, PTL

-----------------------------------------------------------------------------
\* What a client gets -------------------------------------------------------

LEMMA PromisedNumber == \A r, s : s \in Nat => Promised(r, s) \in Nat /\ Promised(r, s) <= s
BY DEF Promised

\* One response more, or the last.
LEMMA GotMore ==
  ASSUME NEW g \in Seq(Given), NEW m
  PROVE  /\ Len(g \o Writing(m)) = Len(g) + 1 /\ Len(g \o Finishing(m)) = Len(g) + 1
         /\ \A i \in DOMAIN g : (g \o Writing(m))[i] = g[i] /\ (g \o Finishing(m))[i] = g[i]
         /\ (g \o Writing(m))[Len(g) + 1] = <<"write", m>> /\ (g \o Finishing(m))[Len(g) + 1] = <<"finish", m>>
         /\ DOMAIN (g \o Writing(m)) = DOMAIN g \cup {Len(g) + 1}
         /\ DOMAIN (g \o Finishing(m)) = DOMAIN g \cup {Len(g) + 1}
         /\ Last(g \o Finishing(m)) = <<"finish", m>>
         /\ g \o <<>> = g
<1>1. ASSUME NEW e PROVE /\ Len(g \o <<e>>) = Len(g) + 1 /\ \A i \in DOMAIN g : (g \o <<e>>)[i] = g[i]
                         /\ (g \o <<e>>)[Len(g) + 1] = e
                         /\ DOMAIN (g \o <<e>>) = DOMAIN g \cup {Len(g) + 1}
                         /\ Last(g \o <<e>>) = e
  BY DEF Last
<1>2. g \o <<>> = g
  BY ConcatEmptySeq
<1> QED
  BY <1>1, <1>2 DEF Writing, Finishing

LEMMA WritesMore ==
  ASSUME NEW g \in Seq(Given), IsWrites(g)
  PROVE  /\ IsWrites(g \o Writing(Len(g) + 1)) /\ Len(g \o Writing(Len(g) + 1)) = Len(g) + 1
         /\ Len(g) \in Nat
BY GotMore DEF IsWrites

LEMMA Closed ==
  ASSUME NEW r, NEW s \in Nat, NEW g \in Seq(Given), IsWrites(g), Len(g) = Promised(r, s), NEW m
  PROVE  OkayAt(r, "closed", s, g \o Finishing(m))
<1> DEFINE g2 == g \o Finishing(m)
<1>1. Len(g2) = Len(g) + 1 /\ Last(g2) = <<"finish", m>>
  BY GotMore
<1>2. ASSUME NEW i \in DOMAIN g2 PROVE g2[i][1] = "write" => g2[i][2] = i /\ i <= Promised(r, s)
  <2>1. CASE i \in DOMAIN g
    BY <2>1, GotMore DEF IsWrites
  <2>2. CASE i = Len(g) + 1
    BY <2>2, GotMore
  <2> QED
    BY <2>1, <2>2, GotMore
<1> QED
  BY <1>1, <1>2, PromisedNumber DEF OkayAt

LEMMA UnderOkay ==
  ASSUME NEW r, NEW O, NEW queue \in Seq(Nat), NEW g \in Seq(Given), NEW p \in Nat, NEW s \in Nat, p <= s,
         Under(r, O, queue, g, p), "write" \in O => queue # <<>>
  PROVE  OkayAt(r, "open", s, g)
<1>1. Len(g) <= Promised(r, s)
  <2>1. CASE ~Streams(r)
    BY <2>1 DEF Under, Promised
  <2>2. CASE Streams(r) /\ "write" \in O
    <3>1. Len(queue) > 0
      BY <2>2
    <3> QED
      BY <2>2, <3>1 DEF Under, Promised, Queued
  <2>3. CASE Streams(r) /\ "write" \notin O
    BY <2>3 DEF Under, Promised
  <2> QED
    BY <2>1, <2>2, <2>3
<1>2. \A i \in DOMAIN g : g[i] = <<"write", i>> /\ i \in Nat /\ i <= Len(g)
  BY DEF Under, IsWrites
<1> QED
  BY <1>1, <1>2, PromisedNumber DEF OkayAt

\* The response that was being written is done with.
LEMMA WritesOn ==
  ASSUME NEW g \in Seq(Given), NEW left \in Seq(Nat), NEW p \in Nat, IsWrites(g), left # <<>>,
         Len(g) + Len(left) = p, \A i \in DOMAIN left : left[i] = Len(g) + i
  PROVE  IsWrites(g \o Writing(Head(left))) /\ Queued(left, g \o Writing(Head(left)), p)
<1>1. Head(left) = Len(g) + 1 /\ Len(g) \in Nat /\ Len(left) \in Nat
  OBVIOUS
<1> DEFINE g2 == g \o Writing(Head(left))
<1>2. IsWrites(g2) /\ Len(g2) = Len(g) + 1
  BY <1>1, WritesMore
<1> HIDE DEF g2
<1>3. Len(g2) > 0 /\ Len(g2) + Len(left) = p + 1
  <2>1. PICK a \in Nat : a = Len(g)
    BY <1>1
  <2>2. PICK b \in Nat : b = Len(left)
    BY <1>1
  <2>3. a + b = p /\ Len(g2) = a + 1
    BY <1>2, <2>1, <2>2
  <2> QED
    BY ONLY <2>2, <2>3, a \in Nat, b \in Nat, p \in Nat
<1>4. \A i \in DOMAIN left : left[i] = Len(g2) - 1 + i
  BY <1>1, <1>2
<1>5. Queued(left, g2, p)
  BY <1>3, <1>4 DEF Queued
<1> QED
  BY <1>2, <1>5 DEF g2

LEMMA Popped ==
  ASSUME NEW g \in Seq(Given), NEW queue \in Seq(Nat), NEW p \in Nat, queue # <<>>, IsWrites(g),
         Queued(queue, g, p)
  PROVE  /\ Tail(queue) \in Seq(Nat) /\ (Tail(queue) = <<>> => Len(g) = p)
         /\ Tail(queue) # <<>> => /\ IsWrites(g \o Writing(Head(Tail(queue))))
                                  /\ Queued(Tail(queue), g \o Writing(Head(Tail(queue))), p)
<1>1. Tail(queue) \in Seq(Nat) /\ Len(Tail(queue)) = Len(queue) - 1
  BY HeadTailProperties
<1>2. \A i \in DOMAIN Tail(queue) : Tail(queue)[i] = queue[i + 1] /\ i + 1 \in DOMAIN queue /\ i \in Nat
  OBVIOUS
<1>3. Len(g) \in Nat /\ Len(queue) \in Nat
  OBVIOUS
<1>4. Len(g) + Len(Tail(queue)) = p
  BY <1>1, <1>3 DEF Queued
<1>5. \A i \in DOMAIN Tail(queue) : Tail(queue)[i] = Len(g) + i
  BY <1>2, <1>3 DEF Queued
<1> DEFINE left == Tail(queue)
<1> HIDE DEF left
<1>6. left = <<>> => Len(g) = p
  <2>1. left = <<>> => Len(left) = 0
    OBVIOUS
  <2>2. Len(g) + Len(left) = p
    BY <1>4 DEF left
  <2> QED
    BY <1>3, <2>1, <2>2
<1>7. left \in Seq(Nat) /\ Len(g) + Len(left) = p /\ \A i \in DOMAIN left : left[i] = Len(g) + i
  BY <1>1, <1>4, <1>5 DEF left
<1>8. left # <<>> => IsWrites(g \o Writing(Head(left))) /\ Queued(left, g \o Writing(Head(left)), p)
  BY <1>7, WritesOn
<1> QED
  BY <1>6, <1>7, <1>8, Zenon DEF left

\* When a tag of a job whose client waits is processed ...
Before(r, tag, R, queue, g, s, p) ==
  /\ g \in Seq(Given) /\ queue \in Seq(Nat) /\ s \in Nat /\ p \in Nat
  /\ IF tag.op = "request"
       THEN g = <<>> /\ tag.message = s /\ p = s /\ (r # "ListFeatures" => s = 0)
       ELSE /\ Under(r, R \cup {tag.op}, queue, g, p) /\ p <= s
            /\ IF tag.op = "read" /\ tag.ok THEN tag.message = s /\ p = s - 1 ELSE "read" \notin R => p = s
            /\ tag.op = "write" => tag.ok

\* ... the client waits on, or has been told OK.
After(r, O, queue, g, s, p) ==
  IF "finish" \in O THEN O = {"finish"} /\ OkayAt(r, "closed", s, g)
  ELSE Under(r, O, queue, g, p) /\ OkayAt(r, "open", s, g)

Advanced(r, tag, R, job, g, s, p) ==
  After(r, R \cup job.starts, job.mResponseQueue, g \o job.out, s, IF tag.op = "read" /\ tag.ok THEN s ELSE p)

LEMMA MovedAdvances ==
  ASSUME NEW r, NEW f, NEW tag \in Tags, NEW R, NEW g \in Seq(Given), NEW s \in Nat, NEW p \in Nat, p <= s, NEW next,
         NEW starts, NEW out, Moved(r, f, next, R, starts, out),
         IF "finish" \in starts
           THEN R = {} /\ starts = {"finish"} /\ IsWrites(g) /\ Len(g) = Promised(r, s) /\ \E m : out = Finishing(m)
           ELSE /\ "request" \notin R \cup starts /\ g \o out \in Seq(Given)
                /\ Under(r, R \cup starts, next.mResponseQueue, g \o out,
                         IF tag.op = "read" /\ tag.ok THEN s ELSE p)
  PROVE  Advanced(r, tag, R, next, g, s, p)
<1>1. next.starts = starts /\ next.out = out /\ FieldsOk(r, next, R \cup starts) /\ next.mResponseQueue \in Seq(Nat)
  BY DEF Moved, JobRecords
<1>2. CASE "finish" \in starts
  <2>1. PICK m : out = Finishing(m)
    BY <1>2
  <2>2. OkayAt(r, "closed", s, g \o out)
    BY <1>2, <2>1, Closed
  <2>3. R \cup starts = {"finish"}
    BY <1>2
  <2> QED
    BY <1>1, <2>2, <2>3 DEF Advanced, After
<1>3. CASE "finish" \notin starts
  <2> DEFINE p2 == IF tag.op = "read" /\ tag.ok THEN s ELSE p
             O == R \cup starts
             g2 == g \o out
  <2>1. p2 \in Nat /\ p2 <= s
    OBVIOUS
  <2>2. Under(r, O, next.mResponseQueue, g2, p2) /\ "request" \notin O /\ g2 \in Seq(Given)
    BY <1>3
  <2>3. "write" \in O => next.mResponseQueue # <<>>
    <3>1. FieldsOk(r, next, O)
      BY <1>1
    <3> HIDE DEF O
    <3> QED
      BY <2>2, <3>1 DEF FieldsOk
  <2>4. Advanced(r, tag, R, next, g, s, p) <=> After(r, O, next.mResponseQueue, g2, s, p2)
    BY <1>1 DEF Advanced
  <2> HIDE DEF p2, O, g2
  <2>5. OkayAt(r, "open", s, g2)
    BY <1>1, <2>1, <2>2, <2>3, UnderOkay
  <2>6. "finish" \notin O
    BY <2>2 DEF Under
  <2> QED
    BY <2>2, <2>4, <2>5, <2>6 DEF After
<1> QED
  BY <1>2, <1>3

LEMMA UnaryAdvances ==
  ASSUME NEW f, NEW tag \in Tags, NEW R, Halfway("GetFeature", f, R, tag.op), NEW queue, NEW g, NEW s, NEW p,
         Before("GetFeature", tag, R, queue, g, s, p)
  PROVE  Advanced("GetFeature", tag, R, UnaryRpcJob(f, tag), g, s, p)
<1> DEFINE r == "GetFeature"
           next == UnaryRpcJob(f, tag)
<1>1. /\ R = {} /\ tag.op \in {"request", "finish"} /\ ~Streams(r)
      /\ tag.op = "request" => Moved(r, f, next, R, {"finish"}, Finishing(1))
  BY UnaryMoves DEF Streams
<1>2. tag.op = "request" /\ g \in Seq(Given) /\ s \in Nat /\ p \in Nat /\ g = <<>> /\ p <= s
  BY <1>1 DEF Before, Under
<1> HIDE DEF next
<1>3. IsWrites(g) /\ Len(g) = Promised(r, s)
  BY <1>1, <1>2 DEF IsWrites, Promised
<1> HIDE DEF r
<1>4. Advanced(r, tag, R, next, g, s, p)
  BY <1>1, <1>2, <1>3, MovedAdvances
<1> QED
  BY <1>4 DEF r, next

LEMMA ListAdvances ==
  ASSUME NEW f, NEW tag \in Tags, NEW R, Halfway("ListFeatures", f, R, tag.op), NEW g, NEW s, NEW p,
         Before("ListFeatures", tag, R, f.mResponseQueue, g, s, p)
  PROVE  Advanced("ListFeatures", tag, R, ServerStreamingRpcJob(f, tag, tag.message), g, s, p)
<1> DEFINE r == "ListFeatures"
           next == ServerStreamingRpcJob(f, tag, tag.message)
           left == Tail(f.mResponseQueue)
           rs == [i \in 1 .. tag.message |-> i]
           Made(starts, out) == Moved(r, f, next, R, starts, out)
<1>1. /\ R = {} /\ tag.op \in {"request", "write", "finish"} /\ Streams(r)
      /\ tag.op = "request" /\ tag.message = 0 => Made({"finish"}, Finishing(0))
      /\ tag.op = "request" /\ tag.message > 0 => Made({"write"}, Writing(1)) /\ next.mResponseQueue = rs
      /\ tag.op = "write" /\ tag.ok /\ left = <<>> => Made({"finish"}, Finishing(0))
      /\ tag.op = "write" /\ tag.ok /\ left # <<>> => Made({"write"}, Writing(Head(left))) /\ next.mResponseQueue = left
  <2>1. ListMade(f, tag, R, next)
    BY ListMoves
  <2> HIDE DEF next
  <2> QED
    BY <2>1 DEF ListMade, Streams
<1>2. /\ g \in Seq(Given) /\ s \in Nat /\ p \in Nat /\ p <= s
      /\ Promised(r, s) = s /\ f.mResponseQueue \in Seq(Nat)
  BY <1>1 DEF Before, Promised
<1> HIDE DEF next
<1>3. CASE tag.op = "request" /\ tag.message = 0
  <2>1. g = <<>> /\ s = 0
    BY <1>3 DEF Before
  <2>2. IsWrites(g) /\ Len(g) = Promised(r, s)
    BY <1>2, <2>1 DEF IsWrites
  <2> HIDE DEF r
  <2>3. Advanced(r, tag, R, next, g, s, p)
    BY <1>1, <1>2, <1>3, <2>2, MovedAdvances
  <2> QED
    BY <2>3 DEF r, next
<1>4. CASE tag.op = "request" /\ tag.message > 0
  <2>1. g = <<>> /\ tag.message = s /\ p = s /\ tag.op # "read"
    BY <1>4 DEF Before
  <2> DEFINE g2 == g \o Writing(1)
  <2>2. IsWrites(g2) /\ Len(g2) = 1 /\ g2 \in Seq(Given)
    <3>1. IsWrites(g) /\ Len(g) = 0
      BY <2>1 DEF IsWrites
    <3>2. Writing(1) \in Seq(Given)
      BY DEF Writing, Given
    <3>3. Len(g) + 1 = 1
      BY <3>1
    <3>4. IsWrites(g \o Writing(Len(g) + 1)) /\ Len(g \o Writing(Len(g) + 1)) = Len(g) + 1
      BY <1>2, <3>1, WritesMore
    <3>5. g \o Writing(1) \in Seq(Given)
      BY <1>2, <3>2, ConcatProperties
    <3> QED
      BY <3>3, <3>4, <3>5
  <2>3. rs \in Seq(Nat) /\ Len(rs) = s /\ \A i \in DOMAIN rs : rs[i] = i /\ i \in Nat
    BY <1>2, <2>1
  <2> HIDE DEF rs, g2
  <2>4. Under(r, {"write"}, rs, g2, p)
    BY <1>1, <1>2, <2>1, <2>2, <2>3 DEF Under, Queued
  <2>5. Under(r, R \cup {"write"}, next.mResponseQueue, g \o Writing(1), p)
    BY <1>1, <1>4, <2>4 DEF g2
  <2> HIDE DEF r
  <2>6. Advanced(r, tag, R, next, g, s, p)
    BY <1>1, <1>2, <1>4, <2>1, <2>2, <2>5, MovedAdvances DEF g2
  <2> QED
    BY <2>6 DEF r, next
<1>5. CASE tag.op = "write"
  <2>1. Under(r, {"write"}, f.mResponseQueue, g, p) /\ tag.ok /\ p = s /\ f.mResponseQueue # <<>>
    <3>1. R \cup {tag.op} = {"write"}
      BY <1>1, <1>5
    <3> QED
      BY <1>1, <1>5, <3>1 DEF Before, Halfway
  <2>2. IsWrites(g) /\ Queued(f.mResponseQueue, g, p)
    BY <1>1, <2>1 DEF Under
  <2> DEFINE g2 == g \o Writing(Head(left))
  <2>3. /\ left \in Seq(Nat) /\ (left = <<>> => Len(g) = p)
        /\ left # <<>> => IsWrites(g2) /\ Queued(left, g2, p)
    BY <1>2, <2>1, <2>2, Popped
  <2> HIDE DEF left
  <2>4. CASE left = <<>>
    <3> HIDE DEF r
    <3>1. Advanced(r, tag, R, next, g, s, p)
      BY <1>1, <1>2, <1>5, <2>1, <2>2, <2>3, <2>4, MovedAdvances
    <3> QED
      BY <3>1 DEF r, next
  <2>5. CASE left # <<>>
    <3>1. g2 \in Seq(Given)
      <4>1. Writing(Head(left)) \in Seq(Given)
        BY <2>3, <2>5 DEF Writing, Given
      <4> QED
        BY <1>2, <4>1, ConcatProperties
    <3> HIDE DEF g2
    <3>2. Under(r, {"write"}, left, g2, p)
      BY <1>1, <2>3, <2>5 DEF Under
    <3>3. Under(r, R \cup {"write"}, next.mResponseQueue, g2, p)
      BY <1>1, <1>5, <2>1, <2>5, <3>2
    <3> HIDE DEF r
    <3>4. Advanced(r, tag, R, next, g, s, p)
      BY <1>1, <1>2, <1>5, <2>1, <2>5, <3>1, <3>3, MovedAdvances DEF g2
    <3> QED
      BY <3>4 DEF r, next
  <2> QED
    BY <2>4, <2>5
<1>6. tag.op # "finish"
  BY <1>1 DEF Before, Under
<1>7. tag.op = "request" => tag.message = 0 \/ tag.message > 0
  BY DEF Tags
<1> QED
  BY <1>1, <1>3, <1>4, <1>5, <1>6, <1>7 DEF next

LEMMA RecordAdvances ==
  ASSUME NEW f, NEW tag \in Tags, NEW R, NEW points \in Nat, Halfway("RecordRoute", f, R, tag.op),
         NEW queue, NEW g, NEW s, NEW p, Before("RecordRoute", tag, R, queue, g, s, p)
  PROVE  Advanced("RecordRoute", tag, R, ClientStreamingRpcJob(f, tag, points), g, s, p)
<1> DEFINE r == "RecordRoute"
           next == ClientStreamingRpcJob(f, tag, points)
           Made(starts, out) == Moved(r, f, next, R, starts, out)
<1>1. /\ R = {} /\ tag.op \in {"request", "read", "finish"} /\ ~Streams(r)
      /\ tag.op = "request" \/ (tag.op = "read" /\ tag.ok) => Made({"read"}, <<>>)
      /\ tag.op = "read" /\ ~tag.ok => Made({"finish"}, Finishing(points))
  BY RecordMoves DEF Streams
<1>2. tag.op # "finish" /\ g \in Seq(Given) /\ s \in Nat /\ p \in Nat /\ g = <<>> /\ p <= s /\ Promised(r, s) = 0
  BY <1>1 DEF Before, Under, Promised
<1>3. IsWrites(g) /\ Len(g) = 0
  BY <1>2 DEF IsWrites
<1> HIDE DEF next
<1>4. CASE tag.op = "request" \/ (tag.op = "read" /\ tag.ok)
  <2>1. g \o <<>> = <<>>
    BY <1>2, GotMore
  <2>2. \A n : Under(r, {"read"}, next.mResponseQueue, g \o <<>>, n)
    BY <1>1, <1>2, <1>3, <2>1 DEF Under
  <2>3. R \cup {"read"} = {"read"} /\ g \o <<>> \in Seq(Given)
    BY <1>1, <1>2, <2>1
  <2> HIDE DEF r
  <2>4. Advanced(r, tag, R, next, g, s, p)
    BY <1>1, <1>2, <1>4, <2>2, <2>3, MovedAdvances
  <2> QED
    BY <2>4 DEF r, next
<1>5. CASE tag.op = "read" /\ ~tag.ok
  <2> HIDE DEF r
  <2>1. Advanced(r, tag, R, next, g, s, p)
    BY <1>1, <1>2, <1>3, <1>5, MovedAdvances
  <2> QED
    BY <2>1 DEF r, next
<1> QED
  BY <1>1, <1>2, <1>4, <1>5 DEF next

LEMMA ChatAdvances ==
  ASSUME NEW f, NEW tag \in Tags, NEW R, Halfway("RouteChat", f, R, tag.op), NEW g, NEW s, NEW p,
         Before("RouteChat", tag, R, f.mResponseQueue, g, s, p)
  PROVE  Advanced("RouteChat", tag, R, BidirectionalStreamingRpcJob(f, tag), g, s, p)
<1> DEFINE r == "RouteChat"
           next == BidirectionalStreamingRpcJob(f, tag)
           queue == Append(f.mResponseQueue, tag.message)
           left == Tail(f.mResponseQueue)
           Made(starts, out) == Moved(r, f, next, R, starts, out)
<1>1. ChatMade(f, tag, R, next)
  BY ChatMoves
<1>2. /\ g \in Seq(Given) /\ s \in Nat /\ p \in Nat /\ p <= s /\ Streams(r)
      /\ Promised(r, s) = s /\ f.mResponseQueue \in Seq(Nat) /\ g \o <<>> = g
      /\ R \in {{}, {"read"}, {"write"}}
  <2>1. R \in {{}, {"read"}, {"write"}}
    BY <1>1 DEF ChatMade
  <2> QED
    BY <2>1, GotMore DEF Before, Promised, Streams
<1> HIDE DEF next
<1>3. CASE tag.op = "request"
  <2>1. R = {} /\ Made({"read"}, <<>>) /\ next.mResponseQueue = <<>>
    BY <1>1, <1>3 DEF ChatMade
  <2>2. g = <<>> /\ p = 0 /\ s = 0
    BY <1>3 DEF Before
  <2>3. Under(r, R \cup {"read"}, next.mResponseQueue, g \o <<>>, p)
    BY <1>2, <2>1, <2>2 DEF Under, IsWrites
  <2> HIDE DEF r
  <2>4. Advanced(r, tag, R, next, g, s, p)
    BY <1>2, <1>3, <2>1, <2>3, MovedAdvances
  <2> QED
    BY <2>4 DEF r, next
<1>4. CASE tag.op = "read" /\ tag.ok
  <2>1. /\ Under(r, R \cup {"read"}, f.mResponseQueue, g, p) /\ tag.message = s /\ p = s - 1
        /\ R \in {{}, {"write"}}
    BY <1>1, <1>4 DEF Before, ChatMade
  <2>2. /\ queue \in Seq(Nat) /\ Len(queue) = Len(f.mResponseQueue) + 1 /\ queue[Len(queue)] = s
        /\ \A i \in DOMAIN f.mResponseQueue : queue[i] = f.mResponseQueue[i]
        /\ DOMAIN queue = DOMAIN f.mResponseQueue \cup {Len(queue)} /\ queue # <<>>
    <3>1. PICK q \in Seq(Nat) : q = f.mResponseQueue
      BY <1>2
    <3>2. queue = Append(q, s) /\ s \in Nat
      BY <1>2, <2>1, <3>1
    <3>3. /\ Append(q, s) \in Seq(Nat) /\ Len(Append(q, s)) = Len(q) + 1 /\ Append(q, s)[Len(q) + 1] = s
          /\ (\A i \in 1 .. Len(q) : Append(q, s)[i] = q[i]) /\ Append(q, s) # <<>>
      BY ONLY <3>2, q \in Seq(Nat), AppendProperties
    <3>4. DOMAIN q = 1 .. Len(q) /\ Len(q) \in Nat /\ DOMAIN Append(q, s) = 1 .. Len(q) + 1
      BY <3>3
    <3>5. 1 .. Len(q) + 1 = (1 .. Len(q)) \cup {Len(q) + 1}
      BY <3>4
    <3> QED
      BY <3>1, <3>2, <3>3, <3>4, <3>5
  <2>3. CASE R = {}
    <3>1. Made({"read", "write"}, Writing(Head(queue))) /\ next.mResponseQueue = queue
      BY <1>1, <1>4, <2>3 DEF ChatMade
    <3>2. f.mResponseQueue = <<>> /\ Len(g) = s - 1 /\ IsWrites(g)
      BY <1>2, <2>1, <2>3 DEF Under
    <3>3. Head(queue) = s /\ Len(queue) = 1 /\ Head(queue) = Len(g) + 1
      BY <1>2, <2>2, <3>2
    <3> HIDE DEF queue
    <3> DEFINE g2 == g \o Writing(Head(queue))
    <3>4. Queued(queue, g2, s) /\ IsWrites(g2)
      <4>1. /\ queue # <<>> /\ Len(g) + Len(queue) = s
            /\ \A i \in DOMAIN queue : queue[i] = Len(g) + i
        <5>0. queue \in Seq(Nat) /\ Len(queue) = 1 /\ queue[1] = s
          BY <2>2, <3>3
        <5>1. queue # <<>> /\ \A i \in DOMAIN queue : i = 1
          <6>1. \A i \in 1 .. Len(queue) : i = 1
            BY <5>0
          <6>2. DOMAIN queue = 1 .. Len(queue)
            BY <5>0
          <6>3. queue # <<>>
            BY <2>2
          <6> QED
            BY <6>1, <6>2, <6>3
        <5>2. \A a \in Nat : a = s - 1 => a + 1 = s
          BY <1>2
        <5>3. Len(g) \in Nat
          BY <1>2
        <5> QED
          BY <3>2, <3>3, <5>0, <5>1, <5>2, <5>3
      <4> QED
        BY <1>2, <2>2, <3>2, <4>1, WritesOn
    <3>5. g2 \in Seq(Given)
      <4>1. Writing(Head(queue)) \in Seq(Given)
        BY <1>2, <3>3 DEF Writing, Given
      <4> QED
        BY <1>2, <4>1, ConcatProperties
    <3> HIDE DEF g2
    <3>6. Under(r, R \cup {"read", "write"}, next.mResponseQueue, g2, s)
      BY <1>2, <2>3, <3>1, <3>4 DEF Under
    <3> HIDE DEF r
    <3>7. Advanced(r, tag, R, next, g, s, p)
      BY <1>2, <1>4, <2>3, <3>1, <3>5, <3>6, MovedAdvances DEF g2
    <3> QED
      BY <3>7 DEF r, next
  <2>4. CASE R = {"write"}
    <3>1. Made({"read"}, <<>>) /\ next.mResponseQueue = queue
      BY <1>1, <1>4, <2>4 DEF ChatMade
    <3>2. Queued(f.mResponseQueue, g, p) /\ IsWrites(g)
      BY <1>2, <2>1, <2>4 DEF Under
    <3>3. Queued(queue, g, s)
      <4>1. Len(g) > 0 /\ Len(g) + Len(f.mResponseQueue) = s /\ Len(f.mResponseQueue) \in Nat /\ Len(g) \in Nat
        BY <1>2, <2>1, <3>2 DEF Queued
      <4> HIDE DEF queue
      <4>2. Len(g) + Len(queue) = s + 1 /\ Len(g) - 1 + Len(queue) = s
        <5>1. ASSUME NEW a \in Nat, NEW b \in Nat, a + b = s PROVE a + (b + 1) = s + 1 /\ a - 1 + (b + 1) = s
          BY <1>2, <5>1
        <5> QED
          BY <2>2, <4>1, <5>1
      <4>3. \A i \in DOMAIN queue : queue[i] = Len(g) - 1 + i
        BY <2>2, <3>2, <4>2 DEF Queued
      <4> QED
        BY <4>1, <4>2, <4>3 DEF Queued
    <3> HIDE DEF queue
    <3>4. Under(r, R \cup {"read"}, next.mResponseQueue, g \o <<>>, s)
      BY <1>2, <2>4, <3>1, <3>2, <3>3 DEF Under
    <3> HIDE DEF r
    <3>5. Advanced(r, tag, R, next, g, s, p)
      BY <1>2, <1>4, <2>4, <3>1, <3>4, MovedAdvances
    <3> QED
      BY <3>5 DEF r, next
  <2> QED
    BY <2>1, <2>3, <2>4
<1>5. CASE tag.op = "read" /\ ~tag.ok
  <2>1. /\ Under(r, R \cup {"read"}, f.mResponseQueue, g, p) /\ p = s
        /\ R \in {{}, {"write"}}
    BY <1>1, <1>5 DEF Before, ChatMade
  <2>2. CASE R = {}
    <3>1. Made({"finish"}, Finishing(0))
      BY <1>1, <1>5, <2>2 DEF ChatMade
    <3>2. Len(g) = s /\ IsWrites(g)
      BY <1>2, <2>1, <2>2 DEF Under
    <3> HIDE DEF r
    <3>3. Advanced(r, tag, R, next, g, s, p)
      BY <1>2, <1>5, <2>2, <3>1, <3>2, MovedAdvances
    <3> QED
      BY <3>3 DEF r, next
  <2>3. CASE R = {"write"}
    <3>1. Made({}, <<>>) /\ next.mResponseQueue = f.mResponseQueue
      BY <1>1, <1>5, <2>3 DEF ChatMade
    <3>2. Under(r, R \cup {}, next.mResponseQueue, g \o <<>>, p)
      BY <1>2, <2>1, <2>3, <3>1 DEF Under
    <3> HIDE DEF r
    <3>3. Advanced(r, tag, R, next, g, s, p)
      BY <1>2, <1>5, <2>3, <3>1, <3>2, MovedAdvances
    <3> QED
      BY <3>3 DEF r, next
  <2> QED
    BY <2>1, <2>2, <2>3
<1>6. CASE tag.op = "write"
  <2>1. /\ Under(r, R \cup {"write"}, f.mResponseQueue, g, p) /\ tag.ok /\ ("read" \notin R => p = s)
        /\ R \in {{}, {"read"}} /\ f.mResponseQueue # <<>>
    BY <1>1, <1>6 DEF Before, ChatMade, Halfway
  <2>2. IsWrites(g) /\ Queued(f.mResponseQueue, g, p)
    BY <1>2, <2>1 DEF Under
  <2> DEFINE g2 == g \o Writing(Head(left))
  <2>3. /\ left \in Seq(Nat) /\ (left = <<>> => Len(g) = p)
        /\ left # <<>> => IsWrites(g2) /\ Queued(left, g2, p)
    BY <1>2, <2>1, <2>2, Popped
  <2>4. /\ left # <<>> => Made({"write"}, Writing(Head(left))) /\ next.mResponseQueue = left
        /\ left = <<>> /\ R = {} => Made({"finish"}, Finishing(0))
        /\ left = <<>> /\ R # {} => Made({}, <<>>) /\ next.mResponseQueue = left
    BY <1>1, <1>6, <2>1 DEF ChatMade
  <2> HIDE DEF left
  <2>5. CASE left # <<>>
    <3>1. g2 \in Seq(Given)
      <4>1. Writing(Head(left)) \in Seq(Given)
        BY <2>3, <2>5 DEF Writing, Given
      <4> QED
        BY <1>2, <4>1, ConcatProperties
    <3> HIDE DEF g2
    <3>2. Under(r, R \cup {"write"}, next.mResponseQueue, g2, p)
      BY <1>2, <2>1, <2>3, <2>4, <2>5 DEF Under
    <3>3. "request" \notin R \cup {"write"}
      BY <2>1
    <3> HIDE DEF r
    <3>4. Advanced(r, tag, R, next, g, s, p)
      BY <1>2, <1>6, <2>4, <2>5, <3>1, <3>2, <3>3, MovedAdvances DEF g2
    <3> QED
      BY <3>4 DEF r, next
  <2>6. CASE left = <<>> /\ R = {}
    <3> HIDE DEF r
    <3>1. Advanced(r, tag, R, next, g, s, p)
      BY <1>2, <1>6, <2>1, <2>2, <2>3, <2>4, <2>6, MovedAdvances
    <3> QED
      BY <3>1 DEF r, next
  <2>7. CASE left = <<>> /\ R = {"read"}
    <3>1. Made({}, <<>>) /\ next.mResponseQueue = <<>>
      BY <2>4, <2>7
    <3>2. Under(r, R \cup {}, next.mResponseQueue, g \o <<>>, p)
      BY <1>2, <2>2, <2>3, <2>7, <3>1 DEF Under
    <3> HIDE DEF r
    <3>3. Advanced(r, tag, R, next, g, s, p)
      BY <1>2, <1>6, <2>7, <3>1, <3>2, MovedAdvances
    <3> QED
      BY <3>3 DEF r, next
  <2> QED
    BY <2>1, <2>5, <2>6, <2>7
<1>7. tag.op # "finish"
  BY DEF Before, Under
<1> QED
  BY <1>1, <1>3, <1>4, <1>5, <1>6, <1>7 DEF ChatMade, next

LEMMA HandledAdvances ==
  ASSUME NEW j \in Jobs, NEW f, NEW tag \in Tags, NEW R, Halfway(Rpc(j), f, R, tag.op), mRecordRouteMap[j] \in Nat,
         NEW g, NEW s, NEW p, Before(Rpc(j), tag, R, f.mResponseQueue, g, s, p)
  PROVE  Advanced(Rpc(j), tag, R, Handled(j, f, tag), g, s, p)
<1>1. Rpc(j) \in Rpcs
  BY DEF Jobs, Rpc
<1>2. CASE Rpc(j) = "GetFeature"
  <2>1. Handled(j, f, tag) = UnaryRpcJob(f, tag)
    BY <1>2 DEF Handled
  <2> QED
    BY <1>2, <2>1, UnaryAdvances
<1>3. CASE Rpc(j) = "ListFeatures"
  <2>1. Handled(j, f, tag) = ServerStreamingRpcJob(f, tag, tag.message)
    BY <1>3 DEF Handled
  <2> QED
    BY <1>3, <2>1, ListAdvances
<1>4. CASE Rpc(j) = "RecordRoute"
  <2>1. Handled(j, f, tag) = ClientStreamingRpcJob(f, tag, mRecordRouteMap[j])
    BY <1>4 DEF Handled
  <2> QED
    BY <1>4, <2>1, RecordAdvances
<1>5. CASE Rpc(j) = "RouteChat"
  <2>1. Handled(j, f, tag) = BidirectionalStreamingRpcJob(f, tag)
    BY <1>5 DEF Handled
  <2> QED
    BY <1>5, <2>1, ChatAdvances
<1> QED
  BY <1>1, <1>2, <1>3, <1>4, <1>5 DEF Rpcs

\* A finish is followed by nothing; what RecordRoute starts.
Follows(r, tag, R, points, job) ==
  /\ tag.op = "finish" => job.starts = {}
  /\ r = "RecordRoute" =>
       /\ R = {} /\ tag.op \in {"request", "read", "finish"}
       /\ tag.op = "request" \/ (tag.op = "read" /\ tag.ok) => job.starts = {"read"}
       /\ tag.op = "read" /\ ~tag.ok => job.starts = {"finish"} /\ job.out = Finishing(points)

LEMMA HandledFollows ==
  ASSUME NEW j \in Jobs, NEW f, NEW tag \in Tags, NEW R, Halfway(Rpc(j), f, R, tag.op), mRecordRouteMap[j] \in Nat
  PROVE  Follows(Rpc(j), tag, R, mRecordRouteMap[j], Handled(j, f, tag))
<1>1. Rpc(j) \in Rpcs
  BY DEF Jobs, Rpc
<1>2. CASE Rpc(j) = "GetFeature"
  <2>1. Handled(j, f, tag) = UnaryRpcJob(f, tag)
    BY <1>2 DEF Handled
  <2>2. tag.op = "finish" => Moved("GetFeature", f, UnaryRpcJob(f, tag), R, {}, <<>>)
    BY <1>2, UnaryMoves
  <2> QED
    BY <1>2, <2>1, <2>2 DEF Follows, Moved
<1>3. CASE Rpc(j) = "ListFeatures"
  <2> DEFINE next == ServerStreamingRpcJob(f, tag, tag.message)
  <2>1. Handled(j, f, tag) = next
    BY <1>3 DEF Handled
  <2>2. ListMade(f, tag, R, next)
    BY <1>3, ListMoves
  <2> HIDE DEF next
  <2>3. tag.op = "finish" => Moved("ListFeatures", f, next, R, {}, <<>>)
    BY <2>2 DEF ListMade
  <2> QED
    BY <1>3, <2>1, <2>3 DEF Follows, Moved
<1>4. CASE Rpc(j) = "RecordRoute"
  <2> DEFINE next == ClientStreamingRpcJob(f, tag, mRecordRouteMap[j])
  <2>1. Handled(j, f, tag) = next
    BY <1>4 DEF Handled
  <2>2. /\ R = {} /\ tag.op \in {"request", "read", "finish"}
        /\ tag.op = "request" \/ (tag.op = "read" /\ tag.ok) => Moved("RecordRoute", f, next, R, {"read"}, <<>>)
        /\ tag.op = "read" /\ ~tag.ok => Moved("RecordRoute", f, next, R, {"finish"}, Finishing(mRecordRouteMap[j]))
        /\ tag.op = "finish" => Moved("RecordRoute", f, next, R, {}, <<>>)
    BY <1>4, RecordMoves
  <2> HIDE DEF next
  <2> QED
    BY <2>1, <2>2 DEF Follows, Moved
<1>5. CASE Rpc(j) = "RouteChat"
  <2> DEFINE next == BidirectionalStreamingRpcJob(f, tag)
  <2>1. Handled(j, f, tag) = next
    BY <1>5 DEF Handled
  <2>2. ChatMade(f, tag, R, next)
    BY <1>5, ChatMoves
  <2> HIDE DEF next
  <2>3. tag.op = "finish" => Moved("RouteChat", f, next, R, {}, <<>>)
    BY <2>2 DEF ChatMade
  <2> QED
    BY <1>5, <2>1, <2>3 DEF Follows, Moved
<1> QED
  BY <1>1, <1>2, <1>3, <1>4, <1>5 DEF Rpcs

-----------------------------------------------------------------------------
\* What the clients get: the steps ------------------------------------------

LEMMA TagsOfJob ==
  ASSUME OpsInv, NEW k \in Jobs
  PROVE  /\ TagsOf(k) \subseteq Tags /\ OpsIn(Waiting, k) = {t.op : t \in TagsOf(k)}
         /\ \A t \in TagsOf(k) : t.op \in Ops(k) /\ t.op \notin pending[k]
         /\ \A t, u \in TagsOf(k) : t.op = u.op => t = u
<1>1. Waiting \subseteq Tags
  BY DEF OpsInv, StreamTypes, Waiting, Elements
<1>2. OpsIn(Waiting, k) = {t.op : t \in TagsOf(k)}
  BY DEF OpsIn, TagsOf
<1>3. \A t, u \in TagsOf(k) : t.op = u.op => t = u
  BY DEF OpsInv, OneEach, Distinct, TagsOf, Waiting, Elements
<1> QED
  BY <1>1, <1>2, <1>3 DEF TagsOf, Ops, OpsInv, OneEach

\* What a step leaves alone.
LEMMA SameWell ==
  ASSUME NEW k \in Jobs, NEW c, Well(k, c), rpc' = rpc, jobs'[k] = jobs[k], Ops(k)' = Ops(k),
         TagsOf(k)' = TagsOf(k), call'[c] = call[c], sent'[c] = sent[c], got'[c] = got[c]
  PROVE  Well(k, c)'
<1>1. OpsIn(Waiting, k)' = OpsIn(Waiting, k)
  BY DEF OpsIn, TagsOf
<1>2. Processed(k, c)' = Processed(k, c)
  BY DEF Processed, ReadOk
<1> QED
  BY <1>1, <1>2 DEF Well

LEMMA SamePoints ==
  ASSUME NEW k \in Jobs, Points(k), mRecordRouteMap'[k] = mRecordRouteMap[k], Ops(k)' = Ops(k),
         "read" \in Ops(k) => Processed(k, jobs[k].call)' = Processed(k, jobs[k].call),
         NoneGone' => NoneGone
  PROVE  Points(k)'
BY DEF Points

LEMMA SameCall ==
  ASSUME NEW c, Okay(c), Own(c), rpc' = rpc, call'[c] # "closed" \/ call'[c] = call[c], sent'[c] = sent[c],
         got'[c] = got[c], NoneGone' => NoneGone
  PROVE  Okay(c)' /\ Own(c)'
BY DEF Okay, OkayAt, Own

LEMMA ClientAnswers ==
  ASSUME OpsInv, Answers, NEW c \in Calls, Call(c) \/ GoAway(c)
  PROVE  Answers'
<1>1. UNCHANGED <<rpc, sent, got, jobs, pending, gIncomingTags, mRecordRouteMap>> /\ call \in [Calls -> CallStates]
  BY DEF Call, GoAway, OpsInv, StreamTypes
<1>2. /\ Calls' = Calls
      /\ \A k \in Jobs : /\ Ops(k)' = Ops(k) /\ TagsOf(k)' = TagsOf(k) /\ OpsIn(Waiting, k)' = OpsIn(Waiting, k)
                         /\ \A d : Processed(k, d)' = Processed(k, d) /\ Serves(k, d)' = Serves(k, d)
  BY <1>1 DEF Calls, Waiting, Ops, TagsOf, Processed, ReadOk, Serves
<1>3. /\ \A d \in Calls : d # c => call'[d] = call[d]
      /\ (call[c] = "unmade" /\ call'[c] = "open") \/ (call[c] = "open" /\ call'[c] = "gone")
  BY <1>1 DEF Call, GoAway
<1>4. NoneGone' => NoneGone
  BY <1>1, <1>2, <1>3 DEF NoneGone
<1>5. ASSUME NEW k \in Jobs, NEW d \in Calls, Serves(k, d) PROVE Well(k, d)'
  <2>1. Well(k, d)
    BY <1>5 DEF Answers
  <2>2. CASE d # c
    BY <1>1, <1>2, <1>3, <2>1, <2>2, SameWell
  <2>3. CASE d = c
    <3>1. call'[d] = "gone"
      BY <1>3, <2>1, <2>3 DEF Well
    <3>2. \A t \in TagsOf(k) : Carries(t, "gone", sent[d])
      BY <2>1 DEF Well, Carries
    <3>3. Progress(Rpc(k), Ops(k) \ {"done"}, jobs[k].mResponseQueue, "gone", sent[d], got[d], Processed(k, d))
      BY <2>1 DEF Well, Progress
    <3> QED
      BY <1>1, <1>2, <2>1, <3>1, <3>2, <3>3 DEF Well
  <2> QED
    BY <2>2, <2>3
<1>6. ASSUME NEW k \in Jobs PROVE Points(k)'
  <2>1. Points(k) /\ jobs'[k] = jobs[k]
    BY <1>1 DEF Answers
  <2>2. Processed(k, jobs[k].call)' = Processed(k, jobs[k].call)
    BY <1>1, <1>2
  <2> QED
    BY <1>1, <1>2, <1>4, <2>1, <2>2, SamePoints
<1>7. ASSUME NEW d \in Calls PROVE Fresh(d)' /\ Okay(d)' /\ Own(d)'
  <2>1. Fresh(d) /\ Okay(d) /\ Own(d)
    BY DEF Answers
  <2>2. Okay(d)' /\ Own(d)'
    <3>1. call'[d] # "closed" \/ call'[d] = call[d]
      BY <1>3
    <3> QED
      BY <1>1, <1>4, <2>1, <3>1, SameCall
  <2>3. Fresh(d)'
    BY <1>1, <1>2, <1>3, <2>1 DEF Fresh
  <2> QED
    BY <2>1, <2>2, <2>3
<1>8. OneServes'
  BY <1>1, <1>2 DEF Answers, OneServes
<1> QED
  BY <1>2, <1>5, <1>6, <1>7, <1>8 DEF Answers

\* The runtime reports an operation of a job that serves a call.
LEMMA ReportAnswers ==
  ASSUME OpsInv, Answers, NEW j \in Jobs, NEW op \in pending[j], NEW ok \in BOOLEAN, NEW m \in Nat, op # "request",
         Report(j, op, ok, m), UNCHANGED <<rpc, call, got, jobs, mRecordRouteMap>>,
         NEW c, c = jobs[j].call,
         IF op = "read" /\ ok THEN m = sent[c] + 1 /\ sent' = [sent EXCEPT ![c] = m] ELSE sent' = sent,
         op = "write" /\ ~ok => call[c] = "gone", op = "done" => call[c] # "open"
  PROVE  Answers'
<1> DEFINE tag == [job |-> j, op |-> op, ok |-> ok, message |-> m]
<1>1. /\ Waiting' = Waiting \cup {tag} /\ op \notin OpsIn(Waiting, j)
      /\ \A k \in Jobs : /\ Ops(k)' = Ops(k)
                         /\ OpsIn(Waiting, k)' = OpsIn(Waiting, k) \cup IF k = j THEN {op} ELSE {}
  BY ReportedOp
<1>2. tag.job = j /\ tag.op = op /\ tag.message = m /\ (tag.ok <=> ok)
  OBVIOUS
<1> HIDE DEF tag
<1>3. \A k \in Jobs : TagsOf(k)' = TagsOf(k) \cup IF k = j THEN {tag} ELSE {}
  BY <1>1, <1>2 DEF TagsOf
<1>4. /\ op \in Ops(j) /\ jobs[j] # NoJob /\ c \in Calls /\ LiveAt(Rpc(j), jobs[j], Ops(j), FALSE)
      /\ "request" \notin pending[j]
  <2>1. op \in Ops(j)
    BY DEF Ops
  <2> QED
    BY <2>1, BegunServes
<1>5. Calls' = Calls /\ (NoneGone' <=> NoneGone) /\ sent \in [Calls -> Nat] /\ sent[c] \in Nat
      /\ \A k \in Jobs, d \in Calls : Serves(k, d)' <=> Serves(k, d)
  BY <1>4 DEF Calls, NoneGone, OpsInv, StreamTypes, Serves
<1>6. Serves(j, c) /\ Well(j, c) /\ \A k \in Jobs : Serves(k, c) => k = j
  BY <1>4 DEF Serves, Answers, OneServes
<1>7. \A d \in Calls : d # c => sent'[d] = sent[d]
  BY <1>5
<1>8. \A t \in TagsOf(j) : t.op \in Ops(j) /\ t.op # op
  BY <1>1, TagsOfJob
<1>9. Processed(j, c)' = Processed(j, c)
  <2>1. CASE op = "read" /\ ok
    <3>1. ~ReadOk(j) /\ ReadOk(j)'
      BY <1>2, <1>3, <1>8, <2>1 DEF ReadOk
    <3>2. sent'[c] = sent[c] + 1
      BY <1>4, <1>5, <2>1
    <3> QED
      BY <1>5, <3>1, <3>2 DEF Processed
  <2>2. CASE ~(op = "read" /\ ok)
    <3>1. ReadOk(j)' <=> ReadOk(j)
      BY <1>2, <1>3, <2>2 DEF ReadOk
    <3>2. sent'[c] = sent[c]
      BY <2>2
    <3> QED
      BY <3>1, <3>2 DEF Processed
  <2> QED
    BY <2>1, <2>2
<1>10. op = "read" => call[c] # "closed" /\ "request" \notin Ops(j) /\ \A t \in TagsOf(j) : t.op \notin {"read", "request"}
  <2>1. op = "read" => "request" \notin Ops(j)
    BY <1>4 DEF LiveAt, JobOk, FieldsOk, OpSets
  <2>2. op = "read" => call[c] # "closed"
    BY <1>4, <1>6 DEF Well, Progress
  <2> QED
    BY <1>8, <2>1, <2>2
<1>11. ASSUME NEW k \in Jobs, NEW d \in Calls, Serves(k, d) PROVE Well(k, d)'
  <2>1. CASE k # j
    <3>1. d # c /\ Well(k, d)
      BY <1>6, <1>11, <2>1 DEF Answers
    <3>2. TagsOf(k)' = TagsOf(k)
      BY <1>3, <2>1
    <3> QED
      BY <1>1, <1>7, <3>1, <3>2, SameWell
  <2>2. CASE k = j
    <3>1. d = c
      BY <1>11, <2>2 DEF Serves
    <3>2. \A t \in TagsOf(j) : Carries(t, call[c], sent'[c])
      <4>1. CASE op = "read" /\ ok
        BY <1>6, <1>10, <4>1 DEF Well, Carries
      <4>2. CASE ~(op = "read" /\ ok)
        BY <1>6, <4>2 DEF Well
      <4> QED
        BY <4>1, <4>2
    <3>3. Carries(tag, call[c], sent'[c])
      <4>1. op = "read" /\ ok => m = sent'[c] /\ m > 0
        BY <1>4, <1>5
      <4>2. op = "write" /\ ~ok => call[c] = "gone"
        OBVIOUS
      <4> QED
        BY <1>2, <4>1, <4>2 DEF Carries
    <3>4. \A t \in TagsOf(j)' : Carries(t, call'[c], sent'[c])
      BY <1>3, <3>2, <3>3
    <3>5. Progress(Rpc(j), Ops(j)' \ {"done"}, jobs'[j].mResponseQueue, call'[c], sent'[c], got'[c], Processed(j, c)')
      <4>1. Progress(Rpc(j), Ops(j) \ {"done"}, jobs[j].mResponseQueue, call[c], sent[c], got[c], Processed(j, c))
        BY <1>6 DEF Well
      <4>2. op = "read" \/ sent'[c] = sent[c]
        OBVIOUS
      <4> QED
        BY <1>1, <1>9, <1>10, <4>1, <4>2 DEF Progress
    <3>6. jobs[j].mOnDoneCalled \/ "done" \in OpsIn(Waiting, j)' => call[c] # "open"
      BY <1>1, <1>6 DEF Well
    <3> QED
      BY <1>6, <2>2, <3>1, <3>4, <3>5, <3>6 DEF Well
  <2> QED
    BY <2>1, <2>2
<1>12. ASSUME NEW k \in Jobs PROVE Points(k)'
  <2>1. Points(k)
    BY DEF Answers
  <2>2. "read" \in Ops(k) => Processed(k, jobs[k].call)' = Processed(k, jobs[k].call)
    <3>1. CASE k = j
      BY <1>9, <3>1 DEF Processed
    <3>2. CASE k # j /\ "read" \in Ops(k)
      <4>1. jobs[k] # NoJob
        BY <3>2 DEF OpsInv, LiveOps
      <4>2. jobs[k].call # c
        BY <1>4, <1>6, <3>2, <4>1 DEF Serves
      <4>3. sent'[jobs[k].call] = sent[jobs[k].call]
        <5>1. jobs[k].call \in Calls
          <6>1. "read" \in Ops(k)
            BY <3>2
          <6> QED
            BY <6>1, BegunServes
        <5> QED
          BY <1>7, <4>2, <5>1
      <4>4. ReadOk(k)' <=> ReadOk(k)
        BY <1>3, <3>2 DEF ReadOk
      <4> QED
        BY <4>3, <4>4 DEF Processed
    <3> QED
      BY <3>1, <3>2
  <2> QED
    BY <1>1, <1>5, <2>1, <2>2, SamePoints
<1>13. ASSUME NEW d \in Calls PROVE Fresh(d)' /\ Okay(d)' /\ Own(d)'
  <2>1. Fresh(d) /\ Okay(d) /\ Own(d)
    BY DEF Answers
  <2>2. CASE sent'[d] = sent[d]
    <3>1. Okay(d)' /\ Own(d)'
      BY <1>5, <2>1, <2>2, SameCall
    <3>2. Fresh(d)'
      BY <1>5, <2>1, <2>2 DEF Fresh
    <3> QED
      BY <3>1, <3>2
  <2>3. CASE sent'[d] # sent[d]
    <3>1. d = c /\ op = "read" /\ ok /\ sent'[c] = sent[c] + 1
      BY <1>4, <1>5, <1>7, <2>3
    <3>2. call[c] # "closed" /\ call[c] # "unmade" /\ Serves(j, c)
      BY <1>6, <1>10, <3>1 DEF Well
    <3>3. Okay(c)'
      <4>1. got[c] \in Seq(Given)
        BY <1>4 DEF OpsInv, StreamTypes
      <4>2. Len(got[c]) \in Nat /\ \A i \in DOMAIN got[c] : i \in Nat
        BY <4>1
      <4>3. Promised(rpc[c], sent[c]) \in Nat /\ Promised(rpc[c], sent[c] + 1) \in Nat
            /\ Promised(rpc[c], sent[c]) <= Promised(rpc[c], sent[c] + 1)
        BY <1>5 DEF Promised
      <4>4. OkayAt(rpc[c], call[c], sent[c] + 1, got[c])
        <5>1. PICK a \in Nat, b \in Nat : a = Promised(rpc[c], sent[c]) /\ b = Promised(rpc[c], sent[c] + 1) /\ a <= b
          BY <4>3
        <5>2. /\ Len(got[c]) <= a + 1
              /\ \A i \in DOMAIN got[c] : got[c][i][1] = "write" => got[c][i][2] = i /\ i <= a
          BY <2>1, <3>1, <3>2, <5>1 DEF Okay, OkayAt
        <5>3. Len(got[c]) <= b + 1 /\ \A i \in Nat : i <= a => i <= b
          BY <4>2, <5>1, <5>2
        <5> QED
          BY <3>2, <4>2, <5>1, <5>2, <5>3 DEF OkayAt
      <4> QED
        BY <3>1, <4>4 DEF Okay
    <3>4. Own(c)'
      BY <3>2 DEF Own
    <3>5. Fresh(c)'
      <4>1. Serves(j, c)' /\ call'[c] = call[c]
        BY <1>4, <1>5, <3>2
      <4> QED
        BY <3>2, <4>1 DEF Fresh
    <3> QED
      BY <3>1, <3>3, <3>4, <3>5
  <2> QED
    BY <2>2, <2>3
<1>14. OneServes'
  BY <1>5 DEF Answers, OneServes
<1> QED
  BY <1>5, <1>11, <1>12, <1>13, <1>14 DEF Answers

\* A call is a positive number; NoCall is none.
LEMMA CallsAreCalls == ASSUME OpsInv, StreamAssumption PROVE NoCall \notin Calls
<1>1. rpc \in Seq(Rpcs)
  BY DEF OpsInv, StreamTypes, StreamAssumption
<1>2. DOMAIN rpc = 1 .. Len(rpc)
  BY <1>1
<1> QED
  BY <1>2 DEF Calls, NoCall

\* A job that has waited for a call gets one that nothing has come of yet.
LEMMA AcceptAnswers ==
  ASSUME OpsInv, Answers, StreamAssumption, NEW j \in Jobs, NEW c \in Calls, Accept(j, c)
  PROVE  Answers'
<1>1. /\ UNCHANGED <<rpc, call, got, mRecordRouteMap>>
      /\ jobs[j] # NoJob /\ jobs[j].call = NoCall /\ Ops(j) = {"request"} /\ Ops(j)' = {"request", "done"}
      /\ "request" \notin OpsIn(Waiting, j)
      /\ jobs'[j] # NoJob /\ jobs'[j].call = c /\ ~jobs'[j].mOnDoneCalled
      /\ \A k \in Jobs : k # j => jobs'[k] = jobs[k] /\ Ops(k)' = Ops(k)
  BY AcceptOps
<1>2. PICK n \in Nat : /\ rpc[c] # "ListFeatures" => n = 0
                       /\ sent' = [sent EXCEPT ![c] = n]
                       /\ Waiting' = Waiting \cup {RequestTag(j, n)}
  BY AcceptOps
<1>3. call[c] = "open" /\ rpc[c] = Rpc(j) /\ \A k \in Jobs : ~Serves(k, c)
  BY DEF Accept, Served, Serves
<1>4. /\ Calls' = Calls /\ (NoneGone' <=> NoneGone) /\ sent \in [Calls -> Nat]
      /\ sent'[c] = n /\ \A d \in Calls : d # c => sent'[d] = sent[d]
  BY <1>1, <1>2 DEF Calls, NoneGone, OpsInv, StreamTypes
<1>5. \A k \in Jobs, d \in Calls : Serves(k, d)' <=> Serves(k, d) \/ (k = j /\ d = c)
  BY <1>1, CallsAreCalls DEF Serves
<1>6. /\ TagsOf(j)' = {RequestTag(j, n)} /\ \A k \in Jobs : k # j => TagsOf(k)' = TagsOf(k)
  <2>1. TagsOf(j) = {}
    BY <1>1, TagsOfJob
  <2>2. RequestTag(j, n).job = j
    BY DEF RequestTag
  <2> QED
    BY <1>2, <2>1, <2>2 DEF TagsOf
<1>7. got[c] = <<>> /\ Okay(c)'
  <2>1. got[c] = <<>>
    BY <1>3 DEF Answers, Fresh
  <2>2. OkayAt(rpc[c], "open", n, <<>>)
    BY PromisedNumber DEF OkayAt
  <2> QED
    BY <1>1, <1>3, <1>4, <2>1, <2>2 DEF Okay
<1>8. Well(j, c)'
  <2>1. RequestTag(j, n).op = "request" /\ RequestTag(j, n).message = n
    BY DEF RequestTag
  <2>2. \A t \in TagsOf(j)' : Carries(t, call'[c], sent'[c])
    BY <1>4, <1>6, <2>1 DEF Carries
  <2>3. OpsIn(Waiting, j)' = {"request"}
    BY <1>2, <1>6, <2>1 DEF OpsIn, TagsOf
  <2>4. Ops(j)' \ {"done"} = {"request"}
    BY <1>1
  <2>5. Progress(Rpc(j), {"request"}, jobs'[j].mResponseQueue, "open", n, <<>>, Processed(j, c)')
    BY <1>2, <1>3 DEF Progress
  <2> QED
    BY <1>1, <1>3, <1>4, <1>7, <2>2, <2>3, <2>4, <2>5 DEF Well
<1>9. ASSUME NEW k \in Jobs, NEW d \in Calls, Serves(k, d)' PROVE Well(k, d)'
  <2>1. CASE k = j /\ d = c
    BY <1>8, <2>1
  <2>2. CASE ~(k = j /\ d = c)
    <3>1. Serves(k, d) /\ k # j /\ d # c /\ Well(k, d)
      BY <1>1, <1>3, <1>5, <1>9, <2>2, CallsAreCalls DEF Answers, Serves
    <3> QED
      BY <1>1, <1>4, <1>6, <3>1, SameWell
  <2> QED
    BY <2>1, <2>2
<1>10. ASSUME NEW k \in Jobs PROVE Points(k)'
  <2>1. Points(k)
    BY DEF Answers
  <2>2. CASE k = j
    BY <1>1, <1>4, <2>1, <2>2 DEF Points
  <2>3. CASE k # j
    <3>1. "read" \in Ops(k) => Processed(k, jobs[k].call)' = Processed(k, jobs[k].call)
      <4>1. HAVE "read" \in Ops(k)
      <4>2. jobs[k] # NoJob /\ jobs[k].call \in Calls
        BY <4>1, BegunServes
      <4>3. jobs[k].call # c
        BY <1>3, <4>2 DEF Serves
      <4>4. sent'[jobs[k].call] = sent[jobs[k].call] /\ jobs'[k] = jobs[k]
        BY <1>1, <1>4, <2>3, <4>2, <4>3
      <4>5. ReadOk(k)' <=> ReadOk(k)
        BY <1>6, <2>3 DEF ReadOk
      <4> QED
        BY <4>4, <4>5 DEF Processed
    <3>2. Ops(k)' = Ops(k) /\ jobs'[k] = jobs[k] /\ mRecordRouteMap'[k] = mRecordRouteMap[k]
      BY <1>1, <2>3
    <3> QED
      BY <1>4, <2>1, <3>1, <3>2, SamePoints
  <2> QED
    BY <2>2, <2>3
<1>11. ASSUME NEW d \in Calls PROVE Fresh(d)' /\ Okay(d)' /\ Own(d)'
  <2>1. CASE d = c
    <3>1. Serves(j, c)' /\ call'[c] = "open"
      BY <1>1, <1>3, <1>5
    <3> QED
      BY <1>7, <2>1, <3>1 DEF Fresh, Own
  <2>2. CASE d # c
    <3>1. Fresh(d) /\ Okay(d) /\ Own(d)
      BY DEF Answers
    <3>2. Okay(d)' /\ Own(d)'
      BY <1>1, <1>4, <2>2, <3>1, SameCall
    <3>3. Fresh(d)'
      <4>1. \A k \in Jobs : Serves(k, d)' <=> Serves(k, d)
        BY <1>5, <2>2
      <4> QED
        BY <1>1, <1>4, <2>2, <3>1, <4>1 DEF Fresh
    <3> QED
      BY <3>2, <3>3
  <2> QED
    BY <2>1, <2>2
<1>12. OneServes'
  BY <1>3, <1>4, <1>5 DEF Answers, OneServes
<1> QED
  BY <1>4, <1>9, <1>10, <1>11, <1>12 DEF Answers

\* HandleRpcs: the other events.
LEMMA ReportedAnswers ==
  ASSUME OpsInv, Answers, StreamAssumption, NEW j \in Jobs,
         ReadMessage(j) \/ ReadEnds(j) \/ RpcDone(j) \/ \E op \in {"write", "finish"} : Written(j, op)
  PROVE  Answers'
<1> PICK c : c = jobs[j].call
  OBVIOUS
<1>1. CASE ReadMessage(j)
  <2>1. /\ "read" \in pending[j] /\ "read" \in Ops(j) /\ sent' = [sent EXCEPT ![c] = @ + 1]
        /\ Report(j, "read", TRUE, sent[c] + 1) /\ UNCHANGED <<rpc, call, got, jobs, mRecordRouteMap>>
    BY <1>1 DEF ReadMessage, Ops
  <2>2. c \in Calls
    BY <2>1, BegunServes
  <2>3. sent[c] + 1 \in Nat
    BY <2>2 DEF OpsInv, StreamTypes
  <2>4. PICK m \in Nat : m = sent[c] + 1
    BY <2>3
  <2>5. sent' = [sent EXCEPT ![c] = m]
    BY <2>1, <2>4
  <2>6. PICK op \in pending[j], ok \in BOOLEAN : op = "read" /\ ok
    BY <2>1
  <2>7. Report(j, op, ok, m)
    <3>1. ok = TRUE
      BY <2>6
    <3> QED
      BY <2>1, <2>4, <2>6, <3>1
  <2>8. IF op = "read" /\ ok THEN m = sent[c] + 1 /\ sent' = [sent EXCEPT ![c] = m] ELSE sent' = sent
    BY <2>4, <2>5, <2>6
  <2>9. op # "request" /\ (op = "write" /\ ~ok => call[c] = "gone") /\ (op = "done" => call[c] # "open")
    BY <2>6
  <2>10. UNCHANGED <<rpc, call, got, jobs, mRecordRouteMap>> /\ c = jobs[j].call
    BY <2>1
  <2> QED
    BY <2>7, <2>8, <2>9, <2>10, ReportAnswers
<1>2. CASE ReadEnds(j)
  <2>1. /\ "read" \in pending[j] /\ Report(j, "read", FALSE, 0) /\ sent' = sent
        /\ UNCHANGED <<rpc, call, got, jobs, mRecordRouteMap>>
    BY <1>2 DEF ReadEnds, clientVars
  <2> QED
    BY <2>1, ReportAnswers
<1>3. CASE RpcDone(j)
  <2>1. /\ "done" \in pending[j] /\ Report(j, "done", TRUE, 0) /\ sent' = sent /\ call[c] # "open"
        /\ UNCHANGED <<rpc, call, got, jobs, mRecordRouteMap>>
    BY <1>3 DEF RpcDone, clientVars
  <2> QED
    BY <2>1, ReportAnswers
<1>4. ASSUME NEW op \in {"write", "finish"}, Written(j, op) PROVE Answers'
  <2>1. PICK ok \in {TRUE} \cup {call[c] # "gone"} : Report(j, op, ok, 0)
    BY <1>4 DEF Written
  <2>2. op \in pending[j] /\ sent' = sent /\ UNCHANGED <<rpc, call, got, jobs, mRecordRouteMap>>
    BY <1>4 DEF Written, clientVars
  <2>3. ok \in BOOLEAN /\ (~ok => call[c] = "gone")
    BY <2>1
  <2>4. op # "request" /\ op # "read" /\ op # "done"
    OBVIOUS
  <2>5. op = "write" /\ ~ok => call[c] = "gone"
    BY <2>3
  <2> QED
    BY <2>1, <2>2, <2>3, <2>4, <2>5, ReportAnswers
<1> QED
  BY <1>1, <1>2, <1>3, <1>4

\* processRpcs notes that an rpc is done, of which the client knows already.
LEMMA DoneAnswers ==
  ASSUME OpsInv, Answers, StreamAssumption, OnDone
  PROVE  Answers'
<1>1. PICK tag \in Tags :
        /\ tag \in Waiting /\ tag.op = "done" /\ OpsInv' /\ Waiting' = Waiting \ {tag}
        /\ UNCHANGED <<rpc, call, sent, got, mRecordRouteMap>> /\ jobs[tag.job] # NoJob
        /\ \A k \in Jobs : k # tag.job => Ops(k)' = Ops(k) /\ jobs'[k] = jobs[k]
        /\ \/ jobs'[tag.job] = NoJob /\ Ops(tag.job) = {"done"}
           \/ /\ jobs'[tag.job] # NoJob /\ Ops(tag.job)' = Ops(tag.job) \ {"done"}
              /\ jobs'[tag.job].call = jobs[tag.job].call
              /\ jobs'[tag.job].mResponseQueue = jobs[tag.job].mResponseQueue
  BY DoneStep
<1> PICK j \in Jobs : j = tag.job
  BY DEF Tags
<1> PICK c : c = jobs[j].call
  OBVIOUS
<1>2. j \in Jobs /\ tag \in TagsOf(j)
  BY <1>1 DEF TagsOf
<1>3. "done" \in Ops(j) /\ "done" \in OpsIn(Waiting, j)
  BY <1>1, <1>2, TagsOfJob
<1>4. c \in Calls /\ Serves(j, c) /\ Well(j, c) /\ call[c] # "open" /\ call[c] # "unmade"
  <2>1. c \in Calls /\ Serves(j, c)
    BY <1>2, <1>3, BegunServes DEF Serves
  <2> QED
    BY <1>2, <1>3, <2>1 DEF Answers, Well
<1>5. /\ Calls' = Calls /\ (NoneGone' <=> NoneGone)
      /\ TagsOf(j)' = TagsOf(j) \ {tag} /\ \A k \in Jobs : k # j => TagsOf(k)' = TagsOf(k)
  BY <1>1 DEF Calls, NoneGone, TagsOf
<1>6. \A k \in Jobs, d \in Calls : /\ Serves(k, d)' => Serves(k, d)
                                   /\ Serves(k, d) => Serves(k, d)' \/ d = c
  BY <1>1, <1>2 DEF Serves
<1>7. \A k \in Jobs : ReadOk(k)' <=> ReadOk(k)
  BY <1>1, <1>5 DEF ReadOk
<1>8. \A k \in Jobs : \A d : Processed(k, d)' = Processed(k, d)
  BY <1>1, <1>7 DEF Processed
<1>9. ASSUME NEW k \in Jobs, NEW d \in Calls, Serves(k, d)' PROVE Well(k, d)'
  <2>1. Serves(k, d) /\ Well(k, d)
    BY <1>6, <1>9 DEF Answers
  <2>2. CASE k # j
    BY <1>1, <1>5, <2>1, <2>2, SameWell
  <2>3. CASE k = j
    <3>1. d = c /\ jobs'[j] # NoJob
      BY <1>9, <2>1, <2>3 DEF Serves
    <3>2. (Ops(j)' \ {"done"}) = Ops(j) \ {"done"} /\ jobs'[j].mResponseQueue = jobs[j].mResponseQueue
      BY <1>1, <3>1
    <3>3. Progress(Rpc(j), Ops(j)' \ {"done"}, jobs'[j].mResponseQueue, call'[c], sent'[c], got'[c], Processed(j, c)')
      BY <1>1, <1>4, <1>8, <3>2 DEF Well
    <3>4. \A t \in TagsOf(j)' : Carries(t, call'[c], sent'[c])
      BY <1>1, <1>4, <1>5 DEF Well
    <3> QED
      BY <1>1, <1>4, <2>3, <3>1, <3>3, <3>4 DEF Well
  <2> QED
    BY <2>2, <2>3
<1>10. ASSUME NEW k \in Jobs PROVE Points(k)'
  <2>1. Points(k)
    BY DEF Answers
  <2>2. CASE k # j
    <3>1. Processed(k, jobs[k].call)' = Processed(k, jobs[k].call)
      BY <1>1, <1>8, <2>2 DEF Processed
    <3> QED
      BY <1>1, <1>5, <2>1, <2>2, <3>1, SamePoints
  <2>3. CASE k = j /\ jobs'[j] = NoJob
    <3>1. Ops(j)' = {}
      BY <1>1, <1>2, <2>3 DEF OpsInv, LiveOps
    <3>2. "read" \notin Ops(j)
      BY <1>1, <1>2, <2>3
    <3> QED
      BY <1>1, <1>5, <2>1, <2>3, <3>1, <3>2 DEF Points
  <2>4. CASE k = j /\ jobs'[j] # NoJob
    <3>1. ("read" \in Ops(j)' <=> "read" \in Ops(j)) /\ jobs'[j].call = c
      BY <1>1, <2>4
    <3>2. Processed(j, c)' = Processed(j, c)
      BY <1>1, <1>2, <1>8 DEF Processed
    <3> QED
      BY <1>1, <1>5, <2>1, <2>4, <3>1, <3>2 DEF Points, Processed
  <2> QED
    BY <2>2, <2>3, <2>4
<1>11. ASSUME NEW d \in Calls PROVE Fresh(d)' /\ Okay(d)' /\ Own(d)'
  <2>1. Fresh(d) /\ Okay(d) /\ Own(d)
    BY DEF Answers
  <2>2. Okay(d)' /\ Own(d)'
    BY <1>1, <1>5, <2>1, SameCall
  <2>3. Fresh(d)'
    <3>1. CASE d = c
      BY <1>1, <1>4, <3>1 DEF Fresh
    <3>2. CASE d # c
      BY <1>1, <1>6, <2>1, <3>2 DEF Fresh
    <3> QED
      BY <3>1, <3>2
  <2> QED
    BY <2>2, <2>3
<1>12. OneServes'
  BY <1>5, <1>6 DEF Answers, OneServes
<1> QED
  BY <1>5, <1>9, <1>10, <1>11, <1>12 DEF Answers

\* What processRpcs knows of the call when it takes the tag of an operation.
Known(j, c, tag, R, f) ==
  /\ c \in Calls /\ Serves(j, c) /\ Well(j, c) /\ tag \in TagsOf(j) /\ tag.op \in Ops(j)
  /\ Carries(tag, call[c], sent[c])
  /\ Halfway(Rpc(j), f, R, tag.op) /\ SameBut(f, jobs[j]) /\ "request" \notin R
  /\ call[c] = "open" => Before(Rpc(j), tag, R, f.mResponseQueue, got[c], sent[c], Processed(j, c))
  /\ call[c] = "closed" => tag.op = "finish" /\ R = {}
  /\ tag.op = "request" => R = {} /\ (Rpc(j) # "ListFeatures" => sent[c] = 0) /\ Processed(j, c) = sent[c]
  /\ tag.op = "read" /\ tag.ok => Processed(j, c) = sent[c] - 1
  /\ tag.op = "read" /\ ~tag.ok => Processed(j, c) = sent[c]

LEMMA BeforeTag ==
  ASSUME OpsInv, Answers, gIncomingTags # <<>>, NEW tag \in Tags, tag = Head(gIncomingTags), tag.op # "done",
         NEW j \in Jobs, j = tag.job, NEW c, c = jobs[j].call
  PROVE  Known(j, c, tag, (Ops(j) \ {"done"}) \ {tag.op}, AsyncOpFinished(jobs[j], tag.op))
<1> DEFINE R == (Ops(j) \ {"done"}) \ {tag.op}
           f == AsyncOpFinished(jobs[j], tag.op)
<1>1. /\ tag \in Waiting /\ tag.op \in Ops(j) /\ jobs[j] # NoJob /\ c \in Calls
      /\ Halfway(Rpc(j), f, R, tag.op) /\ SameBut(f, jobs[j]) /\ f.mResponseQueue = jobs[j].mResponseQueue
  BY Processing
<1> HIDE DEF f
<1>2. /\ Serves(j, c) /\ Well(j, c) /\ tag \in TagsOf(j) /\ Carries(tag, call[c], sent[c])
      /\ got[c] \in Seq(Given) /\ sent[c] \in Nat /\ jobs[j].mResponseQueue \in Seq(Nat)
  <2>1. Serves(j, c) /\ tag \in TagsOf(j) /\ jobs[j] \in JobRecords
    BY <1>1 DEF Serves, TagsOf, OpsInv, StreamTypes
  <2>2. Well(j, c)
    BY <1>1, <2>1 DEF Answers
  <2> QED
    BY <1>1, <2>1, <2>2 DEF Well, OpsInv, StreamTypes, JobRecords
<1>3. R \cup {tag.op} \in OpSets(Rpc(j)) /\ tag.op \notin R /\ R \cup {tag.op} = Ops(j) \ {"done"}
  BY <1>1 DEF Halfway
<1>4. "request" \notin R /\ (tag.op = "request" => R = {})
  BY <1>3 DEF OpSets
<1>5. /\ Progress(Rpc(j), R \cup {tag.op}, jobs[j].mResponseQueue, call[c], sent[c], got[c], Processed(j, c))
      /\ \A t \in TagsOf(j) : Carries(t, call[c], sent[c])
  BY <1>2, <1>3 DEF Well
<1>6. \A t \in TagsOf(j) : t.op = "read" => t = tag \/ "read" \in R
  <2>1. ASSUME NEW t \in TagsOf(j), t.op = "read", t # tag PROVE "read" \in R
    <3>1. t.op # tag.op /\ t.op \in Ops(j)
      BY <1>2, <2>1, TagsOfJob
    <3> QED
      BY <2>1, <3>1
  <2> QED
    BY <2>1
<1>7. /\ ReadOk(j) => sent[c] > 0
      /\ "read" \notin R /\ ~(tag.op = "read" /\ tag.ok) => ~ReadOk(j)
      /\ tag.op = "read" /\ tag.ok => ReadOk(j)
  BY <1>2, <1>5, <1>6 DEF ReadOk, Carries
<1>8. /\ Processed(j, c) \in Nat /\ Processed(j, c) <= sent[c]
      /\ "read" \notin R /\ ~(tag.op = "read" /\ tag.ok) => Processed(j, c) = sent[c]
      /\ tag.op = "read" /\ tag.ok => Processed(j, c) = sent[c] - 1
  <2>1. PICK s \in Nat : s = sent[c]
    BY <1>2
  <2>2. Processed(j, c) = IF ReadOk(j) THEN s - 1 ELSE s
    BY <2>1 DEF Processed
  <2>3. ReadOk(j) => s > 0
    BY <1>7, <2>1
  <2>4. Processed(j, c) \in Nat /\ Processed(j, c) <= s
    BY <2>2, <2>3
  <2> QED
    BY <1>7, <2>1, <2>2, <2>4
<1>9. call[c] = "open" => Before(Rpc(j), tag, R, f.mResponseQueue, got[c], sent[c], Processed(j, c))
  <2>1. CASE tag.op = "request"
    <3>1. tag.message = sent[c] /\ got[c] = <<>> /\ (Rpc(j) # "ListFeatures" => sent[c] = 0) /\ Processed(j, c) = sent[c]
      BY <1>2, <1>4, <1>5, <1>8, <2>1 DEF Carries, Progress
    <3> QED
      BY <1>1, <1>2, <1>8, <2>1, <3>1 DEF Before
  <2>2. CASE tag.op # "request" /\ call[c] = "open"
    <3>1. Under(Rpc(j), R \cup {tag.op}, jobs[j].mResponseQueue, got[c], Processed(j, c))
      BY <1>4, <1>5, <2>2 DEF Progress
    <3>2. IF tag.op = "read" /\ tag.ok THEN tag.message = sent[c] /\ Processed(j, c) = sent[c] - 1
          ELSE "read" \notin R => Processed(j, c) = sent[c]
      BY <1>2, <1>8 DEF Carries
    <3>3. tag.op = "write" => tag.ok
      BY <1>2, <2>2 DEF Carries
    <3> QED
      BY <1>1, <1>2, <1>8, <2>2, <3>1, <3>2, <3>3 DEF Before
  <2> QED
    BY <2>1, <2>2
<1>10. call[c] = "closed" => tag.op = "finish" /\ R = {}
  BY <1>3, <1>5 DEF Progress
<1>11. tag.op = "request" => (Rpc(j) # "ListFeatures" => sent[c] = 0) /\ Processed(j, c) = sent[c]
  BY <1>4, <1>5, <1>8 DEF Progress
<1>12. tag.op = "read" /\ ~tag.ok => Processed(j, c) = sent[c]
  BY <1>3, <1>8
<1> HIDE DEF R
<1>13. Known(j, c, tag, R, f)
  BY <1>1, <1>2, <1>4, <1>8, <1>9, <1>10, <1>11, <1>12 DEF Known
<1> QED
  BY <1>13 DEF R, f

\* The call of the job after that, if the job lives on.
Afterwards(j, c) == /\ Well(j, c) /\ Points(j) /\ Okay(c) /\ Own(c) /\ Fresh(c)
                    /\ \A d \in Calls : Serves(j, d) => d = c

LEMMA KeptAnswers ==
  ASSUME OpsInv, Answers, gIncomingTags # <<>>, NEW tag \in Tags, tag = Head(gIncomingTags), tag.op # "done",
         NEW j \in Jobs, j = tag.job, NEW c, c = jobs[j].call, NEW f, f = AsyncOpFinished(jobs[j], tag.op),
         NEW job, job = Handled(j, f, tag), rpc' = rpc, sent' = sent, Waiting' = Waiting \ {tag},
         Ops(j)' = (Ops(j) \ {tag.op}) \cup job.starts, jobs'[j] = Settled(job), Deliver(job),
         mRecordRouteMap'[j] = IF Rpc(j) = "RecordRoute" THEN Recorded(tag, mRecordRouteMap[j]) ELSE mRecordRouteMap[j]
  PROVE  /\ Afterwards(j, c)' /\ (NoneGone' => NoneGone) /\ call'[c] # "unmade"
         /\ \A d \in Calls : d # c => call'[d] = call[d] /\ got'[d] = got[d]
<1> DEFINE R == (Ops(j) \ {"done"}) \ {tag.op}
           p == Processed(j, c)
           O2 == R \cup job.starts
           p2 == IF tag.op = "read" /\ tag.ok THEN sent[c] ELSE p
<1>1. /\ c \in Calls /\ Serves(j, c) /\ Well(j, c) /\ tag \in TagsOf(j) /\ tag.op \in Ops(j)
      /\ Carries(tag, call[c], sent[c])
      /\ Halfway(Rpc(j), f, R, tag.op) /\ SameBut(f, jobs[j]) /\ "request" \notin R
      /\ call[c] = "open" => Before(Rpc(j), tag, R, f.mResponseQueue, got[c], sent[c], p)
      /\ call[c] = "closed" => tag.op = "finish" /\ R = {}
      /\ tag.op = "request" => R = {} /\ (Rpc(j) # "ListFeatures" => sent[c] = 0) /\ p = sent[c]
      /\ tag.op = "read" /\ tag.ok => p = sent[c] - 1
      /\ tag.op = "read" /\ ~tag.ok => p = sent[c]
  <2>1. Known(j, c, tag, R, f)
    BY BeforeTag
  <2> HIDE DEF R
  <2> QED
    BY <2>1 DEF Known
<1>2. /\ mRecordRouteMap[j] \in Nat /\ sent[c] \in Nat /\ got[c] \in Seq(Given)
      /\ call \in [Calls -> CallStates] /\ got \in [Calls -> Seq(Given)]
  BY <1>1 DEF OpsInv, StreamTypes
<1>3. /\ Handles(Rpc(j), f, job, R) /\ Follows(Rpc(j), tag, R, mRecordRouteMap[j], job)
      /\ call[c] = "open" => Advanced(Rpc(j), tag, R, job, got[c], sent[c], p)
  <2> HIDE DEF R, p
  <2> QED
    BY <1>1, <1>2, HandledMoves, HandledFollows, HandledAdvances
<1>4. /\ jobs'[j] # NoJob /\ jobs'[j].call = c /\ jobs'[j].mOnDoneCalled = jobs[j].mOnDoneCalled
      /\ jobs'[j].mResponseQueue = job.mResponseQueue /\ job.call = c
      /\ job.starts \subseteq {"read", "write", "finish"}
  <2> HIDE DEF R
  <2>1. IsKept(Rpc(j), f, job, R, Settled(job))
    BY <1>3, SettledFields
  <2>2. /\ jobs'[j] # NoJob /\ jobs'[j].call = f.call /\ jobs'[j].mOnDoneCalled = f.mOnDoneCalled
        /\ jobs'[j].mResponseQueue = job.mResponseQueue
    BY <2>1 DEF IsKept
  <2>3. f.call = c /\ f.mOnDoneCalled = jobs[j].mOnDoneCalled
    BY <1>1 DEF SameBut
  <2>4. job.call = f.call /\ job.starts \subseteq {"read", "write", "finish"}
    BY <1>3 DEF Handles
  <2> QED
    BY <2>2, <2>3, <2>4
<1>5. Ops(j)' \ {"done"} = O2 /\ "request" \notin O2 /\ ("read" \in Ops(j)' <=> "read" \in O2)
  BY <1>1, <1>4
<1>6. TagsOf(j)' = TagsOf(j) \ {tag} /\ OpsIn(Waiting, j)' \subseteq OpsIn(Waiting, j)
  BY DEF TagsOf, OpsIn
<1>7. Processed(j, c)' = p2
  <2>1. CASE tag.op = "read" /\ tag.ok
    <3>1. \A t \in TagsOf(j) : t.op = "read" => t = tag
      <4>1. \A t, u \in TagsOf(j) : t.op = u.op => t = u
        BY TagsOfJob
      <4> QED
        BY <1>1, <2>1, <4>1
    <3>2. ~ReadOk(j)'
      BY <1>6, <3>1 DEF ReadOk
    <3> QED
      BY <1>2, <2>1, <3>2 DEF Processed
  <2>2. CASE ~(tag.op = "read" /\ tag.ok)
    <3>1. ReadOk(j)' <=> ReadOk(j)
      BY <1>6, <2>2 DEF ReadOk
    <3>2. Processed(j, c)' = Processed(j, c)
      BY <3>1 DEF Processed
    <3> QED
      BY <2>2, <3>2
  <2> QED
    BY <2>1, <2>2
<1>8. /\ \A d \in Calls : d # c => call'[d] = call[d] /\ got'[d] = got[d]
      /\ IF call[c] = "open" THEN /\ got'[c] = got[c] \o job.out
                                  /\ call'[c] = IF "finish" \in job.starts THEN "closed" ELSE "open"
         ELSE got' = got /\ call' = call
  <2>1. CASE call[c] = "open"
    <3>1. /\ got' = [got EXCEPT ![c] = @ \o job.out]
          /\ call' = IF "finish" \in job.starts THEN [call EXCEPT ![c] = "closed"] ELSE call
      <4>1. job.call = c
        BY <1>4
      <4>2. call[job.call] = "open"
        BY <2>1, <4>1
      <4>3. /\ got' = [got EXCEPT ![job.call] = @ \o job.out]
            /\ call' = IF "finish" \in job.starts THEN [call EXCEPT ![job.call] = "closed"] ELSE call
        BY ONLY Deliver(job), <4>2 DEF Deliver
      <4> QED
        BY <4>1, <4>3
    <3> QED
      BY <1>1, <1>2, <2>1, <3>1
  <2>2. CASE call[c] # "open"
    BY <1>4, <2>2 DEF Deliver
  <2> QED
    BY <2>1, <2>2
<1>9. (NoneGone' => NoneGone) /\ call'[c] # "unmade" /\ (call'[c] = "open" => call[c] = "open")
  <2>1. call[c] # "unmade"
    BY <1>1 DEF Well
  <2>2. call'[c] # "unmade" /\ (call'[c] = "open" => call[c] = "open") /\ (call[c] = "gone" => call'[c] = "gone")
    BY <1>8, <2>1
  <2>3. Calls' = Calls
    BY DEF Calls
  <2> QED
    BY <1>8, <2>2, <2>3 DEF NoneGone
<1>10. /\ Progress(Rpc(j), O2, job.mResponseQueue, call'[c], sent[c], got'[c], p2) /\ Okay(c)'
       /\ call[c] = "open" /\ call'[c] = "closed" => "finish" \in job.starts
  <2>1. CASE call[c] = "open"
    <3>1. After(Rpc(j), O2, job.mResponseQueue, got'[c], sent[c], p2)
      BY <1>3, <1>8, <2>1 DEF Advanced
    <3>2. "finish" \notin R
      BY <1>1, <2>1 DEF Before, Under
    <3>3. CASE "finish" \in job.starts
      <4>1. call'[c] = "closed" /\ O2 = {"finish"} /\ OkayAt(Rpc(j), "closed", sent[c], got'[c])
        BY <1>8, <2>1, <3>1, <3>3 DEF After
      <4>2. Okay(c)'
        BY <1>1, <4>1 DEF Okay, Well
      <4> QED
        BY <1>5, <3>3, <4>1, <4>2 DEF Progress
    <3>4. CASE "finish" \notin job.starts
      <4>1. /\ call'[c] = "open" /\ Under(Rpc(j), O2, job.mResponseQueue, got'[c], p2)
            /\ OkayAt(Rpc(j), "open", sent[c], got'[c])
        BY <1>8, <2>1, <3>1, <3>2, <3>4 DEF After
      <4>2. Okay(c)'
        BY <1>1, <4>1 DEF Okay, Well
      <4> HIDE DEF O2, p2
      <4> QED
        BY <1>5, <4>1, <4>2 DEF Progress
    <3> QED
      BY <3>3, <3>4
  <2>2. CASE call[c] # "open"
    <3>1. call' = call /\ got' = got
      BY <1>8, <2>2
    <3>2. Okay(c)'
      BY <1>1, <3>1 DEF Answers, Okay
    <3>3. call[c] = "closed" => O2 = {}
      BY <1>1, <1>3 DEF Follows
    <3> HIDE DEF O2, p2
    <3> QED
      BY <1>5, <2>2, <3>1, <3>2, <3>3 DEF Progress
  <2> QED
    BY <2>1, <2>2
<1>11. Well(j, c)'
  <2>1. \A t \in TagsOf(j)' : Carries(t, call'[c], sent'[c])
    <3>1. \A t \in TagsOf(j) : Carries(t, call[c], sent[c])
      BY <1>1 DEF Well
    <3>2. call[c] = "gone" => call'[c] = "gone"
      BY <1>8
    <3> QED
      BY <1>6, <3>1, <3>2 DEF Carries
  <2>2. Progress(Rpc(j), Ops(j)' \ {"done"}, jobs'[j].mResponseQueue, call'[c], sent'[c], got'[c], Processed(j, c)')
    BY <1>4, <1>5, <1>7, <1>10
  <2>3. jobs'[j].mOnDoneCalled \/ "done" \in OpsIn(Waiting, j)' => call'[c] # "open"
    BY <1>1, <1>4, <1>6, <1>9 DEF Well
  <2>4. rpc'[c] = Rpc(j)
    BY <1>1 DEF Well
  <2> QED
    BY <1>9, <2>1, <2>2, <2>3, <2>4 DEF Well
<1>12. Own(c)'
  <2>1. Own(c)
    BY <1>1 DEF Answers
  <2>2. CASE call[c] # "open"
    BY <1>8, <1>9, <2>1, <2>2 DEF Own
  <2>3. CASE call[c] = "open" /\ call'[c] = "closed" /\ Rpc(j) = "RecordRoute"
    <3>1. tag.op = "read" /\ ~tag.ok /\ job.out = Finishing(mRecordRouteMap[j])
      BY <1>3, <1>10, <2>3 DEF Follows
    <3>2. got[c] = <<>>
      BY <1>1, <2>3, <3>1 DEF Before, Under, Streams
    <3>3. got'[c] = Finishing(mRecordRouteMap[j])
      <4>1. got'[c] = <<>> \o Finishing(mRecordRouteMap[j])
        BY <1>8, <2>3, <3>1, <3>2
      <4>2. Finishing(mRecordRouteMap[j]) \in Seq({<<"finish", mRecordRouteMap[j]>>})
        <5>1. \A y : <<y>> \in Seq({y})
          OBVIOUS
        <5> QED
          BY <5>1 DEF Finishing
      <4> QED
        BY ONLY <4>1, <4>2, ConcatEmptySeq, Zenon
    <3>4. got'[c][1][2] = mRecordRouteMap[j]
      <4>1. \A m : <<<<"finish", m>>>>[1] = <<"finish", m>> /\ <<"finish", m>>[2] = m
        OBVIOUS
      <4>2. Finishing(mRecordRouteMap[j]) = <<<<"finish", mRecordRouteMap[j]>>>>
        BY DEF Finishing
      <4> QED
        BY ONLY <3>3, <4>1, <4>2
    <3>5. /\ mRecordRouteMap[j] >= p /\ (NoneGone => mRecordRouteMap[j] = p) /\ p = sent[c]
      BY <1>1, <2>3, <3>1 DEF Answers, Points
    <3> QED
      BY <1>9, <3>4, <3>5 DEF Own
  <2>4. rpc'[c] = Rpc(j)
    BY <1>1 DEF Well
  <2>5. CASE call'[c] # "closed" \/ Rpc(j) # "RecordRoute"
    BY <2>4, <2>5 DEF Own
  <2> QED
    BY <2>2, <2>3, <2>5
<1>13. Points(j)'
  <2>1. CASE Rpc(j) # "RecordRoute"
    BY <2>1 DEF Points
  <2>2. CASE Rpc(j) = "RecordRoute"
    <3>1. /\ R = {} /\ tag.op \in {"request", "read", "finish"}
          /\ tag.op = "request" \/ (tag.op = "read" /\ tag.ok) => job.starts = {"read"}
          /\ tag.op = "read" /\ ~tag.ok => job.starts = {"finish"}
          /\ tag.op = "finish" => job.starts = {}
      BY <1>3, <2>2 DEF Follows
    <3>2. /\ "read" \in Ops(j)' <=> "read" \in job.starts
          /\ "read" \in Ops(j) <=> tag.op = "read"
      BY <1>1, <1>5, <3>1
    <3>3. /\ "read" \in Ops(j) => /\ mRecordRouteMap[j] >= p /\ (NoneGone => mRecordRouteMap[j] = p)
          /\ "read" \notin Ops(j) => (NoneGone => mRecordRouteMap[j] = 0)
      BY <2>2 DEF Answers, Points
    <3>4. mRecordRouteMap'[j] = Recorded(tag, mRecordRouteMap[j]) /\ jobs'[j].call = c
      BY <1>4, <2>2
    <3>5. CASE tag.op = "request"
      <4>1. mRecordRouteMap'[j] = mRecordRouteMap[j] /\ p2 = 0
        BY <1>1, <2>2, <3>4, <3>5 DEF Recorded
      <4>2. Processed(j, jobs[j].call)' = 0
        BY <1>7, <3>4, <4>1 DEF Processed
      <4>3. "read" \in Ops(j)'
        BY <3>1, <3>2, <3>5
      <4>4. NoneGone => mRecordRouteMap[j] = 0
        BY <3>2, <3>3, <3>5
      <4>5. mRecordRouteMap'[j] >= 0 /\ (NoneGone' => mRecordRouteMap'[j] = 0)
        <5>1. mRecordRouteMap[j] >= 0
          <6>1. mRecordRouteMap[j] \in Nat
            BY <1>2
          <6> QED
            BY ONLY <6>1
        <5>2. mRecordRouteMap'[j] = mRecordRouteMap[j]
          BY <4>1
        <5>3. NoneGone' => NoneGone
          BY <1>9
        <5> QED
          BY ONLY <4>4, <5>1, <5>2, <5>3
      <4> QED
        BY <4>2, <4>3, <4>5 DEF Points
    <3>6. CASE tag.op = "read" /\ tag.ok
      <4>1. mRecordRouteMap'[j] = mRecordRouteMap[j] + 1 /\ p2 = sent[c] /\ p = sent[c] - 1
        BY <1>1, <3>4, <3>6 DEF Recorded
      <4>2. Processed(j, jobs[j].call)' = sent[c]
        BY <1>7, <3>4, <4>1 DEF Processed
      <4>3. mRecordRouteMap'[j] >= sent[c] /\ (NoneGone => mRecordRouteMap'[j] = sent[c])
        <5>1. mRecordRouteMap[j] >= p /\ (NoneGone => mRecordRouteMap[j] = p)
          BY <3>2, <3>3, <3>6
        <5>2. PICK k \in Nat, s \in Nat : k = mRecordRouteMap[j] /\ s = sent[c]
          BY <1>2
        <5>3. k >= s - 1 /\ (NoneGone => k = s - 1)
          BY <4>1, <5>1, <5>2
        <5> HIDE DEF p
        <5>4. k + 1 >= s /\ (NoneGone => k + 1 = s)
          BY <5>3
        <5> QED
          BY <4>1, <5>2, <5>4
      <4>4. "read" \in Ops(j)'
        BY <3>1, <3>2, <3>6
      <4>5. NoneGone' => mRecordRouteMap'[j] = sent[c]
        BY <1>9, <4>3
      <4> QED
        BY <4>2, <4>3, <4>4, <4>5 DEF Points
    <3>7. CASE tag.op = "read" /\ ~tag.ok
      <4>1. mRecordRouteMap'[j] = 0 /\ "read" \notin Ops(j)'
        BY <3>1, <3>2, <3>4, <3>7 DEF Recorded
      <4> QED
        BY <4>1 DEF Points
    <3>8. CASE tag.op = "finish"
      <4>1. mRecordRouteMap'[j] = mRecordRouteMap[j] /\ "read" \notin Ops(j)' /\ "read" \notin Ops(j)
        BY <3>1, <3>2, <3>4, <3>8 DEF Recorded
      <4> QED
        BY <1>9, <3>3, <4>1 DEF Points
    <3> QED
      BY <3>1, <3>5, <3>6, <3>7, <3>8
  <2> QED
    BY <2>1, <2>2
<1>14. Fresh(c)' /\ \A d \in Calls' : Serves(j, d)' => d = c
  <2>1. Serves(j, c)'
    BY <1>4 DEF Serves
  <2> QED
    BY <1>4, <1>9, <2>1 DEF Fresh, Serves
<1> QED
  BY <1>8, <1>9, <1>10, <1>11, <1>12, <1>13, <1>14 DEF Afterwards

\* A step that takes a tag of one job, and perhaps creates another.
LEMMA TagAnswers ==
  ASSUME OpsInv, Answers, StreamAssumption, NEW j \in Jobs, NEW c \in Calls, Serves(j, c), rpc' = rpc, sent' = sent,
         NoneGone' => NoneGone, \A d \in Calls : d # c => call'[d] = call[d] /\ got'[d] = got[d],
         NEW tag, tag.job = j, Waiting' = Waiting \ {tag},
         \A k \in Jobs : k # j =>
           /\ mRecordRouteMap'[k] = mRecordRouteMap[k]
           /\ \/ jobs'[k] = jobs[k] /\ Ops(k)' = Ops(k)
              \/ jobs[k] = NoJob /\ jobs'[k] = RpcJob /\ "read" \notin Ops(k) /\ "read" \notin Ops(k)',
         \A d \in Calls : Serves(j, d)' => d = c, Serves(j, c)' => Well(j, c)',
         Points(j)', Fresh(c)', Okay(c)', Own(c)'
  PROVE  Answers'
<1>1. Calls' = Calls /\ NoCall \notin Calls /\ RpcJob.call = NoCall
  BY CallsAreCalls DEF Calls, RpcJob
<1>2. \A k \in Jobs : k # j => TagsOf(k)' = TagsOf(k)
  BY DEF TagsOf
<1>3. \A k \in Jobs : Serves(k, c) => k = j
  BY DEF Answers, OneServes
<1>4. \A k \in Jobs, d \in Calls : k # j => (Serves(k, d)' <=> Serves(k, d))
  BY <1>1 DEF Serves
<1>5. ASSUME NEW k \in Jobs, NEW d \in Calls, k # j, Serves(k, d) PROVE Well(k, d)'
  <2>1. Well(k, d) /\ d # c /\ jobs[k] # NoJob
    BY <1>3, <1>5 DEF Answers, Serves
  <2>2. jobs'[k] = jobs[k] /\ Ops(k)' = Ops(k)
    BY <1>5, <2>1
  <2> QED
    BY <1>2, <1>5, <2>1, <2>2, SameWell
<1>6. ASSUME NEW k \in Jobs, k # j PROVE Points(k)'
  <2>1. Points(k)
    BY DEF Answers
  <2>2. CASE jobs'[k] = jobs[k] /\ Ops(k)' = Ops(k)
    <3>1. Processed(k, jobs[k].call)' = Processed(k, jobs[k].call)
      BY <1>2, <1>6, <2>2 DEF Processed, ReadOk
    <3> QED
      BY <1>6, <2>1, <2>2, <3>1, SamePoints
  <2>3. CASE "read" \notin Ops(k) /\ "read" \notin Ops(k)'
    BY <1>6, <2>1, <2>3 DEF Points
  <2> QED
    BY <1>6, <2>2, <2>3
<1>7. ASSUME NEW d \in Calls, d # c PROVE Fresh(d)' /\ Okay(d)' /\ Own(d)'
  <2>1. Fresh(d) /\ Okay(d) /\ Own(d)
    BY DEF Answers
  <2>2. Okay(d)' /\ Own(d)'
    BY <1>7, <2>1, SameCall
  <2>3. \A k \in Jobs : Serves(k, d) => Serves(k, d)'
    BY <1>4, <1>7 DEF Serves
  <2> QED
    BY <1>7, <2>1, <2>2, <2>3 DEF Fresh
<1>8. OneServes'
  <2>1. ASSUME NEW k \in Jobs, NEW l \in Jobs, NEW d \in Calls, Serves(k, d)', Serves(l, d)' PROVE k = l
    <3>1. Serves(k, d) /\ Serves(l, d)
      BY <1>4, <2>1
    <3> QED
      BY <3>1 DEF Answers, OneServes
  <2> QED
    BY <1>1, <2>1 DEF OneServes
<1>9. \A k \in Jobs, d \in Calls : Serves(k, d)' => Well(k, d)'
  BY <1>4, <1>5
<1>10. \A k \in Jobs : Points(k)'
  BY <1>6
<1>11. \A d \in Calls : Fresh(d)' /\ Okay(d)' /\ Own(d)'
  BY <1>7
<1> QED
  BY <1>1, <1>8, <1>9, <1>10, <1>11 DEF Answers

LEMMA RequestAnswers ==
  ASSUME OpsInv, Answers, StreamAssumption, AllocatorAssumption, OnRequest
  PROVE  Answers'
<1>1. gIncomingTags # <<>>
  BY DEF OnRequest
<1>2. PICK tag \in Tags, new \in Jobs :
        LET j == tag.job
            job == Handled(j, AsyncOpFinished(jobs[j], "request"), tag)
        IN  /\ tag = Head(gIncomingTags) /\ tag \in Waiting /\ tag.op = "request"
            /\ OpsInv' /\ Waiting' = Waiting \ {tag} /\ UNCHANGED <<rpc, sent, mRecordRouteMap>>
            /\ new # j /\ jobs[new] = NoJob /\ jobs'[new] = RpcJob
            /\ Ops(new) = {} /\ Ops(new)' = {"request"} /\ OpsIn(Waiting, new)' = {}
            /\ jobs'[j] = Settled(job) /\ Deliver(job)
            /\ Ops(j)' = (Ops(j) \ {"request"}) \cup job.starts
            /\ OpsIn(Waiting, j)' = OpsIn(Waiting, j) \ {"request"}
            /\ \A k \in Jobs : k # j /\ k # new =>
                 Ops(k)' = Ops(k) /\ OpsIn(Waiting, k)' = OpsIn(Waiting, k) /\ jobs'[k] = jobs[k]
  BY RequestStep
<1> PICK j \in Jobs : j = tag.job
  BY DEF Tags
<1>3. PICK c, f, job :
        /\ j = tag.job /\ c = jobs[j].call /\ f = AsyncOpFinished(jobs[j], tag.op) /\ job = Handled(j, f, tag)
  OBVIOUS
<1>4. /\ tag = Head(gIncomingTags) /\ tag.op = "request" /\ tag.op # "done" /\ rpc' = rpc /\ sent' = sent
      /\ Waiting' = Waiting \ {tag} /\ mRecordRouteMap' = mRecordRouteMap
      /\ jobs'[j] = Settled(job) /\ Deliver(job) /\ Ops(j)' = (Ops(j) \ {tag.op}) \cup job.starts
  BY <1>2, <1>3
<1>5. c \in Calls /\ Serves(j, c)
  BY <1>1, <1>3, <1>4, BeforeTag DEF Known
<1>6. mRecordRouteMap'[j] = IF Rpc(j) = "RecordRoute" THEN Recorded(tag, mRecordRouteMap[j]) ELSE mRecordRouteMap[j]
  BY <1>4 DEF Recorded
<1>7. /\ Afterwards(j, c)' /\ (NoneGone' => NoneGone)
      /\ \A d \in Calls : d # c => call'[d] = call[d] /\ got'[d] = got[d]
  BY <1>1, <1>3, <1>4, <1>6, KeptAnswers
<1>8. ASSUME NEW k \in Jobs, k # j
      PROVE  /\ mRecordRouteMap'[k] = mRecordRouteMap[k]
             /\ \/ jobs'[k] = jobs[k] /\ Ops(k)' = Ops(k)
                \/ jobs[k] = NoJob /\ jobs'[k] = RpcJob /\ "read" \notin Ops(k) /\ "read" \notin Ops(k)'
  <2>1. CASE k = new
    BY <1>2, <2>1
  <2>2. CASE k # new
    BY <1>2, <1>3, <1>8, <2>2
  <2> QED
    BY <2>1, <2>2
<1>9. /\ \A d \in Calls : Serves(j, d)' => d = c
      /\ Well(j, c)' /\ Points(j)' /\ Fresh(c)' /\ Okay(c)' /\ Own(c)'
  <2>1. Calls' = Calls
    BY <1>4 DEF Calls
  <2> QED
    BY <1>7, <2>1 DEF Afterwards
<1> QED
  BY <1>3, <1>4, <1>5, <1>7, <1>8, <1>9, TagAnswers

LEMMA OperationAnswers ==
  ASSUME OpsInv, Answers, StreamAssumption, OnOperation
  PROVE  Answers'
<1>1. gIncomingTags # <<>>
  BY DEF OnOperation
<1>2. PICK tag \in Tags :
        LET j == tag.job
            f == AsyncOpFinished(jobs[j], tag.op)
            job == Handled(j, f, tag)
        IN  /\ tag = Head(gIncomingTags) /\ tag \in Waiting /\ tag.op \in {"read", "write", "finish"}
            /\ OpsInv' /\ Waiting' = Waiting \ {tag} /\ UNCHANGED <<rpc, sent>>
            /\ \A k \in Jobs : k # j => /\ Ops(k)' = Ops(k) /\ OpsIn(Waiting, k)' = OpsIn(Waiting, k)
                                        /\ jobs'[k] = jobs[k] /\ mRecordRouteMap'[k] = mRecordRouteMap[k]
            /\ IF IsDone(f)
                 THEN jobs'[j] = NoJob /\ UNCHANGED <<got, call, mRecordRouteMap>>
                 ELSE /\ jobs'[j] = Settled(job) /\ Deliver(job)
                      /\ Ops(j)' = (Ops(j) \ {tag.op}) \cup job.starts
                      /\ OpsIn(Waiting, j)' = OpsIn(Waiting, j) \ {tag.op}
                      /\ mRecordRouteMap' = [mRecordRouteMap EXCEPT ![j] =
                                               IF Rpc(j) = "RecordRoute" THEN Recorded(tag, @) ELSE @]
  BY OperationStep
<1> PICK j \in Jobs : j = tag.job
  BY DEF Tags
<1>3. PICK c, f, job :
        /\ j = tag.job /\ c = jobs[j].call /\ f = AsyncOpFinished(jobs[j], tag.op) /\ job = Handled(j, f, tag)
  OBVIOUS
<1>4. /\ tag = Head(gIncomingTags) /\ tag.op # "done" /\ tag.op # "request" /\ rpc' = rpc /\ sent' = sent
      /\ Waiting' = Waiting \ {tag} /\ tag.job = j
      /\ \A k \in Jobs : k # j => Ops(k)' = Ops(k) /\ jobs'[k] = jobs[k] /\ mRecordRouteMap'[k] = mRecordRouteMap[k]
  BY <1>2, <1>3
<1>5. c \in Calls /\ Serves(j, c) /\ Well(j, c) /\ Calls' = Calls /\ jobs[j] # NoJob
  BY <1>1, <1>3, <1>4, BeforeTag DEF Known, Calls, Serves
<1>6. CASE ~IsDone(f)
  <2>1. /\ jobs'[j] = Settled(job) /\ Deliver(job) /\ Ops(j)' = (Ops(j) \ {tag.op}) \cup job.starts
        /\ mRecordRouteMap' = [mRecordRouteMap EXCEPT ![j] = IF Rpc(j) = "RecordRoute" THEN Recorded(tag, @) ELSE @]
    BY <1>2, <1>3, <1>6
  <2>2. mRecordRouteMap'[j] = IF Rpc(j) = "RecordRoute" THEN Recorded(tag, mRecordRouteMap[j]) ELSE mRecordRouteMap[j]
    <3>1. j \in DOMAIN mRecordRouteMap
      BY DEF OpsInv, StreamTypes
    <3> QED
      BY <2>1, <3>1
  <2>3. /\ Afterwards(j, c)' /\ (NoneGone' => NoneGone)
        /\ \A d \in Calls : d # c => call'[d] = call[d] /\ got'[d] = got[d]
    BY <1>1, <1>3, <1>4, <2>1, <2>2, KeptAnswers
  <2>4. /\ \A d \in Calls : Serves(j, d)' => d = c
        /\ Well(j, c)' /\ Points(j)' /\ Fresh(c)' /\ Okay(c)' /\ Own(c)'
    BY <1>5, <2>3 DEF Afterwards
  <2> QED
    BY <1>4, <1>5, <2>3, <2>4, TagAnswers
<1>7. CASE IsDone(f)
  <2>1. jobs'[j] = NoJob /\ UNCHANGED <<got, call, mRecordRouteMap>> /\ (NoneGone' <=> NoneGone) /\ Ops(j)' = {}
    <3>1. jobs'[j] = NoJob /\ UNCHANGED <<got, call, mRecordRouteMap>> /\ OpsInv'
      BY <1>2, <1>3, <1>7
    <3>2. Ops(j)' = {}
      BY <3>1 DEF OpsInv, LiveOps
    <3> QED
      BY <1>4, <1>5, <3>1, <3>2 DEF NoneGone
  <2>2. Ops(j) \ {"done"} = {tag.op} /\ jobs[j].mOnDoneCalled /\ call[c] # "open"
    <3>1. (Ops(j) \ {"done"}) \ {tag.op} = {} /\ jobs[j].mOnDoneCalled /\ tag.op \in Ops(j)
      BY <1>1, <1>3, <1>4, <1>7, Processing
    <3> QED
      BY <1>4, <1>5, <3>1 DEF Well
  <2>3. Points(j)'
    <3>1. CASE Rpc(j) = "RecordRoute" /\ tag.op = "read"
      <4>1. call[c] # "closed"
        BY <1>1, <1>3, <1>4, <3>1, BeforeTag DEF Known
      <4>2. call[c] = "gone" /\ rpc[c] = "RecordRoute"
        BY <1>5, <2>2, <3>1, <4>1 DEF Well, OpsInv, StreamTypes, CallStates
      <4>3. ~NoneGone
        BY <1>5, <4>2 DEF NoneGone
      <4> QED
        BY <2>1, <4>3 DEF Points
    <3>2. CASE tag.op # "read"
      <4>1. "read" \notin Ops(j) /\ Points(j)
        BY <2>2, <3>2 DEF Answers
      <4> QED
        BY <2>1, <4>1 DEF Points
    <3>3. CASE Rpc(j) # "RecordRoute"
      BY <3>3 DEF Points
    <3> QED
      BY <3>1, <3>2, <3>3
  <2>4. Fresh(c)' /\ Okay(c)' /\ Own(c)'
    <3>1. call[c] # "unmade" /\ Okay(c) /\ Own(c)
      BY <1>5 DEF Answers, Well
    <3> QED
      BY <1>4, <2>1, <2>2, <3>1, SameCall DEF Fresh
  <2>5. \A d \in Calls : ~Serves(j, d)'
    BY <2>1 DEF Serves
  <2>6. \A d \in Calls : d # c => call'[d] = call[d] /\ got'[d] = got[d]
    BY <2>1
  <2> QED
    BY <1>4, <1>5, <2>1, <2>3, <2>4, <2>5, <2>6, TagAnswers
<1> QED
  BY <1>6, <1>7

\* No call has been made.
LEMMA InitAnswers == ASSUME Init, StreamAssumption PROVE Answers
<1>1. OpsInv /\ NoCall \notin Calls
  BY InitOps, CallsAreCalls
<1>2. \A c \in Calls : call[c] = "unmade" /\ sent[c] = 0 /\ got[c] = <<>>
  BY DEF Init
<1>3. \A j \in Jobs : jobs[j] # NoJob => jobs[j].call = NoCall
  BY DEF Init, RpcJob
<1>4. \A j \in Jobs, c \in Calls : ~Serves(j, c)
  BY <1>1, <1>3 DEF Serves
<1>5. ASSUME NEW j \in Jobs PROVE Points(j)
  <2>1. Waiting = {} /\ OpsIn(Waiting, j) = {}
    BY DEF Init, Waiting, Elements, OpsIn
  <2>2. "read" \notin Ops(j) /\ mRecordRouteMap[j] = 0
    BY <2>1 DEF Init, Ops
  <2> QED
    BY <2>2 DEF Points
<1>6. ASSUME NEW c \in Calls PROVE Fresh(c) /\ Okay(c) /\ Own(c)
  <2>1. OkayAt(rpc[c], "unmade", 0, <<>>)
    BY PromisedNumber DEF OkayAt
  <2> QED
    BY <1>2, <2>1 DEF Fresh, Okay, Own
<1> QED
  BY <1>4, <1>5, <1>6 DEF Answers, OneServes

LEMMA NextAnswers ==
  ASSUME OpsInv, Answers, [Next]_vars, StreamAssumption, AllocatorAssumption
  PROVE  Answers'
<1>1. ASSUME NEW j \in Jobs, NEW c \in Calls, Accept(j, c) PROVE Answers'
  BY <1>1, AcceptAnswers
<1>2. ASSUME NEW j \in Jobs,
             ReadMessage(j) \/ ReadEnds(j) \/ RpcDone(j) \/ \E op \in {"write", "finish"} : Written(j, op)
      PROVE  Answers'
  BY <1>2, ReportedAnswers
<1>3. CASE OnRequest
  BY <1>3, RequestAnswers
<1>4. CASE OnOperation
  BY <1>4, OperationAnswers
<1>5. CASE OnDone
  BY <1>5, DoneAnswers
<1>6. ASSUME NEW c \in Calls, Call(c) \/ GoAway(c) PROVE Answers'
  BY <1>6, ClientAnswers
<1>7. CASE UNCHANGED vars
  <2>1. UNCHANGED <<rpc, call, sent, got, jobs, mRecordRouteMap>> /\ Calls' = Calls /\ Waiting' = Waiting
    BY <1>7 DEF vars, clientVars, Calls, Waiting
  <2>2. /\ NoneGone' = NoneGone
        /\ \A j \in Jobs : /\ Ops(j)' = Ops(j) /\ TagsOf(j)' = TagsOf(j) /\ Points(j)' = Points(j)
                           /\ \A c : Serves(j, c)' = Serves(j, c) /\ Processed(j, c)' = Processed(j, c)
    BY <1>7, <2>1 DEF vars, Ops, TagsOf, Points, Serves, Processed, ReadOk, NoneGone
  <2>3. \A j \in Jobs, c \in Calls : Serves(j, c)' => Well(j, c)'
    BY <2>1, <2>2, SameWell DEF Answers
  <2>4. \A c \in Calls : Fresh(c)' /\ Okay(c)' /\ Own(c)'
    <3>1. \A c \in Calls : Okay(c)' /\ Own(c)'
      BY <2>1, <2>2, SameCall DEF Answers
    <3> QED
      BY <2>1, <2>2, <3>1 DEF Answers, Fresh
  <2> QED
    BY <2>1, <2>2, <2>3, <2>4 DEF Answers, OneServes
<1> QED
  BY <1>1, <1>2, <1>3, <1>4, <1>5, <1>6, <1>7 DEF Next, HandleRpcs, processRpcs

\* What the clients have got, with what is queued for them, is what the jobs
\* made of their messages, in every state.
THEOREM AnswersInvAlways == SafeSpec => []AnswersInv
<1>1. Init => AnswersInv
  BY StreamAssumption, InitOps, InitAnswers DEF AnswersInv
<1>2. AnswersInv /\ [Next]_vars => AnswersInv'
  BY StreamAssumption, AllocatorAssumption, NextOps, NextAnswers DEF AnswersInv
<1> QED
  BY <1>1, <1>2, PTL DEF SafeSpec

\* A client that is told OK has every response its call promises, in order.
THEOREM OkIsCompleteAlways == SafeSpec => []OkIsComplete
<1>1. AnswersInv => OkIsComplete
  BY DEF AnswersInv, Answers, Okay, OkayAt, OkIsComplete, Promised, Streams
<1> QED
  BY <1>1, AnswersInvAlways, PTL

\* The summary of a route counts its own points, all of them, and no others
\* unless a client that recorded a route has gone.
THEOREM SummaryIsOwnAlways == SafeSpec => []SummaryIsOwn
<1>1. AnswersInv => SummaryIsOwn
  BY DEF AnswersInv, Answers, Own, NoneGone, SummaryIsOwn
<1> QED
  BY <1>1, AnswersInvAlways, PTL
=============================================================================

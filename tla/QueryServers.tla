---------------------------- MODULE QueryServers ----------------------------
(***************************************************************************)
(* The text query programs of derda_grpc/experiments and their clients.    *)
(*                                                                         *)
(* A client reads polygons from a file and sends them, one or ten to a     *)
(* request, waiting for each answer.  A server (the host, or the DPU with  *)
(* the host behind it) queries its R-tree with them; a callback sees each  *)
(* candidate, a geometry whose envelope overlaps that of the polygon:      *)
(*   exp3_server, exp4_server  count candidates;                           *)
(*   exp4_dpu, zzz_fpc   send two thirds of the request to exp4_server in  *)
(*     a thread, count the rest, and answer with both;                     *)
(*   exp5_dpu            asks exp5_server about each candidate, and        *)
(*     answers with what it was told last;                                 *)
(*   lb_mt_tfr_server    keeps found polygons in a queue, and answers with *)
(*     its front.                                                          *)
(* The results are globals without a lock: an int, a string or a queue.    *)
(*                                                                         *)
(* Abstractions: the handling of events is AsyncServer's; here a thread    *)
(* takes a call in one step.  A geometry is TRUE if it really intersects   *)
(* the polygon it is a candidate of.  Two overlapping accesses to a string *)
(* or a queue, one of them a write, are undefined behaviour: nothing is    *)
(* said of what follows.  An addition to the int is a load and a store.    *)
(***************************************************************************)
EXTENDS Naturals, FiniteSets, SequencesExt

CONSTANTS Running,     \* the programs of which one runs
          Clients,
          Threads,     \* the handler threads (8 in the code)
          Files,       \* the polygons each client reads, for each size of a request
          Candidates,  \* the candidates of each polygon, in the order of the R-tree
          BatchSize,   \* polygons in a request of the batching clients (10)
          HostMayFail  \* whether a call to the host may fail

CONSTANTS None, Failed, Racy  \* no value, "RPC failed", and a count some call of which overlapped

ASSUME BatchAssumption == BatchSize \in Nat \ {0} /\ HostMayFail \in BOOLEAN

VARIABLES
  program,         \* the server that runs
  started,         \* how far its Run has come
  hung,            \* the clients whose calls to the host are never answered
  line, batch,     \* what each client has read, and collected
  asked, answers,  \* the requests it has sent, and the answers it has got
  dead,            \* clients that have crashed
  waiting,         \* requests no handler has taken
  replied,         \* answers under way to each client
  serving,         \* the request each handler serves
  at,              \* its next operation
  todo,            \* the candidates it has yet to visit
  mid,             \* whether it is between the two steps of an access
  count, said,     \* what it loaded from the int, and was told by the host
  reply_,          \* its answer
  host,            \* its call to the host, or that of its sendThread
  storing,         \* the handler in the middle of a write to the global text
  intersectCount,  \* the global int
  text,            \* the global string (at most one element) or queue
  undefined,       \* whether behaviour is undefined from here on
  overlaps         \* pairs of requests processed at the same time (history)

clientVars == <<line, batch, asked, answers, dead>>
handlerVars == <<serving, at, todo, mid, count, said, reply_, host, storing>>
globals == <<intersectCount, text, undefined>>
vars == <<program, started, hung, clientVars, waiting, replied, handlerVars, globals, overlaps>>
-----------------------------------------------------------------------------
\* The programs -------------------------------------------------------------

\* What Run does before handlers serve calls, and what Proceed does in PROCESS.
exp3_server_Run == <<"listen", "tree", "handlers">>
exp3_server_Proceed == <<"query", "setReply", "resetCount", "finish">>

exp4_server_Run == exp3_server_Run
exp4_server_Proceed == exp3_server_Proceed

exp4_dpu_Run == <<"listen", "tree", "handlers">>
exp4_dpu_Proceed ==
  <<"spawn", "query", "join", "setReply", "resetCount", "resetText", "finish">>

zzz_fpc_Run == exp4_dpu_Run
zzz_fpc_Proceed == exp4_dpu_Proceed

exp5_dpu_Run == <<"listen", "tree", "handlers">>
exp5_dpu_Proceed == <<"query", "setReply", "finish">>

\* Mutant of lb_mt_tfr_server_Proceed: the queue is not emptied.
lb_mt_tfr_server_ProceedKeeps == <<"query", "testEmpty", "finish">>

lb_mt_tfr_server_Run == <<"listen", "tree", "handlers">>
lb_mt_tfr_server_Proceed == <<"query", "testEmpty", "resetText", "finish">>

\* The clients: how many polygons make a request, and whether the client reads
\* an element of geomreply, which no server sets, from every answer.
exp3_client == [batch |-> BatchSize, readsGeomreply |-> FALSE]
exp4_client == exp3_client
exp5_client == [batch |-> 1, readsGeomreply |-> FALSE]
lb_mt_tfr_client == [batch |-> 1, readsGeomreply |-> TRUE]

\* A program: its Run and Proceed, what its callback does, and its client.
exp3_server == [run |-> exp3_server_Run, proceed |-> exp3_server_Proceed,
                callback |-> "count", client |-> exp3_client]
exp4_server == [run |-> exp4_server_Run, proceed |-> exp4_server_Proceed,
                callback |-> "count", client |-> exp4_client]
exp4_dpu == [run |-> exp4_dpu_Run, proceed |-> exp4_dpu_Proceed,
             callback |-> "count", client |-> exp4_client]
zzz_fpc == [run |-> zzz_fpc_Run, proceed |-> zzz_fpc_Proceed,
            callback |-> "count", client |-> exp4_client]
exp5_dpu == [run |-> exp5_dpu_Run, proceed |-> exp5_dpu_Proceed,
             callback |-> "ask", client |-> exp5_client]
lb_mt_tfr_server == [run |-> lb_mt_tfr_server_Run, proceed |-> lb_mt_tfr_server_Proceed,
                     callback |-> "push", client |-> lb_mt_tfr_client]

Programs ==
  [exp3_server |-> exp3_server, exp4_server |-> exp4_server, exp4_dpu |-> exp4_dpu,
   zzz_fpc |-> zzz_fpc, exp5_dpu |-> exp5_dpu, lb_mt_tfr_server |-> lb_mt_tfr_server]

\* Programs of these run, and no value is neither a thread, a request nor a text.
ASSUME ProgramsAssumption ==
  /\ Running \subseteq DOMAIN Programs
  /\ None \notin Threads /\ None \notin Clients \X Nat
  /\ None \notin [about : Clients \X Nat, says : {None, Failed}]

\* The files are of polygons with candidates, for each size of a request.
ASSUME FilesAssumption ==
  /\ \A p \in DOMAIN Candidates : Candidates[p] \in Seq(BOOLEAN)
  /\ \A name \in Running : LET size == Programs[name].client.batch
                          IN  \A c \in Clients : Files[size][c] \in Seq(DOMAIN Candidates)

Program == Programs[program]
File(c) == Files[Program.client.batch][c]
Offloads == program \in {"exp4_dpu", "zzz_fpc"}

\* The polygons of a request, which is a client and the number of its request.
Polygons(r) == asked[r[1]][r[2]]

\* What the callbacks and exp5_server take for an intersection: a candidate for
\* which GEOSIntersects_r does not return true.
Found(geom) == ~geom
intersectsRefinement(geom) == IF Found(geom) THEN "Intersect" ELSE "No Intersect"

\* The strings a request is split into at the newlines, the first of them empty,
\* as every polygon is preceded by a newline.  An empty string has no candidates.
Empty == "empty"
geomStrings(r) == IF Program.client.batch = 1 THEN Polygons(r) ELSE <<Empty>> \o Polygons(r)

splitIndex(r) == (2 * Len(geomStrings(r))) \div 3

ToHost(r) == SubSeq(geomStrings(r), 1, splitIndex(r))

\* Mutant of Here: > for >=.
HereAfter(r) == IF Offloads THEN SubSeq(geomStrings(r), splitIndex(r) + 2, Len(geomStrings(r)))
                ELSE geomStrings(r)

Here(r) == IF Offloads THEN SubSeq(geomStrings(r), splitIndex(r) + 1, Len(geomStrings(r)))
           ELSE geomStrings(r)

CandidatesOf(p) == IF p = Empty THEN <<>> ELSE Candidates[p]
AllCandidates(strings) == FlattenSeq([k \in DOMAIN strings |-> CandidatesOf(strings[k])])
CountOf(strings) == LET all == AllCandidates(strings) IN Cardinality({k \in DOMAIN all : Found(all[k])})
-----------------------------------------------------------------------------
NoReply == [text |-> None, count |-> 0]

Init ==
  /\ program \in Running
  /\ started = 1
  /\ hung \in SUBSET (IF Offloads \/ Program.callback = "ask" THEN Clients ELSE {})
  /\ line = [c \in Clients |-> 0] /\ batch = [c \in Clients |-> <<>>]
  /\ asked = [c \in Clients |-> <<>>] /\ answers = [c \in Clients |-> <<>>]
  /\ dead = {} /\ waiting = {} /\ replied = [c \in Clients |-> None]
  /\ serving = [t \in Threads |-> None] /\ at = [t \in Threads |-> 1]
  /\ todo = [t \in Threads |-> <<>>] /\ mid = [t \in Threads |-> FALSE]
  /\ count = [t \in Threads |-> 0] /\ said = [t \in Threads |-> None]
  /\ reply_ = [t \in Threads |-> NoReply]
  /\ host = [t \in Threads |-> "idle"] /\ storing = None
  /\ intersectCount = 0 /\ text = <<>> /\ undefined = FALSE
  /\ overlaps = {}

\* The clients --------------------------------------------------------------

\* Mutant of ReadLine: the batch is not emptied when it is sent.
ReadLineKeeps(c) ==
  /\ c \notin dead /\ Len(asked[c]) = Len(answers[c]) /\ line[c] < Len(File(c))
  /\ line' = [line EXCEPT ![c] = @ + 1]
  /\ batch' = [batch EXCEPT ![c] = Append(@, File(c)[line'[c]])]
  /\ IF line'[c] % Program.client.batch = 0
       THEN /\ asked' = [asked EXCEPT ![c] = Append(@, batch'[c])]
            /\ waiting' = waiting \cup {<<c, Len(asked'[c])>>}
       ELSE UNCHANGED <<asked, waiting>>
  /\ UNCHANGED <<program, started, hung, answers, dead, replied, handlerVars, globals, overlaps>>

\* A client that is not waiting for an answer reads a polygon, and sends the
\* batch this completes.  What is left at the end of the file is never sent.
ReadLine(c) ==
  /\ c \notin dead /\ Len(asked[c]) = Len(answers[c]) /\ line[c] < Len(File(c))
  /\ line' = [line EXCEPT ![c] = @ + 1]
  /\ LET collected == Append(batch[c], File(c)[line'[c]])
     IN  IF line'[c] % Program.client.batch = 0
           THEN /\ asked' = [asked EXCEPT ![c] = Append(@, collected)]
                /\ waiting' = waiting \cup {<<c, Len(asked'[c])>>}
                /\ batch' = [batch EXCEPT ![c] = <<>>]
           ELSE /\ batch' = [batch EXCEPT ![c] = collected]
                /\ UNCHANGED <<asked, waiting>>
  /\ UNCHANGED <<program, started, hung, answers, dead, replied, handlerVars, globals, overlaps>>

\* The answer arrives.  The first element of a field that is empty is anything
\* or nothing: a client that reads it may crash.
Receive(c) ==
  /\ replied[c] # None
  /\ replied' = [replied EXCEPT ![c] = None]
  /\ answers' = [answers EXCEPT ![c] = Append(@, replied[c])]
  /\ dead' \in {dead} \cup (IF Program.client.readsGeomreply THEN {dead \cup {c}} ELSE {})
  /\ UNCHANGED <<program, started, hung, line, batch, asked, waiting, handlerVars, globals,
                 overlaps>>

\* The server ---------------------------------------------------------------

Busy == {t \in Threads : serving[t] # None}
Loaded == \E k \in 1 .. started - 1 : Program.run[k] = "tree"
Serving == \E k \in 1 .. started - 1 : Program.run[k] = "handlers"

\* Run: the server listens first, so calls may wait until handlers take them.
StartUp ==
  /\ started <= Len(Program.run)
  /\ started' = started + 1
  /\ UNCHANGED <<program, hung, clientVars, waiting, replied, handlerVars, globals, overlaps>>

\* Mutant of Take: only one handler at a time.
TakeAlone(t) ==
  /\ Serving /\ Busy = {}
  /\ \E r \in waiting :
       /\ waiting' = waiting \ {r}
       /\ serving' = [serving EXCEPT ![t] = r]
       /\ at' = [at EXCEPT ![t] = 1]
       /\ todo' = [todo EXCEPT ![t] = IF Loaded THEN AllCandidates(Here(r)) ELSE <<>>]
       /\ overlaps' = overlaps \cup {{r, serving[u]} : u \in Busy}
  /\ UNCHANGED <<program, started, hung, clientVars, replied, mid, count, said, reply_, host,
                 storing, globals>>

\* A handler takes a request: its queries see the tree as it is.
Take(t) ==
  /\ Serving /\ serving[t] = None
  /\ \E r \in waiting :
       /\ waiting' = waiting \ {r}
       /\ serving' = [serving EXCEPT ![t] = r]
       /\ at' = [at EXCEPT ![t] = 1]
       /\ todo' = [todo EXCEPT ![t] = IF Loaded THEN AllCandidates(Here(r)) ELSE <<>>]
       /\ overlaps' = overlaps \cup {{r, serving[u]} : u \in Busy}
  /\ UNCHANGED <<program, started, hung, clientVars, replied, mid, count, said, reply_, host,
                 storing, globals>>

\* Handler t is about to do operation op.
Doing(t, op) == serving[t] # None /\ Program.proceed[at[t]] = op
Goes(t) == at' = [at EXCEPT ![t] = @ + 1]

\* The callback of the counting programs: intersectCount++ for what is found.
intersect_callback_counts(t) ==
  /\ Doing(t, "query") /\ Program.callback = "count" /\ todo[t] # <<>>
  /\ \/ /\ ~mid[t] /\ Found(Head(todo[t]))
        /\ count' = [count EXCEPT ![t] = intersectCount]
        /\ mid' = [mid EXCEPT ![t] = TRUE]
        /\ UNCHANGED <<intersectCount, todo>>
     \/ /\ mid[t]
        /\ intersectCount' = count[t] + 1
        /\ mid' = [mid EXCEPT ![t] = FALSE]
        /\ todo' = [todo EXCEPT ![t] = Tail(@)]
        /\ UNCHANGED count
     \/ /\ ~Found(Head(todo[t]))
        /\ todo' = [todo EXCEPT ![t] = Tail(@)]
        /\ UNCHANGED <<intersectCount, count, mid>>
  /\ UNCHANGED <<program, started, hung, clientVars, waiting, replied, serving, at, said, reply_,
                 host, storing, text, undefined, overlaps>>

\* A call to the host begins: that of sendThread, or of the callback of exp5_dpu.
CallHost(t) ==
  /\ host[t] = "idle"
  /\ \/ Doing(t, "spawn") /\ Goes(t)
     \/ /\ Doing(t, "query") /\ Program.callback = "ask" /\ todo[t] # <<>>
        /\ UNCHANGED at
  /\ host' = [host EXCEPT ![t] = "asked"]
  /\ UNCHANGED <<program, started, hung, clientVars, waiting, replied, serving, todo, mid, count,
                 said, reply_, storing, globals, overlaps>>

Alone(r) == \A pair \in overlaps : r \notin pair

\* The hosts: the count is exact if no other request was processed meanwhile;
\* exp5_server only looks at the pair it is sent.
exp4_server_Answers(r) == {CountOf(ToHost(r))} \cup (IF Alone(r) THEN {} ELSE {Racy})
exp5_server_Answers(geom) == {intersectsRefinement(geom)}

\* SayHello returns.
SayHello(t) ==
  /\ host[t] = "asked" /\ serving[t][1] \notin hung
  /\ \E answer \in
         (IF HostMayFail THEN {Failed} ELSE {})
         \cup (IF Offloads THEN exp4_server_Answers(serving[t])
                           ELSE exp5_server_Answers(Head(todo[t]))) :
       said' = [said EXCEPT ![t] = answer]
  /\ host' = [host EXCEPT ![t] = "replied"]
  /\ UNCHANGED <<program, started, hung, clientVars, waiting, replied, serving, at, todo, mid,
                 count, reply_, storing, globals, overlaps>>

\* The global text: what writes it, and what reads it.
Pushes(t) == Doing(t, "query") /\ Program.callback = "push" /\ todo[t] # <<>>
Writes(t) ==
  \/ host[t] = "replied"
  \/ Pushes(t) /\ Found(Head(todo[t]))
  \/ Doing(t, "resetText")
Reads(t) ==
  \/ Doing(t, "testEmpty")
  \/ Doing(t, "setReply") /\ program \notin {"exp3_server", "exp4_server"}

BeginWrite(t) ==
  /\ Writes(t) /\ storing = None
  /\ storing' = t
  /\ UNCHANGED <<program, started, hung, clientVars, waiting, replied, serving, at, todo, mid,
                 count, said, reply_, host, globals, overlaps>>

\* The text is used while another handler writes it, or the front of an empty
\* queue is read: from here on anything may happen.
Undefined(t) ==
  /\ \/ storing \notin {None, t} /\ (Writes(t) \/ Reads(t))
     \/ Doing(t, "testEmpty") /\ mid[t] /\ text = <<>>
  /\ undefined' = TRUE
  /\ UNCHANGED <<program, started, hung, clientVars, waiting, replied, handlerVars,
                 intersectCount, text, overlaps>>

\* sendWork, and the callback of exp5_dpu, keep the answer of the host.
KeepAnswer(t) ==
  /\ storing = t /\ host[t] = "replied"
  /\ storing' = None
  /\ text' = <<[about |-> serving[t], says |-> said[t]]>>
  /\ IF Offloads THEN host' = [host EXCEPT ![t] = "done"] /\ UNCHANGED todo
                 ELSE host' = [host EXCEPT ![t] = "idle"] /\ todo' = [todo EXCEPT ![t] = Tail(@)]
  /\ UNCHANGED <<program, started, hung, clientVars, waiting, replied, serving, at, mid, count,
                 said, reply_, intersectCount, undefined, overlaps>>

\* The callback of lb_mt_tfr_server pushes the polygon it was called for.
intersect_callback_pushes(t) ==
  /\ Pushes(t)
  /\ \/ storing = t /\ storing' = None /\ text' = Append(text, [about |-> serving[t], says |-> None])
     \/ ~Found(Head(todo[t])) /\ UNCHANGED <<storing, text>>
  /\ todo' = [todo EXCEPT ![t] = Tail(@)]
  /\ UNCHANGED <<program, started, hung, clientVars, waiting, replied, serving, at, mid, count,
                 said, reply_, host, intersectCount, undefined, overlaps>>

\* The queries are done; sendThread is joined.
EndQuery(t) ==
  /\ \/ Doing(t, "query") /\ todo[t] = <<>> /\ UNCHANGED host
     \/ Doing(t, "join") /\ host[t] = "done" /\ host' = [host EXCEPT ![t] = "idle"]
  /\ Goes(t)
  /\ UNCHANGED <<program, started, hung, clientVars, waiting, replied, serving, todo, mid, count,
                 said, reply_, storing, globals, overlaps>>

\* lb_mt_tfr_server tests whether its queue is empty, then reads the front.
FrontOrNone(t) ==
  /\ Doing(t, "testEmpty") /\ storing = None
  /\ \/ /\ ~mid[t] /\ text # <<>> /\ mid' = [mid EXCEPT ![t] = TRUE]
        /\ UNCHANGED <<at, reply_>>
     \/ /\ mid[t] /\ text # <<>> /\ mid' = [mid EXCEPT ![t] = FALSE]
        /\ reply_' = [reply_ EXCEPT ![t].text = Head(text)]
        /\ Goes(t)
     \/ ~mid[t] /\ text = <<>> /\ Goes(t) /\ UNCHANGED <<mid, reply_>>
  /\ UNCHANGED <<program, started, hung, clientVars, waiting, replied, serving, todo, count, said,
                 host, storing, globals, overlaps>>

\* reply_.set_message of the global text, the global count or both.
SetReply(t) ==
  /\ Doing(t, "setReply") /\ (Reads(t) => storing = None)
  /\ reply_' = [reply_ EXCEPT ![t] =
                  [text |-> IF Reads(t) /\ text # <<>> THEN Head(text) ELSE None,
                   count |-> intersectCount]]
  /\ Goes(t)
  /\ UNCHANGED <<program, started, hung, clientVars, waiting, replied, serving, todo, mid, count,
                 said, host, storing, globals, overlaps>>

\* intersectCount = 0; cpuReply = "", or the swap with an empty queue.
Reset(t) ==
  /\ \/ Doing(t, "resetCount") /\ intersectCount' = 0 /\ UNCHANGED <<text, storing>>
     \/ /\ Doing(t, "resetText") /\ storing = t /\ storing' = None /\ text' = <<>>
        /\ UNCHANGED intersectCount
  /\ Goes(t)
  /\ UNCHANGED <<program, started, hung, clientVars, waiting, replied, serving, todo, mid, count,
                 said, reply_, host, undefined, overlaps>>

\* responder_.Finish: the answer is on its way and the thread is free.
Finish(t) ==
  /\ Doing(t, "finish")
  /\ replied' = [replied EXCEPT ![serving[t][1]] = reply_[t]]
  /\ serving' = [serving EXCEPT ![t] = None] /\ at' = [at EXCEPT ![t] = 1]
  /\ count' = [count EXCEPT ![t] = 0] /\ said' = [said EXCEPT ![t] = None]
  /\ reply_' = [reply_ EXCEPT ![t] = NoReply]
  /\ UNCHANGED <<program, started, hung, clientVars, waiting, todo, mid, host, storing, globals,
                 overlaps>>

Handle(t) ==
  \/ Take(t) \/ intersect_callback_counts(t) \/ intersect_callback_pushes(t) \/ CallHost(t)
  \/ SayHello(t) \/ BeginWrite(t) \/ Undefined(t) \/ KeepAnswer(t) \/ EndQuery(t)
  \/ FrontOrNone(t) \/ SetReply(t) \/ Reset(t) \/ Finish(t)

Next ==
  /\ ~undefined
  /\ \/ StartUp
     \/ \E c \in Clients : ReadLine(c) \/ Receive(c)
     \/ \E t \in Threads : Handle(t)

\* Every thread runs on, and a host that is not hung answers.
Fairness ==
  /\ WF_vars(~undefined /\ StartUp)
  /\ \A c \in Clients : WF_vars(~undefined /\ Receive(c))
  /\ \A t \in Threads : WF_vars(~undefined /\ Handle(t))

Spec == Init /\ [][Next]_vars /\ Fairness
-----------------------------------------------------------------------------
\* Properties ---------------------------------------------------------------

Answered == UNION {{<<c, n>> : n \in DOMAIN answers[c]} : c \in Clients}
AnswerTo(r) == answers[r[1]][r[2]]

\* The text in an answer comes from the request itself or from one that was
\* processed at the same time, never from one that was over before: what a
\* handler leaves in the globals is gone when its answer is.  exp5_dpu, which
\* clears nothing, may repeat itself if a request has no candidates.
FreshAnswer ==
  \A r \in Answered :
    LET about == AnswerTo(r).text
    IN  \/ about = None
        \/ about.about = r
        \/ {r, about.about} \in overlaps
        \/ program = "exp5_dpu" /\ AllCandidates(geomStrings(r)) = <<>>

\* What a counting program counted, with the host or without.
Counted(answer) == answer.count + (IF Offloads THEN answer.text.says ELSE 0)
HostFailed(answer) == answer.text # None /\ answer.text.says = Failed

\* The answer to r of a sequential program: the two parts a request is split
\* into, at the host and here, add up to the whole; the last candidate's verdict;
\* the polygon itself if found.
IsRight(answer, r) ==
  LET all == AllCandidates(geomStrings(r))
      found == answer.text
  IN  CASE Program.callback = "count" -> Counted(answer) = CountOf(geomStrings(r))
        [] Program.callback = "ask" ->
             all # <<>> => found.about = r /\ found.says = intersectsRefinement(Last(all))
        [] Program.callback = "push" ->
             IF CountOf(geomStrings(r)) = 0 THEN found = None
                                            ELSE found # None /\ found.about = r

\* A request that was processed alone gets the answer a sequential program
\* would give, unless its host failed.
AloneIsRight ==
  \A r \in Answered : Alone(r) /\ ~HostFailed(AnswerTo(r)) => IsRight(AnswerTo(r), r)

\* The n-th answer of a counting program is the count of the n-th run of polygons
\* in its client's file, if the request was alone: batching and splitting lose
\* nothing and send nothing twice, so the answers add up to the file.
WholeFile ==
  \A r \in Answered :
    LET size == Program.client.batch
    IN  Program.callback = "count" /\ Alone(r) /\ ~HostFailed(AnswerTo(r)) =>
          Counted(AnswerTo(r)) = CountOf(SubSeq(File(r[1]), size * (r[2] - 1) + 1, size * r[2]))

\* A host that never answers the calls of some clients takes at most a handler
\* from each: while there are more handlers than such clients, the requests of
\* the others are answered.
OthersAnswered ==
  \A c \in Clients :
    (Len(asked[c]) > Len(answers[c]) /\ c \notin hung /\ Cardinality(hung) < Cardinality(Threads))
    ~> (Len(asked[c]) = Len(answers[c]) \/ undefined)
=============================================================================

--------------------------- MODULE OffloadServer ----------------------------
(***************************************************************************)
(* The work between "The actual processing" and Finish in the servers of   *)
(* derda_grpc/experiments that count intersections (exp2, exp3, exp4 and   *)
(* zzz_fpc_lb_mt_mfr_sc), composed with the asynchronous server they share.*)
(*                                                                         *)
(* A handler decodes the polygons of its request and queries the R-tree;   *)
(* the callback adds one to intersectCount for each intersection.  On the  *)
(* DPU another thread sends a part of the request on to the host at the    *)
(* same time and adds the host's answer to the same variable.  When both   *)
(* are done the handler puts intersectCount in its reply and clears it.    *)
(*                                                                         *)
(* intersectCount is one plain int for all threads: an addition is a load  *)
(* and a store, and those of different threads interleave.  What is left   *)
(* out is which polygons intersect: a call is worth Local intersections    *)
(* where it is handled and Remote ones on the host it is forwarded to.     *)
(***************************************************************************)
EXTENDS AsyncServer

CONSTANTS Local,     \* the intersections of each call found by its handler
          Remote,    \* those the host finds in the part it is sent
          Offload    \* whether a part is sent to the host (the *_dpu programs)

ASSUME CountAssumption == Local \in [Calls -> Nat] /\ Remote \in [Calls -> Nat]
ASSUME ModeAssumption == Offload \in BOOLEAN

VARIABLES
  intersectCount,  \* the shared counter
  stage,           \* how far each handler is in its request
  left,            \* intersections its callback has yet to count
  count,           \* what it loaded from intersectCount
  sendStage,       \* how far the sendThread of each handler is
  sendCount,       \* what that thread loaded from intersectCount
  reply_,          \* the answer in each object
  answer,          \* the answer each client received
  added,           \* all that was ever added to intersectCount (history)
  alone            \* calls never processed at the same time as another (history)

handling == <<stage, left, count>>
sending == <<sendStage, sendCount>>
results == <<reply_, answer>>
history == <<added, alone>>
offloadVars == <<intersectCount, handling, sending, results, history>>
offloadAll == <<vars, offloadVars>>

Mine(t) == call[tag[t]]
Busy == {t \in Threads : stage[t] # "begin"}
-----------------------------------------------------------------------------
OffloadInit ==
  /\ Init
  /\ intersectCount = 0 /\ added = 0 /\ alone = Calls
  /\ stage = [t \in Threads |-> "begin"]
  /\ left = [t \in Threads |-> 0]
  /\ count = [t \in Threads |-> 0]
  /\ sendStage = [t \in Threads |-> "none"]
  /\ sendCount = [t \in Threads |-> 0]
  /\ reply_ = [o \in Objects |-> 0]
  /\ answer = [c \in Calls |-> 0]

\* The handler --------------------------------------------------------------

\* Split the request: one part for sendThread, the other to be queried here.
Begin(t) ==
  /\ pc[t] = "process" /\ stage[t] = "begin"
  /\ left' = [left EXCEPT ![t] = Local[Mine(t)]]
  /\ sendStage' = [sendStage EXCEPT ![t] = IF Offload THEN "sent" ELSE "none"]
  /\ stage' = [stage EXCEPT ![t] = "load"]
  /\ alone' = IF Busy = {} THEN alone ELSE alone \ {Mine(u) : u \in Busy \cup {t}}
  /\ UNCHANGED <<vars, intersectCount, count, sendCount, results, added>>

\* intersect_callback: intersectCount++.
Load(t) ==
  /\ stage[t] = "load" /\ left[t] > 0
  /\ count' = [count EXCEPT ![t] = intersectCount]
  /\ stage' = [stage EXCEPT ![t] = "store"]
  /\ UNCHANGED <<vars, intersectCount, left, sending, results, history>>

\* Mutant of Store: an intersection is counted once per ring of the polygon.
StoreTwice(t) ==
  /\ stage[t] = "store"
  /\ intersectCount' = count[t] + 2
  /\ added' = added + 1
  /\ left' = [left EXCEPT ![t] = @ - 1]
  /\ stage' = [stage EXCEPT ![t] = "load"]
  /\ UNCHANGED <<vars, count, sending, results, alone>>

Store(t) ==
  /\ stage[t] = "store"
  /\ intersectCount' = count[t] + 1
  /\ added' = added + 1
  /\ left' = [left EXCEPT ![t] = @ - 1]
  /\ stage' = [stage EXCEPT ![t] = "load"]
  /\ UNCHANGED <<vars, count, sending, results, alone>>

\* Mutant of SetReply: the counter is cleared before it is read.
SetReplyAfterReset(t) ==
  /\ stage[t] = "load" /\ left[t] = 0
  /\ sendStage[t] \in {"none", "done"}
  /\ intersectCount' = 0
  /\ reply_' = [reply_ EXCEPT ![tag[t]] = 0]
  /\ sendStage' = [sendStage EXCEPT ![t] = "none"]
  /\ stage' = [stage EXCEPT ![t] = "reset"]
  /\ UNCHANGED <<vars, left, count, sendCount, answer, history>>

\* All queries are done: join sendThread, and read the counter.
SetReply(t) ==
  /\ stage[t] = "load" /\ left[t] = 0
  /\ sendStage[t] \in {"none", "done"}
  /\ reply_' = [reply_ EXCEPT ![tag[t]] = intersectCount]
  /\ sendStage' = [sendStage EXCEPT ![t] = "none"]
  /\ stage' = [stage EXCEPT ![t] = "reset"]
  /\ UNCHANGED <<vars, intersectCount, left, count, sendCount, answer, history>>

\* Mutant of Reset: the counter is not cleared for the next request.
ResetNot(t) ==
  /\ stage[t] = "reset"
  /\ stage' = [stage EXCEPT ![t] = "begin"]
  /\ Process(t)
  /\ UNCHANGED <<intersectCount, left, count, sending, results, history>>

\* Clear the counter, and go on to answer.
Reset(t) ==
  /\ stage[t] = "reset"
  /\ intersectCount' = 0
  /\ stage' = [stage EXCEPT ![t] = "begin"]
  /\ Process(t)
  /\ UNCHANGED <<left, count, sending, results, history>>

\* sendQuery, in its own thread ---------------------------------------------

\* The answer of the host arrives, and the counter is loaded for the addition.
SendLoad(t) ==
  /\ sendStage[t] = "sent"
  /\ sendCount' = [sendCount EXCEPT ![t] = intersectCount]
  /\ sendStage' = [sendStage EXCEPT ![t] = "store"]
  /\ UNCHANGED <<vars, intersectCount, handling, results, history>>

SendStore(t) ==
  /\ sendStage[t] = "store"
  /\ intersectCount' = sendCount[t] + Remote[Mine(t)]
  /\ added' = added + Remote[Mine(t)]
  /\ sendStage' = [sendStage EXCEPT ![t] = "done"]
  /\ UNCHANGED <<vars, handling, sendCount, results, alone>>

\* The host did not answer: "RPC failed" is no number, and stoi throws.
SendFails(t) ==
  /\ sendStage[t] = "sent"
  /\ Throw(t)
  /\ UNCHANGED offloadVars

\* The rest of the server and its clients -----------------------------------

\* The steps of a handler thread outside the processing.
Serve(t) ==
  /\ \/ New(t) \/ SetProcess(t) \/ RequestSayHello(t)
     \/ NextEvent(t) \/ Proceed(t)
     \/ SetFinish(t) \/ Finish(t) \/ Delete(t)
  /\ UNCHANGED offloadVars

CallServer(c) == Send(c) /\ UNCHANGED offloadVars
Accept(c) == Match(c) /\ UNCHANGED offloadVars
GoAway(c) == Leave(c) /\ UNCHANGED offloadVars

CarryReply(o) ==
  /\ Carry(o)
  /\ answer' = [answer EXCEPT ![call[o]] = reply_[o]]
  /\ UNCHANGED <<intersectCount, handling, sending, reply_, history>>
-----------------------------------------------------------------------------
HandlerStep(t) == \/ Begin(t) \/ Load(t) \/ Store(t) \/ SetReply(t) \/ Reset(t)
                  \/ Serve(t)
SendStep(t) == SendLoad(t) \/ SendStore(t)

OffloadNext ==
  \/ /\ aborted = "no"
     /\ \/ \E t \in Threads : HandlerStep(t) \/ SendStep(t) \/ SendFails(t)
        \/ \E c \in Calls : CallServer(c) \/ Accept(c) \/ GoAway(c)
        \/ \E o \in Objects : CarryReply(o)
  \/ Rest /\ UNCHANGED offloadVars

\* Handlers and sending threads keep running, and the host answers.
OffloadFairness ==
  /\ \A t \in Threads : /\ WF_offloadAll(Alive(HandlerStep(t)))
                        /\ WF_offloadAll(Alive(SendStep(t)))
  /\ \A c \in Calls : WF_offloadAll(Alive(Accept(c)))
  /\ \A o \in Objects : WF_offloadAll(Alive(CarryReply(o)))

OffloadSafeSpec == OffloadInit /\ [][OffloadNext]_offloadAll
OffloadSpec == OffloadSafeSpec /\ OffloadFairness
-----------------------------------------------------------------------------
OffloadTypeOK ==
  /\ intersectCount \in Nat /\ added \in Nat
  /\ stage \in [Threads -> {"begin", "load", "store", "reset"}]
  /\ left \in [Threads -> Nat] /\ count \in [Threads -> Nat]
  /\ sendStage \in [Threads -> {"none", "sent", "store", "done"}]
  /\ sendCount \in [Threads -> Nat]
  /\ reply_ \in [Objects -> Nat] /\ answer \in [Calls -> Nat]
  /\ alone \subseteq Calls

(***************************************************************************)
(* However the additions and resets of all threads interleave, no answer   *)
(* and no value of the counter exceeds all that was added so far.  (An     *)
(* addition may still be lost, or counted in the answers of two requests.) *)
(***************************************************************************)
NothingInvented ==
  /\ intersectCount <= added
  /\ \A t \in Threads : count[t] <= added /\ sendCount[t] <= added
  /\ \A o \in Objects : reply_[o] <= added
  /\ \A c \in Calls : answer[c] <= added

(***************************************************************************)
(* Once no request is being processed the counter is zero again: what the  *)
(* races spoil stays with the requests that raced, and a request that has  *)
(* the server to itself starts from zero.                                  *)
(***************************************************************************)
QuietIsZero == Busy = {} => intersectCount = 0

(***************************************************************************)
(* A request that was never processed together with another is answered    *)
(* with its intersections, on the host.  On the DPU the handler and its    *)
(* own sendThread still race and the later writer wins: the answer has all *)
(* the handler counted and nothing of the host's part, or all of the       *)
(* host's part and some of the handler's.                                  *)
(***************************************************************************)
Counted(c) == {Local[c]} \cup (IF Offload THEN Remote[c] .. Local[c] + Remote[c] ELSE {})
AloneIsCounted == \A c \in alone : answered[c] = 1 => answer[c] \in Counted(c)

=============================================================================

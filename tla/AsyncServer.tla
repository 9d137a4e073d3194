---------------------------- MODULE AsyncServer -----------------------------
(***************************************************************************)
(* The asynchronous gRPC server that every *_server.cc and *_dpu.cc of     *)
(* derda_grpc/experiments is built on, with several handler threads on one *)
(* completion queue (exp2_multiple_query_multiple_thread_floating_point).  *)
(*                                                                         *)
(* A call is served by a CallData object, which is at once the tag of its  *)
(* events and the record of its progress: CREATE, PROCESS, FINISH.  A      *)
(* thread registers one object to begin with, then takes events from the   *)
(* queue for ever.  The event of a new call makes it register another      *)
(* object, do the work and hand the answer to the runtime; the event of an *)
(* answered call makes it delete the object, whose address the next new    *)
(* may return again.  The threads share the objects without a lock.        *)
(*                                                                         *)
(* The gRPC runtime is outside the code: it matches a registered object    *)
(* with a call, carries answers to clients, and reports both on the queue, *)
(* an answer with ok = FALSE when its client has gone.                     *)
(***************************************************************************)
EXTENDS Naturals, FiniteSets

CONSTANTS Threads,   \* the handler threads of Run
          Objects,   \* the addresses new CallData may return
          Calls,     \* the calls the clients make
          MayLeave,  \* whether a client may go away before its answer
          MayThrow   \* whether the work of a call may throw

CONSTANT None        \* no object, no call
ASSUME NoneAssumption == None \notin Objects \cup Calls
ASSUME MayAssumption == MayLeave \in BOOLEAN /\ MayThrow \in BOOLEAN

VARIABLES
  pc,         \* what each thread does next
  tag,        \* the object each thread proceeds with, or None
  made,       \* the object each thread is creating, or None
  status_,    \* the progress of each object, or "free"
  call,       \* the call each object serves, or None
  armed,      \* objects registered and waiting for a call
  finishing,  \* objects whose answer the runtime has not yet carried
  cq,         \* the completion queue: events [tag, ok]
  sent,       \* calls the clients have made
  gone,       \* calls whose client has gone away
  matched,    \* calls the runtime has given to an object
  handled,    \* how often the work of each call was done
  answered,   \* how often each call was answered
  aborted     \* what has stopped the process, or "no"

server == <<pc, tag, made, status_>>
runtime == <<call, armed, finishing, cq, matched>>
clients == <<sent, gone>>
counts == <<handled, answered>>
vars == <<server, runtime, clients, counts, aborted>>
-----------------------------------------------------------------------------
Init ==
  /\ pc = [t \in Threads |-> "new"]
  /\ tag = [t \in Threads |-> None]
  /\ made = [t \in Threads |-> None]
  /\ status_ = [o \in Objects |-> "free"]
  /\ call = [o \in Objects |-> None]
  /\ armed = {} /\ finishing = {} /\ cq = {}
  /\ sent = {} /\ gone = {} /\ matched = {}
  /\ handled = [c \in Calls |-> 0] /\ answered = [c \in Calls |-> 0]
  /\ aborted = "no"

\* A handler thread ---------------------------------------------------------

\* new CallData: at the start of HandleRpcs, and for the next client before
\* the current one is served.
New(t) ==
  /\ pc[t] = "new"
  /\ \E o \in Objects :
       /\ status_[o] = "free"
       /\ status_' = [status_ EXCEPT ![o] = "CREATE"]
       /\ made' = [made EXCEPT ![t] = o]
  /\ pc' = [pc EXCEPT ![t] = "create"]
  /\ UNCHANGED <<tag, runtime, clients, counts, aborted>>

\* Mutant of SetProcess: the status is left as it was.
SetProcessForgotten(t) ==
  /\ pc[t] = "create"
  /\ pc' = [pc EXCEPT ![t] = "request"]
  /\ UNCHANGED <<tag, made, status_, runtime, clients, counts, aborted>>

\* Proceed of an object in CREATE, called by its constructor: note the
\* progress, and only then let events of this object happen.
SetProcess(t) ==
  /\ pc[t] = "create"
  /\ status_' = [status_ EXCEPT ![made[t]] = "PROCESS"]
  /\ pc' = [pc EXCEPT ![t] = "request"]
  /\ UNCHANGED <<tag, made, runtime, clients, counts, aborted>>

RequestSayHello(t) ==
  /\ pc[t] = "request"
  /\ armed' = armed \cup {made[t]}
  /\ made' = [made EXCEPT ![t] = None]
  /\ pc' = [pc EXCEPT ![t] = IF tag[t] = None THEN "next" ELSE "process"]
  /\ UNCHANGED <<tag, status_, call, finishing, cq, matched, clients, counts, aborted>>

\* cq_->Next, and the assertion that the event is a good one.
NextEvent(t) ==
  /\ pc[t] = "next"
  /\ \E e \in cq :
       /\ cq' = cq \ {e}
       /\ IF e.ok
            THEN /\ tag' = [tag EXCEPT ![t] = e.tag]
                 /\ pc' = [pc EXCEPT ![t] = "proceed"]
                 /\ UNCHANGED aborted
            ELSE /\ aborted' = "ok"
                 /\ UNCHANGED <<tag, pc>>
  /\ UNCHANGED <<made, status_, call, armed, finishing, matched, clients, counts>>

\* Proceed of the object an event names, by the object's progress.
Proceed(t) ==
  /\ pc[t] = "proceed"
  /\ pc' = [pc EXCEPT ![t] = CASE status_[tag[t]] = "CREATE" -> "create"
                              [] status_[tag[t]] = "PROCESS" -> "new"
                              [] OTHER -> "delete"]
  /\ made' = [made EXCEPT ![t] = IF status_[tag[t]] = "CREATE" THEN tag[t] ELSE @]
  /\ UNCHANGED <<tag, status_, runtime, clients, counts, aborted>>

\* The actual processing.
Process(t) ==
  /\ pc[t] = "process"
  /\ handled' = [handled EXCEPT ![call[tag[t]]] = @ + 1]
  /\ pc' = [pc EXCEPT ![t] = "setFinish"]
  /\ UNCHANGED <<tag, made, status_, runtime, clients, answered, aborted>>

\* An exception in the processing, which nothing catches (the "RPC failed" of
\* SendQueries is not a number for stoi): the process ends.
Throw(t) ==
  /\ MayThrow
  /\ pc[t] = "process"
  /\ aborted' = "exception"
  /\ UNCHANGED <<server, runtime, clients, counts>>

\* Mutant of SetFinish: the answer is on its way before the status says so.
SetFinishLate(t) ==
  \/ /\ pc[t] = "setFinish"
     /\ finishing' = finishing \cup {tag[t]}
     /\ pc' = [pc EXCEPT ![t] = "late"]
     /\ UNCHANGED <<tag, made, status_, call, armed, cq, matched, clients, counts, aborted>>
  \/ /\ pc[t] = "late"
     /\ status_' = [status_ EXCEPT ![tag[t]] = "FINISH"]
     /\ tag' = [tag EXCEPT ![t] = None]
     /\ pc' = [pc EXCEPT ![t] = "next"]
     /\ UNCHANGED <<made, runtime, clients, counts, aborted>>

\* The answer is ready: note the progress, and only then hand the object to
\* the runtime, after which this thread does not touch it again.
SetFinish(t) ==
  /\ pc[t] = "setFinish"
  /\ status_' = [status_ EXCEPT ![tag[t]] = "FINISH"]
  /\ pc' = [pc EXCEPT ![t] = "finish"]
  /\ UNCHANGED <<tag, made, runtime, clients, counts, aborted>>

Finish(t) ==
  /\ pc[t] = "finish"
  /\ finishing' = finishing \cup {tag[t]}
  /\ tag' = [tag EXCEPT ![t] = None]
  /\ pc' = [pc EXCEPT ![t] = "next"]
  /\ UNCHANGED <<made, status_, call, armed, cq, matched, clients, counts, aborted>>

\* The assertion that an object not to be processed is finished, and delete.
Delete(t) ==
  /\ pc[t] = "delete"
  /\ IF status_[tag[t]] = "FINISH"
       THEN /\ status_' = [status_ EXCEPT ![tag[t]] = "free"]
            /\ call' = [call EXCEPT ![tag[t]] = None]
            /\ tag' = [tag EXCEPT ![t] = None]
            /\ pc' = [pc EXCEPT ![t] = "next"]
            /\ UNCHANGED aborted
       ELSE /\ aborted' = "status"
            /\ UNCHANGED <<status_, call, tag, pc>>
  /\ UNCHANGED <<made, armed, finishing, cq, matched, clients, counts>>

\* The clients and the runtime ----------------------------------------------

Send(c) ==
  /\ c \notin sent
  /\ sent' = sent \cup {c}
  /\ UNCHANGED <<server, runtime, gone, counts, aborted>>

Leave(c) ==
  /\ MayLeave
  /\ c \in sent \ gone /\ answered[c] = 0
  /\ gone' = gone \cup {c}
  /\ UNCHANGED <<server, runtime, sent, counts, aborted>>

\* A call that has been made meets an object that waits for one.
Match(c) ==
  /\ c \in sent \ matched
  /\ \E o \in armed :
       /\ armed' = armed \ {o}
       /\ call' = [call EXCEPT ![o] = c]
       /\ cq' = cq \cup {[tag |-> o, ok |-> TRUE]}
  /\ matched' = matched \cup {c}
  /\ UNCHANGED <<server, finishing, clients, counts, aborted>>

\* The answer of an object reaches the client, if it is still there.
Carry(o) ==
  /\ o \in finishing
  /\ finishing' = finishing \ {o}
  /\ cq' = cq \cup {[tag |-> o, ok |-> call[o] \notin gone]}
  /\ answered' = [answered EXCEPT ![call[o]] = IF call[o] \in gone THEN @ ELSE @ + 1]
  /\ UNCHANGED <<server, call, armed, matched, clients, handled, aborted>>
-----------------------------------------------------------------------------
ThreadStep(t) == \/ New(t) \/ SetProcess(t) \/ RequestSayHello(t) \/ NextEvent(t)
                 \/ Proceed(t) \/ Process(t) \/ SetFinish(t) \/ Finish(t) \/ Delete(t)

\* Nothing is left to do until a client calls; or the process is gone.
Quiet == \/ aborted # "no"
         \/ /\ sent = Calls /\ matched = Calls /\ finishing = {} /\ cq = {}
            /\ \A t \in Threads : pc[t] = "next"
Rest == Quiet /\ UNCHANGED vars

Next == \/ /\ aborted = "no"
           /\ \/ \E t \in Threads : ThreadStep(t) \/ Throw(t)
              \/ \E c \in Calls : Send(c) \/ Leave(c) \/ Match(c)
              \/ \E o \in Objects : Carry(o)
        \/ Rest

\* Each handler thread keeps running and the runtime keeps its promises; no
\* client has to call, but one that waits is matched.
Alive(A) == aborted = "no" /\ A
Fairness == /\ \A t \in Threads : WF_vars(Alive(ThreadStep(t)))
            /\ \A c \in Calls : WF_vars(Alive(Match(c)))
            /\ \A o \in Objects : WF_vars(Alive(Carry(o)))

SafeSpec == Init /\ [][Next]_vars
Spec == SafeSpec /\ Fairness
-----------------------------------------------------------------------------
TypeOK ==
  /\ pc \in [Threads -> {"new", "create", "request", "next", "proceed", "process",
                         "setFinish", "finish", "delete"}]
  /\ tag \in [Threads -> Objects \cup {None}]
  /\ made \in [Threads -> Objects \cup {None}]
  /\ status_ \in [Objects -> {"free", "CREATE", "PROCESS", "FINISH"}]
  /\ call \in [Objects -> Calls \cup {None}]
  /\ armed \subseteq Objects /\ finishing \subseteq Objects
  /\ cq \subseteq [tag : Objects, ok : BOOLEAN]
  /\ sent \subseteq Calls /\ gone \subseteq sent /\ matched \subseteq sent
  /\ handled \in [Calls -> Nat] /\ answered \in [Calls -> Nat]
  /\ aborted \in {"no", "ok", "status", "exception"}

Queued(o) == \E e \in cq : e.tag = o
Holds(t, o) == tag[t] = o \/ made[t] = o
Held(o) == \E t \in Threads : Holds(t, o)

(***************************************************************************)
(* An object is in one place at a time: with one thread, registered, with  *)
(* the runtime, or named by one event.  Two places would be two threads in *)
(* the same Proceed, or an event of an object already deleted; none for a  *)
(* live object would be a leak.                                            *)
(***************************************************************************)
HeldOnce(o) == /\ \A t, u \in Threads : Holds(t, o) /\ Holds(u, o) => t = u
               /\ \A t \in Threads : ~(tag[t] = o /\ made[t] = o)
Apart(o) == /\ Held(o) => o \notin armed /\ o \notin finishing /\ ~Queued(o)
            /\ o \in armed => o \notin finishing /\ ~Queued(o)
            /\ o \in finishing => ~Queued(o)
            /\ \A e, f \in cq : e.tag = o /\ f.tag = o => e = f
Tracked(o) == status_[o] # "free" <=> Held(o) \/ o \in armed \/ o \in finishing \/ Queued(o)
OnePlace == aborted = "no" => \A o \in Objects : HeldOnce(o) /\ Apart(o) /\ Tracked(o)

(***************************************************************************)
(* GPR_ASSERT(status_ == FINISH) holds whenever it is reached: no event of *)
(* an object is taken before the object's status tells what it is for.     *)
(***************************************************************************)
StatusAssertion == aborted # "status"

(***************************************************************************)
(* The work of a call is done once at most, and before its answer.         *)
(***************************************************************************)
WorkBeforeAnswer == \A c \in Calls : answered[c] <= handled[c] /\ handled[c] <= 1

-----------------------------------------------------------------------------
(* The inductive invariant: what each place means for the object in it.    *)

\* An object that waits for a call, has one waiting for it, or is done with.
Waits(o) == status_[o] = "PROCESS" /\ call[o] = None
Due(o) == /\ status_[o] = "PROCESS" /\ call[o] \in Calls
          /\ handled[call[o]] = 0 /\ answered[call[o]] = 0
Done(o) == /\ status_[o] = "FINISH" /\ call[o] \in Calls /\ handled[call[o]] = 1

\* What a thread is doing with the object it proceeds with.
ThreadOK(t) ==
  /\ made[t] # None <=> pc[t] \in {"create", "request"}
  /\ pc[t] = "create" => status_[made[t]] = "CREATE" /\ call[made[t]] = None
  /\ pc[t] = "request" => Waits(made[t])
  /\ pc[t] = "next" => tag[t] = None
  /\ pc[t] \in {"new", "create", "request"} => tag[t] = None \/ Due(tag[t])
  /\ pc[t] \in {"proceed", "process", "setFinish", "finish", "delete"} => tag[t] # None
  /\ pc[t] = "proceed" => Due(tag[t]) \/ Done(tag[t])
  /\ pc[t] = "process" => Due(tag[t])
  /\ pc[t] = "setFinish" => /\ status_[tag[t]] = "PROCESS" /\ call[tag[t]] \in Calls
                            /\ handled[call[tag[t]]] = 1 /\ answered[call[tag[t]]] = 0
  /\ pc[t] = "finish" => Done(tag[t]) /\ answered[call[tag[t]]] = 0
  /\ pc[t] = "delete" => Done(tag[t])

ObjectsOK ==
  /\ \A o \in armed : Waits(o)
  /\ \A o \in finishing : Done(o) /\ answered[call[o]] = 0
  /\ \A e \in cq : Done(e.tag) \/ (Due(e.tag) /\ e.ok = TRUE)
  /\ \A o \in Objects : status_[o] = "free" => call[o] = None

CallsOK ==
  /\ \A o, p \in Objects : call[o] = call[p] /\ call[o] # None => o = p
  /\ \A o \in Objects : call[o] # None => call[o] \in matched
  /\ \A c \in Calls \ matched : handled[c] = 0 /\ answered[c] = 0

(***************************************************************************)
(* Every object in a place, every call with at most one object, and the    *)
(* status of each object what its place and its call require.              *)
(***************************************************************************)
Sound == /\ TypeOK /\ OnePlace /\ StatusAssertion /\ WorkBeforeAnswer
         /\ aborted = "no" => (\A t \in Threads : ThreadOK(t)) /\ ObjectsOK /\ CallsOK
-----------------------------------------------------------------------------
(***************************************************************************)
(* To the clients the server is a work pool: each call is answered at most *)
(* once, however the threads, the runtime and the reuse of addresses       *)
(* interleave.                                                             *)
(***************************************************************************)
Pool == INSTANCE WorkPool WITH
          Tasks <- Calls, Copies <- 1,
          remaining <- [c \in Calls |-> 1 - answered[c]]
IsWorkPool == Pool!SafeSpec

(***************************************************************************)
(* A call that is made is answered, unless its client goes away or the     *)
(* process has stopped; and the process stops only because the client of   *)
(* some call went away, which fails the completion of its answer, or the   *)
(* work of a call, which is then not done, threw.                          *)
(***************************************************************************)
SentIsAnswered ==
  \A c \in Calls :
    c \in sent ~> \/ answered[c] = 1 \/ c \in gone
                  \/ aborted = "ok" /\ gone # {}
                  \/ aborted = "exception" /\ \E d \in matched : handled[d] = 0

=============================================================================

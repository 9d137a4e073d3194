----------------------------- MODULE RemoteCopy -----------------------------
(***************************************************************************)
(* The DMA programs of dma/: dma_remote_copy_sender exports a buffer and   *)
(* sends its description over TCP, dma_remote_copy_receiver imports it,    *)
(* copies it with its DMA engine and acknowledges; dma_local_copy copies   *)
(* inside one host.  Each is a list of calls, any of which may fail, and   *)
(* what is released after each failure.                                    *)
(*                                                                         *)
(* Abstractions: the library's objects are names; contents and lengths of  *)
(* buffers are left out, except for the ranges dma_local_copy compares.    *)
(* Releasing an object that is held succeeds.                              *)
(***************************************************************************)
EXTENDS Integers, Sequences, FiniteSets

CONSTANTS Senders, Receiver, Local,  \* the callers of the three functions
          NoSender,
          Addresses, Lengths         \* of the buffers of dma_local_copy; 0 is NULL

ASSUME ProgramsAssumption == /\ {Receiver, Local} \cap Senders = {} /\ Receiver # Local
                             /\ NoSender \notin Senders
ASSUME RangesAssumption == Addresses \subseteq Nat /\ Lengths \subseteq Nat

VARIABLES
  active,   \* the programs that have been called
  at,       \* the next call of each
  held,     \* the objects each holds
  undo,     \* what it still has to release, in order
  result,   \* what it returns
  queue,    \* senders whose connection is not accepted, those that have left too
  peer,     \* the sender the receiver has accepted
  sent,     \* how much of its description each sender has sent
  got,      \* how much of it the receiver has received
  acks,     \* the senders an acknowledgement is under way to
  job,      \* the state of each program's DMA job
  lost,     \* the programs whose retrieving failed
  ranges    \* the arguments of dma_local_copy

network == <<queue, peer, sent, got, acks>>
vars == <<active, at, held, undo, result, network, job, lost, ranges>>

Programs == Senders \cup {Receiver, Local}
-----------------------------------------------------------------------------
\* The programs as lists of calls -------------------------------------------

create_core_objects == <<"mmap", "inventory", "dma", "workq">>
init_core_objects == <<"chunks", "mmapStart", "mmapDev", "inventoryStart",
                       "ctxDev", "ctxStart", "ctxWorkq">>
cleanup_core_objects == <<"ctxWorkq", "ctxStart", "ctxDev", "mmapDev">>
destroy_core_objects == <<"workq", "dma", "inventory", "mmap", "dev">>
destroy_core_objects_sender == <<"mmap", "dev">>

Core == <<"dev">> \o create_core_objects \o init_core_objects \o <<"populate">>

SenderCalls == <<"dev", "mmap", "mmapStart", "mmapDev", "populate", "export",
                 "connect", "write", "ack">>
ReceiverCalls == Core \o <<"listen", "accept", "recv", "import", "srcBuf", "dstBuf",
                           "submit", "retrieve">>
LocalCalls == <<"arguments">> \o Core \o <<"srcBuf", "dstBuf", "submit", "retrieve">>

Calls(p) == CASE p \in Senders -> SenderCalls
              [] p = Receiver -> ReceiverCalls
              [] p = Local -> LocalCalls

\* The calls that leave something to release.
Objects == {"dev", "mmap", "inventory", "dma", "workq", "mmapDev", "ctxDev", "ctxStart",
            "ctxWorkq", "export", "listen", "fd", "import", "srcBuf", "dstBuf", "job"}

\* What an object needs as long as it is held.
Needs(o) == CASE o = "mmapDev" -> {"dev"}
              [] o = "ctxDev" -> {"dma", "dev"}
              [] o = "ctxStart" -> {"dma"}
              [] o = "ctxWorkq" -> {"dma", "workq", "ctxStart"}
              [] o = "import" -> {"dev"}
              [] o = "srcBuf" -> {"inventory"}
              [] o = "dstBuf" -> {"inventory", "mmap"}
              [] o = "job" -> {"srcBuf", "dstBuf", "ctxWorkq"}
              [] OTHER -> {}

\* Of the receiver, the source buffer is also in the imported mapping.
NeedsOf(p, o) == Needs(o) \cup (IF p = Receiver /\ o = "srcBuf" THEN {"import"} ELSE {})

\* What a program releases after call c has failed, or after its last call:
\* first buffers and imported mapping, then the rest.
Imported(p) == IF p = Receiver THEN <<"import">> ELSE <<>>

\* Mutants of BuffersUndo: the imported mapping goes first, or the source buffer
\* is forgotten when there is no destination buffer.
BuffersUndoImportFirst(p, c) ==
  CASE c = "srcBuf" -> Imported(p)
    [] c = "dstBuf" -> Imported(p) \o <<"srcBuf">>
    [] c = "submit" -> Imported(p) \o <<"dstBuf", "srcBuf">>
    [] c = "retrieve" -> <<"srcBuf", "dstBuf">> \o Imported(p)
    [] OTHER -> <<>>
BuffersUndoForgets(p, c) ==
  CASE c \in {"srcBuf", "dstBuf"} -> Imported(p)
    [] c = "submit" -> <<"dstBuf", "srcBuf">> \o Imported(p)
    [] c = "retrieve" -> <<"srcBuf", "dstBuf">> \o Imported(p)
    [] OTHER -> <<>>

BuffersUndo(p, c) ==
  CASE c = "srcBuf" -> Imported(p)
    [] c = "dstBuf" -> <<"srcBuf">> \o Imported(p)
    [] c = "submit" -> <<"dstBuf", "srcBuf">> \o Imported(p)
    [] c = "retrieve" -> <<"srcBuf", "dstBuf">> \o Imported(p)
    [] OTHER -> <<>>

\* The acknowledgement is sent with the closing of the receiver's socket.
UndoAfter(p, c) ==
  CASE c \in {"arguments", "dev"} -> <<>>
    [] p \in Senders /\ c \in {"connect", "write", "ack"} ->
         <<"fd">> \o destroy_core_objects_sender \o <<"export">>
    [] p \in Senders /\ c \notin {"connect", "write", "ack", "dev"} -> destroy_core_objects_sender
    [] p \notin Senders /\ c \in {create_core_objects[k] : k \in DOMAIN create_core_objects} ->
         destroy_core_objects
    [] OTHER -> BuffersUndo(p, c)
                \o (IF p = Receiver /\ c = "retrieve" THEN <<"fd">> ELSE <<>>)
                \o cleanup_core_objects \o destroy_core_objects
-----------------------------------------------------------------------------
Init ==
  /\ active \in {{Local}, Senders \cup {Receiver}}
  /\ ranges \in IF Local \in active
                  THEN [dst : Addresses, src : Addresses, length : Lengths]
                  ELSE {[dst |-> 0, src |-> 0, length |-> 0]}
  /\ at = [p \in Programs |-> 1]
  /\ held = [p \in Programs |-> {}]
  /\ undo = [p \in Programs |-> <<>>]
  /\ result = [p \in Programs |-> "none"]
  /\ queue = {} /\ peer = NoSender /\ acks = {}
  /\ sent = [s \in Senders |-> "nothing"] /\ got = "nothing"
  /\ job = [p \in Programs |-> "none"]
  /\ lost = {}

\* Program p is about to make call c.
Calling(p, c) == /\ p \in active
                 /\ result[p] = "none"
                 /\ Calls(p)[at[p]] = c

Returned(p) == result[p] # "none" /\ undo[p] = <<>>

\* The call has succeeded, or failed with what the program will return.
Succeeds(p, gets) ==
  /\ at' = [at EXCEPT ![p] = @ + 1]
  /\ held' = [held EXCEPT ![p] = @ \cup gets]
  /\ UNCHANGED <<undo, result>>

Ends(p, c, res, closes) ==
  /\ result' = [result EXCEPT ![p] = res]
  /\ undo' = [undo EXCEPT ![p] = UndoAfter(p, c)]
  /\ held' = [held EXCEPT ![p] = @ \ closes]
  /\ UNCHANGED at

\* Calls that only involve the library.
Simple == (Objects \cup {"mmapStart", "chunks", "populate", "inventoryStart"})
            \ {"listen", "fd", "job", "import"}

Call(p) ==
  /\ \E c \in Simple : /\ Calling(p, c)
                       /\ Succeeds(p, {c} \cap Objects) \/ Ends(p, c, "error", {})
  /\ UNCHANGED <<active, network, job, lost, ranges>>

memory_ranges_overlap(r) == \/ r.dst >= r.src /\ r.dst < r.src + r.length
                            \/ r.src >= r.dst /\ r.src < r.dst + r.length

CheckArguments ==
  /\ Calling(Local, "arguments")
  /\ IF ranges.dst = 0 \/ ranges.src = 0 \/ ranges.length = 0 \/ memory_ranges_overlap(ranges)
       THEN Ends(Local, "arguments", "error", {})
       ELSE Succeeds(Local, {})
  /\ UNCHANGED <<active, network, job, lost, ranges>>

\* The next object of the list is released.  A sender's connection stays where it
\* is when its socket is closed, with what was sent on it: it can still be
\* accepted and read.  Before closing its own socket the receiver acknowledges,
\* whatever became of its job.
Release(p) ==
  /\ undo[p] # <<>>
  /\ undo' = [undo EXCEPT ![p] = Tail(@)]
  /\ LET o == Head(undo[p])
     IN  /\ held' = [held EXCEPT ![p] = @ \ ({o} \cup IF o = "mmap" THEN {"mmapDev"} ELSE {})]
         /\ acks' = IF p = Receiver /\ o = "fd" THEN acks \cup {peer} ELSE acks
  /\ UNCHANGED <<active, at, result, queue, peer, sent, got, job, lost, ranges>>
-----------------------------------------------------------------------------
\* The sender ---------------------------------------------------------------

Connect(s) ==
  /\ Calling(s, "connect")
  /\ \/ /\ "listen" \in held[Receiver]
        /\ queue' = queue \cup {s}
        /\ Succeeds(s, {"fd"})
     \/ Ends(s, "connect", "not_connected", {}) /\ UNCHANGED queue
  /\ UNCHANGED <<active, peer, sent, got, acks, job, lost, ranges>>

Write(s) ==
  /\ Calling(s, "write")
  /\ \/ sent' = [sent EXCEPT ![s] = "whole"] /\ Succeeds(s, {})
     \/ /\ \E some \in {"nothing", "part"} : sent' = [sent EXCEPT ![s] = some]
        /\ Ends(s, "write", "not_connected", {})
  /\ UNCHANGED <<active, queue, peer, got, acks, job, lost, ranges>>

\* Mutant of Ack: the socket has no timeout.
AckNoTimeout(s) ==
  /\ Calling(s, "ack")
  /\ \/ s \in acks /\ Ends(s, "ack", "ok", {})
     \/ /\ s \notin queue /\ (s = peer => "fd" \notin held[Receiver])
        /\ Ends(s, "ack", "not_connected", {})
  /\ UNCHANGED <<active, network, job, lost, ranges>>

\* The right answer arrives; or a wrong or no answer, or five seconds pass.
Ack(s) ==
  /\ Calling(s, "ack")
  /\ \/ s \in acks /\ Ends(s, "ack", "ok", {})
     \/ Ends(s, "ack", "not_connected", {})
  /\ UNCHANGED <<active, network, job, lost, ranges>>
-----------------------------------------------------------------------------
\* The receiver -------------------------------------------------------------

Listen ==
  /\ Calling(Receiver, "listen")
  /\ Succeeds(Receiver, {"listen"}) \/ Ends(Receiver, "listen", "not_connected", {})
  /\ UNCHANGED <<active, network, job, lost, ranges>>

\* Accepting waits for a connection, of a sender that may have left by now.  It
\* closes the listening socket, and with it the connections not accepted.
Accept ==
  /\ Calling(Receiver, "accept")
  /\ \/ /\ peer' \in queue
        /\ at' = [at EXCEPT ![Receiver] = @ + 1]
        /\ held' = [held EXCEPT ![Receiver] = (@ \ {"listen"}) \cup {"fd"}]
        /\ UNCHANGED <<undo, result>>
     \/ Ends(Receiver, "accept", "not_connected", {"listen"}) /\ UNCHANGED peer
  /\ queue' = {}
  /\ UNCHANGED <<active, sent, got, acks, job, lost, ranges>>

\* One call of recv returns some of what was sent, or nothing once the sender has
\* closed.  It may fail; and it may fill the buffer, when the socket stays open.
Recv ==
  /\ Calling(Receiver, "recv")
  /\ sent[peer] # "nothing" \/ "fd" \notin held[peer]
  /\ \/ /\ got' \in IF sent[peer] = "whole" THEN {"part", "whole"} ELSE {sent[peer]}
        /\ Succeeds(Receiver, {})
     \/ /\ \E closes \in {{}, {"fd"}} : Ends(Receiver, "recv", "not_connected", closes)
        /\ UNCHANGED got
  /\ UNCHANGED <<active, queue, peer, sent, acks, job, lost, ranges>>

\* A mapping is created from the description: from an incomplete one it is not.
Import ==
  /\ Calling(Receiver, "import")
  /\ \/ got = "whole" /\ Succeeds(Receiver, {"import"})
     \/ Ends(Receiver, "import", "error", {})
  /\ UNCHANGED <<active, network, job, lost, ranges>>
-----------------------------------------------------------------------------
\* The DMA job --------------------------------------------------------------

Submit(p) ==
  /\ Calling(p, "submit")
  /\ \/ job' = [job EXCEPT ![p] = "running"] /\ Succeeds(p, {"job"})
     \/ Ends(p, "submit", "error", {}) /\ UNCHANGED job
  /\ UNCHANGED <<active, network, lost, ranges>>

\* Whether the memory the job of p reads is still mapped.
SourceMapped(p) == p = Receiver => "mmap" \in held[peer]

\* The engine finishes.  From memory no longer mapped it may have read anything.
Engine(p) ==
  /\ job[p] = "running"
  /\ \E end \in {"copied", "failed"} \cup (IF SourceMapped(p) THEN {} ELSE {"torn"}) :
       job' = [job EXCEPT ![p] = end]
  /\ UNCHANGED <<active, at, held, undo, result, network, lost, ranges>>

\* Mutant of Retrieve: the event, which is all zeros when retrieving has failed,
\* decides alone.
RetrieveByEvent(p) ==
  /\ Calling(p, "retrieve")
  /\ \/ /\ job[p] # "running"
        /\ Ends(p, "retrieve", IF job[p] = "failed" THEN "error" ELSE "ok", {"job"})
        /\ UNCHANGED lost
     \/ Ends(p, "retrieve", "ok", {}) /\ lost' = lost \cup {p}
  /\ UNCHANGED <<active, network, job, ranges>>

\* The job's event is retrieved once it has finished, or retrieving fails.
Retrieve(p) ==
  /\ Calling(p, "retrieve")
  /\ \/ /\ job[p] # "running"
        /\ Ends(p, "retrieve", IF job[p] = "failed" THEN "error" ELSE "ok", {"job"})
        /\ UNCHANGED lost
     \/ Ends(p, "retrieve", "error", {}) /\ lost' = lost \cup {p}
  /\ UNCHANGED <<active, network, job, ranges>>
-----------------------------------------------------------------------------
SenderStep(s) == Call(s) \/ Connect(s) \/ Write(s) \/ Ack(s) \/ Release(s)
CopyStep(p) == Call(p) \/ Submit(p) \/ Retrieve(p) \/ Release(p)
ReceiverStep == CopyStep(Receiver) \/ Listen \/ Accept \/ Recv \/ Import
LocalStep == CopyStep(Local) \/ CheckArguments

Next == \/ \E s \in Senders : SenderStep(s)
        \/ ReceiverStep \/ LocalStep
        \/ \E p \in {Receiver, Local} : Engine(p)

\* Every program goes on when it can, and the engine finishes.
Fairness == /\ \A s \in Senders : WF_vars(SenderStep(s))
            /\ WF_vars(ReceiverStep) /\ WF_vars(LocalStep)
            /\ \A p \in {Receiver, Local} : WF_vars(Engine(p))

SafeSpec == Init /\ [][Next]_vars
Spec == SafeSpec /\ Fairness
-----------------------------------------------------------------------------
(***************************************************************************)
(* Whichever call fails, no object is released before those that use it:   *)
(* buffers before inventory and mapping, attachments before what they      *)
(* attach, and all of them after the job, unless its event was not         *)
(* retrieved.                                                              *)
(***************************************************************************)
ReleasedInOrder ==
  \A p \in Programs : \A o \in held[p] \ (IF p \in lost THEN {"job"} ELSE {}) :
    NeedsOf(p, o) \subseteq held[p]

(***************************************************************************)
(* A function that returns has released all it held, whichever call        *)
(* failed, except the receiver's socket when the failure came after it was *)
(* accepted, and a job that was never retrieved.                           *)
(***************************************************************************)
NothingLeaked ==
  \A p \in active : Returned(p) =>
    held[p] \subseteq (IF p = Receiver /\ result[p] # "ok" THEN {"fd"} ELSE {})
                      \cup (IF p \in lost THEN {"job"} ELSE {})

(***************************************************************************)
(* A sender that reports success may not have had its data copied: the     *)
(* receiver acknowledges after a failed job too.  But it is the sender     *)
(* that was accepted, the receiver has decided what it returns, and unless *)
(* the receiver failed to retrieve its event the job is over and was not   *)
(* disturbed: the sender does not unmap its memory under it.               *)
(***************************************************************************)
AckAfterCopy ==
  \A s \in Senders : result[s] = "ok" =>
    /\ peer = s /\ result[Receiver] \in {"ok", "error"}
    /\ Receiver \notin lost => job[Receiver] \in {"copied", "failed"}

(***************************************************************************)
(* A success of dma_local_copy means that the data were copied.  That of   *)
(* the receiver does unless the accepted sender gave up waiting and took   *)
(* the memory away; so a success of both sides means it.                   *)
(***************************************************************************)
OkIsCopied ==
  \A p \in {Receiver, Local} :
    result[p] = "ok" => \/ job[p] = "copied"
                        \/ /\ p = Receiver /\ job[p] = "torn"
                           /\ result[peer] = "not_connected"

(***************************************************************************)
(* Memory goes away under a running copy for two reasons only: the         *)
(* accepted sender did not wait for the acknowledgement, or the receiver   *)
(* sent it after failing to retrieve the event of its job.                 *)
(***************************************************************************)
TornWhy ==
  \A p \in {Receiver, Local} : job[p] = "torn" =>
    p = Receiver /\ (result[peer] = "not_connected" \/ Receiver \in lost)

\* dma_local_copy copies only between ranges that do not overlap.
CopiesDisjoint ==
  job[Local] # "none" =>
    ranges.dst .. ranges.dst + ranges.length - 1
      \cap ranges.src .. ranges.src + ranges.length - 1 = {}

\* Copies are sound: what each side's success means, when a copy can be
\* disturbed, and what may be copied.
CopySound == AckAfterCopy /\ OkIsCopied /\ TornWhy /\ CopiesDisjoint

(***************************************************************************)
(* Every sender returns, even if the receiver never accepts, fails without *)
(* closing the socket, or is slow.                                         *)
(***************************************************************************)
SenderReturns == \A s \in Senders : <>(s \in active => Returned(s))

\* Once it has accepted a sender the receiver returns, whatever the sender does.
ReceiverReturns == (peer # NoSender) ~> Returned(Receiver)

\* Neither side waits for ever for one that has failed.
BothReturn == SenderReturns /\ ReceiverReturns

=============================================================================

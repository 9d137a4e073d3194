-------------------------- MODULE RemoteCopyProofs --------------------------
(***************************************************************************)
(* The DMA programs release what they hold in an order that leaves nothing *)
(* in use behind, and what a success of either side says of the copy       *)
(* (CopySound) is so, for every set of senders and all ranges of memory.   *)
(*                                                                         *)
(* The order in which a program releases is one list of objects for each   *)
(* call that may fail.  The argument has two parts: facts about the lists, *)
(* checked position by position (ListHolds and UndoCovers), and an         *)
(* invariant that says where in its list a program is (CopyInv).           *)
(***************************************************************************)
EXTENDS RemoteCopy, SequenceTheorems, TLAPS

Items(u) == {u[i] : i \in DOMAIN u}

\* What goes with the release of o, and with all those of a list.
Releases(o) == {o} \cup IF o = "mmap" THEN {"mmapDev"} ELSE {}
ReleasedBy(u) == UNION {Releases(o) : o \in Items(u)}

\* What a call that succeeds leaves to be released.
Gets(c) == CASE c \in {"connect", "accept"} -> {"fd"}
             [] c = "submit" -> {"job"}
             [] OTHER -> {c} \cap Objects

\* What p holds when its next call is the k-th: of the receiver, the listening
\* socket only until the next call, which is accept.
HeldAt(p, k) == {o \in Objects : \E i \in 1 .. k - 1 :
                   o \in Gets(Calls(p)[i]) /\ (o = "listen" => i = k - 1)}

\* What a failing call of p closes by itself, or leaves open.
Closes(p, c) == CASE c = "accept" -> {"listen"}
                  [] c = "retrieve" -> {"job"}
                  [] p = Receiver /\ c \in {"recv", "import", "srcBuf", "dstBuf", "submit"} -> {"fd"}
                  [] OTHER -> {}

\* Nothing in the list is released before something that needs it.
InOrder(p, u) == \A i, j \in DOMAIN u : i < j =>
                   \A o \in Releases(u[j]) : u[i] \notin NeedsOf(p, o)
-----------------------------------------------------------------------------
\* The invariant ------------------------------------------------------------

Results == {"none", "ok", "error", "not_connected"}
JobStates == {"none", "running", "copied", "failed", "torn"}
Copiers == {Receiver, Local}

CopyTypes ==
  /\ at \in [Programs -> Nat] /\ held \in [Programs -> SUBSET Objects]
  /\ undo \in [Programs -> Seq(Objects)] /\ result \in [Programs -> Results]
  /\ job \in [Programs -> JobStates] /\ lost \subseteq Copiers
  /\ queue \subseteq Senders /\ peer \in Senders \cup {NoSender} /\ acks \subseteq {peer} \cap Senders
  /\ ranges \in [dst : Nat, src : Nat, length : Nat]

\* A program that has not returned holds what its calls have given it.
Running(p) ==
  result[p] = "none" => /\ at[p] \in 1 .. Len(Calls(p))
                        /\ held[p] = HeldAt(p, at[p]) /\ undo[p] = <<>>

\* What is never released: the receiver's socket when it fails between accept
\* and the end of its job, and a job whose event was not retrieved.
Kept(p) == (IF p = Receiver /\ result[p] # "ok" THEN {"fd"} ELSE {})
           \cup (IF p \in lost THEN {"job"} ELSE {})

\* All else that a program holds which returns is on the list of its releases.
Undoing(p) ==
  result[p] # "none" => held[p] \subseteq ReleasedBy(undo[p]) \cup Kept(p) /\ InOrder(p, undo[p])

NeedsHeld(p) == \A o \in held[p] \ (IF p \in lost THEN {"job"} ELSE {}) : NeedsOf(p, o) \subseteq held[p]

HoldsInv == \A p \in Programs : Running(p) /\ Undoing(p) /\ NeedsHeld(p)

\* A sender in the queue or accepted has connected, and is not the receiver's
\* peer before that has accepted.
Connected ==
  /\ \A s \in Senders : s \in queue \cup {peer} => at[s] > 7 /\ result[s] # "error"
  /\ at[Receiver] > 15 => peer \in Senders

\* The acknowledgement is sent by a receiver whose job is over.
JobOver == /\ result[Receiver] \in {"ok", "error"} /\ peer \in Senders
           /\ Receiver \in lost \/ job[Receiver] \in {"copied", "failed", "torn"}
Acknowledged ==
  /\ acks # {} \/ "fd" \in Items(undo[Receiver]) => JobOver
  /\ \A s \in Senders : result[s] = "ok" => s \in acks

\* A program has a job when it has come to the end of its calls; what it returns
\* then is what became of the job.
JobsInv ==
  \A p \in Copiers :
    /\ at[p] <= Len(Calls(p))
    /\ job[p] # "none" => at[p] = Len(Calls(p))
    /\ result[p] = "none" /\ at[p] = Len(Calls(p)) => job[p] # "none"
    /\ p \in lost => result[p] = "error"
    /\ result[p] = "ok" => job[p] \in {"copied", "torn"}
    /\ job[p] = "torn" => p = Receiver

\* Memory is taken away under a running copy only by a sender that gave up.
Torn == job[Receiver] = "torn" /\ Receiver \notin lost => result[peer] = "not_connected"

\* The local copy has checked its ranges before anything else.
Checked == at[Local] > 1 => ~memory_ranges_overlap(ranges)

CopyInv == CopyTypes /\ HoldsInv /\ Connected /\ Acknowledged /\ JobsInv /\ Torn /\ Checked
-----------------------------------------------------------------------------
\* The lists of calls, position by position -------------------------------------

LEMMA CoreList ==
  /\ Len(Core) = 13 /\ DOMAIN Core = 1 .. 13
  /\ Core[1] = "dev" /\ Core[2] = "mmap" /\ Core[3] = "inventory"
  /\ Core[4] = "dma" /\ Core[5] = "workq" /\ Core[6] = "chunks"
  /\ Core[7] = "mmapStart" /\ Core[8] = "mmapDev" /\ Core[9] = "inventoryStart"
  /\ Core[10] = "ctxDev" /\ Core[11] = "ctxStart" /\ Core[12] = "ctxWorkq"
  /\ Core[13] = "populate"
  BY DEF Core, create_core_objects, init_core_objects

LEMMA SenderList ==
  /\ Len(SenderCalls) = 9 /\ DOMAIN SenderCalls = 1 .. 9
  /\ SenderCalls[1] = "dev" /\ SenderCalls[2] = "mmap" /\ SenderCalls[3] = "mmapStart"
  /\ SenderCalls[4] = "mmapDev" /\ SenderCalls[5] = "populate" /\ SenderCalls[6] = "export"
  /\ SenderCalls[7] = "connect" /\ SenderCalls[8] = "write" /\ SenderCalls[9] = "ack"
  BY DEF SenderCalls

LEMMA ReceiverList ==
  /\ Len(ReceiverCalls) = 21 /\ DOMAIN ReceiverCalls = 1 .. 21
  /\ ReceiverCalls[1] = "dev" /\ ReceiverCalls[2] = "mmap" /\ ReceiverCalls[3] = "inventory"
  /\ ReceiverCalls[4] = "dma" /\ ReceiverCalls[5] = "workq" /\ ReceiverCalls[6] = "chunks"
  /\ ReceiverCalls[7] = "mmapStart" /\ ReceiverCalls[8] = "mmapDev" /\ ReceiverCalls[9] = "inventoryStart"
  /\ ReceiverCalls[10] = "ctxDev" /\ ReceiverCalls[11] = "ctxStart" /\ ReceiverCalls[12] = "ctxWorkq"
  /\ ReceiverCalls[13] = "populate" /\ ReceiverCalls[14] = "listen" /\ ReceiverCalls[15] = "accept"
  /\ ReceiverCalls[16] = "recv" /\ ReceiverCalls[17] = "import" /\ ReceiverCalls[18] = "srcBuf"
  /\ ReceiverCalls[19] = "dstBuf" /\ ReceiverCalls[20] = "submit" /\ ReceiverCalls[21] = "retrieve"
  BY DEF ReceiverCalls, Core, create_core_objects, init_core_objects

LEMMA LocalList ==
  /\ Len(LocalCalls) = 18 /\ DOMAIN LocalCalls = 1 .. 18
  /\ LocalCalls[1] = "arguments" /\ LocalCalls[2] = "dev" /\ LocalCalls[3] = "mmap"
  /\ LocalCalls[4] = "inventory" /\ LocalCalls[5] = "dma" /\ LocalCalls[6] = "workq"
  /\ LocalCalls[7] = "chunks" /\ LocalCalls[8] = "mmapStart" /\ LocalCalls[9] = "mmapDev"
  /\ LocalCalls[10] = "inventoryStart" /\ LocalCalls[11] = "ctxDev" /\ LocalCalls[12] = "ctxStart"
  /\ LocalCalls[13] = "ctxWorkq" /\ LocalCalls[14] = "populate" /\ LocalCalls[15] = "srcBuf"
  /\ LocalCalls[16] = "dstBuf" /\ LocalCalls[17] = "submit" /\ LocalCalls[18] = "retrieve"
  BY DEF LocalCalls, Core, create_core_objects, init_core_objects

LEMMA CallsOf ==
  /\ \A s \in Senders : Calls(s) = SenderCalls
  /\ Calls(Receiver) = ReceiverCalls /\ Calls(Local) = LocalCalls
  BY ProgramsAssumption DEF Calls

LEMMA HeldFrom ==
  ASSUME NEW p, NEW k \in Nat, NEW i \in 1 .. k - 1, NEW o \in Objects \ {"listen"}, o \in Gets(Calls(p)[i])
  PROVE  o \in HeldAt(p, k)
  BY DEF HeldAt

LEMMA ListLengths ==
  \A p \in Programs : Len(Calls(p)) = IF p = Receiver THEN 21 ELSE IF p = Local THEN 18 ELSE 9
<1>1. \A s \in Senders : Len(Calls(s)) = 9 /\ s # Receiver /\ s # Local
  BY ProgramsAssumption, CallsOf, SenderList
<1>2. Len(Calls(Receiver)) = 21 /\ Len(Calls(Local)) = 18 /\ Receiver # Local
  BY ProgramsAssumption, CallsOf, ReceiverList, LocalList
<1> QED
  BY <1>1, <1>2 DEF Programs

\* What needs something, and what it needs.
LEMMA NeedsTable ==
  /\ NeedsOf(Receiver, "srcBuf") = {"inventory", "import"} /\ NeedsOf(Local, "srcBuf") = {"inventory"}
  /\ \A p \in Programs :
       /\ NeedsOf(p, "mmapDev") = {"dev"} /\ NeedsOf(p, "ctxDev") = {"dma", "dev"}
       /\ NeedsOf(p, "ctxStart") = {"dma"} /\ NeedsOf(p, "ctxWorkq") = {"dma", "workq", "ctxStart"}
       /\ NeedsOf(p, "import") = {"dev"} /\ NeedsOf(p, "dstBuf") = {"inventory", "mmap"}
       /\ NeedsOf(p, "job") = {"srcBuf", "dstBuf", "ctxWorkq"}
       /\ \A o : o \notin {"mmapDev", "ctxDev", "ctxStart", "ctxWorkq", "import", "srcBuf", "dstBuf", "job"} =>
            NeedsOf(p, o) = {}
  BY ProgramsAssumption DEF NeedsOf, Needs

\* When a call gives a program something, it holds what that needs.
LEMMA ReceiverHolds ==
  \A k \in 1 .. 21 : \A o \in HeldAt(Receiver, k) : NeedsOf(Receiver, o) \subseteq HeldAt(Receiver, k)
<1> SUFFICES ASSUME NEW k \in 1 .. 21, NEW o \in HeldAt(Receiver, k)
             PROVE  NeedsOf(Receiver, o) \subseteq HeldAt(Receiver, k)
  OBVIOUS
<1> DEFINE H == HeldAt(Receiver, k)
<1>0. k \in Nat /\ Receiver \in Programs
  BY DEF Programs
<1>1. /\ "dev" \in Gets(ReceiverCalls[1]) /\ "mmap" \in Gets(ReceiverCalls[2])
      /\ "inventory" \in Gets(ReceiverCalls[3]) /\ "dma" \in Gets(ReceiverCalls[4])
      /\ "workq" \in Gets(ReceiverCalls[5]) /\ "ctxStart" \in Gets(ReceiverCalls[11])
      /\ "ctxWorkq" \in Gets(ReceiverCalls[12]) /\ "import" \in Gets(ReceiverCalls[17])
      /\ "srcBuf" \in Gets(ReceiverCalls[18]) /\ "dstBuf" \in Gets(ReceiverCalls[19])
  BY ReceiverList DEF Gets, Objects
<1>2. /\ k > 1 => "dev" \in H
      /\ k > 2 => "mmap" \in H
      /\ k > 3 => "inventory" \in H
      /\ k > 4 => "dma" \in H
      /\ k > 5 => "workq" \in H
      /\ k > 11 => "ctxStart" \in H
      /\ k > 12 => "ctxWorkq" \in H
      /\ k > 17 => "import" \in H
      /\ k > 18 => "srcBuf" \in H
      /\ k > 19 => "dstBuf" \in H
  BY <1>0, <1>1, CallsOf, HeldFrom DEF Objects
<1>3. PICK i \in 1 .. k - 1 : o \in Gets(ReceiverCalls[i])
  BY CallsOf DEF HeldAt
<1>4. /\ o = "mmapDev" => k > 8
      /\ o = "ctxDev" => k > 10
      /\ o = "ctxStart" => k > 11
      /\ o = "ctxWorkq" => k > 12
      /\ o = "import" => k > 17
      /\ o = "srcBuf" => k > 18
      /\ o = "dstBuf" => k > 19
      /\ o = "job" => k > 20
  BY <1>3, ReceiverList DEF Gets, Objects
<1> HIDE DEF H
<1> QED
  BY <1>0, <1>2, <1>4, NeedsTable DEF H

LEMMA LocalHolds ==
  \A k \in 1 .. 18 : \A o \in HeldAt(Local, k) : NeedsOf(Local, o) \subseteq HeldAt(Local, k)
<1> SUFFICES ASSUME NEW k \in 1 .. 18, NEW o \in HeldAt(Local, k)
             PROVE  NeedsOf(Local, o) \subseteq HeldAt(Local, k)
  OBVIOUS
<1> DEFINE H == HeldAt(Local, k)
<1>0. k \in Nat /\ Local \in Programs
  BY DEF Programs
<1>1. /\ "dev" \in Gets(LocalCalls[2]) /\ "mmap" \in Gets(LocalCalls[3])
      /\ "inventory" \in Gets(LocalCalls[4]) /\ "dma" \in Gets(LocalCalls[5])
      /\ "workq" \in Gets(LocalCalls[6]) /\ "ctxStart" \in Gets(LocalCalls[12])
      /\ "ctxWorkq" \in Gets(LocalCalls[13])
      /\ "srcBuf" \in Gets(LocalCalls[15]) /\ "dstBuf" \in Gets(LocalCalls[16])
  BY LocalList DEF Gets, Objects
<1>2. /\ k > 2 => "dev" \in H
      /\ k > 3 => "mmap" \in H
      /\ k > 4 => "inventory" \in H
      /\ k > 5 => "dma" \in H
      /\ k > 6 => "workq" \in H
      /\ k > 12 => "ctxStart" \in H
      /\ k > 13 => "ctxWorkq" \in H
      /\ k > 15 => "srcBuf" \in H
      /\ k > 16 => "dstBuf" \in H
  BY <1>0, <1>1, CallsOf, HeldFrom DEF Objects
<1>3. PICK i \in 1 .. k - 1 : o \in Gets(LocalCalls[i])
  BY CallsOf DEF HeldAt
<1>4. /\ o = "mmapDev" => k > 9
      /\ o = "ctxDev" => k > 11
      /\ o = "ctxStart" => k > 12
      /\ o = "ctxWorkq" => k > 13
      /\ o # "import"
      /\ o = "srcBuf" => k > 15
      /\ o = "dstBuf" => k > 16
      /\ o = "job" => k > 17
  BY <1>3, LocalList DEF Gets, Objects
<1> HIDE DEF H
<1> QED
  BY <1>0, <1>2, <1>4, NeedsTable DEF H

LEMMA SenderHolds ==
  \A s \in Senders : \A k \in 1 .. 9 : \A o \in HeldAt(s, k) : NeedsOf(s, o) \subseteq HeldAt(s, k)
<1> SUFFICES ASSUME NEW s \in Senders, NEW k \in 1 .. 9, NEW o \in HeldAt(s, k)
             PROVE  NeedsOf(s, o) \subseteq HeldAt(s, k)
  OBVIOUS
<1>1. k \in Nat /\ s \in Programs
  BY DEF Programs
<1>2. PICK i \in 1 .. k - 1 : o \in Gets(SenderCalls[i])
  BY CallsOf DEF HeldAt
<1>3. o \in {"dev", "mmap", "mmapDev", "export", "fd"} /\ k > 1
  BY <1>2, SenderList DEF Gets, Objects
<1>4. "dev" \in HeldAt(s, k)
  <2>1. "dev" \in Gets(SenderCalls[1])
    BY SenderList DEF Gets, Objects
  <2> QED
    BY <1>1, <1>3, <2>1, CallsOf, HeldFrom DEF Objects
<1> QED
  BY <1>1, <1>3, <1>4, NeedsTable

LEMMA ListHolds ==
  \A p \in Programs : \A k \in 1 .. Len(Calls(p)) : \A o \in HeldAt(p, k) :
    NeedsOf(p, o) \subseteq HeldAt(p, k)
<1>1. \A s \in Senders : \A k \in 1 .. Len(Calls(s)) : \A o \in HeldAt(s, k) : NeedsOf(s, o) \subseteq HeldAt(s, k)
  BY CallsOf, SenderHolds, SenderList
<1>2. \A k \in 1 .. Len(Calls(Receiver)) : \A o \in HeldAt(Receiver, k) : NeedsOf(Receiver, o) \subseteq HeldAt(Receiver, k)
  BY CallsOf, ReceiverHolds, ReceiverList
<1>3. \A k \in 1 .. Len(Calls(Local)) : \A o \in HeldAt(Local, k) : NeedsOf(Local, o) \subseteq HeldAt(Local, k)
  BY CallsOf, LocalHolds, LocalList
<1> QED
  BY <1>1, <1>2, <1>3, Zenon DEF Programs
-----------------------------------------------------------------------------
\* The lists of releases ---------------------------------------------------------

LEMMA ItemsOfConcat ==
  ASSUME NEW a \in Seq(Objects), NEW b \in Seq(Objects)
  PROVE  Items(a \o b) = Items(a) \cup Items(b)
<1>1. ASSUME NEW i \in DOMAIN a PROVE a[i] \in Items(a \o b)
  <2>1. i \in DOMAIN (a \o b) /\ (a \o b)[i] = a[i]
    OBVIOUS
  <2> QED
    BY <2>1 DEF Items
<1>2. ASSUME NEW i \in DOMAIN b PROVE b[i] \in Items(a \o b)
  <2>1. Len(a) + i \in DOMAIN (a \o b) /\ (a \o b)[Len(a) + i] = b[i]
    OBVIOUS
  <2> QED
    BY <2>1 DEF Items
<1>3. ASSUME NEW i \in DOMAIN (a \o b) PROVE (a \o b)[i] \in Items(a) \cup Items(b)
  BY DEF Items
<1> QED
  BY <1>1, <1>2, <1>3 DEF Items

\* Two lists in order make one if nothing of the second needs one of the first.
LEMMA InOrderConcat ==
  ASSUME NEW p, NEW a \in Seq(Objects), NEW b \in Seq(Objects), InOrder(p, a), InOrder(p, b),
         \A x \in Items(a), y \in Items(b) : \A o \in Releases(y) : x \notin NeedsOf(p, o)
  PROVE  InOrder(p, a \o b)
<1> SUFFICES ASSUME NEW i \in DOMAIN (a \o b), NEW j \in DOMAIN (a \o b), i < j,
                    NEW o \in Releases((a \o b)[j])
             PROVE  (a \o b)[i] \notin NeedsOf(p, o)
  BY DEF InOrder
<1>1. CASE j \in DOMAIN a
  <2>1. i \in DOMAIN a /\ (a \o b)[i] = a[i] /\ (a \o b)[j] = a[j]
    BY <1>1
  <2> QED
    BY <1>1, <2>1 DEF InOrder
<1>2. CASE i \notin DOMAIN a
  <2>1. /\ i - Len(a) \in DOMAIN b /\ j - Len(a) \in DOMAIN b /\ i - Len(a) < j - Len(a)
        /\ (a \o b)[i] = b[i - Len(a)] /\ (a \o b)[j] = b[j - Len(a)]
    BY <1>2
  <2> QED
    BY <2>1 DEF InOrder
<1>3. CASE i \in DOMAIN a /\ j \notin DOMAIN a
  <2>1. /\ j - Len(a) \in DOMAIN b
        /\ (a \o b)[i] = a[i] /\ (a \o b)[j] = b[j - Len(a)]
    BY <1>3
  <2> QED
    BY <1>3, <2>1 DEF Items
<1> QED
  BY <1>1, <1>2, <1>3

\* Lists of at most two objects.
LEMMA ShortLists ==
  /\ <<>> \in Seq(Objects) /\ Items(<<>>) = {} /\ \A p : InOrder(p, <<>>)
  /\ \A a : Items(<<a>>) = {a} /\ \A p : InOrder(p, <<a>>)
  /\ \A a, b : /\ Items(<<a, b>>) = {a, b}
               /\ \A p : (\A o \in Releases(b) : a \notin NeedsOf(p, o)) => InOrder(p, <<a, b>>)
<1>1. <<>> \in Seq(Objects) /\ Items(<<>>) = {} /\ \A p : InOrder(p, <<>>)
  BY EmptySeq DEF Items, InOrder
<1>2. \A a : Items(<<a>>) = {a} /\ \A p : InOrder(p, <<a>>)
  BY DEF Items, InOrder
<1>3. ASSUME NEW a, NEW b
      PROVE  /\ Items(<<a, b>>) = {a, b}
             /\ \A p : (\A o \in Releases(b) : a \notin NeedsOf(p, o)) => InOrder(p, <<a, b>>)
  BY DEF Items, InOrder
<1> QED
  BY <1>1, <1>2, <1>3

\* The parts that every list of a copier ends with.
LEMMA Parts4 ==
  /\ cleanup_core_objects \in Seq(Objects) /\ destroy_core_objects \in Seq(Objects)
  /\ Items(cleanup_core_objects) = {"ctxWorkq", "ctxStart", "ctxDev", "mmapDev"}
  /\ Items(destroy_core_objects) = {"workq", "dma", "inventory", "mmap", "dev"}
  /\ \A p \in Programs : InOrder(p, cleanup_core_objects) /\ InOrder(p, destroy_core_objects)
<1>1. cleanup_core_objects \in Seq(Objects) /\ destroy_core_objects \in Seq(Objects)
  BY DEF cleanup_core_objects, destroy_core_objects, Objects
<1>2. /\ Items(cleanup_core_objects) = {"ctxWorkq", "ctxStart", "ctxDev", "mmapDev"}
      /\ Items(destroy_core_objects) = {"workq", "dma", "inventory", "mmap", "dev"}
  BY DEF Items, cleanup_core_objects, destroy_core_objects
<1>3. ASSUME NEW p \in Programs
      PROVE  InOrder(p, cleanup_core_objects)
  BY NeedsTable DEF InOrder, cleanup_core_objects, Releases
<1>4. ASSUME NEW p \in Programs
      PROVE  InOrder(p, destroy_core_objects)
  BY NeedsTable DEF InOrder, destroy_core_objects, Releases
<1> QED
  BY <1>1, <1>2, <1>3, <1>4

\* The buffers and the socket, which go first.
Front(p, c) == BuffersUndo(p, c) \o (IF p = Receiver /\ c = "retrieve" THEN <<"fd">> ELSE <<>>)

FrontItems(p, c) ==
  (CASE c = "dstBuf" -> {"srcBuf"} [] c \in {"submit", "retrieve"} -> {"srcBuf", "dstBuf"} [] OTHER -> {})
  \cup (IF p = Receiver /\ c \in {"srcBuf", "dstBuf", "submit", "retrieve"} THEN {"import"} ELSE {})
  \cup (IF p = Receiver /\ c = "retrieve" THEN {"fd"} ELSE {})

LEMMA FrontParts ==
  \A p \in {Receiver, Local} : \A c :
    Front(p, c) \in Seq(Objects) /\ Items(Front(p, c)) = FrontItems(p, c) /\ InOrder(p, Front(p, c))
<1> SUFFICES ASSUME NEW p \in {Receiver, Local}, NEW c
             PROVE  Front(p, c) \in Seq(Objects) /\ Items(Front(p, c)) = FrontItems(p, c) /\ InOrder(p, Front(p, c))
  OBVIOUS
<1> DEFINE fd == IF p = Receiver /\ c = "retrieve" THEN <<"fd">> ELSE <<>>
           buffers == CASE c = "dstBuf" -> <<"srcBuf">> [] c = "submit" -> <<"dstBuf", "srcBuf">>
                        [] c = "retrieve" -> <<"srcBuf", "dstBuf">> [] OTHER -> <<>>
           imported == IF c \in {"srcBuf", "dstBuf", "submit", "retrieve"} THEN Imported(p) ELSE <<>>
<1>1. p \in Programs
  BY DEF Programs
<1>2. /\ fd \in Seq(Objects) /\ InOrder(p, fd)
      /\ Items(fd) = IF p = Receiver /\ c = "retrieve" THEN {"fd"} ELSE {}
  <2>1. CASE p = Receiver /\ c = "retrieve"
    BY <2>1, ShortLists DEF Objects
  <2>2. CASE ~(p = Receiver /\ c = "retrieve")
    BY <2>2, ShortLists
  <2> QED
    BY <2>1, <2>2
<1>3. /\ imported \in Seq(Objects) /\ InOrder(p, imported)
      /\ Items(imported) = IF p = Receiver /\ c \in {"srcBuf", "dstBuf", "submit", "retrieve"}
                             THEN {"import"} ELSE {}
  <2>1. CASE p = Receiver /\ c \in {"srcBuf", "dstBuf", "submit", "retrieve"}
    <3>1. imported = <<"import">>
      BY <2>1 DEF Imported
    <3> QED
      BY <2>1, <3>1, ShortLists DEF Objects
  <2>2. CASE ~(p = Receiver /\ c \in {"srcBuf", "dstBuf", "submit", "retrieve"})
    <3>1. imported = <<>>
      BY <2>2 DEF Imported
    <3> QED
      BY <2>2, <3>1, ShortLists
  <2> QED
    BY <2>1, <2>2
<1>4. /\ buffers \in Seq(Objects) /\ InOrder(p, buffers)
      /\ Items(buffers) = CASE c = "dstBuf" -> {"srcBuf"} [] c \in {"submit", "retrieve"} -> {"srcBuf", "dstBuf"}
                            [] OTHER -> {}
  <2>1. \A a, b \in {"srcBuf", "dstBuf"} : \A o \in Releases(b) : a \notin NeedsOf(p, o)
    BY <1>1, NeedsTable, ProgramsAssumption DEF Releases
  <2>2. CASE c = "dstBuf"
    BY <2>2, ShortLists DEF Objects
  <2>3. CASE c = "submit"
    BY <2>1, <2>3, ShortLists DEF Objects
  <2>4. CASE c = "retrieve"
    BY <2>1, <2>4, ShortLists DEF Objects
  <2>5. CASE c \notin {"dstBuf", "submit", "retrieve"}
    BY <2>5, ShortLists
  <2> QED
    BY <2>2, <2>3, <2>4, <2>5
<1> HIDE DEF fd, imported, buffers
<1>6. BuffersUndo(p, c) = buffers \o imported
  BY ConcatEmptySeq, <1>3 DEF BuffersUndo, buffers, imported
<1>7. InOrder(p, buffers \o imported) /\ Items(buffers \o imported) = Items(buffers) \cup Items(imported)
      /\ buffers \o imported \in Seq(Objects)
  <2>1. \A x \in Items(buffers), y \in Items(imported) : \A o \in Releases(y) : x \notin NeedsOf(p, o)
    BY <1>1, <1>3, <1>4, NeedsTable DEF Releases
  <2> QED
    BY <1>3, <1>4, <2>1, InOrderConcat, ItemsOfConcat
<1>8. \A x, y : y \in Items(fd) => \A o \in Releases(y) : x \notin NeedsOf(p, o)
  BY <1>1, <1>2, NeedsTable DEF Releases
<1>9. Front(p, c) = (buffers \o imported) \o fd
  BY <1>6 DEF Front, fd
<1>10. InOrder(p, Front(p, c)) /\ Front(p, c) \in Seq(Objects)
       /\ Items(Front(p, c)) = Items(buffers \o imported) \cup Items(fd)
  <2> DEFINE first == buffers \o imported
  <2>1. \A x \in Items(first), y \in Items(fd) : \A o \in Releases(y) : x \notin NeedsOf(p, o)
    BY <1>8
  <2> HIDE DEF first
  <2>2. InOrder(p, first) /\ first \in Seq(Objects)
    BY <1>7 DEF first
  <2>3. InOrder(p, first \o fd)
    BY <1>2, <2>1, <2>2, InOrderConcat
  <2>4. Items(first \o fd) = Items(first) \cup Items(fd)
    BY <1>2, <2>2, ItemsOfConcat
  <2>5. first \o fd \in Seq(Objects)
    BY <1>2, <2>2
  <2> QED
    BY <1>9, <2>3, <2>4, <2>5 DEF first
<1> QED
  BY <1>2, <1>3, <1>4, <1>7, <1>10 DEF FrontItems

\* What a copier releases when its call c has failed, or was the last.
UndoItems(p, c) ==
  CASE c \in {"arguments", "dev"} -> {}
    [] c \in {"mmap", "inventory", "dma", "workq"} -> {"workq", "dma", "inventory", "mmap", "dev"}
    [] OTHER -> FrontItems(p, c) \cup {"ctxWorkq", "ctxStart", "ctxDev", "mmapDev",
                                       "workq", "dma", "inventory", "mmap", "dev"}

LEMMA CopierUndo ==
  \A p \in {Receiver, Local} : \A c :
    /\ UndoAfter(p, c) \in Seq(Objects) /\ InOrder(p, UndoAfter(p, c))
    /\ Items(UndoAfter(p, c)) = UndoItems(p, c)
<1> SUFFICES ASSUME NEW p \in {Receiver, Local}, NEW c
             PROVE  /\ UndoAfter(p, c) \in Seq(Objects) /\ InOrder(p, UndoAfter(p, c))
                    /\ Items(UndoAfter(p, c)) = UndoItems(p, c)
  OBVIOUS
<1>1. p \in Programs /\ p \notin Senders
  BY ProgramsAssumption DEF Programs
<1>2. {create_core_objects[k] : k \in DOMAIN create_core_objects} = {"mmap", "inventory", "dma", "workq"}
  BY DEF create_core_objects
<1>3. CASE c \in {"arguments", "dev"}
  <2>1. UndoAfter(p, c) = <<>>
    BY <1>1, <1>2, <1>3 DEF UndoAfter
  <2> QED
    BY <1>3, <2>1, ShortLists DEF UndoItems
<1>4. CASE c \in {"mmap", "inventory", "dma", "workq"}
  <2>1. UndoAfter(p, c) = destroy_core_objects
    BY <1>1, <1>2, <1>4 DEF UndoAfter
  <2> QED
    BY <1>1, <1>4, <2>1, Parts4 DEF UndoItems
<1>5. CASE c \notin {"arguments", "dev", "mmap", "inventory", "dma", "workq"}
  <2> DEFINE cleaned == Front(p, c) \o cleanup_core_objects
  <2>1. UndoAfter(p, c) = cleaned \o destroy_core_objects
    BY <1>1, <1>2, <1>5 DEF UndoAfter, Front
  <2>2. /\ cleaned \in Seq(Objects) /\ InOrder(p, cleaned)
        /\ Items(cleaned) = FrontItems(p, c) \cup {"ctxWorkq", "ctxStart", "ctxDev", "mmapDev"}
    <3>1. \A x \in FrontItems(p, c), y \in {"ctxWorkq", "ctxStart", "ctxDev", "mmapDev"} :
            \A o \in Releases(y) : x \notin NeedsOf(p, o)
      BY <1>1, NeedsTable DEF Releases, FrontItems
    <3> QED
      BY <1>1, <3>1, Parts4, FrontParts, InOrderConcat, ItemsOfConcat
  <2>3. \A x \in Items(cleaned), y \in {"workq", "dma", "inventory", "mmap", "dev"} :
          \A o \in Releases(y) : x \notin NeedsOf(p, o)
    BY <1>1, <2>2, NeedsTable DEF Releases, FrontItems
  <2> HIDE DEF cleaned
  <2>4. InOrder(p, cleaned \o destroy_core_objects)
    BY <1>1, <2>2, <2>3, Parts4, InOrderConcat
  <2>5. Items(cleaned \o destroy_core_objects) = Items(cleaned) \cup Items(destroy_core_objects)
    BY <2>2, Parts4, ItemsOfConcat
  <2>6. cleaned \o destroy_core_objects \in Seq(Objects)
    BY <2>2, Parts4
  <2> QED
    BY <1>5, <2>1, <2>2, <2>4, <2>5, <2>6, Parts4 DEF UndoItems
<1> QED
  BY <1>3, <1>4, <1>5

\* The same of a sender.
SenderUndoItems(c) == CASE c = "dev" -> {}
                        [] c \in {"connect", "write", "ack"} -> {"fd", "mmap", "dev", "export"}
                        [] OTHER -> {"mmap", "dev"}

LEMMA SenderUndo ==
  \A s \in Senders, c \in Items(SenderCalls) :
    /\ UndoAfter(s, c) \in Seq(Objects) /\ InOrder(s, UndoAfter(s, c))
    /\ Items(UndoAfter(s, c)) = SenderUndoItems(c)
<1> SUFFICES ASSUME NEW s \in Senders, NEW c \in Items(SenderCalls)
             PROVE  /\ UndoAfter(s, c) \in Seq(Objects) /\ InOrder(s, UndoAfter(s, c))
                    /\ Items(UndoAfter(s, c)) = SenderUndoItems(c)
  OBVIOUS
<1> DEFINE both == <<"mmap", "dev">>
<1>1. s \in Programs /\ c # "arguments"
  BY SenderList DEF Programs, Items
<1>2. both \in Seq(Objects) /\ Items(both) = {"mmap", "dev"} /\ InOrder(s, both)
  BY <1>1, ShortLists, NeedsTable DEF Objects, Releases
<1>3. CASE c = "dev"
  <2>1. UndoAfter(s, c) = <<>>
    BY <1>3 DEF UndoAfter
  <2> QED
    BY <1>3, <2>1, ShortLists DEF SenderUndoItems
<1>4. CASE c \in {"connect", "write", "ack"}
  <2> DEFINE first == <<"fd">> \o both
  <2>1. UndoAfter(s, c) = first \o <<"export">>
    BY <1>1, <1>4 DEF UndoAfter, destroy_core_objects_sender
  <2>2. first \in Seq(Objects) /\ Items(first) = {"fd", "mmap", "dev"} /\ InOrder(s, first)
    <3>1. <<"fd">> \in Seq(Objects) /\ Items(<<"fd">>) = {"fd"} /\ InOrder(s, <<"fd">>)
      BY ShortLists DEF Objects
    <3>2. \A x \in Items(<<"fd">>), y \in Items(both) : \A o \in Releases(y) : x \notin NeedsOf(s, o)
      BY <1>1, <1>2, <3>1, NeedsTable DEF Releases
    <3> HIDE DEF both
    <3>3. InOrder(s, first)
      BY <1>2, <3>1, <3>2, InOrderConcat
    <3>4. Items(first) = Items(<<"fd">>) \cup Items(both)
      BY <1>2, <3>1, ItemsOfConcat
    <3>5. first \in Seq(Objects)
      BY <1>2, <3>1
    <3> QED
      BY <1>2, <3>1, <3>3, <3>4, <3>5
  <2> HIDE DEF first
  <2>3. \A x \in Items(first), y \in {"export"} : \A o \in Releases(y) : x \notin NeedsOf(s, o)
    BY <1>1, NeedsTable DEF Releases
  <2>4. <<"export">> \in Seq(Objects) /\ Items(<<"export">>) = {"export"} /\ InOrder(s, <<"export">>)
    BY ShortLists DEF Objects
  <2>5. InOrder(s, first \o <<"export">>)
    BY <2>2, <2>3, <2>4, InOrderConcat
  <2>6. Items(first \o <<"export">>) = Items(first) \cup Items(<<"export">>)
    BY <2>2, <2>4, ItemsOfConcat
  <2>7. first \o <<"export">> \in Seq(Objects)
    BY <2>2, <2>4
  <2> QED
    BY <1>4, <2>1, <2>2, <2>4, <2>5, <2>6, <2>7 DEF SenderUndoItems
<1>5. CASE c \notin {"dev", "connect", "write", "ack"}
  <2>1. UndoAfter(s, c) = both
    BY <1>1, <1>5 DEF UndoAfter, destroy_core_objects_sender
  <2> QED
    BY <1>2, <1>5, <2>1 DEF SenderUndoItems
<1> QED
  BY <1>3, <1>4, <1>5

\* When its k-th call fails, or is the last, what a program holds is on the list
\* of its releases, but for what the call closes or leaves.
LEMMA ReceiverCovers ==
  \A k \in 1 .. 21 : LET c == ReceiverCalls[k]
                     IN  HeldAt(Receiver, k) \subseteq ReleasedBy(UndoAfter(Receiver, c)) \cup Closes(Receiver, c)
<1> SUFFICES ASSUME NEW k \in 1 .. 21, NEW o \in HeldAt(Receiver, k)
             PROVE  o \in ReleasedBy(UndoAfter(Receiver, ReceiverCalls[k])) \cup Closes(Receiver, ReceiverCalls[k])
  OBVIOUS
<1> DEFINE c == ReceiverCalls[k]
<1>1. PICK i \in 1 .. k - 1 : o \in Gets(ReceiverCalls[i]) /\ (o = "listen" => i = k - 1)
  BY CallsOf DEF HeldAt
<1>2. o \in UndoItems(Receiver, c) \/ o \in Closes(Receiver, c)
  <2>1. CASE k \in 1 .. 5
    BY <1>1, <2>1, ReceiverList DEF Gets, Objects, UndoItems
  <2>2. CASE k \in 6 .. 14
    BY <1>1, <2>2, ReceiverList DEF Gets, Objects, UndoItems
  <2>3. CASE k = 15
    BY <1>1, <2>3, ReceiverList DEF Gets, Objects, UndoItems, Closes
  <2>4. CASE k \in 16 .. 18
    BY <1>1, <2>4, ReceiverList DEF Gets, Objects, UndoItems, Closes, FrontItems
  <2>5. CASE k \in 19 .. 21
    BY <1>1, <2>5, ReceiverList DEF Gets, Objects, UndoItems, Closes, FrontItems
  <2> QED
    BY <2>1, <2>2, <2>3, <2>4, <2>5
<1>3. \A x \in UndoItems(Receiver, c) : x \in ReleasedBy(UndoAfter(Receiver, c))
  BY CopierUndo DEF ReleasedBy, Releases
<1> QED
  BY <1>2, <1>3

LEMMA LocalCovers ==
  \A k \in 1 .. 18 : LET c == LocalCalls[k]
                     IN  HeldAt(Local, k) \subseteq ReleasedBy(UndoAfter(Local, c)) \cup Closes(Local, c)
<1> SUFFICES ASSUME NEW k \in 1 .. 18, NEW o \in HeldAt(Local, k)
             PROVE  o \in ReleasedBy(UndoAfter(Local, LocalCalls[k])) \cup Closes(Local, LocalCalls[k])
  OBVIOUS
<1> DEFINE c == LocalCalls[k]
<1>1. PICK i \in 1 .. k - 1 : o \in Gets(LocalCalls[i])
  BY CallsOf DEF HeldAt
<1>2. o \in UndoItems(Local, c) \/ o \in Closes(Local, c)
  <2>1. CASE k \in 1 .. 6
    BY <1>1, <2>1, LocalList DEF Gets, Objects, UndoItems
  <2>2. CASE k \in 7 .. 14
    BY <1>1, <2>2, LocalList DEF Gets, Objects, UndoItems
  <2>3. CASE k \in 15 .. 18
    BY <1>1, <2>3, LocalList DEF Gets, Objects, UndoItems, Closes, FrontItems
  <2> QED
    BY <2>1, <2>2, <2>3
<1>3. \A x \in UndoItems(Local, c) : x \in ReleasedBy(UndoAfter(Local, c))
  BY CopierUndo DEF ReleasedBy, Releases
<1> QED
  BY <1>2, <1>3

LEMMA SenderCovers ==
  \A s \in Senders, k \in 1 .. 9 : HeldAt(s, k) \subseteq ReleasedBy(UndoAfter(s, SenderCalls[k]))
<1> SUFFICES ASSUME NEW s \in Senders, NEW k \in 1 .. 9, NEW o \in HeldAt(s, k)
             PROVE  o \in ReleasedBy(UndoAfter(s, SenderCalls[k]))
  OBVIOUS
<1> DEFINE c == SenderCalls[k]
<1>1. PICK i \in 1 .. k - 1 : o \in Gets(SenderCalls[i])
  BY CallsOf DEF HeldAt
<1>2. o \in SenderUndoItems(c) \/ (o = "mmapDev" /\ "mmap" \in SenderUndoItems(c))
  BY <1>1, SenderList DEF Gets, Objects, SenderUndoItems
<1>3. c \in Items(SenderCalls)
  BY SenderList DEF Items
<1> HIDE DEF c
<1>4. Items(UndoAfter(s, c)) = SenderUndoItems(c)
  BY <1>3, SenderUndo
<1>5. o \in ReleasedBy(UndoAfter(s, c))
  BY <1>2, <1>4 DEF ReleasedBy, Releases
<1> QED
  BY <1>5 DEF c

LEMMA UndoCovers ==
  \A p \in Programs : \A k \in 1 .. Len(Calls(p)) : LET c == Calls(p)[k] IN
    /\ UndoAfter(p, c) \in Seq(Objects) /\ InOrder(p, UndoAfter(p, c))
    /\ HeldAt(p, k) \subseteq ReleasedBy(UndoAfter(p, c)) \cup Closes(p, c)
<1> SUFFICES ASSUME NEW p \in Programs, NEW k \in 1 .. Len(Calls(p))
             PROVE  LET c == Calls(p)[k] IN
                    /\ UndoAfter(p, c) \in Seq(Objects) /\ InOrder(p, UndoAfter(p, c))
                    /\ HeldAt(p, k) \subseteq ReleasedBy(UndoAfter(p, c)) \cup Closes(p, c)
  OBVIOUS
<1>1. CASE p \in Senders
  <2>1. k \in 1 .. 9 /\ Calls(p) = SenderCalls /\ Calls(p)[k] \in Items(SenderCalls)
    BY <1>1, CallsOf, SenderList DEF Items
  <2> QED
    BY <1>1, <2>1, SenderUndo, SenderCovers
<1>2. CASE p = Receiver
  BY <1>2, CallsOf, ReceiverList, CopierUndo, ReceiverCovers
<1>3. CASE p = Local
  BY <1>3, CallsOf, LocalList, CopierUndo, LocalCovers
<1> QED
  BY <1>1, <1>2, <1>3 DEF Programs

\* From one call to the next.
LEMMA HeldNext ==
  ASSUME NEW p \in Programs, NEW k \in Nat \ {0}
  PROVE  HeldAt(p, k + 1) = (HeldAt(p, k) \ {"listen"}) \cup Gets(Calls(p)[k])
<1>1. \A c : Gets(c) \subseteq Objects
  BY DEF Gets, Objects
<1>2. ASSUME NEW o \in HeldAt(p, k + 1) PROVE o \in (HeldAt(p, k) \ {"listen"}) \cup Gets(Calls(p)[k])
  <2>1. PICK i \in 1 .. k : o \in Gets(Calls(p)[i]) /\ (o = "listen" => i = k)
    BY <1>2 DEF HeldAt
  <2>2. CASE i = k
    BY <2>1, <2>2
  <2>3. CASE i # k
    BY <1>2, <2>1, <2>3 DEF HeldAt
  <2> QED
    BY <2>2, <2>3
<1>3. ASSUME NEW o \in (HeldAt(p, k) \ {"listen"}) \cup Gets(Calls(p)[k]) PROVE o \in HeldAt(p, k + 1)
  BY <1>1, <1>3 DEF HeldAt
<1> QED
  BY <1>2, <1>3

LEMMA ListeningAccepts ==
  ASSUME NEW p \in Programs, NEW k \in 1 .. Len(Calls(p)), "listen" \in HeldAt(p, k)
  PROVE  p = Receiver /\ k = 15
<1>1. k - 1 \in 1 .. Len(Calls(p)) /\ "listen" \in Gets(Calls(p)[k - 1])
  BY ListLengths DEF HeldAt
<1>2. \A c : "listen" \in Gets(c) => c = "listen"
  BY DEF Gets, Objects
<1>3. Calls(p)[k - 1] = "listen"
  BY <1>1, <1>2
<1>4. CASE p \in Senders
  BY <1>1, <1>3, <1>4, CallsOf, SenderList
<1>5. CASE p = Receiver
  BY <1>1, <1>3, <1>5, CallsOf, ReceiverList
<1>6. CASE p = Local
  BY <1>1, <1>3, <1>6, CallsOf, LocalList
<1> QED
  BY <1>4, <1>5, <1>6 DEF Programs
-----------------------------------------------------------------------------
\* What a step does to what programs hold ------------------------------------------

\* Only p changes what it holds.
LEMMA OnlyOne ==
  ASSUME CopyTypes, HoldsInv, NEW p \in Programs,
         \A q \in Programs \ {p} : /\ at'[q] = at[q] /\ held'[q] = held[q]
                                   /\ undo'[q] = undo[q] /\ result'[q] = result[q],
         lost' \ {p} = lost \ {p},
         Running(p)' /\ Undoing(p)' /\ NeedsHeld(p)'
  PROVE  HoldsInv'
<1> SUFFICES ASSUME NEW q \in Programs, q # p
             PROVE  Running(q)' /\ Undoing(q)' /\ NeedsHeld(q)'
  BY DEF HoldsInv
<1>1. Running(q) /\ Undoing(q) /\ NeedsHeld(q)
  BY DEF HoldsInv
<1>2. (q \in lost') = (q \in lost)
  OBVIOUS
<1> QED
  BY <1>1, <1>2 DEF Running, Undoing, NeedsHeld, Kept

LEMMA Succeeding ==
  ASSUME CopyTypes, HoldsInv, NEW p \in Programs, NEW c, Calling(p, c), at[p] < Len(Calls(p)),
         at' = [at EXCEPT ![p] = @ + 1], held' = [held EXCEPT ![p] = (@ \ {"listen"}) \cup Gets(c)],
         UNCHANGED <<undo, result, lost>>
  PROVE  /\ HoldsInv' /\ at' \in [Programs -> Nat] /\ held' \in [Programs -> SUBSET Objects]
<1>1. at[p] \in 1 .. Len(Calls(p)) /\ held[p] = HeldAt(p, at[p]) /\ undo[p] = <<>> /\ result[p] = "none"
  BY DEF HoldsInv, Running, Calling
<1>2. at'[p] = at[p] + 1 /\ at[p] \in Nat \ {0} /\ at[p] + 1 \in 1 .. Len(Calls(p))
  BY <1>1, ListLengths DEF CopyTypes
<1>3. held'[p] = HeldAt(p, at[p] + 1)
  BY <1>1, <1>2, HeldNext DEF CopyTypes, Calling
<1>4. Running(p)' /\ Undoing(p)'
  BY <1>1, <1>2, <1>3 DEF Running, Undoing
<1>5. NeedsHeld(p)'
  BY <1>2, <1>3, ListHolds DEF NeedsHeld
<1>6. HoldsInv'
  BY <1>4, <1>5, OnlyOne DEF CopyTypes
<1>7. Gets(c) \subseteq Objects
  BY DEF Gets, Objects
<1> QED
  BY <1>2, <1>6, <1>7 DEF CopyTypes

LEMMA Ending ==
  ASSUME CopyTypes, HoldsInv, NEW p \in Programs, NEW c, Calling(p, c),
         NEW res \in Results \ {"none"}, NEW closes \in SUBSET {"listen", "fd", "job"},
         Ends(p, c, res, closes), lost' \in {lost, lost \cup {p}},
         Closes(p, c) \subseteq closes \cup Kept(p)'
  PROVE  /\ HoldsInv' /\ at' \in [Programs -> Nat] /\ held' \in [Programs -> SUBSET Objects]
         /\ undo' \in [Programs -> Seq(Objects)] /\ result' \in [Programs -> Results]
<1>1. at[p] \in 1 .. Len(Calls(p)) /\ held[p] = HeldAt(p, at[p]) /\ Calls(p)[at[p]] = c
  BY DEF HoldsInv, Running, Calling
<1>2. /\ UndoAfter(p, c) \in Seq(Objects) /\ InOrder(p, UndoAfter(p, c))
      /\ held[p] \subseteq ReleasedBy(UndoAfter(p, c)) \cup Closes(p, c)
  BY <1>1, UndoCovers
<1>3. /\ held'[p] = held[p] \ closes /\ undo'[p] = UndoAfter(p, c) /\ result'[p] = res
      /\ \A q \in Programs \ {p} : /\ at'[q] = at[q] /\ held'[q] = held[q]
                                   /\ undo'[q] = undo[q] /\ result'[q] = result[q]
  BY DEF CopyTypes, Ends
<1>4. Undoing(p)' /\ Running(p)'
  BY <1>2, <1>3 DEF Undoing, Running
<1>5. NeedsHeld(p)'
  <2>1. \A o \in held[p] : NeedsOf(p, o) \subseteq held[p]
    BY <1>1, ListHolds
  <2>2. \A o : NeedsOf(p, o) \cap closes = {}
    BY NeedsTable DEF NeedsOf, Needs
  <2> QED
    BY <1>3, <2>1, <2>2 DEF NeedsHeld
<1>6. HoldsInv'
  BY <1>3, <1>4, <1>5, OnlyOne
<1> QED
  BY <1>2, <1>6 DEF CopyTypes, Ends
-----------------------------------------------------------------------------
\* The steps -----------------------------------------------------------------------

\* Where each call is in the lists.
LEMMA Positions ==
  ASSUME NEW p \in Programs, NEW k \in 1 .. Len(Calls(p))
  PROVE  LET c == Calls(p)[k] IN
         /\ p \in Senders /\ c \in Simple => k < 7
         /\ p \in Senders /\ c \in {"connect", "write", "ack"} => k > 6
         /\ p = Receiver /\ c = "accept" => k = 15
         /\ p \in Copiers /\ c = "retrieve" => k = Len(Calls(p))
<1>1. CASE p \in Senders
  BY <1>1, CallsOf, SenderList, ProgramsAssumption DEF Simple, Objects, Copiers
<1>2. CASE p = Receiver
  BY <1>2, CallsOf, ReceiverList, ProgramsAssumption DEF Copiers
<1>3. CASE p = Local
  BY <1>3, CallsOf, LocalList, ProgramsAssumption DEF Copiers
<1> QED
  BY <1>1, <1>2, <1>3 DEF Programs

\* The calls that others follow.
LEMMA Onward ==
  ASSUME NEW p \in Programs, NEW k \in 1 .. Len(Calls(p)),
         Calls(p)[k] \notin {"accept", "ack", "retrieve"}
  PROVE  LET c == Calls(p)[k] IN
         /\ k < Len(Calls(p)) /\ (p = Receiver => k # 15)
         /\ p \in Copiers /\ c # "submit" => k + 1 < Len(Calls(p))
         /\ p = Local /\ k = 1 => c = "arguments"
         /\ c = "connect" => k = 7
         /\ c = "submit" => p \in Copiers /\ k + 1 = Len(Calls(p))
<1>1. CASE p \in Senders
  <2>1. p \notin Copiers /\ p # Receiver /\ p # Local
    BY <1>1, ProgramsAssumption DEF Copiers
  <2>2. k \in 1 .. 8 /\ Calls(p)[k] = SenderCalls[k] /\ Len(Calls(p)) = 9
    BY <1>1, CallsOf, SenderList
  <2>3. Calls(p)[k] # "submit" /\ (Calls(p)[k] = "connect" => k = 7)
    BY <2>2, SenderList
  <2> QED
    BY <2>1, <2>2, <2>3
<1>2. CASE p = Receiver
  BY <1>2, CallsOf, ReceiverList, ProgramsAssumption DEF Copiers
<1>3. CASE p = Local
  BY <1>3, CallsOf, LocalList, ProgramsAssumption DEF Copiers
<1> QED
  BY <1>1, <1>2, <1>3 DEF Programs

LEMMA AtCall ==
  ASSUME HoldsInv, NEW p \in Programs, NEW c, Calling(p, c)
  PROVE  /\ at[p] \in 1 .. Len(Calls(p)) /\ Calls(p)[at[p]] = c /\ result[p] = "none"
         /\ undo[p] = <<>> /\ held[p] = HeldAt(p, at[p])
  BY DEF HoldsInv, Running, Calling

\* Only accept changes what was held before.
LEMMA PlainSuccess ==
  ASSUME CopyTypes, HoldsInv, NEW p \in Programs, NEW c, Calling(p, c), c # "accept", at[p] < Len(Calls(p)),
         Succeeds(p, Gets(c)), lost' = lost
  PROVE  /\ HoldsInv' /\ at' \in [Programs -> Nat] /\ held' \in [Programs -> SUBSET Objects]
<1>1. at[p] \in 1 .. Len(Calls(p)) /\ Calls(p)[at[p]] = c /\ held[p] = HeldAt(p, at[p])
  BY AtCall
<1>2. "listen" \notin held[p]
  <2>1. SUFFICES ASSUME "listen" \in HeldAt(p, at[p]) PROVE FALSE
    BY <1>1
  <2>2. p = Receiver /\ at[p] = 15
    BY <1>1, <2>1, ListeningAccepts
  <2> QED
    BY <1>1, <2>2, CallsOf, ReceiverList
<1>3. held' = [held EXCEPT ![p] = (@ \ {"listen"}) \cup Gets(c)]
  BY <1>2 DEF Succeeds
<1> QED
  BY <1>3, Succeeding DEF Succeeds

LEMMA CopyInit == ASSUME Init PROVE CopyInv
<1>1. Senders \subseteq Programs /\ Copiers \subseteq Programs /\ Receiver \in Programs /\ Local \in Programs
  BY DEF Programs, Copiers
<1>2. ranges \in [dst : Nat, src : Nat, length : Nat]
  <2>1. CASE Local \in active
    BY <2>1, RangesAssumption DEF Init
  <2>2. CASE Local \notin active
    BY <2>2 DEF Init
  <2> QED
    BY <2>1, <2>2
<1>3. CopyTypes
  BY <1>2, EmptySeq DEF CopyTypes, Init, Results, JobStates
<1>4. HoldsInv
  <2>1. ASSUME NEW p \in Programs PROVE Running(p) /\ Undoing(p) /\ NeedsHeld(p)
    <3>1. HeldAt(p, 1) = {} /\ 1 \in 1 .. Len(Calls(p))
      BY ListLengths DEF HeldAt
    <3> QED
      BY <3>1 DEF Init, Running, Undoing, NeedsHeld
  <2> QED
    BY <2>1 DEF HoldsInv
<1>5. Connected /\ Torn /\ Checked
  BY <1>1, ProgramsAssumption DEF Init, Connected, Torn, Checked
<1>6. Acknowledged
  BY <1>1, ShortLists DEF Init, Acknowledged
<1>7. JobsInv
  <2>1. ASSUME NEW p \in Copiers
        PROVE  at[p] = 1 /\ 1 < Len(Calls(p)) /\ job[p] = "none" /\ p \notin lost /\ result[p] = "none"
    <3>1. 1 < Len(Calls(p))
      BY CallsOf, ReceiverList, LocalList DEF Copiers
    <3>2. p \in Programs
      BY <1>1
    <3> QED
      BY <3>1, <3>2 DEF Init
  <2> QED
    BY <2>1 DEF JobsInv
<1> QED
  BY <1>3, <1>4, <1>5, <1>6, <1>7 DEF CopyInv

\* What a step of p changes of the protocol.
LEMMA Failing ==
  ASSUME CopyInv, NEW p \in Programs, NEW c, Calling(p, c), NEW res \in Results \ {"none", "ok"},
         NEW closes \in SUBSET {"listen", "fd", "job"}, Ends(p, c, res, closes), c # "retrieve",
         Closes(p, c) \subseteq closes \cup {"fd"}, p = Receiver \/ "fd" \notin Closes(p, c),
         p \in Senders /\ res = "error" => at[p] < 8,
         UNCHANGED <<acks, job, lost, peer, ranges>>, queue' \subseteq queue
  PROVE  CopyInv'
<1> USE DEF CopyInv
<1>1. at[p] \in 1 .. Len(Calls(p)) /\ Calls(p)[at[p]] = c /\ result[p] = "none"
  BY AtCall
<1>2. /\ HoldsInv' /\ at' \in [Programs -> Nat] /\ held' \in [Programs -> SUBSET Objects]
      /\ undo' \in [Programs -> Seq(Objects)] /\ result' \in [Programs -> Results]
  <2>1. result'[p] = res
    BY DEF Ends, CopyTypes
  <2>2. Closes(p, c) \subseteq closes \cup Kept(p)'
    BY <2>1 DEF Kept
  <2> QED
    BY <2>2, Ending
<1>3. CopyTypes'
  BY <1>2 DEF CopyTypes
<1>4. /\ at' = at /\ result' = [result EXCEPT ![p] = res] /\ undo' = [undo EXCEPT ![p] = UndoAfter(p, c)]
      /\ result \in [Programs -> Results] /\ undo \in [Programs -> Seq(Objects)] /\ at \in [Programs -> Nat]
      /\ Senders \subseteq Programs /\ Copiers \subseteq Programs /\ Receiver \in Programs
  BY DEF Ends, CopyTypes, Programs, Copiers
<1>5. Connected'
  BY <1>4 DEF Connected
<1>6. Acknowledged'
  <2>1. JobOver => JobOver'
    BY <1>1, <1>4 DEF JobOver
  <2>2. "fd" \in Items(undo'[Receiver]) => "fd" \in Items(undo[Receiver])
    <3>1. CASE p = Receiver
      <4>1. "fd" \notin UndoItems(Receiver, c)
        BY DEF UndoItems, FrontItems
      <4> QED
        BY <1>4, <3>1, <4>1, CopierUndo
    <3> QED
      BY <1>4, <3>1
  <2> QED
    BY <1>4, <2>1, <2>2 DEF Acknowledged
<1>7. JobsInv'
  BY <1>1, <1>4 DEF JobsInv
<1>8. Torn' /\ Checked'
  BY <1>1, <1>4 DEF Torn, Checked, Connected, JobsInv, Copiers
<1> QED
  BY <1>2, <1>3, <1>5, <1>6, <1>7, <1>8

\* A call that succeeds and is followed by others.
LEMMA Passing ==
  ASSUME CopyInv, NEW p \in Programs, NEW c, Calling(p, c), c \notin {"accept", "ack", "retrieve"},
         Succeeds(p, Gets(c)), c = "arguments" => ~memory_ranges_overlap(ranges),
         job' = IF c = "submit" THEN [job EXCEPT ![p] = "running"] ELSE job,
         queue' = IF c = "connect" THEN queue \cup {p} ELSE queue, c = "connect" => p \in Senders,
         UNCHANGED <<acks, lost, peer, ranges>>
  PROVE  CopyInv'
<1> USE DEF CopyInv
<1>1. at[p] \in 1 .. Len(Calls(p)) /\ Calls(p)[at[p]] = c /\ result[p] = "none"
  BY AtCall
<1>2. /\ at[p] < Len(Calls(p)) /\ (p = Receiver => at[p] # 15)
      /\ p \in Copiers /\ c # "submit" => at[p] + 1 < Len(Calls(p))
      /\ p = Local /\ at[p] = 1 => c = "arguments"
      /\ c = "connect" => at[p] = 7
      /\ c = "submit" => p \in Copiers /\ at[p] + 1 = Len(Calls(p))
  BY <1>1, Onward
<1>3. HoldsInv' /\ at' \in [Programs -> Nat] /\ held' \in [Programs -> SUBSET Objects]
  BY <1>2, PlainSuccess
<1>4. /\ at' = [at EXCEPT ![p] = @ + 1] /\ result' = result /\ undo' = undo
      /\ at \in [Programs -> Nat] /\ job \in [Programs -> JobStates]
      /\ Senders \subseteq Programs /\ Copiers \subseteq Programs /\ Receiver \in Programs /\ Local \in Programs
  BY DEF Succeeds, CopyTypes, Programs, Copiers
<1>5. CopyTypes'
  <2>1. job' \in [Programs -> JobStates]
    BY <1>4 DEF JobStates
  <2>2. queue' \subseteq Senders
    BY DEF CopyTypes
  <2> QED
    BY <1>3, <1>4, <2>1, <2>2 DEF CopyTypes
<1>6. Connected'
  BY <1>1, <1>2, <1>4 DEF Connected
<1>7. p \in Copiers => job[p] = "none"
  BY <1>1, <1>2 DEF JobsInv
<1>8. JobsInv'
  <2>1. ASSUME NEW q \in Copiers, q # p
        PROVE  at'[q] = at[q] /\ job'[q] = job[q] /\ result'[q] = result[q]
    BY <1>4, <2>1
  <2>2. Len(Calls(p)) \in Nat /\ at'[p] = at[p] + 1
    BY <1>1, <1>4, ListLengths
  <2>3. p \in Copiers => job'[p] = IF c = "submit" THEN "running" ELSE "none"
    BY <1>4, <1>7
  <2> QED
    BY <1>1, <1>2, <1>4, <2>1, <2>2, <2>3 DEF JobsInv
<1>9. Acknowledged'
  <2>1. JobOver => JobOver'
    BY <1>1, <1>2, <1>4 DEF JobOver
  <2> QED
    BY <1>4, <2>1 DEF Acknowledged
<1>10. Torn'
  BY <1>1, <1>2, <1>4 DEF Torn
<1>11. Checked'
  BY <1>1, <1>2, <1>4 DEF Checked
<1> QED
  BY <1>3, <1>5, <1>6, <1>8, <1>9, <1>10, <1>11

LEMMA CallStep == ASSUME CopyInv, NEW p \in Programs, Call(p) PROVE CopyInv'
<1>1. PICK c \in Simple : Calling(p, c) /\ (Succeeds(p, {c} \cap Objects) \/ Ends(p, c, "error", {}))
  BY DEF Call
<1>2. UNCHANGED <<queue, peer, acks, job, lost, ranges>>
  BY DEF Call, network
<1>3. CopyTypes /\ HoldsInv
  BY DEF CopyInv
<1>4. at[p] \in 1 .. Len(Calls(p)) /\ Calls(p)[at[p]] = c
  BY <1>1, <1>3, AtCall
<1>5. p \in Senders => at[p] < 7
  BY <1>1, <1>4, Positions
<1>6. c \notin {"arguments", "accept", "ack", "submit", "retrieve", "connect"} /\ Gets(c) = {c} \cap Objects
  BY <1>1 DEF Simple, Objects, Gets
<1>7. CASE Succeeds(p, {c} \cap Objects)
  BY <1>1, <1>2, <1>6, <1>7, Passing
<1>8. CASE Ends(p, c, "error", {})
  <2>1. Closes(p, c) \subseteq {"fd"} /\ (p = Receiver \/ "fd" \notin Closes(p, c))
    BY <1>6 DEF Closes
  <2>2. p \in Senders => at[p] < 8
    BY <1>4, <1>5
  <2> QED
    BY <1>1, <1>2, <1>6, <1>8, <2>1, <2>2, Failing DEF Results
<1> QED
  BY <1>1, <1>7, <1>8

LEMMA CheckArgumentsStep == ASSUME CopyInv, CheckArguments PROVE CopyInv'
<1>1. /\ Calling(Local, "arguments") /\ Local \in Programs /\ Local # Receiver /\ Local \notin Senders
      /\ UNCHANGED <<queue, peer, acks, job, lost, ranges>>
  BY ProgramsAssumption DEF CheckArguments, network, Programs
<1>2. CASE Ends(Local, "arguments", "error", {})
  <2>1. Closes(Local, "arguments") = {}
    BY DEF Closes
  <2> QED
    BY <1>1, <1>2, <2>1, Failing DEF Results
<1>3. CASE Succeeds(Local, {}) /\ ~memory_ranges_overlap(ranges)
  <2>1. Gets("arguments") = {}
    BY DEF Gets, Objects
  <2> QED
    BY <1>1, <1>3, <2>1, Passing
<1> QED
  BY <1>2, <1>3 DEF CheckArguments

\* The sender's calls on its socket.
LEMMA SocketStep ==
  ASSUME CopyInv, NEW s \in Senders, Connect(s) \/ Write(s) PROVE CopyInv'
<1>1. PICK c \in {"connect", "write"} :
         /\ Calling(s, c) /\ UNCHANGED <<peer, acks, job, lost, ranges>>
         /\ \/ Succeeds(s, Gets(c)) /\ queue' = IF c = "connect" THEN queue \cup {s} ELSE queue
            \/ Ends(s, c, "not_connected", {}) /\ queue' = queue
  <2>1. Gets("connect") = {"fd"} /\ Gets("write") = {}
    BY DEF Gets, Objects
  <2>2. CASE Connect(s)
    BY <2>1, <2>2 DEF Connect
  <2>3. CASE Write(s)
    BY <2>1, <2>3 DEF Write
  <2> QED
    BY <2>2, <2>3
<1>2. s \in Programs /\ s # Receiver /\ s # Local
  BY ProgramsAssumption DEF Programs
<1>3. CASE Ends(s, c, "not_connected", {}) /\ queue' = queue
  <2>1. Closes(s, c) = {}
    BY <1>1, <1>2 DEF Closes
  <2> QED
    BY <1>1, <1>2, <1>3, <2>1, Failing DEF Results
<1>4. CASE Succeeds(s, Gets(c)) /\ queue' = IF c = "connect" THEN queue \cup {s} ELSE queue
  BY <1>1, <1>2, <1>4, Passing
<1> QED
  BY <1>1, <1>3, <1>4

\* The receiver's calls until its job.
LEMMA ReceivingStep ==
  ASSUME CopyInv, Listen \/ Recv \/ Import PROVE CopyInv'
<1>1. PICK c \in {"listen", "recv", "import"} :
         /\ Calling(Receiver, c) /\ UNCHANGED <<queue, peer, acks, job, lost, ranges>>
         /\ \/ Succeeds(Receiver, Gets(c))
            \/ \E res \in {"error", "not_connected"}, closes \in {{}, {"fd"}} : Ends(Receiver, c, res, closes)
  <2>1. Gets("listen") = {"listen"} /\ Gets("recv") = {} /\ Gets("import") = {"import"}
    BY DEF Gets, Objects
  <2>2. CASE Listen
    BY <2>1, <2>2 DEF Listen, network
  <2>3. CASE Recv
    BY <2>1, <2>3 DEF Recv
  <2>4. CASE Import
    BY <2>1, <2>4 DEF Import, network
  <2> QED
    BY <2>2, <2>3, <2>4
<1>2. Receiver \in Programs /\ Receiver # Local /\ Receiver \notin Senders
  BY ProgramsAssumption DEF Programs
<1>3. CASE Succeeds(Receiver, Gets(c))
  BY <1>1, <1>2, <1>3, Passing
<1>4. ASSUME NEW res \in {"error", "not_connected"}, NEW closes \in {{}, {"fd"}},
             Ends(Receiver, c, res, closes)
      PROVE  CopyInv'
  <2>1. Closes(Receiver, c) \subseteq {"fd"}
    BY <1>1 DEF Closes
  <2> QED
    BY <1>1, <1>2, <1>4, <2>1, Failing DEF Results
<1> QED
  BY <1>1, <1>3, <1>4

LEMMA SubmitStep == ASSUME CopyInv, NEW p \in Copiers, Submit(p) PROVE CopyInv'
<1>1. /\ Calling(p, "submit") /\ p \in Programs /\ p \notin Senders
      /\ UNCHANGED <<queue, peer, acks, lost, ranges>>
  BY ProgramsAssumption DEF Submit, network, Programs, Copiers
<1>2. CASE job' = [job EXCEPT ![p] = "running"] /\ Succeeds(p, {"job"})
  <2>1. Gets("submit") = {"job"}
    BY DEF Gets
  <2> QED
    BY <1>1, <1>2, <2>1, Passing
<1>3. CASE Ends(p, "submit", "error", {}) /\ UNCHANGED job
  <2>1. Closes(p, "submit") \subseteq {"fd"} /\ (p = Receiver \/ "fd" \notin Closes(p, "submit"))
    BY DEF Closes
  <2> QED
    BY <1>1, <1>3, <2>1, Failing DEF Results
<1> QED
  BY <1>2, <1>3 DEF Submit

\* A receiver with a job has made all its calls, and accepted a sender.
LEMMA WithJob ==
  ASSUME CopyInv
  PROVE  /\ at[Receiver] \in Nat /\ Len(Calls(Receiver)) = 21
         /\ job[Receiver] # "none" => at[Receiver] = 21 /\ peer \in Senders
<1>1. Receiver \in Copiers /\ Receiver \in Programs
  BY DEF Copiers, Programs
<1>2. Len(Calls(Receiver)) = 21
  BY CallsOf, ReceiverList
<1>3. at[Receiver] \in Nat
  BY <1>1 DEF CopyInv, CopyTypes
<1>4. job[Receiver] # "none" => at[Receiver] = Len(Calls(Receiver))
  BY <1>1 DEF CopyInv, JobsInv
<1>5. at[Receiver] > 15 => peer \in Senders
  BY DEF CopyInv, Connected
<1> QED
  BY <1>2, <1>3, <1>4, <1>5

LEMMA AcceptStep == ASSUME CopyInv, Accept PROVE CopyInv'
<1> USE DEF CopyInv
<1>1. /\ Calling(Receiver, "accept") /\ Receiver \in Programs /\ Receiver \notin Senders
      /\ Senders \subseteq Programs /\ Copiers \subseteq Programs /\ Local \in Programs
      /\ Receiver \in Copiers /\ Receiver # Local
      /\ queue' = {} /\ UNCHANGED <<acks, job, lost, ranges>>
  BY ProgramsAssumption DEF Accept, Programs, Copiers
<1>2. CASE Ends(Receiver, "accept", "not_connected", {"listen"}) /\ UNCHANGED peer
  <2>1. Closes(Receiver, "accept") = {"listen"}
    BY DEF Closes
  <2> QED
    BY <1>1, <1>2, <2>1, Failing DEF Results
<1>3. CASE /\ peer' \in queue /\ at' = [at EXCEPT ![Receiver] = @ + 1]
           /\ held' = [held EXCEPT ![Receiver] = (@ \ {"listen"}) \cup {"fd"}]
           /\ UNCHANGED <<undo, result>>
  <2>1. /\ at[Receiver] \in 1 .. Len(Calls(Receiver)) /\ Calls(Receiver)[at[Receiver]] = "accept"
        /\ result[Receiver] = "none" /\ undo[Receiver] = <<>>
    BY <1>1, AtCall
  <2>2. at[Receiver] = 15 /\ Len(Calls(Receiver)) = 21
    BY <1>1, <2>1, Positions, CallsOf, ReceiverList
  <2>3. HoldsInv' /\ at' \in [Programs -> Nat] /\ held' \in [Programs -> SUBSET Objects]
    <3>1. Gets("accept") = {"fd"}
      BY DEF Gets
    <3>2. at[Receiver] < Len(Calls(Receiver)) /\ UNCHANGED <<undo, result, lost>>
      BY <1>1, <1>3, <2>2
    <3>3. held' = [held EXCEPT ![Receiver] = (@ \ {"listen"}) \cup Gets("accept")]
      BY <1>3, <3>1
    <3>4. CopyTypes /\ HoldsInv
      OBVIOUS
    <3> HIDE DEF CopyInv
    <3> QED
      BY <1>1, <1>3, <3>2, <3>3, <3>4, Succeeding
  <2>4. acks = {} /\ job[Receiver] = "none" /\ "fd" \notin Items(undo[Receiver])
    BY <1>1, <2>1, <2>2, ShortLists, WithJob DEF Acknowledged, JobOver
  <2>5. CopyTypes'
    BY <1>1, <1>3, <2>3, <2>4 DEF CopyTypes
  <2>6. /\ at'[Receiver] = 16 /\ \A q \in Programs \ {Receiver} : at'[q] = at[q]
        /\ at \in [Programs -> Nat]
    BY <1>1, <1>3, <2>2 DEF CopyTypes
  <2>7. Connected'
    BY <1>1, <1>3, <2>6 DEF Connected, CopyTypes
  <2>8. Acknowledged'
    BY <1>1, <1>3, <2>4 DEF Acknowledged
  <2>9. JobsInv'
    <3>1. ASSUME NEW q \in Copiers, q # Receiver
          PROVE  at'[q] = at[q] /\ job'[q] = job[q] /\ result'[q] = result[q]
      BY <1>1, <1>3, <2>6, <3>1
    <3>2. at'[Receiver] < Len(Calls(Receiver)) /\ at'[Receiver] \in Nat
      BY <2>2, <2>6
    <3> QED
      BY <1>1, <1>3, <2>1, <2>4, <3>1, <3>2 DEF JobsInv
  <2>10. Torn' /\ Checked'
    BY <1>1, <2>4, <2>6 DEF Torn, Checked
  <2> QED
    BY <2>3, <2>5, <2>7, <2>8, <2>9, <2>10
<1> QED
  BY <1>2, <1>3 DEF Accept

LEMMA AckStep == ASSUME CopyInv, NEW s \in Senders, Ack(s) PROVE CopyInv'
<1> USE DEF CopyInv
<1>1. /\ Calling(s, "ack") /\ s \in Programs /\ s # Receiver /\ s \notin Copiers /\ s # Local
      /\ Closes(s, "ack") = {} /\ UNCHANGED <<queue, peer, acks, job, lost, ranges>>
      /\ Senders \subseteq Programs /\ Copiers \subseteq Programs /\ Receiver \in Programs
  BY ProgramsAssumption DEF Ack, network, Programs, Copiers, Closes
<1>2. CASE Ends(s, "ack", "not_connected", {})
  BY <1>1, <1>2, Failing DEF Results
<1>3. CASE s \in acks /\ Ends(s, "ack", "ok", {})
  <2>1. result[s] = "none"
    BY <1>1, AtCall
  <2>2. /\ HoldsInv' /\ at' \in [Programs -> Nat] /\ held' \in [Programs -> SUBSET Objects]
        /\ undo' \in [Programs -> Seq(Objects)] /\ result' \in [Programs -> Results]
    BY <1>1, <1>3, Ending DEF Results
  <2>3. /\ at' = at /\ result' = [result EXCEPT ![s] = "ok"] /\ result \in [Programs -> Results]
        /\ undo'[Receiver] = undo[Receiver]
    BY <1>1, <1>3 DEF Ends, CopyTypes
  <2>4. CopyTypes'
    BY <1>1, <2>2 DEF CopyTypes
  <2>5. Connected' /\ JobsInv' /\ Checked'
    BY <1>1, <2>3 DEF Connected, JobsInv, Checked
  <2>6. Acknowledged'
    BY <1>1, <1>3, <2>3 DEF Acknowledged, JobOver
  <2>7. Torn'
    BY <1>1, <2>1, <2>3 DEF Torn
  <2> QED
    BY <2>2, <2>4, <2>5, <2>6, <2>7
<1> QED
  BY <1>2, <1>3 DEF Ack

LEMMA RetrieveStep == ASSUME CopyInv, NEW p \in Copiers, Retrieve(p) PROVE CopyInv'
<1> USE DEF CopyInv
<1>1. /\ Calling(p, "retrieve") /\ p \in Programs /\ p \notin Senders /\ Closes(p, "retrieve") = {"job"}
      /\ UNCHANGED <<queue, peer, acks, job, ranges>>
      /\ Senders \subseteq Programs /\ Copiers \subseteq Programs /\ Receiver \in Programs /\ Receiver \notin Senders
  BY ProgramsAssumption DEF Retrieve, network, Programs, Copiers, Closes
<1>2. /\ at[p] \in 1 .. Len(Calls(p)) /\ Calls(p)[at[p]] = "retrieve" /\ result[p] = "none"
  BY <1>1, AtCall
<1>3. at[p] = Len(Calls(p)) /\ (p = Receiver => at[p] = 21)
  <2>1. at[p] = Len(Calls(p))
    BY <1>1, <1>2, Positions
  <2>2. Len(Calls(Receiver)) = 21
    BY CallsOf, ReceiverList
  <2> QED
    BY <2>1, <2>2
<1>4. job[p] # "none" /\ p \notin lost /\ (p = Receiver => peer \in Senders) /\ job[p] \in JobStates
  <2>1. job[p] # "none" /\ p \notin lost
    BY <1>2, <1>3 DEF JobsInv
  <2> QED
    BY <1>1, <2>1, WithJob DEF CopyTypes
<1>5. PICK res \in {"ok", "error"}, closes \in {{}, {"job"}} :
        /\ Ends(p, "retrieve", res, closes)
        /\ \/ /\ job[p] # "running" /\ (res = "ok" <=> job[p] # "failed")
              /\ closes = {"job"} /\ lost' = lost
           \/ res = "error" /\ closes = {} /\ lost' = lost \cup {p}
  BY DEF Retrieve
<1>6. /\ HoldsInv' /\ at' \in [Programs -> Nat] /\ held' \in [Programs -> SUBSET Objects]
      /\ undo' \in [Programs -> Seq(Objects)] /\ result' \in [Programs -> Results]
  <2>1. Closes(p, "retrieve") \subseteq closes \cup Kept(p)'
    BY <1>1, <1>5 DEF Kept
  <2>2. lost' \in {lost, lost \cup {p}} /\ res \in Results \ {"none"} /\ closes \in SUBSET {"listen", "fd", "job"}
    BY <1>5 DEF Results
  <2> QED
    BY <1>1, <1>5, <2>1, <2>2, Ending
<1>7. /\ at' = at /\ result' = [result EXCEPT ![p] = res] /\ result \in [Programs -> Results]
      /\ p # Receiver => undo'[Receiver] = undo[Receiver]
  BY <1>1, <1>5 DEF Ends, CopyTypes
<1>8. CopyTypes'
  BY <1>1, <1>5, <1>6 DEF CopyTypes
<1>9. Connected' /\ Checked'
  BY <1>1, <1>7 DEF Connected, Checked
<1>10. Acknowledged'
  <2>1. JobOver => JobOver'
    BY <1>1, <1>5, <1>7 DEF JobOver, Results
  <2>2. p = Receiver => JobOver'
    BY <1>1, <1>4, <1>5, <1>7 DEF JobOver, JobStates
  <2> QED
    BY <1>1, <1>7, <2>1, <2>2 DEF Acknowledged
<1>11. JobsInv'
  BY <1>1, <1>2, <1>4, <1>5, <1>7 DEF JobsInv, JobStates
<1>12. Torn'
  <2>1. ASSUME job[Receiver] = "torn", Receiver \notin lost' PROVE result'[peer] = "not_connected"
    <3>1. result[peer] = "not_connected"
      BY <1>5, <2>1 DEF Torn
    <3>2. peer \in Senders
      BY <2>1, WithJob
    <3> QED
      BY <1>1, <1>7, <3>1, <3>2
  <2> QED
    BY <1>1, <2>1 DEF Torn
<1> QED
  BY <1>6, <1>8, <1>9, <1>10, <1>11, <1>12

LEMMA EngineStep == ASSUME CopyInv, NEW p \in Copiers, Engine(p) PROVE CopyInv'
<1> USE DEF CopyInv
<1>1. /\ job[p] = "running" /\ UNCHANGED <<at, held, undo, result, queue, peer, acks, lost, ranges>>
      /\ p \in Programs /\ Receiver \in Programs /\ Senders \subseteq Programs
      /\ Receiver \in Copiers /\ Receiver # Local /\ Copiers \subseteq Programs
  BY ProgramsAssumption DEF Engine, network, Programs, Copiers
<1>2. PICK end \in {"copied", "failed", "torn"} :
        job' = [job EXCEPT ![p] = end] /\ (end = "torn" => p = Receiver /\ "mmap" \notin held[peer])
  BY DEF Engine, SourceMapped
<1>3. /\ job'[p] = end /\ \A q \in Programs \ {p} : job'[q] = job[q]
      /\ job' \in [Programs -> JobStates]
  BY <1>1, <1>2 DEF CopyTypes, JobStates
<1>4. CopyTypes'
  BY <1>1, <1>3 DEF CopyTypes
<1>5. HoldsInv'
  BY <1>1 DEF HoldsInv, Running, Undoing, NeedsHeld, Kept
<1>6. Connected' /\ Checked'
  BY <1>1 DEF Connected, Checked
<1>7. Acknowledged'
  BY <1>1, <1>2, <1>3 DEF Acknowledged, JobOver
<1>8. JobsInv'
  BY <1>1, <1>2, <1>3 DEF JobsInv
<1>9. Torn'
  <2>1. CASE p = Receiver /\ end = "torn" /\ Receiver \notin lost
    <3>1. peer \in Senders
      BY <1>1, <2>1, WithJob
    <3>2. at[peer] > 7 /\ result[peer] # "error" /\ peer \in Programs
      BY <1>1, <3>1 DEF Connected
    <3>3. result[peer] # "ok"
      BY <1>1, <2>1, <3>1 DEF Acknowledged, JobOver
    <3>4. result[peer] # "none"
      <4>1. SUFFICES ASSUME result[peer] = "none" PROVE FALSE
        OBVIOUS
      <4>2. at[peer] \in Nat /\ held[peer] = HeldAt(peer, at[peer])
        BY <3>2, <4>1 DEF HoldsInv, Running, CopyTypes
      <4>3. "mmap" \in Gets(Calls(peer)[2])
        BY <3>1, CallsOf, SenderList DEF Gets, Objects
      <4>4. "mmap" \in held[peer]
        BY <3>2, <4>2, <4>3, HeldFrom DEF Objects
      <4> QED
        BY <1>2, <2>1, <4>4
    <3>5. result[peer] \in Results
      BY <3>2 DEF CopyTypes
    <3> QED
      BY <1>1, <3>2, <3>3, <3>4, <3>5 DEF Torn, Results
  <2>2. CASE ~(p = Receiver /\ end = "torn" /\ Receiver \notin lost)
    BY <1>1, <1>2, <1>3, <2>2 DEF Torn
  <2> QED
    BY <2>1, <2>2
<1> QED
  BY <1>4, <1>5, <1>6, <1>7, <1>8, <1>9

\* Its next object is released: by the order of the list nothing needs it.
LEMMA ReleaseHolds ==
  ASSUME CopyTypes, HoldsInv, NEW p \in Programs, Release(p)
  PROVE  /\ HoldsInv' /\ held' \in [Programs -> SUBSET Objects] /\ undo' \in [Programs -> Seq(Objects)]
         /\ result[p] # "none" /\ Items(undo'[p]) \subseteq Items(undo[p]) /\ Head(undo[p]) \in Items(undo[p])
<1> DEFINE u == undo[p]
           o == Head(undo[p])
<1>1. u \in Seq(Objects) /\ u # <<>> /\ u[1] = o /\ 1 \in DOMAIN u /\ Tail(u) \in Seq(Objects)
  BY DEF CopyTypes, Release
<1>2. \A i \in DOMAIN Tail(u) : i + 1 \in DOMAIN u /\ Tail(u)[i] = u[i + 1] /\ i \in Nat \ {0}
  BY <1>1
<1>3. \A i \in DOMAIN u \ {1} : i - 1 \in DOMAIN Tail(u) /\ u[i] = Tail(u)[i - 1]
  BY <1>1
<1>4. /\ undo' = [undo EXCEPT ![p] = Tail(u)] /\ held' = [held EXCEPT ![p] = @ \ Releases(o)]
      /\ UNCHANGED <<at, result, lost>>
  BY DEF Release, Releases
<1>5. undo'[p] = Tail(u) /\ held'[p] = held[p] \ Releases(o) /\ result'[p] = result[p]
      /\ \A q \in Programs \ {p} : undo'[q] = undo[q] /\ held'[q] = held[q]
  BY <1>4 DEF CopyTypes
<1>6. Running(p) /\ Undoing(p) /\ NeedsHeld(p)
  BY DEF HoldsInv
<1>7. result[p] # "none"
  BY <1>1, <1>6 DEF Running
<1>8. InOrder(p, u) /\ held[p] \subseteq ReleasedBy(u) \cup Kept(p)
  BY <1>6, <1>7 DEF Undoing
<1>9. Kept(p)' = Kept(p)
  BY <1>4 DEF Kept
<1> HIDE DEF u, o
<1>10. ASSUME NEW x \in held'[p] PROVE x \in Kept(p) \/ \E i \in DOMAIN u \ {1} : x \in Releases(u[i])
  <2>1. x \in held[p] /\ x \notin Releases(o)
    BY <1>5, <1>10
  <2> QED
    BY <1>1, <1>8, <2>1 DEF ReleasedBy, Items
<1>11. Undoing(p)'
  <2>1. InOrder(p, Tail(u))
    <3>1. ASSUME NEW i \in DOMAIN Tail(u), NEW j \in DOMAIN Tail(u), i < j, NEW y \in Releases(Tail(u)[j])
          PROVE  Tail(u)[i] \notin NeedsOf(p, y)
      BY <1>2, <1>8, <3>1 DEF InOrder
    <3> QED
      BY <3>1 DEF InOrder
  <2>2. ASSUME NEW x \in held'[p] PROVE x \in ReleasedBy(Tail(u)) \cup Kept(p)
    <3>1. CASE x \in Kept(p)
      BY <3>1
    <3>2. ASSUME NEW i \in DOMAIN u \ {1}, x \in Releases(u[i]) PROVE x \in ReleasedBy(Tail(u))
      <4>1. u[i] \in Items(Tail(u))
        BY <1>3 DEF Items
      <4> QED
        BY <3>2, <4>1 DEF ReleasedBy
    <3> QED
      BY <1>10, <3>1, <3>2
  <2> QED
    BY <1>5, <1>9, <2>1, <2>2 DEF Undoing
<1>12. NeedsHeld(p)'
  <2>1. SUFFICES ASSUME NEW x \in held'[p], ~(x = "job" /\ p \in lost), NEW z \in NeedsOf(p, x)
                 PROVE  z \in held'[p]
    BY <1>4 DEF NeedsHeld
  <2>2. z \in held[p]
    BY <1>5, <1>6, <2>1 DEF NeedsHeld
  <2>3. z # "mmapDev"
    BY DEF NeedsOf, Needs
  <2>4. z # o
    <3>1. CASE x \in Kept(p)
      <4>1. x = "fd"
        BY <2>1, <3>1 DEF Kept
      <4> QED
        BY <4>1, NeedsTable
    <3>2. ASSUME NEW i \in DOMAIN u \ {1}, x \in Releases(u[i]) PROVE z # o
      <4>1. 1 < i
        BY <1>1
      <4> QED
        BY <1>1, <1>8, <3>2, <4>1 DEF InOrder
    <3> QED
      BY <1>10, <3>1, <3>2
  <2> QED
    BY <1>5, <2>2, <2>3, <2>4 DEF Releases
<1>13. Running(p)'
  BY <1>5, <1>7 DEF Running
<1>14. HoldsInv'
  BY <1>4, <1>5, <1>11, <1>12, <1>13, OnlyOne
<1>15. Items(Tail(u)) \subseteq Items(u)
  BY <1>2 DEF Items
<1>16. undo'[p] = Tail(undo[p]) /\ Items(undo'[p]) \subseteq Items(undo[p]) /\ Head(undo[p]) \in Items(undo[p])
  BY <1>1, <1>5, <1>15 DEF u, o, Items
<1> QED
  BY <1>1, <1>4, <1>7, <1>14, <1>16 DEF CopyTypes, u

LEMMA ReleaseStep == ASSUME CopyInv, NEW p \in Programs, Release(p) PROVE CopyInv'
<1> USE DEF CopyInv
<1>1. /\ HoldsInv' /\ held' \in [Programs -> SUBSET Objects] /\ undo' \in [Programs -> Seq(Objects)]
      /\ result[p] # "none" /\ Items(undo'[p]) \subseteq Items(undo[p]) /\ Head(undo[p]) \in Items(undo[p])
  BY ReleaseHolds
<1>2. /\ UNCHANGED <<at, result, peer, job, lost, ranges>> /\ queue' \subseteq queue
      /\ acks' \in {acks, acks \cup {peer}} /\ acks \subseteq acks'
      /\ acks' # acks => p = Receiver /\ Head(undo[p]) = "fd"
      /\ \A q \in Programs \ {p} : undo'[q] = undo[q]
      /\ Receiver \in Programs
  BY DEF Release, Programs, CopyTypes
<1>3. acks' # acks => JobOver
  BY <1>1, <1>2 DEF Acknowledged
<1>4. CopyTypes'
  BY <1>1, <1>2, <1>3 DEF CopyTypes, JobOver
<1>5. Connected' /\ JobsInv' /\ Torn' /\ Checked'
  BY <1>2 DEF Connected, JobsInv, Torn, Checked
<1>6. Acknowledged'
  <2>1. JobOver' = JobOver
    BY <1>2 DEF JobOver
  <2>2. "fd" \in Items(undo'[Receiver]) => "fd" \in Items(undo[Receiver])
    BY <1>1, <1>2
  <2> QED
    BY <1>2, <1>3, <2>1, <2>2 DEF Acknowledged
<1> QED
  BY <1>1, <1>4, <1>5, <1>6

LEMMA CopyInvStep == ASSUME CopyInv, [Next]_vars PROVE CopyInv'
<1>1. CASE UNCHANGED vars
  BY <1>1 DEF vars, network, CopyInv, CopyTypes, HoldsInv, Running, Undoing, NeedsHeld, Kept,
              Connected, Acknowledged, JobOver, JobsInv, Torn, Checked
<1>2. ASSUME NEW s \in Senders, SenderStep(s) PROVE CopyInv'
  BY <1>2, CallStep, SocketStep, AckStep, ReleaseStep DEF SenderStep, Programs
<1>3. ASSUME NEW p \in Copiers, CopyStep(p) PROVE CopyInv'
  BY <1>3, CallStep, SubmitStep, RetrieveStep, ReleaseStep DEF CopyStep, Programs, Copiers
<1>4. ASSUME NEW p \in {Receiver, Local}, Engine(p) PROVE CopyInv'
  BY <1>4, EngineStep DEF Copiers
<1>5. ReceiverStep => CopyInv'
  BY <1>3, ReceivingStep, AcceptStep DEF ReceiverStep, Copiers
<1>6. LocalStep => CopyInv'
  BY <1>3, CheckArgumentsStep DEF LocalStep, Copiers
<1> QED
  BY <1>1, <1>2, <1>4, <1>5, <1>6 DEF Next
-----------------------------------------------------------------------------
(***************************************************************************)
(* The inductive invariant of the DMA programs: where each is in its list  *)
(* of calls or of releases, and how far the protocol of the two sides has  *)
(* come.                                                                   *)
(***************************************************************************)
THEOREM CopyInvAlways == SafeSpec => []CopyInv
<1>1. Init => CopyInv
  BY CopyInit
<1>2. CopyInv /\ [Next]_vars => CopyInv'
  BY CopyInvStep
<1> QED
  BY <1>1, <1>2, PTL DEF SafeSpec

(***************************************************************************)
(* ReleasedInOrder for any set of senders: whichever calls of the three    *)
(* programs fail, no object is released before those that use it.          *)
(***************************************************************************)
THEOREM ReleasedInOrderAlways == SafeSpec => []ReleasedInOrder
<1>1. CopyInv => ReleasedInOrder
  BY DEF CopyInv, HoldsInv, NeedsHeld, ReleasedInOrder
<1> QED
  BY <1>1, CopyInvAlways, PTL

(***************************************************************************)
(* NothingLeaked for any set of senders: when a function has returned, only *)
(* the receiver's socket, when it failed after accepting, and a job that   *)
(* was never retrieved are left.                                           *)
(***************************************************************************)
THEOREM NothingLeakedAlways == SafeSpec => []NothingLeaked
<1> DEFINE Active == active \subseteq Programs
<1>1. ASSUME CopyInv, Active PROVE NothingLeaked
  <2>1. ASSUME NEW p \in active, Returned(p)
        PROVE  held[p] \subseteq Kept(p)
    <3>1. ReleasedBy(undo[p]) = {}
      BY <2>1 DEF Returned, ReleasedBy, Items
    <3>2. p \in Programs
      BY <1>1
    <3> QED
      BY <1>1, <2>1, <3>1, <3>2 DEF CopyInv, HoldsInv, Undoing, Returned
  <2> QED
    BY <2>1 DEF NothingLeaked, Kept
<1>2. Init => Active
  BY DEF Init, Programs
<1>3. Active /\ [Next]_vars => Active'
  BY DEF Next, SenderStep, ReceiverStep, LocalStep, CopyStep, Call, Connect, Write, Ack, Release, Submit,
         Retrieve, Listen, Accept, Recv, Import, CheckArguments, Engine, vars
<1> HIDE DEF Active
<1> QED
  BY <1>1, <1>2, <1>3, CopyInvAlways, PTL DEF SafeSpec

(***************************************************************************)
(* CopySound for any set of senders and all ranges.  A local copy that     *)
(* reports success has copied, between disjoint ranges; so has a receiver, *)
(* unless the accepted sender gave up, the only thing beside a failed      *)
(* retrieval that can disturb a copy.  A sender's success says that its    *)
(* receiver is through with the job, not that the job succeeded.           *)
(***************************************************************************)
THEOREM CopySoundAlways == SafeSpec => []CopySound
<1>1. ASSUME CopyInv PROVE AckAfterCopy
  <2>1. SUFFICES ASSUME NEW s \in Senders, result[s] = "ok"
                 PROVE  /\ peer = s /\ result[Receiver] \in {"ok", "error"}
                        /\ Receiver \notin lost => job[Receiver] \in {"copied", "failed"}
    BY DEF AckAfterCopy
  <2>2. s \in acks /\ peer = s
    BY <1>1, <2>1 DEF CopyInv, CopyTypes, Acknowledged
  <2>3. result[Receiver] \in {"ok", "error"}
        /\ (Receiver \in lost \/ job[Receiver] \in {"copied", "failed", "torn"})
    BY <1>1, <2>2 DEF CopyInv, Acknowledged, JobOver
  <2>4. job[Receiver] = "torn" /\ Receiver \notin lost => result[s] = "not_connected"
    BY <1>1, <2>2 DEF CopyInv, Torn
  <2> QED
    BY <2>1, <2>2, <2>3, <2>4
<1>2. ASSUME CopyInv PROVE OkIsCopied /\ TornWhy
  <2>1. SUFFICES ASSUME NEW p \in Copiers
                 PROVE  /\ result[p] = "ok" => \/ job[p] = "copied"
                                                \/ /\ p = Receiver /\ job[p] = "torn"
                                                   /\ result[peer] = "not_connected"
                        /\ job[p] = "torn" =>
                             p = Receiver /\ (result[peer] = "not_connected" \/ Receiver \in lost)
    BY DEF OkIsCopied, TornWhy, Copiers
  <2>2. /\ result[p] = "ok" => p \notin lost /\ job[p] \in {"copied", "torn"}
        /\ job[p] = "torn" => p = Receiver
    BY <1>2, <2>1 DEF CopyInv, JobsInv
  <2>3. job[Receiver] = "torn" /\ Receiver \notin lost => result[peer] = "not_connected"
    BY <1>2 DEF CopyInv, Torn
  <2> QED
    BY <2>2, <2>3
<1>3. ASSUME CopyInv PROVE CopiesDisjoint
  <2>1. SUFFICES ASSUME job[Local] # "none"
                 PROVE  \A b \in ranges.dst .. ranges.dst + ranges.length - 1 :
                          b \notin ranges.src .. ranges.src + ranges.length - 1
    BY DEF CopiesDisjoint
  <2>2. at[Local] > 1
    <3>1. Local \in Copiers /\ Len(Calls(Local)) = 18
      BY CallsOf, LocalList DEF Copiers
    <3>2. at[Local] = Len(Calls(Local))
      BY <1>3, <2>1, <3>1 DEF CopyInv, JobsInv
    <3> QED
      BY <3>1, <3>2
  <2>3. ~memory_ranges_overlap(ranges)
    BY <1>3, <2>2 DEF CopyInv, Checked
  <2>4. ranges.dst \in Nat /\ ranges.src \in Nat /\ ranges.length \in Nat
    BY <1>3 DEF CopyInv, CopyTypes
  <2> QED
    BY <2>3, <2>4 DEF memory_ranges_overlap
<1>4. CopyInv => CopySound
  BY <1>1, <1>2, <1>3 DEF CopySound
<1> QED
  BY <1>4, CopyInvAlways, PTL
=============================================================================

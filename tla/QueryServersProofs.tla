------------------------- MODULE QueryServersProofs -------------------------
(***************************************************************************)
(* What the text query programs answer, for every number of clients and    *)
(* threads and all files.                                                  *)
(*                                                                         *)
(* The text in an answer passes through a global and the reply of a        *)
(* handler.  The argument follows it: requests that are processed at the   *)
(* same time have overlapped (Together), what is in the global is of a     *)
(* request that is processed still (Cleared), or, in exp5_dpu, that        *)
(* overlaps those whose callback has been called (Told), and so what is    *)
(* replied is of the request or of one that overlapped it (Said).          *)
(*                                                                         *)
(* The handler of a request that overlaps no other has the globals to      *)
(* itself.  AloneInv says how far it is on the way to the right answer     *)
(* (Works): what is in the globals and what it has yet to visit are        *)
(* together what the request asks for.  It finds the globals empty as the  *)
(* handlers that were busy before have reset them (Zeroed, Cleared).       *)
(* FileInv says which polygons the requests are.  The sums are over        *)
(* sequences of any length: what counts and flattens them is shown by      *)
(* induction, which the second part derives from the library's theorem     *)
(* that a set of finite sets has a minimal one.                            *)
(***************************************************************************)
EXTENDS QueryServers, WellFoundedInduction, FiniteSetTheorems, SequenceTheorems, TLAPS

IsSeq(s) == \E T : s \in Seq(T)
AllRequests == Clients \X Nat

\* The types the argument needs.
ServerTypes ==
  /\ program \in DOMAIN Programs /\ started \in Nat
  /\ asked = [c \in Clients |-> asked[c]] /\ answers = [c \in Clients |-> answers[c]]
  /\ replied = [c \in Clients |-> replied[c]]
  /\ \A c \in Clients : IsSeq(asked[c]) /\ IsSeq(answers[c])
  /\ serving = [t \in Threads |-> serving[t]] /\ todo = [t \in Threads |-> todo[t]]
  /\ host = [t \in Threads |-> host[t]] /\ reply_ = [t \in Threads |-> reply_[t]]
  /\ at \in [Threads -> Nat] /\ \A t \in Threads : "text" \in DOMAIN reply_[t]
  /\ IsSeq(text)

\* A request is in one place until its answer arrives.
Pending(r) == r[2] = Len(asked[r[1]]) /\ Len(answers[r[1]]) + 1 = r[2]
Waits(r) == r \in AllRequests /\ Pending(r) /\ replied[r[1]] = None
Placed ==
  /\ \A c \in Clients : Len(asked[c]) \in {Len(answers[c]), Len(answers[c]) + 1}
  /\ \A r \in waiting : Waits(r) /\ \A t \in Threads : serving[t] # r
  /\ \A t \in Busy : Waits(serving[t]) /\ \A u \in Threads : serving[u] = serving[t] => u = t
  /\ \A c \in Clients : replied[c] # None => Pending(<<c, Len(asked[c])>>)

Together == \A t, u \in Busy : t # u => {serving[t], serving[u]} \in overlaps

\* What the text of an answer to r may be about.
IsFresh(said_, r) ==
  \/ said_ = None
  \/ said_.about = r
  \/ {r, said_.about} \in overlaps
  \/ program = "exp5_dpu" /\ AllCandidates(geomStrings(r)) = <<>>

\* A handler calls the host between the start of its thread and its join, or
\* for a candidate.
Counts == program \in {"exp3_server", "exp4_server"}
Hosts(t) ==
  IF Offloads THEN at[t] \in {2, 3}
  ELSE program = "exp5_dpu" /\ serving[t] # None /\ at[t] = 1 /\ todo[t] # <<>>
Placing(t) ==
  /\ at[t] \in 1 .. Len(Program.proceed)
  /\ serving[t] = None => at[t] = 1 /\ reply_[t].text = None
  /\ host[t] # "idle" => Hosts(t)

\* The place of resetText.
Clears == IF Offloads THEN 6 ELSE 3

Cleared ==
  program # "exp5_dpu" =>
    \A i \in DOMAIN text : ~Counts /\ \E t \in Busy : serving[t] = text[i].about /\ at[t] <= Clears

Called(t) == LET all == AllCandidates(geomStrings(serving[t]))
             IN  IF at[t] = 1 THEN todo[t] # all ELSE all # <<>>
Told ==
  program = "exp5_dpu" =>
    \A t \in Busy : Called(t) => text # <<>> /\ IsFresh(Head(text), serving[t])

Said ==
  /\ \A t \in Busy : IsFresh(reply_[t].text, serving[t])
  /\ \A c \in Clients : replied[c] # None => IsFresh(replied[c].text, <<c, Len(asked[c])>>)
  /\ \A c \in Clients : \A n \in 1 .. Len(answers[c]) : IsFresh(answers[c][n].text, <<c, n>>)

TextInv == Cleared /\ Told /\ Said
FreshInv == ServerTypes /\ Placed /\ Together /\ (\A t \in Threads : Placing(t)) /\ TextInv
-----------------------------------------------------------------------------
\* The programs -------------------------------------------------------------

\* What each program does, in order.
LEMMA ProgramTable ==
  ASSUME ServerTypes
  PROVE  /\ Program.run = <<"listen", "tree", "handlers">>
         /\ Offloads => Program.callback = "count" /\ Program.proceed =
              <<"spawn", "query", "join", "setReply", "resetCount", "resetText", "finish">>
         /\ Counts => Program.callback = "count" /\ Program.proceed = <<"query", "setReply", "resetCount", "finish">>
         /\ program = "exp5_dpu" => Program.callback = "ask" /\ Program.proceed = <<"query", "setReply", "finish">>
         /\ program = "lb_mt_tfr_server" =>
              Program.callback = "push" /\ Program.proceed = <<"query", "testEmpty", "resetText", "finish">>
         /\ Offloads \/ Counts \/ program = "exp5_dpu" \/ program = "lb_mt_tfr_server"
<1>1. program \in {"exp3_server", "exp4_server", "exp4_dpu", "zzz_fpc", "exp5_dpu", "lb_mt_tfr_server"}
  BY DEF ServerTypes, Programs
<1>2. CASE program = "exp3_server"
  BY <1>2 DEF Program, Programs, Offloads, Counts, exp3_server, exp3_server_Run, exp3_server_Proceed
<1>3. CASE program = "exp4_server"
  BY <1>3 DEF Program, Programs, Offloads, Counts, exp4_server, exp4_server_Run, exp4_server_Proceed,
              exp3_server_Run, exp3_server_Proceed
<1>4. CASE program = "exp4_dpu"
  BY <1>4 DEF Program, Programs, Offloads, Counts, exp4_dpu, exp4_dpu_Run, exp4_dpu_Proceed
<1>5. CASE program = "zzz_fpc"
  BY <1>5 DEF Program, Programs, Offloads, Counts, zzz_fpc, zzz_fpc_Run, zzz_fpc_Proceed,
              exp4_dpu_Run, exp4_dpu_Proceed
<1>6. CASE program = "exp5_dpu"
  BY <1>6 DEF Program, Programs, Offloads, Counts, exp5_dpu, exp5_dpu_Run, exp5_dpu_Proceed
<1>7. CASE program = "lb_mt_tfr_server"
  BY <1>7 DEF Program, Programs, Offloads, Counts, lb_mt_tfr_server, lb_mt_tfr_server_Run,
              lb_mt_tfr_server_Proceed
<1> QED
  BY <1>1, <1>2, <1>3, <1>4, <1>5, <1>6, <1>7

\* Where a handler is in its program when it does an operation.
At(op) ==
  CASE op = "spawn" -> IF Offloads THEN {1} ELSE {}
    [] op = "query" -> IF Offloads THEN {2} ELSE {1}
    [] op = "join" -> IF Offloads THEN {3} ELSE {}
    [] op = "setReply" -> IF Offloads THEN {4} ELSE IF program = "lb_mt_tfr_server" THEN {} ELSE {2}
    [] op = "testEmpty" -> IF program = "lb_mt_tfr_server" THEN {2} ELSE {}
    [] op = "resetCount" -> IF Offloads THEN {5} ELSE IF Counts THEN {3} ELSE {}
    [] op = "resetText" -> IF Offloads THEN {6} ELSE IF program = "lb_mt_tfr_server" THEN {3} ELSE {}
    [] op = "finish" -> IF Offloads THEN {7} ELSE IF program = "exp5_dpu" THEN {3} ELSE {4}
Length == IF Offloads THEN 7 ELSE IF program = "exp5_dpu" THEN 3 ELSE 4

LEMMA DoingAt ==
  ASSUME ServerTypes, NEW t \in Threads, Placing(t),
         NEW op \in {"spawn", "query", "join", "setReply", "testEmpty", "resetCount", "resetText", "finish"}
  PROVE  Len(Program.proceed) = Length /\ (Doing(t, op) => serving[t] # None /\ at[t] \in At(op))
<1>1. CASE Offloads
  <2> DEFINE s == <<"spawn", "query", "join", "setReply", "resetCount", "resetText", "finish">>
  <2>1. Program.proceed = s
    BY <1>1, ProgramTable
  <2>2. Len(s) = 7 /\ \A i \in 1 .. 7 : s[i] = op => i \in At(op)
    BY <1>1 DEF At, Counts, Offloads
  <2>3. Length = 7
    BY <1>1 DEF Length, Counts, Offloads
  <2> HIDE DEF s
  <2> QED
    BY <2>1, <2>2, <2>3 DEF Doing, Placing
<1>2. CASE Counts
  <2> DEFINE s == <<"query", "setReply", "resetCount", "finish">>
  <2>1. Program.proceed = s
    BY <1>2, ProgramTable
  <2>2. Len(s) = 4 /\ \A i \in 1 .. 4 : s[i] = op => i \in At(op)
    BY <1>2 DEF At, Counts, Offloads
  <2>3. Length = 4
    BY <1>2 DEF Length, Counts, Offloads
  <2> HIDE DEF s
  <2> QED
    BY <2>1, <2>2, <2>3 DEF Doing, Placing
<1>3. CASE program = "exp5_dpu"
  <2> DEFINE s == <<"query", "setReply", "finish">>
  <2>1. Program.proceed = s
    BY <1>3, ProgramTable
  <2>2. Len(s) = 3 /\ \A i \in 1 .. 3 : s[i] = op => i \in At(op)
    BY <1>3 DEF At, Counts, Offloads
  <2>3. Length = 3
    BY <1>3 DEF Length, Counts, Offloads
  <2> HIDE DEF s
  <2> QED
    BY <2>1, <2>2, <2>3 DEF Doing, Placing
<1>4. CASE program = "lb_mt_tfr_server"
  <2> DEFINE s == <<"query", "testEmpty", "resetText", "finish">>
  <2>1. Program.proceed = s
    BY <1>4, ProgramTable
  <2>2. Len(s) = 4 /\ \A i \in 1 .. 4 : s[i] = op => i \in At(op)
    BY <1>4 DEF At, Counts, Offloads
  <2>3. Length = 4
    BY <1>4 DEF Length, Counts, Offloads
  <2> HIDE DEF s
  <2> QED
    BY <2>1, <2>2, <2>3 DEF Doing, Placing
<1> QED
  BY <1>1, <1>2, <1>3, <1>4, ProgramTable

\* Sequences, whatever their elements are.
LEMMA Appended ==
  ASSUME NEW s, IsSeq(s), NEW e
  PROVE  /\ IsSeq(Append(s, e)) /\ Len(s) \in Nat /\ Len(Append(s, e)) = Len(s) + 1
         /\ DOMAIN Append(s, e) = 1 .. Len(s) + 1 /\ DOMAIN s = 1 .. Len(s)
         /\ Append(s, e)[Len(s) + 1] = e /\ \A k \in 1 .. Len(s) : Append(s, e)[k] = s[k]
<1>1. PICK T : s \in Seq(T)
  BY DEF IsSeq
<1>2. s \in Seq(T \cup {e}) /\ Append(s, e) \in Seq(T \cup {e})
  BY <1>1
<1> QED
  BY <1>1, <1>2 DEF IsSeq

LEMMA Lengths ==
  ASSUME NEW s, IsSeq(s)
  PROVE  /\ Len(s) \in Nat /\ DOMAIN s = 1 .. Len(s)
         /\ s # <<>> => 1 \in DOMAIN s /\ Head(s) = s[1]
<1>1. PICK T : s \in Seq(T)
  BY DEF IsSeq
<1> QED
  BY <1>1

LEMMA Short == IsSeq(<<>>) /\ \A e : IsSeq(<<e>>) /\ <<e>> # <<>> /\ Head(<<e>>) = e /\ DOMAIN <<e>> = {1} /\ <<e>>[1] = e
<1>1. <<>> \in Seq({}) /\ \A e : <<e>> \in Seq({e})
  OBVIOUS
<1>2. \A e : <<e>> # <<>> /\ Head(<<e>>) = e /\ DOMAIN <<e>> = {1} /\ <<e>>[1] = e
  OBVIOUS
<1> QED
  BY <1>1, <1>2 DEF IsSeq

\* What is fresh stays so, as long as the request is as it was.
LEMMA FreshKept ==
  ASSUME NEW x, NEW r, IsFresh(x, r), overlaps \subseteq overlaps', program' = program, Polygons(r)' = Polygons(r)
  PROVE  IsFresh(x, r)'
<1>1. geomStrings(r)' = geomStrings(r)
  BY DEF geomStrings, Program
<1> QED
  BY <1>1 DEF IsFresh

LEMMA SameProgram ==
  ASSUME program' = program
  PROVE  /\ Program' = Program /\ Offloads' = Offloads /\ Counts' = Counts /\ Clears' = Clears
         /\ \A r : Polygons(r)' = Polygons(r) => geomStrings(r)' = geomStrings(r)
BY DEF Program, Offloads, Counts, Clears, geomStrings

LEMMA FreshInit == Init => FreshInv
<1> SUFFICES ASSUME Init PROVE FreshInv
  OBVIOUS
<1>1. program \in DOMAIN Programs
  BY ProgramsAssumption DEF Init
<1>2. \A c \in Clients : asked[c] = <<>> /\ answers[c] = <<>> /\ Len(asked[c]) = 0 /\ Len(answers[c]) = 0
  BY DEF Init
<1>3. ServerTypes
  BY <1>1, <1>2, Short DEF Init, ServerTypes, NoReply
<1>4. Busy = {} /\ waiting = {} /\ text = <<>> /\ DOMAIN text = {} /\ \A c \in Clients : replied[c] = None
  BY DEF Init, Busy
<1>5. Placed /\ Together
  BY <1>2, <1>4 DEF Placed, Together
<1>6. ASSUME NEW t \in Threads PROVE Placing(t)
  <2>1. Len(Program.proceed) \in {3, 4, 7}
    <3>1. Len(<<"spawn", "query", "join", "setReply", "resetCount", "resetText", "finish">>) = 7
          /\ Len(<<"query", "setReply", "resetCount", "finish">>) = 4 /\ Len(<<"query", "setReply", "finish">>) = 3
          /\ Len(<<"query", "testEmpty", "resetText", "finish">>) = 4
      OBVIOUS
    <3> QED
      BY <1>3, <3>1, ProgramTable
  <2>2. at[t] = 1 /\ host[t] = "idle" /\ reply_[t].text = None
    BY DEF Init, NoReply
  <2> QED
    BY <2>1, <2>2 DEF Placing
<1>7. TextInv
  BY <1>2, <1>4 DEF TextInv, Cleared, Told, Said
<1> QED
  BY <1>3, <1>5, <1>6, <1>7 DEF FreshInv
-----------------------------------------------------------------------------
\* The clients --------------------------------------------------------------

\* What a client does is of no concern to the handlers.
LEMMA ClientKeeps ==
  ASSUME FreshInv, UNCHANGED <<program, handlerVars, globals, overlaps>>,
         \A r \in AllRequests : r[2] \in 1 .. Len(asked[r[1]]) => Polygons(r)' = Polygons(r)
  PROVE  /\ \A t \in Threads : Placing(t)'
         /\ Busy' = Busy /\ Together' /\ Cleared'
         /\ \A t \in Busy : Called(t)' = Called(t) /\ Polygons(serving[t])' = Polygons(serving[t])
         /\ Told' /\ \A t \in Busy : IsFresh(reply_[t].text, serving[t])'
<1> USE DEF handlerVars, globals
<1>1. /\ Program' = Program /\ Offloads' = Offloads /\ Counts' = Counts /\ Clears' = Clears
      /\ \A r : Polygons(r)' = Polygons(r) => geomStrings(r)' = geomStrings(r)
  BY SameProgram
<1>2. Busy' = Busy
  BY DEF Busy
<1>3. ASSUME NEW t \in Threads PROVE Placing(t)'
  BY <1>1 DEF FreshInv, Placing, Hosts
<1>4. Together'
  BY <1>2 DEF FreshInv, Together
<1>5. Cleared'
  BY <1>1, <1>2 DEF FreshInv, TextInv, Cleared
<1>6. ASSUME NEW t \in Busy
      PROVE  Called(t)' = Called(t) /\ Polygons(serving[t])' = Polygons(serving[t])
  <2>1. serving[t] \in AllRequests /\ serving[t][2] = Len(asked[serving[t][1]])
        /\ Len(answers[serving[t][1]]) + 1 = serving[t][2] /\ IsSeq(answers[serving[t][1]])
    BY DEF FreshInv, Placed, Waits, Pending, ServerTypes, AllRequests
  <2>2. Len(answers[serving[t][1]]) \in Nat
    BY <2>1, Lengths
  <2>3. Polygons(serving[t])' = Polygons(serving[t])
    <3>1. serving[t][2] \in 1 .. Len(asked[serving[t][1]])
      BY <2>1, <2>2
    <3>2. PICK r \in AllRequests : r = serving[t]
      BY <2>1
    <3>3. Polygons(r)' = Polygons(r)
      BY <3>1, <3>2
    <3> QED
      BY <3>2, <3>3 DEF Polygons
  <2>4. geomStrings(serving[t])' = geomStrings(serving[t])
    BY <2>3, SameProgram DEF geomStrings
  <2> QED
    BY <2>3, <2>4 DEF Called
<1>7. ASSUME NEW t \in Busy, NEW x, IsFresh(x, serving[t]) PROVE IsFresh(x, serving[t])'
  BY <1>6, <1>7, FreshKept DEF IsFresh, geomStrings, Program
<1>8. Told'
  BY <1>2, <1>6, <1>7 DEF FreshInv, TextInv, Told
<1>9. \A t \in Busy : IsFresh(reply_[t].text, serving[t])'
  <2>1. \A t \in Busy : IsFresh(reply_[t].text, serving[t])
    BY DEF FreshInv, TextInv, Said
  <2> QED
    BY <1>7, <2>1 DEF IsFresh
<1> QED
  BY <1>2, <1>3, <1>4, <1>5, <1>6, <1>8, <1>9

\* A client sends a request when it has got the answer to the last.
LEMMA ReadLineStep ==
  ASSUME FreshInv, NEW c \in Clients, ReadLine(c)
  PROVE  FreshInv'
<1>1. /\ ServerTypes /\ Placed /\ Said /\ IsSeq(asked[c])
      /\ UNCHANGED <<program, started, hung, answers, dead, replied, handlerVars, globals, overlaps>>
      /\ Len(asked[c]) = Len(answers[c])
  BY DEF FreshInv, ServerTypes, TextInv, ReadLine
<1>2. \/ asked' = asked /\ waiting' = waiting
      \/ \E e : asked' = [asked EXCEPT ![c] = Append(@, e)] /\ waiting' = waiting \cup {<<c, Len(asked'[c])>>}
  BY DEF ReadLine
<1>3. /\ asked' = [d \in Clients |-> asked'[d]]
      /\ \A d \in Clients : /\ IsSeq(asked[d]) /\ IsSeq(asked'[d]) /\ Len(asked[d]) \in Nat
                            /\ \A n \in 1 .. Len(asked[d]) : asked'[d][n] = asked[d][n]
                            /\ d # c => asked'[d] = asked[d]
  <2>1. CASE asked' = asked
    BY <1>1, <2>1, Lengths DEF ServerTypes
  <2>2. CASE \E e : asked' = [asked EXCEPT ![c] = Append(@, e)]
    <3>1. PICK e : asked' = [asked EXCEPT ![c] = Append(@, e)]
      BY <2>2
    <3>2. asked' = [d \in Clients |-> IF d = c THEN Append(asked[c], e) ELSE asked[d]]
      BY <1>1, <3>1 DEF ServerTypes
    <3>3. IsSeq(Append(asked[c], e)) /\ \A n \in 1 .. Len(asked[c]) : Append(asked[c], e)[n] = asked[c][n]
      BY <1>1, Appended
    <3>4. \A d \in Clients : IsSeq(asked[d]) /\ Len(asked[d]) \in Nat
      BY <1>1, Lengths DEF ServerTypes
    <3> QED
      BY <3>2, <3>3, <3>4
  <2> QED
    BY <1>2, <2>1, <2>2
<1>4. \A r \in AllRequests : r[2] \in 1 .. Len(asked[r[1]]) => Polygons(r)' = Polygons(r)
  BY <1>3 DEF Polygons, AllRequests
<1>5. /\ \A t \in Threads : Placing(t)'
      /\ Busy' = Busy /\ Together' /\ Cleared' /\ Told' /\ \A t \in Busy : IsFresh(reply_[t].text, serving[t])'
  BY <1>1, <1>4, ClientKeeps
<1>6. ServerTypes'
  BY <1>1, <1>3 DEF ServerTypes, handlerVars, globals
\* Nothing of the client is anywhere.
<1>7. /\ replied[c] = None
      /\ \A r \in waiting : r[1] # c
      /\ \A t \in Busy : serving[t][1] # c
  <2>1. Len(answers[c]) \in Nat /\ ~(Len(answers[c]) + 1 = Len(asked[c]))
    BY <1>1, <1>3
  <2>2. \A k : ~Pending(<<c, k>>)
    BY <2>1 DEF Pending
  <2>3. \A r \in AllRequests : r[1] = c => r = <<c, r[2]>>
    BY DEF AllRequests
  <2>4. \A r : Waits(r) => r[1] # c
    BY <2>2, <2>3 DEF Waits
  <2>5. replied[c] = None
    BY <1>1, <2>2 DEF Placed
  <2>6. (\A r \in waiting : Waits(r)) /\ \A t \in Busy : Waits(serving[t])
    BY <1>1 DEF Placed
  <2> QED
    BY <2>4, <2>5, <2>6
<1>8. \A r : r[1] # c /\ Waits(r) => Waits(r)'
  BY <1>1, <1>3 DEF Waits, Pending, AllRequests
<1>9. Placed'
  <2>1. ASSUME NEW d \in Clients
        PROVE  /\ Len(asked'[d]) \in {Len(answers'[d]), Len(answers'[d]) + 1}
               /\ replied'[d] # None => Pending(<<d, Len(asked[d])>>)'
    <3>1. CASE d = c
      <4>1. Len(asked'[c]) \in {Len(asked[c]), Len(asked[c]) + 1}
        BY <1>1, <1>2, Appended DEF ServerTypes
      <4> QED
        BY <1>1, <1>7, <3>1, <4>1
    <3>2. CASE d # c
      BY <1>1, <1>3, <3>2 DEF Placed, Pending
    <3> QED
      BY <3>1, <3>2
  <2>2. ASSUME NEW r \in waiting' PROVE Waits(r)' /\ \A t \in Threads : serving'[t] # r
    <3>1. CASE r \in waiting
      BY <1>1, <1>7, <1>8, <3>1 DEF Placed, handlerVars
    <3>2. CASE r \notin waiting
      <4>1. PICK e : asked' = [asked EXCEPT ![c] = Append(@, e)] /\ r = <<c, Len(asked'[c])>>
        BY <1>2, <3>2
      <4>2. Len(asked'[c]) = Len(asked[c]) + 1
        BY <1>1, <4>1, Appended DEF ServerTypes
      <4>3. Waits(r)'
        BY <1>1, <1>3, <1>7, <4>1, <4>2 DEF Waits, Pending, AllRequests
      <4>4. \A t \in Threads : serving[t] # r
        <5>1. r # None /\ r[1] = c
          BY <4>1, <4>2, <1>3, ProgramsAssumption
        <5> QED
          BY <1>7, <5>1 DEF Busy
      <4> QED
        BY <1>1, <4>3, <4>4 DEF handlerVars
    <3> QED
      BY <3>1, <3>2
  <2>3. \A t \in Busy' : Waits(serving[t])' /\ \A u \in Threads : serving'[u] = serving'[t] => u = t
    BY <1>1, <1>5, <1>7, <1>8 DEF Placed, handlerVars
  <2> QED
    BY <2>1, <2>2, <2>3 DEF Placed
<1>10. ASSUME NEW d \in Clients, NEW n \in 1 .. Len(asked[d]), NEW x, IsFresh(x, <<d, n>>)
       PROVE  IsFresh(x, <<d, n>>)'
  <2>1. Polygons(<<d, n>>)' = Polygons(<<d, n>>)
    BY <1>3 DEF Polygons
  <2> QED
    BY <1>1, <1>10, <2>1, FreshKept
<1>11. Said'
  <2>1. ASSUME NEW d \in Clients, replied'[d] # None PROVE IsFresh(replied[d].text, <<d, Len(asked[d])>>)'
    <3>1. replied[d] # None /\ d # c /\ asked'[d] = asked[d] /\ replied' = replied
      BY <1>1, <1>3, <1>7, <2>1
    <3>2. Len(asked[d]) \in 1 .. Len(asked[d])
      <4>1. Len(asked[d]) = Len(answers[d]) + 1 /\ Len(answers[d]) \in Nat
        BY <1>1, <3>1, Lengths DEF Placed, Pending, ServerTypes
      <4> QED
        BY <4>1
    <3>3. PICK n \in 1 .. Len(asked[d]) : n = Len(asked[d])
      BY <3>2
    <3>4. PICK x : x = replied[d].text
      OBVIOUS
    <3>5. IsFresh(x, <<d, n>>)
      BY <1>1, <3>1, <3>3, <3>4 DEF Said
    <3>6. IsFresh(x, <<d, n>>)'
      BY <1>10, <3>5
    <3> QED
      BY <3>1, <3>3, <3>4, <3>6
  <2>2. ASSUME NEW d \in Clients, NEW n \in 1 .. Len(answers'[d]) PROVE IsFresh(answers[d][n].text, <<d, n>>)'
    <3>1. n \in 1 .. Len(answers[d]) /\ n \in 1 .. Len(asked[d]) /\ answers' = answers
      <4>1. Len(answers[d]) \in Nat /\ Len(asked[d]) \in {Len(answers[d]), Len(answers[d]) + 1} /\ answers' = answers
        BY <1>1, Lengths DEF Placed, ServerTypes
      <4> QED
        BY <4>1
    <3>2. PICK x : x = answers[d][n].text
      OBVIOUS
    <3>3. IsFresh(x, <<d, n>>)
      BY <1>1, <3>1, <3>2 DEF Said
    <3>4. IsFresh(x, <<d, n>>)'
      BY <1>10, <3>1, <3>3
    <3> QED
      BY <3>1, <3>2, <3>4
  <2> QED
    BY <1>5, <2>1, <2>2 DEF Said
<1> QED
  BY <1>5, <1>6, <1>9, <1>11 DEF FreshInv, TextInv

\* As long as no client sends anything, what is fresh stays so.
LEMMA AllKept ==
  ASSUME overlaps \subseteq overlaps', program' = program, asked' = asked
  PROVE  /\ \A x, r : IsFresh(x, r) => IsFresh(x, r)'
         /\ \A r : geomStrings(r)' = geomStrings(r)
<1>1. \A r : Polygons(r)' = Polygons(r)
  BY DEF Polygons
<1> QED
  BY <1>1, FreshKept, SameProgram

LEMMA StartUpStep == FreshInv /\ StartUp => FreshInv'
<1> SUFFICES ASSUME FreshInv, StartUp PROVE FreshInv'
  OBVIOUS
<1>1. /\ ServerTypes /\ Placed /\ Said /\ started' \in Nat
      /\ UNCHANGED <<program, hung, clientVars, waiting, replied, handlerVars, globals, overlaps>>
  BY DEF FreshInv, ServerTypes, TextInv, StartUp
<1>2. \A r : Polygons(r)' = Polygons(r)
  BY <1>1 DEF Polygons, clientVars
<1>3. /\ \A t \in Threads : Placing(t)'
      /\ Busy' = Busy /\ Together' /\ Cleared' /\ Told' /\ \A t \in Busy : IsFresh(reply_[t].text, serving[t])'
  BY <1>1, <1>2, ClientKeeps
<1>4. ServerTypes'
  BY <1>1 DEF ServerTypes, handlerVars, globals, clientVars
<1>5. Placed'
  BY <1>1, <1>3 DEF Placed, Waits, Pending, clientVars, handlerVars
<1>6. Said'
  BY <1>1, <1>3, AllKept DEF Said, clientVars, IsFresh
<1> QED
  BY <1>3, <1>4, <1>5, <1>6 DEF FreshInv, TextInv

\* The answer to a client's request arrives.
LEMMA ReceiveStep ==
  ASSUME FreshInv, NEW c \in Clients, Receive(c)
  PROVE  FreshInv'
<1>1. /\ ServerTypes /\ Placed /\ Said /\ IsSeq(answers[c])
      /\ UNCHANGED <<program, started, hung, line, batch, asked, waiting, handlerVars, globals, overlaps>>
      /\ replied[c] # None
  BY DEF FreshInv, ServerTypes, TextInv, Receive
<1>2. \A r : Polygons(r)' = Polygons(r)
  BY <1>1 DEF Polygons
<1>3. /\ \A t \in Threads : Placing(t)'
      /\ Busy' = Busy /\ Together' /\ Cleared' /\ Told' /\ \A t \in Busy : IsFresh(reply_[t].text, serving[t])'
  BY <1>1, <1>2, ClientKeeps
<1>4. /\ replied' = [d \in Clients |-> IF d = c THEN None ELSE replied[d]]
      /\ answers' = [d \in Clients |-> IF d = c THEN Append(answers[c], replied[c]) ELSE answers[d]]
  BY <1>1 DEF ServerTypes, Receive
<1>5. /\ Len(answers[c]) \in Nat /\ Len(answers'[c]) = Len(answers[c]) + 1 /\ Len(asked[c]) = Len(answers[c]) + 1
      /\ IsSeq(answers'[c]) /\ answers'[c][Len(answers[c]) + 1] = replied[c]
      /\ \A n \in 1 .. Len(answers[c]) : answers'[c][n] = answers[c][n]
  BY <1>1, <1>4, Appended DEF Placed, Pending
<1>6. ServerTypes'
  BY <1>1, <1>4, <1>5 DEF ServerTypes, handlerVars, globals
<1>7. \A r : Waits(r) => r[1] # c /\ Waits(r)'
  BY <1>1, <1>4 DEF Waits, Pending, AllRequests
<1>8. Placed'
  <2>1. \A d \in Clients : /\ Len(asked'[d]) \in {Len(answers'[d]), Len(answers'[d]) + 1}
                           /\ replied'[d] # None => Pending(<<d, Len(asked[d])>>)'
    BY <1>1, <1>4, <1>5 DEF Placed, Pending
  <2> QED
    BY <1>1, <1>3, <1>7, <2>1 DEF Placed, handlerVars
<1>9. \A x, r : IsFresh(x, r) => IsFresh(x, r)'
  BY <1>1, AllKept
<1>10. Said'
  <2>1. ASSUME NEW d \in Clients, replied'[d] # None PROVE IsFresh(replied[d].text, <<d, Len(asked[d])>>)'
    <3>1. d # c /\ replied'[d] = replied[d] /\ asked' = asked
      BY <1>1, <1>4, <2>1
    <3>2. PICK x, n : x = replied[d].text /\ n = Len(asked[d])
      OBVIOUS
    <3>3. IsFresh(x, <<d, n>>)'
      BY <1>1, <1>9, <2>1, <3>1, <3>2 DEF Said
    <3> QED
      BY <3>1, <3>2, <3>3
  <2>2. ASSUME NEW d \in Clients, NEW n \in 1 .. Len(answers'[d]) PROVE IsFresh(answers[d][n].text, <<d, n>>)'
    <3>1. PICK x : x = answers'[d][n].text
      OBVIOUS
    <3>2. IsFresh(x, <<d, n>>)
      <4>1. CASE d = c /\ n = Len(answers[c]) + 1
        <5>1. x = replied[c].text /\ n = Len(asked[c])
          BY <1>4, <1>5, <3>1, <4>1
        <5> QED
          BY <1>1, <4>1, <5>1 DEF Said
      <4>2. CASE d = c /\ n # Len(answers[c]) + 1
        <5>1. n \in 1 .. Len(answers[c]) /\ answers'[d][n] = answers[d][n]
          BY <1>5, <4>2
        <5> QED
          BY <1>1, <3>1, <4>2, <5>1 DEF Said
      <4>3. CASE d # c
        BY <1>1, <1>4, <3>1, <4>3 DEF Said
      <4> QED
        BY <4>1, <4>2, <4>3
    <3>3. IsFresh(x, <<d, n>>)'
      BY <1>9, <3>2
    <3> QED
      BY <3>1, <3>3
  <2> QED
    BY <1>3, <2>1, <2>2 DEF Said
<1> QED
  BY <1>3, <1>6, <1>8, <1>10 DEF FreshInv, TextInv
-----------------------------------------------------------------------------
\* The handlers -------------------------------------------------------------

\* A handler takes a request: it overlaps those of all busy handlers.
LEMMA TakeStep ==
  ASSUME FreshInv, NEW t \in Threads, Take(t)
  PROVE  FreshInv'
<1>1. PICK r \in waiting :
        /\ waiting' = waiting \ {r} /\ serving' = [serving EXCEPT ![t] = r] /\ at' = [at EXCEPT ![t] = 1]
        /\ todo' = [todo EXCEPT ![t] = IF Loaded THEN AllCandidates(Here(r)) ELSE <<>>]
        /\ overlaps' = overlaps \cup {{r, serving[u]} : u \in Busy}
  BY DEF Take
<1>2. /\ ServerTypes /\ Placed /\ Together /\ Said /\ Cleared /\ Told /\ (\A u \in Threads : Placing(u))
      /\ UNCHANGED <<program, started, hung, clientVars, replied, mid, count, said, reply_, host, storing, globals>>
      /\ serving[t] = None /\ Serving
  BY DEF FreshInv, TextInv, Take
<1>3. Waits(r) /\ r \in AllRequests /\ r # None /\ \A u \in Threads : serving[u] # r
  BY <1>2, ProgramsAssumption DEF Placed, Waits, AllRequests
<1>4. /\ serving' = [u \in Threads |-> IF u = t THEN r ELSE serving[u]]
      /\ at' = [u \in Threads |-> IF u = t THEN 1 ELSE at[u]]
      /\ todo' = [u \in Threads |-> IF u = t THEN IF Loaded THEN AllCandidates(Here(r)) ELSE <<>> ELSE todo[u]]
  BY <1>1, <1>2 DEF ServerTypes
<1>5. Busy' = Busy \cup {t} /\ t \notin Busy
  BY <1>2, <1>3, <1>4 DEF Busy
<1>6. ServerTypes'
  BY <1>2, <1>4 DEF ServerTypes, clientVars, globals
<1>7. \A q : Waits(q)' <=> Waits(q)
  BY <1>2 DEF Waits, Pending, clientVars
<1>8. Placed'
  BY <1>1, <1>2, <1>3, <1>4, <1>5, <1>7 DEF Placed, Pending, clientVars, Busy
<1>9. Together'
  <2>1. \A u \in Busy : {r, serving[u]} \in overlaps' /\ {serving[u], r} = {r, serving[u]}
    BY <1>1
  <2>2. ASSUME NEW u \in Busy', NEW v \in Busy', u # v PROVE {serving'[u], serving'[v]} \in overlaps'
    BY <1>1, <1>2, <1>4, <1>5, <2>1, <2>2 DEF Together, Busy
  <2> QED
    BY <2>2 DEF Together
<1>10. /\ Program' = Program /\ Offloads' = Offloads /\ Counts' = Counts /\ Clears' = Clears
  BY <1>2, SameProgram
<1>11. \A u \in Threads : Placing(u)'
  BY <1>2, <1>4, <1>10, <1>3 DEF Placing, Hosts
<1>12. Cleared'
  <2>1. ASSUME program # "exp5_dpu", NEW i \in DOMAIN text
        PROVE  ~Counts /\ \E u \in Busy' : serving'[u] = text[i].about /\ at'[u] <= Clears
    <3>1. ~Counts /\ \E u \in Busy : serving[u] = text[i].about /\ at[u] <= Clears
      BY <1>2, <2>1 DEF Cleared
    <3> QED
      BY <1>4, <1>5, <3>1 DEF Busy
  <2> QED
    BY <1>2, <1>10, <2>1 DEF Cleared, globals
<1>13. (\A x, q : IsFresh(x, q) => IsFresh(x, q)') /\ \A q : geomStrings(q)' = geomStrings(q)
  BY <1>1, <1>2, AllKept DEF clientVars
<1>14. Told'
  <2>1. ASSUME program = "exp5_dpu", NEW u \in Busy', Called(u)'
        PROVE  text' # <<>> /\ IsFresh(Head(text), serving[u])'
    <3>1. CASE u = t
      <4>1. Loaded
        <5>1. PICK k \in 1 .. started - 1 : Program.run[k] = "handlers"
          BY <1>2 DEF Serving
        <5>2. Program.run = <<"listen", "tree", "handlers">>
          BY <1>2, ProgramTable
        <5>3. k # 1 /\ k # 2 /\ Program.run[2] = "tree"
          BY <5>1, <5>2
        <5>4. 2 \in 1 .. started - 1
          <6>1. PICK s \in Nat : s = started
            BY <1>2 DEF ServerTypes
          <6>2. k \in 1 .. s - 1 /\ k # 1 /\ k # 2
            BY <5>1, <5>3, <6>1
          <6>3. 2 \in 1 .. s - 1
            BY ONLY <6>2, s \in Nat
          <6> QED
            BY <6>1, <6>3
        <5> QED
          BY <5>3, <5>4 DEF Loaded
      <4>2. ~Offloads
        BY <2>1 DEF Offloads
      <4>3. todo'[t] = AllCandidates(geomStrings(r))
        BY <1>4, <4>1, <4>2 DEF Here
      <4>4. at'[t] = 1 /\ serving'[t] = r /\ geomStrings(r)' = geomStrings(r)
        BY <1>4, <1>13
      <4> QED
        BY <2>1, <3>1, <4>3, <4>4 DEF Called
    <3>2. CASE u # t
      <4>1. u \in Busy /\ serving'[u] = serving[u] /\ at'[u] = at[u] /\ todo'[u] = todo[u] /\ text' = text
        BY <1>2, <1>4, <1>5, <3>2 DEF Busy, globals
      <4>2. PICK q : q = serving[u] /\ geomStrings(q)' = geomStrings(q)
        BY <1>13
      <4>3. Called(u)
        BY <2>1, <4>1, <4>2 DEF Called
      <4>4. text # <<>> /\ IsFresh(Head(text), q)
        BY <1>2, <2>1, <4>1, <4>2, <4>3 DEF Told
      <4>5. PICK x : x = Head(text)
        OBVIOUS
      <4>6. IsFresh(x, q)'
        BY <1>13, <4>4, <4>5
      <4> QED
        BY <4>1, <4>2, <4>4, <4>5, <4>6
    <3> QED
      BY <3>1, <3>2
  <2> QED
    BY <1>2, <2>1 DEF Told
<1>15. Said'
  <2>1. ASSUME NEW u \in Busy' PROVE IsFresh(reply_[u].text, serving[u])'
    <3>1. CASE u = t
      <4>1. reply_'[t].text = None
        BY <1>2 DEF Placing
      <4> QED
        BY <3>1, <4>1 DEF IsFresh
    <3>2. CASE u # t
      <4>1. u \in Busy /\ serving'[u] = serving[u] /\ reply_' = reply_
        BY <1>2, <1>4, <1>5, <3>2 DEF Busy
      <4>2. PICK x, q : x = reply_[u].text /\ q = serving[u]
        OBVIOUS
      <4>3. IsFresh(x, q)'
        BY <1>2, <1>13, <4>1, <4>2 DEF Said
      <4> QED
        BY <4>1, <4>2, <4>3
    <3> QED
      BY <3>1, <3>2
  <2>2. \A d \in Clients : replied'[d] # None => IsFresh(replied[d].text, <<d, Len(asked[d])>>)'
    BY <1>2, <1>13 DEF Said, clientVars, IsFresh
  <2>3. \A d \in Clients : \A n \in 1 .. Len(answers'[d]) : IsFresh(answers[d][n].text, <<d, n>>)'
    BY <1>2, <1>13 DEF Said, clientVars, IsFresh
  <2> QED
    BY <2>1, <2>2, <2>3 DEF Said
<1> QED
  BY <1>6, <1>8, <1>9, <1>11, <1>12, <1>14, <1>15 DEF FreshInv, TextInv

\* What a handler does inside a request concerns only itself and the globals.
OnlyOf(t) ==
  /\ UNCHANGED <<program, started, clientVars, waiting, replied, serving, overlaps>>
  /\ at' = [u \in Threads |-> IF u = t THEN at'[t] ELSE at[u]]
  /\ todo' = [u \in Threads |-> IF u = t THEN todo'[t] ELSE todo[u]]
  /\ host' = [u \in Threads |-> IF u = t THEN host'[t] ELSE host[u]]
  /\ reply_' = [u \in Threads |-> IF u = t THEN reply_'[t] ELSE reply_[u]]

LEMMA HandlerStep ==
  ASSUME FreshInv, NEW t \in Threads, OnlyOf(t), at'[t] \in Nat, "text" \in DOMAIN reply_'[t], IsSeq(text'),
         Placing(t)', Cleared', Told', NEW x, x = reply_'[t].text, t \in Busy => IsFresh(x, serving[t])
  PROVE  FreshInv'
<1>1. /\ ServerTypes /\ Placed /\ Together /\ Said /\ \A u \in Threads : Placing(u)
      /\ UNCHANGED <<program, started, clientVars, waiting, replied, serving, overlaps>>
  BY DEF FreshInv, TextInv, OnlyOf
<1>2. /\ Program' = Program /\ Offloads' = Offloads
      /\ (\A y, q : IsFresh(y, q) => IsFresh(y, q)')
  BY <1>1, SameProgram, AllKept DEF clientVars
<1>3. Busy' = Busy
  BY <1>1 DEF Busy
<1>4. ServerTypes'
  BY <1>1 DEF ServerTypes, OnlyOf, clientVars
<1>5. Placed'
  BY <1>1, <1>3 DEF Placed, Waits, Pending, clientVars
<1>6. Together'
  BY <1>1, <1>3 DEF Together
<1>7. ASSUME NEW u \in Threads PROVE Placing(u)'
  <2>1. CASE u = t
    BY <2>1
  <2>2. CASE u # t
    <3>1. at'[u] = at[u] /\ todo'[u] = todo[u] /\ host'[u] = host[u] /\ reply_'[u] = reply_[u]
      BY <2>2 DEF OnlyOf
    <3> QED
      BY <1>1, <1>2, <3>1 DEF Placing, Hosts
  <2> QED
    BY <2>1, <2>2
<1>8. Said'
  <2>1. ASSUME NEW u \in Busy' PROVE IsFresh(reply_[u].text, serving[u])'
    <3>1. PICK y, q : y = reply_'[u].text /\ q = serving[u]
      OBVIOUS
    <3>2. IsFresh(y, q)
      <4>1. CASE u = t
        BY <1>3, <3>1, <4>1
      <4>2. CASE u # t
        <5>1. reply_'[u] = reply_[u]
          BY <1>3, <4>2 DEF OnlyOf, Busy
        <5> QED
          BY <1>1, <1>3, <3>1, <5>1 DEF Said
      <4> QED
        BY <4>1, <4>2
    <3>3. IsFresh(y, q)'
      BY <1>2, <3>2
    <3> QED
      BY <1>1, <3>1, <3>3
  <2>2. \A d \in Clients : replied'[d] # None => IsFresh(replied[d].text, <<d, Len(asked[d])>>)'
    BY <1>1, <1>2 DEF Said, clientVars, IsFresh
  <2>3. \A d \in Clients : \A n \in 1 .. Len(answers'[d]) : IsFresh(answers[d][n].text, <<d, n>>)'
    BY <1>1, <1>2 DEF Said, clientVars, IsFresh
  <2> QED
    BY <2>1, <2>2, <2>3 DEF Said
<1> QED
  BY <1>4, <1>5, <1>6, <1>7, <1>8 DEF FreshInv, TextInv

\* A step that leaves the text alone need only not go past resetText, and call
\* no callback of exp5_dpu.
LEMMA TextKept ==
  ASSUME FreshInv, NEW t \in Threads, OnlyOf(t), text' = text,
         t \in Busy /\ at[t] <= Clears => at'[t] <= Clears \/ program = "exp5_dpu" \/ text = <<>>,
         program = "exp5_dpu" /\ t \in Busy /\ Called(t)' => Called(t)
  PROVE  Cleared' /\ Told' /\ IsSeq(text')
<1>1. /\ Cleared /\ Told /\ IsSeq(text)
      /\ UNCHANGED <<program, started, clientVars, waiting, replied, serving, overlaps>>
  BY DEF FreshInv, TextInv, ServerTypes, OnlyOf
<1>2. /\ Counts' = Counts /\ Clears' = Clears
      /\ (\A y, q : IsFresh(y, q) => IsFresh(y, q)') /\ \A q : geomStrings(q)' = geomStrings(q)
  BY <1>1, SameProgram, AllKept DEF clientVars
<1>3. Busy' = Busy
  BY <1>1 DEF Busy
<1>4. Cleared'
  <2>1. ASSUME program # "exp5_dpu", NEW i \in DOMAIN text
        PROVE  ~Counts /\ \E u \in Busy : serving[u] = text[i].about /\ at'[u] <= Clears
    <3>1. ~Counts
      BY <1>1, <2>1 DEF Cleared
    <3>2. PICK u \in Busy : serving[u] = text[i].about /\ at[u] <= Clears
      BY <1>1, <2>1 DEF Cleared
    <3>3. text # <<>>
      BY <1>1, <2>1, Lengths
    <3>4. at'[u] <= Clears
      <4>1. CASE u = t
        BY <2>1, <3>2, <3>3, <4>1
      <4>2. CASE u # t
        BY <3>2, <4>2 DEF OnlyOf, Busy
      <4> QED
        BY <4>1, <4>2
    <3> QED
      BY <3>1, <3>2, <3>4
  <2> QED
    BY <1>1, <1>2, <1>3, <2>1 DEF Cleared
<1>5. Told'
  <2>1. ASSUME program = "exp5_dpu", NEW u \in Busy, Called(u)'
        PROVE  text # <<>> /\ IsFresh(Head(text), serving[u])'
    <3>1. Called(u)
      <4>1. CASE u = t
        BY <2>1, <4>1
      <4>2. CASE u # t
        <5>1. at'[u] = at[u] /\ todo'[u] = todo[u] /\ serving' = serving
          BY <1>1, <4>2 DEF OnlyOf, Busy
        <5>2. PICK q : q = serving[u] /\ geomStrings(q)' = geomStrings(q)
          BY <1>2
        <5> QED
          BY <2>1, <5>1, <5>2 DEF Called
      <4> QED
        BY <4>1, <4>2
    <3>2. PICK y, q : y = Head(text) /\ q = serving[u]
      OBVIOUS
    <3>3. text # <<>> /\ IsFresh(y, q)
      BY <1>1, <2>1, <3>1, <3>2 DEF Told
    <3>4. IsFresh(y, q)'
      BY <1>2, <3>3
    <3> QED
      BY <1>1, <3>2, <3>3, <3>4
  <2> QED
    BY <1>1, <1>3, <2>1 DEF Told
<1> QED
  BY <1>1, <1>4, <1>5

\* So a step that leaves the text alone keeps everything, if its handler stays
\* in its program and has no reply that is not fresh.
LEMMA PlainStep ==
  ASSUME FreshInv, NEW t \in Threads, OnlyOf(t), text' = text,
         at'[t] \in 1 .. Length, serving[t] = None => at'[t] = 1 /\ reply_'[t].text = None,
         host'[t] # "idle" => Hosts(t)',
         "text" \in DOMAIN reply_'[t], t \in Busy => reply_'[t].text = reply_[t].text \/
                                         \E x : x = reply_'[t].text /\ IsFresh(x, serving[t]),
         t \in Busy /\ at[t] <= Clears => at'[t] <= Clears \/ program = "exp5_dpu" \/ text = <<>>,
         program = "exp5_dpu" /\ t \in Busy /\ Called(t)' => Called(t)
  PROVE  FreshInv'
<1>1. Cleared' /\ Told' /\ IsSeq(text')
  BY TextKept
<1>2. ServerTypes /\ Placing(t) /\ Said /\ program' = program /\ serving' = serving
  BY DEF FreshInv, TextInv, OnlyOf
<1>3. Program' = Program /\ Len(Program.proceed) = Length
  BY <1>2, SameProgram, DoingAt
<1>4. Placing(t)'
  BY <1>2, <1>3 DEF Placing
<1>5. PICK x : x = reply_'[t].text
  OBVIOUS
<1>6. t \in Busy => IsFresh(x, serving[t])
  BY <1>2, <1>5 DEF Said
<1>7. at'[t] \in Nat
  BY <1>2, <1>3 DEF Length
<1> QED
  BY <1>1, <1>4, <1>5, <1>6, <1>7, HandlerStep

\* The facts about an operation of a handler that is doing it.
LEMMA Doer ==
  ASSUME FreshInv, NEW t \in Threads,
         NEW op \in {"spawn", "query", "join", "setReply", "testEmpty", "resetCount", "resetText", "finish"},
         Doing(t, op)
  PROVE  /\ t \in Busy /\ at[t] \in At(op) /\ at[t] \in 1 .. Length /\ at[t] \in Nat
         /\ host[t] # "idle" => Hosts(t)
         /\ IsFresh(reply_[t].text, serving[t])
<1>1. ServerTypes /\ Placing(t) /\ Said
  BY DEF FreshInv, TextInv
<1>2. Len(Program.proceed) = Length /\ serving[t] # None /\ at[t] \in At(op)
  BY <1>1, DoingAt
<1> QED
  BY <1>1, <1>2 DEF Placing, Busy, Said, ServerTypes

LEMMA OnlyOfTypes ==
  ASSUME FreshInv, NEW t \in Threads,
         UNCHANGED <<program, started, clientVars, waiting, replied, serving, overlaps>>,
         at' = at \/ \E a : at' = [at EXCEPT ![t] = a],
         todo' = todo \/ \E a : todo' = [todo EXCEPT ![t] = a],
         host' = host \/ \E a : host' = [host EXCEPT ![t] = a],
         reply_' = reply_ \/ \E a : reply_' = [reply_ EXCEPT ![t] = a]
  PROVE  OnlyOf(t)
<1>1. ServerTypes
  BY DEF FreshInv
<1>2. at' = [u \in Threads |-> IF u = t THEN at'[t] ELSE at[u]]
  BY <1>1 DEF ServerTypes
<1>3. todo' = [u \in Threads |-> IF u = t THEN todo'[t] ELSE todo[u]]
  BY <1>1 DEF ServerTypes
<1>4. host' = [u \in Threads |-> IF u = t THEN host'[t] ELSE host[u]]
  BY <1>1 DEF ServerTypes
<1>5. reply_' = [u \in Threads |-> IF u = t THEN reply_'[t] ELSE reply_[u]]
  BY <1>1 DEF ServerTypes
<1> QED
  BY <1>2, <1>3, <1>4, <1>5 DEF OnlyOf

\* A handler calls a callback only for its own candidates.
LEMMA CalledKept ==
  ASSUME NEW t, UNCHANGED <<program, asked, serving, at, todo>>
  PROVE  Called(t)' = Called(t) /\ Hosts(t)' = Hosts(t)
<1>1. \A q : geomStrings(q)' = geomStrings(q)
  BY SameProgram DEF Polygons
<1> QED
  BY <1>1, SameProgram DEF Called, Hosts

\* Steps after which the handler is where it was.
LEMMA QuietStep ==
  ASSUME FreshInv, NEW t \in Threads,
         UNCHANGED <<program, started, clientVars, waiting, replied, serving, overlaps, at, todo, reply_, text>>,
         host' = host \/ \E a : host' = [host EXCEPT ![t] = a],
         host'[t] # "idle" => host[t] # "idle" \/ Hosts(t)
  PROVE  FreshInv'
<1>1. ServerTypes /\ Placing(t) /\ Len(Program.proceed) = Length
  BY DoingAt DEF FreshInv
<1>2. OnlyOf(t)
  BY OnlyOfTypes
<1>3. Called(t)' = Called(t) /\ Hosts(t)' = Hosts(t)
  BY CalledKept DEF clientVars
<1> QED
  BY <1>1, <1>2, <1>3, PlainStep DEF Placing, ServerTypes

LEMMA QuietSteps ==
  ASSUME FreshInv, NEW t \in Threads, SayHello(t) \/ BeginWrite(t) \/ Undefined(t)
  PROVE  FreshInv'
<1>1. UNCHANGED <<program, started, clientVars, waiting, replied, serving, overlaps, at, todo, reply_, text>>
  BY DEF SayHello, BeginWrite, Undefined, handlerVars, globals
<1>2. host' = host \/ \E a : host' = [host EXCEPT ![t] = a]
  BY DEF SayHello, BeginWrite, Undefined, handlerVars
<1>3. host' = host \/ host[t] = "asked"
  BY DEF SayHello, BeginWrite, Undefined, handlerVars
<1>4. host'[t] # "idle" => host[t] # "idle"
  BY <1>3
<1> QED
  BY <1>1, <1>2, <1>4, QuietStep

LEMMA CallHostStep ==
  ASSUME FreshInv, NEW t \in Threads, CallHost(t)
  PROVE  FreshInv'
<1>1. /\ UNCHANGED <<program, started, clientVars, waiting, replied, serving, overlaps, todo, reply_, text>>
      /\ host' = [host EXCEPT ![t] = "asked"]
  BY DEF CallHost, globals
<1>2. ServerTypes
  BY DEF FreshInv
<1>3. CASE Doing(t, "query") /\ Program.callback = "ask" /\ todo[t] # <<>> /\ at' = at
  <2>1. t \in Busy /\ at[t] \in At("query")
    BY <1>3, Doer
  <2>2. program = "exp5_dpu" /\ ~Offloads
    BY <1>2, <1>3, ProgramTable DEF Offloads
  <2>3. Hosts(t)
    BY <1>3, <2>1, <2>2 DEF Hosts, At, Busy
  <2> QED
    BY <1>1, <1>3, <2>3, QuietStep
<1>4. CASE Doing(t, "spawn") /\ Goes(t)
  <2>1. t \in Busy /\ at[t] \in At("spawn") /\ at[t] \in 1 .. Length
    BY <1>4, Doer
  <2>2. Offloads /\ at[t] = 1 /\ Length = 7 /\ Clears = 6 /\ program # "exp5_dpu"
    BY <2>1 DEF At, Length, Clears, Offloads
  <2>3. at'[t] = 2
    BY <1>2, <1>4, <2>2 DEF Goes, ServerTypes
  <2>4. Hosts(t)'
    BY <1>1, <2>2, <2>3, SameProgram DEF Hosts
  <2>5. OnlyOf(t)
    BY <1>1, <1>4, OnlyOfTypes DEF Goes
  <2>6. "text" \in DOMAIN reply_'[t] /\ reply_'[t].text = reply_[t].text
    BY <1>1, <1>2 DEF ServerTypes
  <2> QED
    BY <1>1, <2>1, <2>2, <2>3, <2>4, <2>5, <2>6, PlainStep DEF Busy
<1> QED
  BY <1>3, <1>4 DEF CallHost

LEMMA CountStep ==
  ASSUME FreshInv, NEW t \in Threads, intersect_callback_counts(t)
  PROVE  FreshInv'
<1>1. /\ UNCHANGED <<program, started, clientVars, waiting, replied, serving, overlaps, at, host, reply_, text>>
      /\ Doing(t, "query") /\ Program.callback = "count"
  BY DEF intersect_callback_counts
<1>2. todo' = todo \/ \E a : todo' = [todo EXCEPT ![t] = a]
  BY DEF intersect_callback_counts
<1>3. ServerTypes
  BY DEF FreshInv
<1>4. program # "exp5_dpu"
  BY <1>1, <1>3, ProgramTable
<1>5. t \in Busy /\ at[t] \in 1 .. Length /\ (host[t] # "idle" => Hosts(t))
  BY <1>1, Doer
<1>6. Hosts(t)' = Hosts(t)
  BY <1>1, <1>4, SameProgram DEF Hosts
<1>7. OnlyOf(t)
  BY <1>1, <1>2, OnlyOfTypes
<1>8. "text" \in DOMAIN reply_'[t]
  BY <1>1, <1>3 DEF ServerTypes
<1> QED
  BY <1>1, <1>4, <1>5, <1>6, <1>7, <1>8, PlainStep DEF Busy

LEMMA EndQueryStep ==
  ASSUME FreshInv, NEW t \in Threads, EndQuery(t)
  PROVE  FreshInv'
<1>1. /\ UNCHANGED <<program, started, clientVars, waiting, replied, serving, overlaps, todo, reply_, text>>
      /\ at' = [at EXCEPT ![t] = @ + 1]
      /\ host' = host \/ \E a : host' = [host EXCEPT ![t] = a]
  BY DEF EndQuery, globals, Goes
<1>2. ServerTypes
  BY DEF FreshInv
<1>3. OnlyOf(t)
  BY <1>1, OnlyOfTypes
<1>4. "text" \in DOMAIN reply_'[t] /\ reply_'[t].text = reply_[t].text /\ at'[t] = at[t] + 1
  BY <1>1, <1>2 DEF ServerTypes
<1>5. CASE Doing(t, "query") /\ todo[t] = <<>> /\ host' = host
  <2>1. t \in Busy /\ at[t] \in At("query") /\ at[t] \in 1 .. Length /\ (host[t] # "idle" => Hosts(t))
    BY <1>5, Doer
  <2>2. at[t] = IF Offloads THEN 2 ELSE 1
    BY <2>1 DEF At
  <2>3. at'[t] \in 1 .. Length /\ at'[t] <= Clears
    BY <1>4, <2>2 DEF Length, Clears, Offloads
  <2>4. host'[t] # "idle" => Hosts(t)'
    <3>1. CASE Offloads
      BY <1>1, <1>4, <2>2, <3>1, SameProgram DEF Hosts
    <3>2. CASE ~Offloads
      BY <1>5, <2>1, <3>2 DEF Hosts
    <3> QED
      BY <3>1, <3>2
  <2>5. program = "exp5_dpu" /\ Called(t)' => Called(t)
    <3>1. \A q : geomStrings(q)' = geomStrings(q)
      BY <1>1, AllKept DEF clientVars
    <3>2. PICK q : q = serving[t] /\ geomStrings(q)' = geomStrings(q)
      BY <3>1
    <3>3. program = "exp5_dpu" => at[t] = 1 /\ at'[t] = 2
      BY <1>4, <2>2 DEF Offloads
    <3> QED
      BY <1>1, <1>5, <3>2, <3>3 DEF Called
  <2> QED
    BY <1>1, <1>3, <1>4, <2>1, <2>3, <2>4, <2>5, PlainStep DEF Busy
<1>6. CASE Doing(t, "join") /\ host' = [host EXCEPT ![t] = "idle"]
  <2>1. t \in Busy /\ at[t] \in At("join")
    BY <1>6, Doer
  <2>2. at[t] = 3 /\ Offloads /\ Length = 7 /\ Clears = 6 /\ program # "exp5_dpu"
    BY <2>1 DEF At, Length, Clears, Offloads
  <2>3. host'[t] = "idle"
    BY <1>2, <1>6 DEF ServerTypes
  <2> QED
    BY <1>1, <1>3, <1>4, <2>1, <2>2, <2>3, PlainStep DEF Busy
<1> QED
  BY <1>5, <1>6 DEF EndQuery

\* The texts of others in the global are of requests processed at this time.
LEMMA HeadFresh ==
  ASSUME FreshInv, NEW t \in Busy, program # "exp5_dpu", text # <<>>
  PROVE  IsFresh(Head(text), serving[t])
<1>1. Cleared /\ Together /\ IsSeq(text)
  BY DEF FreshInv, TextInv, ServerTypes
<1>2. 1 \in DOMAIN text /\ Head(text) = text[1]
  BY <1>1, Lengths
<1>3. PICK u \in Busy : serving[u] = text[1].about
  BY <1>1, <1>2 DEF Cleared
<1>4. u # t => {serving[t], serving[u]} \in overlaps
  BY <1>1 DEF Together
<1> QED
  BY <1>2, <1>3, <1>4 DEF IsFresh

LEMMA FrontOrNoneStep ==
  ASSUME FreshInv, NEW t \in Threads, FrontOrNone(t)
  PROVE  FreshInv'
<1>1. /\ UNCHANGED <<program, started, clientVars, waiting, replied, serving, overlaps, todo, host, text>>
      /\ Doing(t, "testEmpty")
  BY DEF FrontOrNone, globals
<1>2. \/ UNCHANGED <<at, reply_>>
      \/ text # <<>> /\ reply_' = [reply_ EXCEPT ![t].text = Head(text)] /\ at' = [at EXCEPT ![t] = @ + 1]
      \/ reply_' = reply_ /\ at' = [at EXCEPT ![t] = @ + 1]
  BY DEF FrontOrNone, Goes
<1>3. ServerTypes
  BY DEF FreshInv
<1>4. t \in Busy /\ at[t] \in At("testEmpty") /\ (host[t] # "idle" => Hosts(t))
  BY <1>1, Doer
<1>5. program = "lb_mt_tfr_server" /\ at[t] = 2 /\ Length = 4 /\ Clears = 3 /\ ~Offloads
  BY <1>4 DEF At, Length, Clears, Offloads
<1>6. host'[t] = "idle"
  BY <1>1, <1>4, <1>5 DEF Hosts
<1>7. OnlyOf(t)
  <2>1. reply_' = reply_ \/ \E a : reply_' = [reply_ EXCEPT ![t] = a]
    BY <1>2
  <2>2. at' = at \/ \E a : at' = [at EXCEPT ![t] = a]
    BY <1>2
  <2> QED
    BY <1>1, <2>1, <2>2, OnlyOfTypes
<1>8. at'[t] \in {2, 3}
  BY <1>2, <1>3, <1>5 DEF ServerTypes
<1>9. "text" \in DOMAIN reply_'[t] /\ (reply_'[t].text = reply_[t].text \/ (text # <<>> /\ reply_'[t].text = Head(text)))
  <2>2. reply_'[t] = reply_[t] \/ (text # <<>> /\ reply_'[t] = [reply_[t] EXCEPT !.text = Head(text)])
    BY <1>2, <1>3 DEF ServerTypes
  <2>3. "text" \in DOMAIN reply_[t]
    BY <1>3 DEF ServerTypes
  <2>4. CASE reply_'[t] = reply_[t]
    BY <2>3, <2>4
  <2>5. CASE text # <<>> /\ reply_'[t] = [reply_[t] EXCEPT !.text = Head(text)]
    <3>1. PICK r, q, e : r = reply_[t] /\ q = reply_'[t] /\ e = Head(text)
      OBVIOUS
    <3>2. q = [r EXCEPT !.text = e] /\ "text" \in DOMAIN r
      BY <2>3, <2>5, <3>1
    <3>3. "text" \in DOMAIN q /\ q.text = e
      BY ONLY <3>2
    <3> QED
      BY <2>5, <3>1, <3>3
  <2> QED
    BY <2>2, <2>4, <2>5
<1>10. text # <<>> => IsFresh(Head(text), serving[t])
  BY <1>4, <1>5, HeadFresh
<1> QED
  BY <1>1, <1>4, <1>5, <1>6, <1>7, <1>8, <1>9, <1>10, PlainStep DEF Busy

LEMMA SetReplyStep ==
  ASSUME FreshInv, NEW t \in Threads, SetReply(t)
  PROVE  FreshInv'
<1>1. /\ UNCHANGED <<program, started, clientVars, waiting, replied, serving, overlaps, todo, host, text>>
      /\ Doing(t, "setReply") /\ at' = [at EXCEPT ![t] = @ + 1]
      /\ reply_' = [reply_ EXCEPT ![t] = [text |-> IF Reads(t) /\ text # <<>> THEN Head(text) ELSE None,
                                          count |-> intersectCount]]
  BY DEF SetReply, globals, Goes
<1>2. ServerTypes /\ Told
  BY DEF FreshInv, TextInv
<1>3. t \in Busy /\ at[t] \in At("setReply") /\ (host[t] # "idle" => Hosts(t))
  BY <1>1, Doer
<1>4. /\ at[t] = IF Offloads THEN 4 ELSE 2
      /\ at'[t] = at[t] + 1 /\ at'[t] \in 1 .. Length /\ at'[t] <= Clears
  <2>1. at[t] = IF Offloads THEN 4 ELSE 2
    BY <1>3 DEF At
  <2>2. at'[t] = at[t] + 1
    BY <1>1, <1>2 DEF ServerTypes
  <2> QED
    BY <2>1, <2>2 DEF Length, Clears, Offloads
<1>5. host'[t] = "idle"
  BY <1>1, <1>3, <1>4 DEF Hosts
<1>6. OnlyOf(t)
  BY <1>1, OnlyOfTypes
<1>7. "text" \in DOMAIN reply_'[t] /\ (reply_'[t].text = None \/ (text # <<>> /\ reply_'[t].text = Head(text)))
  <2>1. reply_'[t] = [text |-> IF Reads(t) /\ text # <<>> THEN Head(text) ELSE None, count |-> intersectCount]
    BY <1>1, <1>2 DEF ServerTypes
  <2>2. PICK a : a = IF Reads(t) /\ text # <<>> THEN Head(text) ELSE None
    OBVIOUS
  <2>3. reply_'[t] = [text |-> a, count |-> intersectCount]
    BY <2>1, <2>2
  <2>4. "text" \in DOMAIN reply_'[t]
    BY ONLY <2>3
  <2>5. reply_'[t].text = a
    BY <2>3
  <2> QED
    BY <2>2, <2>4, <2>5
<1>8. IsFresh(None, serving[t])
  BY DEF IsFresh
<1>9. text # <<>> => IsFresh(Head(text), serving[t])
  <2>1. CASE program # "exp5_dpu"
    BY <1>3, <2>1, HeadFresh
  <2>2. CASE program = "exp5_dpu" /\ AllCandidates(geomStrings(serving[t])) = <<>>
    BY <2>2 DEF IsFresh
  <2>3. CASE program = "exp5_dpu" /\ AllCandidates(geomStrings(serving[t])) # <<>>
    <3>1. Called(t)
      BY <1>4, <2>3 DEF Called, Offloads
    <3> QED
      BY <1>2, <1>3, <2>3, <3>1 DEF Told
  <2> QED
    BY <2>1, <2>2, <2>3
<1>10. program = "exp5_dpu" /\ Called(t)' => Called(t)
  <2>1. \A q : geomStrings(q)' = geomStrings(q)
    BY <1>1, AllKept DEF clientVars
  <2>2. PICK q : q = serving[t] /\ geomStrings(q)' = geomStrings(q)
    BY <2>1
  <2>3. program = "exp5_dpu" => at[t] = 2 /\ at'[t] = 3
    BY <1>4 DEF Offloads
  <2> QED
    BY <1>1, <2>2, <2>3 DEF Called
<1> QED
  BY <1>1, <1>3, <1>4, <1>5, <1>6, <1>7, <1>8, <1>9, <1>10, PlainStep DEF Busy

LEMMA ResetStep ==
  ASSUME FreshInv, NEW t \in Threads, Reset(t)
  PROVE  FreshInv'
<1>1. /\ UNCHANGED <<program, started, clientVars, waiting, replied, serving, overlaps, todo, host, reply_>>
      /\ at' = [at EXCEPT ![t] = @ + 1]
  BY DEF Reset, Goes
<1>2. ServerTypes /\ Cleared
  BY DEF FreshInv, TextInv
<1>3. OnlyOf(t)
  BY <1>1, OnlyOfTypes
<1>4. "text" \in DOMAIN reply_'[t] /\ reply_'[t].text = reply_[t].text /\ at'[t] = at[t] + 1
  BY <1>1, <1>2 DEF ServerTypes
<1>5. CASE Doing(t, "resetCount") /\ text' = text
  <2>1. t \in Busy /\ at[t] \in At("resetCount") /\ (host[t] # "idle" => Hosts(t))
    BY <1>5, Doer
  <2>2. program # "exp5_dpu" /\ (Offloads \/ Counts) /\ at[t] = IF Offloads THEN 5 ELSE 3
    BY <2>1 DEF At, Offloads, Counts
  <2>3. host'[t] = "idle"
    BY <1>1, <2>1, <2>2 DEF Hosts
  <2>4. at'[t] \in 1 .. Length /\ (at'[t] <= Clears \/ text = <<>>)
    <3>1. CASE Offloads
      BY <1>4, <2>2, <3>1 DEF Length, Clears
    <3>2. CASE ~Offloads
      <4>1. \A i \in DOMAIN text : FALSE
        BY <1>2, <2>2, <3>2 DEF Cleared
      <4>2. text = <<>>
        BY <1>2, <4>1, Lengths DEF ServerTypes
      <4> QED
        BY <1>4, <2>2, <3>2, <4>2 DEF Length
    <3> QED
      BY <3>1, <3>2
  <2> QED
    BY <1>1, <1>3, <1>4, <1>5, <2>1, <2>2, <2>3, <2>4, PlainStep DEF Busy
<1>6. CASE Doing(t, "resetText") /\ text' = <<>>
  <2>1. t \in Busy /\ at[t] \in At("resetText") /\ (host[t] # "idle" => Hosts(t)) /\ IsFresh(reply_[t].text, serving[t])
    BY <1>6, Doer
  <2>2. program # "exp5_dpu" /\ at[t] = (IF Offloads THEN 6 ELSE 3) /\ (Offloads \/ program = "lb_mt_tfr_server")
    BY <2>1 DEF At, Offloads
  <2>3. host'[t] = "idle"
    BY <1>1, <2>1, <2>2 DEF Hosts
  <2>4. at'[t] \in 1 .. Length /\ at'[t] \in Nat
    BY <1>4, <2>2 DEF Length, Offloads
  <2>5. Placing(t)'
    <3>1. Program' = Program /\ Len(Program.proceed) = Length
      BY <1>1, <1>2, SameProgram, DoingAt DEF FreshInv
    <3> QED
      BY <1>1, <2>1, <2>3, <2>4, <3>1 DEF Placing, Busy
  <2>6. IsSeq(text') /\ DOMAIN (text') = {}
    BY <1>6, Short, Lengths
  <2>7. Cleared' /\ Told'
    BY <1>1, <2>2, <2>6 DEF Cleared, Told
  <2>8. PICK x : x = reply_'[t].text
    OBVIOUS
  <2> QED
    BY <1>3, <1>4, <2>1, <2>4, <2>5, <2>6, <2>7, <2>8, HandlerStep
<1> QED
  BY <1>5, <1>6 DEF Reset

LEMMA PushStep ==
  ASSUME FreshInv, NEW t \in Threads, intersect_callback_pushes(t)
  PROVE  FreshInv'
<1>1. /\ UNCHANGED <<program, started, clientVars, waiting, replied, serving, overlaps, at, host, reply_>>
      /\ todo' = [todo EXCEPT ![t] = Tail(@)]
      /\ Doing(t, "query") /\ Program.callback = "push"
      /\ text' = text \/ text' = Append(text, [about |-> serving[t], says |-> None])
  BY DEF intersect_callback_pushes, Pushes
<1>2. ServerTypes /\ Cleared
  BY DEF FreshInv, TextInv
<1>3. program = "lb_mt_tfr_server" /\ ~Offloads /\ ~Counts
  BY <1>1, <1>2, ProgramTable DEF Offloads, Counts
<1>4. t \in Busy /\ at[t] \in At("query") /\ at[t] \in 1 .. Length /\ at[t] \in Nat
      /\ (host[t] # "idle" => Hosts(t)) /\ IsFresh(reply_[t].text, serving[t])
  BY <1>1, Doer
<1>5. at[t] = 1 /\ Clears = 3 /\ host[t] = "idle"
  BY <1>3, <1>4 DEF At, Clears, Hosts
<1>6. OnlyOf(t)
  BY <1>1, OnlyOfTypes
<1>7. "text" \in DOMAIN reply_'[t] /\ reply_'[t].text = reply_[t].text
  BY <1>1, <1>2 DEF ServerTypes
<1>8. CASE text' = text
  BY <1>1, <1>3, <1>4, <1>5, <1>6, <1>7, <1>8, PlainStep DEF Busy
<1>9. CASE text' = Append(text, [about |-> serving[t], says |-> None])
  <2>1. /\ IsSeq(text') /\ Len(text) \in Nat /\ DOMAIN (text') = 1 .. Len(text) + 1 /\ DOMAIN text = 1 .. Len(text)
        /\ text'[Len(text) + 1] = [about |-> serving[t], says |-> None]
        /\ \A k \in 1 .. Len(text) : text'[k] = text[k]
    BY <1>2, <1>9, Appended DEF ServerTypes
  <2>2. Busy' = Busy /\ Counts' = Counts /\ Clears' = Clears
    BY <1>1, SameProgram DEF Busy
  <2>3. Cleared'
    <3>1. ASSUME NEW i \in 1 .. Len(text) + 1
          PROVE  \E u \in Busy : serving[u] = text'[i].about /\ at[u] <= Clears
      <4>1. CASE i = Len(text) + 1
        BY <1>4, <1>5, <2>1, <4>1
      <4>2. CASE i # Len(text) + 1
        <5>1. i \in 1 .. Len(text)
          BY <2>1, <4>2
        <5>2. i \in DOMAIN text /\ text'[i] = text[i] /\ program # "exp5_dpu"
          BY <1>3, <2>1, <5>1
        <5> QED
          BY <1>2, <5>2 DEF Cleared
      <4> QED
        BY <4>1, <4>2
    <3> QED
      BY <1>1, <1>3, <2>1, <2>2, <3>1 DEF Cleared
  <2>4. Told'
    BY <1>1, <1>3 DEF Told
  <2>5. Placing(t)'
    <3>1. Program' = Program /\ Len(Program.proceed) = Length
      BY <1>1, <1>2, SameProgram, DoingAt DEF FreshInv
    <3> QED
      BY <1>1, <1>4, <1>5, <3>1 DEF Placing, Busy
  <2>6. PICK x : x = reply_'[t].text
    OBVIOUS
  <2> QED
    BY <1>1, <1>4, <1>6, <1>7, <2>1, <2>3, <2>4, <2>5, <2>6, HandlerStep
<1> QED
  BY <1>1, <1>8, <1>9

LEMMA KeepAnswerStep ==
  ASSUME FreshInv, NEW t \in Threads, KeepAnswer(t)
  PROVE  FreshInv'
<1>1. /\ UNCHANGED <<program, started, clientVars, waiting, replied, serving, overlaps, at, reply_>>
      /\ host[t] # "idle" /\ text' = <<[about |-> serving[t], says |-> said[t]]>>
      /\ IF Offloads THEN host' = [host EXCEPT ![t] = "done"] /\ todo' = todo
                     ELSE host' = [host EXCEPT ![t] = "idle"] /\ todo' = [todo EXCEPT ![t] = Tail(@)]
  BY DEF KeepAnswer
<1>2. ServerTypes /\ Placing(t) /\ Together /\ Said /\ Len(Program.proceed) = Length
  BY DoingAt DEF FreshInv, TextInv
<1>3. t \in Busy /\ Hosts(t)
  BY <1>1, <1>2 DEF Placing, Hosts, Busy
<1>4. OnlyOf(t)
  BY <1>1, OnlyOfTypes
<1>5. "text" \in DOMAIN reply_'[t] /\ reply_'[t].text = reply_[t].text /\ at'[t] \in Nat
  BY <1>1, <1>2 DEF ServerTypes
<1>6. /\ IsSeq(text') /\ text' # <<>> /\ DOMAIN (text') = {1}
      /\ text'[1].about = serving[t] /\ Head(text').about = serving[t]
  <2>1. PICK e : e = [about |-> serving[t], says |-> said[t]]
    OBVIOUS
  <2>2. text' = <<e>> /\ e.about = serving[t]
    BY <1>1, <2>1
  <2> QED
    BY <2>2, Short
<1>7. /\ Program' = Program /\ Offloads' = Offloads /\ Counts' = Counts /\ Clears' = Clears
      /\ Busy' = Busy
  BY <1>1, SameProgram DEF Busy
<1>8. host'[t] # "idle" => Hosts(t)'
  BY <1>1, <1>2, <1>3, <1>7 DEF ServerTypes, Hosts
<1>9. Placing(t)'
  BY <1>1, <1>2, <1>3, <1>7, <1>8 DEF Placing, Busy
<1>10. Cleared'
  <2>1. ASSUME program # "exp5_dpu" PROVE ~Counts /\ at[t] <= Clears
    BY <1>3, <2>1 DEF Hosts, Clears, Counts, Offloads
  <2> QED
    BY <1>1, <1>3, <1>6, <1>7, <2>1 DEF Cleared
<1>11. Told'
  <2>1. \A u \in Busy : u # t => {serving[u], serving[t]} \in overlaps
    BY <1>2, <1>3 DEF Together
  <2>2. ASSUME NEW u \in Busy PROVE IsFresh(Head(text), serving[u])'
    BY <1>1, <1>6, <2>1 DEF IsFresh
  <2> QED
    BY <1>6, <1>7, <2>2 DEF Told
<1>12. PICK x : x = reply_'[t].text
  OBVIOUS
<1> QED
  BY <1>2, <1>4, <1>5, <1>6, <1>9, <1>10, <1>11, <1>12, HandlerStep DEF Said

\* A handler answers: when it does, nothing of its request is in the global of
\* a program that clears it.
LEMMA FinishStep ==
  ASSUME FreshInv, NEW t \in Threads, Finish(t)
  PROVE  FreshInv'
<1>1. /\ UNCHANGED <<program, started, clientVars, waiting, todo, host, text, overlaps>>
      /\ Doing(t, "finish")
      /\ replied' = [replied EXCEPT ![serving[t][1]] = reply_[t]]
      /\ serving' = [serving EXCEPT ![t] = None] /\ at' = [at EXCEPT ![t] = 1]
      /\ reply_' = [reply_ EXCEPT ![t] = NoReply]
  BY DEF Finish, globals
<1>2. /\ ServerTypes /\ Placed /\ Together /\ Said /\ Cleared /\ Told /\ (\A u \in Threads : Placing(u))
  BY DEF FreshInv, TextInv
<1>3. /\ t \in Busy /\ at[t] \in At("finish") /\ (host[t] # "idle" => Hosts(t)) /\ at[t] \in 1 .. Length
  BY <1>1, Doer
<1>4. host[t] = "idle" /\ (program # "exp5_dpu" /\ ~Counts => at[t] = Clears + 1)
  BY <1>3 DEF At, Hosts, Clears, Offloads
<1>5. PICK r : r = serving[t]
  OBVIOUS
<1>6. PICK c \in Clients : c = r[1] /\ r = <<c, r[2]>> /\ r = <<c, Len(asked[c])>> /\ Waits(r) /\ Pending(r)
  <2>1. Waits(r) /\ r \in AllRequests /\ Pending(r)
    BY <1>2, <1>3, <1>5 DEF Placed, Waits
  <2> QED
    BY <2>1 DEF AllRequests, Pending
<1>7. /\ replied' = [d \in Clients |-> IF d = c THEN reply_[t] ELSE replied[d]]
      /\ serving' = [u \in Threads |-> IF u = t THEN None ELSE serving[u]]
      /\ at' = [u \in Threads |-> IF u = t THEN 1 ELSE at[u]]
      /\ reply_' = [u \in Threads |-> IF u = t THEN NoReply ELSE reply_[u]]
  BY <1>1, <1>2, <1>5, <1>6 DEF ServerTypes
<1>8. Busy' = Busy \ {t}
  BY <1>7 DEF Busy
<1>9. ServerTypes'
  <2>1. "text" \in DOMAIN NoReply
    BY DEF NoReply
  <2>2. /\ replied' = [d \in Clients |-> replied'[d]]
        /\ serving' = [u \in Threads |-> serving'[u]] /\ reply_' = [u \in Threads |-> reply_'[u]]
    BY <1>7
  <2>3. at' \in [Threads -> Nat]
    BY <1>2, <1>7 DEF ServerTypes
  <2>4. \A u \in Threads : "text" \in DOMAIN reply_'[u]
    BY <1>2, <1>7, <2>1 DEF ServerTypes
  <2> QED
    BY <1>1, <1>2, <2>2, <2>3, <2>4 DEF ServerTypes, clientVars
\* No other request of this client is anywhere.
<1>10. /\ \A q \in waiting : q[1] # c
       /\ \A u \in Busy : u # t => serving[u][1] # c
  <2>1. ASSUME NEW q, Waits(q), q[1] = c PROVE q = r
    BY <1>6, <2>1 DEF Waits, Pending, AllRequests
  <2>2. \A q \in waiting : Waits(q) /\ q # r
    BY <1>2, <1>5 DEF Placed
  <2>3. \A u \in Busy : Waits(serving[u]) /\ (u # t => serving[u] # r)
    BY <1>2, <1>5, <1>3 DEF Placed, Busy
  <2> QED
    BY <2>1, <2>2, <2>3
<1>11. ASSUME NEW q, Waits(q), q[1] # c PROVE Waits(q)'
  BY <1>1, <1>7, <1>11 DEF Waits, Pending, clientVars, AllRequests
<1>12. Placed'
  <2>1. \A d \in Clients : /\ Len(asked'[d]) \in {Len(answers'[d]), Len(answers'[d]) + 1}
                           /\ replied'[d] # None => Pending(<<d, Len(asked[d])>>)'
    BY <1>1, <1>2, <1>6, <1>7 DEF Placed, Pending, clientVars
  <2>2. ASSUME NEW q \in waiting' PROVE Waits(q)' /\ \A u \in Threads : serving'[u] # q
    <3>1. q \in waiting /\ Waits(q) /\ q # None /\ \A u \in Threads : serving[u] # q
      BY <1>1, <1>2, ProgramsAssumption DEF Placed, Waits, AllRequests
    <3> QED
      BY <1>7, <1>10, <1>11, <3>1
  <2>3. ASSUME NEW u \in Busy' PROVE Waits(serving[u])' /\ \A v \in Threads : serving'[v] = serving'[u] => v = u
    <3>1. u \in Busy /\ u # t /\ serving'[u] = serving[u] /\ serving[u] # None
      BY <1>7, <1>8 DEF Busy
    <3>2. PICK q : q = serving[u]
      OBVIOUS
    <3>3. Waits(q) /\ q[1] # c /\ \A v \in Threads : serving[v] = q => v = u
      BY <1>2, <1>10, <3>1, <3>2 DEF Placed
    <3>4. Waits(q)'
      BY <1>11, <3>3
    <3> QED
      BY <1>7, <3>1, <3>2, <3>3, <3>4
  <2> QED
    BY <2>1, <2>2, <2>3 DEF Placed
<1>13. Together'
  BY <1>1, <1>2, <1>7, <1>8 DEF Together, Busy
<1>14. /\ Program' = Program /\ Offloads' = Offloads /\ Counts' = Counts /\ Clears' = Clears
       /\ (\A x, q : IsFresh(x, q) => IsFresh(x, q)') /\ \A q : geomStrings(q)' = geomStrings(q)
  BY <1>1, SameProgram, AllKept DEF clientVars
<1>15. ASSUME NEW u \in Threads PROVE Placing(u)'
  <2>1. CASE u = t
    <3>1. reply_'[t].text = None
      BY <1>7 DEF NoReply
    <3>2. Len(Program.proceed) = Length /\ 1 \in 1 .. Length
      BY <1>2, DoingAt DEF Length
    <3> QED
      BY <1>1, <1>4, <1>7, <1>14, <2>1, <3>1, <3>2 DEF Placing
  <2>2. CASE u # t
    <3>1. at'[u] = at[u] /\ serving'[u] = serving[u] /\ reply_'[u] = reply_[u] /\ host' = host /\ todo' = todo
      BY <1>1, <1>7, <2>2
    <3> QED
      BY <1>1, <1>2, <1>14, <3>1 DEF Placing, Hosts
  <2> QED
    BY <2>1, <2>2
<1>16. Cleared'
  <2>1. ASSUME program # "exp5_dpu", NEW i \in DOMAIN text
        PROVE  ~Counts /\ \E u \in Busy' : serving'[u] = text[i].about /\ at'[u] <= Clears
    <3>1. ~Counts
      BY <1>2, <2>1 DEF Cleared
    <3>2. PICK u \in Busy : serving[u] = text[i].about /\ at[u] <= Clears
      BY <1>2, <2>1 DEF Cleared
    <3>3. u # t
      BY <1>4, <2>1, <3>1, <3>2 DEF Clears
    <3> QED
      BY <1>7, <1>8, <3>1, <3>2, <3>3 DEF Busy
  <2> QED
    BY <1>1, <1>14, <2>1 DEF Cleared
<1>17. Told'
  <2>1. ASSUME program = "exp5_dpu", NEW u \in Busy', Called(u)'
        PROVE  text' # <<>> /\ IsFresh(Head(text), serving[u])'
    <3>1. u \in Busy /\ serving'[u] = serving[u] /\ at'[u] = at[u] /\ todo'[u] = todo[u] /\ text' = text
      BY <1>1, <1>7, <1>8 DEF Busy
    <3>2. PICK q, x : q = serving[u] /\ geomStrings(q)' = geomStrings(q) /\ x = Head(text)
      BY <1>14
    <3>3. Called(u)
      BY <2>1, <3>1, <3>2 DEF Called
    <3>4. text # <<>> /\ IsFresh(x, q)
      BY <1>2, <2>1, <3>1, <3>2, <3>3 DEF Told
    <3>5. IsFresh(x, q)'
      BY <1>14, <3>4
    <3> QED
      BY <3>1, <3>2, <3>4, <3>5
  <2> QED
    BY <1>1, <2>1 DEF Told
<1>18. Said'
  <2>1. ASSUME NEW u \in Busy' PROVE IsFresh(reply_[u].text, serving[u])'
    <3>1. u \in Busy /\ serving'[u] = serving[u] /\ reply_'[u] = reply_[u]
      BY <1>7, <1>8 DEF Busy
    <3>2. PICK x, q : x = reply_[u].text /\ q = serving[u]
      OBVIOUS
    <3>3. IsFresh(x, q)'
      BY <1>2, <1>14, <3>1, <3>2 DEF Said
    <3> QED
      BY <3>1, <3>2, <3>3
  <2>2. ASSUME NEW d \in Clients, replied'[d] # None PROVE IsFresh(replied[d].text, <<d, Len(asked[d])>>)'
    <3>1. PICK x, q : x = replied'[d].text /\ q = <<d, Len(asked[d])>>
      OBVIOUS
    <3>2. IsFresh(x, q)
      <4>1. CASE d = c
        <5>1. x = reply_[t].text /\ q = serving[t]
          BY <1>5, <1>6, <1>7, <3>1, <4>1
        <5> QED
          BY <1>2, <1>3, <5>1 DEF Said
      <4>2. CASE d # c
        BY <1>2, <1>7, <2>2, <3>1, <4>2 DEF Said
      <4> QED
        BY <4>1, <4>2
    <3>3. IsFresh(x, q)'
      BY <1>14, <3>2
    <3>4. asked' = asked
      BY <1>1 DEF clientVars
    <3> QED
      BY <3>1, <3>3, <3>4
  <2>3. \A d \in Clients : \A n \in 1 .. Len(answers'[d]) : IsFresh(answers[d][n].text, <<d, n>>)'
    BY <1>1, <1>2, <1>14 DEF Said, clientVars, IsFresh
  <2> QED
    BY <2>1, <2>2, <2>3 DEF Said
<1> QED
  BY <1>9, <1>12, <1>13, <1>15, <1>16, <1>17, <1>18 DEF FreshInv, TextInv
-----------------------------------------------------------------------------
LEMMA FreshNext == FreshInv /\ [Next]_vars => FreshInv'
<1> SUFFICES ASSUME FreshInv, [Next]_vars PROVE FreshInv'
  OBVIOUS
<1>1. CASE StartUp
  BY <1>1, StartUpStep
<1>2. ASSUME NEW c \in Clients, ReadLine(c) \/ Receive(c) PROVE FreshInv'
  BY <1>2, ReadLineStep, ReceiveStep
<1>3. ASSUME NEW t \in Threads, Handle(t) PROVE FreshInv'
  <2>1. CASE Take(t)
    BY <2>1, TakeStep
  <2>2. CASE intersect_callback_counts(t) \/ intersect_callback_pushes(t)
    BY <2>2, CountStep, PushStep
  <2>3. CASE CallHost(t)
    BY <2>3, CallHostStep
  <2>4. CASE SayHello(t) \/ BeginWrite(t) \/ Undefined(t)
    BY <2>4, QuietSteps
  <2>5. CASE KeepAnswer(t)
    BY <2>5, KeepAnswerStep
  <2>6. CASE EndQuery(t)
    BY <2>6, EndQueryStep
  <2>7. CASE FrontOrNone(t)
    BY <2>7, FrontOrNoneStep
  <2>8. CASE SetReply(t)
    BY <2>8, SetReplyStep
  <2>9. CASE Reset(t)
    BY <2>9, ResetStep
  <2>10. CASE Finish(t)
    BY <2>10, FinishStep
  <2> QED
    BY <1>3, <2>1, <2>2, <2>3, <2>4, <2>5, <2>6, <2>7, <2>8, <2>9, <2>10 DEF Handle
<1>4. CASE UNCHANGED vars
  <2>1. UNCHANGED <<program, started, hung, clientVars, waiting, replied, handlerVars, globals, overlaps>>
    BY <1>4 DEF vars
  <2>2. CASE Threads = {}
    <3>1. /\ ServerTypes /\ Placed /\ Said
      BY DEF FreshInv, TextInv
    <3>2. ServerTypes'
      BY <2>1, <3>1 DEF ServerTypes, clientVars, handlerVars, globals
    <3>3. Busy = {} /\ Busy' = {}
      BY <2>2 DEF Busy
    <3>4. Placed'
      BY <2>1, <2>2, <3>1, <3>3 DEF Placed, Waits, Pending, clientVars
    <3>5. TextInv'
      <4>1. \A x, q : IsFresh(x, q) => IsFresh(x, q)'
        BY <2>1, AllKept DEF clientVars
      <4>2. Said'
        BY <2>1, <3>1, <3>3, <4>1 DEF Said, clientVars, IsFresh
      <4>3. Cleared'
        BY <2>1, <3>3, SameProgram DEF FreshInv, TextInv, Cleared, globals
      <4> QED
        BY <3>3, <4>2, <4>3 DEF TextInv, Told
    <3> QED
      BY <2>2, <3>2, <3>3, <3>4, <3>5 DEF FreshInv, Together
  <2>3. CASE Threads # {}
    <3>1. PICK t \in Threads : TRUE
      BY <2>3
    <3>2. /\ UNCHANGED <<program, started, clientVars, waiting, replied, serving, overlaps, at, todo, reply_, text>>
          /\ host' = host
      BY <2>1 DEF handlerVars, globals
    <3> QED
      BY <3>1, <3>2, QuietStep
  <2> QED
    BY <2>2, <2>3
<1> QED
  BY <1>1, <1>2, <1>3, <1>4 DEF Next

\* The invariant as it is checked.
LEMMA FreshFollows == FreshInv => FreshAnswer
<1> SUFFICES ASSUME FreshInv, NEW r \in Answered
             PROVE  \/ AnswerTo(r).text = None
                    \/ AnswerTo(r).text.about = r
                    \/ {r, AnswerTo(r).text.about} \in overlaps
                    \/ program = "exp5_dpu" /\ AllCandidates(geomStrings(r)) = <<>>
  BY DEF FreshAnswer
<1>1. PICK c \in Clients : \E n \in DOMAIN answers[c] : r = <<c, n>>
  BY DEF Answered
<1>2. DOMAIN answers[c] = 1 .. Len(answers[c])
  BY Lengths DEF FreshInv, ServerTypes
<1>3. PICK n \in 1 .. Len(answers[c]) : r = <<c, n>>
  BY <1>1, <1>2
<1>4. IsFresh(answers[c][n].text, <<c, n>>)
  BY <1>3 DEF FreshInv, TextInv, Said
<1> QED
  BY <1>3, <1>4 DEF IsFresh, AnswerTo

\* The text in an answer comes from the request itself or from one that was
\* processed at the same time (or, in exp5_dpu, which clears nothing, from any
\* if the request has no candidates): the globals never hand on what a request
\* that was over before had left in them.
THEOREM FreshAnswerAlways == Spec => []FreshAnswer
<1>1. Init => FreshInv
  BY FreshInit
<1>2. FreshInv /\ [Next]_vars => FreshInv'
  BY FreshNext
<1>3. FreshInv => FreshAnswer
  BY FreshFollows
<1> QED
  BY <1>1, <1>2, <1>3, PTL DEF Spec

-----------------------------------------------------------------------------
\* Induction and sequences --------------------------------------------------

\* A set of subsets of a finite set has one that contains no other.
LEMMA Minimal ==
  ASSUME NEW S, IsFiniteSet(S), NEW F, F \subseteq SUBSET S, F # {}
  PROVE  \E A \in F : \A B \in F : B \subseteq A => B = A
<1>1. IsWellFoundedOn(StrictSubsetOrdering(S), SUBSET S)
  BY FS_StrictSubsetOrderingWellFounded, FS_FiniteSubsetsOfFinite
<1>2. \E A \in F : \A B \in F : ~(<<B, A>> \in StrictSubsetOrdering(S))
  BY <1>1, WFMin
<1> QED
  BY <1>2 DEF StrictSubsetOrdering

\* A set of numbers has a least one.
LEMMA LeastNumber ==
  ASSUME NEW T, T \subseteq Nat, T # {}
  PROVE  \E m \in T : \A k \in T : m <= k
<1>1. PICK top \in T : TRUE
  OBVIOUS
<1> DEFINE S == 1 .. top
           F == {1 .. k : k \in {j \in T : j <= top}}
<1>2. IsFiniteSet(S)
  BY FS_Interval
<1>3. F \subseteq SUBSET S /\ F # {}
  OBVIOUS
<1>4. PICK A \in F : \A B \in F : B \subseteq A => B = A
  <2> HIDE DEF F, S
  <2> QED
    BY <1>2, <1>3, Minimal
<1>5. PICK m \in T : m <= top /\ A = 1 .. m
  OBVIOUS
<1>6. ASSUME NEW k \in T, k < m PROVE FALSE
  <2>1. 1 .. k \in F /\ 1 .. k \subseteq 1 .. m
    BY <1>5, <1>6
  <2>2. 1 .. k = 1 .. m
    BY <1>4, <1>5, <2>1
  <2>3. m \in 1 .. m /\ m \notin 1 .. k
    BY <1>6
  <2> QED
    BY <2>2, <2>3
<1>7. m \in Nat /\ \A k \in T : k \in Nat /\ ~(k < m)
  BY <1>6
<1>8. \A k \in T : m <= k
  BY <1>7
<1> QED
  BY <1>8

\* So what holds of zero, and of the successor of a number it holds of, holds
\* of all numbers.
LEMMA Induction ==
  ASSUME NEW T, 0 \in T, \A n \in Nat : n \in T => n + 1 \in T
  PROVE  \A n \in Nat : n \in T
<1> SUFFICES ASSUME Nat \ T # {} PROVE FALSE
  OBVIOUS
<1>1. PICK m \in Nat \ T : \A k \in Nat \ T : m <= k
  BY LeastNumber
<1>2. m # 0 /\ m - 1 \in Nat /\ (m - 1) + 1 = m
  BY <1>1
<1>3. m - 1 \in T
  BY <1>1, <1>2
<1> QED
  BY <1>1, <1>2, <1>3

\* The same for sequences and the appending of an element.
LEMMA SeqInduction ==
  ASSUME NEW S, NEW T, <<>> \in T, \A s \in Seq(S) : \A e \in S : s \in T => Append(s, e) \in T
  PROVE  \A s \in Seq(S) : s \in T
<1> DEFINE N == {n \in Nat : \A s \in Seq(S) : Len(s) = n => s \in T}
<1>1. 0 \in N
  <2>1. \A s \in Seq(S) : Len(s) = 0 => s = <<>>
    BY EmptySeq
  <2> QED
    BY <2>1
<1>2. ASSUME NEW n \in Nat, n \in N PROVE n + 1 \in N
  <2>1. ASSUME NEW s \in Seq(S), Len(s) = n + 1 PROVE s \in T
    <3>1. PICK u \in Seq(S), e \in S : s = Append(u, e)
      <4>1. s # <<>>
        BY <2>1, EmptySeq
      <4> QED
        BY <4>1, SequenceEmptyOrAppend
    <3>2. Len(u) = n
      <4>1. Len(u) \in Nat /\ Len(Append(u, e)) = Len(u) + 1
        BY AppendProperties, LenProperties
      <4> QED
        BY <2>1, <3>1, <4>1
    <3> QED
      BY <1>2, <3>1, <3>2
  <2> QED
    BY <2>1
<1>3. \A n \in Nat : n \in N
  <2> HIDE DEF N
  <2> QED
    BY <1>1, <1>2, Induction
<1> QED
  <2>1. ASSUME NEW s \in Seq(S) PROVE s \in T
    <3>1. Len(s) \in N
      <4>1. Len(s) \in Nat
        BY LenProperties
      <4> HIDE DEF N
      <4> QED
        BY <1>3, <4>1
    <3> QED
      BY <3>1
  <2> QED
    BY <2>1

\* Appending to the second of two sequences.
LEMMA ConcatAppend ==
  ASSUME NEW S, NEW s \in Seq(S), NEW t \in Seq(S), NEW e \in S
  PROVE  s \o t \in Seq(S) /\ s \o Append(t, e) = Append(s \o t, e)
<1>1. <<e>> \in Seq(S) /\ s \o t \in Seq(S)
  BY ConcatProperties
<1>2. Append(t, e) = t \o <<e>> /\ Append(s \o t, e) = (s \o t) \o <<e>>
  BY <1>1, AppendIsConcat
<1>3. (s \o t) \o <<e>> = s \o (t \o <<e>>)
  BY <1>1, ConcatAssociative
<1> QED
  BY <1>1, <1>2, <1>3

\* How many candidates are found, in any sequence of them.
FoundIn(s) == {k \in DOMAIN s : Found(s[k])}
NumFound(s) == Cardinality(FoundIn(s))
One(e) == IF Found(e) THEN 1 ELSE 0

LEMMA OneTypes == \A e : One(e) \in Nat
BY DEF One

LEMMA NumFoundTypes ==
  ASSUME NEW s \in Seq(BOOLEAN)
  PROVE  IsFiniteSet(FoundIn(s)) /\ NumFound(s) \in Nat /\ NumFound(<<>>) = 0
         /\ FoundIn(s) \subseteq 1 .. Len(s)
<1>1. DOMAIN s = 1 .. Len(s) /\ Len(s) \in Nat
  OBVIOUS
<1>2. IsFiniteSet(1 .. Len(s))
  BY <1>1, FS_Interval
<1>3. FoundIn(s) \subseteq 1 .. Len(s)
  BY <1>1 DEF FoundIn
<1>4. IsFiniteSet(FoundIn(s))
  BY <1>2, <1>3, FS_Subset
<1>5. FoundIn(<<>>) = {}
  BY DEF FoundIn
<1> QED
  BY <1>3, <1>4, <1>5, FS_CardinalityType, FS_EmptySet DEF NumFound

\* One candidate more.
LEMMA NumFoundAppend ==
  ASSUME NEW s \in Seq(BOOLEAN), NEW e \in BOOLEAN
  PROVE  NumFound(Append(s, e)) = NumFound(s) + One(e)
<1> DEFINE k == Len(s) + 1
<1>1. /\ Append(s, e) \in Seq(BOOLEAN) /\ DOMAIN Append(s, e) = 1 .. k /\ DOMAIN s = 1 .. Len(s)
      /\ Append(s, e)[k] = e /\ (\A i \in 1 .. Len(s) : Append(s, e)[i] = s[i])
      /\ Len(s) \in Nat
  OBVIOUS
<1>2. 1 .. k = 1 .. Len(s) \cup {k} /\ k \notin 1 .. Len(s)
  BY <1>1
<1>3. IsFiniteSet(FoundIn(s)) /\ k \notin FoundIn(s)
  BY <1>2, NumFoundTypes
<1>4. CASE Found(e)
  <2>1. FoundIn(Append(s, e)) = FoundIn(s) \cup {k}
    BY <1>1, <1>2, <1>4 DEF FoundIn
  <2>2. Cardinality(FoundIn(s) \cup {k}) = Cardinality(FoundIn(s)) + 1
    BY <1>3, FS_AddElement
  <2> QED
    BY <1>4, <2>1, <2>2 DEF NumFound, One
<1>5. CASE ~Found(e)
  <2>1. FoundIn(Append(s, e)) = FoundIn(s)
    BY <1>1, <1>2, <1>5 DEF FoundIn
  <2> QED
    BY <1>5, <2>1, NumFoundTypes DEF NumFound, One
<1> QED
  BY <1>4, <1>5

\* The candidates of two sequences.
LEMMA NumFoundConcat ==
  ASSUME NEW s \in Seq(BOOLEAN)
  PROVE  \A t \in Seq(BOOLEAN) : s \o t \in Seq(BOOLEAN) /\ NumFound(s \o t) = NumFound(s) + NumFound(t)
<1> DEFINE T == {t \in Seq(BOOLEAN) : NumFound(s \o t) = NumFound(s) + NumFound(t)}
<1>1. <<>> \in T
  <2>1. s \o <<>> = s /\ <<>> \in Seq(BOOLEAN)
    BY ConcatEmptySeq
  <2>2. NumFound(s) = NumFound(s) + NumFound(<<>>)
    BY NumFoundTypes
  <2> QED
    BY <2>1, <2>2
<1>2. ASSUME NEW t \in Seq(BOOLEAN), NEW e \in BOOLEAN, t \in T PROVE Append(t, e) \in T
  <2>0. s \o t \in Seq(BOOLEAN) /\ s \o Append(t, e) = Append(s \o t, e)
    BY ConcatAppend
  <2>1. PICK v \in Seq(BOOLEAN) : v = s \o t /\ s \o Append(t, e) = Append(v, e)
    BY <2>0
  <2>2. NumFound(v) = NumFound(s) + NumFound(t)
    BY <1>2, <2>1
  <2>3. NumFound(Append(v, e)) = NumFound(v) + One(e) /\ NumFound(Append(t, e)) = NumFound(t) + One(e)
    BY NumFoundAppend
  <2>4. NumFound(s) \in Nat /\ NumFound(t) \in Nat /\ NumFound(v) \in Nat /\ One(e) \in Nat
    BY NumFoundTypes, OneTypes
  <2>5. NumFound(Append(v, e)) = NumFound(s) + NumFound(Append(t, e))
    BY <2>2, <2>3, <2>4
  <2>6. Append(t, e) \in Seq(BOOLEAN)
    BY AppendProperties
  <2> QED
    BY <2>1, <2>5, <2>6
<1>3. \A t \in Seq(BOOLEAN) : t \in T
  <2> HIDE DEF T
  <2> QED
    BY <1>1, <1>2, SeqInduction
<1> QED
  BY <1>3, ConcatProperties

\* The first candidate and the others.
LEMMA NumFoundTail ==
  ASSUME NEW s \in Seq(BOOLEAN), s # <<>>
  PROVE  /\ Head(s) \in BOOLEAN /\ Tail(s) \in Seq(BOOLEAN) /\ Len(Tail(s)) = Len(s) - 1
         /\ NumFound(s) = One(Head(s)) + NumFound(Tail(s))
<1>1. Head(s) \in BOOLEAN /\ Tail(s) \in Seq(BOOLEAN) /\ Len(Tail(s)) = Len(s) - 1
  BY HeadTailProperties
<1>2. s = <<Head(s)>> \o Tail(s)
  <2>1. Len(s) \in Nat \ {0} /\ Head(s) = s[1]
    BY EmptySeq
  <2>2. SubSeq(s, 1, Len(s)) = <<s[1]>> \o SubSeq(s, 2, Len(s)) /\ SubSeq(s, 1, Len(s)) = s
    <3>1. 1 \in 1 .. Len(s) /\ Len(s) \in 1 .. Len(s)
      BY <2>1
    <3>2. SubSeq(s, 1, Len(s)) = <<s[1]>> \o SubSeq(s, 1 + 1, Len(s))
      BY <3>1, SubSeqRecursiveFirst
    <3> QED
      BY <3>2, SubSeqFull
  <2> QED
    BY <2>1, <2>2, TailIsSubSeq
<1>3. <<>> \in Seq(BOOLEAN) /\ <<Head(s)>> \in Seq(BOOLEAN) /\ <<Head(s)>> = Append(<<>>, Head(s))
  <2>1. <<Head(s)>> \in Seq(BOOLEAN) /\ <<>> \in Seq(BOOLEAN)
    BY <1>1
  <2>2. Append(<<>>, Head(s)) = <<>> \o <<Head(s)>> /\ <<>> \o <<Head(s)>> = <<Head(s)>>
    BY <1>1, <2>1, AppendIsConcat, ConcatEmptySeq
  <2> QED
    BY <2>1, <2>2
<1>4. NumFound(Append(<<>>, Head(s))) = NumFound(<<>>) + One(Head(s))
  BY <1>1, <1>3, NumFoundAppend
<1>5. NumFound(<<Head(s)>>) = One(Head(s))
  BY <1>3, <1>4, NumFoundTypes, OneTypes
<1>6. NumFound(<<Head(s)>> \o Tail(s)) = NumFound(<<Head(s)>>) + NumFound(Tail(s))
  BY <1>1, <1>3, NumFoundConcat
<1> QED
  BY <1>1, <1>2, <1>5, <1>6

\* A function that flattens a sequence of sequences, from the first on.
IsFlat(f, ss) == f = [i \in 1 .. Len(ss) |-> IF i = 1 THEN ss[i] ELSE f[i - 1] \o ss[i]]

LEMMA FlatStep ==
  ASSUME NEW f, NEW ss, IsFlat(f, ss), NEW i \in 1 .. Len(ss)
  PROVE  f[i] = IF i = 1 THEN ss[i] ELSE f[i - 1] \o ss[i]
BY Zenon DEF IsFlat

LEMMA FlatOf ==
  ASSUME NEW ss, NEW e, e = [i \in 1 .. Len(ss) |-> e[i]],
         \A i \in 1 .. Len(ss) : e[i] = IF i = 1 THEN ss[i] ELSE e[i - 1] \o ss[i]
  PROVE  IsFlat(e, ss)
<1> DEFINE a(i) == IF i = 1 THEN ss[i] ELSE e[i - 1] \o ss[i]
<1>1. \A i \in 1 .. Len(ss) : e[i] = a(i)
  OBVIOUS
<1> HIDE DEF a
<1>2. [i \in 1 .. Len(ss) |-> e[i]] = [i \in 1 .. Len(ss) |-> a(i)]
  BY <1>1
<1>3. e = [i \in 1 .. Len(ss) |-> a(i)]
  BY <1>2
<1> QED
  BY <1>3, Zenon DEF IsFlat, a

LEMMA FlatUnique ==
  ASSUME NEW ss, Len(ss) \in Nat, NEW f, NEW g, IsFlat(f, ss), IsFlat(g, ss), NEW k \in 1 .. Len(ss)
  PROVE  f[k] = g[k]
<1> DEFINE T == {n \in Nat : n \in 1 .. Len(ss) => f[n] = g[n]}
<1>1. 0 \in T
  OBVIOUS
<1>2. ASSUME NEW n \in Nat, n \in T PROVE n + 1 \in T
  <2>1. ASSUME n + 1 \in 1 .. Len(ss) PROVE f[n + 1] = g[n + 1]
    <3>1. PICK m \in 1 .. Len(ss) : m = n + 1 /\ m - 1 = n
      BY <2>1
    <3>2. /\ f[m] = IF m = 1 THEN ss[m] ELSE f[m - 1] \o ss[m]
          /\ g[m] = IF m = 1 THEN ss[m] ELSE g[m - 1] \o ss[m]
      BY FlatStep
    <3>3. m # 1 => f[n] = g[n]
      BY <1>2, <3>1
    <3> QED
      BY <3>1, <3>2, <3>3
  <2> QED
    BY <2>1
<1>3. \A n \in Nat : n \in T
  <2> HIDE DEF T
  <2> QED
    BY <1>1, <1>2, Induction
<1>4. k \in Nat
  OBVIOUS
<1> QED
  BY <1>3, <1>4

\* A flattening function for one sequence more.
LEMMA FlatAppend ==
  ASSUME NEW S, NEW ss \in Seq(S), NEW s \in S, NEW f, IsFlat(f, ss),
         NEW g, g = [i \in 1 .. Len(ss) + 1 |-> IF i <= Len(ss) THEN f[i]
                                               ELSE IF i = 1 THEN s ELSE f[i - 1] \o s]
  PROVE  IsFlat(g, Append(ss, s))
<1> DEFINE tt == Append(ss, s)
<1>1. /\ Len(tt) = Len(ss) + 1 /\ Len(ss) \in Nat /\ tt[Len(ss) + 1] = s
      /\ \A i \in 1 .. Len(ss) : tt[i] = ss[i]
  BY AppendProperties, LenProperties
<1> HIDE DEF tt
<1>2. ASSUME NEW i \in 1 .. Len(tt) PROVE g[i] = IF i = 1 THEN tt[i] ELSE g[i - 1] \o tt[i]
  <2>1. CASE i <= Len(ss)
    <3>1. i \in 1 .. Len(ss) /\ g[i] = f[i] /\ tt[i] = ss[i]
      BY <1>1, <2>1
    <3>2. f[i] = IF i = 1 THEN ss[i] ELSE f[i - 1] \o ss[i]
      BY <3>1, FlatStep
    <3>3. i # 1 => g[i - 1] = f[i - 1]
      BY <1>1, <3>1
    <3> QED
      BY <3>1, <3>2, <3>3
  <2>2. CASE i = Len(ss) + 1
    <3>1. g[i] = (IF i = 1 THEN s ELSE f[i - 1] \o s) /\ tt[i] = s
      BY <1>1, <2>2
    <3>2. i # 1 => g[i - 1] = f[i - 1]
      BY <1>1, <2>2
    <3> QED
      BY <3>1, <3>2
  <2> QED
    BY <1>1, <2>1, <2>2
<1>3. g = [i \in 1 .. Len(tt) |-> g[i]]
  BY <1>1
<1>4. IsFlat(g, tt)
  BY <1>2, <1>3, FlatOf
<1> QED
  BY <1>4 DEF tt

LEMMA FlatExists ==
  ASSUME NEW S
  PROVE  \A ss \in Seq(S) : \E f : IsFlat(f, ss)
<1> DEFINE T == {ss \in Seq(S) : \E f : IsFlat(f, ss)}
<1>1. <<>> \in T
  <2>1. PICK f : f = [i \in 1 .. Len(<<>>) |-> <<>>]
    OBVIOUS
  <2>2. 1 .. Len(<<>>) = {} /\ <<>> \in Seq(S)
    BY EmptySeq
  <2>3. \A i \in 1 .. Len(<<>>) : FALSE
    BY <2>2
  <2>4. f = [i \in 1 .. Len(<<>>) |-> f[i]]
    BY <2>1
  <2>5. IsFlat(f, <<>>)
    BY <2>3, <2>4, FlatOf
  <2> QED
    BY <2>2, <2>5
<1>2. ASSUME NEW ss \in Seq(S), NEW s \in S, ss \in T PROVE Append(ss, s) \in T
  <2>1. PICK f : IsFlat(f, ss)
    BY <1>2
  <2>2. PICK g : g = [i \in 1 .. Len(ss) + 1 |-> IF i <= Len(ss) THEN f[i]
                                               ELSE IF i = 1 THEN s ELSE f[i - 1] \o s]
    OBVIOUS
  <2>3. IsFlat(g, Append(ss, s))
    BY <2>1, <2>2, FlatAppend
  <2> QED
    BY <2>3, AppendProperties
<1>3. \A ss \in Seq(S) : ss \in T
  <2> HIDE DEF T
  <2> QED
    BY <1>1, <1>2, SeqInduction
<1> QED
  BY <1>3

\* What FlattenSeq returns.
LEMMA FlattenIs ==
  ASSUME NEW S, NEW ss \in Seq(S), NEW f, IsFlat(f, ss), ss # <<>>
  PROVE  FlattenSeq(ss) = f[Len(ss)]
<1> DEFINE h == CHOOSE g : IsFlat(g, ss)
<1>1. Len(ss) \in Nat /\ Len(ss) # 0 /\ Len(ss) \in 1 .. Len(ss)
  <2>1. Len(ss) \in Nat \ {0}
    BY EmptySeq
  <2> QED
    BY <2>1
<1>2. IsFlat(h, ss)
  OBVIOUS
<1>3. FlattenSeq(ss) = h[Len(ss)]
  BY <1>1, Zenon DEF FlattenSeq, IsFlat
<1> HIDE DEF h
<1>4. h[Len(ss)] = f[Len(ss)]
  BY <1>1, <1>2, FlatUnique
<1> QED
  BY <1>3, <1>4

LEMMA FlattenAppend ==
  ASSUME NEW S, NEW ss \in Seq(Seq(S)), NEW s \in Seq(S), FlattenSeq(ss) \in Seq(S)
  PROVE  FlattenSeq(Append(ss, s)) = FlattenSeq(ss) \o s
<1>1. PICK f : IsFlat(f, ss)
  BY FlatExists
<1>2. PICK g : g = [i \in 1 .. Len(ss) + 1 |-> IF i <= Len(ss) THEN f[i]
                                             ELSE IF i = 1 THEN s ELSE f[i - 1] \o s]
  OBVIOUS
<1>3. IsFlat(g, Append(ss, s))
  BY <1>1, <1>2, FlatAppend
<1>4. PICK tt \in Seq(Seq(S)) : tt = Append(ss, s) /\ tt # <<>> /\ Len(tt) = Len(ss) + 1 /\ Len(ss) \in Nat
  <2>1. Append(ss, s) \in Seq(Seq(S)) /\ Append(ss, s) # <<>> /\ Len(Append(ss, s)) = Len(ss) + 1 /\ Len(ss) \in Nat
    BY AppendProperties, LenProperties
  <2> QED
    BY <2>1
<1>5. FlattenSeq(tt) = g[Len(ss) + 1]
  BY <1>3, <1>4, FlattenIs
<1>6. CASE ss = <<>>
  <2>1. Len(ss) = 0 /\ g[1] = s
    BY <1>2, <1>6, EmptySeq
  <2>2. FlattenSeq(ss) = ss
    BY <2>1 DEF FlattenSeq
  <2>3. <<>> \o s = s
    BY ConcatEmptySeq
  <2> QED
    BY <1>4, <1>5, <1>6, <2>1, <2>2, <2>3
<1>7. CASE ss # <<>>
  <2>1. FlattenSeq(ss) = f[Len(ss)]
    BY <1>1, <1>7, FlattenIs
  <2>2. Len(ss) # 0
    BY <1>7, EmptySeq
  <2>3. g[Len(ss) + 1] = f[Len(ss)] \o s
    BY <1>2, <1>4, <2>2
  <2> QED
    BY <1>4, <1>5, <2>1, <2>3
<1> QED
  BY <1>6, <1>7

LEMMA FlattenEmpty == FlattenSeq(<<>>) = <<>>
<1>1. Len(<<>>) = 0
  OBVIOUS
<1> QED
  BY <1>1 DEF FlattenSeq

LEMMA FlattenTypes ==
  ASSUME NEW S
  PROVE  \A ss \in Seq(Seq(S)) : FlattenSeq(ss) \in Seq(S)
<1> DEFINE T == {ss \in Seq(Seq(S)) : FlattenSeq(ss) \in Seq(S)}
<1>1. <<>> \in T
  <2>1. <<>> \in Seq(S) /\ <<>> \in Seq(Seq(S))
    BY EmptySeq
  <2> QED
    BY <2>1, FlattenEmpty
<1>2. ASSUME NEW ss \in Seq(Seq(S)), NEW s \in Seq(S), ss \in T PROVE Append(ss, s) \in T
  <2>1. FlattenSeq(Append(ss, s)) = FlattenSeq(ss) \o s /\ FlattenSeq(ss) \o s \in Seq(S)
    BY <1>2, FlattenAppend, ConcatProperties
  <2>2. Append(ss, s) \in Seq(Seq(S))
    BY AppendProperties
  <2> QED
    BY <2>1, <2>2
<1>3. \A ss \in Seq(Seq(S)) : ss \in T
  <2> HIDE DEF T
  <2> QED
    BY <1>1, <1>2, SeqInduction
<1> QED
  BY <1>3

\* Flattening two sequences of sequences.
LEMMA FlattenConcat ==
  ASSUME NEW S, NEW ss \in Seq(Seq(S))
  PROVE  \A tt \in Seq(Seq(S)) : FlattenSeq(ss \o tt) = FlattenSeq(ss) \o FlattenSeq(tt)
<1> DEFINE T == {tt \in Seq(Seq(S)) : FlattenSeq(ss \o tt) = FlattenSeq(ss) \o FlattenSeq(tt)}
<1>1. <<>> \in T
  <2>1. ss \o <<>> = ss /\ <<>> \in Seq(Seq(S))
    BY ConcatEmptySeq, EmptySeq
  <2>2. FlattenSeq(ss) \o <<>> = FlattenSeq(ss)
    BY FlattenTypes, ConcatEmptySeq
  <2> QED
    BY <2>1, <2>2, FlattenEmpty
<1>2. ASSUME NEW tt \in Seq(Seq(S)), NEW t \in Seq(S), tt \in T PROVE Append(tt, t) \in T
  <2>1. PICK a, b \in Seq(S) : a = FlattenSeq(ss) /\ b = FlattenSeq(tt)
    BY FlattenTypes
  <2>2. ss \o tt \in Seq(Seq(S)) /\ ss \o Append(tt, t) = Append(ss \o tt, t)
    BY ConcatAppend
  <2>3. FlattenSeq(ss \o tt) = a \o b /\ FlattenSeq(ss \o tt) \in Seq(S)
    BY <1>2, <2>1, <2>2, FlattenTypes
  <2>4. FlattenSeq(Append(ss \o tt, t)) = (a \o b) \o t
    BY <2>2, <2>3, FlattenAppend
  <2>5. FlattenSeq(Append(tt, t)) = b \o t
    BY <2>1, FlattenAppend
  <2>6. a \in Seq(S) /\ (a \o b) \o t = a \o (b \o t)
    BY <2>1, FlattenTypes, ConcatAssociative
  <2>7. Append(tt, t) \in Seq(Seq(S))
    BY AppendProperties
  <2> QED
    BY <2>1, <2>2, <2>4, <2>5, <2>6, <2>7
<1>3. \A tt \in Seq(Seq(S)) : tt \in T
  <2> HIDE DEF T
  <2> QED
    BY <1>1, <1>2, SeqInduction
<1> QED
  BY <1>3

-----------------------------------------------------------------------------
\* Requests that are alone --------------------------------------------------

\* What the rest of the argument needs of the types.
Geoms == DOMAIN Candidates
CountTypes ==
  /\ intersectCount \in Nat /\ count \in [Threads -> Nat] /\ mid \in [Threads -> BOOLEAN]
  /\ said = [t \in Threads |-> said[t]]
  /\ todo \in [Threads -> Seq(BOOLEAN)]

\* A client has sent the runs of polygons of its file that it has read.
Size == Program.client.batch
Run(c, n) == SubSeq(File(c), Size * (n - 1) + 1, Size * n)
FileInv ==
  /\ program \in Running
  /\ asked \in [Clients -> Seq(Seq(Geoms))] /\ batch \in [Clients -> Seq(Geoms)]
  /\ line \in [Clients -> Nat]
  /\ \A c \in Clients :
       /\ line[c] <= Len(File(c)) /\ line[c] = Size * Len(asked[c]) + Len(batch[c]) /\ Len(batch[c]) < Size
       /\ batch[c] = SubSeq(File(c), Size * Len(asked[c]) + 1, line[c])
       /\ \A n \in 1 .. Len(asked[c]) : asked[c][n] = Run(c, n)

\* The places of the query, of the reading of the reply, and of resetCount.
Query == IF Offloads THEN 2 ELSE 1
Reply == IF Offloads THEN 4 ELSE 2
Resets == IF Offloads THEN 5 ELSE 3

\* A handler is between two steps only of its own query or of its test, writes
\* only what it has found or clears, and its query is over when it goes on.
Halfway(t) ==
  /\ mid[t] => /\ serving[t] # None /\ at[t] \in {Query, 2}
               /\ Program.callback = "count" => at[t] = Query /\ todo[t] # <<>> /\ Found(Head(todo[t]))
               /\ Program.callback # "count" => Program.callback = "push" /\ at[t] = 2
  /\ storing = t /\ Program.callback = "push" =>
       serving[t] # None /\ IF at[t] = 1 THEN todo[t] # <<>> /\ Found(Head(todo[t])) ELSE at[t] = 3
  /\ serving[t] # None /\ at[t] > Query => todo[t] = <<>>

\* When nobody counts, the count is zero.
Zeroed == Program.callback = "count" => intersectCount = 0 \/ \E t \in Busy : at[t] <= Resets

\* What the host may say of a request that is alone.
HostSays(r) == {Failed, CountOf(ToHost(r))}

\* The handler of a request that is alone is on the way to the right answer.
Answers(answer, r) == ~HostFailed(answer) => IsRight(answer, r)
Counting(t, r) ==
  /\ at[t] <= Reply => intersectCount + NumFound(todo[t]) = CountOf(Here(r))
  /\ mid[t] => count[t] = intersectCount
  /\ Offloads => /\ host[t] = "replied" => said[t] \in HostSays(r)
                 /\ host[t] = "done" \/ at[t] = 4 =>
                      \E x \in HostSays(r) : text = <<[about |-> r, says |-> x]>>
Asking(t, r) ==
  LET all == AllCandidates(geomStrings(r))
      Verdicts(geom) == {Failed, intersectsRefinement(geom)}
  IN  at[t] <= Reply =>
        /\ todo[t] # <<>> => all # <<>> /\ Last(todo[t]) = Last(all)
        /\ todo[t] # <<>> /\ host[t] = "replied" => said[t] \in Verdicts(Head(todo[t]))
        /\ todo[t] = <<>> /\ all # <<>> => \E x \in Verdicts(Last(all)) : text = <<[about |-> r, says |-> x]>>
Pushing(t, r) ==
  at[t] <= 2 => /\ Len(text) + NumFound(todo[t]) = CountOf(geomStrings(r))
                /\ \A i \in DOMAIN text : text[i] = [about |-> r, says |-> None]
                /\ reply_[t].text = None
Works(t) ==
  LET r == serving[t]
  IN  /\ Program.callback = "count" => Counting(t, r)
      /\ Program.callback = "ask" => Asking(t, r)
      /\ Program.callback = "push" => Pushing(t, r)
      /\ at[t] > Reply => Answers(reply_[t], r)

Working == \A t \in Busy : Alone(serving[t]) => Works(t)
RightSoFar ==
  /\ \A c \in Clients : replied[c] # None /\ Alone(<<c, Len(asked[c])>>) => Answers(replied[c], <<c, Len(asked[c])>>)
  /\ \A c \in Clients : \A n \in 1 .. Len(answers[c]) : Alone(<<c, n>>) => Answers(answers[c][n], <<c, n>>)

AloneInv ==
  /\ FreshInv /\ FileInv /\ CountTypes /\ (\A t \in Threads : Halfway(t)) /\ Zeroed /\ Working /\ RightSoFar

-----------------------------------------------------------------------------
\* Requests -----------------------------------------------------------------

Strings == Geoms \cup {Empty}
CandidateLists(strings) == [k \in DOMAIN strings |-> CandidatesOf(strings[k])]

\* The candidates of a request, and how many of them are found.
LEMMA ListTypes ==
  ASSUME NEW ss \in Seq(Strings)
  PROVE  /\ CandidateLists(ss) \in Seq(Seq(BOOLEAN)) /\ Len(CandidateLists(ss)) = Len(ss)
         /\ AllCandidates(ss) = FlattenSeq(CandidateLists(ss))
         /\ AllCandidates(ss) \in Seq(BOOLEAN) /\ CountOf(ss) = NumFound(AllCandidates(ss)) /\ CountOf(ss) \in Nat
<1>1. \A p \in Strings : CandidatesOf(p) \in Seq(BOOLEAN)
  <2>1. <<>> \in Seq(BOOLEAN)
    OBVIOUS
  <2> QED
    BY <2>1, FilesAssumption DEF Strings, Geoms, CandidatesOf
<1>2. DOMAIN ss = 1 .. Len(ss) /\ Len(ss) \in Nat /\ \A k \in 1 .. Len(ss) : ss[k] \in Strings
  OBVIOUS
<1>3. \A k \in 1 .. Len(ss) : CandidatesOf(ss[k]) \in Seq(BOOLEAN)
  BY <1>1, <1>2
<1>4. CandidateLists(ss) = [k \in 1 .. Len(ss) |-> CandidatesOf(ss[k])]
  BY <1>2 DEF CandidateLists
<1>5. CandidateLists(ss) \in [1 .. Len(ss) -> Seq(BOOLEAN)]
  BY <1>3, <1>4
<1>6. CandidateLists(ss) \in Seq(Seq(BOOLEAN)) /\ Len(CandidateLists(ss)) = Len(ss)
  <2>1. PICK n \in Nat : \E f \in [1 .. n -> Seq(BOOLEAN)] : n = Len(ss) /\ f = CandidateLists(ss)
    BY <1>2, <1>5
  <2>2. \A f \in [1 .. n -> Seq(BOOLEAN)] : f \in Seq(Seq(BOOLEAN)) /\ Len(f) = n
    OBVIOUS
  <2> QED
    BY <2>1, <2>2
<1>7. AllCandidates(ss) = FlattenSeq(CandidateLists(ss))
  BY DEF AllCandidates, CandidateLists
<1>8. AllCandidates(ss) \in Seq(BOOLEAN)
  BY <1>6, <1>7, FlattenTypes
<1>9. CountOf(ss) = NumFound(AllCandidates(ss))
  BY DEF CountOf, NumFound, FoundIn
<1> QED
  BY <1>6, <1>7, <1>8, <1>9, NumFoundTypes

LEMMA ListConcat ==
  ASSUME NEW ss \in Seq(Strings), NEW tt \in Seq(Strings)
  PROVE  /\ AllCandidates(ss \o tt) = AllCandidates(ss) \o AllCandidates(tt)
         /\ CountOf(ss \o tt) = CountOf(ss) + CountOf(tt)
<1>1. /\ ss \o tt \in Seq(Strings) /\ Len(ss \o tt) = Len(ss) + Len(tt)
      /\ \A i \in 1 .. Len(ss) + Len(tt) : (ss \o tt)[i] = IF i <= Len(ss) THEN ss[i] ELSE tt[i - Len(ss)]
  BY ConcatProperties
<1>2. PICK a, b, c \in Seq(Seq(BOOLEAN)) :
        /\ a = CandidateLists(ss) /\ b = CandidateLists(tt) /\ c = CandidateLists(ss \o tt)
        /\ Len(a) = Len(ss) /\ Len(b) = Len(tt) /\ Len(c) = Len(ss) + Len(tt)
  BY <1>1, ListTypes
<1>3. Len(ss) \in Nat /\ Len(tt) \in Nat /\ DOMAIN ss = 1 .. Len(ss) /\ DOMAIN tt = 1 .. Len(tt)
      /\ DOMAIN (ss \o tt) = 1 .. Len(ss) + Len(tt)
  BY <1>1, LenProperties
<1>4. c = a \o b
  <2>1. /\ a \o b \in Seq(Seq(BOOLEAN)) /\ Len(a \o b) = Len(a) + Len(b)
        /\ \A i \in 1 .. Len(a) + Len(b) : (a \o b)[i] = IF i <= Len(a) THEN a[i] ELSE b[i - Len(a)]
    BY ConcatProperties
  <2>2. ASSUME NEW i \in 1 .. Len(ss) + Len(tt) PROVE c[i] = (a \o b)[i]
    <3>1. c[i] = CandidatesOf((ss \o tt)[i])
      BY <1>2, <1>3 DEF CandidateLists
    <3>2. CASE i <= Len(ss)
      <4>1. i \in 1 .. Len(ss)
        BY <1>3, <3>2
      <4>2. a[i] = CandidatesOf(ss[i])
        BY <1>2, <1>3, <4>1 DEF CandidateLists
      <4> QED
        BY <1>1, <1>2, <2>1, <3>1, <3>2, <4>2
    <3>3. CASE ~(i <= Len(ss))
      <4>1. i - Len(ss) \in 1 .. Len(tt)
        BY <1>3, <3>3
      <4>2. b[i - Len(ss)] = CandidatesOf(tt[i - Len(ss)])
        BY <1>2, <1>3, <4>1 DEF CandidateLists
      <4> QED
        BY <1>1, <1>2, <2>1, <3>1, <3>3, <4>2
    <3> QED
      BY <3>2, <3>3
  <2>3. PICK d \in Seq(Seq(BOOLEAN)) : d = a \o b
    BY <2>1
  <2>4. Len(c) = Len(d) /\ \A i \in 1 .. Len(c) : c[i] = d[i]
    BY <1>2, <2>1, <2>2, <2>3
  <2> QED
    BY <2>3, <2>4, SeqEqual
<1>5. AllCandidates(ss \o tt) = AllCandidates(ss) \o AllCandidates(tt)
  <2>1. FlattenSeq(a \o b) = FlattenSeq(a) \o FlattenSeq(b)
    BY FlattenConcat
  <2>2. AllCandidates(ss) = FlattenSeq(a) /\ AllCandidates(tt) = FlattenSeq(b)
    BY <1>2, ListTypes
  <2>3. AllCandidates(ss \o tt) = FlattenSeq(c)
    BY <1>1, <1>2, ListTypes
  <2> QED
    BY <1>4, <2>1, <2>2, <2>3
<1>6. PICK s, t \in Seq(BOOLEAN) : s = AllCandidates(ss) /\ t = AllCandidates(tt)
  BY ListTypes
<1>7. CountOf(ss \o tt) = NumFound(s \o t) /\ CountOf(ss) = NumFound(s) /\ CountOf(tt) = NumFound(t)
  BY <1>1, <1>5, <1>6, ListTypes
<1> QED
  BY <1>5, <1>7, NumFoundConcat

\* A request that was sent.
Sent(r) == r \in AllRequests /\ r[2] \in 1 .. Len(asked[r[1]])

LEMMA SentTypes ==
  ASSUME FileInv, NEW r, Sent(r)
  PROVE  Polygons(r) \in Seq(Geoms) /\ geomStrings(r) \in Seq(Strings)
<1>1. Polygons(r) \in Seq(Geoms)
  <2>1. PICK c \in Clients : c = r[1] /\ asked[c] \in Seq(Seq(Geoms)) /\ r[2] \in 1 .. Len(asked[c])
    BY DEF Sent, AllRequests, FileInv
  <2> QED
    BY <2>1, ElementOfSeq DEF Polygons
<1>2. Polygons(r) \in Seq(Strings)
  BY <1>1, SeqMonotonic DEF Strings
<1>3. <<Empty>> \in Seq(Strings)
  BY DEF Strings
<1> QED
  BY <1>1, <1>2, <1>3, ConcatProperties DEF geomStrings

\* The two parts a request is split into are the whole.
LEMMA Parts ==
  ASSUME FileInv, NEW r, Sent(r)
  PROVE  /\ geomStrings(r) \in Seq(Strings) /\ Here(r) \in Seq(Strings) /\ ToHost(r) \in Seq(Strings)
         /\ CountOf(ToHost(r)) \in Nat
         /\ IF Offloads THEN CountOf(ToHost(r)) + CountOf(Here(r)) = CountOf(geomStrings(r))
                        ELSE Here(r) = geomStrings(r)
<1>1. PICK ss \in Seq(Strings) : ss = geomStrings(r)
  BY SentTypes
<1>2. PICK k \in 0 .. Len(ss) : k = splitIndex(r)
  <2>1. Len(ss) \in Nat
    OBVIOUS
  <2>2. (2 * Len(ss)) \div 3 \in 0 .. Len(ss)
    BY <2>1
  <2> QED
    BY <1>1, <2>2 DEF splitIndex
<1>3. ToHost(r) = SubSeq(ss, 1, k) /\ Here(r) = IF Offloads THEN SubSeq(ss, k + 1, Len(ss)) ELSE ss
  BY <1>1, <1>2 DEF ToHost, Here
<1>4. Len(ss) \in Nat /\ \A i \in 1 .. Len(ss) : ss[i] \in Strings
  OBVIOUS
<1>5. SubSeq(ss, 1, k) \in Seq(Strings)
  <2>1. 1 \in Int /\ k \in Int /\ \A i \in 1 .. k : ss[i] \in Strings
    BY <1>4
  <2> QED
    BY <2>1, SubSeqProperties
<1>6. SubSeq(ss, k + 1, Len(ss)) \in Seq(Strings)
  <2>1. k + 1 \in Int /\ Len(ss) \in Int /\ \A i \in k + 1 .. Len(ss) : ss[i] \in Strings
    BY <1>4
  <2> QED
    BY <2>1, SubSeqProperties
<1>7. SubSeq(ss, 1, k) \o SubSeq(ss, k + 1, Len(ss)) = ss
  <2>1. 1 \in 1 .. Len(ss) + 1 /\ k \in 1 - 1 .. Len(ss) /\ Len(ss) \in k .. Len(ss)
    BY <1>4
  <2>2. SubSeq(ss, 1, k) \o SubSeq(ss, k + 1, Len(ss)) = SubSeq(ss, 1, Len(ss))
    BY <2>1, ConcatAdjacentSubSeq
  <2> QED
    BY <2>2, SubSeqFull
<1>8. CountOf(ss) = CountOf(SubSeq(ss, 1, k)) + CountOf(SubSeq(ss, k + 1, Len(ss)))
  BY <1>5, <1>6, <1>7, ListConcat
<1> QED
  BY <1>1, <1>3, <1>5, <1>6, <1>8, ListTypes

-----------------------------------------------------------------------------
\* What does not change -----------------------------------------------------

LEMMA Kinds ==
  ASSUME ServerTypes
  PROVE  /\ Program.callback \in {"count", "ask", "push"}
         /\ Program.callback = "count" <=> Offloads \/ Counts
         /\ Program.callback = "ask" <=> program = "exp5_dpu"
         /\ Program.callback = "push" <=> program = "lb_mt_tfr_server"
         /\ Program.callback # "count" => ~Offloads /\ ~Counts
         /\ Offloads => ~Counts
<1>1. Offloads => Program.callback = "count" /\ ~Counts
  BY ProgramTable DEF Offloads, Counts
<1>2. Counts => Program.callback = "count"
  BY ProgramTable
<1>3. program = "exp5_dpu" => Program.callback = "ask" /\ ~Offloads /\ ~Counts
  BY ProgramTable DEF Offloads, Counts
<1>4. program = "lb_mt_tfr_server" => Program.callback = "push" /\ ~Offloads /\ ~Counts
  BY ProgramTable DEF Offloads, Counts
<1>5. Offloads \/ Counts \/ program = "exp5_dpu" \/ program = "lb_mt_tfr_server"
  BY ProgramTable
<1> QED
  BY <1>1, <1>2, <1>3, <1>4, <1>5

\* What is right for a request stays so while the request is as it was.
LEMMA Steady ==
  ASSUME program' = program
  PROVE  /\ Program' = Program /\ Offloads' = Offloads /\ Query' = Query /\ Reply' = Reply /\ Resets' = Resets
         /\ \A r : Polygons(r)' = Polygons(r) =>
              /\ geomStrings(r)' = geomStrings(r) /\ Here(r)' = Here(r) /\ ToHost(r)' = ToHost(r)
              /\ HostSays(r)' = HostSays(r) /\ \A x : Answers(x, r) => Answers(x, r)'
<1>1. Program' = Program /\ Offloads' = Offloads
  BY SameProgram
<1>2. Query' = Query /\ Reply' = Reply /\ Resets' = Resets
  BY <1>1 DEF Query, Reply, Resets
<1>3. ASSUME NEW r, Polygons(r)' = Polygons(r)
      PROVE  /\ geomStrings(r)' = geomStrings(r) /\ Here(r)' = Here(r) /\ ToHost(r)' = ToHost(r)
             /\ HostSays(r)' = HostSays(r) /\ \A x : Answers(x, r) => Answers(x, r)'
  <2>1. geomStrings(r)' = geomStrings(r)
    BY <1>3, SameProgram
  <2>2. Here(r)' = Here(r) /\ ToHost(r)' = ToHost(r)
    BY <1>1, <2>1 DEF Here, ToHost, splitIndex
  <2>3. HostSays(r)' = HostSays(r)
    BY <2>2 DEF HostSays
  <2>4. ASSUME NEW x, Answers(x, r) PROVE Answers(x, r)'
    <3>1. HostFailed(x)' <=> HostFailed(x)
      BY DEF HostFailed
    <3>2. IsRight(x, r)' <=> IsRight(x, r)
      BY <1>1, <2>1 DEF IsRight, Counted
    <3> QED
      BY <2>4, <3>1, <3>2 DEF Answers
  <2> QED
    BY <2>1, <2>2, <2>3, <2>4
<1> QED
  BY <1>1, <1>2, <1>3

LEMMA AloneBefore == overlaps \subseteq overlaps' => \A r : Alone(r)' => Alone(r)
BY DEF Alone

\* A request that is alone is the only one.
LEMMA OnlyBusy ==
  ASSUME FreshInv, NEW t \in Busy, Alone(serving[t])
  PROVE  Busy = {t}
<1>1. ASSUME NEW u \in Busy, u # t PROVE FALSE
  <2>1. {serving[t], serving[u]} \in overlaps
    BY <1>1 DEF FreshInv, Together
  <2> QED
    BY <2>1 DEF Alone
<1> QED
  BY <1>1

LEMMA BusySent ==
  ASSUME FreshInv, NEW t \in Busy
  PROVE  Sent(serving[t]) /\ serving[t][2] = Len(asked[serving[t][1]]) /\ t \in Threads
<1>1. Waits(serving[t]) /\ t \in Threads
  BY DEF FreshInv, Placed, Busy
<1>2. PICK c \in Clients : c = serving[t][1] /\ Len(answers[c]) + 1 = serving[t][2]
                           /\ serving[t][2] = Len(asked[c]) /\ IsSeq(answers[c])
  BY <1>1 DEF Waits, Pending, AllRequests, FreshInv, ServerTypes
<1>3. Len(answers[c]) \in Nat
  BY <1>2, Lengths
<1> QED
  BY <1>1, <1>2, <1>3 DEF Sent, Waits

\* What a client does is of no concern to the handlers.
LEMMA ClientWorks ==
  ASSUME AloneInv, UNCHANGED <<program, handlerVars, globals, overlaps>>,
         \A r : Sent(r) => Polygons(r)' = Polygons(r)
  PROVE  (\A t \in Threads : Halfway(t)') /\ Zeroed' /\ Working'
<1> USE DEF handlerVars, globals
<1>1. Program' = Program /\ Offloads' = Offloads /\ Query' = Query /\ Reply' = Reply /\ Resets' = Resets
  BY Steady
<1>2. Busy' = Busy
  BY DEF Busy
<1>3. ASSUME NEW t \in Threads PROVE Halfway(t)'
  BY <1>1 DEF AloneInv, Halfway
<1>4. Zeroed'
  BY <1>1, <1>2 DEF AloneInv, Zeroed
<1>5. ASSUME NEW t \in Busy, Alone(serving[t])' PROVE Works(t)'
  <2>1. PICK r : r = serving[t] /\ Sent(r) /\ Alone(r)
    BY <1>5, BusySent DEF AloneInv, Alone
  <2>2. /\ geomStrings(r)' = geomStrings(r) /\ Here(r)' = Here(r) /\ HostSays(r)' = HostSays(r)
        /\ \A x : Answers(x, r) => Answers(x, r)'
    BY <2>1, Steady
  <2>3. Works(t) /\ r = serving'[t]
    BY <2>1 DEF AloneInv, Working
  <2>4. Counting(t, r) => Counting(t, r)'
    BY <1>1, <2>2 DEF Counting
  <2>5. Asking(t, r) => Asking(t, r)'
    BY <1>1, <2>2 DEF Asking
  <2>6. Pushing(t, r) => Pushing(t, r)'
    BY <2>2 DEF Pushing
  <2>7. PICK x : x = reply_[t]
    OBVIOUS
  <2>8. at[t] > Reply => Answers(x, r)'
    BY <2>1, <2>2, <2>3, <2>7 DEF Works
  <2> QED
    BY <1>1, <2>1, <2>3, <2>4, <2>5, <2>6, <2>7, <2>8 DEF Works
<1> QED
  BY <1>2, <1>3, <1>4, <1>5 DEF Working

-----------------------------------------------------------------------------
\* The clients' files -------------------------------------------------------

LEMMA Quotients ==
  ASSUME NEW b \in Nat \ {0}, NEW m \in Nat, NEW q \in Nat, NEW j \in 1 .. b, NEW k \in 0 .. b - 1,
         b * m + j = b * q + k
  PROVE  k = 0 <=> j = b
<1>1. b * (m - q) = k - j
  OBVIOUS
<1>2. PICK d \in Int : d = m - q /\ b * d = k - j
  BY <1>1
<1>3. CASE d >= 1
  <2>1. b * d >= b
    BY <1>3
  <2> QED
    BY <1>2, <2>1
<1>4. CASE d <= -2
  <2>1. b * d <= -2 * b
    BY <1>4
  <2> QED
    BY <1>2, <2>1
<1>5. CASE d = 0
  BY <1>2, <1>5
<1>6. CASE d = -1
  BY <1>2, <1>6
<1> QED
  BY <1>3, <1>4, <1>5, <1>6

\* A batch is complete when its last polygon is a multiple of its size.
LEMMA Multiples ==
  ASSUME NEW b \in Nat \ {0}, NEW m \in Nat, NEW j \in 1 .. b
  PROVE  (b * m + j) % b = 0 <=> j = b
<1>1. PICK x \in Nat : x = b * m + j
  OBVIOUS
<1>2. x = b * (x \div b) + (x % b) /\ x % b \in 0 .. b - 1 /\ x \div b \in Nat
  OBVIOUS
<1>3. PICK q \in Nat : q = x \div b
  BY <1>2
<1>4. PICK k \in 0 .. b - 1 : k = x % b
  BY <1>2
<1>5. b * m + j = b * q + k
  BY <1>1, <1>2, <1>3, <1>4
<1>6. k = 0 <=> j = b
  BY <1>5, Quotients
<1> QED
  BY <1>1, <1>4, <1>6

LEMMA FileTypes ==
  ASSUME program \in Running, NEW c \in Clients
  PROVE  Size \in Nat \ {0} /\ File(c) \in Seq(Geoms)
<1>1. program \in {"exp3_server", "exp4_server", "exp4_dpu", "zzz_fpc", "exp5_dpu", "lb_mt_tfr_server"}
  BY ProgramsAssumption DEF Programs
<1>2. Size \in {1, BatchSize}
  BY <1>1 DEF Size, Program, Programs, exp3_server, exp4_server, exp4_dpu, zzz_fpc, exp5_dpu, lb_mt_tfr_server,
              exp3_client, exp4_client, exp5_client, lb_mt_tfr_client
<1>3. File(c) \in Seq(Geoms)
  BY FilesAssumption DEF File, Program, Geoms
<1> QED
  BY <1>2, <1>3, BatchAssumption

LEMMA FileInit == Init => FileInv
<1> SUFFICES ASSUME Init PROVE FileInv
  OBVIOUS
<1>1. program \in Running
  BY DEF Init
<1>2. <<>> \in Seq(Seq(Geoms)) /\ <<>> \in Seq(Geoms) /\ Len(<<>>) = 0
  OBVIOUS
<1>3. ASSUME NEW c \in Clients
      PROVE  /\ line[c] = 0 /\ asked[c] = <<>> /\ batch[c] = <<>>
             /\ line[c] <= Len(File(c)) /\ line[c] = Size * Len(asked[c]) + Len(batch[c]) /\ Len(batch[c]) < Size
             /\ batch[c] = SubSeq(File(c), Size * Len(asked[c]) + 1, line[c])
             /\ \A n \in 1 .. Len(asked[c]) : asked[c][n] = Run(c, n)
  <2>1. line[c] = 0 /\ asked[c] = <<>> /\ batch[c] = <<>>
    BY DEF Init
  <2>2. Size \in Nat \ {0} /\ Len(File(c)) \in Nat
    BY <1>1, FileTypes, LenProperties
  <2>3. SubSeq(File(c), 1, 0) = <<>>
    BY SubSeqEmpty
  <2> QED
    BY <1>2, <2>1, <2>2, <2>3
<1> QED
  BY <1>1, <1>2, <1>3 DEF Init, FileInv

\* One polygon more.
LEMMA SubSeqAppend ==
  ASSUME NEW S, NEW s \in Seq(S), NEW a \in Nat \ {0}, NEW l \in Nat, a <= l + 1, l < Len(s)
  PROVE  Append(SubSeq(s, a, l), s[l + 1]) = SubSeq(s, a, l + 1)
<1>1. Len(s) \in Nat /\ a \in 1 .. Len(s) /\ l + 1 \in a .. Len(s) /\ (l + 1) - 1 = l
  OBVIOUS
<1>2. SubSeq(s, a, l + 1) = SubSeq(s, a, (l + 1) - 1) \o <<s[l + 1]>>
  BY <1>1, SubSeqRecursiveSecond
<1>3. SubSeq(s, a, l) \in Seq(S)
  <2>1. \A i \in a .. l : s[i] \in S
    BY <1>1
  <2> QED
    BY <2>1, SubSeqProperties
<1>4. s[l + 1] \in S
  BY <1>1
<1> QED
  BY <1>1, <1>2, <1>3, <1>4, AppendIsConcat

LEMMA ReadLineFile ==
  ASSUME FileInv, NEW c \in Clients, ReadLine(c)
  PROVE  FileInv'
<1>1. PICK f \in Seq(Geoms) : f = File(c)
  BY FileTypes DEF FileInv
<1>2. PICK b \in Nat \ {0} : b = Size
  BY FileTypes DEF FileInv
<1>3. PICK ask \in Seq(Seq(Geoms)) : ask = asked[c]
  BY DEF FileInv
<1>4. PICK bat \in Seq(Geoms) : bat = batch[c]
  BY DEF FileInv
<1>5. PICK l \in Nat : l = line[c]
  BY DEF FileInv
<1>6. PICK m \in Nat : m = Len(ask)
  BY <1>3, LenProperties
<1>7. PICK k \in Nat : k = Len(bat)
  BY <1>4, LenProperties
<1>8. Len(f) \in Nat
  BY LenProperties
<1>9. l < Len(f) /\ l = b * m + k /\ k < b /\ bat = SubSeq(f, b * m + 1, l) /\ \A n \in 1 .. m : ask[n] = SubSeq(f, b * (n - 1) + 1, b * n)
  <2>1. line[c] < Len(File(c))
    BY DEF ReadLine
  <2>2. /\ line[c] = Size * Len(asked[c]) + Len(batch[c]) /\ Len(batch[c]) < Size
        /\ batch[c] = SubSeq(File(c), Size * Len(asked[c]) + 1, line[c])
        /\ \A n \in 1 .. Len(asked[c]) : asked[c][n] = Run(c, n)
    BY DEF FileInv
  <2> QED
    BY <1>1, <1>2, <1>3, <1>4, <1>5, <1>6, <1>7, <2>1, <2>2 DEF Run
<1>10. PICK g : g = f[l + 1]
  OBVIOUS
<1>11. g \in Geoms
  BY <1>8, <1>9, <1>10
<1>12. PICK col \in Seq(Geoms) : col = Append(bat, g) /\ Len(col) = k + 1
  BY <1>7, <1>11, AppendProperties
<1>13. col = SubSeq(f, b * m + 1, l + 1)
  <2>1. PICK a \in Nat \ {0} : a = b * m + 1 /\ a <= l + 1
    <3>1. PICK p \in Nat : p = b * m
      OBVIOUS
    <3>2. l = b * m + k
      BY <1>9
    <3>3. l = p + k /\ p + 1 = b * m + 1
      BY <3>1, <3>2
    <3>4. p + 1 \in Nat \ {0} /\ p + 1 <= l + 1
      BY <3>3
    <3> QED
      BY <3>3, <3>4
  <2> QED
    BY <1>9, <1>10, <1>12, <2>1, SubSeqAppend
<1>14. /\ program' = program /\ Size' = Size /\ \A d \in Clients : File(d)' = File(d)
       /\ line' = [line EXCEPT ![c] = l + 1]
  BY <1>5 DEF ReadLine, Size, File, Program
<1>15. \A d \in Clients : \A n : Run(d, n)' = Run(d, n)
  BY <1>14 DEF Run
<1>16. \/ /\ (l + 1) % b = 0 /\ asked' = [asked EXCEPT ![c] = Append(ask, col)] /\ batch' = [batch EXCEPT ![c] = <<>>]
       \/ (l + 1) % b # 0 /\ batch' = [batch EXCEPT ![c] = col] /\ asked' = asked
  <2>1. line'[c] = l + 1
    BY <1>14 DEF FileInv
  <2>2. Append(batch[c], File(c)[line'[c]]) = col
    BY <1>1, <1>4, <1>10, <1>12, <2>1
  <2>3. Program.client.batch = b
    BY <1>2 DEF Size
  <2>4. \/ /\ line'[c] % b = 0 /\ asked' = [asked EXCEPT ![c] = Append(@, col)] /\ batch' = [batch EXCEPT ![c] = <<>>]
        \/ line'[c] % b # 0 /\ batch' = [batch EXCEPT ![c] = col] /\ asked' = asked
    BY <2>2, <2>3 DEF ReadLine
  <2> QED
    BY <1>3, <2>1, <2>4
<1>17. (l + 1) % b = 0 <=> k + 1 = b
  <2>1. PICK j \in 1 .. b : j = k + 1
    BY <1>9
  <2>2. l + 1 = b * m + j
    BY <1>9, <2>1
  <2>3. (b * m + j) % b = 0 <=> j = b
    BY Multiples
  <2> QED
    BY <2>1, <2>2, <2>3
<1>18. \A d \in Clients : /\ asked[d] \in Seq(Seq(Geoms)) /\ batch[d] \in Seq(Geoms) /\ line[d] \in Nat
                          /\ line[d] <= Len(File(d)) /\ line[d] = Size * Len(asked[d]) + Len(batch[d])
                          /\ Len(batch[d]) < Size
                          /\ batch[d] = SubSeq(File(d), Size * Len(asked[d]) + 1, line[d])
                          /\ \A n \in 1 .. Len(asked[d]) : asked[d][n] = Run(d, n)
  BY DEF FileInv
\* For the client itself.
<1>19. PICK aa \in Seq(Seq(Geoms)), bb \in Seq(Geoms) :
         /\ asked' = [asked EXCEPT ![c] = aa] /\ batch' = [batch EXCEPT ![c] = bb]
         /\ l + 1 = b * Len(aa) + Len(bb) /\ Len(bb) < b /\ bb = SubSeq(f, b * Len(aa) + 1, l + 1)
         /\ \A n \in 1 .. Len(aa) : aa[n] = SubSeq(f, b * (n - 1) + 1, b * n)
  <2>1. CASE (l + 1) % b = 0
    <3>1. PICK aa \in Seq(Seq(Geoms)) : aa = Append(ask, col) /\ Len(aa) = m + 1 /\ aa[m + 1] = col
                                        /\ \A i \in 1 .. m : aa[i] = ask[i]
      <4>1. /\ Append(ask, col) \in Seq(Seq(Geoms)) /\ Len(Append(ask, col)) = m + 1 /\ Append(ask, col)[m + 1] = col
            /\ \A i \in 1 .. m : Append(ask, col)[i] = ask[i]
        BY <1>6, AppendProperties
      <4> QED
        BY <4>1
    <3>2. <<>> \in Seq(Geoms) /\ Len(<<>>) = 0
      OBVIOUS
    <3>3. k + 1 = b
      BY <1>17, <2>1
    <3>4. l + 1 = b * (m + 1)
      BY <1>9, <3>3
    <3>5. SubSeq(f, b * (m + 1) + 1, l + 1) = <<>>
      BY <3>4, SubSeqEmpty
    <3>6. ASSUME NEW n \in 1 .. m + 1 PROVE aa[n] = SubSeq(f, b * (n - 1) + 1, b * n)
      <4>1. CASE n = m + 1
        <5>1. (n - 1) = m
          BY <4>1
        <5> QED
          BY <1>13, <3>1, <3>4, <4>1, <5>1
      <4>2. CASE n # m + 1
        <5>1. n \in 1 .. m
          BY <4>2
        <5> QED
          BY <1>9, <3>1, <5>1
      <4> QED
        BY <4>1, <4>2
    <3>7. asked' = [asked EXCEPT ![c] = aa] /\ batch' = [batch EXCEPT ![c] = <<>>]
      BY <1>16, <2>1, <3>1
    <3>8. l + 1 = b * Len(aa) + Len(<<>>) /\ Len(<<>>) < b /\ <<>> = SubSeq(f, b * Len(aa) + 1, l + 1)
      BY <3>1, <3>2, <3>4, <3>5
    <3> QED
      BY <3>1, <3>2, <3>6, <3>7, <3>8
  <2>2. CASE (l + 1) % b # 0
    <3>1. k + 1 # b
      BY <1>17, <2>2
    <3>2. asked' = [asked EXCEPT ![c] = ask] /\ batch' = [batch EXCEPT ![c] = col]
      BY <1>3, <1>16, <2>2 DEF FileInv
    <3>3. l + 1 = b * m + (k + 1) /\ k + 1 < b
      BY <1>9, <3>1
    <3> QED
      BY <1>6, <1>9, <1>12, <1>13, <3>2, <3>3
  <2> QED
    BY <2>1, <2>2
<1>20. /\ asked' \in [Clients -> Seq(Seq(Geoms))] /\ batch' \in [Clients -> Seq(Geoms)] /\ line' \in [Clients -> Nat]
       /\ asked'[c] = aa /\ batch'[c] = bb /\ line'[c] = l + 1
       /\ \A d \in Clients : d # c => asked'[d] = asked[d] /\ batch'[d] = batch[d] /\ line'[d] = line[d]
  BY <1>14, <1>19 DEF FileInv
<1>21. ASSUME NEW d \in Clients
       PROVE  /\ line'[d] <= Len(File(d)) /\ line'[d] = Size * Len(asked'[d]) + Len(batch'[d])
              /\ Len(batch'[d]) < Size
              /\ batch'[d] = SubSeq(File(d), Size * Len(asked'[d]) + 1, line'[d])
              /\ \A n \in 1 .. Len(asked'[d]) : asked'[d][n] = Run(d, n)
  <2>1. CASE d # c
    <3>1. asked'[d] = asked[d] /\ batch'[d] = batch[d] /\ line'[d] = line[d]
      BY <1>20, <2>1
    <3> QED
      BY <1>18, <3>1
  <2>2. CASE d = c
    <3>1. l + 1 <= Len(f)
      BY <1>8, <1>9
    <3>2. \A n \in 1 .. Len(aa) : aa[n] = Run(c, n)
      BY <1>1, <1>2, <1>19 DEF Run
    <3> QED
      BY <1>1, <1>2, <1>19, <1>20, <2>2, <3>1, <3>2
  <2> QED
    BY <2>1, <2>2
<1>22. ASSUME NEW d \in Clients
       PROVE  (/\ line[d] <= Len(File(d)) /\ line[d] = Size * Len(asked[d]) + Len(batch[d]) /\ Len(batch[d]) < Size
               /\ batch[d] = SubSeq(File(d), Size * Len(asked[d]) + 1, line[d])
               /\ \A n \in 1 .. Len(asked[d]) : asked[d][n] = Run(d, n))'
  BY <1>14, <1>15, <1>21
<1>23. program' \in Running
  BY <1>14 DEF FileInv
<1> QED
  BY <1>20, <1>22, <1>23 DEF FileInv

LEMMA FileKept ==
  ASSUME FileInv, UNCHANGED <<program, asked, batch, line>>
  PROVE  FileInv'
<1>1. Size' = Size /\ \A c \in Clients : File(c)' = File(c)
  BY DEF Size, File, Program
<1>2. \A c \in Clients : \A n : Run(c, n)' = Run(c, n)
  BY <1>1 DEF Run
<1> QED
  BY <1>1, <1>2 DEF FileInv

LEMMA FileNext == FileInv /\ [Next]_vars => FileInv'
<1> SUFFICES ASSUME FileInv, [Next]_vars PROVE FileInv'
  OBVIOUS
<1>1. CASE \E c \in Clients : ReadLine(c)
  BY <1>1, ReadLineFile
<1>2. ASSUME StartUp \/ (\E c \in Clients : Receive(c)) \/ UNCHANGED vars PROVE FileInv'
  BY <1>2, FileKept DEF StartUp, Receive, vars, clientVars
<1>3. ASSUME NEW t \in Threads, Handle(t) PROVE FileInv'
  <2>1. UNCHANGED <<program, clientVars>>
    BY <1>3 DEF Handle, Take, intersect_callback_counts, intersect_callback_pushes, CallHost, SayHello, BeginWrite,
                Undefined, KeepAnswer, EndQuery, FrontOrNone, SetReply, Reset, Finish
  <2> QED
    BY <2>1, FileKept DEF clientVars
<1> QED
  BY <1>1, <1>2, <1>3 DEF Next

-----------------------------------------------------------------------------
LEMMA AloneInit == Init => AloneInv
<1> SUFFICES ASSUME Init PROVE AloneInv
  OBVIOUS
<1>1. FreshInv
  BY FreshInit
<1>2. CountTypes
  <2>1. <<>> \in Seq(BOOLEAN) /\ <<>> \in Seq(Seq(Geoms))
    OBVIOUS
  <2> QED
    BY <2>1 DEF Init, CountTypes
<1>3. \A t \in Threads : Halfway(t)
  BY ProgramsAssumption DEF Init, Halfway
<1>4. Zeroed
  BY DEF Init, Zeroed
<1>5. Working
  BY DEF Init, Working, Busy
<1>6. RightSoFar
  <2>1. \A c \in Clients : replied[c] = None /\ answers[c] = <<>> /\ Len(answers[c]) = 0
    BY DEF Init
  <2> QED
    BY <2>1 DEF RightSoFar
<1> QED
  BY <1>1, <1>2, <1>3, <1>4, <1>5, <1>6, FileInit DEF AloneInv

\* As long as no client sends anything, what is right stays so.
LEMMA RightKept ==
  ASSUME RightSoFar, UNCHANGED <<program, asked, answers, replied>>, overlaps \subseteq overlaps'
  PROVE  RightSoFar'
<1>1. \A r : Polygons(r)' = Polygons(r)
  BY DEF Polygons
<1>2. \A x, r : Answers(x, r) => Answers(x, r)'
  BY <1>1, Steady
<1>3. \A r : Alone(r)' => Alone(r)
  BY AloneBefore
<1>4. ASSUME NEW c \in Clients, replied'[c] # None, Alone(<<c, Len(asked[c])>>)'
      PROVE  Answers(replied[c], <<c, Len(asked[c])>>)'
  <2>1. PICK x, r : x = replied[c] /\ r = <<c, Len(asked[c])>>
    OBVIOUS
  <2>2. Alone(r)'
    BY <1>4, <2>1
  <2>3. Answers(x, r)
    BY <1>3, <1>4, <2>1, <2>2 DEF RightSoFar
  <2>4. Answers(x, r)'
    BY <1>2, <2>3
  <2> QED
    BY <2>1, <2>4
<1>5. ASSUME NEW c \in Clients, NEW n \in 1 .. Len(answers'[c]), Alone(<<c, n>>)' PROVE Answers(answers[c][n], <<c, n>>)'
  <2>1. PICK x, r : x = answers[c][n] /\ r = <<c, n>>
    OBVIOUS
  <2>2. Alone(r)'
    BY <1>5, <2>1
  <2>3. Answers(x, r)
    BY <1>3, <2>1, <2>2 DEF RightSoFar
  <2>4. Answers(x, r)'
    BY <1>2, <2>3
  <2> QED
    BY <2>1, <2>4
<1> QED
  BY <1>4, <1>5 DEF RightSoFar

LEMMA StartUpRight ==
  ASSUME AloneInv, FreshInv', FileInv', StartUp
  PROVE  AloneInv'
<1>1. UNCHANGED <<program, hung, clientVars, waiting, replied, handlerVars, globals, overlaps>>
  BY DEF StartUp
<1>2. \A r : Polygons(r)' = Polygons(r)
  BY <1>1 DEF Polygons, clientVars
<1>3. (\A t \in Threads : Halfway(t)') /\ Zeroed' /\ Working'
  BY <1>1, <1>2, ClientWorks
<1>4. CountTypes'
  BY <1>1 DEF AloneInv, CountTypes, clientVars, handlerVars, globals
<1>5. RightSoFar'
  BY <1>1, RightKept DEF AloneInv, clientVars
<1> QED
  BY <1>3, <1>4, <1>5 DEF AloneInv

LEMMA ReceiveRight ==
  ASSUME AloneInv, FreshInv', FileInv', NEW c \in Clients, Receive(c)
  PROVE  AloneInv'
<1>1. /\ UNCHANGED <<program, started, hung, line, batch, asked, waiting, handlerVars, globals, overlaps>>
      /\ replied[c] # None
  BY DEF Receive
<1>2. \A r : Polygons(r)' = Polygons(r)
  BY <1>1 DEF Polygons
<1>3. (\A t \in Threads : Halfway(t)') /\ Zeroed' /\ Working'
  BY <1>1, <1>2, ClientWorks
<1>4. CountTypes'
  BY <1>1 DEF AloneInv, CountTypes, handlerVars, globals
<1>5. ServerTypes /\ Placed /\ RightSoFar
  BY DEF AloneInv, FreshInv
<1>6. /\ replied' = [d \in Clients |-> IF d = c THEN None ELSE replied[d]]
      /\ answers' = [d \in Clients |-> IF d = c THEN Append(answers[c], replied[c]) ELSE answers[d]]
  BY <1>5 DEF ServerTypes, Receive
<1>7. /\ Len(answers[c]) \in Nat /\ Len(answers'[c]) = Len(answers[c]) + 1 /\ Len(asked[c]) = Len(answers[c]) + 1
      /\ answers'[c][Len(answers[c]) + 1] = replied[c]
      /\ \A n \in 1 .. Len(answers[c]) : answers'[c][n] = answers[c][n]
  BY <1>1, <1>5, <1>6, Appended DEF Placed, Pending, ServerTypes
<1>8. (\A x, r : Answers(x, r) => Answers(x, r)') /\ \A r : Alone(r)' => Alone(r)
  BY <1>1, <1>2, Steady, AloneBefore
<1>9. ASSUME NEW d \in Clients, replied'[d] # None, Alone(<<d, Len(asked[d])>>)'
      PROVE  Answers(replied[d], <<d, Len(asked[d])>>)'
  <2>1. d # c /\ replied'[d] = replied[d] /\ asked' = asked
    BY <1>1, <1>6, <1>9
  <2>2. PICK x, r : x = replied[d] /\ r = <<d, Len(asked[d])>>
    OBVIOUS
  <2>3. Alone(r)'
    BY <1>9, <2>2, <2>1
  <2>4. Answers(x, r)
    BY <1>5, <1>8, <1>9, <2>1, <2>2, <2>3 DEF RightSoFar
  <2>5. Answers(x, r)'
    BY <1>8, <2>4
  <2> QED
    BY <2>1, <2>2, <2>5
<1>10. ASSUME NEW d \in Clients, NEW n \in 1 .. Len(answers'[d]), Alone(<<d, n>>)'
       PROVE  Answers(answers[d][n], <<d, n>>)'
  <2>1. PICK x, r : x = answers'[d][n] /\ r = <<d, n>>
    OBVIOUS
  <2>2. Alone(r)'
    BY <1>10, <2>1
  <2>3. Alone(r)
    BY <1>8, <2>2
  <2>4. Answers(x, r)
    <3>1. CASE d = c /\ n = Len(answers[c]) + 1
      <4>1. x = replied[c] /\ r = <<c, Len(asked[c])>>
        BY <1>7, <2>1, <3>1
      <4> QED
        BY <1>1, <1>5, <2>3, <4>1 DEF RightSoFar
    <3>2. CASE d = c /\ n # Len(answers[c]) + 1
      <4>1. n \in 1 .. Len(answers[c]) /\ x = answers[c][n]
        BY <1>7, <2>1, <3>2
      <4> QED
        BY <1>5, <2>1, <2>3, <3>2, <4>1 DEF RightSoFar
    <3>3. CASE d # c
      <4>1. answers'[d] = answers[d]
        BY <1>6, <3>3
      <4> QED
        BY <1>5, <2>1, <2>3, <4>1 DEF RightSoFar
    <3> QED
      BY <3>1, <3>2, <3>3
  <2>5. Answers(x, r)'
    BY <1>8, <2>4
  <2> QED
    BY <2>1, <2>5
<1>11. RightSoFar'
  BY <1>9, <1>10 DEF RightSoFar
<1> QED
  BY <1>3, <1>4, <1>11 DEF AloneInv

LEMMA ReadLineRight ==
  ASSUME AloneInv, FreshInv', FileInv', NEW c \in Clients, ReadLine(c)
  PROVE  AloneInv'
<1>1. /\ UNCHANGED <<program, started, hung, answers, dead, replied, handlerVars, globals, overlaps>>
      /\ Len(asked[c]) = Len(answers[c])
  BY DEF ReadLine
<1>2. ServerTypes /\ Placed /\ RightSoFar
  BY DEF AloneInv, FreshInv
<1>3. \A d \in Clients : /\ Len(asked[d]) \in Nat /\ Len(answers[d]) \in Nat
                         /\ Len(asked[d]) \in {Len(answers[d]), Len(answers[d]) + 1}
                         /\ \A n \in 1 .. Len(asked[d]) : asked'[d][n] = asked[d][n]
                         /\ d # c => asked'[d] = asked[d]
  <2>1. \A d \in Clients : IsSeq(asked[d]) /\ IsSeq(answers[d])
    BY <1>2 DEF ServerTypes
  <2>2. \A d \in Clients : Len(asked[d]) \in Nat /\ Len(answers[d]) \in Nat
    BY <2>1, Lengths
  <2>3. CASE asked' = asked
    BY <1>2, <2>2, <2>3 DEF Placed
  <2>4. CASE \E e : asked' = [asked EXCEPT ![c] = Append(@, e)]
    <3>1. PICK e : asked' = [asked EXCEPT ![c] = Append(@, e)]
      BY <2>4
    <3>2. asked' = [d \in Clients |-> IF d = c THEN Append(asked[c], e) ELSE asked[d]]
      BY <1>2, <3>1 DEF ServerTypes
    <3>3. \A n \in 1 .. Len(asked[c]) : Append(asked[c], e)[n] = asked[c][n]
      BY <2>1, Appended
    <3> QED
      BY <1>2, <2>2, <3>2, <3>3 DEF Placed
  <2> QED
    BY <2>3, <2>4 DEF ReadLine
<1>4. \A r : Sent(r) => Polygons(r)' = Polygons(r)
  BY <1>3 DEF Polygons, Sent, AllRequests
<1>5. (\A t \in Threads : Halfway(t)') /\ Zeroed' /\ Working'
  BY <1>1, <1>4, ClientWorks
<1>6. CountTypes'
  BY <1>1 DEF AloneInv, CountTypes, handlerVars, globals
<1>7. /\ \A r : Sent(r) => \A x : Answers(x, r) => Answers(x, r)'
      /\ \A r : Alone(r)' => Alone(r)
  BY <1>1, <1>4, Steady, AloneBefore
<1>8. replied[c] = None
  <2>1. ~Pending(<<c, Len(asked[c])>>)
    BY <1>1, <1>3 DEF Pending
  <2> QED
    BY <1>2, <2>1 DEF Placed
<1>9. ASSUME NEW d \in Clients, replied'[d] # None, Alone(<<d, Len(asked[d])>>)'
      PROVE  Answers(replied[d], <<d, Len(asked[d])>>)'
  <2>1. d # c /\ replied'[d] = replied[d] /\ asked'[d] = asked[d] /\ replied[d] # None
    BY <1>1, <1>3, <1>8, <1>9
  <2>2. PICK x, r : x = replied[d] /\ r = <<d, Len(asked[d])>>
    OBVIOUS
  <2>3. Alone(r)'
    BY <1>9, <2>1, <2>2
  <2>4. Answers(x, r)
    BY <1>2, <1>7, <2>1, <2>2, <2>3 DEF RightSoFar
  <2>5. Sent(r)
    <3>1. Len(answers[d]) + 1 = Len(asked[d])
      BY <1>2, <2>1 DEF Placed, Pending
    <3> QED
      BY <1>3, <2>2, <3>1 DEF Sent, AllRequests
  <2>6. Answers(x, r)'
    BY <1>7, <2>4, <2>5
  <2> QED
    BY <2>1, <2>2, <2>6
<1>10. ASSUME NEW d \in Clients, NEW n \in 1 .. Len(answers'[d]), Alone(<<d, n>>)'
       PROVE  Answers(answers[d][n], <<d, n>>)'
  <2>1. PICK x, r : x = answers[d][n] /\ r = <<d, n>>
    OBVIOUS
  <2>2. Alone(r)' /\ n \in 1 .. Len(answers[d]) /\ answers' = answers
    BY <1>1, <1>10, <2>1
  <2>3. Answers(x, r)
    BY <1>2, <1>7, <2>1, <2>2 DEF RightSoFar
  <2>4. Sent(r)
    BY <1>3, <2>1, <2>2 DEF Sent, AllRequests
  <2>5. Answers(x, r)'
    BY <1>7, <2>3, <2>4
  <2> QED
    BY <2>1, <2>2, <2>5
<1>11. RightSoFar'
  BY <1>9, <1>10 DEF RightSoFar
<1> QED
  BY <1>5, <1>6, <1>11 DEF AloneInv

-----------------------------------------------------------------------------
\* The work of a handler that is alone --------------------------------------

\* What a handler does concerns itself and the globals: for the others there is
\* nothing to show, as a request that is alone is the only one.
LEMMA OwnStep ==
  ASSUME AloneInv, FreshInv', FileInv', NEW t \in Busy,
         UNCHANGED <<program, asked, answers, replied, serving, overlaps>>,
         \A u \in Threads : u # t => at'[u] = at[u] /\ todo'[u] = todo[u] /\ mid'[u] = mid[u],
         storing' \in {storing, t, None},
         CountTypes', Halfway(t)', Zeroed', Alone(serving[t]) => Works(t)'
  PROVE  AloneInv'
<1>1. Busy' = Busy /\ t \in Threads
  BY DEF Busy
<1>2. ASSUME NEW u \in Threads PROVE Halfway(u)'
  <2>1. CASE u = t
    BY <2>1
  <2>2. CASE u # t
    <3>1. Halfway(u) /\ at'[u] = at[u] /\ todo'[u] = todo[u] /\ mid'[u] = mid[u] /\ serving' = serving
      BY <2>2 DEF AloneInv
    <3>2. storing' = u => storing = u
      BY <2>2, ProgramsAssumption
    <3> QED
      BY <3>1, <3>2, Steady DEF Halfway
  <2> QED
    BY <2>1, <2>2
<1>3. ASSUME NEW u \in Busy, Alone(serving[u])' PROVE Works(u)'
  <2>1. Alone(serving[u]) /\ FreshInv
    BY <1>3 DEF AloneInv, Alone
  <2>2. u = t
    BY <2>1, OnlyBusy
  <2> QED
    BY <2>1, <2>2
<1>4. RightSoFar'
  BY RightKept DEF AloneInv
<1> QED
  BY <1>1, <1>2, <1>3, <1>4 DEF AloneInv, Working

LEMMA SteadyAll ==
  ASSUME UNCHANGED <<program, asked>>
  PROVE  /\ Program' = Program /\ Offloads' = Offloads /\ Query' = Query /\ Reply' = Reply /\ Resets' = Resets
         /\ \A r : /\ geomStrings(r)' = geomStrings(r) /\ Here(r)' = Here(r) /\ ToHost(r)' = ToHost(r)
                   /\ HostSays(r)' = HostSays(r) /\ \A x : Answers(x, r) => Answers(x, r)'
<1>1. \A r : Polygons(r)' = Polygons(r)
  BY DEF Polygons
<1> QED
  BY <1>1, Steady

LEMMA WorksNow ==
  ASSUME UNCHANGED <<program, asked, serving>>, NEW t, NEW r, r = serving[t], NEW x, x = reply_'[t],
         Program.callback = "count" => Counting(t, r)',
         Program.callback = "ask" => Asking(t, r)',
         Program.callback = "push" => Pushing(t, r)',
         at'[t] > Reply => Answers(x, r)
  PROVE  Works(t)'
<1>1. Program' = Program /\ Reply' = Reply /\ (Answers(x, r) => Answers(x, r)')
  BY SteadyAll
<1>2. r = serving'[t]
  OBVIOUS
<1> QED
  BY <1>1, <1>2 DEF Works

\* The facts about an operation of a handler that is doing it.
LEMMA Places ==
  ASSUME AloneInv, NEW t \in Threads,
         NEW op \in {"spawn", "query", "join", "setReply", "testEmpty", "resetCount", "resetText", "finish"},
         Doing(t, op)
  PROVE  /\ t \in Busy /\ at[t] \in At(op) /\ at[t] \in Nat /\ todo[t] \in Seq(BOOLEAN) /\ Halfway(t)
         /\ at \in [Threads -> Nat] /\ todo \in [Threads -> Seq(BOOLEAN)] /\ mid \in [Threads -> BOOLEAN]
         /\ count \in [Threads -> Nat] /\ intersectCount \in Nat
         /\ Query \in Nat /\ Reply \in Nat /\ Resets \in Nat /\ Query < Reply /\ Query <= Resets
         /\ Alone(serving[t]) => Works(t)
<1>1. FreshInv /\ CountTypes /\ Halfway(t) /\ Working /\ ServerTypes
  BY DEF AloneInv, FreshInv
<1>2. t \in Busy /\ at[t] \in At(op) /\ at[t] \in Nat
  BY <1>1, Doer
<1>3. Query \in Nat /\ Reply \in Nat /\ Resets \in Nat /\ Query < Reply /\ Query <= Resets
  BY DEF Query, Reply, Resets
<1> QED
  BY <1>1, <1>2, <1>3 DEF CountTypes, Working, ServerTypes

LEMMA CountRight ==
  ASSUME AloneInv, FreshInv', FileInv', NEW t \in Threads, intersect_callback_counts(t)
  PROVE  AloneInv'
<1>1. /\ UNCHANGED <<program, hung, clientVars, waiting, replied, serving, at, said, reply_, host, storing, text,
                    undefined, overlaps>>
      /\ Doing(t, "query") /\ Program.callback = "count" /\ todo[t] # <<>>
  BY DEF intersect_callback_counts
<1>2. /\ t \in Busy /\ at[t] \in At("query") /\ todo[t] \in Seq(BOOLEAN) /\ Halfway(t) /\ at[t] \in Nat
      /\ todo \in [Threads -> Seq(BOOLEAN)] /\ mid \in [Threads -> BOOLEAN] /\ count \in [Threads -> Nat]
      /\ intersectCount \in Nat /\ Query \in Nat /\ Reply \in Nat /\ Query < Reply /\ Query <= Resets
      /\ Alone(serving[t]) => Works(t)
  BY <1>1, Places
<1>3. at[t] = Query
  BY <1>2 DEF At, Query
<1>4. PICK s \in Seq(BOOLEAN) : s = todo[t] /\ s # <<>>
  BY <1>1, <1>2
<1>5. /\ Tail(s) \in Seq(BOOLEAN) /\ NumFound(s) = One(Head(s)) + NumFound(Tail(s))
      /\ NumFound(s) \in Nat /\ NumFound(Tail(s)) \in Nat
  BY <1>4, NumFoundTail, NumFoundTypes
<1>6. mid[t] => Found(Head(s))
  BY <1>1, <1>2, <1>4 DEF Halfway
\* The two accesses, or none.
<1>7. \/ /\ ~mid[t] /\ Found(Head(s)) /\ count' = [count EXCEPT ![t] = intersectCount]
         /\ mid' = [mid EXCEPT ![t] = TRUE] /\ intersectCount' = intersectCount /\ todo' = todo
      \/ /\ mid[t] /\ intersectCount' = count[t] + 1 /\ mid' = [mid EXCEPT ![t] = FALSE]
         /\ todo' = [todo EXCEPT ![t] = Tail(s)] /\ count' = count
      \/ /\ ~mid[t] /\ ~Found(Head(s)) /\ todo' = [todo EXCEPT ![t] = Tail(s)]
         /\ intersectCount' = intersectCount /\ mid' = mid /\ count' = count
  BY <1>4, <1>6 DEF intersect_callback_counts
<1>8. /\ count' \in [Threads -> Nat] /\ mid' \in [Threads -> BOOLEAN] /\ todo' \in [Threads -> Seq(BOOLEAN)]
      /\ intersectCount' \in Nat
      /\ \A u \in Threads : u # t => todo'[u] = todo[u] /\ mid'[u] = mid[u]
      /\ \/ /\ ~mid[t] /\ Found(Head(s)) /\ count'[t] = intersectCount /\ mid'[t]
            /\ intersectCount' = intersectCount /\ todo'[t] = s
         \/ /\ mid[t] /\ intersectCount' = count[t] + 1 /\ ~mid'[t] /\ todo'[t] = Tail(s)
         \/ /\ ~mid[t] /\ ~Found(Head(s)) /\ todo'[t] = Tail(s) /\ intersectCount' = intersectCount /\ ~mid'[t]
  <2>1. CASE /\ ~mid[t] /\ Found(Head(s)) /\ count' = [count EXCEPT ![t] = intersectCount]
             /\ mid' = [mid EXCEPT ![t] = TRUE] /\ intersectCount' = intersectCount /\ todo' = todo
    BY <1>2, <1>4, <2>1
  <2>2. CASE /\ mid[t] /\ intersectCount' = count[t] + 1 /\ mid' = [mid EXCEPT ![t] = FALSE]
             /\ todo' = [todo EXCEPT ![t] = Tail(s)] /\ count' = count
    <3>1. todo' \in [Threads -> Seq(BOOLEAN)] /\ todo'[t] = Tail(s) /\ mid' \in [Threads -> BOOLEAN] /\ ~mid'[t]
      BY <1>2, <1>5, <2>2
    <3>2. \A u \in Threads : u # t => todo'[u] = todo[u] /\ mid'[u] = mid[u]
      BY <1>2, <2>2
    <3>3. intersectCount' \in Nat
      BY <1>2, <2>2
    <3> QED
      BY <1>2, <2>2, <3>1, <3>2, <3>3
  <2>3. CASE /\ ~mid[t] /\ ~Found(Head(s)) /\ todo' = [todo EXCEPT ![t] = Tail(s)]
             /\ intersectCount' = intersectCount /\ mid' = mid /\ count' = count
    <3>1. todo' \in [Threads -> Seq(BOOLEAN)] /\ todo'[t] = Tail(s)
      BY <1>2, <1>5, <2>3
    <3>2. \A u \in Threads : u # t => todo'[u] = todo[u] /\ mid'[u] = mid[u]
      BY <1>2, <2>3
    <3> QED
      BY <1>2, <2>3, <3>1, <3>2
  <2> QED
    BY <1>7, <2>1, <2>2, <2>3
<1>9. CountTypes'
  BY <1>1, <1>8 DEF AloneInv, CountTypes
<1>10. /\ Program' = Program /\ Query' = Query /\ Resets' = Resets /\ Reply' = Reply /\ Offloads' = Offloads
       /\ \A r : Here(r)' = Here(r) /\ HostSays(r)' = HostSays(r)
  BY <1>1, SteadyAll DEF clientVars
<1>11. Halfway(t)'
  <2>1. ~(at[t] > Query) /\ serving[t] # None
    BY <1>2, <1>3 DEF Busy
  <2> QED
    BY <1>1, <1>3, <1>4, <1>8, <1>10, <2>1 DEF Halfway
<1>12. Zeroed'
  <2>1. t \in Busy' /\ at'[t] <= Resets
    BY <1>1, <1>2, <1>3 DEF Busy
  <2> QED
    BY <1>10, <2>1 DEF Zeroed
<1>13. ASSUME Alone(serving[t]) PROVE Works(t)'
  <2>1. PICK r : r = serving[t]
    OBVIOUS
  <2>2. Counting(t, r)
    BY <1>1, <1>2, <1>13, <2>1 DEF Works
  <2>3. intersectCount + NumFound(s) = CountOf(Here(r)) /\ (mid[t] => count[t] = intersectCount)
    BY <1>2, <1>3, <1>4, <2>2 DEF Counting
  <2>4. intersectCount' + NumFound(todo'[t]) = CountOf(Here(r)) /\ (mid'[t] => count'[t] = intersectCount')
    <3>1. PICK n, m, k, i \in Nat :
            n = NumFound(s) /\ m = NumFound(Tail(s)) /\ k = One(Head(s)) /\ i = intersectCount
      BY <1>2, <1>5, OneTypes
    <3>2. n = k + m /\ (Found(Head(s)) => k = 1) /\ (~Found(Head(s)) => k = 0)
      BY <1>5, <3>1 DEF One
    <3>3. CASE ~mid[t] /\ Found(Head(s)) /\ count'[t] = intersectCount /\ mid'[t]
               /\ intersectCount' = intersectCount /\ todo'[t] = s
      BY <2>3, <3>3
    <3>4. CASE mid[t] /\ intersectCount' = count[t] + 1 /\ ~mid'[t] /\ todo'[t] = Tail(s)
      <4>1. intersectCount' = i + 1 /\ k = 1
        BY <1>6, <2>3, <3>1, <3>2, <3>4
      <4>2. (i + 1) + m = i + n
        BY <3>2, <4>1
      <4> QED
        BY <2>3, <3>1, <3>4, <4>1, <4>2
    <3>5. CASE ~mid[t] /\ ~Found(Head(s)) /\ todo'[t] = Tail(s) /\ intersectCount' = intersectCount /\ ~mid'[t]
      <4>1. m = n
        BY <3>2, <3>5
      <4> QED
        BY <2>3, <3>1, <3>5, <4>1
    <3> QED
      BY <1>8, <3>3, <3>4, <3>5
  <2>5. Counting(t, r)'
    BY <1>1, <1>10, <2>2, <2>4 DEF Counting
  <2>6. PICK x : x = reply_'[t]
    OBVIOUS
  <2>7. ~(at'[t] > Reply)
    BY <1>1, <1>2, <1>3
  <2> QED
    BY <1>1, <2>1, <2>5, <2>6, <2>7, WorksNow DEF clientVars
<1>14. UNCHANGED <<program, asked, answers, replied, serving, overlaps, at, storing>>
  BY <1>1 DEF clientVars
<1> QED
  BY <1>2, <1>8, <1>9, <1>11, <1>12, <1>13, <1>14, OwnStep

LEMMA PushRight ==
  ASSUME AloneInv, FreshInv', FileInv', NEW t \in Threads, intersect_callback_pushes(t)
  PROVE  AloneInv'
<1>1. /\ UNCHANGED <<program, hung, clientVars, waiting, replied, serving, at, mid, count, said, reply_, host,
                    intersectCount, undefined, overlaps>>
      /\ Doing(t, "query") /\ Program.callback = "push" /\ todo[t] # <<>>
      /\ todo' = [todo EXCEPT ![t] = Tail(@)]
      /\ \/ storing = t /\ storing' = None /\ text' = Append(text, [about |-> serving[t], says |-> None])
         \/ ~Found(Head(todo[t])) /\ storing' = storing /\ text' = text
  BY DEF intersect_callback_pushes, Pushes
<1>2. /\ t \in Busy /\ at[t] \in At("query") /\ todo[t] \in Seq(BOOLEAN) /\ Halfway(t) /\ at[t] \in Nat
      /\ todo \in [Threads -> Seq(BOOLEAN)]
      /\ Query \in Nat /\ Reply \in Nat /\ Query < Reply
      /\ Alone(serving[t]) => Works(t)
  BY <1>1, Places
<1>3. ServerTypes /\ ~Offloads
  BY <1>1, Kinds DEF AloneInv, FreshInv
<1>4. at[t] = 1 /\ Query = 1 /\ Reply = 2
  BY <1>2, <1>3 DEF At, Query, Reply
<1>5. PICK s \in Seq(BOOLEAN) : s = todo[t] /\ s # <<>>
  BY <1>1, <1>2
<1>6. /\ Tail(s) \in Seq(BOOLEAN) /\ NumFound(s) = One(Head(s)) + NumFound(Tail(s))
      /\ NumFound(s) \in Nat /\ NumFound(Tail(s)) \in Nat
  BY <1>5, NumFoundTail, NumFoundTypes
<1>7. /\ todo' \in [Threads -> Seq(BOOLEAN)] /\ todo'[t] = Tail(s)
      /\ \A u \in Threads : u # t => todo'[u] = todo[u]
  BY <1>1, <1>2, <1>5, <1>6
<1>8. ~mid[t] /\ (storing = t => Found(Head(s)))
  BY <1>1, <1>2, <1>4, <1>5 DEF Halfway
<1>9. CountTypes'
  BY <1>1, <1>7 DEF AloneInv, CountTypes
<1>10. /\ Program' = Program /\ Query' = Query /\ Offloads' = Offloads /\ Reply' = Reply
       /\ \A r : geomStrings(r)' = geomStrings(r)
  BY <1>1, SteadyAll DEF clientVars
<1>11. Halfway(t)'
  <2>1. storing' # t
    BY <1>1, <1>5, <1>8, ProgramsAssumption
  <2> QED
    BY <1>1, <1>4, <1>8, <1>10, <2>1 DEF Halfway
<1>12. Zeroed'
  BY <1>1, <1>10 DEF Zeroed
<1>13. ASSUME Alone(serving[t]) PROVE Works(t)'
  <2>1. PICK r : r = serving[t]
    OBVIOUS
  <2>2. Pushing(t, r)
    BY <1>1, <1>2, <1>13, <2>1 DEF Works
  <2>3. PICK c : c = CountOf(geomStrings(r))
    OBVIOUS
  <2>4. /\ Len(text) + NumFound(s) = c /\ reply_[t].text = None
        /\ \A i \in DOMAIN text : text[i] = [about |-> r, says |-> None]
    BY <1>4, <1>5, <2>2, <2>3 DEF Pushing
  <2>5. PICK n, m, k \in Nat : n = NumFound(s) /\ m = NumFound(Tail(s)) /\ k = One(Head(s))
    BY <1>6, OneTypes
  <2>6. n = k + m /\ (Found(Head(s)) => k = 1) /\ (~Found(Head(s)) => k = 0)
    BY <1>6, <2>5 DEF One
  <2>7. /\ Len(text') + NumFound(todo'[t]) = c
        /\ \A i \in DOMAIN text' : text'[i] = [about |-> r, says |-> None]
    <3>1. CASE storing = t /\ text' = Append(text, [about |-> serving[t], says |-> None])
      <4>1. PICK e : e = [about |-> r, says |-> None]
        OBVIOUS
      <4>2. IsSeq(text) /\ text' = Append(text, e)
        BY <1>3, <2>1, <3>1, <4>1 DEF ServerTypes
      <4>3. /\ Len(text) \in Nat /\ Len(text') = Len(text) + 1 /\ DOMAIN (text') = 1 .. Len(text) + 1
            /\ DOMAIN text = 1 .. Len(text)
            /\ text'[Len(text) + 1] = e /\ \A i \in 1 .. Len(text) : text'[i] = text[i]
        BY <4>2, Appended
      <4>4. \A i \in 1 .. Len(text) + 1 : text'[i] = e
        <5>1. \A i \in 1 .. Len(text) : text'[i] = e
          BY <2>4, <4>1, <4>3
        <5> QED
          BY <4>3, <5>1
      <4>5. k = 1
        BY <1>8, <2>6, <3>1
      <4>6. (Len(text) + 1) + m = Len(text) + n
        BY <2>6, <4>3, <4>5
      <4> QED
        BY <1>7, <2>4, <2>5, <4>1, <4>3, <4>4, <4>6
    <3>2. CASE ~Found(Head(todo[t])) /\ text' = text
      <4>1. m = n
        BY <1>5, <2>6, <3>2
      <4> QED
        BY <1>7, <2>4, <2>5, <3>2, <4>1
    <3> QED
      BY <1>1, <3>1, <3>2
  <2>8. Pushing(t, r)'
    BY <1>1, <1>10, <2>3, <2>4, <2>7 DEF Pushing
  <2>9. PICK x : x = reply_'[t]
    OBVIOUS
  <2>10. ~(at'[t] > Reply)
    BY <1>1, <1>4
  <2> QED
    BY <1>1, <2>1, <2>8, <2>9, <2>10, WorksNow DEF clientVars
<1>14. UNCHANGED <<program, asked, answers, replied, serving, overlaps, at, mid>> /\ storing' \in {storing, t, None}
  BY <1>1 DEF clientVars
<1> QED
  BY <1>2, <1>7, <1>9, <1>11, <1>12, <1>13, <1>14, OwnStep

\* Steps that change nothing the work depends on but the call to the host.
LEMMA HostOnly ==
  ASSUME AloneInv, FreshInv', FileInv', NEW t \in Busy, UNCHANGED <<program, clientVars, replied, serving, todo, mid,
           count, reply_, intersectCount, text, overlaps>>,
         said' = [u \in Threads |-> said'[u]], at' = [u \in Threads |-> IF u = t THEN at'[t] ELSE at[u]],
         storing' \in {storing, t, None}, Halfway(t)',
         at'[t] = at[t] \/ (at[t] < at'[t] /\ at'[t] <= Query),
         Alone(serving[t]) /\ Works(t) =>
           /\ Offloads /\ host'[t] = "replied" => said'[t] \in HostSays(serving[t])
           /\ host'[t] = "done" => host[t] = "done"
           /\ Program.callback = "ask" /\ at[t] <= Reply /\ todo[t] # <<>> /\ host'[t] = "replied" =>
                said'[t] \in {Failed, intersectsRefinement(Head(todo[t]))}
  PROVE  AloneInv'
<1>1. UNCHANGED <<program, asked, answers, replied, serving, overlaps>> /\ t \in Threads
  BY DEF clientVars, Busy
<1>2. ServerTypes /\ FreshInv /\ CountTypes /\ Zeroed /\ Working
  BY DEF AloneInv, FreshInv
<1>3. at[t] \in Nat /\ at'[t] \in Nat /\ Query \in Nat /\ Reply \in Nat /\ Query < Reply /\ Query <= Resets /\ Resets \in Nat
  <2>1. at \in [Threads -> Nat] /\ at' \in [Threads -> Nat]
    BY <1>2 DEF AloneInv, FreshInv, ServerTypes
  <2> QED
    BY <1>1, <2>1 DEF Query, Reply, Resets
<1>4. CountTypes'
  BY <1>2 DEF CountTypes
<1>5. /\ Program' = Program /\ Offloads' = Offloads /\ Query' = Query /\ Reply' = Reply /\ Resets' = Resets
      /\ \A r : geomStrings(r)' = geomStrings(r) /\ Here(r)' = Here(r) /\ HostSays(r)' = HostSays(r)
  BY <1>1, SteadyAll
<1>6. Zeroed'
  <2>1. Busy' = Busy
    BY <1>1 DEF Busy
  <2>2. ASSUME NEW u \in Busy, at[u] <= Resets PROVE at'[u] <= Resets
    BY <1>3, <2>2 DEF Busy
  <2> QED
    BY <1>2, <1>5, <2>1, <2>2 DEF Zeroed
<1>7. ASSUME Alone(serving[t]) PROVE Works(t)'
  <2>1. PICK r : r = serving[t]
    OBVIOUS
  <2>2. Works(t)
    BY <1>2, <1>7 DEF Working
  <2>3. at'[t] # 4 \/ at[t] = 4 \/ ~Offloads
    BY <1>3 DEF Query
  <2>4. at'[t] <= Reply => at[t] <= Reply
    BY <1>3
  <2>5. ASSUME Program.callback = "count" PROVE Counting(t, r)'
    <3>1. Counting(t, r)
      BY <2>1, <2>2, <2>5 DEF Works
    <3> QED
      BY <1>5, <1>7, <2>1, <2>2, <2>3, <2>4, <3>1 DEF Counting
  <2>6. ASSUME Program.callback = "ask" PROVE Asking(t, r)'
    <3>1. Asking(t, r)
      BY <2>1, <2>2, <2>6 DEF Works
    <3> QED
      BY <1>5, <1>7, <2>1, <2>2, <2>4, <2>6, <3>1 DEF Asking
  <2>7. ASSUME Program.callback = "push" PROVE Pushing(t, r)'
    <3>1. Pushing(t, r)
      BY <2>1, <2>2, <2>7 DEF Works
    <3>2. at'[t] <= 2 => at[t] <= 2
      BY <1>3
    <3> QED
      BY <1>5, <3>1, <3>2 DEF Pushing
  <2>8. PICK x : x = reply_'[t]
    OBVIOUS
  <2>9. at'[t] > Reply => Answers(x, r)
    <3>1. at'[t] > Reply => at[t] > Reply
      BY <1>3
    <3> QED
      BY <2>1, <2>2, <2>8, <3>1 DEF Works
  <2> QED
    BY <1>1, <2>1, <2>5, <2>6, <2>7, <2>8, <2>9, WorksNow
<1>8. \A u \in Threads : u # t => at'[u] = at[u] /\ todo'[u] = todo[u] /\ mid'[u] = mid[u]
  OBVIOUS
<1> QED
  BY <1>1, <1>4, <1>6, <1>7, <1>8, OwnStep

\* A handler that calls the host, writes or reads is busy.
LEMMA DoerBusy ==
  ASSUME FreshInv, NEW t \in Threads
  PROVE  /\ host[t] # "idle" => t \in Busy
         /\ Writes(t) \/ Reads(t) => t \in Busy
<1>1. ServerTypes /\ Placing(t)
  BY DEF FreshInv
<1>2. host[t] # "idle" => t \in Busy
  BY <1>1 DEF Placing, Hosts, Busy
<1>3. \A op : Doing(t, op) => t \in Busy
  BY DEF Doing, Busy
<1> QED
  BY <1>2, <1>3 DEF Writes, Reads, Pushes

LEMMA SayHelloRight ==
  ASSUME AloneInv, FreshInv', FileInv', NEW t \in Threads, SayHello(t)
  PROVE  AloneInv'
<1>1. /\ UNCHANGED <<program, hung, clientVars, waiting, replied, serving, at, todo, mid, count, reply_, storing,
                    globals, overlaps>>
      /\ host[t] = "asked" /\ host' = [host EXCEPT ![t] = "replied"]
  BY DEF SayHello
<1>2. PICK answer : /\ said' = [said EXCEPT ![t] = answer]
                    /\ \/ answer = Failed
                       \/ Offloads /\ answer \in exp4_server_Answers(serving[t])
                       \/ ~Offloads /\ answer \in exp5_server_Answers(Head(todo[t]))
  BY DEF SayHello
<1>3. t \in Busy /\ Halfway(t) /\ said = [u \in Threads |-> said[u]] /\ at = [u \in Threads |-> at[u]]
      /\ (Program.callback # "count" => ~Offloads)
  BY <1>1, DoerBusy, Kinds DEF AloneInv, CountTypes, FreshInv, ServerTypes
<1>4. said' = [u \in Threads |-> said'[u]] /\ said'[t] = answer
  BY <1>2, <1>3
<1>5. Program' = Program /\ Query' = Query
  BY <1>1, SteadyAll DEF clientVars
<1>6. Halfway(t)'
  BY <1>1, <1>3, <1>5 DEF Halfway
<1>7. ASSUME Alone(serving[t])
      PROVE  /\ Offloads => answer \in HostSays(serving[t])
             /\ ~Offloads => answer \in {Failed, intersectsRefinement(Head(todo[t]))}
  BY <1>2, <1>7 DEF exp4_server_Answers, exp5_server_Answers, HostSays
<1>8. at' = [u \in Threads |-> IF u = t THEN at'[t] ELSE at[u]]
  BY <1>1, <1>3
<1>9. host'[t] # "done"
  <2>1. host = [u \in Threads |-> host[u]]
    BY DEF AloneInv, FreshInv, ServerTypes
  <2> QED
    BY <1>1, <2>1
<1> QED
  BY <1>1, <1>3, <1>4, <1>6, <1>7, <1>8, <1>9, HostOnly DEF globals

LEMMA CallHostRight ==
  ASSUME AloneInv, FreshInv', FileInv', NEW t \in Threads, CallHost(t)
  PROVE  AloneInv'
<1>1. /\ UNCHANGED <<program, hung, clientVars, waiting, replied, serving, todo, mid, count, said, reply_, storing,
                    globals, overlaps>>
      /\ host' = [host EXCEPT ![t] = "asked"]
  BY DEF CallHost
<1>2. /\ said = [u \in Threads |-> said[u]] /\ at = [u \in Threads |-> at[u]] /\ at \in [Threads -> Nat]
      /\ host = [u \in Threads |-> host[u]] /\ Halfway(t)
  BY DEF AloneInv, CountTypes, FreshInv, ServerTypes
<1>3. host'[t] # "done" /\ host'[t] # "replied" /\ said' = [u \in Threads |-> said'[u]]
  BY <1>1, <1>2
<1>4. Program' = Program /\ Query' = Query
  BY <1>1, SteadyAll DEF clientVars
<1>5. CASE Doing(t, "query") /\ at' = at
  <2>1. t \in Busy
    BY <1>5 DEF Doing, Busy
  <2>2. Halfway(t)'
    BY <1>1, <1>2, <1>4, <1>5 DEF Halfway
  <2>3. at' = [u \in Threads |-> IF u = t THEN at'[t] ELSE at[u]]
    BY <1>2, <1>5
  <2> QED
    BY <1>1, <1>2, <1>3, <1>5, <2>1, <2>2, <2>3, HostOnly DEF globals
<1>6. CASE Doing(t, "spawn") /\ Goes(t)
  <2>1. t \in Busy /\ at[t] \in At("spawn")
    BY <1>6, Places
  <2>2. at[t] = 1 /\ Offloads /\ Query = 2
    BY <2>1 DEF At, Query
  <2>3. at' = [u \in Threads |-> IF u = t THEN at'[t] ELSE at[u]] /\ at'[t] = 2
    BY <1>2, <1>6, <2>2 DEF Goes
  <2>4. Program.callback = "count"
    BY <2>2, Kinds DEF AloneInv, FreshInv
  <2>5. Halfway(t)'
    BY <1>1, <1>2, <1>4, <2>2, <2>3, <2>4 DEF Halfway
  <2>6. at[t] < at'[t] /\ at'[t] <= Query
    BY <2>2, <2>3
  <2>7. UNCHANGED <<program, clientVars, replied, serving, todo, mid, count, reply_, intersectCount, text, overlaps,
                    storing>>
    BY <1>1 DEF globals
  <2> QED
    BY <1>3, <2>1, <2>3, <2>5, <2>6, <2>7, HostOnly
<1> QED
  BY <1>5, <1>6 DEF CallHost

LEMMA WriteRight ==
  ASSUME AloneInv, FreshInv', FileInv', NEW t \in Threads, BeginWrite(t) \/ Undefined(t)
  PROVE  AloneInv'
<1>1. /\ UNCHANGED <<program, clientVars, replied, serving, at, todo, mid, count, said, reply_, host, intersectCount, text,
                    overlaps>>
      /\ storing' \in {storing, t, None}
  BY DEF BeginWrite, Undefined, handlerVars, globals
<1>2. /\ said = [u \in Threads |-> said[u]] /\ at = [u \in Threads |-> at[u]] /\ Halfway(t) /\ Zeroed /\ Working
      /\ FreshInv /\ ServerTypes /\ Placing(t)
  BY DEF AloneInv, CountTypes, FreshInv, ServerTypes
<1>3. t \in Busy
  BY <1>2, DoerBusy DEF BeginWrite, Undefined, Doing, Busy
<1>4. storing' = storing \/ (storing' = t /\ Writes(t))
  BY DEF BeginWrite, Undefined, handlerVars
<1>5. Program' = Program /\ Query' = Query
  BY <1>1, SteadyAll DEF clientVars
<1>6. ASSUME Program.callback = "push", Writes(t)
      PROVE  IF at[t] = 1 THEN todo[t] # <<>> /\ Found(Head(todo[t])) ELSE at[t] = 3
  <2>1. ~Offloads /\ program # "exp5_dpu"
    BY <1>2, <1>6, Kinds
  <2>2. CASE host[t] = "replied"
    BY <1>2, <2>1, <2>2 DEF Placing, Hosts
  <2>3. CASE Pushes(t) /\ Found(Head(todo[t]))
    <3>1. at[t] \in At("query")
      BY <2>3, Places DEF Pushes
    <3> QED
      BY <2>1, <2>3, <3>1 DEF At, Pushes
  <2>4. CASE Doing(t, "resetText")
    <3>1. at[t] \in At("resetText")
      BY <2>4, Places
    <3> QED
      BY <2>1, <3>1 DEF At
  <2> QED
    BY <1>6, <2>2, <2>3, <2>4 DEF Writes
<1>7. Halfway(t)'
  <2>1. (mid'[t] <=> mid[t]) /\ serving'[t] # None
    BY <1>1, <1>3 DEF Busy
  <2> QED
    BY <1>1, <1>2, <1>4, <1>5, <1>6, <2>1 DEF Halfway
<1>8. at' = [u \in Threads |-> IF u = t THEN at'[t] ELSE at[u]] /\ said' = [u \in Threads |-> said'[u]]
  BY <1>1, <1>2
<1>9. ASSUME Alone(serving[t]), Works(t)
      PROVE  /\ Offloads /\ host[t] = "replied" => said[t] \in HostSays(serving[t])
             /\ Program.callback = "ask" /\ at[t] <= Reply /\ todo[t] # <<>> /\ host[t] = "replied" =>
                  said[t] \in {Failed, intersectsRefinement(Head(todo[t]))}
  <2>1. PICK r : r = serving[t]
    OBVIOUS
  <2>2. Offloads => Program.callback = "count"
    BY <1>2, Kinds
  <2>3. Program.callback = "count" => Counting(t, r)
    BY <1>9, <2>1 DEF Works
  <2>4. Program.callback = "ask" => Asking(t, r)
    BY <1>9, <2>1 DEF Works
  <2> QED
    BY <2>1, <2>2, <2>3, <2>4 DEF Counting, Asking
<1> QED
  BY <1>1, <1>3, <1>7, <1>8, <1>9, HostOnly

LEMMA LastTail ==
  ASSUME NEW s \in Seq(BOOLEAN), s # <<>>
  PROVE  /\ Tail(s) # <<>> => Last(Tail(s)) = Last(s)
         /\ Tail(s) = <<>> => Last(s) = Head(s)
<1>1. Len(s) \in Nat \ {0} /\ Head(s) = s[1]
  BY EmptySeq
<1>2. PICK u \in Seq(BOOLEAN) : u = Tail(s) /\ Len(u) = Len(s) - 1 /\ \A i \in 1 .. Len(u) : u[i] = s[i + 1]
  BY HeadTailProperties
<1>3. ASSUME u # <<>> PROVE Last(u) = Last(s)
  <2>1. Len(u) \in Nat \ {0}
    BY <1>3, EmptySeq
  <2>2. Len(u) \in 1 .. Len(u) /\ Len(u) + 1 = Len(s)
    BY <1>1, <1>2, <2>1
  <2> QED
    BY <1>2, <2>2 DEF Last
<1>4. ASSUME u = <<>> PROVE Last(s) = Head(s)
  <2>1. Len(u) = 0
    BY <1>4
  <2>2. Len(s) = 1
    BY <1>1, <1>2, <2>1
  <2> QED
    BY <1>1, <2>2 DEF Last
<1> QED
  BY <1>2, <1>3, <1>4

LEMMA KeepAnswerRight ==
  ASSUME AloneInv, FreshInv', FileInv', NEW t \in Threads, KeepAnswer(t)
  PROVE  AloneInv'
<1>1. /\ UNCHANGED <<program, started, hung, clientVars, waiting, replied, serving, at, mid, count, said, reply_,
                    intersectCount, undefined, overlaps>>
      /\ host[t] = "replied" /\ storing' = None
      /\ text' = <<[about |-> serving[t], says |-> said[t]]>>
      /\ IF Offloads THEN host' = [host EXCEPT ![t] = "done"] /\ todo' = todo
                     ELSE host' = [host EXCEPT ![t] = "idle"] /\ todo' = [todo EXCEPT ![t] = Tail(@)]
  BY DEF KeepAnswer
<1>2. /\ ServerTypes /\ FreshInv /\ Placing(t) /\ Halfway(t) /\ CountTypes /\ Zeroed /\ Working
      /\ todo \in [Threads -> Seq(BOOLEAN)] /\ host = [u \in Threads |-> host[u]]
  BY DEF AloneInv, FreshInv, CountTypes, ServerTypes
<1>3. t \in Busy /\ Hosts(t)
  BY <1>1, <1>2, DoerBusy DEF Placing
<1>4. /\ Program.callback # "push"
      /\ Offloads => Program.callback = "count" /\ at[t] \in {2, 3} /\ Query = 2 /\ Reply = 4
      /\ ~Offloads => Program.callback = "ask" /\ at[t] = 1 /\ todo[t] # <<>> /\ Query = 1 /\ Reply = 2
  BY <1>2, <1>3, Kinds DEF Hosts, Query, Reply
<1>5. PICK s \in Seq(BOOLEAN) : s = todo[t]
  BY <1>2
<1>6. ~Offloads => Tail(s) \in Seq(BOOLEAN)
  BY <1>4, <1>5, NumFoundTail
<1>7. /\ todo' \in [Threads -> Seq(BOOLEAN)] /\ \A u \in Threads : u # t => todo'[u] = todo[u]
      /\ Offloads => todo'[t] = s /\ host'[t] = "done"
      /\ ~Offloads => todo'[t] = Tail(s) /\ host'[t] = "idle"
  <2>1. CASE Offloads
    BY <1>1, <1>2, <1>5, <2>1
  <2>2. CASE ~Offloads
    BY <1>1, <1>2, <1>5, <1>6, <2>2
  <2> QED
    BY <2>1, <2>2
<1>8. CountTypes'
  BY <1>1, <1>2, <1>7 DEF CountTypes
<1>9. /\ Program' = Program /\ Offloads' = Offloads /\ Query' = Query /\ Reply' = Reply /\ Resets' = Resets
      /\ \A r : geomStrings(r)' = geomStrings(r) /\ Here(r)' = Here(r) /\ HostSays(r)' = HostSays(r)
  BY <1>1, SteadyAll DEF clientVars
<1>10. Halfway(t)'
  <2>1. CASE Offloads
    BY <1>1, <1>2, <1>4, <1>5, <1>7, <1>9, <2>1 DEF Halfway
  <2>2. CASE ~Offloads
    BY <1>1, <1>2, <1>4, <1>9, <2>2 DEF Halfway
  <2> QED
    BY <2>1, <2>2
<1>11. Zeroed'
  BY <1>1, <1>2, <1>9 DEF Zeroed, Busy
<1>12. ASSUME Alone(serving[t]) PROVE Works(t)'
  <2>1. PICK r : r = serving[t]
    OBVIOUS
  <2>2. Works(t)
    BY <1>2, <1>3, <1>12 DEF Working
  <2>3. ASSUME Program.callback = "count" PROVE Counting(t, r)'
    <3>1. Offloads /\ Counting(t, r)
      BY <1>4, <2>1, <2>2, <2>3 DEF Works
    <3>2. said[t] \in HostSays(r)
      BY <1>1, <3>1 DEF Counting
    <3> QED
      BY <1>1, <1>4, <1>5, <1>7, <1>9, <2>1, <3>1, <3>2 DEF Counting
  <2>4. ASSUME Program.callback = "ask" PROVE Asking(t, r)'
    <3>1. ~Offloads /\ Asking(t, r) /\ at[t] <= Reply /\ s # <<>>
      BY <1>4, <1>5, <2>1, <2>2, <2>4 DEF Works
    <3>2. PICK all : all = AllCandidates(geomStrings(r))
      OBVIOUS
    <3>3. all # <<>> /\ Last(s) = Last(all) /\ said[t] \in {Failed, intersectsRefinement(Head(s))}
      BY <1>1, <1>5, <3>1, <3>2 DEF Asking
    <3>4. Tail(s) # <<>> => Last(Tail(s)) = Last(all)
      BY <3>1, <3>3, LastTail
    <3>5. Tail(s) = <<>> => said[t] \in {Failed, intersectsRefinement(Last(all))}
      BY <3>1, <3>3, LastTail
    <3>6. all = AllCandidates(geomStrings(r)')
      BY <1>9, <3>2
    <3> QED
      BY <1>1, <1>7, <1>9, <2>1, <3>1, <3>3, <3>4, <3>5, <3>6 DEF Asking
  <2>5. PICK x : x = reply_'[t]
    OBVIOUS
  <2>6. ~(at'[t] > Reply)
    BY <1>1, <1>4
  <2> QED
    BY <1>1, <1>4, <2>1, <2>3, <2>4, <2>5, <2>6, WorksNow DEF clientVars
<1>13. UNCHANGED <<program, asked, answers, replied, serving, overlaps, at, mid>> /\ storing' \in {storing, t, None}
  BY <1>1 DEF clientVars
<1> QED
  BY <1>3, <1>7, <1>8, <1>10, <1>11, <1>12, <1>13, OwnStep

LEMMA EndQueryRight ==
  ASSUME AloneInv, FreshInv', FileInv', NEW t \in Threads, EndQuery(t)
  PROVE  AloneInv'
<1>1. /\ UNCHANGED <<program, started, hung, clientVars, waiting, replied, serving, todo, mid, count, said, reply_,
                    storing, globals, overlaps>>
      /\ at' = [at EXCEPT ![t] = @ + 1]
      /\ \/ Doing(t, "query") /\ todo[t] = <<>> /\ host' = host
         \/ Doing(t, "join") /\ host[t] = "done" /\ host' = [host EXCEPT ![t] = "idle"]
  BY DEF EndQuery, Goes
<1>2. /\ ServerTypes /\ Placing(t) /\ Halfway(t) /\ CountTypes /\ Zeroed /\ Working
      /\ at \in [Threads -> Nat] /\ host = [u \in Threads |-> host[u]]
  BY DEF AloneInv, FreshInv, ServerTypes
<1>3. t \in Busy /\ serving[t] # None
  BY <1>1 DEF Doing, Busy
<1>4. /\ at'[t] = at[t] + 1 /\ \A u \in Threads : u # t => at'[u] = at[u]
  BY <1>1, <1>2
<1>5. \/ /\ at[t] = Query /\ todo[t] = <<>> /\ host' = host
      \/ /\ Offloads /\ at[t] = 3 /\ Query = 2 /\ host[t] = "done" /\ host'[t] = "idle"
  <2>1. CASE Doing(t, "query") /\ todo[t] = <<>> /\ host' = host
    <3>1. at[t] \in At("query")
      BY <2>1, Places
    <3> QED
      BY <2>1, <3>1 DEF At, Query
  <2>2. CASE Doing(t, "join") /\ host[t] = "done" /\ host' = [host EXCEPT ![t] = "idle"]
    <3>1. at[t] \in At("join")
      BY <2>2, Places
    <3> QED
      BY <1>2, <2>2, <3>1 DEF At, Query
  <2> QED
    BY <1>1, <2>1, <2>2
<1>6. ~mid[t] /\ todo[t] = <<>> /\ (Program.callback = "push" => storing # t)
  <2>1. CASE at[t] = Query /\ todo[t] = <<>>
    <3>1. Program.callback # "count" => Query = 1
      BY <1>2, Kinds DEF Query
    <3> QED
      BY <1>2, <2>1, <3>1 DEF Halfway
  <2>2. CASE Offloads /\ at[t] = 3 /\ Query = 2
    <3>1. Program.callback = "count"
      BY <1>2, <2>2, Kinds
    <3> QED
      BY <1>2, <1>3, <2>2, <3>1 DEF Halfway
  <2> QED
    BY <1>5, <2>1, <2>2
<1>7. /\ at'[t] \in Nat /\ at[t] \in Nat /\ at'[t] <= Reply /\ at[t] <= Reply /\ at'[t] <= Resets
      /\ Reply \in Nat /\ Resets \in Nat /\ (~Offloads => at'[t] <= 2)
      /\ (Offloads /\ at'[t] = 4 => host[t] = "done")
  BY <1>4, <1>5 DEF Query, Reply, Resets
<1>8. CountTypes'
  BY <1>1, <1>2 DEF CountTypes, globals
<1>9. /\ Program' = Program /\ Offloads' = Offloads /\ Query' = Query /\ Reply' = Reply /\ Resets' = Resets
      /\ \A r : geomStrings(r)' = geomStrings(r) /\ Here(r)' = Here(r) /\ HostSays(r)' = HostSays(r)
  BY <1>1, SteadyAll DEF clientVars
<1>10. Halfway(t)'
  BY <1>1, <1>6, <1>9 DEF Halfway
<1>11. Zeroed'
  <2>1. t \in Busy'
    BY <1>1, <1>3 DEF Busy
  <2> QED
    BY <1>7, <1>9, <2>1 DEF Zeroed
<1>12. ASSUME Alone(serving[t]) PROVE Works(t)'
  <2>1. PICK r : r = serving[t]
    OBVIOUS
  <2>2. Works(t)
    BY <1>2, <1>3, <1>12 DEF Working
  <2>3. host'[t] = "replied" => host[t] = "replied"
    BY <1>5
  <2>4. host'[t] = "done" => host[t] = "done"
    BY <1>5
  <2>5. ASSUME Program.callback = "count" PROVE Counting(t, r)'
    <3>1. Counting(t, r)
      BY <2>1, <2>2, <2>5 DEF Works
    <3> QED
      BY <1>1, <1>6, <1>7, <1>9, <2>3, <2>4, <3>1 DEF Counting, globals
  <2>6. ASSUME Program.callback = "ask" PROVE Asking(t, r)'
    <3>1. Asking(t, r)
      BY <2>1, <2>2, <2>6 DEF Works
    <3> QED
      BY <1>1, <1>6, <1>7, <1>9, <3>1 DEF Asking, globals
  <2>7. ASSUME Program.callback = "push" PROVE Pushing(t, r)'
    <3>1. Pushing(t, r)
      BY <2>1, <2>2, <2>7 DEF Works
    <3>2. at[t] <= 2
      BY <1>2, <1>4, <1>7, <2>7, Kinds
    <3> QED
      BY <1>1, <1>9, <3>1, <3>2 DEF Pushing, globals
  <2>8. PICK x : x = reply_'[t]
    OBVIOUS
  <2>9. ~(at'[t] > Reply)
    BY <1>7
  <2> QED
    BY <1>1, <2>1, <2>5, <2>6, <2>7, <2>8, <2>9, WorksNow DEF clientVars
<1>13. UNCHANGED <<program, asked, answers, replied, serving, overlaps, todo, mid, storing>>
  BY <1>1 DEF clientVars
<1> QED
  BY <1>3, <1>4, <1>8, <1>10, <1>11, <1>12, <1>13, OwnStep

LEMMA FrontOrNoneRight ==
  ASSUME AloneInv, FreshInv', FileInv', NEW t \in Threads, FrontOrNone(t)
  PROVE  AloneInv'
<1>1. /\ UNCHANGED <<program, clientVars, replied, serving, todo, count, said, storing, intersectCount, text, overlaps>>
      /\ storing = None /\ Doing(t, "testEmpty")
      /\ \/ /\ text # <<>> /\ mid' = [mid EXCEPT ![t] = TRUE] /\ at' = at /\ reply_' = reply_
         \/ /\ text # <<>> /\ mid' = [mid EXCEPT ![t] = FALSE] /\ at' = [at EXCEPT ![t] = @ + 1]
            /\ reply_' = [reply_ EXCEPT ![t].text = Head(text)]
         \/ /\ ~mid[t] /\ text = <<>> /\ at' = [at EXCEPT ![t] = @ + 1] /\ mid' = mid /\ reply_' = reply_
  BY DEF FrontOrNone, Goes, globals
<1>2. /\ t \in Busy /\ at[t] \in At("testEmpty") /\ Halfway(t)
      /\ at \in [Threads -> Nat] /\ mid \in [Threads -> BOOLEAN] /\ (Alone(serving[t]) => Works(t))
  BY <1>1, Places
<1>3. ServerTypes /\ FreshInv /\ CountTypes /\ program = "lb_mt_tfr_server" /\ at[t] = 2
  BY <1>2 DEF At, AloneInv, FreshInv
<1>4. Program.callback = "push" /\ ~Offloads /\ Query = 1 /\ Reply = 2
  BY <1>3, Kinds DEF Offloads, Query, Reply
<1>5. serving[t] # None /\ todo[t] = <<>>
  BY <1>2, <1>3, <1>4 DEF Halfway, Busy
<1>6. /\ mid' \in [Threads -> BOOLEAN] /\ \A u \in Threads : u # t => at'[u] = at[u] /\ mid'[u] = mid[u]
      /\ \/ mid'[t] /\ at'[t] = 2 /\ reply_' = reply_
         \/ /\ ~mid'[t] /\ at'[t] = 3 /\ text # <<>> /\ reply_' = [reply_ EXCEPT ![t].text = Head(text)]
         \/ ~mid'[t] /\ at'[t] = 3 /\ text = <<>> /\ reply_' = reply_
  <2>1. CASE text # <<>> /\ mid' = [mid EXCEPT ![t] = TRUE] /\ at' = at /\ reply_' = reply_
    BY <1>2, <1>3, <2>1
  <2>2. CASE /\ text # <<>> /\ mid' = [mid EXCEPT ![t] = FALSE] /\ at' = [at EXCEPT ![t] = @ + 1]
             /\ reply_' = [reply_ EXCEPT ![t].text = Head(text)]
    BY <1>2, <1>3, <2>2
  <2>3. CASE ~mid[t] /\ text = <<>> /\ at' = [at EXCEPT ![t] = @ + 1] /\ mid' = mid /\ reply_' = reply_
    BY <1>2, <1>3, <2>3
  <2> QED
    BY <1>1, <2>1, <2>2, <2>3
<1>7. CountTypes'
  BY <1>1, <1>3, <1>6 DEF CountTypes
<1>8. /\ Program' = Program /\ Query' = Query /\ \A r : geomStrings(r)' = geomStrings(r)
  BY <1>1, SteadyAll DEF clientVars
<1>9. Halfway(t)'
  <2>1. storing' # t /\ serving'[t] # None /\ todo'[t] = <<>> /\ (mid'[t] => at'[t] = 2)
    BY <1>1, <1>5, <1>6, ProgramsAssumption
  <2> QED
    BY <1>4, <1>8, <2>1 DEF Halfway
<1>10. Zeroed'
  BY <1>4, <1>8 DEF Zeroed
<1>11. ASSUME Alone(serving[t]) PROVE Works(t)'
  <2>1. PICK r : r = serving[t] /\ r \in Clients \X Nat
    BY <1>2, <1>3, BusySent DEF Sent, AllRequests
  <2>2. Pushing(t, r)
    BY <1>2, <1>4, <1>11, <2>1 DEF Works
  <2>3. PICK e : e = [about |-> r, says |-> None]
    OBVIOUS
  <2>4. e # None /\ e.about = r
    <3>1. e \in [about : Clients \X Nat, says : {None, Failed}]
      BY <2>1, <2>3
    <3> QED
      BY <2>3, <3>1, ProgramsAssumption
  <2>5. PICK c : c = CountOf(geomStrings(r))
    OBVIOUS
  <2>6. /\ Len(text) = c /\ Len(text) \in Nat /\ reply_[t].text = None
        /\ text # <<>> => Head(text) = e /\ Len(text) # 0
    <3>1. IsSeq(text)
      BY <1>3 DEF ServerTypes
    <3>2. Len(text) \in Nat /\ DOMAIN text = 1 .. Len(text) /\ (text # <<>> => 1 \in DOMAIN text /\ Head(text) = text[1])
      BY <3>1, Lengths
    <3>3. NumFound(<<>>) = 0
      <4>1. <<>> \in Seq(BOOLEAN)
        OBVIOUS
      <4> QED
        BY <4>1, NumFoundTypes
    <3>4. /\ Len(text) + NumFound(todo[t]) = c /\ reply_[t].text = None
          /\ \A i \in DOMAIN text : text[i] = e
      BY <1>3, <2>2, <2>3, <2>5 DEF Pushing
    <3> QED
      BY <1>5, <3>2, <3>3, <3>4
  <2>7. PICK x : x = reply_'[t]
    OBVIOUS
  <2>8. Pushing(t, r)'
    <3>1. at'[t] <= 2 => reply_' = reply_ /\ at[t] <= 2
      BY <1>3, <1>6
    <3> QED
      BY <1>1, <1>8, <2>2, <3>1 DEF Pushing
  <2>9. ASSUME at'[t] > Reply PROVE Answers(x, r)
    <3>1. CASE text # <<>> /\ reply_' = [reply_ EXCEPT ![t].text = Head(text)]
      <4>1. x.text = e
        <5>1. x = [reply_[t] EXCEPT !.text = e] /\ "text" \in DOMAIN reply_[t]
          BY <1>3, <2>6, <2>7, <3>1 DEF ServerTypes
        <5>2. PICK y : y = reply_[t]
          OBVIOUS
        <5>3. x = [y EXCEPT !.text = e] /\ "text" \in DOMAIN y
          BY <5>1, <5>2
        <5> QED
          BY ONLY <5>3
      <4>2. c # 0
        BY <2>6, <3>1
      <4> QED
        BY <1>4, <2>4, <2>5, <4>1, <4>2 DEF Answers, IsRight
    <3>2. CASE text = <<>> /\ reply_' = reply_
      <4>1. x.text = None
        BY <2>6, <2>7, <3>2
      <4>2. c = 0
        BY <2>6, <3>2
      <4> QED
        BY <1>4, <2>5, <4>1, <4>2 DEF Answers, IsRight
    <3> QED
      BY <1>4, <1>6, <2>9, <3>1, <3>2
  <2> QED
    BY <1>1, <1>4, <2>1, <2>7, <2>8, <2>9, WorksNow DEF clientVars
<1>12. UNCHANGED <<program, asked, answers, replied, serving, overlaps, todo, storing>>
  BY <1>1 DEF clientVars
<1> QED
  BY <1>2, <1>6, <1>7, <1>9, <1>10, <1>11, <1>12, OwnStep

LEMMA SetReplyRight ==
  ASSUME AloneInv, FreshInv', FileInv', NEW t \in Threads, SetReply(t)
  PROVE  AloneInv'
<1>1. /\ UNCHANGED <<program, clientVars, replied, serving, todo, mid, count, said, host, storing, intersectCount, text,
                    overlaps>>
      /\ Doing(t, "setReply") /\ at' = [at EXCEPT ![t] = @ + 1]
      /\ reply_' = [reply_ EXCEPT ![t] = [text |-> IF Reads(t) /\ text # <<>> THEN Head(text) ELSE None,
                                          count |-> intersectCount]]
  BY DEF SetReply, Goes, globals
<1>2. /\ t \in Busy /\ at[t] \in At("setReply") /\ Halfway(t) /\ at[t] \in Nat /\ intersectCount \in Nat
      /\ at \in [Threads -> Nat] /\ mid \in [Threads -> BOOLEAN] /\ (Alone(serving[t]) => Works(t))
      /\ Query \in Nat /\ Reply \in Nat /\ Resets \in Nat /\ Query < Reply
  BY <1>1, Places
<1>3. ServerTypes /\ FreshInv /\ CountTypes /\ FileInv
  BY DEF AloneInv, FreshInv
<1>4. at[t] = Reply /\ program # "lb_mt_tfr_server" /\ Program.callback # "push"
  <2>1. at[t] = Reply /\ program # "lb_mt_tfr_server"
    BY <1>2 DEF At, Reply, Offloads
  <2> QED
    BY <1>3, <2>1, Kinds
<1>5. serving[t] # None /\ todo[t] = <<>> /\ ~mid[t]
  BY <1>2, <1>4 DEF Halfway, Busy
<1>6. at'[t] = Reply + 1 /\ at'[t] <= Resets /\ at'[t] > Reply /\ ~(at'[t] <= Reply) /\ (Offloads => at'[t] # 4)
      /\ \A u \in Threads : u # t => at'[u] = at[u]
  BY <1>1, <1>2, <1>4 DEF Reply, Resets
<1>7. CountTypes'
  BY <1>1, <1>3 DEF CountTypes
<1>8. /\ Program' = Program /\ Offloads' = Offloads /\ Query' = Query /\ Reply' = Reply /\ Resets' = Resets
      /\ \A r : geomStrings(r)' = geomStrings(r) /\ Here(r)' = Here(r) /\ HostSays(r)' = HostSays(r)
  BY <1>1, SteadyAll DEF clientVars
<1>9. Halfway(t)'
  BY <1>1, <1>4, <1>5, <1>8 DEF Halfway
<1>10. Zeroed'
  <2>1. t \in Busy'
    BY <1>1, <1>2 DEF Busy
  <2> QED
    BY <1>6, <1>8, <2>1 DEF Zeroed
<1>11. ASSUME Alone(serving[t]) PROVE Works(t)'
  <2>1. PICK r : r = serving[t] /\ Sent(r) /\ r \in Clients \X Nat
    BY <1>2, <1>3, BusySent DEF Sent, AllRequests
  <2>2. Works(t)
    BY <1>2, <1>11
  <2>3. PICK a : a = IF Reads(t) /\ text # <<>> THEN Head(text) ELSE None
    OBVIOUS
  <2>4. PICK x : x = reply_'[t] /\ x.text = a /\ x.count = intersectCount
    <3>1. reply_'[t] = [text |-> a, count |-> intersectCount]
      BY <1>1, <1>3, <2>3 DEF ServerTypes
    <3> QED
      BY <3>1
  <2>5. \A y : text = <<[about |-> r, says |-> y]>> /\ ~Counts => a = [about |-> r, says |-> y]
    <3>1. ~Counts => Reads(t)
      BY <1>1 DEF Reads, Counts
    <3> QED
      BY <2>3, <3>1, Short
  <2>6. PICK e : e = [about |-> r, says |-> Failed] /\ e # None /\ e.says = Failed
    <3>1. [about |-> r, says |-> Failed] \in [about : Clients \X Nat, says : {None, Failed}]
      BY <2>1
    <3> QED
      BY <3>1, ProgramsAssumption
  <2>7. a = e => HostFailed(x)
    BY <2>4, <2>6 DEF HostFailed
  <2>8. ASSUME Program.callback = "count" PROVE Counting(t, r)' /\ Answers(x, r)
    <3>1. Counting(t, r)
      BY <2>1, <2>2, <2>8 DEF Works
    <3>2. Counting(t, r)'
      BY <1>1, <1>5, <1>6, <1>8, <3>1 DEF Counting
    <3>3. intersectCount = CountOf(Here(r))
      <4>1. <<>> \in Seq(BOOLEAN)
        OBVIOUS
      <4>2. NumFound(todo[t]) = 0
        BY <1>5, <4>1, NumFoundTypes
      <4> QED
        BY <1>2, <1>4, <3>1, <4>2 DEF Counting
    <3>4. CASE Offloads
      <4>1. PICK y \in HostSays(r) : text = <<[about |-> r, says |-> y]>>
        BY <1>4, <3>1, <3>4 DEF Counting, Reply
      <4>2. a = [about |-> r, says |-> y] /\ a.says = y
        <5>1. ~Counts
          BY <3>4 DEF Offloads, Counts
        <5> QED
          BY <2>5, <4>1, <5>1
      <4>3. y = Failed => Answers(x, r)
        BY <2>6, <2>7, <4>2 DEF Answers
      <4>4. ASSUME y = CountOf(ToHost(r)) PROVE Answers(x, r)
        <5>1. CountOf(ToHost(r)) + CountOf(Here(r)) = CountOf(geomStrings(r)) /\ CountOf(ToHost(r)) \in Nat
          BY <1>3, <2>1, <3>4, Parts
        <5>2. Counted(x) = CountOf(geomStrings(r))
          BY <1>2, <2>4, <3>3, <3>4, <4>2, <4>4, <5>1 DEF Counted
        <5> QED
          BY <2>8, <5>2 DEF Answers, IsRight
      <4> QED
        BY <3>2, <4>1, <4>3, <4>4 DEF HostSays
    <3>5. CASE ~Offloads
      <4>1. Here(r) = geomStrings(r)
        BY <1>3, <2>1, <3>5, Parts
      <4>2. Counted(x) = CountOf(geomStrings(r))
        BY <1>2, <2>4, <3>3, <3>5, <4>1 DEF Counted
      <4> QED
        BY <2>8, <3>2, <4>2 DEF Answers, IsRight
    <3> QED
      BY <3>4, <3>5
  <2>9. ASSUME Program.callback = "ask" PROVE Asking(t, r)' /\ Answers(x, r)
    <3>1. Asking(t, r) /\ ~Counts
      BY <1>3, <2>1, <2>2, <2>9, Kinds DEF Works
    <3>2. Asking(t, r)'
      BY <1>6, <1>8 DEF Asking
    <3>3. PICK all, v : all = AllCandidates(geomStrings(r)) /\ v = intersectsRefinement(Last(all))
      OBVIOUS
    <3>4. ASSUME all # <<>>, ~HostFailed(x) PROVE a.about = r /\ a.says = v
      <4>1. PICK y \in {Failed, v} : text = <<[about |-> r, says |-> y]>>
        BY <1>2, <1>4, <1>5, <3>1, <3>3, <3>4 DEF Asking
      <4>2. a = [about |-> r, says |-> y]
        BY <2>5, <3>1, <4>1
      <4>3. y = v
        BY <2>6, <2>7, <3>4, <4>1, <4>2
      <4> QED
        BY <4>2, <4>3
    <3>5. Answers(x, r)
      BY <2>4, <2>9, <3>3, <3>4 DEF Answers, IsRight
    <3> QED
      BY <3>2, <3>5
  <2> QED
    <3>1. Program.callback \in {"count", "ask"}
      BY <1>3, <1>4, Kinds
    <3> QED
      BY <1>1, <1>4, <2>1, <2>4, <2>8, <2>9, <3>1, WorksNow DEF clientVars
<1>12. UNCHANGED <<program, asked, answers, replied, serving, overlaps, todo, mid, storing>>
  BY <1>1 DEF clientVars
<1> QED
  BY <1>2, <1>6, <1>7, <1>9, <1>10, <1>11, <1>12, OwnStep

LEMMA ResetRight ==
  ASSUME AloneInv, FreshInv', FileInv', NEW t \in Threads, Reset(t)
  PROVE  AloneInv'
<1>1. /\ UNCHANGED <<program, clientVars, replied, serving, todo, mid, count, said, reply_, host, overlaps>>
      /\ at' = [at EXCEPT ![t] = @ + 1]
      /\ \/ Doing(t, "resetCount") /\ intersectCount' = 0 /\ storing' = storing
         \/ Doing(t, "resetText") /\ intersectCount' = intersectCount /\ storing' = None
  BY DEF Reset, Goes
<1>2. ServerTypes /\ FreshInv /\ CountTypes /\ Zeroed /\ Placing(t)
  BY DEF AloneInv, FreshInv
<1>3. PICK op \in {"resetCount", "resetText"} : Doing(t, op)
  BY <1>1
<1>4. /\ t \in Busy /\ at[t] \in At(op) /\ Halfway(t) /\ at[t] \in Nat /\ (Alone(serving[t]) => Works(t))
      /\ at \in [Threads -> Nat]
      /\ Query \in Nat /\ Reply \in Nat /\ Resets \in Nat /\ Query < Reply
  BY <1>3, Places
<1>5. /\ at[t] > Reply /\ at[t] > Query /\ at[t] >= 3 /\ program # "exp5_dpu" /\ Program.callback # "ask"
      /\ Offloads => at[t] >= 5
      /\ Doing(t, "resetCount") => Program.callback # "push"
      /\ Doing(t, "resetText") /\ Program.callback = "count" => at[t] > Resets
  <2>1. CASE Doing(t, "resetCount")
    <3>1. at[t] \in At("resetCount")
      BY <2>1, Places
    <3>2. (Offloads \/ Counts) /\ at[t] = IF Offloads THEN 5 ELSE 3
      BY <3>1 DEF At
    <3>3. Program.callback = "count" /\ program # "exp5_dpu"
      BY <1>2, <3>2, Kinds
    <3>4. ~Doing(t, "resetText")
      BY <2>1 DEF Doing
    <3> QED
      BY <3>2, <3>3, <3>4 DEF Reply, Query
  <2>2. CASE Doing(t, "resetText")
    <3>1. at[t] \in At("resetText")
      BY <2>2, Places
    <3>2. (Offloads \/ program = "lb_mt_tfr_server") /\ at[t] = IF Offloads THEN 6 ELSE 3
      BY <3>1 DEF At
    <3>3. Program.callback # "ask" /\ program # "exp5_dpu" /\ (Program.callback = "count" => Offloads)
      BY <1>2, <3>2, Kinds
    <3>4. ~Doing(t, "resetCount")
      BY <2>2 DEF Doing
    <3> QED
      BY <3>2, <3>3, <3>4 DEF Reply, Query, Resets
  <2> QED
    BY <1>1, <2>1, <2>2
<1>6. serving[t] # None /\ todo[t] = <<>> /\ ~mid[t] /\ (Program.callback = "push" => storing' # t)
  <2>1. Program.callback = "push" => storing' = None
    BY <1>1, <1>5
  <2>2. Program.callback = "push" => Query = 1
    BY <1>2, Kinds DEF Query
  <2> QED
    BY <1>4, <1>5, <2>1, <2>2, ProgramsAssumption DEF Halfway, Busy
<1>7. at'[t] = at[t] + 1 /\ \A u \in Threads : u # t => at'[u] = at[u]
  BY <1>1, <1>4
<1>8. CountTypes'
  BY <1>1, <1>2 DEF CountTypes
<1>9. /\ Program' = Program /\ Offloads' = Offloads /\ Query' = Query /\ Reply' = Reply /\ Resets' = Resets
      /\ \A r : geomStrings(r)' = geomStrings(r) /\ Here(r)' = Here(r) /\ HostSays(r)' = HostSays(r)
  BY <1>1, SteadyAll DEF clientVars
<1>10. Halfway(t)'
  BY <1>1, <1>6, <1>9 DEF Halfway
<1>11. Zeroed'
  <2>1. CASE intersectCount' = 0
    BY <2>1 DEF Zeroed
  <2>2. CASE Doing(t, "resetText") /\ intersectCount' = intersectCount
    <3>1. Busy' = Busy
      BY <1>1 DEF Busy
    <3>2. ASSUME Program.callback = "count", NEW u \in Busy, at[u] <= Resets PROVE u # t /\ at'[u] <= Resets
      <4>1. u # t
        BY <1>4, <1>5, <2>2, <3>2
      <4> QED
        BY <1>7, <3>2, <4>1 DEF Busy
    <3> QED
      BY <1>2, <1>9, <2>2, <3>1, <3>2 DEF Zeroed
  <2> QED
    BY <1>1, <2>1, <2>2
<1>12. ASSUME Alone(serving[t]) PROVE Works(t)'
  <2>1. PICK r : r = serving[t]
    OBVIOUS
  <2>2. Works(t)
    BY <1>4, <1>12
  <2>3. at'[t] > Reply /\ ~(at'[t] <= Reply) /\ ~(at'[t] <= 2) /\ (Offloads => at'[t] # 4)
    BY <1>4, <1>5, <1>7
  <2>4. host[t] = "idle" \/ ~Offloads
    BY <1>2, <1>4, <1>5 DEF Placing, Hosts
  <2>5. Program.callback = "count" => Counting(t, r)'
    BY <1>1, <1>6, <1>9, <2>3, <2>4 DEF Counting
  <2>6. Pushing(t, r)'
    BY <2>3 DEF Pushing
  <2>7. PICK x : x = reply_[t] /\ x = reply_'[t]
    BY <1>1
  <2>8. Answers(x, r)
    BY <1>5, <2>1, <2>2, <2>7 DEF Works
  <2> QED
    BY <1>1, <1>5, <2>1, <2>5, <2>6, <2>7, <2>8, WorksNow DEF clientVars
<1>13. UNCHANGED <<program, asked, answers, replied, serving, overlaps, todo, mid>> /\ storing' \in {storing, t, None}
  BY <1>1 DEF clientVars
<1> QED
  BY <1>4, <1>7, <1>8, <1>10, <1>11, <1>12, <1>13, OwnStep

\* The answer of a request that is alone is right when it is on its way.
LEMMA FinishRight ==
  ASSUME AloneInv, FreshInv', FileInv', NEW t \in Threads, Finish(t)
  PROVE  AloneInv'
<1>1. /\ UNCHANGED <<program, clientVars, todo, mid, storing, intersectCount, text, overlaps>>
      /\ Doing(t, "finish")
      /\ replied' = [replied EXCEPT ![serving[t][1]] = reply_[t]]
      /\ serving' = [serving EXCEPT ![t] = None] /\ at' = [at EXCEPT ![t] = 1]
      /\ count' = [count EXCEPT ![t] = 0] /\ said' = [said EXCEPT ![t] = None]
  BY DEF Finish, globals
<1>2. ServerTypes /\ FreshInv /\ CountTypes /\ Zeroed /\ Working /\ RightSoFar /\ Placed /\ \A u \in Threads : Halfway(u)
  BY DEF AloneInv, FreshInv
<1>3. /\ t \in Busy /\ at[t] \in At("finish") /\ Halfway(t) /\ at[t] \in Nat
      /\ Query \in Nat /\ Reply \in Nat /\ Resets \in Nat /\ Query < Reply
  BY <1>1, Places
<1>4. /\ at[t] > Reply /\ at[t] > Query /\ at[t] > 2
      /\ Program.callback = "count" => at[t] > Resets
      /\ Program.callback = "push" => at[t] = 4
  <2>1. at[t] = IF Offloads THEN 7 ELSE IF program = "exp5_dpu" THEN 3 ELSE 4
    BY <1>3 DEF At
  <2>2. (Program.callback = "count" => program # "exp5_dpu") /\ (Program.callback = "push" => ~Offloads /\ program # "exp5_dpu")
    BY <1>2, Kinds
  <2> QED
    BY <2>1, <2>2 DEF Reply, Query, Resets
<1>5. PICK r, c : r = serving[t] /\ c = r[1] /\ c \in Clients /\ r = <<c, Len(asked[c])>>
  <2>1. Waits(serving[t])
    BY <1>2, <1>3 DEF Placed
  <2> QED
    BY <2>1 DEF Waits, Pending, AllRequests
<1>6. /\ replied' = [d \in Clients |-> IF d = c THEN reply_[t] ELSE replied[d]]
      /\ serving' = [u \in Threads |-> IF u = t THEN None ELSE serving[u]]
      /\ at' = [u \in Threads |-> IF u = t THEN 1 ELSE at[u]]
  BY <1>1, <1>2, <1>5 DEF ServerTypes
<1>7. Busy' = Busy \ {t}
  BY <1>6 DEF Busy
<1>8. CountTypes'
  <2>1. count' \in [Threads -> Nat] /\ said' = [u \in Threads |-> said'[u]]
    BY <1>1, <1>2 DEF CountTypes
  <2> QED
    BY <1>1, <1>2, <2>1 DEF CountTypes
<1>9. Program' = Program /\ Query' = Query /\ Resets' = Resets
  BY <1>1, SteadyAll DEF clientVars
<1>10. ASSUME NEW u \in Threads PROVE Halfway(u)'
  <2>1. CASE u = t
    <3>1. ~mid[t] /\ ~(storing = t /\ Program.callback = "push")
      BY <1>3, <1>4 DEF Halfway
    <3> QED
      BY <1>1, <1>6, <1>9, <2>1, <3>1 DEF Halfway
  <2>2. CASE u # t
    BY <1>1, <1>2, <1>6, <1>9, <2>2 DEF Halfway
  <2> QED
    BY <2>1, <2>2
<1>11. Zeroed'
  <2>1. ASSUME Program.callback = "count", NEW u \in Busy, at[u] <= Resets PROVE u \in Busy' /\ at'[u] <= Resets
    <3>1. u # t
      BY <1>3, <1>4, <2>1
    <3> QED
      BY <1>6, <1>7, <2>1, <3>1 DEF Busy
  <2> QED
    BY <1>1, <1>2, <1>9, <2>1 DEF Zeroed
<1>12. Working'
  <2>1. ASSUME NEW u \in Busy', Alone(serving[u])' PROVE FALSE
    <3>1. u \in Busy /\ u # t /\ serving'[u] = serving[u]
      BY <1>6, <1>7 DEF Busy
    <3>2. Alone(serving[u])
      BY <1>1, <2>1, <3>1 DEF Alone
    <3> QED
      BY <1>2, <1>3, <3>1, <3>2, OnlyBusy
  <2> QED
    BY <2>1 DEF Working
<1>13. RightSoFar'
  <2>1. /\ \A x, q : Answers(x, q) => Answers(x, q)'
        /\ \A q : Alone(q)' => Alone(q)
    BY <1>1, SteadyAll, AloneBefore DEF clientVars
  <2>2. ASSUME NEW d \in Clients, replied'[d] # None, Alone(<<d, Len(asked[d])>>)'
        PROVE  Answers(replied[d], <<d, Len(asked[d])>>)'
    <3>1. PICK x, q : x = replied'[d] /\ q = <<d, Len(asked[d])>> /\ asked' = asked
      BY <1>1 DEF clientVars
    <3>2. Alone(q)'
      BY <2>2, <3>1
    <3>3. Alone(q)
      BY <2>1, <3>2
    <3>4. Answers(x, q)
      <4>1. CASE d = c
        <5>1. q = serving[t] /\ x = reply_[t]
          BY <1>5, <1>6, <3>1, <4>1
        <5>2. Works(t)
          BY <1>2, <1>3, <3>3, <5>1 DEF Working
        <5> QED
          BY <1>4, <5>1, <5>2 DEF Works
      <4>2. CASE d # c
        BY <1>2, <1>6, <2>2, <3>1, <3>3, <4>2 DEF RightSoFar
      <4> QED
        BY <4>1, <4>2
    <3>5. Answers(x, q)'
      BY <2>1, <3>4
    <3> QED
      BY <3>1, <3>5
  <2>3. ASSUME NEW d \in Clients, NEW n \in 1 .. Len(answers'[d]), Alone(<<d, n>>)' PROVE Answers(answers[d][n], <<d, n>>)'
    <3>1. PICK x, q : x = answers[d][n] /\ q = <<d, n>> /\ answers' = answers
      BY <1>1 DEF clientVars
    <3>2. Alone(q)'
      BY <2>3, <3>1
    <3>3. Answers(x, q)
      BY <1>2, <2>1, <3>1, <3>2 DEF RightSoFar
    <3>4. Answers(x, q)'
      BY <2>1, <3>3
    <3> QED
      BY <3>1, <3>4
  <2> QED
    BY <2>2, <2>3 DEF RightSoFar
<1> QED
  BY <1>8, <1>10, <1>11, <1>12, <1>13 DEF AloneInv

\* A request that is alone finds the globals empty and the tree loaded.
LEMMA TakeRight ==
  ASSUME AloneInv, FreshInv', FileInv', NEW t \in Threads, Take(t)
  PROVE  AloneInv'
<1>1. PICK r \in waiting :
        /\ serving' = [serving EXCEPT ![t] = r] /\ at' = [at EXCEPT ![t] = 1]
        /\ todo' = [todo EXCEPT ![t] = IF Loaded THEN AllCandidates(Here(r)) ELSE <<>>]
        /\ overlaps' = overlaps \cup {{r, serving[u]} : u \in Busy}
  BY DEF Take
<1>2. /\ UNCHANGED <<program, clientVars, replied, mid, count, said, reply_, host, storing, intersectCount, text>>
      /\ serving[t] = None /\ Serving
  BY DEF Take, globals
<1>3. /\ ServerTypes /\ Placed /\ Cleared /\ Placing(t) /\ FreshInv /\ FileInv /\ CountTypes /\ Zeroed /\ RightSoFar
      /\ \A u \in Threads : Halfway(u)
  BY DEF AloneInv, FreshInv, TextInv
<1>4. Sent(r)
  <2>1. Waits(r)
    BY <1>3 DEF Placed
  <2>2. PICK c \in Clients : c = r[1] /\ r \in AllRequests /\ IsSeq(answers[c]) /\ Len(answers[c]) + 1 = r[2]
                             /\ r[2] = Len(asked[c])
    BY <1>3, <2>1 DEF Waits, Pending, AllRequests, ServerTypes
  <2>3. Len(answers[c]) \in Nat
    BY <2>2, Lengths
  <2> QED
    BY <2>2, <2>3 DEF Sent
<1>5. r # None
  BY <1>4, ProgramsAssumption DEF Sent, AllRequests
<1>6. Loaded
  <2>1. PICK k \in 1 .. started - 1 : Program.run[k] = "handlers"
    BY <1>2 DEF Serving
  <2>2. Program.run = <<"listen", "tree", "handlers">>
    BY <1>3, ProgramTable
  <2>3. k # 1 /\ k # 2 /\ Program.run[2] = "tree"
    BY <2>1, <2>2
  <2>4. 2 \in 1 .. started - 1
    BY <1>3, <2>1, <2>3 DEF ServerTypes
  <2> QED
    BY <2>3, <2>4 DEF Loaded
<1>7. PICK s \in Seq(BOOLEAN) : s = AllCandidates(Here(r)) /\ CountOf(Here(r)) = NumFound(s) /\ NumFound(s) \in Nat
  BY <1>3, <1>4, Parts, ListTypes
<1>8. /\ serving' = [u \in Threads |-> IF u = t THEN r ELSE serving[u]]
      /\ at' = [u \in Threads |-> IF u = t THEN 1 ELSE at[u]]
      /\ todo' = [u \in Threads |-> IF u = t THEN s ELSE todo[u]]
  BY <1>1, <1>3, <1>6, <1>7 DEF ServerTypes
<1>9. Busy' = Busy \cup {t} /\ t \notin Busy
  BY <1>2, <1>5, <1>8 DEF Busy
<1>10. /\ Program' = Program /\ Offloads' = Offloads /\ Query' = Query /\ Reply' = Reply /\ Resets' = Resets
       /\ \A q : geomStrings(q)' = geomStrings(q) /\ Here(q)' = Here(q) /\ HostSays(q)' = HostSays(q)
  BY <1>2, SteadyAll DEF clientVars
<1>11. CountTypes'
  <2>1. todo' \in [Threads -> Seq(BOOLEAN)]
    BY <1>3, <1>8 DEF CountTypes
  <2> QED
    BY <1>2, <1>3, <2>1 DEF CountTypes
<1>12. ASSUME NEW u \in Threads PROVE Halfway(u)'
  <2>1. CASE u = t
    <3>1. ~mid[t] /\ ~(storing = t /\ Program.callback = "push") /\ ~(1 > Query)
      BY <1>2, <1>3 DEF Halfway, Query
    <3> QED
      BY <1>2, <1>8, <1>10, <2>1, <3>1 DEF Halfway
  <2>2. CASE u # t
    BY <1>2, <1>3, <1>8, <1>10, <2>2 DEF Halfway
  <2> QED
    BY <2>1, <2>2
<1>13. Zeroed'
  <2>1. ASSUME NEW u \in Busy, at[u] <= Resets PROVE u \in Busy' /\ at'[u] <= Resets
    BY <1>8, <1>9, <2>1 DEF Busy
  <2> QED
    BY <1>2, <1>3, <1>10, <2>1 DEF Zeroed
<1>14. ASSUME NEW u \in Busy', Alone(serving[u])' PROVE u = t /\ Busy = {}
  <2>1. \A v \in Busy : {r, serving[v]} \in overlaps'
    BY <1>1
  <2>2. CASE u = t
    BY <1>8, <1>14, <2>1, <2>2 DEF Alone
  <2>3. CASE u # t
    <3>1. u \in Busy /\ serving'[u] = serving[u]
      BY <1>8, <1>9, <2>3 DEF Busy
    <3> QED
      BY <1>14, <2>1, <3>1 DEF Alone
  <2> QED
    BY <2>2, <2>3
<1>15. ASSUME Busy = {} PROVE Works(t)'
  <2>1. at'[t] = 1 /\ serving'[t] = r /\ todo'[t] = s /\ host'[t] = "idle" /\ reply_'[t].text = None /\ ~mid'[t]
    <3>1. host[t] = "idle" /\ reply_[t].text = None /\ ~mid[t]
      BY <1>2, <1>3 DEF Placing, Hosts, Halfway
    <3> QED
      BY <1>2, <1>8, <3>1
  <2>2. ~(at'[t] > Reply) /\ at'[t] <= Reply /\ at'[t] # 4 /\ at'[t] <= 2
    BY <2>1 DEF Reply
  <2>3. ~Offloads => s = AllCandidates(geomStrings(r)) /\ CountOf(geomStrings(r)) = NumFound(s)
    <3>1. ~Offloads => Here(r) = geomStrings(r)
      BY <1>3, <1>4, Parts
    <3> QED
      BY <1>7, <3>1
  <2>4. Program.callback = "count" => Counting(t, r)'
    <3>1. Program.callback = "count" => intersectCount' = 0
      BY <1>2, <1>3, <1>15 DEF Zeroed
    <3>2. 0 + NumFound(s) = CountOf(Here(r))
      BY <1>7
    <3> QED
      BY <1>10, <2>1, <2>2, <3>1, <3>2 DEF Counting
  <2>5. Program.callback = "ask" => Asking(t, r)'
    <3>1. Program.callback = "ask" => ~Offloads
      BY <1>3, Kinds
    <3>2. PICK all : all = AllCandidates(geomStrings(r)) /\ all = AllCandidates(geomStrings(r)')
      BY <1>10
    <3> QED
      BY <2>1, <2>3, <3>1, <3>2 DEF Asking
  <2>6. Program.callback = "push" => Pushing(t, r)'
    <3>1. ASSUME Program.callback = "push" PROVE text' = <<>> /\ ~Offloads
      <4>1. program # "exp5_dpu" /\ ~Offloads
        BY <1>3, <3>1, Kinds
      <4>2. \A i \in DOMAIN text : FALSE
        BY <1>3, <1>15, <4>1 DEF Cleared
      <4>3. text = <<>>
        BY <1>3, <4>2, Lengths DEF ServerTypes
      <4> QED
        BY <1>2, <4>1, <4>3
    <3>2. PICK e : e = text'
      OBVIOUS
    <3>3. e = <<>> => Len(e) = 0 /\ DOMAIN e = {}
      OBVIOUS
    <3>4. 0 + NumFound(s) = NumFound(s)
      BY <1>7
    <3> QED
      BY <1>10, <2>1, <2>3, <3>1, <3>2, <3>3, <3>4 DEF Pushing
  <2> QED
    BY <1>10, <2>1, <2>2, <2>4, <2>5, <2>6 DEF Works
<1>16. Working'
  BY <1>14, <1>15 DEF Working
<1>17. RightSoFar'
  <2>1. UNCHANGED <<program, asked, answers, replied>> /\ overlaps \subseteq overlaps'
    BY <1>1, <1>2 DEF clientVars
  <2> QED
    BY <1>3, <2>1, RightKept
<1> QED
  BY <1>11, <1>12, <1>13, <1>16, <1>17 DEF AloneInv

LEMMA AloneNext == AloneInv /\ [Next]_vars => AloneInv'
<1> SUFFICES ASSUME AloneInv, [Next]_vars PROVE AloneInv'
  OBVIOUS
<1>1. FreshInv' /\ FileInv'
  BY FreshNext, FileNext DEF AloneInv
<1>2. CASE StartUp
  BY <1>1, <1>2, StartUpRight
<1>3. ASSUME NEW c \in Clients, ReadLine(c) \/ Receive(c) PROVE AloneInv'
  BY <1>1, <1>3, ReadLineRight, ReceiveRight
<1>4. ASSUME NEW t \in Threads, Handle(t) PROVE AloneInv'
  <2>1. CASE Take(t)
    BY <1>1, <2>1, TakeRight
  <2>2. CASE intersect_callback_counts(t) \/ intersect_callback_pushes(t)
    BY <1>1, <2>2, CountRight, PushRight
  <2>3. CASE CallHost(t) \/ SayHello(t) \/ KeepAnswer(t)
    BY <1>1, <2>3, CallHostRight, SayHelloRight, KeepAnswerRight
  <2>4. CASE BeginWrite(t) \/ Undefined(t)
    BY <1>1, <2>4, WriteRight
  <2>5. CASE EndQuery(t) \/ FrontOrNone(t)
    BY <1>1, <2>5, EndQueryRight, FrontOrNoneRight
  <2>6. CASE SetReply(t) \/ Reset(t) \/ Finish(t)
    BY <1>1, <2>6, SetReplyRight, ResetRight, FinishRight
  <2> QED
    BY <1>4, <2>1, <2>2, <2>3, <2>4, <2>5, <2>6 DEF Handle
<1>5. CASE UNCHANGED vars
  <2>1. UNCHANGED <<program, started, hung, clientVars, waiting, replied, handlerVars, globals, overlaps>>
    BY <1>5 DEF vars
  <2>2. \A r : Polygons(r)' = Polygons(r)
    BY <2>1 DEF Polygons, clientVars
  <2>3. (\A t \in Threads : Halfway(t)') /\ Zeroed' /\ Working'
    BY <2>1, <2>2, ClientWorks
  <2>4. CountTypes'
    BY <2>1 DEF AloneInv, CountTypes, clientVars, handlerVars, globals
  <2>5. RightSoFar'
    BY <2>1, RightKept DEF AloneInv, clientVars
  <2> QED
    BY <1>1, <2>3, <2>4, <2>5 DEF AloneInv
<1> QED
  BY <1>2, <1>3, <1>4, <1>5 DEF Next

\* The invariants as they are checked.
LEMMA AnsweredSent ==
  ASSUME AloneInv, NEW r \in Answered
  PROVE  Sent(r) /\ (Alone(r) => Answers(AnswerTo(r), r))
<1>1. PICK c \in Clients : \E n \in DOMAIN answers[c] : r = <<c, n>>
  BY DEF Answered
<1>2. ServerTypes /\ Placed /\ RightSoFar
  BY DEF AloneInv, FreshInv
<1>3. DOMAIN answers[c] = 1 .. Len(answers[c]) /\ Len(answers[c]) \in Nat
  BY <1>2, Lengths DEF ServerTypes
<1>4. PICK n \in 1 .. Len(answers[c]) : r = <<c, n>>
  BY <1>1, <1>3
<1>5. Len(asked[c]) \in {Len(answers[c]), Len(answers[c]) + 1}
  BY <1>2 DEF Placed
<1>6. Sent(r)
  BY <1>3, <1>4, <1>5 DEF Sent, AllRequests
<1>7. Alone(r) => Answers(answers[c][n], r)
  BY <1>2, <1>4 DEF RightSoFar
<1> QED
  BY <1>4, <1>6, <1>7 DEF AnswerTo

LEMMA AloneFollows == AloneInv => AloneIsRight
BY AnsweredSent DEF AloneIsRight, Answers

\* An empty string has no candidates: what a request is split into has those of
\* its polygons.
LEMMA SplitCount ==
  ASSUME FileInv, NEW r, Sent(r)
  PROVE  CountOf(geomStrings(r)) = CountOf(Polygons(r))
<1>1. PICK ps \in Seq(Strings) : ps = Polygons(r)
  <2>1. Polygons(r) \in Seq(Geoms)
    BY SentTypes
  <2> QED
    BY <2>1, SeqMonotonic DEF Strings
<1>2. CountOf(<<Empty>>) = 0 /\ <<Empty>> \in Seq(Strings)
  <2>1. PICK es \in Seq(Strings) : es = <<Empty>> /\ Len(es) = 1 /\ es[1] = Empty /\ DOMAIN es = {1}
    <3>1. \A e : <<e>> \in Seq({e}) /\ Len(<<e>>) = 1 /\ <<e>>[1] = e /\ DOMAIN <<e>> = {1}
      OBVIOUS
    <3>2. <<Empty>> \in Seq(Strings)
      BY DEF Strings
    <3> QED
      BY <3>1, <3>2
  <2>2. AllCandidates(es) = FlattenSeq(CandidateLists(es)) /\ CountOf(es) = NumFound(AllCandidates(es))
    BY ListTypes
  <2>3. CandidateLists(es) = Append(<<>>, <<>>)
    <3>1. CandidateLists(es) \in Seq(Seq(BOOLEAN)) /\ Len(CandidateLists(es)) = 1
      BY <2>1, ListTypes
    <3>2. CandidateLists(es)[1] = <<>>
      BY <2>1 DEF CandidateLists, CandidatesOf
    <3>3. PICK a, b \in Seq(Seq(BOOLEAN)) : a = CandidateLists(es) /\ b = Append(<<>>, <<>>) /\ Len(b) = 1 /\ b[1] = <<>>
      <4>1. <<>> \in Seq(BOOLEAN) /\ <<>> \in Seq(Seq(BOOLEAN))
        OBVIOUS
      <4>2. /\ Append(<<>>, <<>>) \in Seq(Seq(BOOLEAN)) /\ Len(Append(<<>>, <<>>)) = 1
            /\ Append(<<>>, <<>>)[1] = <<>>
        BY <4>1
      <4> QED
        BY <3>1, <4>2
    <3>4. \A i \in 1 .. Len(a) : a[i] = b[i]
      BY <3>1, <3>2, <3>3
    <3> QED
      BY <3>1, <3>3, <3>4, SeqEqual
  <2>4. FlattenSeq(Append(<<>>, <<>>)) = <<>>
    <3>1. <<>> \in Seq(BOOLEAN) /\ <<>> \in Seq(Seq(BOOLEAN)) /\ <<>> \o <<>> = <<>>
      OBVIOUS
    <3> QED
      BY <3>1, FlattenAppend, FlattenEmpty
  <2>5. NumFound(<<>>) = 0
    <3>1. <<>> \in Seq(BOOLEAN)
      OBVIOUS
    <3> QED
      BY <3>1, NumFoundTypes
  <2> QED
    BY <2>1, <2>2, <2>3, <2>4, <2>5
<1>3. CountOf(ps) \in Nat
  BY ListTypes
<1>4. CountOf(<<Empty>> \o ps) = CountOf(<<Empty>>) + CountOf(ps)
  BY <1>2, ListConcat
<1> QED
  BY <1>1, <1>2, <1>3, <1>4 DEF geomStrings

LEMMA WholeFollows == AloneInv => WholeFile
<1> SUFFICES ASSUME AloneInv, NEW r \in Answered, Program.callback = "count", Alone(r), ~HostFailed(AnswerTo(r))
             PROVE  Counted(AnswerTo(r)) = CountOf(SubSeq(File(r[1]), Size * (r[2] - 1) + 1, Size * r[2]))
  BY DEF WholeFile, Size
<1>1. Sent(r) /\ Counted(AnswerTo(r)) = CountOf(geomStrings(r))
  BY AnsweredSent DEF Answers, IsRight
<1>2. Polygons(r) = Run(r[1], r[2])
  BY <1>1 DEF AloneInv, FileInv, Sent, AllRequests, Polygons
<1>3. CountOf(geomStrings(r)) = CountOf(Polygons(r))
  BY <1>1, SplitCount DEF AloneInv
<1> QED
  BY <1>1, <1>2, <1>3 DEF Run

\* A request that no other was processed at the same time as gets the answer a
\* sequential program would give, unless its host failed: the counts of the two
\* parts it was split into add up, the last candidate's verdict, or the polygon
\* itself if it was found.
THEOREM AloneIsRightAlways == Spec => []AloneIsRight
<1>1. Init => AloneInv
  BY AloneInit
<1>2. AloneInv /\ [Next]_vars => AloneInv'
  BY AloneNext
<1>3. AloneInv => AloneIsRight
  BY AloneFollows
<1> QED
  BY <1>1, <1>2, <1>3, PTL DEF Spec

\* What such a request is answered by a counting program is the count of its run
\* of polygons in the file of its client: batching and splitting lose nothing
\* and send nothing twice.
THEOREM WholeFileAlways == Spec => []WholeFile
<1>1. Init => AloneInv
  BY AloneInit
<1>2. AloneInv /\ [Next]_vars => AloneInv'
  BY AloneNext
<1>3. AloneInv => WholeFile
  BY WholeFollows
<1> QED
  BY <1>1, <1>2, <1>3, PTL DEF Spec
=============================================================================

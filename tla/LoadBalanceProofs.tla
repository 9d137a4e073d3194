------------------------- MODULE LoadBalanceProofs --------------------------
(***************************************************************************)
(* Proofs about LoadBalance, for every number of ranks, of participating   *)
(* ranks, of partitions and of repetitions, and about the suites of tests  *)
(* the ranks run, for every input.  Accounted is the inductive invariant   *)
(* of the one; SuiteSound, with SuiteShown beside it, that of the other.   *)
(***************************************************************************)
EXTENDS LoadBalance, GeosSuite, FiniteSetTheorems, SequenceTheorems, TLAPS

\* A mailbox with one message, and one that receives its first.
LEMMA OneMessage ==
  ASSUME NEW S, NEW s \in Seq(S), Len(s) = 1
  PROVE  /\ Head(s) = s[1] /\ Head(s) \in S /\ DOMAIN s = {1}
         /\ Tail(s) = <<>>
  <1>1. s # <<>> /\ Head(s) = s[1] /\ DOMAIN s = {1}
    OBVIOUS
  <1>2. Tail(s) \in Seq(S) /\ Len(Tail(s)) = 0 /\ Head(s) \in S
    BY <1>1, HeadTailProperties
  <1> QED
    BY <1>1, <1>2, EmptySeq

LEMMA SomeMessage ==
  ASSUME NEW S, NEW s \in Seq(S), s # <<>>
  PROVE  Len(s) \in Nat /\ Len(s) > 0
  BY EmptySeq

LEMMA FirstMessage ==
  ASSUME NEW S, NEW s \in Seq(S), Len(s) = 0, NEW e \in S
  PROVE  Append(s, e) = <<e>> /\ DOMAIN s = {}
  OBVIOUS

\* How the sets of ranks and of partitions lie with one another.
LEMMA Numbers ==
  /\ root \in Ranks /\ Workers \subseteq Ranks /\ root \notin Workers
  /\ \A w \in Workers : w \in Nat /\ w < numProcs /\ (w < partitions => w \in Files)
  /\ \A f \in Files : f \in Nat /\ f < partitions /\ f # NoFile
  /\ \A w \in Workers : w # NoFile
  /\ Served \subseteq Files /\ Served \cap Workers = {} /\ NoFile \notin Served
  /\ numProcs \in Nat /\ partitions \in Nat /\ limit_procs \in Nat /\ limit_procs >= 1
  /\ n_repeats \in Nat /\ n_repeats > 0
  BY ProcsAssumption, WorkAssumption DEF Ranks, Workers, Files, Served, root, NoFile

\* Of everything that carries a partition there are finitely many.
LEMMA FiniteCarriers == \A f : IsFiniteSet(Carriers(f)) /\ Cardinality(Carriers(f)) \in Nat
  <1>1. IsFiniteSet(Workers)
    BY ProcsAssumption, FS_Interval DEF Workers
  <1>2. TAKE f
  <1>3. Carriers(f) \subseteq Workers
    BY DEF Carriers
  <1> QED
    BY <1>1, <1>3, FS_Subset, FS_CardinalityType

\* The part of Accounted that says where everything is.
Located == TypeOK /\ OneOutstanding /\ MasterPlace /\ \A w \in Workers : Place(w)

LEMMA InitAccounted == Init => Accounted
  <1> SUFFICES ASSUME Init PROVE Accounted
    OBVIOUS
  <1> USE Numbers DEF Init
  <1>1. TypeOK
    BY DEF TypeOK, Message
  <1>2. OneOutstanding
    BY DEF OneOutstanding, Waiting
  <1>3. \A w \in Workers : Place(w)
    BY DEF Place
  <1>4. MasterPlace
    BY DEF MasterPlace
  <1>5. ASSUME NEW f \in Served
        PROVE  called[f] + Cardinality(Carriers(f)) = HandedOut(f)
    <2>1. f \in Files /\ f # NoFile /\ f \in Nat /\ f >= numProcs
      BY DEF Served
    <2>2. Carriers(f) = {}
      BY <2>1 DEF Carriers, Carries
    <2> QED
      BY <2>1, <2>2, FS_EmptySet DEF HandedOut
  <1>6. OwnAccount
    BY DEF OwnAccount
  <1>7. SkippedAccount
    BY DEF SkippedAccount
  <1> QED
    BY <1>1, <1>2, <1>3, <1>4, <1>5, <1>6, <1>7 DEF Accounted, ServedAccount

\* A worker that receives a message had exactly that one in its mailbox.
LEMMA TakesOnly ==
  ASSUME Located, NEW w \in Workers, mail[w] # <<>>
  PROVE  /\ mail[w][1] = Head(mail[w]) /\ Head(mail[w]) \in Message
         /\ DOMAIN mail[w] = {1} /\ Tail(mail[w]) = <<>>
         /\ mail[w] \in Seq(Message) /\ Len(mail[w]) = 1
  <1>1. request[w] \in Nat /\ mail[w] \in Seq(Message) /\ Len(mail[w]) \in Nat
    BY LenProperties DEF Located, TypeOK
  <1>2. Len(mail[w]) > 0
    BY <1>1, SomeMessage
  <1>3. Waiting(w)
    BY DEF Located, OneOutstanding
  <1>4. Len(mail[w]) = 1
    <2>1. \A r, l \in Nat : l > 0 /\ r + l \in {0, 1} => l = 1
      OBVIOUS
    <2>2. request[w] + Len(mail[w]) \in {0, 1}
      BY <1>3 DEF Waiting
    <2> QED
      BY <1>1, <1>2, <2>1, <2>2
  <1> QED
    BY <1>1, <1>4, OneMessage

\* If it is work, the partition is one the master hands out.
LEMMA ReceivesServed ==
  ASSUME Located, NEW w \in Workers, ReceiveWork(w)
  PROVE  /\ mail[w][1] = Work(Head(mail[w]).file) /\ DOMAIN mail[w] = {1}
         /\ Head(mail[w]).file \in Served /\ Tail(mail[w]) = <<>>
  <1>1. /\ mail[w][1] = Head(mail[w]) /\ Head(mail[w]) \in Message
        /\ DOMAIN mail[w] = {1} /\ Tail(mail[w]) = <<>>
    BY TakesOnly DEF ReceiveWork
  <1>2. Head(mail[w]).tag = "WORK_TAG" /\ Head(mail[w]) = Work(Head(mail[w]).file)
    BY <1>1 DEF ReceiveWork, Message, Work
  <1> QED
    BY <1>1, <1>2 DEF Located, Place

\* A mailbox the master answers into was empty, and its owner waits.
LEMMA AnswersWaiting ==
  ASSUME Located, NEW w \in Workers, request[w] > 0
  PROVE  /\ pc[w] = "recv" /\ file[w] = NoFile
         /\ mail[w] \in Seq(Message) /\ Len(mail[w]) = 0 /\ DOMAIN mail[w] = {}
  <1>1. request[w] \in Nat /\ mail[w] \in Seq(Message) /\ Len(mail[w]) \in Nat
    BY LenProperties DEF Located, TypeOK
  <1>2. pc[w] = "recv" /\ Len(mail[w]) = 0
    BY <1>1 DEF Located, OneOutstanding, Waiting
  <1> QED
    BY <1>1, <1>2, LenProperties DEF Located, Place

\* A worker that does not wait has nothing in its mailbox.
LEMMA NoMail ==
  ASSUME Located, NEW w \in Workers, pc[w] # "recv"
  PROVE  request[w] = 0 /\ DOMAIN mail[w] = {}
  <1>1. request[w] \in Nat /\ mail[w] \in Seq(Message) /\ Len(mail[w]) \in Nat
    BY LenProperties DEF Located, TypeOK
  <1>2. Len(mail[w]) = 0 /\ request[w] = 0
    BY <1>1 DEF Located, OneOutstanding, Waiting
  <1> QED
    BY <1>1, <1>2, LenProperties

LEMMA NextLocated == Located /\ [Next]_vars => Located'
  <1> SUFFICES ASSUME Located, [Next]_vars PROVE Located'
    OBVIOUS
  <1> USE Numbers DEF Located, OneOutstanding, TypeOK
  <1>1. ASSUME NEW w \in Workers, Start(w), w < partitions PROVE Located'
    <2>0. /\ file' = [file EXCEPT ![w] = w] /\ pc' = [pc EXCEPT ![w] = "run"]
          /\ w \in Files /\ pc[w] = "start" /\ n[w] < n_repeats
          /\ UNCHANGED <<n, request, mail, filenum, stopped, time, called, tested, report>>
      BY <1>1 DEF Start
    <2> USE <2>0
    <2>1. TypeOK'
      OBVIOUS
    <2>2. ASSUME NEW v \in Workers PROVE Waiting(v)'
      BY DEF Waiting, Place
    <2>3. ASSUME NEW v \in Workers PROVE Place(v)'
      BY DEF Waiting, Place
    <2>4. MasterPlace'
      BY DEF MasterPlace
    <2> QED
      BY <2>1, <2>2, <2>3, <2>4
  <1>2. ASSUME NEW w \in Workers, Start(w), ~(w < partitions) PROVE Located'
    <2>0. /\ request' = [request EXCEPT ![w] = @ + 1] /\ pc' = [pc EXCEPT ![w] = "recv"]
          /\ pc[w] = "start" /\ n[w] < n_repeats
          /\ UNCHANGED <<n, file, mail, filenum, stopped, time, called, tested, report>>
      BY <1>2 DEF Start
    <2> USE <2>0
    <2>1. TypeOK'
      OBVIOUS
    <2>2. ASSUME NEW v \in Workers PROVE Waiting(v)'
      BY DEF Waiting, Place
    <2>3. ASSUME NEW v \in Workers PROVE Place(v)'
      BY DEF Waiting, Place
    <2>4. MasterPlace'
      BY DEF MasterPlace
    <2> QED
      BY <2>1, <2>2, <2>3, <2>4
  <1>3. ASSUME NEW w \in Workers, RunTests(w) PROVE Located'
    <2> USE <1>3 DEF RunTests
    <2>0. file[w] \in Files /\ Waiting(w) /\ n[w] < n_repeats
      BY DEF Place
    <2>01. Plus(time[w], AllTests(n[w])) \in Nat \cup {Inf}
      BY DEF Plus, AllTests
    <2>1. TypeOK'
      <3>1. time' \in [Ranks -> Nat \cup {Inf}]
        BY <2>01
      <3>2. called' \in [Files -> Nat]
        BY <2>0
      <3>3. file' \in [Workers -> Files \cup {NoFile}] /\ request' \in [Workers -> Nat]
        OBVIOUS
      <3>4. pc' \in [Ranks -> {"start", "run", "recv", "serve", "reduce", "end"}]
        OBVIOUS
      <3> QED
        BY <3>1, <3>2, <3>3, <3>4
    <2>02. request[w] \in Nat /\ mail[w] \in Seq(Message) /\ Len(mail[w]) \in Nat
      BY LenProperties
    <2>03. request'[w] = request[w] + 1 /\ mail'[w] = mail[w] /\ pc'[w] = "recv"
      OBVIOUS
    <2>2. ASSUME NEW v \in Workers PROVE Waiting(v)'
      <3>1. CASE v = w
        BY <2>0, <2>02, <2>03, <3>1 DEF Waiting
      <3>2. CASE v # w
        BY <3>2 DEF Waiting
      <3> QED
        BY <3>1, <3>2
    <2>3. ASSUME NEW v \in Workers PROVE Place(v)'
      BY DEF Waiting, Place
    <2>4. MasterPlace'
      BY DEF MasterPlace
    <2> QED
      BY <2>1, <2>2, <2>3, <2>4
  <1>4. ASSUME NEW w \in Workers, ReceiveWork(w) PROVE Located'
    <2> USE <1>4 DEF ReceiveWork
    <2>03. Head(mail[w]).file \in Served /\ mail'[w] = <<>>
      BY <1>4, ReceivesServed
    <2>1. TypeOK'
      <3>1. Head(mail[w]).file \in Files \cup {NoFile}
        BY <2>03
      <3>2. file' \in [Workers -> Files \cup {NoFile}]
        BY <3>1
      <3>3. <<>> \in Seq(Message) /\ mail' = [mail EXCEPT ![w] = <<>>]
        <4>1. Tail(mail[w]) = <<>>
          BY <1>4, ReceivesServed
        <4>2. mail' = [mail EXCEPT ![w] = Tail(mail[w])]
          BY <1>4 DEF ReceiveWork
        <4> QED
          BY <4>1, <4>2, EmptySeq
      <3>4. mail' \in [Workers -> Seq(Message)]
        BY <3>3
      <3> QED
        BY <3>2, <3>4
    <2>2. ASSUME NEW v \in Workers PROVE Waiting(v)'
      BY DEF Waiting, Place
    <2>3. ASSUME NEW v \in Workers PROVE Place(v)'
      <3>1. Place(v) /\ Place(w)
        OBVIOUS
      <3>2. CASE v # w
        <4>1. UNCHANGED <<pc[v], n[v], file[v], mail[v]>>
          BY <3>2
        <4> QED
          BY <3>1, <4>1 DEF Place
      <3>3. CASE v = w
        <4>1. pc'[v] = "run" /\ n'[v] = n[v] /\ file'[v] \in Served /\ mail'[v] = <<>> /\ n[v] < n_repeats
          BY <2>03, <3>1, <3>3 DEF Place
        <4>2. DOMAIN mail'[v] = {}
          BY <4>1
        <4> QED
          BY <4>1, <4>2 DEF Place
      <3> QED
        BY <3>2, <3>3
    <2>4. MasterPlace'
      BY DEF MasterPlace
    <2> QED
      BY <2>1, <2>2, <2>3, <2>4
  <1>5. ASSUME NEW w \in Workers, ReceiveTermination(w) PROVE Located'
    <2> USE <1>5 DEF ReceiveTermination
    <2>1. TypeOK'
      BY DEF Place
    <2>2. ASSUME NEW v \in Workers PROVE Waiting(v)'
      BY DEF Waiting, Place
    <2>3. ASSUME NEW v \in Workers PROVE Place(v)'
      BY DEF Waiting, Place
    <2>4. MasterPlace'
      BY DEF MasterPlace
    <2> QED
      BY <2>1, <2>2, <2>3, <2>4
  <1>6. ASSUME NEW r \in Idle, SkipRepetition(r) PROVE Located'
    <2> USE <1>6 DEF SkipRepetition, Idle
    <2>1. TypeOK'
      OBVIOUS
    <2>2. ASSUME NEW v \in Workers PROVE Waiting(v)'
      BY DEF Waiting, Place
    <2>3. ASSUME NEW v \in Workers PROVE Place(v)'
      BY DEF Waiting, Place
    <2>4. MasterPlace'
      BY DEF MasterPlace
    <2> QED
      BY <2>1, <2>2, <2>3, <2>4
  <1>7. ASSUME NEW w \in Workers, ServeWork(w) PROVE Located'
    <2> USE <1>7 DEF ServeWork
    <2>0. Work(filenum) \in Message /\ filenum \in Served
      BY DEF Message, Served, Files, MasterPlace, Work
    <2>01. pc[w] = "recv" /\ Len(mail[w]) = 0 /\ mail[w] \in Seq(Message)
      BY DEF Waiting
    <2>02. mail'[w] = <<Work(filenum)>>
      BY <2>0, <2>01, FirstMessage
    <2>1. TypeOK'
      <3>1. request' \in [Workers -> Nat] /\ filenum' \in Nat
        OBVIOUS
      <3>2. Append(mail[w], Work(filenum)) \in Seq(Message)
        BY <2>0, <2>01
      <3>3. mail' \in [Workers -> Seq(Message)]
        BY <3>2
      <3> QED
        BY <3>1, <3>3
    <2>2. ASSUME NEW v \in Workers PROVE Waiting(v)'
      BY <2>01, <2>02 DEF Waiting
    <2>3. ASSUME NEW v \in Workers PROVE Place(v)'
      BY <2>0, <2>01, <2>02 DEF Place, Work
    <2>4. MasterPlace'
      BY DEF MasterPlace
    <2> QED
      BY <2>1, <2>2, <2>3, <2>4
  <1>8. ASSUME NEW w \in Workers, Terminate(w) PROVE Located'
    <2> USE <1>8 DEF Terminate
    <2>0. Termination(filenum) \in Message
      BY DEF Message, Termination, MasterPlace
    <2>01. pc[w] = "recv" /\ Len(mail[w]) = 0 /\ mail[w] \in Seq(Message)
      BY DEF Waiting
    <2>02. mail'[w] = <<Termination(filenum)>>
      BY <2>0, <2>01, FirstMessage
    <2>1. TypeOK'
      BY <2>0
    <2>2. ASSUME NEW v \in Workers PROVE Waiting(v)'
      BY <2>01, <2>02 DEF Waiting
    <2>3. ASSUME NEW v \in Workers PROVE Place(v)'
      BY <2>0, <2>01, <2>02 DEF Place, Termination
    <2>4. MasterPlace'
      BY DEF MasterPlace
    <2> QED
      BY <2>1, <2>2, <2>3, <2>4
  <1>9. CASE NextRepetition
    <2> USE <1>9 DEF NextRepetition
    <2>1. TypeOK'
      OBVIOUS
    <2>2. ASSUME NEW v \in Workers PROVE Waiting(v)'
      BY DEF Waiting, Place
    <2>3. ASSUME NEW v \in Workers PROVE Place(v)'
      BY DEF Waiting, Place
    <2>4. MasterPlace'
      BY DEF MasterPlace
    <2> QED
      BY <2>1, <2>2, <2>3, <2>4
  <1>10. ASSUME NEW r \in Ranks, EnterReduce(r) PROVE Located'
    <2> USE <1>10 DEF EnterReduce
    <2>1. TypeOK'
      OBVIOUS
    <2>2. ASSUME NEW v \in Workers PROVE Waiting(v)'
      BY DEF Waiting, Place
    <2>3. ASSUME NEW v \in Workers PROVE Place(v)'
      BY DEF Waiting, Place
    <2>4. MasterPlace'
      BY DEF MasterPlace
    <2> QED
      BY <2>1, <2>2, <2>3, <2>4
  <1>11. CASE Reduce
    <2> USE <1>11 DEF Reduce
    <2>1. TypeOK'
      OBVIOUS
    <2>2. ASSUME NEW v \in Workers PROVE Waiting(v)'
      BY DEF Waiting, Place
    <2>3. ASSUME NEW v \in Workers PROVE Place(v)'
      BY DEF Waiting, Place
    <2>4. MasterPlace'
      BY DEF MasterPlace
    <2> QED
      BY <2>1, <2>2, <2>3, <2>4
  <1>12. CASE UNCHANGED vars
    BY <1>12 DEF vars, Waiting, Place, MasterPlace
  <1> QED
    BY <1>1, <1>2, <1>3, <1>4, <1>5, <1>6, <1>7, <1>8, <1>9, <1>10, <1>11, <1>12
       DEF Next, WorkerStep, RootStep, Stop

LEMMA NextOwn == Located /\ OwnAccount /\ [Next]_vars => OwnAccount'
  <1> SUFFICES ASSUME Located, OwnAccount, [Next]_vars, NEW v \in Workers \cap Files
               PROVE  (called[v] + (IF file[v] = v THEN 1 ELSE 0)
                         = n[v] + (IF pc[v] \in {"run", "recv"} THEN 1 ELSE 0))'
    BY DEF OwnAccount
  <1> DEFINE Owes == called[v] + (IF file[v] = v THEN 1 ELSE 0)
             Made == n[v] + (IF pc[v] \in {"run", "recv"} THEN 1 ELSE 0)
  <1>0. Owes = Made /\ Place(v)
    BY DEF OwnAccount, Located
  <1> USE Numbers, <1>0 DEF Located, TypeOK
  <1>1. ASSUME NEW w \in Workers, Start(w), w < partitions PROVE (Owes = Made)'
    BY <1>1 DEF Start, Place
  <1>2. ASSUME NEW w \in Workers, Start(w), ~(w < partitions) PROVE (Owes = Made)'
    <2>1. pc' = [pc EXCEPT ![w] = "recv"] /\ UNCHANGED <<file, n, called>>
      BY <1>2 DEF Start
    <2>2. v # w
      BY <1>2
    <2>3. pc'[v] = pc[v]
      BY <2>1, <2>2
    <2> QED
      BY <2>1, <2>3
  <1>3. ASSUME NEW w \in Workers, RunTests(w) PROVE (Owes = Made)'
    <2>1. Place(w) /\ file[w] \in Files /\ (file[w] = v => w = v)
      BY <1>3 DEF RunTests, Place
    <2>2. pc[w] = "run" /\ n' = n /\ called' = [called EXCEPT ![file[w]] = @ + 1]
          /\ file' = [file EXCEPT ![w] = NoFile] /\ pc' = [pc EXCEPT ![w] = "recv"]
      BY <1>3 DEF RunTests
    <2>3. CASE v = w
      BY <2>1, <2>2, <2>3 DEF Place
    <2>4. CASE v # w
      BY <2>1, <2>2, <2>4
    <2> QED
      BY <2>3, <2>4
  <1>4. ASSUME NEW w \in Workers, ReceiveWork(w) PROVE (Owes = Made)'
    <2>1. Head(mail[w]).file \in Served
      BY <1>4, ReceivesServed
    <2>2. pc[w] = "recv" /\ pc' = [pc EXCEPT ![w] = "run"] /\ n' = n /\ called' = called
          /\ file' = [file EXCEPT ![w] = Head(mail[w]).file]
      BY <1>4 DEF ReceiveWork
    <2>3. file[v] = v <=> file'[v] = v
      BY <2>1, <2>2 DEF Place
    <2>4. pc[v] \in {"run", "recv"} <=> pc'[v] \in {"run", "recv"}
      BY <2>2
    <2> QED
      BY <2>2, <2>3, <2>4
  <1>5. ASSUME NEW w \in Workers, ReceiveTermination(w) PROVE (Owes = Made)'
    <2>1. pc[w] = "recv" /\ n' = [n EXCEPT ![w] = @ + 1]
          /\ file' = file /\ called' = called /\ n[w] \in Nat
          /\ pc' = [pc EXCEPT ![w] = "start"]
      BY <1>5 DEF ReceiveTermination
    <2>2. CASE v = w
      BY <2>1, <2>2 DEF Place
    <2>3. CASE v # w
      BY <2>1, <2>3
    <2> QED
      BY <2>2, <2>3
  <1>6. ASSUME NEW r \in Idle, SkipRepetition(r) PROVE (Owes = Made)'
    BY <1>6 DEF SkipRepetition, Idle
  <1>7. ASSUME NEW w \in Workers, ServeWork(w) PROVE (Owes = Made)'
    BY <1>7 DEF ServeWork
  <1>8. ASSUME NEW w \in Workers, Terminate(w) PROVE (Owes = Made)'
    BY <1>8 DEF Terminate
  <1>9. CASE NextRepetition
    BY <1>9 DEF NextRepetition
  <1>10. ASSUME NEW r \in Ranks, EnterReduce(r) PROVE (Owes = Made)'
    BY <1>10 DEF EnterReduce, Place
  <1>11. CASE Reduce
    BY <1>11 DEF Reduce
  <1>12. CASE UNCHANGED vars
    BY <1>12 DEF vars
  <1> QED
    BY <1>1, <1>2, <1>3, <1>4, <1>5, <1>6, <1>7, <1>8, <1>9, <1>10, <1>11, <1>12
       DEF Next, WorkerStep, RootStep, Stop

LEMMA NextServed == Located /\ ServedAccount /\ [Next]_vars => ServedAccount'
  <1> SUFFICES ASSUME Located, ServedAccount, [Next]_vars, NEW f \in Served
               PROVE  (called[f] + Cardinality(Carriers(f))
                         = HandedOut(f))'
    BY DEF ServedAccount
  <1> DEFINE Seen == called[f] + Cardinality(Carriers(f))
             Given == HandedOut(f)
  <1>0. Seen = Given
    BY DEF ServedAccount
  <1>00. /\ IsFiniteSet(Carriers(f)) /\ Cardinality(Carriers(f)) \in Nat
         /\ f \in Files /\ f \notin Workers /\ f # NoFile /\ f \in Nat
    BY FiniteCarriers, Numbers DEF Served
  <1> USE Numbers, <1>0, <1>00 DEF Located, TypeOK, HandedOut
  <1>1. ASSUME NEW w \in Workers, Start(w), w < partitions PROVE (Seen = Given)'
    <2>1. Carriers(f)' = Carriers(f)
      BY <1>1 DEF Start, Carriers, Carries, Place
    <2> QED
      BY <1>1, <2>1 DEF Start
  <1>2. ASSUME NEW w \in Workers, Start(w), ~(w < partitions) PROVE (Seen = Given)'
    <2>1. Carriers(f)' = Carriers(f)
      BY <1>2 DEF Start, Carriers, Carries
    <2> QED
      BY <1>2, <2>1 DEF Start
  <1>3. ASSUME NEW w \in Workers, RunTests(w) PROVE (Seen = Given)'
    <2>1. file[w] \in Files /\ file'[w] = NoFile /\ DOMAIN mail[w] = {} /\ mail' = mail
      BY <1>3, NoMail DEF RunTests, Place
    <2>2. CASE file[w] = f
      <3>1. w \in Carriers(f) /\ Carriers(f)' = Carriers(f) \ {w}
        BY <1>3, <2>1, <2>2 DEF RunTests, Carriers, Carries
      <3>2. Cardinality(Carriers(f)') = Cardinality(Carriers(f)) - 1
        BY <3>1, FS_RemoveElement
      <3>3. called'[f] = called[f] + 1 /\ n' = n /\ filenum' = filenum
        BY <1>3, <2>1, <2>2 DEF RunTests
      <3> QED
        BY <3>2, <3>3
    <2>3. CASE file[w] # f
      <3>1. Carriers(f)' = Carriers(f)
        BY <1>3, <2>1, <2>3 DEF RunTests, Carriers, Carries
      <3> QED
        BY <1>3, <2>1, <2>3, <3>1 DEF RunTests
    <2> QED
      BY <2>2, <2>3
  <1>4. ASSUME NEW w \in Workers, ReceiveWork(w) PROVE (Seen = Given)'
    <2>1. /\ DOMAIN mail[w] = {1} /\ mail[w][1] = Work(Head(mail[w]).file)
          /\ DOMAIN mail'[w] = {} /\ file[w] = NoFile /\ file'[w] = Head(mail[w]).file
      <3>1. mail'[w] = Tail(mail[w]) /\ file'[w] = Head(mail[w]).file /\ pc[w] = "recv"
        BY <1>4 DEF ReceiveWork
      <3>2. DOMAIN <<>> = {}
        OBVIOUS
      <3>3. file[w] = NoFile
        BY <3>1 DEF Place
      <3> QED
        BY <1>4, <3>1, <3>2, <3>3, ReceivesServed
    <2>2. Carries(w, f)' <=> Carries(w, f)
      BY <2>1 DEF Carries, Work
    <2>3. Carriers(f)' = Carriers(f)
      BY <1>4, <2>2 DEF ReceiveWork, Carriers, Carries
    <2> QED
      BY <1>4, <2>3 DEF ReceiveWork
  <1>5. ASSUME NEW w \in Workers, ReceiveTermination(w) PROVE (Seen = Given)'
    <2>1. /\ DOMAIN mail[w] = {1} /\ mail[w][1].tag = "TERMINATION_TAG"
          /\ DOMAIN mail'[w] = {}
      <3>1. mail'[w] = Tail(mail[w]) /\ Head(mail[w]).tag = "TERMINATION_TAG" /\ mail[w] # <<>>
        BY <1>5 DEF ReceiveTermination
      <3>2. DOMAIN <<>> = {}
        OBVIOUS
      <3> QED
        BY <3>1, <3>2, TakesOnly
    <2>2. Carries(w, f)' <=> Carries(w, f)
      BY <1>5, <2>1 DEF Carries, Work, ReceiveTermination
    <2>3. Carriers(f)' = Carriers(f)
      BY <1>5, <2>2 DEF ReceiveTermination, Carriers, Carries
    <2> QED
      BY <1>5, <2>3 DEF ReceiveTermination
  <1>6. ASSUME NEW r \in Idle, SkipRepetition(r) PROVE (Seen = Given)'
    <2>1. Carriers(f)' = Carriers(f)
      BY <1>6 DEF SkipRepetition, Carriers, Carries
    <2> QED
      BY <1>6, <2>1 DEF SkipRepetition, Idle
  <1>7. ASSUME NEW w \in Workers, ServeWork(w) PROVE (Seen = Given)'
    <2>1. /\ file[w] = NoFile /\ file' = file /\ DOMAIN mail[w] = {}
          /\ mail'[w] = <<Work(filenum)>>
          /\ filenum \in Nat /\ filenum' = filenum + 1 /\ n' = n /\ called' = called
      <3>1. Work(filenum) \in Message
        BY <1>7 DEF Message, Work
      <3>2. request[w] > 0 /\ mail'[w] = Append(mail[w], Work(filenum))
        BY <1>7 DEF ServeWork
      <3>3. mail[w] \in Seq(Message) /\ Len(mail[w]) = 0 /\ DOMAIN mail[w] = {} /\ file[w] = NoFile
        BY <3>2, AnswersWaiting
      <3>4. mail'[w] = <<Work(filenum)>>
        BY <3>1, <3>2, <3>3, FirstMessage
      <3> QED
        BY <1>7, <3>3, <3>4 DEF ServeWork
    <2>2. ASSUME NEW v \in Workers, v # w PROVE Carries(v, f)' <=> Carries(v, f)
      BY <1>7, <2>2 DEF ServeWork, Carries
    <2>3. CASE filenum = f
      <3>1. ~Carries(w, f) /\ Carries(w, f)'
        BY <2>1, <2>3 DEF Carries
      <3>2. w \notin Carriers(f) /\ Carriers(f)' = Carriers(f) \cup {w}
        BY <2>2, <3>1 DEF Carriers
      <3>3. Cardinality(Carriers(f)') = Cardinality(Carriers(f)) + 1
        BY <3>2, FS_AddElement
      <3> QED
        BY <2>1, <2>3, <3>3
    <2>4. CASE filenum # f
      <3>1. ~Carries(w, f) /\ ~Carries(w, f)'
        BY <2>1, <2>4 DEF Carries, Work
      <3>2. Carriers(f)' = Carriers(f)
        BY <2>2, <3>1 DEF Carriers
      <3> QED
        BY <2>1, <2>4, <3>2
    <2> QED
      BY <2>3, <2>4
  <1>8. ASSUME NEW w \in Workers, Terminate(w) PROVE (Seen = Given)'
    <2>1. /\ DOMAIN mail[w] = {} /\ file' = file
          /\ mail'[w] = <<Termination(filenum)>>
      <3>1. Termination(filenum) \in Message
        BY <1>8 DEF Message, Termination
      <3>2. request[w] > 0 /\ mail'[w] = Append(mail[w], Termination(filenum))
        BY <1>8 DEF Terminate
      <3>3. mail[w] \in Seq(Message) /\ Len(mail[w]) = 0 /\ DOMAIN mail[w] = {} /\ file[w] = NoFile
        BY <3>2, AnswersWaiting
      <3>4. mail'[w] = <<Termination(filenum)>>
        BY <3>1, <3>2, <3>3, FirstMessage
      <3> QED
        BY <1>8, <3>3, <3>4 DEF Terminate
    <2>2. Carries(w, f)' <=> Carries(w, f)
      BY <2>1 DEF Carries, Work, Termination
    <2>3. Carriers(f)' = Carriers(f)
      BY <1>8, <2>2 DEF Terminate, Carriers, Carries
    <2> QED
      BY <1>8, <2>3 DEF Terminate
  <1>9. CASE NextRepetition
    <2>1. Carriers(f)' = Carriers(f)
      BY <1>9 DEF NextRepetition, Carriers, Carries
    <2> QED
      BY <1>9, <2>1 DEF NextRepetition, Served
  <1>10. ASSUME NEW r \in Ranks, EnterReduce(r) PROVE (Seen = Given)'
    <2>1. Carriers(f)' = Carriers(f)
      BY <1>10 DEF EnterReduce, Carriers, Carries
    <2> QED
      BY <1>10, <2>1 DEF EnterReduce
  <1>11. CASE Reduce
    <2>1. Carriers(f)' = Carriers(f)
      BY <1>11 DEF Reduce, Carriers, Carries
    <2> QED
      BY <1>11, <2>1 DEF Reduce
  <1>12. CASE UNCHANGED vars
    BY <1>12 DEF vars, Carriers, Carries
  <1> QED
    BY <1>1, <1>2, <1>3, <1>4, <1>5, <1>6, <1>7, <1>8, <1>9, <1>10, <1>11, <1>12
       DEF Next, WorkerStep, RootStep, Stop

\* Only the end of all_tests changes how often a partition was called and tested.
LEMMA OnlyRuns ==
  [Next]_vars => UNCHANGED <<called, tested>> \/ \E w \in Workers : RunTests(w)
  BY DEF Next, WorkerStep, RootStep, Stop, vars, Start, ReceiveWork, ReceiveTermination,
         SkipRepetition, ServeWork, Terminate, NextRepetition, EnterReduce, Reduce

\* What it changes is a covered partition.
LEMMA RunsCovered ==
  ASSUME Located, NEW w \in Workers, RunTests(w)
  PROVE  /\ file[w] \in Files /\ file[w] \in Covered
         /\ file[w] \in Served \cup ({w} \cap Files)
         /\ n[w] \in Nat /\ n[w] < n_repeats /\ pc[w] = "run"
         /\ called' = [called EXCEPT ![file[w]] = @ + 1]
         /\ tested' = [tested EXCEPT ![file[w]] = @ + n[w]]
         /\ called \in [Files -> Nat] /\ tested \in [Files -> Nat]
  <1>1. Place(w) /\ pc[w] = "run" /\ n[w] \in Nat
    BY Numbers DEF Located, TypeOK, RunTests
  <1> QED
    BY <1>1, Numbers DEF Located, TypeOK, RunTests, Place, Covered, Served

LEMMA NextSkipped == Located /\ SkippedAccount /\ [Next]_vars => SkippedAccount'
  <1> SUFFICES ASSUME Located, SkippedAccount, [Next]_vars, NEW f \in Files \ Covered
               PROVE  called'[f] = 0 /\ tested'[f] = 0
    BY DEF SkippedAccount, Covered
  <1>1. called[f] = 0 /\ tested[f] = 0
    BY DEF SkippedAccount
  <1>2. CASE UNCHANGED <<called, tested>>
    BY <1>1, <1>2
  <1>3. ASSUME NEW w \in Workers, RunTests(w) PROVE called'[f] = 0 /\ tested'[f] = 0
    <2>1. file[w] # f
      BY <1>3, RunsCovered
    <2> QED
      BY <1>1, <1>3, <2>1, RunsCovered
  <1> QED
    BY <1>2, <1>3, OnlyRuns

LEMMA NextAccounted == Accounted /\ [Next]_vars => Accounted'
  BY NextLocated, NextOwn, NextServed, NextSkipped DEF Accounted, Located

(***************************************************************************)
(* Accounted holds in every reachable state: the messages and counters     *)
(* of the scheme never lose or double a partition, however                 *)
(* far the repetitions of the workers and of the master drift apart, and   *)
(* the partitions that nobody starts with or is sent are never called.     *)
(***************************************************************************)
THEOREM AccountedAlways == SafeSpec => []Accounted
  BY InitAccounted, NextAccounted, PTL DEF SafeSpec

(***************************************************************************)
(* Every variable keeps its type.                                          *)
(***************************************************************************)
THEOREM TypeCorrect == SafeSpec => []TypeOK
  BY AccountedAlways, PTL DEF Accounted

(***************************************************************************)
(* No worker ever has two requests or answers under way, and none that     *)
(* does not wait has any.                                                  *)
(***************************************************************************)
THEOREM OneOutstandingAlways == SafeSpec => []OneOutstanding
  BY AccountedAlways, PTL DEF Accounted

(***************************************************************************)
(* The scheme implements the work pool: all_tests is called on covered     *)
(* partitions only, and on none once more than there are repetitions.      *)
(* This is the sharing of the work; how often a call runs the tests is     *)
(* TestsRunAlways.                                                         *)
(***************************************************************************)
THEOREM Implements == SafeSpec => Pool!SafeSpec
  <1> DEFINE left == [f \in Covered |-> n_repeats - called[f]]
  <1>1. Init => Pool!Init
    BY Numbers DEF Init, Pool!Init, Covered
  <1>2. Accounted /\ [Next]_vars => [Pool!Next]_left
    <2> SUFFICES ASSUME Accounted, [Next]_vars, left' # left PROVE Pool!Next
      OBVIOUS
    <2>1. PICK w \in Workers : RunTests(w)
      <3>1. called' # called
        BY DEF Covered
      <3> QED
        BY <3>1, OnlyRuns
    <2> DEFINE f == file[w]
    <2>2. f \in Files /\ f \in Covered /\ f \in Served \cup ({w} \cap Files)
      BY <2>1, Numbers DEF RunTests, Accounted, Place, Covered, Served
    <2>3. n[w] \in Nat /\ n[w] < n_repeats /\ called \in [Files -> Nat]
          /\ n[root] \in 0 .. n_repeats
      BY <2>1, Numbers DEF RunTests, Accounted, Place, TypeOK
    <2>4. called[f] < n_repeats
      <3>1. CASE f \in Served
        <4>1. called[f] + Cardinality(Carriers(f)) = HandedOut(f)
          BY <3>1 DEF Accounted, ServedAccount
        <4>2. HandedOut(f) <= n_repeats
          BY <2>3, <3>1, Numbers DEF Accounted, MasterPlace, Served, HandedOut
        <4>3. w \in Carriers(f) /\ IsFiniteSet(Carriers(f))
          BY FiniteCarriers DEF Carriers, Carries
        <4>4. Cardinality(Carriers(f)) \in Nat /\ Cardinality(Carriers(f)) # 0
          BY <4>3, FiniteCarriers, FS_EmptySet
        <4> QED
          BY <2>2, <2>3, <4>1, <4>2, <4>4, Numbers
      <3>2. CASE f = w
        <4>1. called[w] + 1 = n[w] + 1
          BY <2>1, <2>2, <3>2 DEF Accounted, OwnAccount, RunTests
        <4> QED
          BY <2>2, <2>3, <3>2, <4>1, Numbers
      <3> QED
        BY <2>2, <3>1, <3>2
    <2>5. called' = [called EXCEPT ![f] = @ + 1]
      BY <2>1 DEF RunTests
    <2>6. left[f] > 0 /\ left' = [left EXCEPT ![f] = @ - 1]
      BY <2>2, <2>3, <2>4, <2>5, Numbers DEF Covered
    <2> QED
      BY <2>2, <2>6 DEF Pool!Next, Pool!CarryOut
  <1> QED
    BY <1>1, <1>2, AccountedAlways, PTL DEF SafeSpec, Pool!SafeSpec

\* The tests: at first every worker is in its first repetition --------------

LEMMA NextFirst == Located /\ FirstRepetition /\ [Next]_vars => FirstRepetition'
  <1> DEFINE Begins == n[root] = 0 /\ filenum < partitions
             Fresh(w) == /\ n[w] = 0
                         /\ \A k \in DOMAIN mail[w] : mail[w][k].tag = "WORK_TAG"
  <1> SUFFICES ASSUME Located, FirstRepetition, [Next]_vars, Begins', NEW v \in Workers
               PROVE  Fresh(v)'
    BY DEF FirstRepetition
  <1> USE Numbers DEF Located, TypeOK
  <1>0. Begins => Fresh(v)
    BY DEF FirstRepetition
  <1>1. ASSUME NEW w \in Workers, Start(w) \/ RunTests(w) PROVE Fresh(v)'
    BY <1>0, <1>1 DEF Start, RunTests
  <1>2. ASSUME NEW w \in Workers, ReceiveWork(w) PROVE Fresh(v)'
    <2>1. mail' = [mail EXCEPT ![w] = Tail(mail[w])] /\ Tail(mail[w]) = <<>> /\ n' = n
          /\ filenum' = filenum
      BY <1>2, ReceivesServed DEF ReceiveWork
    <2>2. CASE v = w
      BY <1>0, <2>1, <2>2
    <2>3. CASE v # w
      BY <1>0, <2>1, <2>3
    <2> QED
      BY <2>2, <2>3
  <1>3. ASSUME NEW w \in Workers, ReceiveTermination(w) PROVE Fresh(v)'
    <2>1. mail[w][1].tag = "TERMINATION_TAG" /\ 1 \in DOMAIN mail[w]
      BY <1>3, TakesOnly DEF ReceiveTermination
    <2>2. Begins
      BY <1>3 DEF ReceiveTermination
    <2>3. FALSE
      BY <2>1, <2>2 DEF FirstRepetition
    <2> QED
      BY <2>3
  <1>4. ASSUME NEW r \in Idle, SkipRepetition(r) PROVE Fresh(v)'
    BY <1>0, <1>4 DEF SkipRepetition, Idle
  <1>5. ASSUME NEW w \in Workers, ServeWork(w) PROVE Fresh(v)'
    <2>1. Begins /\ n' = n
      BY <1>5 DEF ServeWork
    <2>2. mail' = [mail EXCEPT ![w] = Append(mail[w], Work(filenum))]
      BY <1>5 DEF ServeWork
    <2>3. CASE v = w
      <3>1. Work(filenum) \in Message
        BY DEF Message, Work
      <3>2. mail'[v] = <<Work(filenum)>>
        BY <1>5, <2>2, <2>3, <3>1, AnswersWaiting, FirstMessage DEF ServeWork
      <3> QED
        BY <1>0, <2>1, <3>2 DEF Work
    <2>4. CASE v # w
      BY <1>0, <2>1, <2>2, <2>4
    <2> QED
      BY <2>3, <2>4
  <1>6. ASSUME NEW w \in Workers, Terminate(w) PROVE Fresh(v)'
    BY <1>6 DEF Terminate
  <1>7. CASE NextRepetition
    BY <1>7 DEF NextRepetition
  <1>8. ASSUME NEW r \in Ranks, EnterReduce(r) PROVE Fresh(v)'
    BY <1>0, <1>8 DEF EnterReduce
  <1>9. CASE Reduce
    BY <1>0, <1>9 DEF Reduce
  <1>10. CASE UNCHANGED vars
    BY <1>0, <1>10 DEF vars
  <1> QED
    BY <1>1, <1>2, <1>3, <1>4, <1>5, <1>6, <1>7, <1>8, <1>9, <1>10
       DEF Next, WorkerStep, RootStep, Stop

LEMMA NextOwnTests == Located /\ OwnAccount /\ OwnTests /\ [Next]_vars => OwnTests'
  <1> SUFFICES ASSUME Located, OwnAccount, OwnTests, [Next]_vars, NEW v \in Workers \cap Files
               PROVE  (2 * tested[v] = called[v] * (called[v] - 1))'
    BY DEF OwnTests
  <1>0. 2 * tested[v] = called[v] * (called[v] - 1)
    BY DEF OwnTests
  <1>1. CASE UNCHANGED <<called, tested>>
    BY <1>0, <1>1
  <1>2. ASSUME NEW w \in Workers, RunTests(w)
        PROVE  (2 * tested[v] = called[v] * (called[v] - 1))'
    <2>1. CASE file[w] # v
      BY <1>0, <1>2, <2>1, RunsCovered
    <2>2. CASE file[w] = v
      <3>1. v = w /\ called[v] = n[v]
        <4>1. v = w
          BY <1>2, <2>2, RunsCovered, Numbers
        <4>2. called[v] + 1 = n[v] + 1 /\ called[v] \in Nat /\ n[v] \in Nat
          BY <1>2, <2>2, <4>1, RunsCovered DEF OwnAccount
        <4> QED
          BY <4>1, <4>2
      <3>2. called'[v] = called[v] + 1 /\ tested'[v] = tested[v] + called[v]
            /\ called[v] \in Nat /\ tested[v] \in Nat
        BY <1>2, <2>2, <3>1, RunsCovered
      <3>3. \A c, t \in Nat : 2 * t = c * (c - 1) => 2 * (t + c) = (c + 1) * ((c + 1) - 1)
        OBVIOUS
      <3> QED
        BY <1>0, <3>2, <3>3
    <2> QED
      BY <2>1, <2>2
  <1> QED
    BY <1>1, <1>2, OnlyRuns

LEMMA FiniteLate ==
  \A f : /\ IsFiniteSet(LateCarriers(f)) /\ Cardinality(LateCarriers(f)) \in Nat
         /\ LateCarriers(f) \subseteq Workers
  <1> TAKE f
  <1>1. LateCarriers(f) \subseteq Carriers(f) /\ Carriers(f) \subseteq Workers
    BY DEF LateCarriers, Carriers
  <1> QED
    BY <1>1, FiniteCarriers, FS_Subset, FS_CardinalityType

\* Times a number that is not negative.
LEMMA TimesMore ==
  ASSUME NEW k \in Nat, NEW a \in Nat, NEW b \in Nat
  PROVE  /\ k * a \in Nat /\ k * (a + 1) = k * a + k
         /\ (a <= b => k * a <= k * b)
  <1>1. k * a \in Nat /\ k * (a + 1) = k * a + k
    OBVIOUS
  <1>2. ASSUME a <= b PROVE k * a <= k * b
    <2>1. b - a \in Nat /\ b = a + (b - a)
      BY <1>2
    <2>2. k * b = k * a + k * (b - a) /\ k * (b - a) \in Nat
      BY <2>1
    <2> QED
      BY <1>1, <2>2
  <1> QED
    BY <1>1, <1>2

\* What a receipt does to who carries a partition: nothing, but that a worker
\* told to stop carried none.
LEMMA ReceiptCarries ==
  ASSUME Located, NEW w \in Workers, NEW f \in Served
  PROVE  /\ ReceiveWork(w) => (Carries(w, f)' <=> Carries(w, f))
         /\ ReceiveTermination(w) => ~Carries(w, f) /\ ~Carries(w, f)'
  <1>0. f # NoFile
    BY Numbers
  <1>1. ASSUME ReceiveWork(w) PROVE Carries(w, f)' <=> Carries(w, f)
    <2>1. mail' = [mail EXCEPT ![w] = Tail(mail[w])] /\ Tail(mail[w]) = <<>>
          /\ file' = [file EXCEPT ![w] = Head(mail[w]).file] /\ pc[w] = "recv"
          /\ mail[w][1] = Work(Head(mail[w]).file) /\ DOMAIN mail[w] = {1}
      BY <1>1, ReceivesServed DEF ReceiveWork
    <2>2. file[w] = NoFile /\ file'[w] = Head(mail[w]).file /\ DOMAIN mail'[w] = {}
      BY <2>1 DEF Located, Place, TypeOK
    <2>3. Carries(w, f) <=> f = Head(mail[w]).file
      BY <1>0, <2>1, <2>2 DEF Carries, Work
    <2>4. Carries(w, f)' <=> f = Head(mail[w]).file
      BY <2>2 DEF Carries
    <2> QED
      BY <2>3, <2>4
  <1>2. ASSUME ReceiveTermination(w) PROVE ~Carries(w, f) /\ ~Carries(w, f)'
    <2>1. mail' = [mail EXCEPT ![w] = Tail(mail[w])] /\ Tail(mail[w]) = <<>>
          /\ file' = file /\ pc[w] = "recv"
          /\ mail[w][1].tag = "TERMINATION_TAG" /\ DOMAIN mail[w] = {1}
      BY <1>2, TakesOnly DEF ReceiveTermination
    <2>2. file[w] = NoFile /\ file'[w] = NoFile /\ DOMAIN mail'[w] = {}
      BY <2>1 DEF Located, Place, TypeOK
    <2>3. ~Carries(w, f)
      BY <1>0, <2>1, <2>2 DEF Carries, Work
    <2>4. ~Carries(w, f)'
      BY <1>0, <2>2 DEF Carries
    <2> QED
      BY <2>3, <2>4
  <1> QED
    BY <1>1, <1>2

\* Whatever neither ends a call nor hands out a partition leaves both accounts
\* of a served partition alone.
LEMMA LateKept ==
  ASSUME Located, [Next]_vars, NEW f \in Served,
         ~ \E w \in Workers : RunTests(w) \/ ServeWork(w)
  PROVE  LateCarriers(f)' = LateCarriers(f) /\ HandedOut(f)' = HandedOut(f)
  <1> DEFINE CountsKept == LateCarriers(f)' = LateCarriers(f) /\ HandedOut(f)' = HandedOut(f)
  <1> USE Numbers DEF Located, TypeOK
  <1>0. f \in Nat /\ f < partitions /\ f >= numProcs /\ f \notin Workers /\ f # NoFile
    BY DEF Served
  <1>1. ASSUME NEW w \in Workers, Start(w) PROVE CountsKept
    <2>1. UNCHANGED <<n, mail, filenum>>
          /\ (file' = file \/ (file' = [file EXCEPT ![w] = w] /\ pc[w] = "start"))
      BY <1>1 DEF Start
    <2>2. ASSUME NEW v \in Workers PROVE Carries(v, f)' <=> Carries(v, f)
      BY <1>0, <2>1 DEF Carries, Place
    <2> QED
      BY <2>1, <2>2 DEF LateCarriers, Carriers, HandedOut
  <1>2. ASSUME NEW w \in Workers, ReceiveWork(w) PROVE CountsKept
    <2>1. UNCHANGED <<n, filenum>> /\ mail' = [mail EXCEPT ![w] = Tail(@)]
          /\ file' = [file EXCEPT ![w] = Head(mail[w]).file]
      BY <1>2 DEF ReceiveWork
    <2>2. ASSUME NEW v \in Workers PROVE Carries(v, f)' <=> Carries(v, f)
      <3>1. CASE v = w
        BY <1>2, <3>1, ReceiptCarries
      <3>2. CASE v # w
        BY <2>1, <3>2 DEF Carries
      <3> QED
        BY <3>1, <3>2
    <2> QED
      BY <2>1, <2>2 DEF LateCarriers, Carriers, HandedOut
  <1>3. ASSUME NEW w \in Workers, ReceiveTermination(w) PROVE CountsKept
    <2>1. UNCHANGED <<file, filenum>> /\ mail' = [mail EXCEPT ![w] = Tail(@)]
          /\ n' = [n EXCEPT ![w] = @ + 1]
      BY <1>3 DEF ReceiveTermination
    <2>2. ASSUME NEW v \in Workers
          PROVE  Carries(v, f)' /\ n'[v] > 0 <=> Carries(v, f) /\ n[v] > 0
      <3>1. CASE v = w
        BY <1>3, <3>1, ReceiptCarries
      <3>2. CASE v # w
        BY <2>1, <3>2 DEF Carries
      <3> QED
        BY <3>1, <3>2
    <2>3. n'[root] = n[root]
      BY <2>1
    <2> QED
      BY <2>1, <2>2, <2>3 DEF LateCarriers, Carriers, HandedOut
  <1>4. ASSUME NEW r \in Idle, SkipRepetition(r) PROVE CountsKept
    <2>1. /\ UNCHANGED <<file, mail, filenum>>
          /\ n'[root] = n[root]
          /\ \A v \in Workers : n'[v] = n[v]
      BY <1>4 DEF SkipRepetition, Idle
    <2>2. ASSUME NEW v \in Workers
          PROVE  Carries(v, f)' /\ n'[v] > 0 <=> Carries(v, f) /\ n[v] > 0
      BY <2>1 DEF Carries
    <2>3. LateCarriers(f)' = LateCarriers(f)
      BY <2>2 DEF LateCarriers, Carriers
    <2>4. n'[root] + (IF filenum' > f THEN 1 ELSE 0) = n[root] + (IF filenum > f THEN 1 ELSE 0)
      BY <2>1
    <2> QED
      BY <2>3, <2>4 DEF HandedOut
  <1>5. ASSUME NEW w \in Workers, Terminate(w) PROVE CountsKept
    <2>1. UNCHANGED <<file, filenum, n>> /\ mail' = [mail EXCEPT ![w] = Append(@, Termination(filenum))]
      BY <1>5 DEF Terminate
    <2>2. ASSUME NEW v \in Workers PROVE Carries(v, f)' <=> Carries(v, f)
      <3>1. CASE v = w
        <4>1. Termination(filenum) \in Message
          BY DEF Message, Termination
        <4>2. mail[w] \in Seq(Message) /\ Len(mail[w]) = 0 /\ DOMAIN mail[w] = {}
          BY <1>5, AnswersWaiting DEF Terminate
        <4>3. mail'[w] = Append(mail[w], Termination(filenum))
          BY <2>1
        <4>4. mail'[w] = <<Termination(filenum)>>
          BY <4>1, <4>2, <4>3, FirstMessage
        <4> QED
          BY <2>1, <3>1, <4>2, <4>4 DEF Carries, Work, Termination
      <3>2. CASE v # w
        BY <2>1, <3>2 DEF Carries
      <3> QED
        BY <3>1, <3>2
    <2> QED
      BY <2>1, <2>2 DEF LateCarriers, Carriers, HandedOut
  <1>6. CASE NextRepetition
    <2>1. UNCHANGED <<file, mail>> /\ \A v \in Workers : n'[v] = n[v]
      BY <1>6 DEF NextRepetition
    <2>2. n'[root] = n[root] + 1 /\ filenum > f /\ ~(filenum' > f)
      BY <1>0, <1>6 DEF NextRepetition
    <2> QED
      BY <2>1, <2>2 DEF LateCarriers, Carriers, Carries, HandedOut
  <1>7. ASSUME NEW r \in Ranks, EnterReduce(r) PROVE CountsKept
    BY <1>7 DEF EnterReduce, LateCarriers, Carriers, Carries, HandedOut
  <1>8. CASE Reduce
    BY <1>8 DEF Reduce, LateCarriers, Carriers, Carries, HandedOut
  <1>9. CASE UNCHANGED vars
    BY <1>9 DEF vars, LateCarriers, Carriers, Carries, HandedOut
  <1> QED
    BY <1>1, <1>2, <1>3, <1>4, <1>5, <1>6, <1>7, <1>8, <1>9
       DEF Next, WorkerStep, RootStep, Stop

LEMMA NextServedTests ==
  Located /\ FirstRepetition /\ ServedTests /\ [Next]_vars => ServedTests'
  <1> SUFFICES ASSUME Located, FirstRepetition, ServedTests, [Next]_vars, NEW f \in Served
               PROVE  (tested[f] + (n_repeats - 1) * Cardinality(LateCarriers(f))
                         <= (n_repeats - 1) * HandedOutAgain(f))'
    BY DEF ServedTests
  <1> DEFINE k == n_repeats - 1
             late == Cardinality(LateCarriers(f))
             again == HandedOutAgain(f)
             Within == tested[f] + k * late <= k * again
  <1>0. Within
    BY DEF ServedTests
  <1>1. /\ k \in Nat /\ f \in Files /\ f \in Nat /\ f < partitions /\ f >= numProcs
        /\ f \notin Workers /\ f # NoFile
        /\ tested \in [Files -> Nat] /\ tested[f] \in Nat
        /\ late \in Nat /\ IsFiniteSet(LateCarriers(f))
    BY Numbers, FiniteLate DEF Served, Located, TypeOK
  <1>2. n[root] \in Nat /\ filenum \in Nat /\ again \in Nat
    BY Numbers DEF Located, TypeOK, HandedOutAgain, HandedOut
  <1> HIDE DEF k
  <1>3. CASE ~ \E w \in Workers : RunTests(w) \/ ServeWork(w)
    <2>1. late' = late /\ again' = again
      BY <1>3, LateKept DEF HandedOutAgain
    <2>2. tested' = tested
      BY <1>3, OnlyRuns
    <2> QED
      BY <1>0, <2>1, <2>2 DEF k
  <1>4. ASSUME NEW w \in Workers, RunTests(w) PROVE Within'
    <2>1. UNCHANGED <<n, mail, filenum>> /\ file' = [file EXCEPT ![w] = NoFile]
          /\ tested' = [tested EXCEPT ![file[w]] = @ + n[w]] /\ file[w] \in Files
          /\ n[w] \in Nat /\ n[w] <= k /\ DOMAIN mail[w] = {}
      <3>1. DOMAIN mail[w] = {} /\ UNCHANGED <<n, mail, filenum>>
            /\ file' = [file EXCEPT ![w] = NoFile]
        BY <1>4, NoMail DEF RunTests
      <3>2. n[w] \in Nat /\ n[w] < n_repeats
            /\ tested' = [tested EXCEPT ![file[w]] = @ + n[w]] /\ file[w] \in Files
        BY <1>4, RunsCovered
      <3>3. n[w] <= k
        BY <3>2, Numbers DEF k
      <3> QED
        BY <3>1, <3>2, <3>3
    <2>2. again' = again
      BY <2>1 DEF HandedOutAgain, HandedOut
    <2>3. \A v \in Workers : v # w => (Carries(v, f)' <=> Carries(v, f))
      BY <2>1 DEF Carries
    <2>4. ~Carries(w, f)' /\ (Carries(w, f) <=> file[w] = f)
      BY <1>1, <2>1 DEF Carries, Located, TypeOK
    <2>5. CASE file[w] = f /\ n[w] > 0
      <3>1. w \in LateCarriers(f) /\ LateCarriers(f)' = LateCarriers(f) \ {w}
        BY <2>1, <2>3, <2>4, <2>5 DEF LateCarriers, Carriers
      <3>2. late' = late - 1
        BY <1>1, <3>1, FS_RemoveElement
      <3>3. tested'[f] = tested[f] + n[w]
        BY <1>1, <2>1, <2>5
      <3>4. late' \in Nat
        BY FiniteLate, <1>1, <3>1, <3>2, FS_EmptySet
      <3>5. k * late = k * late' + k /\ k * late' \in Nat
        BY <1>1, <3>2, <3>4, TimesMore
      <3>6. k * again \in Nat
        BY <1>1, <1>2, TimesMore
      <3>7. tested[f] + n[w] + k * late' <= k * again
        BY <1>0, <1>1, <2>1, <3>5, <3>6
      <3> QED
        BY <2>2, <3>3, <3>7 DEF k
    <2>6. CASE ~(file[w] = f /\ n[w] > 0)
      <3>1. LateCarriers(f)' = LateCarriers(f)
        BY <2>1, <2>3, <2>4, <2>6 DEF LateCarriers, Carriers
      <3>2. tested'[f] = tested[f]
        BY <1>1, <2>1, <2>6
      <3> QED
        BY <1>0, <2>2, <3>1, <3>2 DEF k
    <2> QED
      BY <2>5, <2>6
  <1>5. ASSUME NEW w \in Workers, ServeWork(w) PROVE Within'
    <2>1. UNCHANGED <<n, file, tested>> /\ filenum' = filenum + 1 /\ filenum < partitions
          /\ mail' = [mail EXCEPT ![w] = Append(@, Work(filenum))]
      BY <1>5 DEF ServeWork
    <2>2. \A v \in Workers : v # w => (Carries(v, f)' <=> Carries(v, f))
      BY <2>1 DEF Carries
    <2>3. file[w] = NoFile /\ DOMAIN mail[w] = {} /\ mail'[w] = <<Work(filenum)>>
      <3>1. Work(filenum) \in Message
        BY <1>2 DEF Message, Work
      <3> QED
        BY <1>5, <2>1, <3>1, AnswersWaiting, FirstMessage DEF ServeWork, Located, TypeOK
    <2>4. ~Carries(w, f) /\ (Carries(w, f)' => filenum = f)
      BY <1>1, <2>1, <2>3 DEF Carries, Work
    <2>5. CASE filenum # f
      <3>1. LateCarriers(f)' = LateCarriers(f)
        BY <2>1, <2>2, <2>4, <2>5 DEF LateCarriers, Carriers
      <3>2. again' = again
        BY <1>1, <1>2, <2>1, <2>5 DEF HandedOutAgain, HandedOut
      <3> QED
        BY <1>0, <2>1, <3>1, <3>2 DEF k
    <2>6. CASE filenum = f /\ n[root] = 0
      <3>1. n[w] = 0
        BY <2>1, <2>6 DEF FirstRepetition
      <3>2. LateCarriers(f)' = LateCarriers(f)
        BY <2>1, <2>2, <2>4, <3>1 DEF LateCarriers, Carriers
      <3>3. again' = again
        BY <1>1, <2>1, <2>6 DEF HandedOutAgain, HandedOut
      <3> QED
        BY <1>0, <2>1, <3>2, <3>3 DEF k
    <2>7. CASE filenum = f /\ n[root] # 0
      <3>1. again' = again + 1
        BY <1>1, <1>2, <2>1, <2>7 DEF HandedOutAgain, HandedOut
      <3>2. w \notin LateCarriers(f)
            /\ (LateCarriers(f)' = LateCarriers(f) \/ LateCarriers(f)' = LateCarriers(f) \cup {w})
        BY <2>1, <2>2, <2>4 DEF LateCarriers, Carriers
      <3>3. late' \in Nat /\ late' <= late + 1
        BY <1>1, <3>2, FS_AddElement
      <3>4. k * late' <= k * late + k
        BY <1>1, <3>3, TimesMore
      <3>5. k * again' = k * again + k /\ k * again \in Nat /\ k * late \in Nat /\ k * late' \in Nat
        BY <1>1, <1>2, <3>1, <3>3, TimesMore
      <3>6. tested[f] + k * late' <= k * again'
        BY <1>0, <1>1, <3>4, <3>5
      <3> QED
        BY <2>1, <3>6 DEF k
    <2> QED
      BY <2>5, <2>6, <2>7
  <1> QED
    BY <1>3, <1>4, <1>5 DEF k

(***************************************************************************)
(* With the index of a repetition passed as their number, the tests of a   *)
(* worker's own partition run 0, 1, 2, ... times, those of a served one    *)
(* not at all the first time the master hands it out and a bounded number  *)
(* of times after that, for any number of ranks, partitions and            *)
(* repetitions: a duplication of 1 tests nothing.                          *)
(***************************************************************************)
THEOREM TestsRunAlways == SafeSpec => []TestsRun
  <1>1. Init => FirstRepetition /\ ServedTests /\ OwnTests
    <2> SUFFICES ASSUME Init PROVE FirstRepetition /\ ServedTests /\ OwnTests
      OBVIOUS
    <2> USE Numbers DEF Init
    <2>1. FirstRepetition
      BY DEF FirstRepetition
    <2>2. OwnTests
      BY DEF OwnTests
    <2>3. ASSUME NEW f \in Served
          PROVE  tested[f] + (n_repeats - 1) * Cardinality(LateCarriers(f))
                   <= (n_repeats - 1) * HandedOutAgain(f)
      <3>1. f \in Files /\ f >= numProcs /\ f \in Nat
        BY DEF Served
      <3>2. LateCarriers(f) = {}
        BY DEF LateCarriers, Carriers
      <3>3. HandedOutAgain(f) = 0
        BY <3>1 DEF HandedOutAgain, HandedOut
      <3> QED
        BY <3>1, <3>2, <3>3, FS_EmptySet
    <2> QED
      BY <2>1, <2>2, <2>3 DEF ServedTests
  <1>2. TestsAccounted /\ [Next]_vars => TestsAccounted'
    BY NextAccounted, NextFirst, NextServedTests, NextOwnTests
       DEF TestsAccounted, Accounted, Located
  <1>3. TestsAccounted => TestsRun
    <2> SUFFICES ASSUME TestsAccounted, NEW f \in Files
                 PROVE  /\ f \in Workers => 2 * tested[f] = called[f] * (called[f] - 1)
                        /\ f \in Served => tested[f] <= (n_repeats - 1) * HandedOutAgain(f)
                        /\ f \notin Covered => tested[f] = 0
      BY DEF TestsRun
    <2>1. f \in Workers => 2 * tested[f] = called[f] * (called[f] - 1)
      BY DEF TestsAccounted, OwnTests
    <2>2. ASSUME f \in Served PROVE tested[f] <= (n_repeats - 1) * HandedOutAgain(f)
      <3>1. tested[f] + (n_repeats - 1) * Cardinality(LateCarriers(f))
              <= (n_repeats - 1) * HandedOutAgain(f)
        BY <2>2 DEF TestsAccounted, ServedTests
      <3>2. n_repeats - 1 \in Nat /\ Cardinality(LateCarriers(f)) \in Nat
            /\ tested[f] \in Nat /\ n[root] \in Nat
        BY Numbers, FiniteLate DEF TestsAccounted, Accounted, TypeOK
      <3>3. (n_repeats - 1) * Cardinality(LateCarriers(f)) \in Nat
        BY <3>2
      <3>4. HandedOutAgain(f) \in Nat
        BY <3>2 DEF HandedOutAgain, HandedOut
      <3>5. (n_repeats - 1) * HandedOutAgain(f) \in Nat
        BY <3>2, <3>4
      <3> QED
        BY <3>1, <3>2, <3>3, <3>5
    <2>3. f \notin Covered => tested[f] = 0
      BY DEF TestsAccounted, Accounted, SkippedAccount
    <2> QED
      BY <2>1, <2>2, <2>3
  <1> QED
    BY <1>1, <1>2, <1>3, InitAccounted, PTL DEF SafeSpec, TestsAccounted
-----------------------------------------------------------------------------
\* The suites: what their tables say ----------------------------------------

Tests == Program.tests
SpatialCreating == <<"create", "insert", "destroyTree">>
SpatialIterating == <<"create", "insert", "iterate", "destroyTree">>
SpatialJoining == <<"create", "insert", "visit", "destroyTree">>
ReadingLists == {Creating, Iterating, Joining}
VectorLists == {SpatialCreating, SpatialIterating, SpatialJoining}

\* The steps before step s, and all of them.
Ran(steps, s) == {steps[j] : j \in 1 .. s - 1}
AllOf(steps) == {steps[j] : j \in DOMAIN steps}

\* What there is when the steps D of a test have run.
HasTree(D) == "create" \in D /\ "destroyTree" \notin D
HasGEOS(D) == "initGEOS" \in D /\ "finishGEOS" \notin D
HasFirst(D) == "insert" \in D /\ "destroyFirst" \notin D
HasSecond(D) == "read" \in D /\ "destroySecond" \notin D

\* A list of steps makes what it uses, and leaves nothing.
Orderly(steps, step, D) ==
  /\ step \notin D
  /\ step = "create" => "insert" \notin D /\ "destroyTree" \notin D
  /\ step \in {"insert", "iterate", "visit", "destroyTree"} => HasTree(D)
  /\ step = "insert" => "destroyFirst" \notin D
  /\ step \in {"iterate", "visit", "destroyTree", "destroyFirst"} => "insert" \in D
  /\ step = "visit" => "destroyFirst" \notin D /\ steps # Creating
  /\ step = "visit" /\ steps \in ReadingLists => HasSecond(D)
  /\ steps \in ReadingLists /\ step # "initGEOS" => HasGEOS(D)
  /\ steps \in VectorLists => "initGEOS" \notin D /\ step \notin {"destroySecond", "destroyFirst", "finishGEOS"}
  /\ step = "read" => "destroySecond" \notin D
  /\ step = "initGEOS" => "finishGEOS" \notin D
Clean(steps, D) == /\ ~HasTree(D) /\ ~HasGEOS(D) /\ ~HasSecond(D)
                   /\ steps \in ReadingLists \ {Creating} => ~HasFirst(D)
TidySteps(steps) == /\ \A s \in DOMAIN steps : Orderly(steps, steps[s], Ran(steps, s))
                    /\ Clean(steps, AllOf(steps))
ListOK(steps) == /\ TidySteps(steps) /\ Len(steps) \in Nat \ {0} /\ DOMAIN steps = 1 .. Len(steps)
                 /\ "insert" \in AllOf(steps)
                 /\ "iterate" \in AllOf(steps) <=> steps \in {Iterating, SpatialIterating}
                 /\ "visit" \in AllOf(steps) <=> steps \in {Joining, SpatialJoining}

\* The steps before a given one of a list.
LEMMA NoneRan == ASSUME NEW steps PROVE Ran(steps, 1) = {}
  BY DEF Ran

LEMMA RanMore ==
  ASSUME NEW steps, NEW s \in Nat \ {0}
  PROVE  Ran(steps, s + 1) = Ran(steps, s) \cup {steps[s]}
<1>1. 1 .. (s + 1) - 1 = (1 .. s - 1) \cup {s}
  OBVIOUS
<1> QED
  BY <1>1 DEF Ran

LEMMA RanAll ==
  ASSUME NEW steps, NEW size \in Nat, DOMAIN steps = 1 .. size
  PROVE  Ran(steps, size + 1) = AllOf(steps)
BY DEF Ran, AllOf

\* Two lists that differ in their first step, or in their lengths, differ.
LEMMA ListsDiffer ==
  /\ Creating # Iterating /\ Creating # Joining /\ Iterating # Joining
  /\ SpatialCreating # SpatialIterating /\ SpatialCreating # SpatialJoining
  /\ SpatialIterating # SpatialJoining
  /\ \A L \in ReadingLists, M \in VectorLists : L # M
<1>1. \A L \in ReadingLists : L[1] = "initGEOS"
  BY DEF ReadingLists, Creating, Iterating, Joining
<1>2. \A L \in VectorLists : L[1] = "create"
  BY DEF VectorLists, SpatialCreating, SpatialIterating, SpatialJoining
<1>3. Creating[4] = "destroyTree" /\ Iterating[4] = "iterate" /\ Joining[4] = "read"
  BY DEF Creating, Iterating, Joining
<1>4. SpatialCreating[3] = "destroyTree" /\ SpatialIterating[3] = "iterate" /\ SpatialJoining[3] = "visit"
  BY DEF SpatialCreating, SpatialIterating, SpatialJoining
<1> QED
  BY <1>1, <1>2, <1>3, <1>4

\* The two kinds of lists, and what follows for each of them.
LEMMA ListsAre ==
  /\ Creating \in ReadingLists /\ Iterating \in ReadingLists /\ Joining \in ReadingLists
  /\ SpatialCreating \in VectorLists /\ SpatialIterating \in VectorLists /\ SpatialJoining \in VectorLists
BY DEF ReadingLists, VectorLists

LEMMA CreatingTidy == ListOK(Creating)
<1>1. /\ Creating[1] = "initGEOS"
      /\ Creating[2] = "create"
      /\ Creating[3] = "insert"
      /\ Creating[4] = "destroyTree"
      /\ Creating[5] = "finishGEOS"
      /\ DOMAIN Creating = 1 .. 5 /\ Len(Creating) = 5
  BY DEF Creating
<1>2. /\ Ran(Creating, 1) = {}
      /\ Ran(Creating, 2) = {"initGEOS"}
      /\ Ran(Creating, 3) = {"initGEOS", "create"}
      /\ Ran(Creating, 4) = {"initGEOS", "create", "insert"}
      /\ Ran(Creating, 5) = {"initGEOS", "create", "insert", "destroyTree"}
      /\ AllOf(Creating) = {"initGEOS", "create", "insert", "destroyTree", "finishGEOS"}
  BY <1>1 DEF Ran, AllOf
<1>3. ASSUME NEW s \in 1 .. 5 PROVE Orderly(Creating, Creating[s], Ran(Creating, s))
  <2>1. s \in {1, 2, 3, 4, 5}
    OBVIOUS
  <2> QED
    BY <1>1, <1>2, <2>1, ListsDiffer, ListsAre DEF Orderly, HasTree, HasSecond, HasGEOS
<1>4. Clean(Creating, AllOf(Creating))
  BY <1>2, ListsDiffer, ListsAre DEF Clean, HasTree, HasGEOS, HasFirst, HasSecond
<1>5. TidySteps(Creating)
  BY <1>1, <1>3, <1>4 DEF TidySteps
<1> QED
  BY <1>1, <1>2, <1>5, ListsDiffer, ListsAre DEF ListOK

LEMMA IteratingTidy == ListOK(Iterating)
<1>1. /\ Iterating[1] = "initGEOS"
      /\ Iterating[2] = "create"
      /\ Iterating[3] = "insert"
      /\ Iterating[4] = "iterate"
      /\ Iterating[5] = "destroyTree"
      /\ Iterating[6] = "destroyFirst"
      /\ Iterating[7] = "finishGEOS"
      /\ DOMAIN Iterating = 1 .. 7 /\ Len(Iterating) = 7
  BY DEF Iterating
<1>2. /\ Ran(Iterating, 1) = {}
      /\ Ran(Iterating, 2) = {"initGEOS"}
      /\ Ran(Iterating, 3) = {"initGEOS", "create"}
      /\ Ran(Iterating, 4) = {"initGEOS", "create", "insert"}
      /\ Ran(Iterating, 5) = {"initGEOS", "create", "insert", "iterate"}
      /\ Ran(Iterating, 6) = {"initGEOS", "create", "insert", "iterate", "destroyTree"}
      /\ Ran(Iterating, 7) = {"initGEOS", "create", "insert", "iterate", "destroyTree", "destroyFirst"}
      /\ AllOf(Iterating) = {"initGEOS", "create", "insert", "iterate", "destroyTree", "destroyFirst", "finishGEOS"}
  BY <1>1 DEF Ran, AllOf
<1>3. ASSUME NEW s \in 1 .. 7 PROVE Orderly(Iterating, Iterating[s], Ran(Iterating, s))
  <2>1. s \in {1, 2, 3, 4, 5, 6, 7}
    OBVIOUS
  <2> QED
    BY <1>1, <1>2, <2>1, ListsDiffer, ListsAre DEF Orderly, HasTree, HasSecond, HasGEOS
<1>4. Clean(Iterating, AllOf(Iterating))
  BY <1>2, ListsDiffer, ListsAre DEF Clean, HasTree, HasGEOS, HasFirst, HasSecond
<1>5. TidySteps(Iterating)
  BY <1>1, <1>3, <1>4 DEF TidySteps
<1> QED
  BY <1>1, <1>2, <1>5, ListsDiffer, ListsAre DEF ListOK

LEMMA JoiningTidy == ListOK(Joining)
<1>1. /\ Joining[1] = "initGEOS"
      /\ Joining[2] = "create"
      /\ Joining[3] = "insert"
      /\ Joining[4] = "read"
      /\ Joining[5] = "visit"
      /\ Joining[6] = "destroySecond"
      /\ Joining[7] = "destroyTree"
      /\ Joining[8] = "destroyFirst"
      /\ Joining[9] = "finishGEOS"
      /\ DOMAIN Joining = 1 .. 9 /\ Len(Joining) = 9
  BY DEF Joining
<1>2. /\ Ran(Joining, 1) = {}
      /\ Ran(Joining, 2) = {"initGEOS"}
      /\ Ran(Joining, 3) = {"initGEOS", "create"}
      /\ Ran(Joining, 4) = {"initGEOS", "create", "insert"}
      /\ Ran(Joining, 5) = {"initGEOS", "create", "insert", "read"}
      /\ Ran(Joining, 6) = {"initGEOS", "create", "insert", "read", "visit"}
      /\ Ran(Joining, 7) = {"initGEOS", "create", "insert", "read", "visit", "destroySecond"}
      /\ Ran(Joining, 8) = {"initGEOS", "create", "insert", "read", "visit", "destroySecond", "destroyTree"}
      /\ Ran(Joining, 9) = {"initGEOS", "create", "insert", "read", "visit", "destroySecond", "destroyTree", "destroyFirst"}
      /\ AllOf(Joining) = {"initGEOS", "create", "insert", "read", "visit", "destroySecond", "destroyTree", "destroyFirst", "finishGEOS"}
  BY <1>1 DEF Ran, AllOf
<1>3. ASSUME NEW s \in 1 .. 9 PROVE Orderly(Joining, Joining[s], Ran(Joining, s))
  <2>1. s \in {1, 2, 3, 4, 5, 6, 7, 8, 9}
    OBVIOUS
  <2> QED
    BY <1>1, <1>2, <2>1, ListsDiffer, ListsAre DEF Orderly, HasTree, HasSecond, HasGEOS
<1>4. Clean(Joining, AllOf(Joining))
  BY <1>2, ListsDiffer, ListsAre DEF Clean, HasTree, HasGEOS, HasFirst, HasSecond
<1>5. TidySteps(Joining)
  BY <1>1, <1>3, <1>4 DEF TidySteps
<1> QED
  BY <1>1, <1>2, <1>5, ListsDiffer, ListsAre DEF ListOK

LEMMA SpatialCreatingTidy == ListOK(SpatialCreating)
<1>1. /\ SpatialCreating[1] = "create"
      /\ SpatialCreating[2] = "insert"
      /\ SpatialCreating[3] = "destroyTree"
      /\ DOMAIN SpatialCreating = 1 .. 3 /\ Len(SpatialCreating) = 3
  BY DEF SpatialCreating
<1>2. /\ Ran(SpatialCreating, 1) = {}
      /\ Ran(SpatialCreating, 2) = {"create"}
      /\ Ran(SpatialCreating, 3) = {"create", "insert"}
      /\ AllOf(SpatialCreating) = {"create", "insert", "destroyTree"}
  BY <1>1 DEF Ran, AllOf
<1>3. ASSUME NEW s \in 1 .. 3 PROVE Orderly(SpatialCreating, SpatialCreating[s], Ran(SpatialCreating, s))
  <2>1. s \in {1, 2, 3}
    OBVIOUS
  <2> QED
    BY <1>1, <1>2, <2>1, ListsDiffer, ListsAre DEF Orderly, HasTree, HasSecond, HasGEOS
<1>4. Clean(SpatialCreating, AllOf(SpatialCreating))
  BY <1>2, ListsDiffer, ListsAre DEF Clean, HasTree, HasGEOS, HasFirst, HasSecond
<1>5. TidySteps(SpatialCreating)
  BY <1>1, <1>3, <1>4 DEF TidySteps
<1> QED
  BY <1>1, <1>2, <1>5, ListsDiffer, ListsAre DEF ListOK

LEMMA SpatialIteratingTidy == ListOK(SpatialIterating)
<1>1. /\ SpatialIterating[1] = "create"
      /\ SpatialIterating[2] = "insert"
      /\ SpatialIterating[3] = "iterate"
      /\ SpatialIterating[4] = "destroyTree"
      /\ DOMAIN SpatialIterating = 1 .. 4 /\ Len(SpatialIterating) = 4
  BY DEF SpatialIterating
<1>2. /\ Ran(SpatialIterating, 1) = {}
      /\ Ran(SpatialIterating, 2) = {"create"}
      /\ Ran(SpatialIterating, 3) = {"create", "insert"}
      /\ Ran(SpatialIterating, 4) = {"create", "insert", "iterate"}
      /\ AllOf(SpatialIterating) = {"create", "insert", "iterate", "destroyTree"}
  BY <1>1 DEF Ran, AllOf
<1>3. ASSUME NEW s \in 1 .. 4 PROVE Orderly(SpatialIterating, SpatialIterating[s], Ran(SpatialIterating, s))
  <2>1. s \in {1, 2, 3, 4}
    OBVIOUS
  <2> QED
    BY <1>1, <1>2, <2>1, ListsDiffer, ListsAre DEF Orderly, HasTree, HasSecond, HasGEOS
<1>4. Clean(SpatialIterating, AllOf(SpatialIterating))
  BY <1>2, ListsDiffer, ListsAre DEF Clean, HasTree, HasGEOS, HasFirst, HasSecond
<1>5. TidySteps(SpatialIterating)
  BY <1>1, <1>3, <1>4 DEF TidySteps
<1> QED
  BY <1>1, <1>2, <1>5, ListsDiffer, ListsAre DEF ListOK

LEMMA SpatialJoiningTidy == ListOK(SpatialJoining)
<1>1. /\ SpatialJoining[1] = "create"
      /\ SpatialJoining[2] = "insert"
      /\ SpatialJoining[3] = "visit"
      /\ SpatialJoining[4] = "destroyTree"
      /\ DOMAIN SpatialJoining = 1 .. 4 /\ Len(SpatialJoining) = 4
  BY DEF SpatialJoining
<1>2. /\ Ran(SpatialJoining, 1) = {}
      /\ Ran(SpatialJoining, 2) = {"create"}
      /\ Ran(SpatialJoining, 3) = {"create", "insert"}
      /\ Ran(SpatialJoining, 4) = {"create", "insert", "visit"}
      /\ AllOf(SpatialJoining) = {"create", "insert", "visit", "destroyTree"}
  BY <1>1 DEF Ran, AllOf
<1>3. ASSUME NEW s \in 1 .. 4 PROVE Orderly(SpatialJoining, SpatialJoining[s], Ran(SpatialJoining, s))
  <2>1. s \in {1, 2, 3, 4}
    OBVIOUS
  <2> QED
    BY <1>1, <1>2, <2>1, ListsDiffer, ListsAre DEF Orderly, HasTree, HasSecond, HasGEOS
<1>4. Clean(SpatialJoining, AllOf(SpatialJoining))
  BY <1>2, ListsDiffer, ListsAre DEF Clean, HasTree, HasGEOS, HasFirst, HasSecond
<1>5. TidySteps(SpatialJoining)
  BY <1>1, <1>3, <1>4 DEF TidySteps
<1> QED
  BY <1>1, <1>2, <1>5, ListsDiffer, ListsAre DEF ListOK

-----------------------------------------------------------------------------
\* What the twelve tests of a suite evaluate, and which one evaluates p.
SuitePredicates ==
  <<"none", "none", "none", "GEOSIntersects", "GEOSOverlaps", "GEOSTouches", "GEOSCrosses",
    "GEOSContains", "GEOSEquals", "GEOSEqualsExact", "GEOSCovers", "GEOSCoveredBy">>
PlaceInSuite(p) == CHOOSE t \in 1 .. 12 : SuitePredicates[t] = p

\* The tests of a suite whose lists of steps are given.
SuiteTests(tests, creating, iterating, joining) ==
  /\ Len(tests) = 12 /\ DOMAIN tests = 1 .. 12
  /\ tests[1].steps = creating /\ tests[2].steps = iterating
  /\ \A t \in 3 .. 12 : tests[t].steps = joining
  /\ \A t \in 1 .. 12 : tests[t].predicate = SuitePredicates[t]
OneTest(tests) == /\ Len(tests) = 1 /\ DOMAIN tests = {1}
                  /\ tests[1].steps = SpatialJoining /\ tests[1].predicate = "GEOSIntersects"

LEMMA SuitePredicatesAre ==
  /\ SuitePredicates[1] = "none"
  /\ SuitePredicates[2] = "none"
  /\ SuitePredicates[3] = "none"
  /\ SuitePredicates[4] = "GEOSIntersects"
  /\ SuitePredicates[5] = "GEOSOverlaps"
  /\ SuitePredicates[6] = "GEOSTouches"
  /\ SuitePredicates[7] = "GEOSCrosses"
  /\ SuitePredicates[8] = "GEOSContains"
  /\ SuitePredicates[9] = "GEOSEquals"
  /\ SuitePredicates[10] = "GEOSEqualsExact"
  /\ SuitePredicates[11] = "GEOSCovers"
  /\ SuitePredicates[12] = "GEOSCoveredBy"
BY DEF SuitePredicates

LEMMA PlaceIsUnique ==
  ASSUME NEW p \in Predicates
  PROVE  /\ PlaceInSuite(p) \in 4 .. 12
         /\ \A t \in 1 .. 12 : SuitePredicates[t] = p <=> t = PlaceInSuite(p)
<1>1. \E t \in 1 .. 12 : SuitePredicates[t] = p
  BY SuitePredicatesAre DEF Predicates
<1>2. PlaceInSuite(p) \in 1 .. 12 /\ SuitePredicates[PlaceInSuite(p)] = p
  BY <1>1 DEF PlaceInSuite
<1>3. ASSUME NEW t \in 1 .. 12, NEW u \in 1 .. 12, SuitePredicates[t] = p, SuitePredicates[u] = p
      PROVE  t = u /\ t \in 4 .. 12
  <2>1. t \in {1, 2, 3, 4, 5, 6, 7, 8, 9, 10, 11, 12} /\ u \in {1, 2, 3, 4, 5, 6, 7, 8, 9, 10, 11, 12}
    OBVIOUS
  <2> QED
    BY <1>3, <2>1, SuitePredicatesAre DEF Predicates
<1> QED
  BY <1>2, <1>3

LEMMA SequentialSuite == SuiteTests(geos_benchmark.tests, Creating, Iterating, Joining)
                /\ \A t \in 3 .. 12 : geos_benchmark.tests[t].arrays >= 1
<1>1. /\ geos_benchmark.tests[1] = Test(0, "none", Creating)
      /\ geos_benchmark.tests[2] = Test(1, "none", Iterating)
      /\ geos_benchmark.tests[3] = Test(1, "none", Joining)
      /\ geos_benchmark.tests[4] = Test(1, "GEOSIntersects", Joining)
      /\ geos_benchmark.tests[5] = Test(1, "GEOSOverlaps", Joining)
      /\ geos_benchmark.tests[6] = Test(1, "GEOSTouches", Joining)
      /\ geos_benchmark.tests[7] = Test(1, "GEOSCrosses", Joining)
      /\ geos_benchmark.tests[8] = Test(1, "GEOSContains", Joining)
      /\ geos_benchmark.tests[9] = Test(1, "GEOSEquals", Joining)
      /\ geos_benchmark.tests[10] = Test(1, "GEOSEqualsExact", Joining)
      /\ geos_benchmark.tests[11] = Test(1, "GEOSCovers", Joining)
      /\ geos_benchmark.tests[12] = Test(1, "GEOSCoveredBy", Joining)
      /\ Len(geos_benchmark.tests) = 12 /\ DOMAIN geos_benchmark.tests = 1 .. 12
  BY DEF geos_benchmark, sequential_create_tree, sequential_iterate_tree, sequential_query, sequential_intersect, sequential_overlap, sequential_touch, sequential_cross, sequential_contain, sequential_equal, sequential_equal_exact, sequential_cover, sequential_covered_by
<1>2. \A a, p, l : Test(a, p, l).arrays = a /\ Test(a, p, l).predicate = p /\ Test(a, p, l).steps = l
  BY DEF Test
<1>3. ASSUME NEW t \in 3 .. 12
      PROVE  geos_benchmark.tests[t].steps = Joining /\ geos_benchmark.tests[t].arrays >= 1
  <2>1. t \in {3, 4, 5, 6, 7, 8, 9, 10, 11, 12}
    OBVIOUS
  <2> QED
    BY <1>1, <1>2, <2>1
<1>4. ASSUME NEW t \in 1 .. 12 PROVE geos_benchmark.tests[t].predicate = SuitePredicates[t]
  <2>1. t \in {1, 2, 3, 4, 5, 6, 7, 8, 9, 10, 11, 12}
    OBVIOUS
  <2> QED
    BY <1>1, <1>2, <2>1, SuitePredicatesAre
<1> QED
  BY <1>1, <1>2, <1>3, <1>4 DEF SuiteTests

LEMMA MpiSuite == SuiteTests(geos_benchmark_mpi.tests, Creating, Iterating, Joining)
                /\ \A t \in 3 .. 12 : geos_benchmark_mpi.tests[t].arrays >= 1
<1>1. /\ geos_benchmark_mpi.tests[1] = Test(0, "none", Creating)
      /\ geos_benchmark_mpi.tests[2] = Test(1, "none", Iterating)
      /\ geos_benchmark_mpi.tests[3] = Test(2, "none", Joining)
      /\ geos_benchmark_mpi.tests[4] = Test(2, "GEOSIntersects", Joining)
      /\ geos_benchmark_mpi.tests[5] = Test(2, "GEOSOverlaps", Joining)
      /\ geos_benchmark_mpi.tests[6] = Test(2, "GEOSTouches", Joining)
      /\ geos_benchmark_mpi.tests[7] = Test(2, "GEOSCrosses", Joining)
      /\ geos_benchmark_mpi.tests[8] = Test(2, "GEOSContains", Joining)
      /\ geos_benchmark_mpi.tests[9] = Test(2, "GEOSEquals", Joining)
      /\ geos_benchmark_mpi.tests[10] = Test(2, "GEOSEqualsExact", Joining)
      /\ geos_benchmark_mpi.tests[11] = Test(2, "GEOSCovers", Joining)
      /\ geos_benchmark_mpi.tests[12] = Test(2, "GEOSCoveredBy", Joining)
      /\ Len(geos_benchmark_mpi.tests) = 12 /\ DOMAIN geos_benchmark_mpi.tests = 1 .. 12
  BY DEF geos_benchmark_mpi, mpi_create_tree, mpi_iterate_tree, mpi_query, mpi_intersect, mpi_overlap, mpi_touch, mpi_cross, mpi_contain, mpi_equal, mpi_equal_exact, mpi_cover, mpi_covered_by
<1>2. \A a, p, l : Test(a, p, l).arrays = a /\ Test(a, p, l).predicate = p /\ Test(a, p, l).steps = l
  BY DEF Test
<1>3. ASSUME NEW t \in 3 .. 12
      PROVE  geos_benchmark_mpi.tests[t].steps = Joining /\ geos_benchmark_mpi.tests[t].arrays >= 1
  <2>1. t \in {3, 4, 5, 6, 7, 8, 9, 10, 11, 12}
    OBVIOUS
  <2> QED
    BY <1>1, <1>2, <2>1
<1>4. ASSUME NEW t \in 1 .. 12 PROVE geos_benchmark_mpi.tests[t].predicate = SuitePredicates[t]
  <2>1. t \in {1, 2, 3, 4, 5, 6, 7, 8, 9, 10, 11, 12}
    OBVIOUS
  <2> QED
    BY <1>1, <1>2, <2>1, SuitePredicatesAre
<1> QED
  BY <1>1, <1>2, <1>3, <1>4 DEF SuiteTests

LEMMA SpatialSuite == SuiteTests(all_tests.tests, SpatialCreating, SpatialIterating, SpatialJoining)
<1>1. /\ all_tests.tests[1] = Test(0, "none", SpatialCreating)
      /\ all_tests.tests[2] = Test(0, "none", SpatialIterating)
      /\ all_tests.tests[3] = Test(0, "none", SpatialJoining)
      /\ all_tests.tests[4] = Test(0, "GEOSIntersects", SpatialJoining)
      /\ all_tests.tests[5] = Test(0, "GEOSOverlaps", SpatialJoining)
      /\ all_tests.tests[6] = Test(0, "GEOSTouches", SpatialJoining)
      /\ all_tests.tests[7] = Test(0, "GEOSCrosses", SpatialJoining)
      /\ all_tests.tests[8] = Test(0, "GEOSContains", SpatialJoining)
      /\ all_tests.tests[9] = Test(0, "GEOSEquals", SpatialJoining)
      /\ all_tests.tests[10] = Test(0, "GEOSEqualsExact", SpatialJoining)
      /\ all_tests.tests[11] = Test(0, "GEOSCovers", SpatialJoining)
      /\ all_tests.tests[12] = Test(0, "GEOSCoveredBy", SpatialJoining)
      /\ Len(all_tests.tests) = 12 /\ DOMAIN all_tests.tests = 1 .. 12
  BY DEF all_tests, spatial_create_tree, spatial_iterate_tree, spatial_query, spatial_intersect, spatial_overlap, spatial_touch, spatial_cross, spatial_contain, spatial_equal, spatial_equal_exact, spatial_cover, spatial_covered_by, VectorJoin, SpatialCreating, SpatialIterating, SpatialJoining
<1>2. \A a, p, l : Test(a, p, l).arrays = a /\ Test(a, p, l).predicate = p /\ Test(a, p, l).steps = l
  BY DEF Test
<1>3. ASSUME NEW t \in 3 .. 12
      PROVE  all_tests.tests[t].steps = SpatialJoining
  <2>1. t \in {3, 4, 5, 6, 7, 8, 9, 10, 11, 12}
    OBVIOUS
  <2> QED
    BY <1>1, <1>2, <2>1
<1>4. ASSUME NEW t \in 1 .. 12 PROVE all_tests.tests[t].predicate = SuitePredicates[t]
  <2>1. t \in {1, 2, 3, 4, 5, 6, 7, 8, 9, 10, 11, 12}
    OBVIOUS
  <2> QED
    BY <1>1, <1>2, <2>1, SuitePredicatesAre
<1> QED
  BY <1>1, <1>2, <1>3, <1>4 DEF SuiteTests

\* The programs.
ReadingPrograms == {"geos_benchmark", "geos_benchmark_mpi"}
SuitePrograms == {"geos_benchmark", "geos_benchmark_mpi", "all_tests"}
NoHandlePrograms == {"lb_mt_client", "lb_mt_server"}
OneTestPrograms == {"intersect_only", "file_partition", "exp6_client", "exp6_server", "lb_mt_client", "lb_mt_server"}

LEMMA OneTestIs ==
  /\ \A p \in {intersect_only, file_partition, exp6_client, exp6_server, lb_mt_client, lb_mt_server} :
       OneTest(p.tests) /\ p.readsInTests = FALSE /\ p.tidy \in BOOLEAN
  /\ intersect_only.handle = TRUE /\ file_partition.handle = TRUE /\ exp6_client.handle = TRUE
  /\ exp6_server.handle = TRUE /\ lb_mt_client.handle = FALSE /\ lb_mt_server.handle = FALSE
<1>1. /\ all_tests.readsInTests = FALSE /\ all_tests.handle = TRUE /\ all_tests.tidy = TRUE
      /\ DOMAIN all_tests = {"readsInTests", "handle", "tidy", "tests"}
  BY DEF all_tests
<1>2. /\ intersect_only.readsInTests = FALSE /\ intersect_only.handle = TRUE /\ intersect_only.tidy = TRUE
      /\ intersect_only.tests = <<spatial_intersect>>
      /\ DOMAIN intersect_only = {"readsInTests", "handle", "tidy", "tests"}
  BY <1>1 DEF intersect_only
<1>3. /\ file_partition.readsInTests = FALSE /\ file_partition.handle = TRUE /\ file_partition.tidy = TRUE
      /\ file_partition.tests = <<file_intersect>>
  BY <1>2 DEF file_partition
<1>4. \A h, t : /\ Untidy(h, t).readsInTests = FALSE /\ Untidy(h, t).handle = h /\ Untidy(h, t).tidy = FALSE
                /\ Untidy(h, t).tests = <<t>>
  BY DEF Untidy
<1>5. /\ spatial_intersect = Test(0, "GEOSIntersects", SpatialJoining)
      /\ file_intersect = spatial_intersect /\ exp6_client_intersect = spatial_intersect
      /\ exp6_server_intersect = spatial_intersect /\ lb_mt_client_intersect = spatial_intersect
      /\ lb_mt_server_intersect = spatial_intersect
  BY DEF spatial_intersect, file_intersect, exp6_client_intersect, exp6_server_intersect,
         lb_mt_client_intersect, lb_mt_server_intersect, VectorJoin, SpatialJoining
<1>6. OneTest(<<spatial_intersect>>)
  <2>1. spatial_intersect.steps = SpatialJoining /\ spatial_intersect.predicate = "GEOSIntersects"
    BY <1>5 DEF Test
  <2> QED
    BY <2>1 DEF OneTest
<1>7. /\ exp6_client.tests = <<spatial_intersect>> /\ exp6_server.tests = <<spatial_intersect>>
      /\ lb_mt_client.tests = <<spatial_intersect>> /\ lb_mt_server.tests = <<spatial_intersect>>
      /\ exp6_client.handle = TRUE /\ exp6_server.handle = TRUE
      /\ lb_mt_client.handle = FALSE /\ lb_mt_server.handle = FALSE
      /\ exp6_client.readsInTests = FALSE /\ exp6_client.tidy = FALSE
      /\ exp6_server.readsInTests = FALSE /\ exp6_server.tidy = FALSE
      /\ lb_mt_client.readsInTests = FALSE /\ lb_mt_client.tidy = FALSE
      /\ lb_mt_server.readsInTests = FALSE /\ lb_mt_server.tidy = FALSE
  BY <1>4, <1>5 DEF exp6_client, exp6_server, lb_mt_client, lb_mt_server
<1> QED
  BY <1>2, <1>3, <1>5, <1>6, <1>7

\* A program P of the given name is what the table says.
ProgramOK(name, P) ==
  /\ P.readsInTests \in BOOLEAN /\ P.handle \in BOOLEAN /\ P.tidy \in BOOLEAN
  /\ P.readsInTests <=> name \in ReadingPrograms
  /\ P.handle <=> name \notin ReadingPrograms \cup NoHandlePrograms
  /\ name \in SuitePrograms => P.tidy
  /\ name \in ReadingPrograms => /\ SuiteTests(P.tests, Creating, Iterating, Joining)
                                 /\ \A t \in 3 .. 12 : P.tests[t].arrays >= 1
  /\ name = "all_tests" => SuiteTests(P.tests, SpatialCreating, SpatialIterating, SpatialJoining)
  /\ name \notin SuitePrograms => OneTest(P.tests)

LEMMA ProgramsAre ==
  /\ DOMAIN Programs = SuitePrograms \cup OneTestPrograms
  /\ Programs["geos_benchmark"] = geos_benchmark /\ Programs["geos_benchmark_mpi"] = geos_benchmark_mpi
  /\ Programs["all_tests"] = all_tests /\ Programs["intersect_only"] = intersect_only
  /\ Programs["file_partition"] = file_partition /\ Programs["exp6_client"] = exp6_client
  /\ Programs["exp6_server"] = exp6_server /\ Programs["lb_mt_client"] = lb_mt_client
  /\ Programs["lb_mt_server"] = lb_mt_server
BY DEF Programs, SuitePrograms, OneTestPrograms

LEMMA ProgramShape == \A name \in DOMAIN Programs : ProgramOK(name, Programs[name])
<1>1. /\ geos_benchmark.readsInTests = TRUE /\ geos_benchmark.handle = FALSE /\ geos_benchmark.tidy = TRUE
      /\ geos_benchmark_mpi.readsInTests = TRUE /\ geos_benchmark_mpi.handle = FALSE
      /\ geos_benchmark_mpi.tidy = TRUE
      /\ all_tests.readsInTests = FALSE /\ all_tests.handle = TRUE /\ all_tests.tidy = TRUE
  BY DEF geos_benchmark, geos_benchmark_mpi, all_tests
<1>2. ProgramOK("geos_benchmark", geos_benchmark)
  BY <1>1, SequentialSuite DEF ProgramOK, ReadingPrograms, SuitePrograms, NoHandlePrograms
<1>3. ProgramOK("geos_benchmark_mpi", geos_benchmark_mpi)
  BY <1>1, MpiSuite DEF ProgramOK, ReadingPrograms, SuitePrograms, NoHandlePrograms
<1>4. ProgramOK("all_tests", all_tests)
  BY <1>1, SpatialSuite DEF ProgramOK, ReadingPrograms, SuitePrograms, NoHandlePrograms
<1>5. /\ ProgramOK("intersect_only", intersect_only) /\ ProgramOK("file_partition", file_partition)
      /\ ProgramOK("exp6_client", exp6_client) /\ ProgramOK("exp6_server", exp6_server)
      /\ ProgramOK("lb_mt_client", lb_mt_client) /\ ProgramOK("lb_mt_server", lb_mt_server)
  BY OneTestIs DEF ProgramOK, ReadingPrograms, SuitePrograms, NoHandlePrograms
<1> QED
  BY <1>2, <1>3, <1>4, <1>5, ProgramsAre DEF SuitePrograms, OneTestPrograms

-----------------------------------------------------------------------------
\* The inputs ---------------------------------------------------------------

Pieces == {"polygon", "null"}

LEMMA LinesInType ==
  ASSUME NEW lines \in Seq(Lines), NEW set
  PROVE  \E size \in Nat : DOMAIN LinesIn(lines, set) = 1 .. size
<1> DEFINE taken == {i \in DOMAIN lines : lines[i] \in set}
<1>1. IsFiniteSet(taken)
  <2>1. IsFiniteSet(1 .. Len(lines)) /\ DOMAIN lines = 1 .. Len(lines) /\ Len(lines) \in Nat
    BY FS_Interval
  <2>2. taken \subseteq 1 .. Len(lines)
    BY <2>1
  <2> QED
    BY <2>1, <2>2, FS_Subset
<1>2. Cardinality(taken) \in Nat
  BY <1>1, FS_CardinalityType
<1>3. DOMAIN LinesIn(lines, set) = 1 .. Cardinality(taken)
  BY DEF LinesIn
<1> QED
  BY <1>2, <1>3

LEMMA ParsedType ==
  ASSUME NEW lines, NEW size \in Nat, DOMAIN lines = 1 .. size
  PROVE  Parsed(lines) \in Seq(Pieces)
<1>1. \A line : GEOSGeomFromWKT(line) \in Pieces
  BY DEF GEOSGeomFromWKT, Pieces
<1>2. Parsed(lines) \in [1 .. size -> Pieces]
  BY <1>1 DEF Parsed
<1> QED
  BY <1>2

LEMMA ContentsType ==
  ASSUME NEW lines, lines = Missing \/ lines \in Seq(Lines)
  PROVE  Contents(lines) \in Seq(Lines)
BY DEF Contents

LEMMA InputFacts ==
  ASSUME input \in Inputs
  PROVE  /\ ProgramOK(input.program, Program) /\ input.program \in SuitePrograms \cup OneTestPrograms
         /\ input.n \in Nat \ {0} /\ MaxGeoms \in Nat
         /\ SecondOf \in Seq(Pieces)
         /\ \A r \in Processes : FirstOf(r) \in Seq(Pieces)
<1>1. input.program \in DOMAIN Programs /\ input.n \in Nat \ {0} /\ MaxGeoms \in Nat
  BY InputsAssumption
<1>2. ProgramOK(input.program, Program) /\ input.program \in SuitePrograms \cup OneTestPrograms
  BY <1>1, ProgramShape, ProgramsAre DEF Program
<1>3. SecondOf \in Seq(Pieces)
  <2>1. Contents(input.second) \in Seq(Lines)
    BY InputsAssumption, ContentsType
  <2>2. PICK size \in Nat : DOMAIN AcceptedSecond(Contents(input.second)) = 1 .. size
    <3>1. CASE Program.readsInTests
      <4>1. AcceptedSecond(Contents(input.second)) = LinesIn(Contents(input.second), Lines \ {"short"})
        BY <3>1 DEF AcceptedSecond
      <4> QED
        BY <2>1, <4>1, LinesInType
    <3>2. CASE ~Program.readsInTests
      <4>1. AcceptedSecond(Contents(input.second)) = LinesIn(Contents(input.second), Lines \ {"short", "open"})
        BY <3>2 DEF AcceptedSecond, Accepted
      <4> QED
        BY <2>1, <4>1, LinesInType
    <3> QED
      BY <3>1, <3>2
  <2> QED
    BY <2>2, ParsedType DEF SecondOf
<1>4. ASSUME NEW r \in Processes PROVE FirstOf(r) \in Seq(Pieces)
  <2>1. input.first[r] = Missing \/ input.first[r] \in Seq(Lines)
    BY InputsAssumption DEF Processes
  <2>2. Contents(input.first[r]) \in Seq(Lines)
    BY <2>1, ContentsType
  <2>3. PICK size \in Nat : DOMAIN Accepted(Contents(input.first[r])) = 1 .. size
    BY <2>2, LinesInType DEF Accepted
  <2> QED
    BY <2>3, ParsedType DEF FirstOf
<1> QED
  BY <1>1, <1>2, <1>3, <1>4

\* The test of number t of the suite.
TestFor(p) == IF FullSuite THEN PlaceInSuite(p) ELSE IF p = "GEOSIntersects" THEN 1 ELSE 0
TestOK(t) ==
  /\ ListOK(Tests[t].steps)
  /\ Tests[t].steps \in IF Program.readsInTests THEN ReadingLists ELSE VectorLists
  /\ Tests[t].steps = Creating <=> Program.readsInTests /\ t = 1
  /\ Tests[t].steps = Iterating <=> Program.readsInTests /\ t = 2
  /\ Tests[t].steps = SpatialIterating <=> ~Program.readsInTests /\ FullSuite /\ t = 2
  /\ Tests[t].steps \in {Joining, SpatialJoining} <=> ~FullSuite \/ t > 2
  /\ \A p \in Predicates : Tests[t].predicate = p <=> t = TestFor(p)
  /\ Program.readsInTests /\ t > 2 => Tests[t].arrays >= 1

LEMMA ListsOK == \A L \in ReadingLists \cup VectorLists : ListOK(L)
BY CreatingTidy, IteratingTidy, JoiningTidy, SpatialCreatingTidy, SpatialIteratingTidy, SpatialJoiningTidy
   DEF ReadingLists, VectorLists

LEMMA SuiteFacts ==
  ASSUME input \in Inputs
  PROVE  /\ Len(Tests) \in {1, 12} /\ DOMAIN Tests = 1 .. Len(Tests)
         /\ FullSuite <=> Len(Tests) = 12
         /\ Program.readsInTests => FullSuite
         /\ \A t \in DOMAIN Tests : TestOK(t)
         /\ \A p \in Predicates : TestFor(p) = 0 \/ (TestFor(p) \in DOMAIN Tests /\ (FullSuite => TestFor(p) > 2))
<1>1. ProgramOK(input.program, Program) /\ input.program \in SuitePrograms \cup OneTestPrograms
  BY InputFacts
<1>2. FullSuite <=> input.program \in SuitePrograms
  BY DEF FullSuite, SuitePrograms
<1>3. \A p \in Predicates : FullSuite => TestFor(p) = PlaceInSuite(p)
  BY DEF TestFor
<1>4. CASE Program.readsInTests
  <2>1. SuiteTests(Tests, Creating, Iterating, Joining) /\ (\A t \in 3 .. 12 : Tests[t].arrays >= 1) /\ FullSuite
    BY <1>1, <1>2, <1>4 DEF ProgramOK, Tests, ReadingPrograms, SuitePrograms
  <2>2. ASSUME NEW t \in 1 .. 12 PROVE TestOK(t)
    <3>1. \A p \in Predicates : Tests[t].predicate = p <=> t = TestFor(p)
      BY <1>3, <2>1, PlaceIsUnique DEF SuiteTests
    <3>2. CASE t = 1
      BY <1>4, <2>1, <3>1, <3>2, ListsOK, ListsAre, ListsDiffer DEF TestOK, SuiteTests
    <3>3. CASE t = 2
      BY <1>4, <2>1, <3>1, <3>3, ListsOK, ListsAre, ListsDiffer DEF TestOK, SuiteTests
    <3>4. CASE t \in 3 .. 12
      BY <1>4, <2>1, <3>1, <3>4, ListsOK, ListsAre, ListsDiffer DEF TestOK, SuiteTests
    <3> QED
      BY <3>2, <3>3, <3>4
  <2> QED
    BY <1>3, <2>1, <2>2, PlaceIsUnique DEF SuiteTests
<1>5. CASE ~Program.readsInTests /\ FullSuite
  <2>1. SuiteTests(Tests, SpatialCreating, SpatialIterating, SpatialJoining)
    BY <1>1, <1>2, <1>5 DEF ProgramOK, Tests, ReadingPrograms, SuitePrograms
  <2>2. ASSUME NEW t \in 1 .. 12 PROVE TestOK(t)
    <3>1. \A p \in Predicates : Tests[t].predicate = p <=> t = TestFor(p)
      BY <1>3, <1>5, <2>1, PlaceIsUnique DEF SuiteTests
    <3>2. CASE t = 1
      BY <1>5, <2>1, <3>1, <3>2, ListsOK, ListsAre, ListsDiffer DEF TestOK, SuiteTests
    <3>3. CASE t = 2
      BY <1>5, <2>1, <3>1, <3>3, ListsOK, ListsAre, ListsDiffer DEF TestOK, SuiteTests
    <3>4. CASE t \in 3 .. 12
      BY <1>5, <2>1, <3>1, <3>4, ListsOK, ListsAre, ListsDiffer DEF TestOK, SuiteTests
    <3> QED
      BY <3>2, <3>3, <3>4
  <2> QED
    BY <1>3, <1>5, <2>1, <2>2, PlaceIsUnique DEF SuiteTests
<1>6. CASE ~FullSuite
  <2>1. OneTest(Tests) /\ ~Program.readsInTests
    BY <1>1, <1>2, <1>6 DEF ProgramOK, Tests, ReadingPrograms, SuitePrograms
  <2>2. TestOK(1)
    BY <1>6, <2>1, ListsOK, ListsAre, ListsDiffer DEF TestOK, OneTest, TestFor
  <2> QED
    BY <1>6, <2>1, <2>2 DEF OneTest, TestFor
<1> QED
  BY <1>4, <1>5, <1>6

\* What the tests of a suite do: which of them iterate, and that they insert.
LEMMA SuiteLists ==
  ASSUME input \in Inputs
  PROVE  /\ Program.readsInTests => /\ 1 \in DOMAIN Tests /\ 2 \in DOMAIN Tests /\ 3 \in DOMAIN Tests /\ FullSuite
                                    /\ "insert" \in AllOf(Tests[1].steps) /\ "insert" \in AllOf(Tests[2].steps)
         /\ FullSuite => 2 \in DOMAIN Tests /\ "iterate" \in AllOf(Tests[2].steps)
         /\ \A t \in DOMAIN Tests : "iterate" \in AllOf(Tests[t].steps) => FullSuite /\ t = 2
<1>1. Program.readsInTests => FullSuite
  BY SuiteFacts
<1>2. FullSuite => 1 \in DOMAIN Tests /\ 2 \in DOMAIN Tests /\ 3 \in DOMAIN Tests
  <2>1. DOMAIN Tests = 1 .. Len(Tests) /\ (FullSuite => Len(Tests) = 12)
    BY SuiteFacts
  <2> QED
    BY <2>1
<1>3. \A t \in DOMAIN Tests : TestOK(t)
  BY SuiteFacts
<1>4. \A t \in DOMAIN Tests : "insert" \in AllOf(Tests[t].steps)
  BY <1>3 DEF TestOK, ListOK
<1>5. \A t \in DOMAIN Tests : "iterate" \in AllOf(Tests[t].steps) <=> Tests[t].steps \in {Iterating, SpatialIterating}
  BY <1>3 DEF TestOK, ListOK
<1>6. \A t \in DOMAIN Tests : /\ Tests[t].steps = Iterating <=> Program.readsInTests /\ t = 2
                              /\ Tests[t].steps = SpatialIterating <=> ~Program.readsInTests /\ FullSuite /\ t = 2
  BY <1>3 DEF TestOK
<1> QED
  BY <1>1, <1>2, <1>4, <1>5, <1>6

-----------------------------------------------------------------------------
\* The invariant ------------------------------------------------------------

(***************************************************************************)
(* How often a rank has taken step x of test t, step y in the tests from t *)
(* on that have it, and how many times it has filled a tree in these: all  *)
(* follow from where it is.                                                *)
(***************************************************************************)
DoneBy(r) == IF InTest(r) THEN Ran(TestOf(r).steps, at[r].step) ELSE {}
Times(r, t, x) ==
  IF at[r].test > t THEN input.n
  ELSE IF at[r].test = t THEN (at[r].pass - 1) + (IF x \in DoneBy(r) THEN 1 ELSE 0) ELSE 0
SinceOf(r, t, y) ==
  IF at[r].test < t THEN 0
  ELSE IF InTest(r) THEN (at[r].test - t) * input.n + (at[r].pass - 1) + (IF y \in DoneBy(r) THEN 1 ELSE 0)
  ELSE (Len(Tests) + 1 - t) * input.n
Since(r, t) == SinceOf(r, t, "insert")

Positions == [test : Nat, pass : Nat, step : Nat]
Position(r) ==
  /\ at[r].test \in 0 .. Len(Tests) + 2 /\ at[r].pass \in 1 .. input.n
  /\ IF InTest(r) THEN at[r].step \in 1 .. Len(TestOf(r).steps) ELSE at[r].step = 1 /\ at[r].pass = 1

\* What a rank has of GEOS and of polygons, in test t when the steps D have run;
\* before the reading and at the end; and so anywhere.
InTree(r, t) == IF Program.readsInTests THEN Kept(FirstOf(r), Tests[t]) ELSE FirstOf(r)
Holding(r, t, D) ==
  /\ geos[r].handle <=> Program.handle \/ HasGEOS(D)
  /\ geos[r].tree = IF ~HasTree(D) THEN NoTree ELSE IF "insert" \in D THEN InTree(r, t) ELSE <<>>
  /\ first[r] = IF ~Program.readsInTests \/ (HasFirst(D) /\ Tests[t].steps # Creating) THEN InTree(r, t) ELSE <<>>
  /\ second[r] = IF ~Program.readsInTests \/ HasSecond(D) THEN SecondOf ELSE <<>>
Untouched(r) == /\ first[r] = <<>> /\ second[r] = <<>>
                /\ geos[r].handle <=> Program.handle
                /\ geos[r].tree = NoTree
Objects(r) ==
  /\ at[r].test = 0 => Untouched(r)
  /\ InTest(r) => Holding(r, at[r].test, DoneBy(r))
  /\ AtEnd(r) => \/ Holding(r, 1, {})
                 \/ Untouched(r) /\ ~Program.readsInTests /\ Program.tidy /\ FirstOf(r) = <<>>

\* What it has leaked and counted.
Pairs(r) == IF Program.handle \/ Program.readsInTests THEN Polygons(r) * Len(SecondOf) ELSE 0
Leaks(r) ==
  leaked[r] =
    IF Program.readsInTests
      THEN 2 * Polygons(r) * Times(r, 1, "insert") + Len(InTree(r, 2)) * Times(r, 2, "insert")
           + Polygons(r) * Since(r, 3)
      ELSE Polygons(r) * Since(r, 1)
           + (IF Ended(r) /\ ~Program.tidy THEN Polygons(r) + Len(SecondOf) ELSE 0)
Counts(r) ==
  /\ element_count[r] = IF FullSuite THEN Times(r, 2, "iterate") * Len(InTree(r, 2)) ELSE 0
  /\ \A p \in Predicates :
       applied[r][p] = IF TestFor(p) = 0 THEN 0 ELSE Times(r, TestFor(p), "visit") * Pairs(r)

\* A rank that has filled a tree of geos_benchmark without stopping at a full
\* array has room for its polygons.
Fit(r) == Program.readsInTests /\ Times(r, 3, "insert") > 0 => Polygons(r) <= MaxGeoms

RankOK(r) == Position(r) /\ Objects(r) /\ Leaks(r) /\ Counts(r) /\ Fit(r)
SuiteTypes ==
  /\ input \in Inputs
  /\ at \in [Processes -> Positions]
  /\ DOMAIN geos = Processes /\ \A r \in Processes : DOMAIN geos[r] = {"handle", "tree"}
  /\ DOMAIN first = Processes /\ DOMAIN second = Processes /\ DOMAIN leaked = Processes
  /\ DOMAIN element_count = Processes
  /\ DOMAIN applied = Processes /\ \A r \in Processes : DOMAIN applied[r] = Predicates
SuiteSound == /\ SuiteTypes /\ died # "misuse"
              /\ reported => \A r \in Processes : Ended(r)
              /\ \A r \in Processes : RankOK(r)
-----------------------------------------------------------------------------
\* Moving on ----------------------------------------------------------------

\* Where select_test goes next.
LEMMA Advancing ==
  ASSUME SuiteTypes, NEW r \in Processes, Position(r), InTest(r), Advance(r)
  PROVE  /\ at' \in [Processes -> Positions] /\ \A q \in Processes : q # r => at'[q] = at[q]
         /\ Len(TestOf(r).steps) \in Nat \ {0}
         /\ \/ /\ at[r].step < Len(TestOf(r).steps)
               /\ at'[r].test = at[r].test /\ at'[r].pass = at[r].pass /\ at'[r].step = at[r].step + 1
            \/ /\ at[r].step = Len(TestOf(r).steps) /\ at[r].pass < input.n
               /\ at'[r].test = at[r].test /\ at'[r].pass = at[r].pass + 1 /\ at'[r].step = 1
            \/ /\ at[r].step = Len(TestOf(r).steps) /\ at[r].pass = input.n
               /\ at'[r].test = at[r].test + 1 /\ at'[r].pass = 1 /\ at'[r].step = 1
<1>1. /\ at[r] \in Positions /\ at[r].test \in DOMAIN Tests /\ TestOf(r) = Tests[at[r].test]
      /\ at[r].pass \in 1 .. input.n /\ at[r].step \in 1 .. Len(TestOf(r).steps)
  BY DEF SuiteTypes, Position, InTest, TestOf, Tests
<1>2. Len(TestOf(r).steps) \in Nat \ {0} /\ input.n \in Nat \ {0}
  BY <1>1, SuiteFacts, InputFacts DEF SuiteTypes, TestOK, ListOK
<1>3. PICK k \in Nat, reps \in Nat : k = Len(TestOf(r).steps) /\ reps = input.n
  BY <1>2
<1>4. at \in [Processes -> Positions]
  BY DEF SuiteTypes
<1>5. PICK a \in Nat, b \in Nat, c \in Nat : at[r] = [test |-> a, pass |-> b, step |-> c]
  BY <1>1 DEF Positions
<1>6. PICK v : v = Following(at[r], TestOf(r).steps)
  OBVIOUS
<1>7. at' = [at EXCEPT ![r] = v]
  BY <1>6 DEF Advance
<1>8. v = IF c < k THEN [test |-> a, pass |-> b, step |-> c + 1]
          ELSE IF b < reps THEN [test |-> a, pass |-> b + 1, step |-> 1]
          ELSE [test |-> a + 1, pass |-> 1, step |-> 1]
  BY <1>3, <1>5, <1>6 DEF Following
<1>9. v \in Positions
  BY <1>8 DEF Positions
<1>10. at' \in [Processes -> Positions] /\ at'[r] = v /\ \A q \in Processes : q # r => at'[q] = at[q]
  BY <1>4, <1>7, <1>9
<1> QED
  BY <1>1, <1>2, <1>3, <1>5, <1>10, <1>8

\* What has been done then: one step more of this pass, or the next begins.
LEMMA Moving ==
  ASSUME SuiteTypes, NEW r \in Processes, Position(r), InTest(r), Advance(r), input' = input,
         NEW t, t = at[r].test, NEW D, D = DoneBy(r), NEW x, x = Step(r)
  PROVE  /\ Position(r)' /\ t \in DOMAIN Tests /\ TestOK(t) /\ x \in AllOf(Tests[t].steps)
         /\ Orderly(Tests[t].steps, x, D) /\ Clean(Tests[t].steps, AllOf(Tests[t].steps))
         /\ \/ InTest(r)' /\ at'[r].test = t /\ at'[r].pass = at[r].pass /\ DoneBy(r)' = D \cup {x}
            \/ /\ at[r].pass < input.n /\ InTest(r)' /\ at'[r].test = t /\ at'[r].pass = at[r].pass + 1
               /\ D \cup {x} = AllOf(Tests[t].steps) /\ DoneBy(r)' = {}
            \/ /\ at[r].pass = input.n /\ at'[r].test = t + 1 /\ at'[r].pass = 1
               /\ D \cup {x} = AllOf(Tests[t].steps) /\ DoneBy(r)' = {}
<1> DEFINE steps == Tests[t].steps
<1>1. /\ t \in DOMAIN Tests /\ TestOf(r) = Tests[t] /\ at[r].step \in 1 .. Len(steps)
      /\ D = Ran(steps, at[r].step) /\ x = steps[at[r].step]
  BY DEF Position, InTest, TestOf, Tests, DoneBy, Step
<1>2. /\ TestOK(t) /\ DOMAIN Tests = 1 .. Len(Tests) /\ Len(Tests) \in Nat /\ input.n \in Nat \ {0} /\ t \in Nat
  BY <1>1, SuiteFacts, InputFacts DEF SuiteTypes
<1>3. TidySteps(steps) /\ Len(steps) \in Nat \ {0} /\ DOMAIN steps = 1 .. Len(steps)
  BY <1>2 DEF TestOK, ListOK
<1>4. Orderly(steps, x, D) /\ Clean(steps, AllOf(steps)) /\ x \in AllOf(steps)
  BY <1>1, <1>3 DEF TidySteps, AllOf
<1>5. PICK s \in Nat \ {0} : s = at[r].step
  BY <1>1, <1>3
<1>6. D \cup {x} = Ran(steps, s + 1) /\ (s = Len(steps) => D \cup {x} = AllOf(steps)) /\ Ran(steps, 1) = {}
  <2>1. D \cup {x} = Ran(steps, s + 1)
    <3>1. D = Ran(steps, s) /\ x = steps[s]
      BY <1>1, <1>5
    <3>2. Ran(steps, s + 1) = Ran(steps, s) \cup {steps[s]}
      BY RanMore
    <3> QED
      BY <3>1, <3>2
  <2>2. s = Len(steps) => Ran(steps, s + 1) = AllOf(steps)
    BY <1>3, <1>5, RanAll
  <2> QED
    BY <2>1, <2>2, NoneRan
<1>7. /\ InTest(r)' <=> at'[r].test \in DOMAIN Tests
      /\ DoneBy(r)' = IF at'[r].test \in DOMAIN Tests THEN Ran(Tests[at'[r].test].steps, at'[r].step) ELSE {}
      /\ Position(r)' <=> /\ at'[r].test \in 0 .. Len(Tests) + 2 /\ at'[r].pass \in 1 .. input.n
                          /\ IF at'[r].test \in DOMAIN Tests
                               THEN at'[r].step \in 1 .. Len(Tests[at'[r].test].steps)
                               ELSE at'[r].step = 1 /\ at'[r].pass = 1
  BY DEF InTest, DoneBy, Position, TestOf, Tests, Program
<1>8. CASE at[r].step < Len(steps) /\ at'[r].test = t /\ at'[r].pass = at[r].pass /\ at'[r].step = s + 1
  <2>1. InTest(r)' /\ DoneBy(r)' = D \cup {x}
    BY <1>1, <1>6, <1>7, <1>8
  <2>2. Position(r)'
    <3>1. PICK last \in Nat : last = Len(steps)
      BY <1>3
    <3>2. s < last /\ at'[r].step = s + 1
      BY <1>5, <1>8, <3>1
    <3>3. at'[r].step \in 1 .. last
      BY <3>2
    <3>4. PICK m \in Nat : m = Len(Tests)
      BY <1>2
    <3>5. t \in 1 .. m /\ at'[r].pass \in 1 .. input.n
      BY <1>1, <1>2, <1>8, <3>4 DEF Position
    <3>6. t \in 0 .. m + 2
      BY <3>5
    <3> QED
      BY <1>1, <1>7, <1>8, <3>1, <3>3, <3>4, <3>5, <3>6
  <2> QED
    BY <1>1, <1>2, <1>4, <1>8, <2>1, <2>2
<1>9. CASE s = Len(steps) /\ at[r].pass < input.n /\ at'[r].test = t /\ at'[r].pass = at[r].pass + 1 /\ at'[r].step = 1
  <2>1. InTest(r)' /\ DoneBy(r)' = {} /\ D \cup {x} = AllOf(steps)
    BY <1>1, <1>6, <1>7, <1>9
  <2>2. Position(r)'
    <3>1. at'[r].pass \in 1 .. input.n
      <4>1. PICK p \in Nat, reps \in Nat : p = at[r].pass /\ reps = input.n /\ p \in 1 .. reps
        BY <1>2 DEF Position
      <4>2. p + 1 \in 1 .. reps
        BY <1>9, <4>1
      <4> QED
        BY <1>9, <4>1, <4>2
    <3>2. t \in DOMAIN Tests /\ t \in 0 .. Len(Tests) + 2 /\ 1 \in 1 .. Len(steps)
      <4>1. PICK m \in Nat, last \in Nat \ {0} : m = Len(Tests) /\ last = Len(steps)
        BY <1>2, <1>3
      <4>2. t \in 1 .. m
        BY <1>1, <1>2, <4>1
      <4>3. t \in 0 .. m + 2 /\ 1 \in 1 .. last
        BY <4>2
      <4> QED
        BY <1>1, <4>1, <4>3
    <3> QED
      BY <1>7, <1>9, <3>1, <3>2
  <2> QED
    BY <1>1, <1>2, <1>4, <1>9, <2>1, <2>2
<1>10. CASE s = Len(steps) /\ at[r].pass = input.n /\ at'[r].test = t + 1 /\ at'[r].pass = 1 /\ at'[r].step = 1
  <2>1. DoneBy(r)' = {} /\ D \cup {x} = AllOf(steps)
    BY <1>6, <1>7, <1>10, NoneRan
  <2>2. t + 1 \in DOMAIN Tests => Len(Tests[t + 1].steps) \in Nat \ {0}
    BY SuiteFacts DEF SuiteTypes, TestOK, ListOK
  <2>3. Position(r)'
    <3>1. PICK m \in Nat : m = Len(Tests) /\ DOMAIN Tests = 1 .. m
      BY <1>2
    <3>2. t \in 1 .. m
      BY <1>1, <3>1
    <3>3. t + 1 \in 0 .. m + 2
      BY <3>2
    <3>4. t + 1 \in DOMAIN Tests => 1 \in 1 .. Len(Tests[t + 1].steps)
      BY <2>2
    <3>5. 1 \in 1 .. input.n
      BY <1>2
    <3> QED
      BY <1>7, <1>10, <3>1, <3>3, <3>4, <3>5
  <2> QED
    BY <1>1, <1>2, <1>4, <1>10, <2>1, <2>3
<1> QED
  BY <1>1, <1>5, <1>8, <1>9, <1>10, Advancing

\* A step counts once, for its own test.
LEMMA TimesMove ==
  ASSUME SuiteTypes, NEW r \in Processes, Position(r), InTest(r), Advance(r), input' = input,
         NEW u \in DOMAIN Tests, NEW y \in AllOf(Tests[u].steps)
  PROVE  /\ Times(r, u, y) \in Nat
         /\ Times(r, u, y)' = Times(r, u, y) + (IF u = at[r].test /\ y = Step(r) THEN 1 ELSE 0)
<1>1. PICK t, D, x : t = at[r].test /\ D = DoneBy(r) /\ x = Step(r)
  OBVIOUS
<1>2. /\ Position(r)' /\ t \in DOMAIN Tests
      /\ Orderly(Tests[t].steps, x, D)
      /\ \/ InTest(r)' /\ at'[r].test = t /\ at'[r].pass = at[r].pass /\ DoneBy(r)' = D \cup {x}
         \/ /\ at[r].pass < input.n /\ InTest(r)' /\ at'[r].test = t /\ at'[r].pass = at[r].pass + 1
            /\ D \cup {x} = AllOf(Tests[t].steps) /\ DoneBy(r)' = {}
         \/ /\ at[r].pass = input.n /\ at'[r].test = t + 1 /\ at'[r].pass = 1
            /\ D \cup {x} = AllOf(Tests[t].steps) /\ DoneBy(r)' = {}
  BY <1>1, Moving
<1>3. PICK reps \in Nat, p \in Nat : reps = input.n /\ p = at[r].pass /\ p >= 1 /\ p <= reps
  BY InputFacts DEF SuiteTypes, Position
<1>4. u \in Nat /\ t \in Nat
  BY <1>2, SuiteFacts DEF SuiteTypes
<1>5. /\ Times(r, u, y) = IF t > u THEN reps ELSE IF t = u THEN (p - 1) + (IF y \in D THEN 1 ELSE 0) ELSE 0
      /\ Times(r, u, y)' = IF at'[r].test > u THEN reps
                           ELSE IF at'[r].test = u
                             THEN (at'[r].pass - 1) + (IF y \in DoneBy(r)' THEN 1 ELSE 0) ELSE 0
  BY <1>1, <1>3 DEF Times
<1>6. x \notin D
  BY <1>2 DEF Orderly
<1>7. CASE u # t
  BY <1>1, <1>2, <1>3, <1>4, <1>5, <1>7
<1>8. CASE u = t
  <2>1. Times(r, u, y) = (p - 1) + (IF y \in D THEN 1 ELSE 0)
    BY <1>4, <1>5, <1>8
  <2>2. CASE at'[r].test = t /\ at'[r].pass = at[r].pass /\ DoneBy(r)' = D \cup {x}
    BY <1>1, <1>3, <1>4, <1>5, <1>6, <1>8, <2>1, <2>2
  <2>3. CASE at'[r].test = t /\ at'[r].pass = at[r].pass + 1 /\ D \cup {x} = AllOf(Tests[t].steps) /\ DoneBy(r)' = {}
    BY <1>1, <1>3, <1>4, <1>5, <1>6, <1>8, <2>1, <2>3
  <2>4. CASE at[r].pass = input.n /\ at'[r].test = t + 1 /\ D \cup {x} = AllOf(Tests[t].steps) /\ DoneBy(r)' = {}
    BY <1>1, <1>3, <1>4, <1>5, <1>6, <1>8, <2>1, <2>4
  <2> QED
    BY <1>2, <2>2, <2>3, <2>4
<1> QED
  BY <1>7, <1>8

LEMMA SinceOfMove ==
  ASSUME SuiteTypes, NEW r \in Processes, Position(r), InTest(r), Advance(r), input' = input,
         NEW u \in DOMAIN Tests, NEW y, \A v \in DOMAIN Tests : v >= u => y \in AllOf(Tests[v].steps)
  PROVE  /\ SinceOf(r, u, y) \in Nat
         /\ SinceOf(r, u, y)' = SinceOf(r, u, y) + (IF at[r].test >= u /\ Step(r) = y THEN 1 ELSE 0)
<1>1. PICK t, D, x : t = at[r].test /\ D = DoneBy(r) /\ x = Step(r)
  OBVIOUS
<1>2. /\ Position(r)' /\ t \in DOMAIN Tests /\ TestOK(t)
      /\ Orderly(Tests[t].steps, x, D)
      /\ \/ InTest(r)' /\ at'[r].test = t /\ at'[r].pass = at[r].pass /\ DoneBy(r)' = D \cup {x}
         \/ /\ at[r].pass < input.n /\ InTest(r)' /\ at'[r].test = t /\ at'[r].pass = at[r].pass + 1
            /\ D \cup {x} = AllOf(Tests[t].steps) /\ DoneBy(r)' = {}
         \/ /\ at[r].pass = input.n /\ at'[r].test = t + 1 /\ at'[r].pass = 1
            /\ D \cup {x} = AllOf(Tests[t].steps) /\ DoneBy(r)' = {}
  BY <1>1, Moving
<1>3. PICK reps \in Nat, p \in Nat : reps = input.n /\ p = at[r].pass /\ p >= 1 /\ p <= reps
  BY InputFacts DEF SuiteTypes, Position
<1>4. PICK len \in Nat : len = Len(Tests) /\ u \in 1 .. len /\ t \in 1 .. len /\ DOMAIN Tests = 1 .. len
  BY <1>2, SuiteFacts DEF SuiteTypes
<1>5. /\ SinceOf(r, u, y) = IF t < u THEN 0 ELSE (t - u) * reps + (p - 1) + (IF y \in D THEN 1 ELSE 0)
      /\ SinceOf(r, u, y)' = IF at'[r].test < u THEN 0
                        ELSE IF at'[r].test \in 1 .. len
                          THEN (at'[r].test - u) * reps + (at'[r].pass - 1) + (IF y \in DoneBy(r)' THEN 1 ELSE 0)
                        ELSE (len + 1 - u) * reps
  BY <1>1, <1>3, <1>4 DEF SinceOf, InTest, Tests, Program
<1>6. x \notin D /\ (t >= u => y \in AllOf(Tests[t].steps))
  BY <1>2 DEF Orderly
<1>7. CASE t < u
  <2>1. at'[r].test = t \/ at'[r].test = t + 1
    BY <1>2
  <2>2. CASE at'[r].test < u
    BY <1>1, <1>4, <1>5, <1>7, <2>2
  <2>3. CASE at'[r].test = t + 1 /\ at'[r].test = u /\ at'[r].pass = 1 /\ DoneBy(r)' = {}
    <3>1. (at'[r].test - u) * reps = 0
      BY <1>4, <2>3
    <3>2. at'[r].pass - 1 = 0 /\ y \notin DoneBy(r)' /\ at'[r].test \in 1 .. len /\ ~(at'[r].test < u)
      BY <1>4, <2>3
    <3>3. SinceOf(r, u, y)' = 0
      BY <1>5, <3>1, <3>2
    <3> QED
      BY <1>1, <1>4, <1>5, <1>7, <3>3
  <2> QED
    BY <1>2, <1>4, <1>7, <2>1, <2>2, <2>3
<1>8. CASE t >= u
  <2>1. PICK k \in Nat : k = t - u
    BY <1>4, <1>8
  <2>6. PICK kn \in Nat : kn = k * reps
    OBVIOUS
  <2>2. SinceOf(r, u, y) = kn + (p - 1) + (IF y \in D THEN 1 ELSE 0)
    BY <1>4, <1>5, <1>8, <2>1, <2>6
  <2>7. SinceOf(r, u, y) \in Nat
    BY <1>3, <2>2
  <2>3. CASE at'[r].test = t /\ at'[r].pass = at[r].pass /\ DoneBy(r)' = D \cup {x}
    <3>1. SinceOf(r, u, y)' = kn + (p - 1) + (IF y \in D \cup {x} THEN 1 ELSE 0)
      BY <1>3, <1>4, <1>5, <1>8, <2>1, <2>3, <2>6
    <3> QED
      BY <1>1, <1>3, <1>4, <1>6, <1>8, <2>2, <2>7, <3>1
  <2>4. CASE /\ at'[r].test = t /\ at'[r].pass = at[r].pass + 1
             /\ D \cup {x} = AllOf(Tests[t].steps) /\ DoneBy(r)' = {}
    <3>1. SinceOf(r, u, y)' = kn + p
      <4>1. (at'[r].test - u) * reps = kn /\ at'[r].test \in 1 .. len /\ ~(at'[r].test < u)
        BY <1>4, <1>8, <2>1, <2>4, <2>6
      <4>2. at'[r].pass - 1 = p /\ y \notin DoneBy(r)'
        BY <1>3, <2>4
      <4> QED
        BY <1>3, <1>5, <4>1, <4>2
    <3>2. SinceOf(r, u, y) = kn + (p - 1) + (IF x = y THEN 0 ELSE 1)
      <4>1. y \in D <=> x # y
        BY <1>6, <1>8, <2>4
      <4> QED
        BY <2>2, <4>1
    <3>3. SinceOf(r, u, y)' = SinceOf(r, u, y) + (IF x = y THEN 1 ELSE 0)
      BY <1>3, <2>6, <3>1, <3>2
    <3> QED
      BY <1>1, <1>4, <1>8, <2>7, <3>3
  <2>5. CASE /\ at[r].pass = input.n /\ at'[r].test = t + 1 /\ at'[r].pass = 1
             /\ D \cup {x} = AllOf(Tests[t].steps) /\ DoneBy(r)' = {}
    <3>1. (k + 1) * reps = kn + reps /\ (t + 1) - u = k + 1
      BY <1>4, <2>1, <2>6
    <3>2. SinceOf(r, u, y)' = kn + reps
      <4>1. CASE t + 1 \in 1 .. len
        <5>1. (at'[r].test - u) * reps = kn + reps /\ ~(at'[r].test < u) /\ at'[r].test \in 1 .. len
          BY <1>4, <1>8, <2>5, <3>1, <4>1
        <5>2. at'[r].pass - 1 = 0 /\ y \notin DoneBy(r)'
          BY <2>5
        <5> QED
          BY <1>3, <1>5, <2>6, <5>1, <5>2
      <4>2. CASE t + 1 \notin 1 .. len
        <5>1. len + 1 - u = k + 1
          BY <1>4, <2>1, <4>2
        <5>2. (len + 1 - u) * reps = kn + reps
          BY <3>1, <5>1
        <5>3. ~(at'[r].test < u) /\ at'[r].test \notin 1 .. len
          BY <1>4, <1>8, <2>5, <4>2
        <5> QED
          BY <1>5, <5>2, <5>3
      <4> QED
        BY <4>1, <4>2
    <3>3. SinceOf(r, u, y) = kn + (p - 1) + (IF x = y THEN 0 ELSE 1) /\ p = reps
      <4>1. y \in D <=> x # y
        BY <1>6, <1>8, <2>5
      <4> QED
        BY <1>3, <2>2, <2>5, <4>1
    <3>4. SinceOf(r, u, y)' = SinceOf(r, u, y) + (IF x = y THEN 1 ELSE 0)
      BY <1>3, <2>6, <3>2, <3>3
    <3> QED
      BY <1>1, <1>4, <1>8, <2>7, <3>4
  <2> QED
    BY <1>2, <2>3, <2>4, <2>5
<1> QED
  BY <1>4, <1>7, <1>8

LEMMA SinceMove ==
  ASSUME SuiteTypes, NEW r \in Processes, Position(r), InTest(r), Advance(r), input' = input,
         NEW u \in DOMAIN Tests
  PROVE  /\ Since(r, u) \in Nat
         /\ Since(r, u)' = Since(r, u) + (IF at[r].test >= u /\ Step(r) = "insert" THEN 1 ELSE 0)
<1>1. \A v \in DOMAIN Tests : "insert" \in AllOf(Tests[v].steps)
  BY SuiteFacts DEF SuiteTypes, TestOK, ListOK
<1> QED
  BY <1>1, SinceOfMove DEF Since

\* What is inserted in a test: all polygons, but for a full array.
LEMMA InTreeType ==
  ASSUME input \in Inputs, NEW r \in Processes
  PROVE  /\ Polygons(r) \in Nat
         /\ \A t \in DOMAIN Tests : InTree(r, t) \in Seq(Pieces) /\ Len(InTree(r, t)) \in Nat
         /\ \A t \in DOMAIN Tests : t # 2 => InTree(r, t) = FirstOf(r) /\ Len(InTree(r, t)) = Polygons(r)
         /\ ~Program.readsInTests => \A t : InTree(r, t) = FirstOf(r) /\ Len(InTree(r, t)) = Polygons(r)
         /\ Polygons(r) <= MaxGeoms => \A t : Len(InTree(r, t)) = Polygons(r)
<1>1. FirstOf(r) \in Seq(Pieces) /\ MaxGeoms \in Nat /\ Polygons(r) = Len(FirstOf(r)) /\ Polygons(r) \in Nat
  BY InputFacts DEF Polygons
<1>2. \A t \in DOMAIN Tests : t # 2 => InTree(r, t) = FirstOf(r)
  <2> SUFFICES ASSUME NEW t \in DOMAIN Tests, t # 2 PROVE InTree(r, t) = FirstOf(r)
    OBVIOUS
  <2>1. TestOK(t) /\ (Tests[t].steps = Iterating => FALSE)
    BY SuiteFacts DEF TestOK
  <2> QED
    BY <2>1 DEF InTree, Kept, Truncates
<1>3. ~Program.readsInTests => \A t : InTree(r, t) = FirstOf(r)
  BY DEF InTree
<1>4. Polygons(r) <= MaxGeoms => \A t : InTree(r, t) = FirstOf(r)
  BY <1>1 DEF InTree, Kept
<1>5. \A t : InTree(r, t) = FirstOf(r) \/ (InTree(r, t) = SubSeq(FirstOf(r), 1, MaxGeoms) /\ Polygons(r) > MaxGeoms)
  BY <1>1 DEF InTree, Kept
<1>6. Polygons(r) > MaxGeoms => SubSeq(FirstOf(r), 1, MaxGeoms) \in Seq(Pieces)
  BY <1>1
<1>7. \A t : InTree(r, t) \in Seq(Pieces)
  BY <1>1, <1>5, <1>6
<1> QED
  BY <1>1, <1>2, <1>3, <1>4, <1>7

-----------------------------------------------------------------------------
\* What a step must do ------------------------------------------------------

\* The input never changes.
LEMMA InputFixed ==
  ASSUME input' = input
  PROVE  /\ Program' = Program /\ Tests' = Tests /\ Processes' = Processes /\ SecondOf' = SecondOf
         /\ FullSuite' = FullSuite
         /\ \A q : FirstOf(q)' = FirstOf(q) /\ Polygons(q)' = Polygons(q) /\ Pairs(q)' = Pairs(q)
         /\ \A q, t : InTree(q, t)' = InTree(q, t)
         /\ \A p : TestFor(p)' = TestFor(p)
<1>1. Program' = Program /\ Processes' = Processes
  BY DEF Program, Processes
<1>2. Tests' = Tests
  BY <1>1 DEF Tests
<1>3. FullSuite' = FullSuite
  BY DEF FullSuite
<1>4. \A line : GEOSGeomFromWKT(line)' = GEOSGeomFromWKT(line)
  BY <1>1 DEF GEOSGeomFromWKT
<1>5. \A lines : Parsed(lines)' = Parsed(lines)
  BY <1>4 DEF Parsed
<1>6. \A lines : AcceptedSecond(lines)' = AcceptedSecond(lines)
  BY <1>1 DEF AcceptedSecond, Accepted
<1>7. SecondOf' = SecondOf
  BY <1>5, <1>6 DEF SecondOf
<1>8. \A q : FirstOf(q)' = FirstOf(q)
  BY <1>5 DEF FirstOf
<1>9. \A q : Polygons(q)' = Polygons(q)
  BY <1>8 DEF Polygons
<1>10. \A q : Pairs(q)' = Pairs(q)
  BY <1>1, <1>7, <1>9 DEF Pairs
<1>11. \A test : Truncates(test)' = Truncates(test)
  BY DEF Truncates
<1>12. \A polygons, test : Kept(polygons, test)' = Kept(polygons, test)
  BY <1>11 DEF Kept
<1>13. \A q, t : InTree(q, t)' = InTree(q, t)
  BY <1>1, <1>2, <1>8, <1>12 DEF InTree
<1>14. \A p : TestFor(p)' = TestFor(p)
  BY <1>3 DEF TestFor
<1> QED
  BY <1>1, <1>2, <1>3, <1>7, <1>8, <1>9, <1>10, <1>13, <1>14

\* A rank is as it was while another one moves.
LEMMA OtherRank ==
  ASSUME input' = input, NEW q, RankOK(q), at'[q] = at[q], geos'[q] = geos[q], first'[q] = first[q],
         second'[q] = second[q], leaked'[q] = leaked[q], element_count'[q] = element_count[q],
         applied'[q] = applied[q]
  PROVE  RankOK(q)'
<1>1. /\ InTest(q)' <=> InTest(q)
      /\ AtEnd(q)' <=> AtEnd(q)
      /\ Ended(q)' <=> Ended(q)
      /\ TestOf(q)' = TestOf(q)
  BY InputFixed DEF InTest, AtEnd, Ended, TestOf
<1>2. DoneBy(q)' = DoneBy(q)
  BY <1>1 DEF DoneBy
<1>3. \A t, x : Times(q, t, x)' = Times(q, t, x) /\ Since(q, t)' = Since(q, t)
  BY <1>1, <1>2, InputFixed DEF Times, Since, SinceOf
<1>4. Position(q)'
  BY <1>1, InputFixed DEF RankOK, Position
<1>5. \A t, D : Holding(q, t, D) => Holding(q, t, D)'
  BY InputFixed DEF Holding
<1>6. Untouched(q) => Untouched(q)'
  BY InputFixed DEF Untouched
<1>7. Objects(q)'
  BY <1>1, <1>2, <1>5, <1>6, InputFixed DEF RankOK, Objects
<1>8. Leaks(q)' /\ Counts(q)' /\ Fit(q)'
  BY <1>1, <1>3, InputFixed DEF RankOK, Leaks, Counts, Fit
<1> QED
  BY <1>4, <1>7, <1>8 DEF RankOK

\* What step x of test t leaks, counts and evaluates.
Counted(r, t, x) ==
  /\ leaked'[r] = IF x = "insert"
                    THEN leaked[r] + Len(InTree(r, t)) * (IF Tests[t].steps = Creating THEN 2 ELSE 1)
                    ELSE leaked[r]
  /\ element_count'[r] = IF x = "iterate" THEN element_count[r] + Len(InTree(r, t)) ELSE element_count[r]
  /\ \A p \in Predicates :
       applied'[r][p] = IF x = "visit" /\ Tests[t].predicate = p THEN applied[r][p] + Pairs(r) ELSE applied[r][p]
  /\ x = "insert" /\ Program.readsInTests /\ t > 2 => Polygons(r) <= MaxGeoms

\* A step of a test that changes what its rank holds the way the list of steps
\* says, and counts once.
LEMMA StepKeeps ==
  ASSUME SuiteTypes, NEW r \in Processes, RankOK(r), InTest(r), Advance(r), input' = input,
         NEW t, t = at[r].test, NEW x, x = Step(r),
         NEW D, D = DoneBy(r), NEW E, E = D \cup {x}, Holding(r, t, E)', Counted(r, t, x)
  PROVE  RankOK(r)'
<1> DEFINE steps == Tests[t].steps
<1>0. /\ leaked'[r] = IF x = "insert"
                        THEN leaked[r] + Len(InTree(r, t)) * (IF Tests[t].steps = Creating THEN 2 ELSE 1)
                        ELSE leaked[r]
      /\ element_count'[r] = IF x = "iterate" THEN element_count[r] + Len(InTree(r, t)) ELSE element_count[r]
      /\ \A p \in Predicates :
           applied'[r][p] = IF x = "visit" /\ Tests[t].predicate = p THEN applied[r][p] + Pairs(r)
                                                                     ELSE applied[r][p]
      /\ (x = "insert" /\ Program.readsInTests /\ t > 2 => Polygons(r) <= MaxGeoms)
  BY DEF Counted
<1> USE <1>0
<1>1. /\ Position(r)' /\ t \in DOMAIN Tests /\ TestOK(t) /\ x \in AllOf(steps)
      /\ Orderly(steps, x, D) /\ Clean(steps, AllOf(steps))
      /\ \/ InTest(r)' /\ at'[r].test = t /\ at'[r].pass = at[r].pass /\ DoneBy(r)' = E
         \/ /\ at[r].pass < input.n /\ InTest(r)' /\ at'[r].test = t /\ at'[r].pass = at[r].pass + 1
            /\ E = AllOf(steps) /\ DoneBy(r)' = {}
         \/ /\ at[r].pass = input.n /\ at'[r].test = t + 1 /\ at'[r].pass = 1
            /\ E = AllOf(steps) /\ DoneBy(r)' = {}
  BY Moving DEF RankOK
<1>2. PICK len \in {1, 12} : /\ len = Len(Tests) /\ DOMAIN Tests = 1 .. len /\ t \in 1 .. len
                             /\ FullSuite <=> len = 12
  BY <1>1, SuiteFacts DEF SuiteTypes
<1> HIDE DEF steps
<1>3. /\ InTest(r)' <=> at'[r].test \in 1 .. len
      /\ AtEnd(r)' <=> at'[r].test = len + 1
      /\ Ended(r)' <=> at'[r].test = len + 2
      /\ Ended(r) <=> t = len + 2
  BY <1>2, InputFixed DEF InTest, AtEnd, Ended, Tests
<1>4. Objects(r)'
  <2>1. ASSUME E = AllOf(steps), NEW u PROVE Holding(r, u, {})'
    <3>1. /\ ~HasTree(E) /\ ~HasGEOS(E) /\ ~HasSecond(E)
          /\ Program.readsInTests /\ HasFirst(E) => steps = Creating
      BY <1>1, <2>1 DEF Clean, TestOK, steps
    <3>2. ~HasTree({}) /\ ~HasGEOS({}) /\ ~HasSecond({}) /\ ~HasFirst({})
      BY DEF HasTree, HasGEOS, HasSecond, HasFirst
    <3>3. ~Program.readsInTests => InTree(r, u) = InTree(r, t)
      BY DEF InTree
    <3>4. /\ geos'[r].handle <=> Program.handle
          /\ geos'[r].tree = NoTree
          /\ second'[r] = IF ~Program.readsInTests THEN SecondOf ELSE <<>>
      BY <3>1, InputFixed DEF Holding
    <3>5. first'[r] = IF ~Program.readsInTests THEN InTree(r, t) ELSE <<>>
      BY <3>1, InputFixed DEF Holding, steps
    <3> QED
      BY <3>2, <3>3, <3>4, <3>5, InputFixed DEF Holding
  <2>2. CASE InTest(r)' /\ at'[r].test = t /\ DoneBy(r)' = E
    <3>1. Holding(r, at[r].test, DoneBy(r))'
      BY <2>2 DEF Holding
    <3> QED
      BY <1>2, <1>3, <2>2, <3>1 DEF Objects
  <2>3. CASE InTest(r)' /\ at'[r].test = t /\ E = AllOf(steps) /\ DoneBy(r)' = {}
    <3>1. Holding(r, at[r].test, DoneBy(r))'
      BY <2>1, <2>3 DEF Holding
    <3> QED
      BY <1>2, <1>3, <2>3, <3>1 DEF Objects
  <2>4. CASE at'[r].test = t + 1 /\ E = AllOf(steps) /\ DoneBy(r)' = {}
    <3>1. Holding(r, at[r].test, DoneBy(r))' /\ Holding(r, 1, {})'
      BY <2>1, <2>4 DEF Holding
    <3> QED
      BY <1>2, <1>3, <2>4, <3>1 DEF Objects
  <2> QED
    BY <1>1, <2>2, <2>3, <2>4
<1>5. Leaks(r)'
  <2>1. PICK P \in Nat : P = Polygons(r)
    BY InputFacts DEF SuiteTypes, Polygons
  <2>2. CASE Program.readsInTests
    <3>1. /\ 1 \in DOMAIN Tests /\ 2 \in DOMAIN Tests /\ 3 \in DOMAIN Tests /\ FullSuite
          /\ "insert" \in AllOf(Tests[1].steps) /\ "insert" \in AllOf(Tests[2].steps)
          /\ steps = Creating <=> t = 1
      <4>1. steps = Creating <=> t = 1
        BY <1>1, <2>2 DEF TestOK, steps
      <4> QED
        BY <2>2, <4>1, SuiteLists DEF SuiteTypes
    <3>2. PICK K \in Nat : K = Len(InTree(r, 2))
      BY <3>1, InTreeType DEF SuiteTypes
    <3>3. PICK a \in Nat, b \in Nat, c \in Nat :
            a = Times(r, 1, "insert") /\ b = Times(r, 2, "insert") /\ c = Since(r, 3)
      BY <3>1, TimesMove, SinceMove DEF RankOK
    <3>4. /\ Times(r, 1, "insert")' = a + (IF t = 1 /\ x = "insert" THEN 1 ELSE 0)
          /\ Times(r, 2, "insert")' = b + (IF t = 2 /\ x = "insert" THEN 1 ELSE 0)
          /\ Since(r, 3)' = c + (IF t >= 3 /\ x = "insert" THEN 1 ELSE 0)
      BY <3>1, <3>3, TimesMove, SinceMove DEF RankOK
    <3>5. leaked[r] = 2 * P * a + K * b + P * c
      BY <2>1, <2>2, <3>2, <3>3 DEF RankOK, Leaks
    <3>6. Leaks(r)' <=> leaked'[r] = 2 * P * Times(r, 1, "insert")' + K * Times(r, 2, "insert")' + P * Since(r, 3)'
      BY <2>1, <2>2, <3>2, InputFixed DEF Leaks
    <3>7. CASE x # "insert"
      <4>1. leaked'[r] = leaked[r]
        BY <3>5, <3>7
      <4> QED
        BY <3>4, <3>5, <3>6, <3>7, <4>1
    <3>8. CASE x = "insert" /\ t = 1
      <4>1. leaked'[r] = (2 * P * a + K * b + P * c) + P * 2
        <5>1. leaked'[r] = leaked[r] + Len(InTree(r, t)) * 2
          BY <3>1, <3>8 DEF steps
        <5>2. Len(InTree(r, t)) = P
          BY <1>1, <2>1, <3>8, InTreeType DEF SuiteTypes
        <5> QED
          BY <3>5, <5>1, <5>2
      <4>2. 2 * P * (a + 1) = 2 * P * a + 2 * P
        OBVIOUS
      <4>3. Times(r, 1, "insert")' = a + 1 /\ Times(r, 2, "insert")' = b /\ Since(r, 3)' = c
        BY <3>4, <3>8
      <4>4. (2 * P * a + K * b + P * c) + P * 2 = 2 * P * (a + 1) + K * b + P * c
        BY <4>2
      <4> QED
        BY <3>6, <4>1, <4>3, <4>4
    <3>9. CASE x = "insert" /\ t = 2
      <4>1. leaked'[r] = (2 * P * a + K * b + P * c) + K
        <5>1. leaked'[r] = leaked[r] + Len(InTree(r, t)) * 1
          BY <3>1, <3>9 DEF steps
        <5>2. Len(InTree(r, t)) = K
          BY <3>2, <3>9
        <5> QED
          BY <3>5, <5>1, <5>2
      <4>2. K * (b + 1) = K * b + K
        OBVIOUS
      <4>3. Times(r, 1, "insert")' = a /\ Times(r, 2, "insert")' = b + 1 /\ Since(r, 3)' = c
        BY <3>4, <3>9
      <4>4. (2 * P * a + K * b + P * c) + K = 2 * P * a + K * (b + 1) + P * c
        BY <4>2
      <4> QED
        BY <3>6, <4>1, <4>3, <4>4
    <3>10. CASE x = "insert" /\ t > 2
      <4>1. leaked'[r] = (2 * P * a + K * b + P * c) + P
        <5>1. leaked'[r] = leaked[r] + Len(InTree(r, t)) * 1
          BY <1>2, <3>1, <3>10 DEF steps
        <5>2. Len(InTree(r, t)) = P
          BY <1>1, <1>2, <2>1, <3>10, InTreeType DEF SuiteTypes
        <5> QED
          BY <3>5, <5>1, <5>2
      <4>2. P * (c + 1) = P * c + P
        OBVIOUS
      <4>3. Times(r, 1, "insert")' = a /\ Times(r, 2, "insert")' = b /\ Since(r, 3)' = c + 1
        BY <1>2, <3>4, <3>10
      <4>4. (2 * P * a + K * b + P * c) + P = 2 * P * a + K * b + P * (c + 1)
        BY <4>2
      <4> QED
        BY <3>6, <4>1, <4>3, <4>4
    <3> QED
      BY <1>2, <3>7, <3>8, <3>9, <3>10
  <2>3. CASE ~Program.readsInTests
    <3>1. PICK c \in Nat : c = Since(r, 1)
      BY <1>2, SinceMove DEF RankOK
    <3>2. Since(r, 1)' = c + (IF x = "insert" THEN 1 ELSE 0)
      BY <1>2, <3>1, SinceMove DEF RankOK
    <3>3. leaked[r] = P * c
      <4>1. ~Ended(r)
        BY <1>2, <1>3
      <4>2. Leaks(r)
        BY <2>1 DEF RankOK
      <4>3. leaked[r] = Polygons(r) * Since(r, 1) + 0
        BY <2>3, <4>1, <4>2 DEF Leaks
      <4>4. leaked[r] = P * c + 0
        BY <2>1, <3>1, <4>3
      <4> QED
        BY ONLY <4>4, P \in Nat, c \in Nat
    <3>4. ~Ended(r)'
      BY <1>1, <1>2, <1>3
    <3>5. P * Since(r, 1)' \in Nat /\ (Leaks(r)' <=> leaked'[r] = P * Since(r, 1)')
      <4>1. PICK e \in Nat : e = Since(r, 1)'
        BY <3>2
      <4>2. Leaks(r)' <=> leaked'[r] = P * e + 0
        BY <2>1, <2>3, <3>4, <4>1, InputFixed DEF Leaks
      <4> QED
        BY <4>1, <4>2
    <3>6. leaked'[r] = P * c + (IF x = "insert" THEN P ELSE 0)
      BY <1>1, <2>1, <2>3, <3>3, InTreeType DEF SuiteTypes, TestOK, steps
    <3>7. P * (c + 1) = P * c + P
      OBVIOUS
    <3> QED
      BY <3>2, <3>5, <3>6, <3>7
  <2> QED
    BY <2>2, <2>3
<1>6. Counts(r)'
  <2>1. element_count'[r] = IF FullSuite THEN Times(r, 2, "iterate")' * Len(InTree(r, 2)) ELSE 0
    <3>1. CASE ~FullSuite
      <4>1. x # "iterate"
        BY <1>1, <3>1, SuiteLists DEF SuiteTypes, steps
      <4> QED
        BY <3>1, <4>1 DEF RankOK, Counts
    <3>2. CASE FullSuite
      <4>1. /\ 2 \in DOMAIN Tests /\ "iterate" \in AllOf(Tests[2].steps)
            /\ x = "iterate" => t = 2
        BY <1>1, <3>2, SuiteLists DEF SuiteTypes, steps
      <4>2. PICK c \in Nat, K \in Nat : c = Times(r, 2, "iterate") /\ K = Len(InTree(r, 2))
        BY <4>1, TimesMove, InTreeType DEF RankOK, SuiteTypes
      <4>3. Times(r, 2, "iterate")' = c + (IF x = "iterate" THEN 1 ELSE 0)
        BY <4>1, <4>2, TimesMove DEF RankOK
      <4>4. element_count[r] = c * K
        BY <3>2, <4>2 DEF RankOK, Counts
      <4>5. element_count'[r] = c * K + (IF x = "iterate" THEN K ELSE 0)
        BY <4>1, <4>2, <4>4
      <4>6. (c + 1) * K = c * K + K
        OBVIOUS
      <4> QED
        BY <3>2, <4>2, <4>3, <4>5, <4>6
    <3> QED
      BY <3>1, <3>2
  <2>2. ASSUME NEW p \in Predicates
        PROVE  applied'[r][p] = IF TestFor(p) = 0 THEN 0 ELSE Times(r, TestFor(p), "visit")' * Pairs(r)
    <3>1. Tests[t].predicate = p <=> t = TestFor(p)
      BY <1>1 DEF TestOK
    <3>2. CASE TestFor(p) = 0
      BY <1>2, <3>1, <3>2 DEF RankOK, Counts
    <3>3. CASE TestFor(p) # 0
      <4>1. TestFor(p) \in DOMAIN Tests /\ "visit" \in AllOf(Tests[TestFor(p)].steps)
        BY <3>3, SuiteFacts DEF SuiteTypes, TestOK, ListOK
      <4>2. PICK c \in Nat, K \in Nat : c = Times(r, TestFor(p), "visit") /\ K = Pairs(r)
        <5>1. Pairs(r) \in Nat
          BY InputFacts DEF Pairs, Polygons, SuiteTypes
        <5> QED
          BY <4>1, <5>1, TimesMove DEF RankOK
      <4>3. Times(r, TestFor(p), "visit")' = c + (IF t = TestFor(p) /\ x = "visit" THEN 1 ELSE 0)
        <5>1. PICK u \in DOMAIN Tests : u = TestFor(p)
          BY <4>1
        <5>2. Times(r, u, "visit")' = Times(r, u, "visit") + (IF u = t /\ x = "visit" THEN 1 ELSE 0)
          BY <4>1, <5>1, TimesMove DEF RankOK
        <5>3. Times(r, TestFor(p), "visit")' = Times(r, u, "visit")'
          BY <5>1, InputFixed DEF Times
        <5> QED
          BY <4>2, <5>1, <5>2, <5>3
      <4>4. applied[r][p] = c * K
        BY <3>3, <4>2 DEF RankOK, Counts
      <4>5. applied'[r][p] = c * K + (IF t = TestFor(p) /\ x = "visit" THEN K ELSE 0)
        BY <3>1, <4>2, <4>4
      <4>6. (c + 1) * K = c * K + K
        OBVIOUS
      <4> QED
        BY <3>3, <4>2, <4>3, <4>5, <4>6
    <3> QED
      BY <3>2, <3>3
  <2> QED
    BY <2>1, <2>2, InputFixed DEF Counts
<1>7. Fit(r)'
  <2>1. CASE ~Program.readsInTests
    BY <2>1, InputFixed DEF Fit
  <2>2. CASE Program.readsInTests
    <3>1. 3 \in DOMAIN Tests /\ "insert" \in AllOf(Tests[3].steps)
      BY <1>2, <2>2, SuiteFacts DEF SuiteTypes, TestOK, ListOK
    <3>2. PICK c \in Nat : c = Times(r, 3, "insert")
      BY <3>1, TimesMove DEF RankOK
    <3>3. Times(r, 3, "insert")' = c + (IF t = 3 /\ x = "insert" THEN 1 ELSE 0)
      BY <3>1, <3>2, TimesMove DEF RankOK
    <3>4. c > 0 => Polygons(r) <= MaxGeoms
      BY <2>2, <3>2 DEF RankOK, Fit
    <3> QED
      BY <2>2, <3>3, <3>4, InputFixed DEF Fit
  <2> QED
    BY <2>1, <2>2
<1> QED
  BY <1>1, <1>4, <1>5, <1>6, <1>7 DEF RankOK

-----------------------------------------------------------------------------
\* The steps ----------------------------------------------------------------

\* Where a rank is that takes step x of a test, what it has, and what is next.
LEMMA InStep ==
  ASSUME SuiteSound, NEW r \in Processes, InTest(r), NEW t, t = at[r].test, NEW D, D = DoneBy(r),
         NEW x, x = Step(r)
  PROVE  /\ t \in DOMAIN Tests /\ TestOK(t) /\ TestOf(r) = Tests[t] /\ Holding(r, t, D)
         /\ Orderly(Tests[t].steps, x, D) /\ x \in AllOf(Tests[t].steps)
         /\ InTree(r, t) \in Seq(Pieces) /\ ~Ended(r)
<1> DEFINE steps == Tests[t].steps
<1>1. /\ t \in DOMAIN Tests /\ TestOf(r) = Tests[t] /\ at[r].step \in 1 .. Len(steps)
      /\ D = Ran(steps, at[r].step) /\ x = steps[at[r].step] /\ input \in Inputs
  BY DEF SuiteSound, SuiteTypes, RankOK, Position, InTest, TestOf, Tests, DoneBy, Step
<1>2. TestOK(t) /\ DOMAIN Tests = 1 .. Len(Tests) /\ Len(Tests) \in Nat
  BY <1>1, SuiteFacts
<1>3. TidySteps(steps) /\ DOMAIN steps = 1 .. Len(steps)
  BY <1>2 DEF TestOK, ListOK
<1>4. Orderly(steps, x, D) /\ x \in AllOf(steps)
  BY <1>1, <1>3 DEF TidySteps, AllOf
<1>5. Holding(r, t, D)
  BY DEF SuiteSound, RankOK, Objects
<1>6. ~Ended(r)
  <2>1. PICK len \in Nat : len = Len(Tests) /\ t \in 1 .. len
    BY <1>1, <1>2
  <2>2. Ended(r) <=> t = len + 2
    BY <2>1 DEF Ended, Tests
  <2> QED
    BY <2>1, <2>2
<1> QED
  BY <1>1, <1>2, <1>4, <1>5, <1>6, InTreeType

\* What keeps a rank from going on.
LEMMA FaultsAre ==
  ASSUME NEW r, NEW x, x = Step(r)
  PROVE  /\ "misuse" \in Faults(r) =>
              \/ x \in {"insert", "iterate", "visit", "destroyTree"} /\ geos[r].tree = NoTree
              \/ x = "visit" /\ geos[r].tree # first[r]
              \/ x # "initGEOS" /\ Program.readsInTests /\ ~geos[r].handle
         /\ Faults(r) = {} /\ x = "insert" => ~Overflows(r, FirstOf(r), 1)
<1>1. Faults(r) = {} => "array" \notin Faults(r)
  OBVIOUS
<1> QED
  BY <1>1 DEF Faults

\* Nothing is used before it is made or after it is released.
LEMMA NoMisuse ==
  ASSUME SuiteSound, NEW r \in Processes, InTest(r)
  PROVE  "misuse" \notin Faults(r)
<1>1. PICK t, D, x : t = at[r].test /\ D = DoneBy(r) /\ x = Step(r)
  OBVIOUS
<1>2. /\ TestOK(t) /\ TestOf(r) = Tests[t] /\ Holding(r, t, D) /\ Orderly(Tests[t].steps, x, D)
      /\ InTree(r, t) \in Seq(Pieces)
  BY <1>1, InStep
<1>3. NoTree \notin Seq(Pieces) /\ <<>> # NoTree
  <2>1. NoTree[1] = "no tree" /\ Len(NoTree) = 1
    BY DEF NoTree
  <2>2. "no tree" \notin Pieces
    BY DEF Pieces
  <2>3. \A s \in Seq(Pieces) : Len(s) = 1 => s[1] \in Pieces
    OBVIOUS
  <2>4. NoTree \notin Seq(Pieces)
    BY <2>1, <2>2, <2>3
  <2>5. Len(<<>>) = 0
    OBVIOUS
  <2>6. <<>> # NoTree
    BY <2>5 DEF NoTree
  <2> QED
    BY <2>4, <2>6
<1>4. x \in {"insert", "iterate", "visit", "destroyTree"} => geos[r].tree # NoTree
  BY <1>2, <1>3 DEF Orderly, Holding
<1>5. x = "visit" => geos[r].tree = first[r]
  BY <1>2 DEF Orderly, Holding, HasTree, HasFirst
<1>6. x # "initGEOS" /\ Program.readsInTests => geos[r].handle
  BY <1>2 DEF Orderly, Holding, TestOK
<1> QED
  BY <1>1, <1>4, <1>5, <1>6, FaultsAre

\* The variables of the others, and all that has one value for all, are as before.
Elsewhere(r) ==
  /\ input' = input /\ reported' = reported /\ died' # "misuse"
  /\ DOMAIN geos' = Processes /\ DOMAIN geos'[r] = {"handle", "tree"}
  /\ DOMAIN first' = Processes /\ DOMAIN second' = Processes /\ DOMAIN leaked' = Processes
  /\ DOMAIN element_count' = Processes
  /\ DOMAIN applied' = Processes /\ DOMAIN applied'[r] = Predicates
  /\ \A q \in Processes : q # r =>
       /\ geos'[q] = geos[q] /\ first'[q] = first[q] /\ second'[q] = second[q]
       /\ leaked'[q] = leaked[q] /\ element_count'[q] = element_count[q] /\ applied'[q] = applied[q]

\* All is well if it is with the rank that moves, and the others do not.
LEMMA OneMoves ==
  ASSUME SuiteSound, NEW r \in Processes, RankOK(r)', Elsewhere(r), ~Ended(r),
         at' \in [Processes -> Positions], \A q \in Processes : q # r => at'[q] = at[q]
  PROVE  SuiteSound'
<1>1. ~reported
  BY DEF SuiteSound
<1>2. ASSUME NEW q \in Processes PROVE RankOK(q)'
  <2>1. CASE q = r
    BY <2>1
  <2>2. CASE q # r
    BY <2>2, OtherRank DEF SuiteSound, Elsewhere
  <2> QED
    BY <2>1, <2>2
<1>3. \A q \in Processes : DOMAIN geos'[q] = {"handle", "tree"} /\ DOMAIN applied'[q] = Predicates
  BY DEF Elsewhere, SuiteSound, SuiteTypes
<1>4. Processes' = Processes
  BY InputFixed DEF Elsewhere
<1>5. SuiteTypes'
  BY <1>3, <1>4 DEF Elsewhere, SuiteSound, SuiteTypes
<1> QED
  BY <1>1, <1>2, <1>4, <1>5 DEF SuiteSound, Elsewhere

\* A step keeps all well.
LEMMA StepSound ==
  ASSUME SuiteSound, NEW r \in Processes, InTest(r), Advance(r), Elsewhere(r),
         NEW t, t = at[r].test, NEW x, x = Step(r),
         NEW D, D = DoneBy(r), NEW E, E = D \cup {x}, Holding(r, t, E)', Counted(r, t, x)
  PROVE  SuiteSound'
<1>1. SuiteTypes /\ RankOK(r) /\ input' = input
  BY DEF SuiteSound, Elsewhere
<1>2. RankOK(r)'
  BY <1>1, StepKeeps
<1>3. at' \in [Processes -> Positions] /\ \A q \in Processes : q # r => at'[q] = at[q]
  BY <1>1, Advancing DEF RankOK
<1>4. ~Ended(r)
  BY InStep
<1> QED
  BY <1>2, <1>3, <1>4, OneMoves

LEMMA InitGEOSSound == ASSUME SuiteSound, NEW r \in Processes, initGEOS(r) PROVE SuiteSound'
<1>1. InTest(r) /\ Step(r) = "initGEOS" /\ Advance(r)
  BY DEF initGEOS, Runs, Step
<1>2. PICK t, D, E : t = at[r].test /\ D = DoneBy(r) /\ E = D \cup {"initGEOS"}
  OBVIOUS
<1>3. TestOK(t) /\ Holding(r, t, D) /\ Orderly(Tests[t].steps, "initGEOS", D)
  BY <1>1, <1>2, InStep
<1>4. /\ geos'[r].handle = TRUE /\ geos'[r].tree = geos[r].tree /\ first' = first /\ second' = second
      /\ leaked' = leaked /\ element_count' = element_count /\ applied' = applied /\ input' = input
  BY DEF initGEOS, SuiteSound, SuiteTypes, polygonVars, countVars
<1>5. Elsewhere(r)
  BY <1>4 DEF initGEOS, Runs, SuiteSound, SuiteTypes, Elsewhere
<1>6. Holding(r, t, E)'
  BY <1>2, <1>3, <1>4, InputFixed DEF Holding, HasTree, HasGEOS, HasFirst, HasSecond, Orderly
<1>7. Counted(r, t, "initGEOS")
  BY <1>4 DEF Counted
<1> QED
  BY <1>1, <1>2, <1>5, <1>6, <1>7, StepSound

LEMMA CreateSound == ASSUME SuiteSound, NEW r \in Processes, Create(r) PROVE SuiteSound'
<1>1. InTest(r) /\ Step(r) = "create" /\ Advance(r)
  BY DEF Create, Runs, Step
<1>2. PICK t, D, E : t = at[r].test /\ D = DoneBy(r) /\ E = D \cup {"create"}
  OBVIOUS
<1>3. TestOK(t) /\ Holding(r, t, D) /\ Orderly(Tests[t].steps, "create", D)
  BY <1>1, <1>2, InStep
<1>4. /\ geos'[r].handle = geos[r].handle /\ geos'[r].tree = <<>>
      /\ first' = first /\ second' = second /\ leaked' = leaked /\ element_count' = element_count /\ applied' = applied /\ input' = input
  BY DEF Create, SuiteSound, SuiteTypes, polygonVars, countVars
<1>5. Elsewhere(r)
  BY <1>4 DEF Create, Runs, SuiteSound, SuiteTypes, Elsewhere
<1>6. Holding(r, t, E)'
  BY <1>2, <1>3, <1>4, InputFixed DEF Holding, HasTree, HasGEOS, HasFirst, HasSecond, Orderly
<1>7. Counted(r, t, "create")
  BY <1>4 DEF Counted
<1> QED
  BY <1>1, <1>2, <1>5, <1>6, <1>7, StepSound

LEMMA IterateSound == ASSUME SuiteSound, NEW r \in Processes, Iterate(r) PROVE SuiteSound'
<1>1. InTest(r) /\ Step(r) = "iterate" /\ Advance(r)
  BY DEF Iterate, Runs, Step
<1>2. PICK t, D, E : t = at[r].test /\ D = DoneBy(r) /\ E = D \cup {"iterate"}
  OBVIOUS
<1>3. TestOK(t) /\ Holding(r, t, D) /\ Orderly(Tests[t].steps, "iterate", D)
  BY <1>1, <1>2, InStep
<1>4. /\ element_count'[r] = element_count[r] + Len(geos[r].tree)
      /\ geos' = geos /\ first' = first /\ second' = second /\ leaked' = leaked /\ applied' = applied /\ input' = input
  BY DEF Iterate, SuiteSound, SuiteTypes, polygonVars, countVars
<1>5. Elsewhere(r)
  BY <1>4 DEF Iterate, Runs, SuiteSound, SuiteTypes, Elsewhere
<1>6. Holding(r, t, E)'
  BY <1>2, <1>3, <1>4, InputFixed DEF Holding, HasTree, HasGEOS, HasFirst, HasSecond, Orderly
<1>7. Counted(r, t, "iterate")
  BY <1>3, <1>4 DEF Counted, Holding, Orderly
<1> QED
  BY <1>1, <1>2, <1>5, <1>6, <1>7, StepSound

LEMMA ReadSound == ASSUME SuiteSound, NEW r \in Processes, Read(r) PROVE SuiteSound'
<1>1. InTest(r) /\ Step(r) = "read" /\ Advance(r)
  BY DEF Read, Runs, Step
<1>2. PICK t, D, E : t = at[r].test /\ D = DoneBy(r) /\ E = D \cup {"read"}
  OBVIOUS
<1>3. TestOK(t) /\ Holding(r, t, D) /\ Orderly(Tests[t].steps, "read", D)
  BY <1>1, <1>2, InStep
<1>4. /\ second'[r] = SecondOf
      /\ geos' = geos /\ first' = first /\ leaked' = leaked /\ element_count' = element_count /\ applied' = applied /\ input' = input
  BY DEF Read, SuiteSound, SuiteTypes, polygonVars, countVars
<1>5. Elsewhere(r)
  BY <1>4 DEF Read, Runs, SuiteSound, SuiteTypes, Elsewhere
<1>6. Holding(r, t, E)'
  BY <1>2, <1>3, <1>4, InputFixed DEF Holding, HasTree, HasGEOS, HasFirst, HasSecond, Orderly
<1>7. Counted(r, t, "read")
  BY <1>4 DEF Counted
<1> QED
  BY <1>1, <1>2, <1>5, <1>6, <1>7, StepSound

LEMMA DestroySecondSound == ASSUME SuiteSound, NEW r \in Processes, DestroySecond(r) PROVE SuiteSound'
<1>1. InTest(r) /\ Step(r) = "destroySecond" /\ Advance(r)
  BY DEF DestroySecond, Runs, Step
<1>2. PICK t, D, E : t = at[r].test /\ D = DoneBy(r) /\ E = D \cup {"destroySecond"}
  OBVIOUS
<1>3. TestOK(t) /\ Holding(r, t, D) /\ Orderly(Tests[t].steps, "destroySecond", D)
  BY <1>1, <1>2, InStep
<1>4. /\ second'[r] = <<>>
      /\ geos' = geos /\ first' = first /\ leaked' = leaked /\ element_count' = element_count /\ applied' = applied /\ input' = input
  BY DEF DestroySecond, SuiteSound, SuiteTypes, polygonVars, countVars
<1>5. Elsewhere(r)
  BY <1>4 DEF DestroySecond, Runs, SuiteSound, SuiteTypes, Elsewhere
<1>6. Program.readsInTests /\ ~Program.handle
  BY <1>3, InputFacts DEF TestOK, Orderly, SuiteSound, SuiteTypes, ProgramOK
<1>7. Holding(r, t, E)'
  BY <1>2, <1>3, <1>4, <1>6, InputFixed DEF Holding, HasTree, HasGEOS, HasFirst, HasSecond, Orderly
<1>8. Counted(r, t, "destroySecond")
  BY <1>4 DEF Counted
<1> QED
  BY <1>1, <1>2, <1>5, <1>7, <1>8, StepSound

LEMMA DestroyTreeSound == ASSUME SuiteSound, NEW r \in Processes, DestroyTree(r) PROVE SuiteSound'
<1>1. InTest(r) /\ Step(r) = "destroyTree" /\ Advance(r)
  BY DEF DestroyTree, Runs, Step
<1>2. PICK t, D, E : t = at[r].test /\ D = DoneBy(r) /\ E = D \cup {"destroyTree"}
  OBVIOUS
<1>3. TestOK(t) /\ Holding(r, t, D) /\ Orderly(Tests[t].steps, "destroyTree", D)
  BY <1>1, <1>2, InStep
<1>4. /\ geos'[r].handle = geos[r].handle /\ geos'[r].tree = NoTree
      /\ first' = first /\ second' = second /\ leaked' = leaked /\ element_count' = element_count /\ applied' = applied /\ input' = input
  BY DEF DestroyTree, SuiteSound, SuiteTypes, polygonVars, countVars
<1>5. Elsewhere(r)
  BY <1>4 DEF DestroyTree, Runs, SuiteSound, SuiteTypes, Elsewhere
<1>6. Holding(r, t, E)'
  BY <1>2, <1>3, <1>4, InputFixed DEF Holding, HasTree, HasGEOS, HasFirst, HasSecond, Orderly
<1>7. Counted(r, t, "destroyTree")
  BY <1>4 DEF Counted
<1> QED
  BY <1>1, <1>2, <1>5, <1>6, <1>7, StepSound

LEMMA DestroyFirstSound == ASSUME SuiteSound, NEW r \in Processes, DestroyFirst(r) PROVE SuiteSound'
<1>1. InTest(r) /\ Step(r) = "destroyFirst" /\ Advance(r)
  BY DEF DestroyFirst, Runs, Step
<1>2. PICK t, D, E : t = at[r].test /\ D = DoneBy(r) /\ E = D \cup {"destroyFirst"}
  OBVIOUS
<1>3. TestOK(t) /\ Holding(r, t, D) /\ Orderly(Tests[t].steps, "destroyFirst", D)
  BY <1>1, <1>2, InStep
<1>4. /\ first'[r] = <<>>
      /\ geos' = geos /\ second' = second /\ leaked' = leaked /\ element_count' = element_count /\ applied' = applied /\ input' = input
  BY DEF DestroyFirst, SuiteSound, SuiteTypes, polygonVars, countVars
<1>5. Elsewhere(r)
  BY <1>4 DEF DestroyFirst, Runs, SuiteSound, SuiteTypes, Elsewhere
<1>6. Program.readsInTests /\ ~Program.handle
  BY <1>3, InputFacts DEF TestOK, Orderly, SuiteSound, SuiteTypes, ProgramOK
<1>7. Holding(r, t, E)'
  BY <1>2, <1>3, <1>4, <1>6, InputFixed DEF Holding, HasTree, HasGEOS, HasFirst, HasSecond, Orderly
<1>8. Counted(r, t, "destroyFirst")
  BY <1>4 DEF Counted
<1> QED
  BY <1>1, <1>2, <1>5, <1>7, <1>8, StepSound

LEMMA FinishGEOSSound == ASSUME SuiteSound, NEW r \in Processes, finishGEOS(r) PROVE SuiteSound'
<1>1. InTest(r) /\ Step(r) = "finishGEOS" /\ Advance(r)
  BY DEF finishGEOS, Runs, Step
<1>2. PICK t, D, E : t = at[r].test /\ D = DoneBy(r) /\ E = D \cup {"finishGEOS"}
  OBVIOUS
<1>3. TestOK(t) /\ Holding(r, t, D) /\ Orderly(Tests[t].steps, "finishGEOS", D)
  BY <1>1, <1>2, InStep
<1>4. /\ geos'[r].handle = FALSE /\ geos'[r].tree = geos[r].tree
      /\ first' = first /\ second' = second /\ leaked' = leaked /\ element_count' = element_count /\ applied' = applied /\ input' = input
  BY DEF finishGEOS, SuiteSound, SuiteTypes, polygonVars, countVars
<1>5. Elsewhere(r)
  BY <1>4 DEF finishGEOS, Runs, SuiteSound, SuiteTypes, Elsewhere
<1>6. Program.readsInTests /\ ~Program.handle
  BY <1>3, InputFacts DEF TestOK, Orderly, SuiteSound, SuiteTypes, ProgramOK
<1>7. Holding(r, t, E)'
  BY <1>2, <1>3, <1>4, <1>6, InputFixed DEF Holding, HasTree, HasGEOS, HasFirst, HasSecond, Orderly
<1>8. Counted(r, t, "finishGEOS")
  BY <1>4 DEF Counted
<1> QED
  BY <1>1, <1>2, <1>5, <1>7, <1>8, StepSound

LEMMA InsertSound == ASSUME SuiteSound, NEW r \in Processes, Insert(r) PROVE SuiteSound'
<1>1. InTest(r) /\ Step(r) = "insert" /\ Advance(r) /\ Faults(r) = {}
  BY DEF Insert, Runs, Step
<1>2. PICK t, D, E : t = at[r].test /\ D = DoneBy(r) /\ E = D \cup {"insert"}
  OBVIOUS
<1>3. /\ t \in DOMAIN Tests /\ TestOK(t) /\ TestOf(r) = Tests[t] /\ Holding(r, t, D)
      /\ Orderly(Tests[t].steps, "insert", D)
  BY <1>1, <1>2, InStep
<1>4. PICK polygons, keeps :
        /\ polygons = IF Program.readsInTests THEN Kept(FirstOf(r), TestOf(r)) ELSE first[r]
        /\ keeps = (TestOf(r).steps # Creating)
  OBVIOUS
<1>5. /\ geos'[r].handle = geos[r].handle /\ geos'[r].tree = polygons
      /\ first'[r] = IF keeps THEN polygons ELSE first[r]
      /\ leaked'[r] = leaked[r] + Len(polygons) * IF keeps THEN 1 ELSE 2
      /\ second' = second /\ element_count' = element_count /\ applied' = applied /\ input' = input
  BY <1>4 DEF Insert, SuiteSound, SuiteTypes, countVars
<1>6. Elsewhere(r)
  BY <1>5 DEF Insert, Runs, countVars, SuiteSound, SuiteTypes, Elsewhere
<1>7. polygons = InTree(r, t)
  BY <1>3, <1>4 DEF InTree, Holding
<1>8. Tests[t].steps = Creating => Program.readsInTests
  BY <1>3 DEF TestOK
<1>9. Holding(r, t, E)'
  BY <1>2, <1>3, <1>4, <1>5, <1>7, <1>8, InputFixed DEF Holding, HasTree, HasGEOS, HasFirst, HasSecond, Orderly
<1>10. Program.readsInTests /\ t > 2 => Polygons(r) <= MaxGeoms
  <2> SUFFICES ASSUME Program.readsInTests, t > 2 PROVE Polygons(r) <= MaxGeoms
    OBVIOUS
  <2>1. ~Overflows(r, FirstOf(r), 1)
    BY <1>1, FaultsAre
  <2>2. Tests[t].arrays >= 1 /\ Kept(FirstOf(r), Tests[t]) = InTree(r, t)
    BY <1>3 DEF TestOK, InTree
  <2>3. ~(Len(InTree(r, t)) > MaxGeoms)
    BY <1>3, <2>1, <2>2 DEF Overflows
  <2>4. Len(InTree(r, t)) = Polygons(r) /\ Polygons(r) \in Nat /\ MaxGeoms \in Nat
    BY <1>3, InTreeType, InputFacts DEF SuiteSound, SuiteTypes
  <2> QED
    BY <2>3, <2>4
<1>11. Counted(r, t, "insert")
  BY <1>3, <1>4, <1>5, <1>7, <1>10 DEF Counted
<1> QED
  BY <1>1, <1>2, <1>6, <1>9, <1>11, StepSound

\* Nothing has happened but that a process died, or the root reported.
LEMMA NothingMoves ==
  ASSUME SuiteSound, UNCHANGED <<input, at, geos, polygonVars, countVars>>, died' # "misuse",
         reported' => \A r \in Processes : Ended(r)
  PROVE  SuiteSound'
<1>1. /\ input' = input /\ at' = at /\ geos' = geos /\ first' = first /\ second' = second /\ leaked' = leaked
      /\ element_count' = element_count /\ applied' = applied
  BY DEF polygonVars, countVars
<1>2. ASSUME NEW r \in Processes PROVE RankOK(r)' /\ (Ended(r) => Ended(r)')
  <2>1. RankOK(r)
    BY DEF SuiteSound
  <2>2. RankOK(r)'
    BY <1>1, <2>1, OtherRank
  <2> QED
    BY <1>1, <2>2, InputFixed DEF Ended
<1>3. Processes' = Processes
  BY <1>1, InputFixed
<1>4. SuiteTypes'
  BY <1>1, <1>3 DEF SuiteSound, SuiteTypes
<1> QED
  BY <1>2, <1>3, <1>4 DEF SuiteSound

LEMMA VisitSound == ASSUME SuiteSound, NEW r \in Processes, Visit(r) PROVE SuiteSound'
<1>1. InTest(r) /\ Step(r) = "visit"
  BY DEF Visit, Runs, Step
<1>2. PICK t, D, E : t = at[r].test /\ D = DoneBy(r) /\ E = D \cup {"visit"}
  OBVIOUS
<1>3. /\ t \in DOMAIN Tests /\ TestOK(t) /\ TestOf(r) = Tests[t] /\ Holding(r, t, D)
      /\ Orderly(Tests[t].steps, "visit", D) /\ "visit" \in AllOf(Tests[t].steps)
  BY <1>1, <1>2, InStep
<1>4. PICK pairs, predicate :
        pairs = Len(geos[r].tree) * Len(second[r]) /\ predicate = TestOf(r).predicate
  OBVIOUS
<1>5. /\ geos' = geos /\ first' = first /\ second' = second /\ leaked' = leaked
      /\ element_count' = element_count /\ input' = input /\ reported' = reported
  BY DEF Visit, polygonVars
<1>6. pairs = Polygons(r) * Len(SecondOf) /\ pairs \in Nat
  <2>1. geos[r].tree = InTree(r, t)
    BY <1>3 DEF Holding, Orderly
  <2>2. second[r] = SecondOf
    BY <1>3 DEF Holding, Orderly, TestOK
  <2>3. t # 2 \/ ~Program.readsInTests
    BY <1>3, SuiteFacts, ListsDiffer DEF TestOK, ListOK, SuiteSound, SuiteTypes
  <2>4. Len(InTree(r, t)) = Polygons(r) /\ Polygons(r) \in Nat
    BY <1>3, <2>3, InTreeType DEF SuiteSound, SuiteTypes
  <2>5. Len(SecondOf) \in Nat
    BY InputFacts DEF SuiteSound, SuiteTypes
  <2> QED
    BY <1>4, <2>1, <2>2, <2>4, <2>5
<1>7. Pairs(r) = IF geos[r].handle THEN pairs ELSE 0
  <2>1. geos[r].handle <=> Program.handle \/ HasGEOS(D)
    BY <1>3 DEF Holding
  <2>2. Program.readsInTests => HasGEOS(D)
    BY <1>3 DEF Orderly, TestOK
  <2>3. ~Program.readsInTests => ~HasGEOS(D)
    BY <1>3 DEF Orderly, TestOK, HasGEOS
  <2> QED
    BY <1>6, <2>1, <2>2, <2>3 DEF Pairs
<1>8. Holding(r, t, E)'
  BY <1>2, <1>3, <1>5, InputFixed DEF Holding, HasTree, HasGEOS, HasFirst, HasSecond
<1>9. CASE /\ predicate # "none" /\ pairs > 0 /\ geos[r].handle /\ Advance(r) /\ died' = died
           /\ applied' = [applied EXCEPT ![r][predicate] = @ + pairs]
  <2>1. Elsewhere(r)
    BY <1>5, <1>9 DEF SuiteSound, SuiteTypes, Elsewhere
  <2>2. Counted(r, t, "visit")
    BY <1>3, <1>4, <1>5, <1>7, <1>9 DEF Counted, SuiteSound, SuiteTypes
  <2> QED
    BY <1>1, <1>2, <1>8, <1>9, <2>1, <2>2, StepSound
<1>10. CASE /\ predicate # "none" /\ pairs > 0 => ~geos[r].handle
            /\ Advance(r) /\ applied' = applied /\ died' = died
  <2>1. Elsewhere(r)
    BY <1>5, <1>10 DEF SuiteSound, SuiteTypes, Elsewhere
  <2>2. predicate \in Predicates => Pairs(r) = 0
    <3>1. "none" \notin Predicates
      BY DEF Predicates
    <3> QED
      BY <1>6, <1>7, <1>10, <3>1
  <2>3. ASSUME NEW p \in Predicates, Tests[t].predicate = p PROVE applied[r][p] + Pairs(r) = applied[r][p]
    <3>1. t = TestFor(p) /\ Pairs(r) = 0 /\ t # 0
      BY <1>3, <1>4, <2>2, <2>3, SuiteFacts DEF TestOK, SuiteSound, SuiteTypes
    <3>2. Times(r, t, "visit") \in Nat
      BY <1>1, <1>2, <1>3, <1>5, <1>10, TimesMove DEF SuiteSound, RankOK
    <3>3. applied[r][p] = Times(r, t, "visit") * Pairs(r)
      BY <3>1 DEF SuiteSound, RankOK, Counts
    <3> QED
      BY <3>1, <3>2, <3>3
  <2>4. Counted(r, t, "visit")
    BY <1>5, <1>10, <2>3 DEF Counted
  <2> QED
    BY <1>1, <1>2, <1>8, <1>10, <2>1, <2>4, StepSound
<1>11. CASE died' = "handle" /\ applied' = applied /\ at' = at
  BY <1>5, <1>11, NothingMoves DEF SuiteSound, polygonVars, countVars
<1> QED
  BY <1>4, <1>9, <1>10, <1>11 DEF Visit

\* The reading before the tests: with nothing in the first file it is the end.
LEMMA LoadSound == ASSUME SuiteSound, NEW r \in Processes, Load(r) PROVE SuiteSound'
<1>1. PICK loads \in BOOLEAN, empty \in BOOLEAN :
        /\ loads <=> ~Program.readsInTests
        /\ empty <=> loads /\ Program.tidy /\ FirstOf(r) = <<>>
  OBVIOUS
<1>2. PICK len \in Nat : /\ len = Len(Tests) /\ DOMAIN Tests = 1 .. len
                         /\ len = 1 \/ len = 12
                         /\ FullSuite <=> len = 12
                         /\ Program.readsInTests => len = 12
                         /\ \A u \in 1 .. len : TestOK(u)
                         /\ \A p \in Predicates : TestFor(p) \in 0 .. len
  <2>1. Len(Tests) = 1 \/ Len(Tests) = 12
    BY SuiteFacts DEF SuiteSound, SuiteTypes
  <2>2. Len(Tests) \in Nat
    BY <2>1
  <2>3. \A p \in Predicates : TestFor(p) \in 0 .. Len(Tests)
    BY <2>1, SuiteFacts DEF SuiteSound, SuiteTypes
  <2> QED
    BY <2>1, <2>2, <2>3, SuiteFacts DEF SuiteSound, SuiteTypes
<1>3. PICK v \in {1, len + 1} : v = IF empty THEN Len(Program.tests) + 1 ELSE 1
  BY <1>2 DEF Tests
<1>4. at[r].test = 0 /\ at[r].pass = 1 /\ at[r].step = 1 /\ at[r] \in Positions
  BY <1>2 DEF Load, SuiteSound, SuiteTypes, RankOK, Position, InTest, Tests
<1>5. /\ at' \in [Processes -> Positions] /\ \A q \in Processes : q # r => at'[q] = at[q]
      /\ at'[r].test = v /\ at'[r].pass = 1 /\ at'[r].step = 1
  <2>1. at' = [at EXCEPT ![r].test = v]
    BY <1>1, <1>3 DEF Load
  <2>2. PICK w : w = [at[r] EXCEPT !.test = v]
    OBVIOUS
  <2>3. w \in Positions /\ w.test = v /\ w.pass = 1 /\ w.step = 1
    BY <1>3, <1>4, <2>2 DEF Positions
  <2>4. at' = [at EXCEPT ![r] = w]
    BY <2>1, <2>2
  <2> QED
    BY <2>3, <2>4 DEF SuiteSound, SuiteTypes
<1>6. /\ first'[r] = IF loads THEN FirstOf(r) ELSE <<>>
      /\ second'[r] = IF loads /\ ~empty THEN SecondOf ELSE <<>>
      /\ geos' = geos /\ leaked' = leaked /\ element_count' = element_count /\ applied' = applied
      /\ input' = input
  BY <1>1 DEF Load, SuiteSound, SuiteTypes, countVars
<1>7. Elsewhere(r)
  BY <1>6 DEF Load, SuiteSound, SuiteTypes, Elsewhere, countVars
<1>8. /\ InTest(r)' <=> v # len + 1
      /\ AtEnd(r)' <=> v = len + 1
      /\ ~InTest(r) /\ ~AtEnd(r) /\ ~Ended(r) /\ ~Ended(r)'
  BY <1>2, <1>3, <1>4, <1>5, <1>6, InputFixed DEF InTest, AtEnd, Ended, Tests
<1>9. /\ geos[r].handle <=> Program.handle
      /\ geos[r].tree = NoTree
  BY <1>4 DEF SuiteSound, RankOK, Objects, Untouched
<1>10. DoneBy(r)' = {}
  BY <1>5, <1>8, NoneRan DEF DoneBy
<1>11. Position(r)'
  <2>1. Program.tests' = Tests
    BY <1>6, InputFixed DEF Tests
  <2>2. v # len + 1 => 1 \in 1 .. Len(Tests[v].steps)
    BY <1>2, <1>3 DEF TestOK, ListOK
  <2>3. 1 \in 1 .. input.n
    BY InputFacts DEF SuiteSound, SuiteTypes
  <2> QED
    BY <1>2, <1>3, <1>5, <1>6, <1>8, <2>1, <2>2, <2>3, InputFixed DEF Position, TestOf
<1>12. Objects(r)'
  <2>1. CASE empty
    <3>1. Untouched(r)'
      BY <1>1, <1>6, <1>9, <2>1, InputFixed DEF Untouched
    <3>2. v = len + 1
      BY <1>2, <1>3, <2>1 DEF Tests
    <3> QED
      BY <1>1, <1>2, <1>5, <1>6, <1>8, <2>1, <3>1, <3>2, InputFixed DEF Objects
  <2>2. CASE ~empty
    <3>1. Holding(r, 1, {})'
      BY <1>1, <1>6, <1>9, <2>2, InputFixed DEF Holding, HasTree, HasGEOS, HasFirst, HasSecond, InTree
    <3>2. Holding(r, at[r].test, DoneBy(r))'
      BY <1>3, <1>5, <1>10, <2>2, <3>1 DEF Holding
    <3> QED
      BY <1>2, <1>3, <1>5, <1>8, <2>2, <3>2 DEF Objects
  <2> QED
    BY <2>1, <2>2
<1>13. PICK P \in Nat, reps \in Nat : P = Polygons(r) /\ reps = input.n
  <2>1. input.n \in Nat /\ FirstOf(r) \in Seq(Pieces)
    BY InputFacts DEF SuiteSound, SuiteTypes
  <2>2. Polygons(r) \in Nat
    BY <2>1 DEF Polygons
  <2> QED
    BY <2>1, <2>2
<1>14. empty => P = 0 /\ Pairs(r) = 0 /\ Len(InTree(r, 2)) = 0
  <2>1. Len(SecondOf) \in Nat
    BY InputFacts DEF SuiteSound, SuiteTypes
  <2>2. Len(<<>>) = 0
    OBVIOUS
  <2>3. empty => P = 0 /\ Len(InTree(r, 2)) = 0
    BY <1>1, <1>13, <2>2 DEF Polygons, InTree
  <2>4. P = 0 => P * Len(SecondOf) = 0
    BY <2>1
  <2> QED
    BY <1>13, <2>3, <2>4 DEF Pairs
<1>15. ASSUME NEW u \in 1 .. len, NEW y
       PROVE  /\ Times(r, u, y) = 0 /\ Times(r, u, y)' = (IF empty THEN reps ELSE 0)
              /\ Since(r, u) = 0 /\ Since(r, u)' \in Nat /\ (~empty => Since(r, u)' = 0)
  <2>1. Times(r, u, y) = 0 /\ Since(r, u) = 0
    BY <1>2, <1>4 DEF Times, Since, SinceOf
  <2>2. CASE empty
    <3>1. v = len + 1
      BY <1>2, <1>3, <2>2 DEF Tests
    <3>2. Since(r, u)' = (len + 1 - u) * reps
      BY <1>2, <1>5, <1>6, <1>8, <1>13, <3>1, InputFixed DEF Since, SinceOf
    <3>3. len + 1 - u \in Nat
      OBVIOUS
    <3>4. Since(r, u)' \in Nat
      BY <3>2, <3>3
    <3> QED
      BY <1>2, <1>5, <1>6, <1>13, <2>1, <2>2, <3>1, <3>4 DEF Times
  <2>3. CASE ~empty
    <3>1. v = 1 /\ v # len + 1
      BY <1>2, <1>3, <2>3
    <3>2. (1 - 1) * reps = 0
      OBVIOUS
    <3>3. Since(r, u)' = 0
      BY <1>2, <1>5, <1>6, <1>8, <1>10, <1>13, <3>1, <3>2, InputFixed DEF Since, SinceOf
    <3> QED
      BY <1>2, <1>5, <1>10, <2>1, <2>3, <3>1, <3>3 DEF Times
  <2> QED
    BY <2>2, <2>3
<1>16. Leaks(r)'
  <2>1. CASE Program.readsInTests
    <3>1. ~empty /\ 3 \in 1 .. len /\ 2 \in 1 .. len /\ 1 \in 1 .. len /\ Len(InTree(r, 2)) \in Nat
      BY <1>1, <1>2, <2>1, InTreeType DEF SuiteSound, SuiteTypes
    <3>2. leaked[r] = 2 * P * 0 + Len(InTree(r, 2)) * 0 + P * 0
      BY <1>13, <1>15, <2>1, <3>1 DEF SuiteSound, RankOK, Leaks
    <3>3. /\ Times(r, 1, "insert")' = 0 /\ Times(r, 2, "insert")' = 0 /\ Since(r, 3)' = 0
      BY <1>15, <3>1
    <3> QED
      BY <1>6, <1>13, <2>1, <3>2, <3>3, InputFixed DEF Leaks
  <2>2. CASE ~Program.readsInTests
    <3>1. 1 \in 1 .. len
      BY <1>2
    <3>2. leaked[r] = P * 0 + 0
      BY <1>8, <1>13, <1>15, <2>2, <3>1 DEF SuiteSound, RankOK, Leaks
    <3>3. PICK k \in Nat : k = Since(r, 1)'
      BY <1>15, <3>1
    <3>4. P * k = 0
      BY <1>14, <1>15, <3>1, <3>3
    <3>5. Leaks(r)' <=> leaked'[r] = P * k + 0
      BY <1>6, <1>8, <1>13, <2>2, <3>3, InputFixed DEF Leaks
    <3> QED
      BY <1>6, <3>2, <3>4, <3>5
  <2> QED
    BY <2>1, <2>2
<1>17. Counts(r)'
  <2>1. FullSuite => Times(r, 2, "iterate")' * Len(InTree(r, 2)) = 0 * Len(InTree(r, 2))
    <3> SUFFICES ASSUME FullSuite PROVE Times(r, 2, "iterate")' * Len(InTree(r, 2)) = 0 * Len(InTree(r, 2))
      OBVIOUS
    <3>1. 2 \in 1 .. len
      BY <1>2
    <3>2. Times(r, 2, "iterate")' = IF empty THEN reps ELSE 0
      BY <1>15, <3>1
    <3> QED
      BY <1>14, <3>2
  <2>2. FullSuite => Times(r, 2, "iterate") = 0
    BY <1>2, <1>15
  <2>3. element_count'[r] = IF FullSuite THEN Times(r, 2, "iterate")' * Len(InTree(r, 2)) ELSE 0
    BY <1>6, <2>1, <2>2 DEF SuiteSound, RankOK, Counts
  <2>4. ASSUME NEW p \in Predicates
        PROVE  applied'[r][p] = IF TestFor(p) = 0 THEN 0 ELSE Times(r, TestFor(p), "visit")' * Pairs(r)
    <3>1. CASE TestFor(p) = 0
      BY <1>6, <3>1 DEF SuiteSound, RankOK, Counts
    <3>2. CASE TestFor(p) # 0
      <4>1. PICK u \in 1 .. len : u = TestFor(p)
        BY <1>2, <3>2
      <4>2. applied[r][p] = 0 * Pairs(r)
        BY <1>15, <3>2, <4>1 DEF SuiteSound, RankOK, Counts
      <4>3. Times(r, u, "visit")' = IF empty THEN reps ELSE 0
        BY <1>15
      <4>4. Times(r, u, "visit")' * Pairs(r) = 0 * Pairs(r)
        BY <1>14, <4>3
      <4>5. Times(r, TestFor(p), "visit")' = Times(r, u, "visit")'
        BY <1>6, <4>1, InputFixed DEF Times
      <4> QED
        BY <1>6, <3>2, <4>1, <4>2, <4>4, <4>5
    <3> QED
      BY <3>1, <3>2
  <2> QED
    BY <1>6, <2>3, <2>4, InputFixed DEF Counts
<1>18. Fit(r)'
  <2>1. CASE ~Program.readsInTests
    BY <1>6, <2>1, InputFixed DEF Fit
  <2>2. CASE Program.readsInTests
    <3>1. 3 \in 1 .. len /\ ~empty
      BY <1>1, <1>2, <2>2
    <3>2. Times(r, 3, "insert")' = 0
      BY <1>15, <3>1
    <3> QED
      BY <3>2 DEF Fit
  <2> QED
    BY <2>1, <2>2
<1> QED
  BY <1>5, <1>7, <1>8, <1>11, <1>12, <1>16, <1>17, <1>18, OneMoves DEF RankOK

\* After the tests.
LEMMA ReleaseSound == ASSUME SuiteSound, NEW r \in Processes, Release(r) PROVE SuiteSound'
<1>1. PICK len \in Nat : /\ len = Len(Tests) /\ DOMAIN Tests = 1 .. len
                         /\ len = 1 \/ len = 12
                         /\ FullSuite <=> len = 12
                         /\ Program.readsInTests => len = 12
                         /\ \A p \in Predicates : TestFor(p) \in 0 .. len
  <2>1. Len(Tests) = 1 \/ Len(Tests) = 12
    BY SuiteFacts DEF SuiteSound, SuiteTypes
  <2>2. Len(Tests) \in Nat
    BY <2>1
  <2>3. \A p \in Predicates : TestFor(p) \in 0 .. Len(Tests)
    BY <2>1, SuiteFacts DEF SuiteSound, SuiteTypes
  <2> QED
    BY <2>1, <2>2, <2>3, SuiteFacts DEF SuiteSound, SuiteTypes
<1>2. at[r].test = len + 1 /\ at[r].pass = 1 /\ at[r].step = 1 /\ at[r] \in Positions /\ AtEnd(r)
  BY <1>1 DEF Release, AtEnd, SuiteSound, SuiteTypes, RankOK, Position, InTest, Tests
<1>3. /\ at' \in [Processes -> Positions] /\ \A q \in Processes : q # r => at'[q] = at[q]
      /\ at'[r].test = len + 2 /\ at'[r].pass = 1 /\ at'[r].step = 1
  <2>1. PICK w : w = [at[r] EXCEPT !.test = at[r].test + 1]
    OBVIOUS
  <2>2. w \in Positions /\ w.test = len + 2 /\ w.pass = 1 /\ w.step = 1
    BY <1>2, <2>1 DEF Positions
  <2>3. at' = [at EXCEPT ![r] = w]
    BY <2>1 DEF Release
  <2> QED
    BY <2>2, <2>3 DEF SuiteSound, SuiteTypes
<1>4. /\ leaked'[r] = IF Program.tidy THEN leaked[r] ELSE leaked[r] + Len(first[r]) + Len(second[r])
      /\ element_count' = element_count /\ applied' = applied /\ input' = input
  BY DEF Release, SuiteSound, SuiteTypes, countVars
<1>5. Elsewhere(r)
  BY <1>4 DEF Release, SuiteSound, SuiteTypes, Elsewhere, countVars
<1>6. /\ ~InTest(r)' /\ ~AtEnd(r)' /\ Ended(r)'
      /\ ~InTest(r) /\ ~Ended(r)
  BY <1>1, <1>2, <1>3, <1>4, InputFixed DEF InTest, AtEnd, Ended, Tests
<1>7. Position(r)'
  <2>1. 1 \in 1 .. input.n
    BY InputFacts DEF SuiteSound, SuiteTypes
  <2> QED
    BY <1>1, <1>3, <1>4, <1>6, <2>1, InputFixed DEF Position
<1>8. Objects(r)'
  BY <1>3, <1>6 DEF Objects
<1>9. PICK P \in Nat, reps \in Nat : P = Polygons(r) /\ reps = input.n
  <2>1. input.n \in Nat /\ FirstOf(r) \in Seq(Pieces)
    BY InputFacts DEF SuiteSound, SuiteTypes
  <2>2. Polygons(r) \in Nat
    BY <2>1 DEF Polygons
  <2> QED
    BY <2>1, <2>2
<1>10. ASSUME NEW u \in 1 .. len, NEW y
       PROVE  /\ Times(r, u, y) = reps /\ Times(r, u, y)' = reps
              /\ Since(r, u) \in Nat /\ Since(r, u)' = Since(r, u)
  <2>1. Times(r, u, y) = reps /\ Times(r, u, y)' = reps
    BY <1>1, <1>2, <1>3, <1>4, <1>9 DEF Times
  <2>2. len + 1 - u \in Nat
    OBVIOUS
  <2>3. PICK k \in Nat : k = len + 1 - u
    BY <2>2
  <2>4. Since(r, u) = k * reps
    BY <1>1, <1>2, <1>6, <1>9, <2>3 DEF Since, SinceOf
  <2>5. Since(r, u)' = k * reps
    BY <1>1, <1>3, <1>4, <1>6, <1>9, <2>3, InputFixed DEF Since, SinceOf
  <2> QED
    BY <2>1, <2>4, <2>5
<1>11. Leaks(r)'
  <2>1. CASE Program.readsInTests
    <3>1. 3 \in 1 .. len /\ 2 \in 1 .. len /\ 1 \in 1 .. len /\ Program.tidy
      BY <1>1, <2>1, InputFacts DEF SuiteSound, SuiteTypes, ProgramOK, ReadingPrograms, SuitePrograms
    <3>2. /\ Times(r, 1, "insert")' = Times(r, 1, "insert") /\ Times(r, 2, "insert")' = Times(r, 2, "insert")
          /\ Since(r, 3)' = Since(r, 3)
      BY <1>10, <3>1
    <3>3. Leaks(r)
      BY DEF SuiteSound, RankOK
    <3> QED
      BY <1>4, <2>1, <3>1, <3>2, <3>3, InputFixed DEF Leaks
  <2>2. CASE ~Program.readsInTests
    <3>1. 1 \in 1 .. len
      BY <1>1
    <3>2. PICK k \in Nat : k = Since(r, 1) /\ k = Since(r, 1)'
      BY <1>10, <3>1
    <3>3. leaked[r] = P * k + 0
      BY <1>6, <1>9, <2>2, <3>2 DEF SuiteSound, RankOK, Leaks
    <3>4. PICK S \in Nat : S = Len(SecondOf)
      BY InputFacts DEF SuiteSound, SuiteTypes
    <3>5. Leaks(r)' <=> leaked'[r] = P * k + (IF ~Program.tidy THEN P + S ELSE 0)
      BY <1>4, <1>6, <1>9, <2>2, <3>2, <3>4, InputFixed DEF Leaks
    <3>6. CASE Program.tidy
      BY <1>4, <3>3, <3>5, <3>6
    <3>7. CASE ~Program.tidy
      <4>1. Holding(r, 1, {})
        BY <1>2, <3>7 DEF SuiteSound, RankOK, Objects
      <4>2. first[r] = FirstOf(r) /\ second[r] = SecondOf
        BY <2>2, <4>1 DEF Holding, InTree
      <4>3. leaked'[r] = (P * k + 0) + P + S
        BY <1>4, <1>9, <3>3, <3>4, <3>7, <4>2 DEF Polygons
      <4> QED
        BY <3>5, <3>7, <4>3
    <3> QED
      BY <3>6, <3>7
  <2> QED
    BY <2>1, <2>2
<1>12. Counts(r)'
  <2>1. element_count'[r] = IF FullSuite THEN Times(r, 2, "iterate")' * Len(InTree(r, 2)) ELSE 0
    <3>1. FullSuite => Times(r, 2, "iterate")' = Times(r, 2, "iterate")
      BY <1>1, <1>10
    <3> QED
      BY <1>4, <3>1 DEF SuiteSound, RankOK, Counts
  <2>2. ASSUME NEW p \in Predicates
        PROVE  applied'[r][p] = IF TestFor(p) = 0 THEN 0 ELSE Times(r, TestFor(p), "visit")' * Pairs(r)
    <3>1. CASE TestFor(p) = 0
      BY <1>4, <3>1 DEF SuiteSound, RankOK, Counts
    <3>2. CASE TestFor(p) # 0
      <4>1. PICK u \in 1 .. len : u = TestFor(p)
        BY <1>1, <3>2
      <4>2. Times(r, u, "visit")' = Times(r, u, "visit")
        BY <1>10
      <4>3. Times(r, TestFor(p), "visit")' = Times(r, u, "visit")'
        BY <1>4, <4>1, InputFixed DEF Times
      <4> QED
        BY <1>4, <3>2, <4>1, <4>2, <4>3 DEF SuiteSound, RankOK, Counts
    <3> QED
      BY <3>1, <3>2
  <2> QED
    BY <1>4, <2>1, <2>2, InputFixed DEF Counts
<1>13. Fit(r)'
  <2>1. CASE ~Program.readsInTests
    BY <1>4, <2>1, InputFixed DEF Fit
  <2>2. CASE Program.readsInTests
    <3>1. 3 \in 1 .. len
      BY <1>1, <2>2
    <3>2. Times(r, 3, "insert")' = Times(r, 3, "insert")
      BY <1>10, <3>1
    <3> QED
      BY <1>4, <3>2, InputFixed DEF Fit, SuiteSound, RankOK
  <2> QED
    BY <2>1, <2>2
<1> QED
  BY <1>3, <1>5, <1>6, <1>7, <1>8, <1>11, <1>12, <1>13, OneMoves DEF RankOK

\* A process is ended by a signal, and the root reports what all have done.
LEMMA CrashSound == ASSUME SuiteSound, NEW r \in Processes, Crash(r) PROVE SuiteSound'
<1>1. UNCHANGED <<input, at, geos, polygonVars, countVars>> /\ died' \in Faults(r) /\ InTest(r)
      /\ reported' = reported
  BY DEF Crash
<1>2. died' # "misuse"
  BY <1>1, NoMisuse
<1>3. reported' => \A q \in Processes : Ended(q)
  BY <1>1 DEF SuiteSound
<1> QED
  BY <1>1, <1>2, <1>3, NothingMoves

LEMMA ReportSound == ASSUME SuiteSound, Report PROVE SuiteSound'
<1>1. UNCHANGED <<input, at, geos, polygonVars, countVars>> /\ died' = died
      /\ \A q \in Processes : Ended(q)
  BY DEF Report
<1>2. died' # "misuse"
  BY <1>1 DEF SuiteSound
<1> QED
  BY <1>1, <1>2, NothingMoves

\* At the start nothing has been read or made.
LEMMA SuiteInitSound == ASSUME SuiteInit PROVE SuiteSound
<1>1. input \in Inputs /\ died = "no" /\ reported = FALSE
  BY DEF SuiteInit
<1>2. SuiteTypes
  <2>1. Begin \in Positions
    BY DEF Begin, Positions
  <2> QED
    BY <2>1 DEF SuiteInit, SuiteTypes
<1>3. PICK len \in Nat : /\ len = Len(Tests) /\ DOMAIN Tests = 1 .. len
                         /\ len = 1 \/ len = 12
                         /\ FullSuite <=> len = 12
                         /\ Program.readsInTests => len = 12
                         /\ \A p \in Predicates : TestFor(p) \in 0 .. len
  <2>1. Len(Tests) = 1 \/ Len(Tests) = 12
    BY <1>1, SuiteFacts
  <2>2. Len(Tests) \in Nat
    BY <2>1
  <2>3. \A p \in Predicates : TestFor(p) \in 0 .. Len(Tests)
    BY <1>1, <2>1, SuiteFacts
  <2> QED
    BY <1>1, <2>1, <2>2, <2>3, SuiteFacts
<1>4. ASSUME NEW r \in Processes PROVE RankOK(r)
  <2>1. /\ at[r].test = 0 /\ at[r].pass = 1 /\ at[r].step = 1
        /\ first[r] = <<>> /\ second[r] = <<>> /\ leaked[r] = 0 /\ element_count[r] = 0
        /\ \A p \in Predicates : applied[r][p] = 0
        /\ geos[r].handle = Program.handle /\ geos[r].tree = NoTree
    BY DEF SuiteInit, Begin
  <2>2. ~InTest(r) /\ ~AtEnd(r) /\ ~Ended(r)
    BY <1>3, <2>1 DEF InTest, AtEnd, Ended, Tests
  <2>3. Position(r)
    BY <1>1, <1>3, <2>1, <2>2, InputFacts DEF Position
  <2>4. Objects(r)
    BY <2>1, <2>2 DEF Objects, Untouched
  <2>5. \A u \in 1 .. len : (\A y : Times(r, u, y) = 0) /\ Since(r, u) = 0
    BY <1>3, <2>1 DEF Times, Since, SinceOf
  <2>6. PICK P \in Nat, S \in Nat : P = Polygons(r) /\ S = Len(SecondOf)
    BY <1>1, InputFacts DEF Polygons
  <2>7. Leaks(r)
    <3>1. CASE Program.readsInTests
      <4>1. 3 \in 1 .. len /\ 2 \in 1 .. len /\ 1 \in 1 .. len
        BY <1>3, <3>1
      <4>2. PICK K \in Nat : K = Len(InTree(r, 2))
        BY <1>1, <1>3, <4>1, InTreeType
      <4>3. /\ Times(r, 1, "insert") = 0 /\ Times(r, 2, "insert") = 0 /\ Since(r, 3) = 0
        BY <2>5, <4>1
      <4>4. Leaks(r) <=> leaked[r] = 2 * P * 0 + K * 0 + P * 0
        BY <2>6, <3>1, <4>2, <4>3 DEF Leaks
      <4> QED
        BY <2>1, <4>4
    <3>2. CASE ~Program.readsInTests
      <4>1. Since(r, 1) = 0
        BY <1>3, <2>5
      <4>2. Leaks(r) <=> leaked[r] = P * 0 + 0
        BY <2>2, <2>6, <3>2, <4>1 DEF Leaks
      <4> QED
        BY <2>1, <4>2
    <3> QED
      BY <3>1, <3>2
  <2>8. Counts(r)
    <3>1. element_count[r] = IF FullSuite THEN Times(r, 2, "iterate") * Len(InTree(r, 2)) ELSE 0
      <4>1. FullSuite => Times(r, 2, "iterate") = 0 /\ Len(InTree(r, 2)) \in Nat
        <5>1. FullSuite => 2 \in 1 .. len
          BY <1>3
        <5>2. FullSuite => Times(r, 2, "iterate") = 0
          BY <2>5, <5>1
        <5>3. DOMAIN Tests = 1 .. len
          BY <1>3
        <5>4. \A t \in DOMAIN Tests : Len(InTree(r, t)) \in Nat
          BY <1>1, InTreeType
        <5> QED
          BY <5>1, <5>2, <5>3, <5>4
      <4>2. \A k \in Nat : 0 * k = 0
        OBVIOUS
      <4> QED
        BY <2>1, <4>1, <4>2
    <3>2. ASSUME NEW p \in Predicates
          PROVE  applied[r][p] = IF TestFor(p) = 0 THEN 0 ELSE Times(r, TestFor(p), "visit") * Pairs(r)
      <4>1. TestFor(p) # 0 => Times(r, TestFor(p), "visit") = 0
        BY <1>3, <2>5
      <4>2. Pairs(r) \in Nat
        BY <2>6 DEF Pairs
      <4> QED
        BY <2>1, <4>1, <4>2
    <3> QED
      BY <3>1, <3>2 DEF Counts
  <2>9. Fit(r)
    BY <1>3, <2>5 DEF Fit
  <2> QED
    BY <2>3, <2>4, <2>7, <2>8, <2>9 DEF RankOK
<1> QED
  BY <1>1, <1>2, <1>4 DEF SuiteSound

\* Every step keeps all well.
LEMMA SuiteStepSound == ASSUME SuiteSound, [SuiteNext]_suiteVars PROVE SuiteSound'
<1>1. ASSUME NEW r \in Processes, Rank(r) PROVE SuiteSound'
  BY <1>1, LoadSound, InitGEOSSound, CreateSound, InsertSound, IterateSound, ReadSound, VisitSound,
     DestroySecondSound, DestroyTreeSound, DestroyFirstSound, FinishGEOSSound, ReleaseSound, CrashSound
     DEF Rank
<1>2. CASE Report
  BY <1>2, ReportSound
<1>3. CASE UNCHANGED suiteVars
  BY <1>3, NothingMoves DEF suiteVars, SuiteSound
<1> QED
  BY <1>1, <1>2, <1>3 DEF SuiteNext

\* What a rank that has ended has done.
LEMMA EndedHasDone ==
  ASSUME SuiteSound, NEW r \in Processes, Ended(r)
  PROVE  /\ Len(InTree(r, 2)) = Polygons(r)
         /\ \A u \in DOMAIN Tests : \A y : Times(r, u, y) = input.n
         /\ \A u \in DOMAIN Tests : Since(r, u) = (Len(Tests) + 1 - u) * input.n
<1>1. /\ Len(Tests) \in Nat /\ DOMAIN Tests = 1 .. Len(Tests) /\ at[r].test = Len(Tests) + 2
      /\ Program.readsInTests => Len(Tests) = 12
  BY SuiteFacts DEF SuiteSound, SuiteTypes, Ended, Tests
<1>2. \A u \in DOMAIN Tests : \A y : Times(r, u, y) = input.n
  BY <1>1 DEF Times
<1>3. \A u \in DOMAIN Tests : Since(r, u) = (Len(Tests) + 1 - u) * input.n
  BY <1>1 DEF Since, SinceOf, InTest, Tests
<1>4. Len(InTree(r, 2)) = Polygons(r)
  <2>1. CASE Program.readsInTests
    <3>1. Times(r, 3, "insert") > 0
      <4>1. DOMAIN Tests = 1 .. 12
        BY <1>1, <2>1
      <4>2. Times(r, 3, "insert") = input.n
        BY <1>2, <4>1
      <4>3. input.n \in Nat \ {0}
        BY InputFacts DEF SuiteSound, SuiteTypes
      <4> QED
        BY <4>2, <4>3
    <3>2. Polygons(r) <= MaxGeoms
      BY <2>1, <3>1 DEF SuiteSound, RankOK, Fit
    <3> QED
      BY <3>2, InTreeType DEF SuiteSound, SuiteTypes
  <2>2. CASE ~Program.readsInTests
    BY <2>2, InTreeType DEF SuiteSound, SuiteTypes
  <2> QED
    BY <2>1, <2>2
<1> QED
  BY <1>2, <1>3, <1>4

LEMMA SuiteSoundEveryPair == ASSUME SuiteSound PROVE EveryPair
<1> SUFFICES ASSUME reported, NEW r \in Processes
             PROVE  /\ \A p \in Predicates :
                         applied[r][p] =
                           IF input.program \in {"lb_mt_client", "lb_mt_server"} \/ ~(FullSuite \/ p = "GEOSIntersects")
                             THEN 0 ELSE input.n * Polygons(r) * Len(SecondOf)
                    /\ element_count[r] = IF FullSuite THEN input.n * Polygons(r) ELSE 0
  BY DEF EveryPair
<1>1. Ended(r) /\ input \in Inputs
  BY DEF SuiteSound, SuiteTypes
<1>2. PICK reps \in Nat, P \in Nat, S \in Nat : reps = input.n /\ P = Polygons(r) /\ S = Len(SecondOf)
  BY <1>1, InputFacts DEF Polygons
<1>3. element_count[r] = IF FullSuite THEN reps * P ELSE 0
  <2>1. FullSuite => 2 \in DOMAIN Tests
    <3>1. FullSuite => DOMAIN Tests = 1 .. 12
      BY <1>1, SuiteFacts
    <3> QED
      BY <3>1
  <2>2. FullSuite => Times(r, 2, "iterate") = reps /\ Len(InTree(r, 2)) = P
    BY <1>1, <1>2, <2>1, EndedHasDone
  <2> QED
    BY <2>2 DEF SuiteSound, RankOK, Counts
<1>4. ASSUME NEW p \in Predicates
      PROVE  applied[r][p] = IF \/ input.program \in {"lb_mt_client", "lb_mt_server"}
                                \/ ~(FullSuite \/ p = "GEOSIntersects")
                               THEN 0 ELSE reps * P * S
  <2>1. TestFor(p) = 0 <=> ~(FullSuite \/ p = "GEOSIntersects")
    BY PlaceIsUnique DEF TestFor
  <2>2. CASE TestFor(p) = 0
    BY <2>1, <2>2 DEF SuiteSound, RankOK, Counts
  <2>3. CASE TestFor(p) # 0
    <3>1. TestFor(p) \in DOMAIN Tests
      BY <1>1, <2>3, SuiteFacts
    <3>2. applied[r][p] = reps * Pairs(r)
      BY <1>1, <1>2, <2>3, <3>1, EndedHasDone DEF SuiteSound, RankOK, Counts
    <3>3. Pairs(r) = IF input.program \in {"lb_mt_client", "lb_mt_server"} THEN 0 ELSE P * S
      BY <1>1, <1>2, InputFacts DEF Pairs, ProgramOK, NoHandlePrograms, ReadingPrograms
    <3>4. reps * (P * S) = reps * P * S /\ reps * 0 = 0
      OBVIOUS
    <3> QED
      BY <2>1, <2>3, <3>2, <3>3, <3>4
  <2> QED
    BY <2>2, <2>3
<1> QED
  BY <1>2, <1>3, <1>4

LEMMA SuiteSoundReleased == ASSUME SuiteSound PROVE Released
<1>1. ASSUME reported, NEW r \in Processes
      PROVE  leaked[r] = Insertions(r) + IF Program.readsInTests THEN input.n * Polygons(r)
                                         ELSE IF Program.tidy THEN 0
                                         ELSE Polygons(r) + Len(SecondOf)
  <2>1. Ended(r) /\ input \in Inputs
    BY <1>1 DEF SuiteSound, SuiteTypes
  <2>2. PICK reps \in Nat, P \in Nat, S \in Nat : reps = input.n /\ P = Polygons(r) /\ S = Len(SecondOf)
    BY <2>1, InputFacts DEF Polygons
  <2>3. CASE Program.readsInTests
    <3>1. Len(Tests) = 12 /\ DOMAIN Tests = 1 .. 12 /\ FullSuite
      BY <2>1, <2>3, SuiteFacts
    <3>2. Times(r, 1, "insert") = reps /\ Times(r, 2, "insert") = reps /\ Len(InTree(r, 2)) = P
      <4>1. 1 \in DOMAIN Tests /\ 2 \in DOMAIN Tests
        BY <3>1
      <4> QED
        BY <2>1, <2>2, <4>1, EndedHasDone
    <3>3. Since(r, 3) = 10 * reps
      <4>1. Since(r, 3) = (Len(Tests) + 1 - 3) * reps
        BY <2>1, <2>2, <3>1, EndedHasDone
      <4>2. Len(Tests) + 1 - 3 = 10
        BY <3>1
      <4> QED
        BY <4>1, <4>2
    <3>4. leaked[r] = 2 * P * reps + P * reps + P * (10 * reps)
      BY <2>2, <2>3, <3>2, <3>3 DEF SuiteSound, RankOK, Leaks
    <3>5. Insertions(r) = 12 * reps * P
      BY <2>2, <3>1 DEF Insertions
    <3>6. PICK m \in Nat : m = reps * P
      OBVIOUS
    <3>7. 2 * P * reps = 2 * m /\ P * reps = m /\ P * (10 * reps) = 10 * m /\ 12 * reps * P = 12 * m
      BY <3>6
    <3>8. leaked[r] = 2 * m + m + 10 * m /\ Insertions(r) = 12 * m
      BY <3>4, <3>5, <3>7
    <3>9. leaked[r] = Insertions(r) + m
      BY <3>8
    <3>10. input.n * Polygons(r) = m
      BY <2>2, <3>6
    <3> QED
      BY <2>3, <3>9, <3>10
  <2>4. CASE ~Program.readsInTests
    <3>1. PICK len \in Nat : len = Len(Tests) /\ 1 \in DOMAIN Tests /\ len = IF FullSuite THEN 12 ELSE 1
      <4>1. /\ FullSuite <=> Len(Tests) = 12
            /\ Len(Tests) = 1 \/ Len(Tests) = 12
            /\ DOMAIN Tests = 1 .. Len(Tests)
        BY <2>1, SuiteFacts
      <4>2. Len(Tests) \in Nat /\ 1 \in DOMAIN Tests /\ Len(Tests) = IF FullSuite THEN 12 ELSE 1
        BY <4>1
      <4> QED
        BY <4>2
    <3>2. Since(r, 1) = len * reps
      <4>1. Since(r, 1) = (Len(Tests) + 1 - 1) * reps
        BY <2>1, <2>2, <3>1, EndedHasDone
      <4>2. Len(Tests) + 1 - 1 = len
        BY <3>1
      <4> QED
        BY <4>1, <4>2
    <3>3. leaked[r] = P * (len * reps) + (IF ~Program.tidy THEN P + S ELSE 0)
      BY <2>1, <2>2, <2>4, <3>2 DEF SuiteSound, RankOK, Leaks
    <3>4. Insertions(r) = len * reps * P
      BY <2>2, <3>1 DEF Insertions
    <3>5. P * (len * reps) = len * reps * P
      OBVIOUS
    <3> QED
      BY <2>2, <2>4, <3>3, <3>4, <3>5
  <2> QED
    BY <2>3, <2>4
<1> QED
  BY <1>1 DEF SuiteSound, Released

-----------------------------------------------------------------------------
\* What a report says of the input ------------------------------------------

(***************************************************************************)
(* Step y of test u, once rank r has taken it, shows something of the      *)
(* input.  A rank with nothing in the first file goes past the tests.  No  *)
(* file is closed, so that the number of open files follows, too, from     *)
(* where the rank is.                                                      *)
(***************************************************************************)
Passes(r, u, y) ==
  /\ y = "initGEOS" => ~(Tests[u].arrays > input.stack)
  /\ y = "insert" => /\ ~Nulls(Kept(FirstOf(r), Tests[u]))
                     /\ Program.readsInTests => input.first[r] # Missing
  /\ y = "read" => /\ Program.readsInTests => input.second # Missing
                   /\ ~(Tests[u].arrays >= 2 /\ Len(Kept(SecondOf, Tests[u])) > MaxGeoms)
  /\ y = "visit" => ~Nulls(SecondOf)
SkipsTests(r) == ~Program.readsInTests /\ Program.tidy /\ FirstOf(r) = <<>>
Openings(r) == SinceOf(r, 1, "insert") + SinceOf(r, 3, "read")

Shown(r) ==
  /\ ~SkipsTests(r) =>
       \A u \in DOMAIN Tests : \A y \in AllOf(Tests[u].steps) : Times(r, u, y) > 0 => Passes(r, u, y)
  /\ Program.readsInTests => opened[r] = Openings(r) /\ opened[r] \in Nat /\ opened[r] <= input.files
SuiteShown == DOMAIN opened = Processes /\ \A r \in Processes : Shown(r)

\* The tests that read the second file are the joins of a program that reads in
\* its tests.
LEMMA WhoReads ==
  ASSUME input \in Inputs
  PROVE  /\ \A u \in DOMAIN Tests : "read" \in AllOf(Tests[u].steps) => Program.readsInTests /\ u > 2
         /\ Program.readsInTests => /\ DOMAIN Tests = 1 .. 12 /\ Len(Tests) = 12
                                    /\ \A u \in 3 .. 12 : Tests[u].steps = Joining
         /\ \A y \in {"initGEOS", "insert", "read", "visit"} : y \in AllOf(Joining)
<1>1. /\ "read" \notin AllOf(Creating) /\ "read" \notin AllOf(Iterating) /\ "read" \notin AllOf(SpatialCreating)
      /\ "read" \notin AllOf(SpatialIterating) /\ "read" \notin AllOf(SpatialJoining)
  <2>1. "read" \notin AllOf(Creating)
    BY DEF AllOf, Creating
  <2>2. "read" \notin AllOf(Iterating)
    BY DEF AllOf, Iterating
  <2>3. "read" \notin AllOf(SpatialCreating)
    BY DEF AllOf, SpatialCreating
  <2>4. "read" \notin AllOf(SpatialIterating)
    BY DEF AllOf, SpatialIterating
  <2>5. "read" \notin AllOf(SpatialJoining)
    BY DEF AllOf, SpatialJoining
  <2> QED
    BY <2>1, <2>2, <2>3, <2>4, <2>5
<1>2. \A y \in {"initGEOS", "insert", "read", "visit"} : y \in AllOf(Joining)
  <2>1. /\ 1 \in DOMAIN Joining /\ 3 \in DOMAIN Joining /\ 4 \in DOMAIN Joining /\ 5 \in DOMAIN Joining
        /\ Joining[1] = "initGEOS" /\ Joining[3] = "insert" /\ Joining[4] = "read" /\ Joining[5] = "visit"
    BY DEF Joining
  <2> QED
    BY <2>1 DEF AllOf
<1>3. Program.readsInTests => DOMAIN Tests = 1 .. 12 /\ Len(Tests) = 12 /\ FullSuite
  BY SuiteFacts
<1>4. \A u \in DOMAIN Tests : /\ Tests[u].steps \in IF Program.readsInTests THEN ReadingLists ELSE VectorLists
                              /\ Tests[u].steps = Creating <=> Program.readsInTests /\ u = 1
                              /\ Tests[u].steps = Iterating <=> Program.readsInTests /\ u = 2
  BY SuiteFacts DEF TestOK
<1>5. \A u \in DOMAIN Tests : Tests[u].steps = Joining => Program.readsInTests /\ u # 1 /\ u # 2
  BY <1>4, ListsDiffer, ListsAre
<1>6. \A u \in DOMAIN Tests : "read" \in AllOf(Tests[u].steps) => Tests[u].steps = Joining
  BY <1>1, <1>4 DEF ReadingLists, VectorLists
<1>7. \A u \in 3 .. 12 : Program.readsInTests => Tests[u].steps = Joining
  <2> SUFFICES ASSUME NEW u \in 3 .. 12, Program.readsInTests PROVE Tests[u].steps = Joining
    OBVIOUS
  <2>1. u \in DOMAIN Tests /\ u # 1 /\ u # 2
    BY <1>3
  <2> QED
    BY <1>4, <2>1 DEF ReadingLists
<1>8. \A u \in DOMAIN Tests : Tests[u].steps = Joining => u > 2
  <2> SUFFICES ASSUME NEW u \in DOMAIN Tests, Tests[u].steps = Joining PROVE u > 2
    OBVIOUS
  <2>1. u \in 1 .. 12 /\ u # 1 /\ u # 2
    BY <1>3, <1>5
  <2> QED
    BY <2>1
<1> QED
  BY <1>2, <1>3, <1>5, <1>6, <1>7, <1>8

\* What is shown is shown of the input, which never changes.
LEMMA PassesFixed ==
  ASSUME input' = input
  PROVE  /\ \A r, u, y : Passes(r, u, y)' <=> Passes(r, u, y)
         /\ \A r : SkipsTests(r)' <=> SkipsTests(r)
<1>1. \A polygons, test : Kept(polygons, test)' = Kept(polygons, test)
  BY DEF Kept, Truncates
<1>2. \A polygons : Nulls(polygons)' <=> Nulls(polygons)
  BY DEF Nulls
<1>3. \A r, u, y : Passes(r, u, y)' <=> Passes(r, u, y)
  BY <1>1, <1>2, InputFixed DEF Passes
<1>4. \A r : SkipsTests(r)' <=> SkipsTests(r)
  BY InputFixed DEF SkipsTests
<1> QED
  BY <1>3, <1>4

\* A rank that stays where it is.
LEMMA StaysShown ==
  ASSUME input' = input, NEW q, Shown(q), at'[q] = at[q], opened'[q] = opened[q]
  PROVE  Shown(q)'
<1>1. /\ InTest(q)' <=> InTest(q)
      /\ TestOf(q)' = TestOf(q)
  BY InputFixed DEF InTest, TestOf
<1>2. DoneBy(q)' = DoneBy(q)
  BY <1>1 DEF DoneBy
<1>3. \A t, x : Times(q, t, x)' = Times(q, t, x) /\ SinceOf(q, t, x)' = SinceOf(q, t, x)
  BY <1>1, <1>2, InputFixed DEF Times, SinceOf
<1>4. Openings(q)' = Openings(q)
  BY <1>3 DEF Openings
<1> QED
  BY <1>3, <1>4, InputFixed, PassesFixed DEF Shown

\* What a step that has no fault shows.
LEMMA NoFaultShows ==
  ASSUME SuiteSound, NEW r \in Processes, InTest(r), Faults(r) = {}, NEW t, t = at[r].test
  PROVE  /\ Passes(r, t, Step(r))
         /\ Step(r) \in {"insert", "read"} /\ Program.readsInTests => opened[r] # input.files
<1>1. PICK x, D : x = Step(r) /\ D = DoneBy(r)
  OBVIOUS
<1>2. /\ t \in DOMAIN Tests /\ TestOK(t) /\ TestOf(r) = Tests[t] /\ Holding(r, t, D)
      /\ Orderly(Tests[t].steps, x, D)
  BY <1>1, InStep
<1>3. /\ "stack" \notin Faults(r) /\ "file" \notin Faults(r) /\ "null" \notin Faults(r) /\ "array" \notin Faults(r)
  OBVIOUS
<1>4. x = "initGEOS" => ~(Tests[t].arrays > input.stack)
  BY <1>1, <1>2, <1>3 DEF Faults
<1>5. /\ x = "insert" => ~CannotOpen(r, input.first[r])
      /\ x = "read" => ~CannotOpen(r, input.second)
  BY <1>1, <1>3 DEF Faults
<1>6. /\ x = "insert" => ~Nulls(Kept(FirstOf(r), Tests[t]))
      /\ x = "visit" => ~Nulls(second[r])
  BY <1>1, <1>2, <1>3 DEF Faults
<1>7. x = "read" => ~Overflows(r, SecondOf, 2)
  BY <1>1, <1>3 DEF Faults
<1>8. x = "visit" => second[r] = SecondOf
  BY <1>2 DEF Holding, Orderly, TestOK
<1>9. Passes(r, t, x)
  BY <1>2, <1>4, <1>5, <1>6, <1>7, <1>8 DEF Passes, CannotOpen, Overflows
<1> QED
  BY <1>1, <1>5, <1>9 DEF CannotOpen

-----------------------------------------------------------------------------
\* A step of a test keeps what is known.
LEMMA StepShows ==
  ASSUME SuiteSound, SuiteShown, NEW r \in Processes, InTest(r), Advance(r), Faults(r) = {}, input' = input,
         DOMAIN opened' = DOMAIN opened, \A q \in Processes : q # r => opened'[q] = opened[q],
         opened'[r] = IF Program.readsInTests /\ Step(r) \in {"insert", "read"} THEN opened[r] + 1 ELSE opened[r]
  PROVE  SuiteShown'
<1>1. SuiteTypes /\ Position(r) /\ input \in Inputs
  BY DEF SuiteSound, SuiteTypes, RankOK
<1>2. \A q \in Processes : q # r => at'[q] = at[q]
  BY <1>1, Advancing
<1>3. PICK t, x : t = at[r].test /\ x = Step(r)
  OBVIOUS
<1>4. t \in DOMAIN Tests /\ x \in AllOf(Tests[t].steps) /\ Passes(r, t, x)
  BY <1>3, InStep, NoFaultShows
<1>5. ASSUME ~SkipsTests(r), NEW u \in DOMAIN Tests, NEW y \in AllOf(Tests[u].steps), Times(r, u, y)' > 0
      PROVE  Passes(r, u, y)
  <2>1. Times(r, u, y) \in Nat /\ Times(r, u, y)' = Times(r, u, y) + (IF u = t /\ y = x THEN 1 ELSE 0)
    BY <1>1, <1>3, TimesMove
  <2>2. CASE u = t /\ y = x
    BY <1>4, <2>2
  <2>3. CASE ~(u = t /\ y = x)
    <3>1. Times(r, u, y) > 0
      BY <1>5, <2>1, <2>3
    <3> QED
      BY <1>5, <3>1 DEF SuiteShown, Shown
  <2> QED
    BY <2>2, <2>3
<1>6. ASSUME Program.readsInTests
      PROVE  opened'[r] = Openings(r)' /\ opened'[r] \in Nat /\ opened'[r] <= input.files
  <2>1. 1 \in DOMAIN Tests /\ 3 \in DOMAIN Tests /\ t \in 1 .. 12 /\ DOMAIN Tests = 1 .. 12
    BY <1>1, <1>4, <1>6, WhoReads
  <2>2. \A v \in DOMAIN Tests : v >= 1 => "insert" \in AllOf(Tests[v].steps)
    BY <1>1, SuiteFacts DEF TestOK, ListOK
  <2>3. \A v \in DOMAIN Tests : v >= 3 => "read" \in AllOf(Tests[v].steps)
    <3> SUFFICES ASSUME NEW v \in DOMAIN Tests, v >= 3 PROVE "read" \in AllOf(Tests[v].steps)
      OBVIOUS
    <3>1. v \in 3 .. 12
      BY <2>1
    <3> QED
      BY <1>1, <1>6, <3>1, WhoReads
  <2>4. PICK a \in Nat, b \in Nat : a = SinceOf(r, 1, "insert") /\ b = SinceOf(r, 3, "read")
    BY <1>1, <2>1, <2>2, <2>3, SinceOfMove
  <2>5. SinceOf(r, 1, "insert")' = a + (IF x = "insert" THEN 1 ELSE 0)
    <3>1. SinceOf(r, 1, "insert")' = SinceOf(r, 1, "insert") + (IF t >= 1 /\ x = "insert" THEN 1 ELSE 0)
      BY <1>1, <1>3, <2>1, <2>2, SinceOfMove
    <3> QED
      BY <2>1, <2>4, <3>1
  <2>6. SinceOf(r, 3, "read")' = b + (IF x = "read" THEN 1 ELSE 0)
    <3>1. SinceOf(r, 3, "read")' = SinceOf(r, 3, "read") + (IF t >= 3 /\ x = "read" THEN 1 ELSE 0)
      BY <1>1, <1>3, <2>1, <2>3, SinceOfMove
    <3>2. x = "read" => t >= 3
      BY <1>1, <1>4, <2>1, WhoReads
    <3> QED
      BY <2>4, <3>1, <3>2
  <2>7. opened[r] = a + b /\ a + b <= input.files
    BY <1>6, <2>4 DEF SuiteShown, Shown, Openings
  <2>8. PICK limit \in Nat : limit = input.files
    BY <1>1, InputsAssumption
  <2>9. x \in {"insert", "read"} => a + b # limit
    BY <1>3, <1>6, <2>7, <2>8, NoFaultShows
  <2>10. opened'[r] = (a + b) + (IF x \in {"insert", "read"} THEN 1 ELSE 0)
    BY <1>3, <1>6, <2>7
  <2>11. Openings(r)' = SinceOf(r, 1, "insert")' + SinceOf(r, 3, "read")'
    BY DEF Openings
  <2>12. opened'[r] = Openings(r)'
    BY <2>5, <2>6, <2>10, <2>11
  <2>13. opened'[r] <= limit /\ opened'[r] \in Nat
    BY <2>7, <2>8, <2>9, <2>10
  <2> QED
    BY <2>8, <2>12, <2>13
<1>7. Shown(r)'
  BY <1>5, <1>6, InputFixed, PassesFixed DEF Shown
<1>8. \A q \in Processes : q # r => Shown(q)'
  BY <1>2, StaysShown DEF SuiteShown
<1> QED
  BY <1>7, <1>8, InputFixed DEF SuiteShown

\* Nothing moves.
LEMMA NothingShows ==
  ASSUME SuiteShown, input' = input, at' = at, opened' = opened
  PROVE  SuiteShown'
BY StaysShown, InputFixed DEF SuiteShown

LEMMA LoadShows == ASSUME SuiteSound, SuiteShown, NEW r \in Processes, Load(r) PROVE SuiteShown'
<1>1. PICK empty \in BOOLEAN : empty <=> SkipsTests(r)
  OBVIOUS
<1>2. /\ input' = input /\ opened' = opened /\ input \in Inputs /\ at[r].test = 0 /\ at[r].pass = 1
      /\ at[r] \in Positions /\ at \in [Processes -> Positions] /\ ~InTest(r)
  <2>1. \A t \in DOMAIN Tests : t # 0
    BY SuiteFacts DEF SuiteSound, SuiteTypes
  <2>2. at[r].test = 0
    BY DEF Load
  <2>3. ~InTest(r)
    BY <2>1, <2>2 DEF InTest, Tests
  <2> QED
    BY <2>2, <2>3 DEF Load, SuiteSound, SuiteTypes, RankOK, Position
<1>3. \A q \in Processes : q # r => at'[q] = at[q]
  BY <1>2 DEF Load
<1>4. ~empty => at'[r].test = 1 /\ at'[r].pass = 1 /\ at'[r].step = 1
  <2>1. at[r].step = 1
    BY <1>2 DEF SuiteSound, RankOK, Position
  <2>2. at' = [at EXCEPT ![r].test = IF empty THEN Len(Program.tests) + 1 ELSE 1]
    BY <1>1 DEF Load, SkipsTests
  <2> QED
    BY <1>2, <2>1, <2>2 DEF Positions
<1>5. ~empty => \A u \in DOMAIN Tests : \A y : Times(r, u, y)' = 0 /\ SinceOf(r, u, y)' = 0
  <2> SUFFICES ASSUME ~empty, NEW u \in DOMAIN Tests, NEW y
               PROVE  Times(r, u, y)' = 0 /\ SinceOf(r, u, y)' = 0
    OBVIOUS
  <2>1. DoneBy(r)' = {}
    BY <1>4, NoneRan DEF DoneBy
  <2>2. DOMAIN Tests = 1 .. Len(Tests) /\ Len(Tests) \in Nat \ {0}
    BY <1>2, SuiteFacts
  <2>3. InTest(r)' /\ u \in Nat \ {0}
    BY <1>2, <1>4, <2>2, InputFixed DEF InTest, Tests
  <2>4. PICK reps \in Nat : reps = input.n
    BY <1>2, InputFacts
  <2>5. Times(r, u, y)' = 0
    BY <1>4, <2>1, <2>3 DEF Times
  <2>6. SinceOf(r, u, y)' = IF 1 < u THEN 0 ELSE (1 - u) * reps + (1 - 1) + 0
    BY <1>2, <1>4, <2>1, <2>3, <2>4 DEF SinceOf
  <2>7. u = 1 => (1 - u) * reps = 0
    OBVIOUS
  <2>8. SinceOf(r, u, y)' = 0
    BY <2>3, <2>6, <2>7
  <2> QED
    BY <2>5, <2>8
<1>6. Program.readsInTests => opened[r] = 0 /\ ~empty /\ 1 \in DOMAIN Tests /\ 3 \in DOMAIN Tests
  <2>1. SinceOf(r, 1, "insert") = 0 /\ SinceOf(r, 3, "read") = 0
    BY <1>2 DEF SinceOf
  <2> QED
    BY <1>1, <1>2, <2>1, WhoReads DEF SkipsTests, SuiteShown, Shown, Openings
<1>7. Shown(r)'
  <2>1. ASSUME ~SkipsTests(r), NEW u \in DOMAIN Tests, NEW y \in AllOf(Tests[u].steps), Times(r, u, y)' > 0
        PROVE  Passes(r, u, y)
    <3>1. Times(r, u, y)' = 0
      BY <1>1, <1>5, <2>1
    <3> QED
      BY <2>1, <3>1
  <2>2. Program.readsInTests =>
          opened'[r] = Openings(r)' /\ opened'[r] \in Nat /\ opened'[r] <= input.files
    <3>1. Program.readsInTests => Openings(r)' = 0
      BY <1>5, <1>6 DEF Openings
    <3>2. Program.readsInTests => opened'[r] = 0 /\ opened[r] <= input.files
      BY <1>2, <1>6 DEF SuiteShown, Shown
    <3> QED
      BY <1>2, <1>6, <3>1, <3>2
  <2> QED
    BY <1>2, <2>1, <2>2, InputFixed, PassesFixed DEF Shown
<1>8. \A q \in Processes : q # r => Shown(q)'
  BY <1>2, <1>3, StaysShown DEF SuiteShown
<1> QED
  BY <1>2, <1>7, <1>8, InputFixed DEF SuiteShown

LEMMA ReleaseShows == ASSUME SuiteSound, SuiteShown, NEW r \in Processes, Release(r) PROVE SuiteShown'
<1>1. /\ input' = input /\ opened' = opened /\ input \in Inputs /\ at \in [Processes -> Positions]
      /\ at' = [at EXCEPT ![r].test = @ + 1] /\ AtEnd(r)
  BY DEF Release, SuiteSound, SuiteTypes
<1>2. PICK len \in Nat : len = Len(Tests) /\ DOMAIN Tests = 1 .. len
  BY <1>1, SuiteFacts
<1>3. at[r].test = len + 1 /\ at'[r].test = len + 2 /\ \A q \in Processes : q # r => at'[q] = at[q]
  BY <1>1, <1>2 DEF AtEnd, Tests, Positions
<1>4. ~InTest(r) /\ ~InTest(r)'
  BY <1>1, <1>2, <1>3, InputFixed DEF InTest, Tests
<1>5. \A u \in DOMAIN Tests : \A y : Times(r, u, y)' = Times(r, u, y) /\ SinceOf(r, u, y)' = SinceOf(r, u, y)
  <2> SUFFICES ASSUME NEW u \in DOMAIN Tests, NEW y
               PROVE  Times(r, u, y)' = Times(r, u, y) /\ SinceOf(r, u, y)' = SinceOf(r, u, y)
    OBVIOUS
  <2>1. at[r].test > u /\ at'[r].test > u /\ ~(at[r].test < u) /\ ~(at'[r].test < u)
    BY <1>2, <1>3
  <2>2. Times(r, u, y)' = Times(r, u, y)
    BY <1>1, <2>1 DEF Times
  <2>3. SinceOf(r, u, y)' = SinceOf(r, u, y)
    BY <1>1, <1>4, <2>1, InputFixed DEF SinceOf
  <2> QED
    BY <2>2, <2>3
<1>6. Program.readsInTests => Openings(r)' = Openings(r)
  BY <1>1, <1>5, WhoReads DEF Openings
<1>7. Shown(r)'
  BY <1>1, <1>5, <1>6, InputFixed, PassesFixed DEF Shown, SuiteShown
<1>8. \A q \in Processes : q # r => Shown(q)'
  BY <1>1, <1>3, StaysShown DEF SuiteShown
<1> QED
  BY <1>1, <1>7, <1>8, InputFixed DEF SuiteShown

\* The steps of the tests that open no file.
LEMMA QuietShows ==
  ASSUME SuiteSound, SuiteShown, NEW r \in Processes, InTest(r), Advance(r), Faults(r) = {}, input' = input,
         opened' = opened, Step(r) \notin {"insert", "read"}
  PROVE  SuiteShown'
BY StepShows

LEMMA InsertShows == ASSUME SuiteSound, SuiteShown, NEW r \in Processes, Insert(r) PROVE SuiteShown'
<1>1. InTest(r) /\ Advance(r) /\ Faults(r) = {} /\ input' = input /\ Step(r) = "insert"
  BY DEF Insert, Runs, Step
<1>2. opened' = [opened EXCEPT ![r] = IF Program.readsInTests THEN @ + 1 ELSE @] /\ DOMAIN opened = Processes
  BY DEF Insert, SuiteShown
<1>3. /\ DOMAIN opened' = DOMAIN opened
      /\ \A q \in Processes : q # r => opened'[q] = opened[q]
      /\ opened'[r] = IF Program.readsInTests THEN opened[r] + 1 ELSE opened[r]
  BY <1>2
<1> QED
  BY <1>1, <1>3, StepShows

LEMMA ReadShows == ASSUME SuiteSound, SuiteShown, NEW r \in Processes, Read(r) PROVE SuiteShown'
<1>1. InTest(r) /\ Advance(r) /\ Faults(r) = {} /\ input' = input /\ Step(r) = "read"
  BY DEF Read, Runs, Step
<1>2. opened' = [opened EXCEPT ![r] = @ + 1] /\ DOMAIN opened = Processes
  BY DEF Read, SuiteShown
<1>3. /\ DOMAIN opened' = DOMAIN opened
      /\ \A q \in Processes : q # r => opened'[q] = opened[q]
      /\ opened'[r] = opened[r] + 1
  BY <1>2
<1>4. Program.readsInTests
  BY <1>1, InStep, WhoReads DEF SuiteSound, SuiteTypes
<1> QED
  BY <1>1, <1>3, <1>4, StepShows

LEMMA SuiteStepShows == ASSUME SuiteSound, SuiteShown, [SuiteNext]_suiteVars PROVE SuiteShown'
<1>1. ASSUME NEW r \in Processes, Rank(r) PROVE SuiteShown'
  <2>1. CASE initGEOS(r)
    BY <2>1, QuietShows DEF initGEOS, Runs, Step
  <2>2. CASE Create(r)
    BY <2>2, QuietShows DEF Create, Runs, Step
  <2>3. CASE Iterate(r)
    BY <2>3, QuietShows DEF Iterate, Runs, Step
  <2>4. CASE Visit(r)
    <3>1. /\ InTest(r) /\ Step(r) = "visit" /\ Faults(r) = {} /\ input' = input /\ opened' = opened
          /\ Advance(r) \/ at' = at
      BY <2>4 DEF Visit, Runs, Step
    <3> QED
      BY <3>1, QuietShows, NothingShows
  <2>5. CASE DestroySecond(r)
    BY <2>5, QuietShows DEF DestroySecond, Runs, Step
  <2>6. CASE DestroyTree(r)
    BY <2>6, QuietShows DEF DestroyTree, Runs, Step
  <2>7. CASE DestroyFirst(r)
    BY <2>7, QuietShows DEF DestroyFirst, Runs, Step
  <2>8. CASE finishGEOS(r)
    BY <2>8, QuietShows DEF finishGEOS, Runs, Step
  <2>9. CASE Crash(r)
    BY <2>9, NothingShows DEF Crash
  <2> QED
    BY <1>1, <2>1, <2>2, <2>3, <2>4, <2>5, <2>6, <2>7, <2>8, <2>9, LoadShows, InsertShows, ReadShows,
       ReleaseShows DEF Rank
<1>2. CASE Report
  BY <1>2, NothingShows DEF Report
<1>3. CASE UNCHANGED suiteVars
  BY <1>3, NothingShows DEF suiteVars
<1> QED
  BY <1>1, <1>2, <1>3 DEF SuiteNext

\* At the start nothing has been shown.
LEMMA SuiteInitShows == ASSUME SuiteInit PROVE SuiteShown
<1>1. input \in Inputs /\ DOMAIN opened = Processes
  BY DEF SuiteInit
<1>2. ASSUME NEW r \in Processes PROVE Shown(r)
  <2>1. at[r].test = 0 /\ opened[r] = 0
    BY DEF SuiteInit, Begin
  <2>2. PICK len \in Nat : len = Len(Tests) /\ DOMAIN Tests = 1 .. len
    BY <1>1, SuiteFacts
  <2>3. \A u \in DOMAIN Tests : \A y : Times(r, u, y) = 0
    BY <2>1, <2>2 DEF Times
  <2>4. SinceOf(r, 1, "insert") = 0 /\ SinceOf(r, 3, "read") = 0
    BY <2>1 DEF SinceOf
  <2>5. Openings(r) = 0 /\ input.files \in Nat
    BY <1>1, <2>4, InputsAssumption DEF Openings
  <2> QED
    BY <2>1, <2>3, <2>5 DEF Shown
<1> QED
  BY <1>1, <1>2 DEF SuiteShown

-----------------------------------------------------------------------------
\* A rank that has ended has taken every step of every test, and so has shown
\* all that makes its input suitable.
LEMMA EndedHasShown ==
  ASSUME SuiteSound, SuiteShown, NEW r \in Processes, Ended(r)
  PROVE  /\ ~SkipsTests(r) => \A u \in DOMAIN Tests : \A y \in AllOf(Tests[u].steps) : Passes(r, u, y)
         /\ Program.readsInTests => 22 * input.n <= input.files
<1>1. input \in Inputs /\ input.n \in Nat \ {0}
  BY InputFacts DEF SuiteSound, SuiteTypes
<1>2. \A u \in DOMAIN Tests : \A y : Times(r, u, y) = input.n
  BY EndedHasDone
<1>3. ~SkipsTests(r) => \A u \in DOMAIN Tests : \A y \in AllOf(Tests[u].steps) : Passes(r, u, y)
  BY <1>1, <1>2 DEF SuiteShown, Shown
<1>4. ASSUME Program.readsInTests PROVE 22 * input.n <= input.files
  <2>1. Len(Tests) = 12 /\ DOMAIN Tests = 1 .. 12
    BY <1>1, <1>4, WhoReads
  <2>2. at[r].test = 14 /\ ~InTest(r)
    BY <2>1 DEF Ended, InTest, Tests
  <2>3. PICK reps \in Nat : reps = input.n
    BY <1>1
  <2>4. SinceOf(r, 1, "insert") = (12 + 1 - 1) * reps /\ SinceOf(r, 3, "read") = (12 + 1 - 3) * reps
    BY <2>1, <2>2, <2>3 DEF SinceOf
  <2>5. Openings(r) = 22 * reps
    BY <2>4 DEF Openings
  <2> QED
    BY <1>4, <2>3, <2>5 DEF SuiteShown, Shown
<1> QED
  BY <1>3, <1>4

\* The first and the third test of a program that reads in its tests.
LEMMA TestsRead ==
  ASSUME input \in Inputs, Program.readsInTests
  PROVE  /\ input.program \in ReadingPrograms
         /\ Tests[3].arrays = IF input.program = "geos_benchmark_mpi" THEN 2 ELSE 1
<1>1. input.program \in ReadingPrograms
  BY InputFacts DEF ProgramOK
<1>2. Tests = Programs[input.program].tests
  BY DEF Tests, Program
<1>3. geos_benchmark.tests[3].arrays = 1
  <2>1. geos_benchmark.tests[3] = sequential_query
    BY DEF geos_benchmark
  <2> QED
    BY <2>1 DEF sequential_query, Test
<1>4. geos_benchmark_mpi.tests[3].arrays = 2
  <2>1. geos_benchmark_mpi.tests[3] = mpi_query
    BY DEF geos_benchmark_mpi
  <2> QED
    BY <2>1 DEF mpi_query, Test
<1> QED
  BY <1>1, <1>2, <1>3, <1>4, ProgramsAre DEF ReadingPrograms

\* The safety part of ReportsIfSuitable.
OnlySuitable == reported => Suitable

LEMMA ShownIsSuitable == ASSUME SuiteSound, SuiteShown PROVE OnlySuitable
<1> SUFFICES ASSUME reported PROVE Suitable
  BY DEF OnlySuitable
<1>1. input \in Inputs /\ (\A r \in Processes : Ended(r)) /\ 0 \in Processes
  BY InputsAssumption DEF SuiteSound, SuiteTypes, Processes
<1>2. PICK len \in {1, 12} : len = Len(Tests) /\ DOMAIN Tests = 1 .. len /\ (FullSuite <=> len = 12)
  BY <1>1, SuiteFacts
<1>3. TestOK(1) /\ TestOK(len)
  <2>1. \A t \in DOMAIN Tests : TestOK(t)
    BY <1>1, SuiteFacts
  <2> QED
    BY <1>2, <2>1
<1>4. "insert" \in AllOf(Tests[1].steps) /\ ~Truncates(Tests[1])
  BY <1>3 DEF TestOK, ListOK, Truncates
<1>5. "visit" \in AllOf(Tests[len].steps)
  <2>1. ~FullSuite \/ len > 2
    <3>1. 12 > 2
      OBVIOUS
    <3> QED
      BY <1>2, <3>1
  <2>2. Tests[len].steps \in {Joining, SpatialJoining}
    BY <1>3, <2>1 DEF TestOK
  <2> QED
    BY <1>3, <2>2 DEF TestOK, ListOK
<1>6. ASSUME NEW r \in Processes
      PROVE  /\ ~Nulls(FirstOf(r))
             /\ ~SkipsTests(r) => ~Nulls(SecondOf)
             /\ Program.readsInTests => input.first[r] # Missing
  <2>1. CASE SkipsTests(r)
    <3>1. FirstOf(r) = <<>> /\ ~Program.readsInTests
      BY <2>1 DEF SkipsTests
    <3>2. ~Nulls(<<>>)
      BY DEF Nulls
    <3> QED
      BY <2>1, <3>1, <3>2
  <2>2. CASE ~SkipsTests(r)
    <3>1. Passes(r, 1, "insert") /\ Passes(r, len, "visit")
      BY <1>1, <1>2, <1>4, <1>5, <2>2, EndedHasShown
    <3>2. Kept(FirstOf(r), Tests[1]) = FirstOf(r)
      BY <1>4 DEF Kept
    <3> QED
      BY <3>1, <3>2 DEF Passes
  <2> QED
    BY <2>1, <2>2
<1>7. Nulls(SecondOf) => Program.tidy /\ ~Program.readsInTests /\ \A r \in Processes : FirstOf(r) = <<>>
  BY <1>1, <1>6 DEF SkipsTests
<1>8. ASSUME Program.readsInTests
      PROVE  /\ input.second # Missing /\ \A r \in Processes : input.first[r] # Missing
             /\ \A r \in Processes : Polygons(r) <= MaxGeoms
             /\ 22 * input.n <= input.files
             /\ input.stack >= IF input.program = "geos_benchmark_mpi" THEN 2 ELSE 1
             /\ input.program = "geos_benchmark_mpi" => Len(SecondOf) <= MaxGeoms
  <2>1. 3 \in DOMAIN Tests /\ Tests[3].steps = Joining
    BY <1>1, <1>8, WhoReads
  <2>2. /\ "initGEOS" \in AllOf(Tests[3].steps) /\ "insert" \in AllOf(Tests[3].steps)
        /\ "read" \in AllOf(Tests[3].steps)
    BY <1>1, <2>1, WhoReads
  <2>3. Passes(0, 3, "initGEOS") /\ Passes(0, 3, "read") /\ 22 * input.n <= input.files
    <3>1. ~SkipsTests(0)
      BY <1>8 DEF SkipsTests
    <3> QED
      BY <1>1, <1>8, <2>1, <2>2, <3>1, EndedHasShown
  <2>4. Kept(SecondOf, Tests[3]) = SecondOf
    BY <2>1, ListsDiffer DEF Kept, Truncates
  <2>5. Tests[3].arrays = IF input.program = "geos_benchmark_mpi" THEN 2 ELSE 1
    BY <1>1, <1>8, TestsRead
  <2>6. PICK stack \in Nat, S \in Nat, room \in Nat : stack = input.stack /\ S = Len(SecondOf) /\ room = MaxGeoms
    BY <1>1, InputFacts, InputsAssumption
  <2>7. input.stack >= IF input.program = "geos_benchmark_mpi" THEN 2 ELSE 1
    <3>1. ~(Tests[3].arrays > stack)
      BY <2>3, <2>6 DEF Passes
    <3> QED
      BY <2>5, <2>6, <3>1
  <2>8. input.program = "geos_benchmark_mpi" => Len(SecondOf) <= MaxGeoms
    <3>1. ~(Tests[3].arrays >= 2 /\ S > room)
      BY <2>3, <2>4, <2>6 DEF Passes
    <3> QED
      BY <2>5, <2>6, <3>1
  <2>9. input.second # Missing /\ \A r \in Processes : input.first[r] # Missing
    BY <1>6, <1>8, <2>3 DEF Passes
  <2>10. ASSUME NEW r \in Processes PROVE Polygons(r) <= MaxGeoms
    <3>1. Times(r, 3, "insert") = input.n
      BY <1>1, <2>1, EndedHasDone
    <3>2. input.n > 0
      BY <1>1, InputFacts
    <3> QED
      BY <1>8, <3>1, <3>2 DEF SuiteSound, RankOK, Fit
  <2> QED
    BY <2>3, <2>7, <2>8, <2>9, <2>10
<1> QED
  BY <1>6, <1>7, <1>8 DEF Suitable

\* All is always well: what a rank holds, has leaked and has counted follows from
\* where it is.
THEOREM SuiteSoundAlways == SuiteSpec => []SuiteSound
<1> QED
  BY SuiteInitSound, SuiteStepSound, PTL DEF SuiteSpec

\* The report of a suite, for every input: each of its predicates has been
\* evaluated n times for each pair of polygons (call_back_* of all tests).
THEOREM EveryPairAlways == SuiteSpec => []EveryPair
<1> QED
  BY SuiteSoundAlways, SuiteSoundEveryPair, PTL

\* The lives of trees, handles and polygons, for every input: nothing is used
\* before it is made or after it is released, and what is lost is counted.
THEOREM ReleasedAlways == SuiteSpec => []Released
<1> QED
  BY SuiteSoundAlways, SuiteSoundReleased, PTL

\* What a report says of the files, for every input: all were there in every rank,
\* parsed and in number what the arrays, the stack and the limit of open files
\* allow.  The tests of geos_benchmark_mpi check nothing of this (query).
THEOREM OnlySuitableAlways == SuiteSpec => []OnlySuitable
<1>1. SuiteInit => SuiteShown
  BY SuiteInitShows
<1>2. SuiteSound /\ SuiteShown /\ [SuiteNext]_suiteVars => SuiteShown'
  BY SuiteStepShows
<1>3. SuiteSound /\ SuiteShown => OnlySuitable
  BY ShownIsSuitable
<1> QED
  BY <1>1, <1>2, <1>3, SuiteSoundAlways, PTL DEF SuiteSpec
=============================================================================

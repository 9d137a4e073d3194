--------------------------- MODULE JobQueueProofs ---------------------------
(***************************************************************************)
(* The server of the job-queue programs has only the last job and those of *)
(* failed calls under way; a thread that has the queue to itself takes     *)
(* every job once; and threads that share it deal with as many jobs as     *)
(* there are, for every number of jobs and threads.                        *)
(*                                                                         *)
(* The last needs what a recursive sum over the jobs comes to: it is the   *)
(* size of a set (Units), by a least counterexample among the subsets of   *)
(* the jobs (Minimal).                                                     *)
(***************************************************************************)
EXTENDS JobQueue, Integers, FiniteSetTheorems, WellFoundedInduction, TLAPS

Stage == {"called", "init", "work", "finish", "done"}

\* The types the argument needs; lb_mt_server has two stages fewer.
HostTypes ==
  /\ program.server \in {"exp6_server", "lb_mt_server"}
  /\ at = [w \in Threads |-> at[w]]
  /\ work \in [Threads -> Nat] /\ from \in [Threads -> Nat] /\ head \in Nat
  /\ sent \in Seq(Nat) /\ serving \in Seq(Stage) /\ Len(sent) = Len(serving)
  /\ \A n \in DOMAIN serving :
       program.server = "lb_mt_server" => serving[n] \notin {"init", "finish"}

\* Only the last job sent may be under way, and then the sender waits for it,
\* and those whose calls have failed.
OneUnderWay ==
  \A n \in DOMAIN serving :
    serving[n] # "done" => n \in failed \/ (n = Len(serving) /\ at[Sender] = "waiting")

\* Nobody can have finished the handle a handler uses.
OwnHandle == failed = {} \/ program.perThread

HandleKept ==
  /\ "server" \notin undefined
  /\ \A n \in DOMAIN serving :
       serving[n] = "work" /\ program.server = "exp6_server" => Handler(n) \in handles

HostInv == HostTypes /\ OneUnderWay /\ (OwnHandle => HandleKept)
-----------------------------------------------------------------------------
\* The stages of the two servers, in order.
LEMMA Stages2 ==
  /\ program.server = "exp6_server" =>
       /\ Server.start_test[1] = "init"
       /\ Following(Server.start_test, "init", "done") = "work"
       /\ Following(Server.start_test, "work", "done") = "finish"
       /\ Following(Server.start_test, "finish", "done") = "done"
  /\ program.server = "lb_mt_server" =>
       /\ Server.start_test[1] = "work"
       /\ Following(Server.start_test, "work", "done") = "done"
<1>1. ASSUME program.server = "exp6_server"
      PROVE  /\ Server.start_test[1] = "init"
             /\ Following(Server.start_test, "init", "done") = "work"
             /\ Following(Server.start_test, "work", "done") = "finish"
             /\ Following(Server.start_test, "finish", "done") = "done"
  <2>1. Server.start_test = <<"init", "work", "finish">>
    BY <1>1 DEF Server, Servers, exp6_server
  <2> DEFINE s == <<"init", "work", "finish">>
  <2>2. DOMAIN s = {1, 2, 3}
    OBVIOUS
  <2>3. /\ (CHOOSE k \in DOMAIN s : s[k] = "init") = 1
        /\ (CHOOSE k \in DOMAIN s : s[k] = "work") = 2
        /\ (CHOOSE k \in DOMAIN s : s[k] = "finish") = 3
    BY <2>2
  <2> QED
    BY <2>1, <2>2, <2>3 DEF Following
<1>2. ASSUME program.server = "lb_mt_server"
      PROVE  /\ Server.start_test[1] = "work"
             /\ Following(Server.start_test, "work", "done") = "done"
  <2>1. Server.start_test = <<"work">>
    BY <1>2 DEF Server, Servers, lb_mt_server
  <2> DEFINE s == <<"work">>
  <2>2. DOMAIN s = {1}
    OBVIOUS
  <2>3. (CHOOSE k \in DOMAIN s : s[k] = "work") = 1
    BY <2>2
  <2> QED
    BY <2>1, <2>2, <2>3 DEF Following
<1> QED
  BY <1>1, <1>2

LEMMA HostInit == Init => HostInv
<1> SUFFICES ASSUME Init PROVE HostInv
  OBVIOUS
<1>1. program.server \in {"exp6_server", "lb_mt_server"}
  BY DEF Init, Servers
<1> QED
  BY <1>1 DEF Init, HostInv, HostTypes, OneUnderWay, HandleKept

\* A thread of the client does not touch what the server does: the handles it
\* initialises and finishes are of its own process.
LEMMA HostWork ==
  ASSUME HostInv, NEW w \in Threads, Work(w)
  PROVE  HostInv'
<1>1. UNCHANGED <<program, serverVars>>
  BY DEF Work, Empty, Front, Pop, Advance, Misread, initGEOS, finishGEOS, start_test, AddTime
<1>2. at' = [u \in Threads |-> at'[u]] /\ (at[Sender] = "waiting" => at'[Sender] = "waiting")
  BY DEF HostInv, HostTypes, Threads, Work, Empty, Front, Pop, Advance, Misread, initGEOS,
         finishGEOS, start_test, AddTime, Goes, GoesOn, clientVars
<1>3. work' \in [Threads -> Nat] /\ from' \in [Threads -> Nat] /\ head' \in Nat
  <2>1. work \in [Threads -> Nat] /\ from \in [Threads -> Nat] /\ head \in Nat /\ from[w] \in Nat
    BY DEF HostInv, HostTypes
  <2>2. CASE Front(w)
    BY <2>1, <2>2 DEF Front, queueVars
  <2>3. CASE Pop(w)
    BY <2>1, <2>3 DEF Pop
  <2>4. CASE Advance(w)
    BY <2>1, <2>4 DEF Advance
  <2>5. CASE Empty(w) \/ Misread(w) \/ initGEOS(w) \/ finishGEOS(w) \/ start_test(w) \/ AddTime(w)
    BY <2>1, <2>5 DEF Empty, Misread, initGEOS, finishGEOS, start_test, AddTime, clientVars, queueVars
  <2> QED
    BY <2>2, <2>3, <2>4, <2>5 DEF Work
<1>4. \A n : (Handler(n) \in handles) => (Handler(n) \in handles)'
  BY <1>1 DEF Work, Empty, Front, Pop, Advance, Misread, initGEOS, finishGEOS, start_test, AddTime,
         Handler, Owner, OwnerOf
<1>5. "server" \notin undefined => "server" \notin undefined'
  BY DEF Work, Empty, Front, Pop, Advance, Misread, initGEOS, finishGEOS, start_test, AddTime
<1>6. HostTypes' /\ OneUnderWay'
  BY <1>1, <1>2, <1>3 DEF HostInv, HostTypes, OneUnderWay, serverVars
<1>7. OwnHandle' => HandleKept'
  BY <1>1, <1>4, <1>5 DEF HostInv, OwnHandle, HandleKept, serverVars
<1> QED
  BY <1>6, <1>7 DEF HostInv

\* The sender sends a job only when it waits for none.
LEMMA HostSends == HostInv /\ SayHello => HostInv'
<1> SUFFICES ASSUME HostInv, SayHello PROVE HostInv'
  OBVIOUS
<1>1. Sender \in Threads
  BY DEF Threads
<1>2. Len(serving') = Len(serving) + 1 /\ serving'[Len(serving) + 1] = "called"
      /\ \A n \in 1 .. Len(serving) : serving'[n] = serving[n]
  BY DEF HostInv, HostTypes, SayHello, Stage
<1>3. /\ sent' \in Seq(Nat) /\ Len(sent') = Len(serving')
      /\ serving' \in Seq(Stage) /\ DOMAIN serving' = 1 .. Len(serving) + 1
  BY <1>1, <1>2 DEF HostInv, HostTypes, SayHello, Stage
<1>4. at' = [w \in Threads |-> at'[w]] /\ at[Sender] = "send" /\ at'[Sender] = "waiting"
  BY <1>1 DEF HostInv, HostTypes, SayHello, Goes
<1>5. \A n \in DOMAIN serving' :
        program'.server = "lb_mt_server" => serving'[n] \notin {"init", "finish"}
  BY <1>2, <1>3 DEF HostInv, HostTypes, SayHello
<1>6. HostTypes'
  BY <1>3, <1>4, <1>5 DEF HostInv, HostTypes, SayHello, queueVars
<1>7. OneUnderWay'
  <2>1. \A n \in 1 .. Len(serving) : serving'[n] = "done" \/ n \in failed
    BY <1>2, <1>4 DEF HostInv, HostTypes, OneUnderWay
  <2> QED
    BY <1>2, <1>3, <1>4, <2>1 DEF OneUnderWay, SayHello
<1>8. OwnHandle' => HandleKept'
  BY <1>2, <1>3 DEF HostInv, HostTypes, OwnHandle, HandleKept, SayHello, Handler, OwnerOf
<1> QED
  BY <1>6, <1>7, <1>8 DEF HostInv

\* A call returns when its job is done, or fails.
LEMMA HostReplies == HostInv /\ Reply => HostInv'
<1> SUFFICES ASSUME HostInv, Reply PROVE HostInv'
  OBVIOUS
<1>1. HostTypes'
  BY DEF HostInv, HostTypes, Reply, Goes, queueVars, Threads
<1>2. failed \subseteq failed' /\ (Len(serving) \in failed' \/ serving[Len(serving)] = "done")
  BY DEF HostInv, HostTypes, Reply
<1>3. OneUnderWay'
  BY <1>2 DEF HostInv, HostTypes, OneUnderWay, Reply
<1>4. OwnHandle' => HandleKept'
  BY <1>2 DEF HostInv, OwnHandle, HandleKept, Reply, Handler, OwnerOf
<1> QED
  BY <1>1, <1>3, <1>4 DEF HostInv

\* While a handler initialises, uses and finishes its handle all others are done,
\* or have handles of their own.
LEMMA HostServes ==
  ASSUME HostInv, NEW n \in DOMAIN serving, Proceed(n)
  PROVE  HostInv'
<1> DEFINE next == serving'[n]
<1>0. n \in 1 .. Len(serving) /\ serving[n] \in {"called", "init", "work", "finish"}
  BY DEF HostInv, HostTypes, Proceed, Stage
<1>1. /\ program.server = "exp6_server" =>
           next = CASE serving[n] = "called" -> "init" [] serving[n] = "init" -> "work"
                    [] serving[n] = "work" -> "finish" [] OTHER -> "done"
      /\ program.server = "lb_mt_server" =>
           next = IF serving[n] = "called" THEN "work" ELSE "done"
  BY <1>0, Stages2 DEF HostInv, HostTypes, Proceed
<1>2. /\ next \in Stage
      /\ program.server = "lb_mt_server" => next \notin {"init", "finish"}
  BY <1>0, <1>1 DEF HostInv, HostTypes, Stage
<1>3. /\ serving' \in Seq(Stage) /\ Len(serving') = Len(serving)
      /\ \A m \in DOMAIN serving : m # n => serving'[m] = serving[m]
  BY <1>0, <1>2 DEF HostInv, HostTypes, Proceed
<1>4. HostTypes'
  BY <1>2, <1>3 DEF HostInv, HostTypes, Proceed, clientVars, queueVars
<1>5. OneUnderWay'
  BY <1>0, <1>3, <1>4 DEF Proceed, clientVars, HostInv, HostTypes, OneUnderWay
<1>6. ASSUME OwnHandle' PROVE HandleKept'
  <2>1. OwnHandle /\ HandleKept
    BY <1>6 DEF HostInv, OwnHandle, Proceed
  <2>2. "server" \notin undefined'
    BY <2>1, Stages2 DEF HostInv, HostTypes, HandleKept, Proceed, Usable
  <2>3. next = "work" /\ program.server = "exp6_server" => Handler(n) \in handles'
    BY <1>0, <1>1 DEF Proceed, HostInv, HostTypes
  <2>4. ASSUME NEW m \in DOMAIN serving, m # n, serving[m] = "work", program.server = "exp6_server"
        PROVE  Handler(m) \in handles'
    <3>1. Handler(m) \in handles
      BY <2>1, <2>4 DEF HandleKept
    <3>2. CASE program.perThread
      <4>1. Handler(m) # Handler(n)
        BY <2>4, <3>2 DEF Handler, OwnerOf
      <4> QED
        BY <3>1, <4>1 DEF Proceed
    <3>3. CASE ~program.perThread
      <4>1. failed = {}
        BY <2>1, <3>3 DEF OwnHandle
      <4>2. m = Len(serving) /\ n = Len(serving)
        BY <1>0, <2>4, <4>1 DEF HostInv, OneUnderWay
      <4> QED
        BY <2>4, <4>2
    <3> QED
      BY <3>2, <3>3
  <2>5. \A m \in DOMAIN serving' :
          serving'[m] = "work" /\ program'.server = "exp6_server" => (Handler(m) \in handles)'
    BY <1>3, <1>4, <2>3, <2>4 DEF Proceed, Handler, OwnerOf, HostInv, HostTypes
  <2> QED
    BY <2>2, <2>5 DEF HandleKept
<1> QED
  BY <1>4, <1>5, <1>6 DEF HostInv

LEMMA HostNext == HostInv /\ [Next]_vars => HostInv'
<1> SUFFICES ASSUME HostInv, [Next]_vars PROVE HostInv'
  OBVIOUS
<1>1. CASE \E w \in Threads : Work(w)
  BY <1>1, HostWork
<1>2. CASE SayHello
  BY <1>2, HostSends
<1>3. CASE Reply
  BY <1>3, HostReplies
<1>4. CASE Serve
  BY <1>4, HostServes DEF Serve
<1>5. CASE UNCHANGED vars
  BY <1>5 DEF vars, clientVars, queueVars, serverVars, HostInv, HostTypes, OneUnderWay, OwnHandle,
              HandleKept, Handler, OwnerOf
<1> QED
  BY <1>1, <1>2, <1>3, <1>4, <1>5 DEF Next

\* At the server only the last job sent and those whose calls have failed are
\* under way, and a handler uses a handle that another has finished only after
\* a call has failed, and only if the handle is the process's (start_test of
\* exp6_server, sendWork of exp6_client).
THEOREM HostServesOneAtATimeAlways == Spec => []HostServesOneAtATime
<1>1. HostInv => HostServesOneAtATime
  BY DEF HostInv, HostTypes, OneUnderWay, OwnHandle, HandleKept, HostServesOneAtATime
<1> QED
  BY <1>1, HostInit, HostNext, PTL DEF Spec
-----------------------------------------------------------------------------
\* A thread alone -----------------------------------------------------------

Taking == {"empty", "front", "pop", "advance", "ended"}
Running == {"init", "work", "load", "store", "finish"}
Sending == {"send", "waiting"}

\* The jobs that the thread has dealt with are those it has taken, but for the
\* one it has not yet run, or sent, or added to the total.
Behind(op, before, taken) == IF op \in before THEN taken - 1 ELSE taken

\* Where the thread is in the queue.
Place(a) ==
  /\ head \in 1 .. Jobs + 1
  /\ at[a] \in {"front", "pop", "advance"} => head <= Jobs
  /\ at[a] \in {"pop", "advance"} => work[a] = head
  /\ at[a] = "advance" => from[a] = head
  /\ at[a] \in Running \cup Sending => head >= 2 /\ work[a] = head - 1
  /\ at[a] = "ended" => head = Jobs + 1
  /\ alive = {j \in 1 .. Jobs : IF at[a] = "advance" THEN j > head ELSE j >= head}

\* What it has done with the jobs, the first k.
RanUpTo(k) == sent = <<>> /\ \A j \in 1 .. Jobs : runs[j] = IF j <= k THEN 1 ELSE 0
SentUpTo(k) == /\ \A j \in 1 .. Jobs : runs[j] = 0
               /\ Len(sent) = k /\ \A n \in DOMAIN sent : sent[n] = n

Runs(a) ==
  /\ at[a] \in Taking \cup Running /\ (program.client = "lb_mt_client" => at[a] \notin {"init", "finish"})
  /\ RanUpTo(Behind(at[a], {"init", "work"}, head - 1))
  /\ total_intersect_time = Behind(at[a], {"init", "work", "load", "store"}, head - 1)
  /\ at[a] = "store" => added[a] = total_intersect_time
  /\ program.client = "exp6_client" /\ at[a] \in {"work", "load", "store", "finish"} => Owner(a) \in handles

Sends(a) == at[a] \in Taking \cup Sending /\ SentUpTo(Behind(at[a], {"send"}, head - 1))

Does(a) == IF a = Sender THEN Sends(a) ELSE Runs(a)

IsAlone(a) ==
  /\ \A w \in Threads : w # a => at[w] = "ended"
  /\ Place(a) /\ "client" \notin undefined
  /\ Does(a)

AloneInv ==
  /\ HostInv /\ program.client \in {"exp6_client", "lb_mt_client"} /\ active \subseteq Threads
  /\ runs \in [1 .. Jobs -> Nat] /\ added \in [Threads -> Nat] /\ total_intersect_time \in Nat
  /\ \A a \in active : active = {a} => IsAlone(a)

\* The stages of the two clients, in order.
LEMMA ClientStages ==
  /\ program.client = "exp6_client" =>
       /\ Stages[1] = "init" /\ Following(Stages, "init", "empty") = "work"
       /\ Following(Stages, "work", "empty") = "load" /\ Following(Stages, "load", "empty") = "store"
       /\ Following(Stages, "store", "empty") = "finish" /\ Following(Stages, "finish", "empty") = "empty"
  /\ program.client = "lb_mt_client" =>
       /\ Stages[1] = "work" /\ Following(Stages, "work", "empty") = "load"
       /\ Following(Stages, "load", "empty") = "store" /\ Following(Stages, "store", "empty") = "empty"
<1>1. ASSUME program.client = "exp6_client"
      PROVE  /\ Stages[1] = "init" /\ Following(Stages, "init", "empty") = "work"
             /\ Following(Stages, "work", "empty") = "load" /\ Following(Stages, "load", "empty") = "store"
             /\ Following(Stages, "store", "empty") = "finish" /\ Following(Stages, "finish", "empty") = "empty"
  <2> DEFINE s == <<"init", "work", "load", "store", "finish">>
  <2>1. Stages = s
    BY <1>1 DEF Stages, Client, Clients, exp6_client
  <2>2. /\ DOMAIN s = {1, 2, 3, 4, 5} /\ s[1] = "init" /\ s[2] = "work" /\ s[3] = "load" /\ s[4] = "store"
        /\ s[5] = "finish"
    OBVIOUS
  <2> HIDE DEF s
  <2>3. ASSUME NEW i \in {1, 2, 3, 4, 5}
        PROVE  Following(s, s[i], "empty") = IF i + 1 \in {1, 2, 3, 4, 5} THEN s[i + 1] ELSE "empty"
    <3>1. (CHOOSE k \in DOMAIN s : s[k] = s[i]) = i
      BY <2>2
    <3> QED
      BY <2>2, <3>1 DEF Following
  <2> QED
    BY <2>1, <2>2, <2>3
<1>2. ASSUME program.client = "lb_mt_client"
      PROVE  /\ Stages[1] = "work" /\ Following(Stages, "work", "empty") = "load"
             /\ Following(Stages, "load", "empty") = "store" /\ Following(Stages, "store", "empty") = "empty"
  <2> DEFINE s == <<"work", "load", "store">>
  <2>1. Stages = s
    BY <1>2 DEF Stages, Client, Clients, lb_mt_client
  <2>2. DOMAIN s = {1, 2, 3} /\ s[1] = "work" /\ s[2] = "load" /\ s[3] = "store"
    OBVIOUS
  <2> HIDE DEF s
  <2>3. ASSUME NEW i \in {1, 2, 3}
        PROVE  Following(s, s[i], "empty") = IF i + 1 \in {1, 2, 3} THEN s[i + 1] ELSE "empty"
    <3>1. (CHOOSE k \in DOMAIN s : s[k] = s[i]) = i
      BY <2>2
    <3> QED
      BY <2>2, <3>1 DEF Following
  <2> QED
    BY <2>1, <2>2, <2>3
<1> QED
  BY <1>1, <1>2

LEMMA AloneInit == Init => AloneInv
<1> SUFFICES ASSUME Init PROVE AloneInv
  OBVIOUS
<1>1. HostInv /\ program.client \in {"exp6_client", "lb_mt_client"} /\ active \subseteq Threads /\ Jobs \in Nat \ {0}
  BY HostInit, JobsAssumption DEF Init, Clients, Threads
<1>2. runs \in [1 .. Jobs -> Nat] /\ added \in [Threads -> Nat] /\ total_intersect_time \in Nat
  BY DEF Init
<1>3. ASSUME NEW a \in active, active = {a} PROVE IsAlone(a)
  <2>1. a \in Threads /\ at[a] = "empty" /\ \A w \in Threads : w # a => at[w] = "ended"
    BY <1>1, <1>3 DEF Init
  <2>2. Place(a)
    BY <1>1, <2>1 DEF Init, Place, Running, Sending
  <2>3. head - 1 = 0 /\ at[a] \in Taking /\ at[a] \notin Running \cup Sending
    BY <2>1 DEF Init, Taking, Running, Sending
  <2>4. RanUpTo(0) /\ SentUpTo(0) /\ total_intersect_time = 0
    BY DEF Init, RanUpTo, SentUpTo
  <2>5. Does(a)
    BY <2>1, <2>3, <2>4 DEF Does, Sends, Runs, Behind, Running
  <2> QED
    BY <2>1, <2>2, <2>5 DEF IsAlone, Init
<1> QED
  BY <1>1, <1>2, <1>3 DEF AloneInv

\* What no step changes, and the types of the counts.
LEMMA AloneTypes ==
  ASSUME AloneInv, HostInv', [Next]_vars
  PROVE  /\ program' = program /\ active' = active
         /\ runs' \in [1 .. Jobs -> Nat] /\ added' \in [Threads -> Nat] /\ total_intersect_time' \in Nat
<1>1. runs \in [1 .. Jobs -> Nat] /\ added \in [Threads -> Nat] /\ total_intersect_time \in Nat
  BY DEF AloneInv
<1>2. ASSUME NEW w \in Threads, Work(w)
      PROVE  /\ program' = program /\ active' = active
             /\ runs' \in [1 .. Jobs -> Nat] /\ added' \in [Threads -> Nat] /\ total_intersect_time' \in Nat
  <2>1. CASE start_test(w)
    <3>1. runs' = [j \in 1 .. Jobs |-> IF j = work[w] THEN runs[j] + 1 ELSE runs[j]]
      BY <1>1, <2>1 DEF start_test
    <3>2. \A j \in 1 .. Jobs : runs[j] \in Nat /\ runs[j] + 1 \in Nat
      BY <1>1
    <3>3. runs' \in [1 .. Jobs -> Nat]
      BY <3>1, <3>2
    <3> QED
      BY <1>1, <2>1, <3>3 DEF start_test
  <2>2. CASE AddTime(w)
    <3>1. added[w] + 1 \in Nat
      BY <1>1
    <3> QED
      BY <1>1, <2>2, <3>1 DEF AddTime
  <2>3. CASE Empty(w) \/ Front(w) \/ Pop(w) \/ Advance(w) \/ Misread(w) \/ initGEOS(w) \/ finishGEOS(w)
    BY <1>1, <2>3 DEF Empty, Front, Pop, Advance, Misread, initGEOS, finishGEOS, clientVars
  <2> QED
    BY <1>2, <2>1, <2>2, <2>3 DEF Work
<1>3. CASE SayHello \/ Reply \/ Serve \/ UNCHANGED vars
  BY <1>1, <1>3 DEF SayHello, Reply, Serve, Proceed, vars, clientVars
<1> QED
  BY <1>2, <1>3 DEF Next

\* Where a thread goes.
LEMMA Going ==
  ASSUME HostTypes, NEW a \in Threads, NEW op, Goes(a, op)
  PROVE  at'[a] = op /\ \A w \in Threads : w # a => at'[w] = at[w]
BY DEF HostTypes, Goes

\* Up to the end of pop, no other thread being there.
LEMMA AloneTakes ==
  ASSUME AloneInv, NEW a \in active, active = {a}, Empty(a) \/ Front(a) \/ Pop(a) \/ Advance(a) \/ Misread(a)
  PROVE  IsAlone(a)'
<1>1. /\ IsAlone(a) /\ a \in Threads /\ HostTypes /\ Jobs \in Nat \ {0}
      /\ Place(a) /\ "client" \notin undefined
      /\ Does(a)
      /\ head \in Nat /\ work \in [Threads -> Nat] /\ from \in [Threads -> Nat]
      /\ at[a] \in Taking
  BY JobsAssumption DEF AloneInv, IsAlone, HostInv, HostTypes, Empty, Front, Pop, Advance, Misread, Taking
<1>2. CASE Empty(a)
  <2> DEFINE op == IF head > Jobs THEN "ended" ELSE "front"
  <2>1. /\ at'[a] = op /\ \A w \in Threads : w # a => at'[w] = at[w]
        /\ UNCHANGED <<program, active, work, from, runs, added, total_intersect_time, head, alive, sent, handles, undefined>>
    BY <1>1, <1>2, Going DEF Empty, queueVars, serverVars
  <2>2. Place(a)'
    BY <1>1, <1>2, <2>1 DEF Place, Empty, Running, Sending
  <2>3. at[a] = "empty" /\ at'[a] \in {"ended", "front"}
    BY <1>2, <2>1 DEF Empty
  <2>4. Does(a)'
    BY <1>1, <2>1, <2>3 DEF Does, Sends, Runs, RanUpTo, SentUpTo, Behind, Taking
  <2> QED
    BY <1>1, <2>1, <2>2, <2>4 DEF IsAlone
<1>3. CASE Front(a)
  <2>1. /\ at'[a] = "pop" /\ (\A w \in Threads : w # a => at'[w] = at[w]) /\ at[a] = "front"
        /\ UNCHANGED <<program, active, from, runs, added, total_intersect_time, head, alive, sent, handles, undefined>>
        /\ work'[a] = head
    BY <1>1, <1>3, Going DEF Front, queueVars, serverVars
  <2>2. Place(a)'
    BY <1>1, <2>1 DEF Place, Running, Sending
  <2>3. Does(a)'
    BY <1>1, <2>1 DEF Does, Sends, Runs, RanUpTo, SentUpTo, Behind, Taking
  <2> QED
    BY <1>1, <2>1, <2>2, <2>3 DEF IsAlone
<1>4. CASE Pop(a)
  <2>1. /\ at'[a] = "advance" /\ (\A w \in Threads : w # a => at'[w] = at[w]) /\ at[a] = "pop"
        /\ UNCHANGED <<program, active, work, runs, added, total_intersect_time, head, sent, handles, undefined>>
        /\ from'[a] = head /\ alive' = alive \ {head}
    BY <1>1, <1>4, Going DEF Pop, serverVars
  <2>2. Place(a)'
    BY <1>1, <2>1 DEF Place, Running, Sending
  <2>3. Does(a)'
    BY <1>1, <2>1 DEF Does, Sends, Runs, RanUpTo, SentUpTo, Behind, Taking
  <2> QED
    BY <1>1, <2>1, <2>2, <2>3 DEF IsAlone
<1>5. CASE Advance(a)
  <2>1. /\ at'[a] = IF a = Sender THEN "send" ELSE Stages[1]
        /\ (\A w \in Threads : w # a => at'[w] = at[w]) /\ at[a] = "advance"
        /\ UNCHANGED <<program, active, work, runs, added, total_intersect_time, alive, sent, handles, undefined>>
        /\ head' = from[a] + 1
    BY <1>1, <1>5, Going DEF Advance, serverVars, Stages
  <2>2. Stages[1] = IF program.client = "exp6_client" THEN "init" ELSE "work"
    <3>1. CASE program.client = "exp6_client"
      BY <3>1, ClientStages
    <3>2. CASE program.client # "exp6_client"
      <4>1. program.client = "lb_mt_client"
        BY <3>2 DEF AloneInv
      <4> QED
        BY <3>2, <4>1, ClientStages
    <3> QED
      BY <3>1, <3>2
  <2>3. head' = head + 1 /\ head \in 1 .. Jobs /\ work[a] = head /\ alive = {j \in 1 .. Jobs : j > head}
    BY <1>1, <2>1 DEF Place
  <2>4. at'[a] \in {"send", "init", "work"} /\ head' \in 1 .. Jobs + 1 /\ head' >= 2 /\ head' - 1 = head /\ head' - 1 - 1 = head - 1
    BY <1>1, <2>1, <2>2, <2>3
  <2>5. Place(a)'
    <3>1. alive' = {j \in 1 .. Jobs : j >= head'}
      BY <1>1, <2>1, <2>3
    <3> QED
      BY <2>1, <2>3, <2>4, <3>1 DEF Place, Running, Sending
  <2>6. PICK k \in Nat : k = head - 1
    BY <2>3
  <2>7. Does(a)'
    <3>1. CASE a = Sender
      <4>1. Behind(at[a], {"send"}, head - 1) = k
        BY <2>1, <2>6 DEF Behind
      <4>2. SentUpTo(k)
        BY <1>1, <3>1, <4>1 DEF Does, Sends
      <4>3. SentUpTo(k)'
        BY <2>1, <4>2 DEF SentUpTo
      <4>4. at'[a] = "send" /\ Behind(at'[a], {"send"}, head' - 1) = k
        BY <2>1, <2>4, <2>6, <3>1 DEF Behind
      <4>5. Sends(a)'
        BY <4>3, <4>4 DEF Sends, Sending
      <4> QED
        BY <3>1, <4>5 DEF Does
    <3>2. CASE a # Sender
      <4>1. /\ Behind(at[a], {"init", "work"}, head - 1) = k
            /\ Behind(at[a], {"init", "work", "load", "store"}, head - 1) = k
        BY <2>1, <2>6 DEF Behind
      <4>2. RanUpTo(k) /\ total_intersect_time = k
        BY <1>1, <3>2, <4>1 DEF Does, Runs
      <4>3. RanUpTo(k)' /\ total_intersect_time' = k
        BY <2>1, <4>2 DEF RanUpTo
      <4>4. at'[a] = IF program.client = "exp6_client" THEN "init" ELSE "work"
        BY <2>1, <2>2, <3>2
      <4>5. /\ at'[a] \in {"init", "work"}
            /\ Behind(at'[a], {"init", "work"}, head' - 1) = k
            /\ Behind(at'[a], {"init", "work", "load", "store"}, head' - 1) = k
        BY <2>4, <2>6, <4>4 DEF Behind
      <4>6. Runs(a)'
        BY <2>1, <4>3, <4>4, <4>5 DEF Runs, Running
      <4> QED
        BY <3>2, <4>6 DEF Does
    <3> QED
      BY <3>1, <3>2
  <2> QED
    BY <1>1, <2>1, <2>5, <2>7 DEF IsAlone
<1>6. CASE Misread(a)
  <2>1. at[a] \in {"front", "pop"} /\ head \notin alive
    BY <1>6 DEF Misread
  <2> QED
    BY <1>1, <2>1 DEF Place
<1> QED
  BY <1>2, <1>3, <1>4, <1>5, <1>6

\* start_test, in the thread that has taken a job.
LEMMA AloneRuns ==
  ASSUME AloneInv, NEW a \in active, active = {a}, initGEOS(a) \/ finishGEOS(a) \/ start_test(a) \/ AddTime(a)
  PROVE  IsAlone(a)'
<1>1. /\ IsAlone(a) /\ a \in Threads /\ HostTypes /\ Jobs \in Nat \ {0}
      /\ Place(a) /\ "client" \notin undefined /\ Does(a)
      /\ runs \in [1 .. Jobs -> Nat] /\ added \in [Threads -> Nat] /\ total_intersect_time \in Nat
      /\ program.client \in {"exp6_client", "lb_mt_client"}
      /\ \A w \in Threads : w # a => at[w] = "ended"
      /\ at[a] \in Running
  BY JobsAssumption DEF AloneInv, IsAlone, HostInv, initGEOS, finishGEOS, start_test, AddTime, Running
<1>2. a # Sender /\ Runs(a)
  BY <1>1 DEF Does, Sends, Taking, Sending, Running
<1>3. PICK k \in Nat : k = head - 1
  BY <1>1 DEF Place
<1>4. k \in 1 .. Jobs /\ work[a] = k /\ head = k + 1 /\ head \in 1 .. Jobs + 1 /\ alive = {j \in 1 .. Jobs : j >= head}
  BY <1>1, <1>3 DEF Place, Running
<1>5. /\ UNCHANGED <<program, active, work, from, head, alive, sent>>
      /\ Goes(a, Following(Stages, at[a], "empty"))
  BY DEF initGEOS, finishGEOS, start_test, AddTime, GoesOn, queueVars, serverVars
<1>6. at'[a] = Following(Stages, at[a], "empty") /\ \A w \in Threads : w # a => at'[w] = "ended"
  BY <1>1, <1>5, Going
<1>7. ASSUME at'[a] \in Running \cup {"empty"} PROVE Place(a)'
  BY <1>1, <1>4, <1>5, <1>7 DEF Place, Running, Sending
<1>8. Owner(a)' = Owner(a)
  BY <1>5 DEF Owner, OwnerOf
<1>9. CASE initGEOS(a)
  <2>1. at[a] = "init" /\ program.client = "exp6_client"
    BY <1>1, <1>2, <1>9 DEF initGEOS, Runs
  <2>2. at'[a] = "work" /\ UNCHANGED <<runs, added, total_intersect_time, undefined>> /\ Owner(a) \in handles'
    BY <1>6, <1>9, <2>1, ClientStages DEF initGEOS
  <2>3. k - 1 \in Nat /\ RanUpTo(k - 1) /\ total_intersect_time = k - 1
    BY <1>2, <1>3, <1>4, <2>1 DEF Runs, Behind
  <2>4. PICK m \in Nat : m = k - 1
    BY <2>3
  <2>5. RanUpTo(m)' /\ total_intersect_time' = m
    BY <1>5, <2>2, <2>3, <2>4 DEF RanUpTo
  <2>6. /\ Behind(at'[a], {"init", "work"}, head' - 1) = m
        /\ Behind(at'[a], {"init", "work", "load", "store"}, head' - 1) = m
    BY <1>3, <1>5, <2>2, <2>4 DEF Behind
  <2>7. Runs(a)'
    BY <1>5, <1>8, <2>1, <2>2, <2>5, <2>6 DEF Runs, Running
  <2> QED
    BY <1>1, <1>2, <1>6, <1>7, <2>2, <2>7 DEF IsAlone, Does, Running
<1>10. CASE start_test(a)
  <2>1. at[a] = "work"
    BY <1>10 DEF start_test
  <2>2. at'[a] = "load"
    BY <1>1, <1>6, <2>1, ClientStages
  <2>3. k - 1 \in Nat /\ RanUpTo(k - 1) /\ total_intersect_time = k - 1
    BY <1>2, <1>3, <1>4, <2>1 DEF Runs, Behind
  <2>4. PICK m \in Nat : m = k - 1
    BY <2>3
  <2>5. UNCHANGED <<added, total_intersect_time, handles>> /\ runs' = [runs EXCEPT ![k] = @ + 1]
    BY <1>4, <1>10 DEF start_test
  <2>6. RanUpTo(k)'
    <3>1. sent' = <<>> /\ \A j \in 1 .. Jobs : runs[j] = IF j <= k - 1 THEN 1 ELSE 0
      BY <1>5, <2>3 DEF RanUpTo
    <3>2. ASSUME NEW j \in 1 .. Jobs PROVE runs'[j] = IF j <= k THEN 1 ELSE 0
      <4>1. CASE j = k
        BY <1>1, <1>4, <2>5, <3>1, <4>1
      <4>2. CASE j # k
        BY <1>1, <1>4, <2>5, <3>1, <4>2
      <4> QED
        BY <4>1, <4>2
    <3> QED
      BY <3>1, <3>2 DEF RanUpTo
  <2>7. program.client = "exp6_client" => Owner(a) \in handles
    BY <1>2, <2>1 DEF Runs
  <2>8. Usable(Owner(a), Stages)
    <3>1. CASE program.client = "exp6_client"
      BY <2>7, <3>1 DEF Usable
    <3>2. CASE program.client = "lb_mt_client"
      BY <3>2, ClientStages DEF Usable
    <3> QED
      BY <1>1, <3>1, <3>2
  <2>9. undefined' = undefined
    BY <1>10, <2>8 DEF start_test
  <2>10. /\ Behind(at'[a], {"init", "work"}, head' - 1) = k
         /\ Behind(at'[a], {"init", "work", "load", "store"}, head' - 1) = m
    BY <1>3, <1>5, <2>2, <2>4 DEF Behind
  <2>11. Runs(a)'
    BY <1>5, <1>8, <2>2, <2>3, <2>4, <2>5, <2>6, <2>7, <2>10 DEF Runs, Running
  <2> QED
    BY <1>1, <1>2, <1>6, <1>7, <2>2, <2>9, <2>11 DEF IsAlone, Does, Running
<1>11. CASE AddTime(a)
  <2>1. UNCHANGED <<runs, handles, undefined>> /\ at[a] \in {"load", "store"}
    BY <1>11 DEF AddTime
  <2>2. RanUpTo(k) /\ total_intersect_time = k - 1 /\ k - 1 \in Nat
    BY <1>2, <1>3, <1>4, <2>1 DEF Runs, Behind
  <2>3. RanUpTo(k)'
    BY <1>5, <2>1, <2>2 DEF RanUpTo
  <2>4. program.client = "exp6_client" => Owner(a) \in handles
    BY <1>2, <2>1 DEF Runs
  <2>5. CASE at[a] = "load"
    <3>1. at'[a] = "store" /\ added' = [added EXCEPT ![a] = total_intersect_time] /\ UNCHANGED total_intersect_time
      BY <1>1, <1>6, <1>11, <2>5, ClientStages DEF AddTime
    <3>2. /\ Behind(at'[a], {"init", "work"}, head' - 1) = k
          /\ Behind(at'[a], {"init", "work", "load", "store"}, head' - 1) = total_intersect_time
          /\ added'[a] = total_intersect_time
      BY <1>1, <1>3, <1>5, <2>2, <3>1 DEF Behind
    <3>3. Runs(a)'
      BY <1>5, <1>8, <2>1, <2>3, <2>4, <3>1, <3>2 DEF Runs, Running
    <3> QED
      BY <1>1, <1>2, <1>6, <1>7, <2>1, <3>1, <3>3 DEF IsAlone, Does, Running
  <2>6. CASE at[a] = "store"
    <3>1. total_intersect_time' = k
      <4>1. total_intersect_time' = added[a] + 1 /\ added[a] = total_intersect_time
        BY <1>2, <1>11, <2>6 DEF AddTime, Runs
      <4> QED
        BY <2>2, <4>1
    <3>2. at'[a] = IF program.client = "exp6_client" THEN "finish" ELSE "empty"
      <4>1. CASE program.client = "exp6_client"
        BY <1>6, <2>6, <4>1, ClientStages
      <4>2. CASE program.client = "lb_mt_client"
        BY <1>6, <2>6, <4>2, ClientStages
      <4> QED
        BY <1>1, <4>1, <4>2
    <3>3. /\ at'[a] \in {"finish", "empty"}
          /\ Behind(at'[a], {"init", "work"}, head' - 1) = k
          /\ Behind(at'[a], {"init", "work", "load", "store"}, head' - 1) = k
      BY <1>3, <1>5, <3>2 DEF Behind
    <3>4. Runs(a)'
      BY <1>5, <1>8, <2>1, <2>3, <2>4, <3>1, <3>2, <3>3 DEF Runs, Running, Taking
    <3> QED
      BY <1>1, <1>2, <1>6, <1>7, <2>1, <3>3, <3>4 DEF IsAlone, Does, Running
  <2> QED
    BY <2>1, <2>5, <2>6
<1>12. CASE finishGEOS(a)
  <2>1. at[a] = "finish" /\ program.client = "exp6_client" /\ UNCHANGED <<runs, added, total_intersect_time, undefined>>
    BY <1>1, <1>2, <1>12 DEF finishGEOS, Runs
  <2>2. at'[a] = "empty"
    BY <1>6, <2>1, ClientStages
  <2>3. RanUpTo(k) /\ total_intersect_time = k
    BY <1>2, <1>3, <2>1 DEF Runs, Behind
  <2>4. RanUpTo(k)' /\ total_intersect_time' = k
    BY <1>5, <2>1, <2>3 DEF RanUpTo
  <2>5. /\ Behind(at'[a], {"init", "work"}, head' - 1) = k
        /\ Behind(at'[a], {"init", "work", "load", "store"}, head' - 1) = k
    BY <1>3, <1>5, <2>2 DEF Behind
  <2>6. Runs(a)'
    BY <2>2, <2>4, <2>5 DEF Runs, Taking
  <2> QED
    BY <1>1, <1>2, <1>6, <1>7, <2>1, <2>2, <2>6 DEF IsAlone, Does
<1> QED
  BY <1>9, <1>10, <1>11, <1>12

\* sendWork, in the thread that has taken a job.
LEMMA AloneSends ==
  ASSUME AloneInv, NEW a \in active, active = {a}, SayHello \/ Reply
  PROVE  IsAlone(a)'
<1>1. /\ IsAlone(a) /\ a \in Threads /\ Sender \in Threads /\ HostTypes /\ Jobs \in Nat \ {0}
      /\ Place(a) /\ "client" \notin undefined /\ Does(a)
      /\ \A w \in Threads : w # a => at[w] = "ended"
      /\ at[Sender] \in {"send", "waiting"}
  BY JobsAssumption DEF AloneInv, IsAlone, HostInv, SayHello, Reply, Threads
<1>2. a = Sender /\ Sends(a)
  BY <1>1 DEF Does
<1>3. PICK k \in Nat : k = head - 1
  BY <1>1 DEF Place
<1>4. k \in 1 .. Jobs /\ work[a] = k /\ head = k + 1 /\ head \in 1 .. Jobs + 1 /\ alive = {j \in 1 .. Jobs : j >= head}
  BY <1>1, <1>2, <1>3 DEF Place, Sending
<1>5. /\ UNCHANGED <<program, active, work, from, head, alive, runs, undefined>>
      /\ Goes(a, IF at[a] = "send" THEN "waiting" ELSE "empty")
      /\ at[a] = "waiting" => sent' = sent
      /\ at[a] = "send" => sent' = Append(sent, k)
  BY <1>2, <1>4 DEF SayHello, Reply, queueVars, serverVars
<1>6. /\ at'[a] = IF at[a] = "send" THEN "waiting" ELSE "empty"
      /\ \A w \in Threads : w # a => at'[w] = "ended"
  BY <1>1, <1>5, Going
<1>7. at'[a] \in {"waiting", "empty"}
  BY <1>6
<1>8. Place(a)'
  BY <1>1, <1>4, <1>5, <1>7 DEF Place, Running, Sending
<1>9. CASE at[a] = "send"
  <2>1. PICK m \in Nat : m = k - 1
    BY <1>4
  <2>2. SentUpTo(m)
    BY <1>2, <1>3, <1>9, <2>1 DEF Sends, Behind
  <2>3. sent \in Seq(Nat) /\ Len(sent) = m /\ sent' = Append(sent, k) /\ k = m + 1
    BY <1>1, <1>4, <1>5, <1>9, <2>1, <2>2 DEF SentUpTo, HostTypes
  <2>4. DOMAIN sent = 1 .. m /\ DOMAIN sent' = 1 .. m + 1 /\ Len(sent') = m + 1 /\ sent'[m + 1] = k
        /\ \A n \in 1 .. m : sent'[n] = sent[n]
    BY <2>3
  <2>5. SentUpTo(k)'
    BY <1>5, <2>2, <2>3, <2>4 DEF SentUpTo
  <2>6. at'[a] = "waiting" /\ Behind(at'[a], {"send"}, head' - 1) = k
    BY <1>3, <1>5, <1>6, <1>9 DEF Behind
  <2>7. Sends(a)'
    BY <2>5, <2>6 DEF Sends, Sending
  <2> QED
    BY <1>1, <1>2, <1>5, <1>6, <1>8, <2>7 DEF IsAlone, Does
<1>10. CASE at[a] # "send"
  <2>1. SentUpTo(k) /\ at[a] = "waiting"
    BY <1>1, <1>2, <1>3, <1>10 DEF Sends, Behind
  <2>2. SentUpTo(k)'
    BY <1>5, <2>1 DEF SentUpTo
  <2>3. at'[a] = "empty" /\ Behind(at'[a], {"send"}, head' - 1) = k
    BY <1>3, <1>5, <1>6, <1>10 DEF Behind
  <2>4. Sends(a)'
    BY <2>2, <2>3 DEF Sends, Taking
  <2> QED
    BY <1>1, <1>2, <1>5, <1>6, <1>8, <2>4 DEF IsAlone, Does
<1> QED
  BY <1>9, <1>10

\* The server does nothing that the thread can see.
LEMMA AloneServed ==
  ASSUME AloneInv, NEW a \in active, active = {a}, Serve \/ UNCHANGED vars
  PROVE  IsAlone(a)'
<1>1. /\ IsAlone(a)
      /\ UNCHANGED <<program, active, clientVars, queueVars, sent>>
      /\ "client" \notin undefined => "client" \notin undefined'
      /\ \A u : <<"client", u>> \in handles => <<"client", u>> \in handles'
  BY DEF AloneInv, Serve, Proceed, Handler, OwnerOf, vars, serverVars
<1>2. Owner(a)' = Owner(a) /\ (Owner(a) \in handles => Owner(a) \in handles')
  BY <1>1 DEF Owner, OwnerOf
<1>3. Place(a)'
  BY <1>1 DEF IsAlone, Place, clientVars, queueVars
<1>4. Does(a)'
  <2>1. CASE a = Sender
    BY <1>1, <2>1 DEF IsAlone, Does, Sends, SentUpTo, clientVars, queueVars
  <2>2. CASE a # Sender
    BY <1>1, <1>2, <2>2 DEF IsAlone, Does, Runs, RanUpTo, clientVars, queueVars
  <2> QED
    BY <2>1, <2>2
<1> QED
  BY <1>1, <1>3, <1>4 DEF IsAlone, clientVars

LEMMA AloneNext == AloneInv /\ [Next]_vars => AloneInv'
<1> SUFFICES ASSUME AloneInv, [Next]_vars PROVE AloneInv'
  OBVIOUS
<1>1. HostInv'
  BY HostNext DEF AloneInv
<1>2. /\ program' = program /\ active' = active
      /\ runs' \in [1 .. Jobs -> Nat] /\ added' \in [Threads -> Nat] /\ total_intersect_time' \in Nat
  BY <1>1, AloneTypes
<1>3. ASSUME NEW a \in active, active = {a} PROVE IsAlone(a)'
  <2>1. CASE \E w \in Threads : Work(w)
    <3>1. PICK w \in Threads : Work(w)
      BY <2>1
    <3>2. at[w] # "ended"
      BY <3>1 DEF Work, Empty, Front, Pop, Advance, Misread, initGEOS, finishGEOS, start_test, AddTime
    <3>3. w = a
      BY <1>3, <3>2 DEF AloneInv, IsAlone
    <3> QED
      BY <1>3, <3>1, <3>3, AloneTakes, AloneRuns DEF Work
  <2>2. CASE SayHello \/ Reply
    BY <1>3, <2>2, AloneSends
  <2>3. CASE Serve \/ UNCHANGED vars
    BY <1>3, <2>3, AloneServed
  <2> QED
    BY <2>1, <2>2, <2>3 DEF Next
<1> QED
  BY <1>1, <1>2, <1>3 DEF AloneInv

\* What the thread has sent it has sent once.
LEMMA SentOnce ==
  ASSUME NEW k \in Nat, SentUpTo(k), NEW j \in 1 .. Jobs, HostTypes
  PROVE  SentTimes(j) = IF j <= k THEN 1 ELSE 0
<1>1. sent \in Seq(Nat) /\ Len(sent) = k /\ \A n \in DOMAIN sent : sent[n] = n
  BY DEF SentUpTo, HostTypes
<1>2. DOMAIN sent = 1 .. k
  BY <1>1
<1>3. {n \in DOMAIN sent : sent[n] = j} = IF j <= k THEN {j} ELSE {}
  BY <1>1, <1>2
<1>4. Cardinality({}) = 0 /\ Cardinality({j}) = 1
  BY FS_EmptySet, FS_Singleton
<1> QED
  BY <1>3, <1>4 DEF SentTimes

LEMMA AloneExact == AloneInv => AloneIsExact
<1> SUFFICES ASSUME AloneInv, Cardinality(active) = 1
             PROVE  /\ "client" \notin undefined
                    /\ \A j \in 1 .. Jobs : Times(j) <= 1 /\ (Times(j) = 1 => j < head)
                    /\ Ended => /\ \A j \in 1 .. Jobs : Times(j) = 1
                                /\ Sender \notin active => total_intersect_time = Jobs
  BY DEF AloneIsExact
<1>1. PICK a : active = {a}
  <2>1. active \subseteq Threads /\ IsFiniteSet(Workers)
    BY JobsAssumption DEF AloneInv
  <2>2. IsFiniteSet(Threads)
    BY <2>1, FS_AddElement DEF Threads
  <2>3. IsFiniteSet(active)
    BY <2>1, <2>2, FS_Subset
  <2> QED
    BY <2>3, FS_Singleton
<1>2. a \in active /\ IsAlone(a) /\ a \in Threads /\ HostTypes /\ Jobs \in Nat \ {0}
  BY <1>1, JobsAssumption DEF AloneInv, HostInv
<1>3. Place(a) /\ "client" \notin undefined /\ Does(a) /\ head \in 1 .. Jobs + 1
  BY <1>2 DEF IsAlone, Place
<1>4. ASSUME NEW k \in Nat, k < head, at[a] = "ended" => k = Jobs,
             \A j \in 1 .. Jobs : Times(j) = IF j <= k THEN 1 ELSE 0
      PROVE  /\ \A j \in 1 .. Jobs : Times(j) <= 1 /\ (Times(j) = 1 => j < head)
             /\ Ended => \A j \in 1 .. Jobs : Times(j) = 1
  <2>1. ASSUME NEW j \in 1 .. Jobs PROVE Times(j) <= 1 /\ (Times(j) = 1 => j < head)
    <3>1. CASE j <= k
      BY <1>2, <1>3, <1>4, <3>1
    <3>2. CASE j > k
      <4>1. Times(j) = 0
        BY <1>2, <1>4, <3>2
      <4> QED
        BY <4>1
    <3> QED
      BY <1>2, <3>1, <3>2
  <2>2. ASSUME Ended, NEW j \in 1 .. Jobs PROVE Times(j) = 1
    BY <1>2, <1>4, <2>2 DEF Ended
  <2> QED
    BY <2>1, <2>2
<1>5. CASE a = Sender
  <2>1. SentUpTo(Behind(at[a], {"send"}, head - 1))
    BY <1>3, <1>5 DEF Does, Sends
  <2>2. PICK k \in Nat : k = Behind(at[a], {"send"}, head - 1) /\ k < head /\ (at[a] = "ended" => k = Jobs)
    <3>1. CASE at[a] = "send"
      <4>1. head - 1 - 1 \in Nat /\ head - 1 - 1 < head /\ Behind(at[a], {"send"}, head - 1) = head - 1 - 1
        BY <1>2, <1>3, <3>1 DEF Place, Sending, Behind
      <4> QED
        BY <3>1, <4>1
    <3>2. CASE at[a] # "send"
      <4>1. head - 1 \in Nat /\ head - 1 < head /\ (at[a] = "ended" => head - 1 = Jobs)
            /\ Behind(at[a], {"send"}, head - 1) = head - 1
        BY <1>2, <1>3, <3>2 DEF Place, Behind
      <4> QED
        BY <4>1
    <3> QED
      BY <3>1, <3>2
  <2>3. SentUpTo(k) /\ \A j \in 1 .. Jobs : runs[j] = 0
    BY <2>1, <2>2 DEF SentUpTo
  <2>4. ASSUME NEW j \in 1 .. Jobs PROVE Times(j) = IF j <= k THEN 1 ELSE 0
    <3>1. SentTimes(j) = IF j <= k THEN 1 ELSE 0
      BY <1>2, <2>3, SentOnce
    <3>2. Times(j) = 0 + SentTimes(j)
      BY <2>3 DEF Times
    <3> QED
      BY <3>1, <3>2
  <2> QED
    BY <1>2, <1>3, <1>4, <1>5, <2>2, <2>4
<1>6. CASE a # Sender
  <2> DEFINE ran == Behind(at[a], {"init", "work"}, head - 1)
  <2>1. RanUpTo(ran) /\ total_intersect_time = Behind(at[a], {"init", "work", "load", "store"}, head - 1)
    BY <1>3, <1>6 DEF Does, Runs
  <2>2. PICK k \in Nat : k = ran /\ k < head /\ (at[a] = "ended" => k = Jobs)
    <3>1. CASE at[a] \in {"init", "work"}
      <4>1. head - 1 - 1 \in Nat /\ head - 1 - 1 < head /\ ran = head - 1 - 1 /\ at[a] # "ended"
        BY <1>2, <1>3, <3>1 DEF Place, Running, Behind
      <4> QED
        BY <4>1
    <3>2. CASE at[a] \notin {"init", "work"}
      <4>1. head - 1 \in Nat /\ head - 1 < head /\ (at[a] = "ended" => head - 1 = Jobs) /\ ran = head - 1
        BY <1>2, <1>3, <3>2 DEF Place, Behind
      <4> QED
        BY <4>1
    <3> QED
      BY <3>1, <3>2
  <2>3. sent = <<>> /\ \A j \in 1 .. Jobs : runs[j] = IF j <= k THEN 1 ELSE 0
    BY <2>1, <2>2 DEF RanUpTo
  <2>4. ASSUME NEW j \in 1 .. Jobs PROVE Times(j) = IF j <= k THEN 1 ELSE 0
    <3>1. {n \in DOMAIN sent : sent[n] = j} = {}
      BY <2>3
    <3>2. SentTimes(j) = 0
      BY <3>1, FS_EmptySet DEF SentTimes
    <3>3. runs[j] \in Nat /\ runs[j] = IF j <= k THEN 1 ELSE 0
      BY <2>3
    <3> QED
      BY <3>2, <3>3 DEF Times
  <2>5. Ended => total_intersect_time = Jobs
    <3>1. at[a] = "ended" => total_intersect_time = head - 1 /\ head = Jobs + 1
      BY <1>3, <2>1 DEF Behind, Place
    <3> QED
      BY <1>2, <3>1 DEF Ended
  <2> QED
    BY <1>2, <1>3, <1>4, <1>6, <2>2, <2>4, <2>5
<1> QED
  BY <1>5, <1>6

\* A thread that has the queue to itself takes every job once, in order, its
\* times add up, and the GEOS handle is there whenever it uses it, whatever the
\* server does (doWork, sendWork and start_test of exp6_client and lb_mt_client).
THEOREM AloneIsExactAlways == Spec => []AloneIsExact
<1> QED
  BY AloneInit, AloneNext, AloneExact, PTL DEF Spec
-----------------------------------------------------------------------------
\* Sums ---------------------------------------------------------------------

\* Units(f, s) has as many elements as the numbers f[x], x in s, add up to.
Units(f, s) == {u \in s \X Nat : 1 <= u[2] /\ u[2] <= f[u[1]]}

\* A function that adds up f over the subsets of S, one element at a time.
AnElement(s) == CHOOSE x \in s : TRUE
AddsUp(g, f, S) ==
  g = [s \in SUBSET S |-> IF s = {} THEN 0 ELSE f[AnElement(s)] + g[s \ {AnElement(s)}]]

\* A set of subsets of a finite set has one that contains no other.
LEMMA Minimal ==
  ASSUME NEW S, IsFiniteSet(S), NEW F, F \subseteq SUBSET S, F # {}
  PROVE  \E A \in F : \A B \in F : B \subseteq A => B = A
<1>1. IsWellFoundedOn(StrictSubsetOrdering(S), SUBSET S)
  BY FS_StrictSubsetOrderingWellFounded, FS_FiniteSubsetsOfFinite
<1>2. \E A \in F : \A B \in F : ~(<<B, A>> \in StrictSubsetOrdering(S))
  BY <1>1, WFMin
<1> QED
  BY <1>2 DEF StrictSubsetOrdering

\* The units of one element.
LEMMA UnitsOfOne ==
  ASSUME NEW x, NEW k \in Nat
  PROVE  /\ IsFiniteSet({x} \X (1 .. k))
         /\ Cardinality({x} \X (1 .. k)) = k
<1> DEFINE h == [i \in 1 .. k |-> <<x, i>>]
<1>1. h \in Bijection(1 .. k, {x} \X (1 .. k))
  <2>1. h \in [1 .. k -> {x} \X (1 .. k)] /\ \A i \in 1 .. k : h[i] = <<x, i>>
    OBVIOUS
  <2>2. \A u \in {x} \X (1 .. k) : u = <<x, u[2]>> /\ u[2] \in 1 .. k
    OBVIOUS
  <2> HIDE DEF h
  <2>3. \A i, j \in 1 .. k : h[i] = h[j] => i = j
    BY <2>1
  <2>4. \A u \in {x} \X (1 .. k) : \E i \in 1 .. k : h[i] = u
    BY <2>1, <2>2
  <2> QED
    BY <2>1, <2>3, <2>4 DEF Bijection, Injection, IsInjective, Surjection
<1>2. IsFiniteSet(1 .. k) /\ Cardinality(1 .. k) = k
  BY FS_Interval
<1> QED
  BY <1>1, <1>2, FS_Bijection DEF ExistsBijection

\* Removing an element removes its units.
LEMMA UnitsSplit ==
  ASSUME NEW f, NEW s, NEW x \in s, f[x] \in Nat, IsFiniteSet(Units(f, s \ {x}))
  PROVE  /\ IsFiniteSet(Units(f, s))
         /\ Cardinality(Units(f, s)) = f[x] + Cardinality(Units(f, s \ {x}))
<1> DEFINE U == Units(f, s \ {x})
           V == {x} \X (1 .. f[x])
<1>1. Units(f, s) = U \cup V /\ U \cap V = {}
  BY DEF Units
<1>2. IsFiniteSet(V) /\ Cardinality(V) = f[x]
  BY UnitsOfOne
<1>3. Cardinality(U \cap V) = 0
  BY <1>1, FS_EmptySet
<1> HIDE DEF U, V
<1>4. IsFiniteSet(U) /\ Cardinality(U) \in Nat
  BY FS_CardinalityType DEF U
<1>5. IsFiniteSet(U \cup V) /\ Cardinality(U \cup V) = Cardinality(U) + Cardinality(V) - Cardinality(U \cap V)
  BY <1>2, <1>4, FS_Union
<1>6. Cardinality(U \cup V) = f[x] + Cardinality(U)
  BY <1>2, <1>3, <1>4, <1>5
<1> QED
  BY <1>1, <1>5, <1>6 DEF U

\* They are finitely many.
LEMMA UnitsFinite ==
  ASSUME NEW S, IsFiniteSet(S), NEW f \in [S -> Nat]
  PROVE  \A s \in SUBSET S : IsFiniteSet(Units(f, s)) 
<1> DEFINE T == {s \in SUBSET S : ~ IsFiniteSet(Units(f, s))}
<1> SUFFICES ASSUME T # {} PROVE FALSE
  OBVIOUS
<1>1. PICK A \in T : \A B \in T : B \subseteq A => B = A
  <2>1. T \subseteq SUBSET S
    OBVIOUS
  <2> HIDE DEF T
  <2> QED
    BY <2>1, Minimal
<1>2. A # {}
  <2>1. Units(f, {}) = {}
    BY DEF Units
  <2> QED
    BY <2>1, FS_EmptySet
<1>3. PICK x \in A : TRUE
  BY <1>2
<1>4. A \ {x} \notin T
  BY <1>1, <1>3
<1>5. IsFiniteSet(Units(f, A \ {x})) /\ f[x] \in Nat
  BY <1>4
<1> QED
  BY <1>3, <1>5, UnitsSplit

\* What a sum over the subsets of S comes to.
LEMMA SumIsUnits ==
  ASSUME NEW S, IsFiniteSet(S), NEW f \in [S -> Nat], NEW g, AddsUp(g, f, S)
  PROVE  g[S] = Cardinality(Units(f, S))
<1> DEFINE T == {s \in SUBSET S : g[s] # Cardinality(Units(f, s))}
<1> SUFFICES ASSUME T # {} PROVE FALSE
  OBVIOUS
<1>0. \A s \in SUBSET S : g[s] = IF s = {} THEN 0 ELSE f[AnElement(s)] + g[s \ {AnElement(s)}]
  BY Zenon DEF AddsUp
<1>1. PICK A \in T : \A B \in T : B \subseteq A => B = A
  <2>1. T \subseteq SUBSET S
    OBVIOUS
  <2> HIDE DEF T
  <2> QED
    BY <2>1, Minimal
<1>2. A # {}
  <2>1. Units(f, {}) = {}
    BY DEF Units
  <2> QED
    BY <1>0, <2>1, FS_EmptySet
<1>3. PICK x \in A : x = AnElement(A)
  BY <1>2 DEF AnElement
<1>4. A \ {x} \notin T
  BY <1>1, <1>3
<1>5. g[A \ {x}] = Cardinality(Units(f, A \ {x})) /\ f[x] \in Nat /\ IsFiniteSet(Units(f, A \ {x}))
  BY <1>4, UnitsFinite
<1>6. Cardinality(Units(f, A)) = f[x] + g[A \ {x}]
  BY <1>3, <1>5, UnitsSplit
<1>7. g[A] = f[x] + g[A \ {x}]
  BY <1>0, <1>1, <1>2, <1>3
<1> QED
  BY <1>1, <1>6, <1>7

\* There is such a function.
LEMMA SumExists ==
  ASSUME NEW S, IsFiniteSet(S), NEW f \in [S -> Nat]
  PROVE  \E g : AddsUp(g, f, S)
<1> DEFINE g == [s \in SUBSET S |-> Cardinality(Units(f, s))]
<1>1. ASSUME NEW s \in SUBSET S
      PROVE  g[s] = IF s = {} THEN 0 ELSE f[AnElement(s)] + g[s \ {AnElement(s)}]
  <2>1. CASE s = {}
    <3>1. Units(f, {}) = {}
      BY DEF Units
    <3> QED
      BY <2>1, <3>1, FS_EmptySet
  <2>2. CASE s # {}
    <3>1. PICK x \in s : x = AnElement(s)
      BY <2>2 DEF AnElement
    <3>2. IsFiniteSet(Units(f, s \ {x})) /\ f[x] \in Nat
      BY <3>1, UnitsFinite
    <3>3. Cardinality(Units(f, s)) = f[x] + Cardinality(Units(f, s \ {x}))
      BY <3>1, <3>2, UnitsSplit
    <3> QED
      BY <2>2, <3>1, <3>3
  <2> QED
    BY <2>1, <2>2
<1>2. [s \in SUBSET S |-> IF s = {} THEN 0 ELSE f[AnElement(s)] + g[s \ {AnElement(s)}]] = g
  <2> DEFINE e(s) == IF s = {} THEN 0 ELSE f[AnElement(s)] + g[s \ {AnElement(s)}]
             c(s) == Cardinality(Units(f, s))
  <2>1. \A s \in SUBSET S : e(s) = c(s)
    BY <1>1
  <2> HIDE DEF e, c
  <2>2. [s \in SUBSET S |-> e(s)] = [s \in SUBSET S |-> c(s)]
    BY <2>1
  <2> QED
    BY <2>2 DEF e, c
<1>3. AddsUp(g, f, S)
  BY <1>2, Zenon DEF AddsUp
<1> QED
  BY <1>3, Zenon

\* A sum is the number of units.
LEMMA SumCounts ==
  ASSUME NEW S, IsFiniteSet(S), NEW f \in [S -> Nat]
  PROVE  SumFunction(f) = Cardinality(Units(f, S))
<1> DEFINE iter == CHOOSE g : AddsUp(g, f, S)
<1>1. AddsUp(iter, f, S)
  BY SumExists
<1>2. SumFunction(f) = iter[S]
  <2>1. DOMAIN f = S
    OBVIOUS
  <2> QED
    BY <2>1, Zenon DEF SumFunction, SumFunctionOnSet, FoldFunctionOnSet, MapThenFoldSet, AddsUp, AnElement
<1> HIDE DEF iter
<1> QED
  BY <1>1, <1>2, SumIsUnits
-----------------------------------------------------------------------------
\* Threads that share the queue ---------------------------------------------

\* The jobs that have been run or sent, and the threads that have one they have
\* taken and neither run nor sent.
Dealt == SumFunction([j \in 1 .. Jobs |-> Times(j)])
InHand == {w \in Threads : at[w] \in {"init", "work", "send"}}

\* Where each thread may be in its program.
Ops(w) ==
  /\ at[w] \in Taking \cup (IF w = Sender THEN Sending ELSE Running)
  /\ program.client = "lb_mt_client" => at[w] \notin {"init", "finish"}

\* At most one thread is in the middle of pop, and the others cannot begin to.
InQueue(w) ==
  /\ at[w] \in {"pop", "advance", "init", "work", "send"} => work[w] \in 1 .. Jobs
  /\ at[w] = "advance" => from[w] = head /\ head <= Jobs /\ head \notin alive
  /\ w \in active /\ at[w] = "ended" => head > Jobs
  /\ \A v \in Threads : at[v] = "advance" /\ at[w] = "advance" => v = w

Queue ==
  /\ head \in 1 .. Jobs + 1 /\ alive \subseteq 1 .. Jobs
  /\ \A w \in Threads : InQueue(w)

TakenInv ==
  /\ AloneInv /\ \A w \in Threads : Ops(w)
  /\ undefined = {} => Queue /\ Dealt + Cardinality(InHand) = head - 1

\* The sets that are summed over and counted are finite.
LEMMA JobsFinite == IsFiniteSet(1 .. Jobs)
<1>1. 1 \in Int /\ Jobs \in Int
  BY JobsAssumption
<1> QED
  BY <1>1, FS_Interval

\* One more of one is one more of all.
LEMMA OneMore ==
  ASSUME NEW f \in [1 .. Jobs -> Nat], NEW d \in 1 .. Jobs, NEW g,
         g = [j \in 1 .. Jobs |-> IF j = d THEN f[j] + 1 ELSE f[j]]
  PROVE  SumFunction(f) \in Nat /\ SumFunction(g) = SumFunction(f) + 1
<1> DEFINE S == 1 .. Jobs
           u == <<d, f[d] + 1>>
<1>1. IsFiniteSet(S) /\ f \in [S -> Nat] /\ g \in [S -> Nat]
  <2>1. \A j \in S : f[j] \in Nat /\ f[j] + 1 \in Nat
    OBVIOUS
  <2> QED
    BY <2>1, JobsFinite
<1>2. IsFiniteSet(Units(f, S)) /\ Cardinality(Units(f, S)) \in Nat
  BY <1>1, UnitsFinite, FS_CardinalityType
<1>3. Units(g, S) = Units(f, S) \cup {u} /\ u \notin Units(f, S)
  <2>1. f[d] \in Nat /\ u \in Units(g, S) /\ u \notin Units(f, S)
    BY DEF Units
  <2>2. ASSUME NEW q \in S \X Nat PROVE q \in Units(g, S) <=> q \in Units(f, S) \/ q = u
    <3>1. q = <<q[1], q[2]>> /\ q[1] \in S /\ q[2] \in Nat /\ f[q[1]] \in Nat
      OBVIOUS
    <3>2. CASE q[1] = d
      <4>1. g[q[1]] = f[d] + 1
        BY <3>2
      <4>2. 1 <= q[2] /\ q[2] <= f[d] + 1 <=> (1 <= q[2] /\ q[2] <= f[d]) \/ q[2] = f[d] + 1
        BY <3>1, <3>2
      <4>3. q = u <=> q[2] = f[d] + 1
        BY <3>1, <3>2
      <4> QED
        BY <3>2, <4>1, <4>2, <4>3 DEF Units
    <3>3. CASE q[1] # d
      <4>1. g[q[1]] = f[q[1]] /\ q # u
        BY <3>1, <3>3
      <4> QED
        BY <4>1 DEF Units
    <3> QED
      BY <3>2, <3>3
  <2>3. Units(g, S) \subseteq S \X Nat /\ Units(f, S) \subseteq S \X Nat /\ u \in S \X Nat
    BY <2>1 DEF Units
  <2> HIDE DEF u, S
  <2> QED
    BY <2>1, <2>2, <2>3
<1> HIDE DEF u, S
<1>4. Cardinality(Units(g, S)) = Cardinality(Units(f, S)) + 1
  BY <1>2, <1>3, FS_AddElement
<1> QED
  BY <1>1, <1>2, <1>4, SumCounts

\* None of each is none of all.
LEMMA NothingDealt ==
  ASSUME NEW f, f = [j \in 1 .. Jobs |-> 0]
  PROVE  SumFunction(f) = 0
<1> DEFINE S == 1 .. Jobs
<1>1. IsFiniteSet(S) /\ f \in [S -> Nat]
  BY JobsFinite
<1>2. Units(f, S) = {}
  BY DEF Units
<1> HIDE DEF S
<1>3. SumFunction(f) = Cardinality(Units(f, S))
  BY <1>1, SumCounts
<1> QED
  BY <1>2, <1>3, FS_EmptySet

LEMMA ThreadsFinite == IsFiniteSet(Threads)
<1>1. IsFiniteSet(Workers)
  BY JobsAssumption
<1> QED
  BY <1>1, FS_AddElement DEF Threads

\* How often a job has been sent.
LEMMA TimesTypes ==
  ASSUME HostTypes, runs \in [1 .. Jobs -> Nat]
  PROVE  \A j \in 1 .. Jobs : SentTimes(j) \in Nat /\ Times(j) \in Nat
<1>1. ASSUME NEW j \in 1 .. Jobs PROVE SentTimes(j) \in Nat
  <2>1. sent \in Seq(Nat) /\ DOMAIN sent = 1 .. Len(sent) /\ Len(sent) \in Nat
    BY DEF HostTypes
  <2>2. IsFiniteSet(1 .. Len(sent)) /\ {n \in DOMAIN sent : sent[n] = j} \subseteq 1 .. Len(sent)
    BY <2>1, FS_Interval
  <2>3. IsFiniteSet({n \in DOMAIN sent : sent[n] = j})
    BY <2>2, FS_Subset
  <2> QED
    BY <2>3, FS_CardinalityType DEF SentTimes
<1> QED
  BY <1>1 DEF Times

\* A thread that comes to a stage, or leaves it.
LEMMA HandIn ==
  ASSUME NEW a \in Threads, at'[a] \in {"init", "work", "send"}, at[a] \notin {"init", "work", "send"},
         \A w \in Threads : w # a => at'[w] = at[w]
  PROVE  Cardinality(InHand) \in Nat /\ Cardinality(InHand') = Cardinality(InHand) + 1
<1>1. IsFiniteSet(InHand) /\ a \notin InHand
  BY ThreadsFinite, FS_Subset DEF InHand
<1>2. InHand' = InHand \cup {a}
  BY DEF InHand, Threads
<1> QED
  BY <1>1, <1>2, FS_AddElement, FS_CardinalityType

LEMMA HandOut ==
  ASSUME NEW a \in Threads, at'[a] \notin {"init", "work", "send"}, at[a] \in {"init", "work", "send"},
         \A w \in Threads : w # a => at'[w] = at[w]
  PROVE  Cardinality(InHand) \in Nat /\ Cardinality(InHand') = Cardinality(InHand) - 1
<1>1. IsFiniteSet(InHand) /\ a \in InHand
  BY ThreadsFinite, FS_Subset DEF InHand
<1>2. InHand' = InHand \ {a}
  BY DEF InHand, Threads
<1> QED
  BY <1>1, <1>2, FS_RemoveElement, FS_CardinalityType

LEMMA HandSame ==
  ASSUME NEW a \in Threads, at'[a] \in {"init", "work", "send"} <=> at[a] \in {"init", "work", "send"},
         \A w \in Threads : w # a => at'[w] = at[w]
  PROVE  InHand' = InHand
BY DEF InHand, Threads

\* A job is run, or sent, and nothing else changes the counts.
LEMMA DealtOne ==
  ASSUME HostTypes, runs \in [1 .. Jobs -> Nat], NEW d \in 1 .. Jobs,
         \/ sent' = sent /\ runs' = [runs EXCEPT ![d] = @ + 1]
         \/ sent' = Append(sent, d) /\ runs' = runs
  PROVE  Dealt \in Nat /\ Dealt' = Dealt + 1
<1>1. \A j \in 1 .. Jobs : SentTimes(j) \in Nat /\ runs[j] \in Nat /\ Times(j) = runs[j] + SentTimes(j)
  BY TimesTypes DEF Times
<1>2. ASSUME NEW j \in 1 .. Jobs
      PROVE  Times(j)' = IF j = d THEN Times(j) + 1 ELSE Times(j)
  <2>1. CASE sent' = sent /\ runs' = [runs EXCEPT ![d] = @ + 1]
    <3>1. SentTimes(j)' = SentTimes(j)
      BY <2>1 DEF SentTimes
    <3>2. runs'[j] = IF j = d THEN runs[j] + 1 ELSE runs[j]
      BY <2>1
    <3>3. Times(j)' = runs'[j] + SentTimes(j)
      BY <3>1 DEF Times
    <3> QED
      BY <1>1, <3>2, <3>3
  <2>2. CASE sent' = Append(sent, d) /\ runs' = runs
    <3> DEFINE P == {n \in DOMAIN sent : sent[n] = j}
               k == Len(sent) + 1
    <3>1. sent \in Seq(Nat) /\ DOMAIN sent = 1 .. Len(sent) /\ Len(sent) \in Nat
      BY DEF HostTypes
    <3>2. DOMAIN sent' = DOMAIN sent \cup {k} /\ sent'[k] = d /\ k \notin DOMAIN sent
          /\ \A n \in DOMAIN sent : sent'[n] = sent[n]
      BY <2>2, <3>1
    <3>3. {n \in DOMAIN sent' : sent'[n] = j} = IF j = d THEN P \cup {k} ELSE P
      BY <3>2
    <3>4. IsFiniteSet(P) /\ k \notin P
      <4>1. P \subseteq 1 .. Len(sent) /\ k \notin P
        BY <3>1, <3>2
      <4>2. IsFiniteSet(1 .. Len(sent))
        BY <3>1, FS_Interval
      <4> HIDE DEF P, k
      <4> QED
        BY <4>1, <4>2, FS_Subset
    <3>5. SentTimes(j)' = IF j = d THEN SentTimes(j) + 1 ELSE SentTimes(j)
      <4>1. CASE j = d
        <5>1. Cardinality(P \cup {k}) = Cardinality(P) + 1
          BY <3>4, FS_AddElement
        <5> QED
          BY <3>3, <4>1, <5>1 DEF SentTimes
      <4>2. CASE j # d
        BY <3>3, <4>2 DEF SentTimes
      <4> QED
        BY <4>1, <4>2
    <3>6. Times(j)' = runs[j] + SentTimes(j)'
      BY <2>2 DEF Times
    <3> QED
      BY <1>1, <3>5, <3>6
  <2> QED
    BY <2>1, <2>2
<1> DEFINE f == [j \in 1 .. Jobs |-> Times(j)]
           g == [j \in 1 .. Jobs |-> Times(j)']
<1>3. f \in [1 .. Jobs -> Nat]
  BY <1>1, TimesTypes
<1>4. g = [j \in 1 .. Jobs |-> IF j = d THEN f[j] + 1 ELSE f[j]]
  BY <1>2
<1>5. SumFunction(f) \in Nat /\ SumFunction(g) = SumFunction(f) + 1
  <2> HIDE DEF f, g
  <2> QED
    BY <1>3, <1>4, OneMore
<1> QED
  BY <1>5 DEF Dealt

LEMMA DealtSame ==
  ASSUME runs' = runs, sent' = sent
  PROVE  Dealt' = Dealt
<1>1. \A j \in 1 .. Jobs : Times(j)' = Times(j)
  BY DEF Times, SentTimes
<1> QED
  BY <1>1 DEF Dealt

LEMMA DealtTypes ==
  ASSUME HostTypes, runs \in [1 .. Jobs -> Nat]
  PROVE  Dealt \in Nat
<1> DEFINE f == [j \in 1 .. Jobs |-> Times(j)]
           S == 1 .. Jobs
<1>1. f \in [S -> Nat] /\ IsFiniteSet(S)
  <2>1. \A j \in S : Times(j) \in Nat
    BY TimesTypes
  <2> QED
    BY <2>1, JobsFinite
<1> HIDE DEF f, S
<1>2. SumFunction(f) = Cardinality(Units(f, S)) /\ IsFiniteSet(Units(f, S))
  BY <1>1, SumCounts, UnitsFinite
<1> QED
  BY <1>2, FS_CardinalityType DEF Dealt, f

LEMMA TakenInit == Init => TakenInv
<1> SUFFICES ASSUME Init PROVE TakenInv
  OBVIOUS
<1>1. AloneInv
  BY AloneInit
<1>2. /\ \A w \in Threads : at[w] \in {"empty", "ended"} /\ (w \in active => at[w] = "empty")
      /\ head = 1 /\ alive = 1 .. Jobs /\ Jobs \in Nat \ {0}
      /\ sent = <<>> /\ \A j \in 1 .. Jobs : runs[j] = 0
  BY JobsAssumption DEF Init
<1>3. \A w \in Threads : Ops(w)
  BY <1>2 DEF Ops, Taking
<1>4. Queue
  BY <1>2 DEF Queue, InQueue
<1>5. Cardinality(InHand) = 0
  <2>1. InHand = {}
    BY <1>2 DEF InHand
  <2> QED
    BY <2>1, FS_EmptySet
<1>6. Dealt = 0
  <2>1. ASSUME NEW j \in 1 .. Jobs PROVE Times(j) = 0
    <3>1. {n \in DOMAIN sent : sent[n] = j} = {}
      BY <1>2
    <3>2. SentTimes(j) = 0
      BY <3>1, FS_EmptySet DEF SentTimes
    <3> QED
      BY <1>2, <3>2 DEF Times
  <2>2. [j \in 1 .. Jobs |-> Times(j)] = [j \in 1 .. Jobs |-> 0]
    BY <2>1
  <2> QED
    BY <2>2, NothingDealt DEF Dealt
<1> QED
  BY <1>1, <1>2, <1>3, <1>4, <1>5, <1>6 DEF TakenInv

\* The thread that steps is the one whose place in the program must be looked at.
LEMMA OpsStep ==
  ASSUME \A w \in Threads : Ops(w), NEW a \in Threads, program' = program,
         \A w \in Threads : w # a => at'[w] = at[w],
         at'[a] \in Taking \cup (IF a = Sender THEN Sending ELSE Running),
         program.client = "lb_mt_client" => at'[a] \notin {"init", "finish"}
  PROVE  \A w \in Threads : Ops(w)'
BY DEF Ops

\* A step that leaves the queue alone.
LEMMA QueueStep ==
  ASSUME Queue, NEW a \in Threads, UNCHANGED <<active, work, from, head, alive>>,
         \A w \in Threads : w # a => at'[w] = at[w],
         at'[a] \notin {"pop", "advance"},
         at'[a] \in {"init", "work", "send"} => at[a] \in {"init", "work", "send"},
         at'[a] = "ended" => head > Jobs
  PROVE  Queue'
<1>1. ASSUME NEW w \in Threads PROVE InQueue(w)'
  <2>1. InQueue(w)
    BY DEF Queue
  <2>2. CASE w = a
    BY <2>1, <2>2 DEF InQueue
  <2>3. CASE w # a
    BY <2>1, <2>3 DEF InQueue
  <2> QED
    BY <2>2, <2>3
<1> QED
  BY <1>1 DEF Queue

\* A thread of start_test goes on to the next stage.
LEMMA StageStep ==
  ASSUME AloneInv, NEW a \in Threads, Ops(a), a # Sender,
         at[a] \in Running, at'[a] = Following(Stages, at[a], "empty")
  PROVE  /\ at'[a] = CASE at[a] = "init" -> "work" [] at[a] = "work" -> "load" [] at[a] = "load" -> "store"
                       [] at[a] = "store" -> IF program.client = "exp6_client" THEN "finish" ELSE "empty"
                       [] at[a] = "finish" -> "empty"
         /\ program.client = "lb_mt_client" => at[a] \notin {"init", "finish"}
<1>1. CASE program.client = "exp6_client"
  BY <1>1, ClientStages DEF Running
<1>2. CASE program.client = "lb_mt_client"
  BY <1>2, ClientStages DEF Running, Ops
<1> QED
  BY <1>1, <1>2 DEF AloneInv

\* A thread takes a job.
LEMMA TakenTakes ==
  ASSUME TakenInv, undefined = {}, NEW a \in Threads, Empty(a) \/ Front(a) \/ Pop(a) \/ Advance(a) \/ Misread(a)
  PROVE  /\ \A w \in Threads : Ops(w)'
         /\ undefined' = {} => Queue' /\ Dealt' + Cardinality(InHand') = head' - 1
<1>1. /\ AloneInv /\ HostTypes /\ Queue /\ Dealt + Cardinality(InHand) = head - 1
      /\ (\A w \in Threads : Ops(w)) /\ Ops(a) /\ InQueue(a)
      /\ head \in 1 .. Jobs + 1 /\ alive \subseteq 1 .. Jobs /\ Jobs \in Nat \ {0}
      /\ work \in [Threads -> Nat] /\ from \in [Threads -> Nat]
      /\ runs \in [1 .. Jobs -> Nat] /\ Dealt \in Nat
  BY DealtTypes, JobsAssumption DEF TakenInv, AloneInv, HostInv, HostTypes, Queue
<1>2. CASE Empty(a)
  <2>1. /\ at'[a] = IF head > Jobs THEN "ended" ELSE "front"
        /\ (\A w \in Threads : w # a => at'[w] = at[w]) /\ at[a] = "empty"
        /\ UNCHANGED <<program, active, work, from, runs, head, alive, sent>>
    BY <1>1, <1>2, Going DEF Empty, queueVars, serverVars
  <2>2. at'[a] \in {"ended", "front"} /\ (at'[a] = "ended" => head > Jobs)
    BY <2>1
  <2>3. \A w \in Threads : Ops(w)'
    BY <1>1, <2>1, <2>2, OpsStep DEF Taking
  <2>4. Queue'
    BY <1>1, <2>1, <2>2, QueueStep
  <2>5. Dealt' = Dealt /\ InHand' = InHand
    BY <2>1, <2>2, DealtSame, HandSame
  <2> QED
    BY <1>1, <2>1, <2>3, <2>4, <2>5
<1>3. CASE Front(a)
  <2>1. /\ at'[a] = "pop" /\ (\A w \in Threads : w # a => at'[w] = at[w]) /\ at[a] = "front"
        /\ UNCHANGED <<program, active, from, runs, head, alive, sent>>
        /\ work'[a] = head /\ (\A w \in Threads : w # a => work'[w] = work[w]) /\ head \in alive
    BY <1>1, <1>3, Going DEF Front, queueVars, serverVars
  <2>2. \A w \in Threads : Ops(w)'
    BY <1>1, <2>1, OpsStep DEF Taking
  <2>3. ASSUME NEW w \in Threads PROVE InQueue(w)'
    <3>1. InQueue(w)
      BY <1>1 DEF Queue
    <3>2. CASE w = a
      BY <1>1, <2>1, <3>2 DEF InQueue
    <3>3. CASE w # a
      BY <2>1, <3>1, <3>3 DEF InQueue
    <3> QED
      BY <3>2, <3>3
  <2>4. Queue'
    BY <1>1, <2>1, <2>3 DEF Queue
  <2>5. Dealt' = Dealt /\ InHand' = InHand
    BY <2>1, DealtSame, HandSame
  <2> QED
    BY <1>1, <2>1, <2>2, <2>4, <2>5
<1>4. CASE Pop(a)
  <2>1. /\ at'[a] = "advance" /\ (\A w \in Threads : w # a => at'[w] = at[w]) /\ at[a] = "pop"
        /\ UNCHANGED <<program, active, work, runs, head, sent>>
        /\ from'[a] = head /\ (\A w \in Threads : w # a => from'[w] = from[w])
        /\ alive' = alive \ {head} /\ head \in alive
    BY <1>1, <1>4, Going DEF Pop, serverVars
  <2>2. \A w \in Threads : Ops(w)'
    BY <1>1, <2>1, OpsStep DEF Taking
  <2>3. ASSUME NEW w \in Threads PROVE InQueue(w)' /\ at[w] # "advance"
    <3>1. InQueue(w) /\ at[w] # "advance"
      BY <1>1, <2>1 DEF Queue, InQueue
    <3>2. \A v \in Threads : at'[v] = "advance" => v = a
      BY <1>1, <2>1 DEF Queue, InQueue
    <3>3. CASE w = a
      BY <1>1, <2>1, <3>2, <3>3 DEF InQueue
    <3>4. CASE w # a
      BY <2>1, <3>1, <3>4 DEF InQueue
    <3> QED
      BY <3>1, <3>3, <3>4
  <2>4. Queue'
    BY <1>1, <2>1, <2>3 DEF Queue
  <2>5. Dealt' = Dealt /\ InHand' = InHand
    BY <2>1, DealtSame, HandSame
  <2> QED
    BY <1>1, <2>1, <2>2, <2>4, <2>5
<1>5. CASE Advance(a)
  <2>1. /\ at'[a] = IF a = Sender THEN "send" ELSE Stages[1]
        /\ (\A w \in Threads : w # a => at'[w] = at[w]) /\ at[a] = "advance"
        /\ UNCHANGED <<program, active, work, from, runs, alive, sent>>
        /\ head' = from[a] + 1
    BY <1>1, <1>5, Going DEF Advance, serverVars, Stages
  <2>2. /\ Stages[1] \in {"init", "work"}
        /\ program.client = "lb_mt_client" => Stages[1] = "work"
    BY <1>1, ClientStages DEF AloneInv
  <2>3. head' = head + 1 /\ head \in 1 .. Jobs /\ head' \in 1 .. Jobs + 1 /\ work[a] \in 1 .. Jobs
    BY <1>1, <2>1 DEF InQueue
  <2>4. \A w \in Threads : Ops(w)'
    BY <1>1, <2>1, <2>2, OpsStep DEF Sending, Running
  <2>5. ASSUME NEW w \in Threads PROVE InQueue(w)'
    <3>1. InQueue(w) /\ (w # a => at[w] # "advance")
      BY <1>1, <2>1 DEF Queue, InQueue
    <3>2. CASE w = a
      BY <2>1, <2>2, <2>3, <3>2 DEF InQueue
    <3>3. CASE w # a
      BY <1>1, <2>1, <2>3, <3>1, <3>3 DEF InQueue
    <3> QED
      BY <3>2, <3>3
  <2>6. Queue'
    BY <1>1, <2>1, <2>3, <2>5 DEF Queue
  <2>7. Dealt' = Dealt
    BY <2>1, DealtSame
  <2>8. Cardinality(InHand) \in Nat /\ Cardinality(InHand') = Cardinality(InHand) + 1
    BY <2>1, <2>2, HandIn
  <2>9. Dealt' + Cardinality(InHand') = head' - 1
    <3>1. PICK h \in Nat : h = Cardinality(InHand)
      BY <2>8
    <3>2. Dealt + h = head - 1 /\ Dealt \in Int /\ head \in Int
      BY <1>1, <2>3, <3>1
    <3> QED
      BY <2>3, <2>7, <2>8, <3>1, <3>2
  <2> QED
    BY <2>4, <2>6, <2>9
<1>6. CASE Misread(a)
  BY <1>1, <1>6 DEF Misread, Ops, clientVars
<1> QED
  BY <1>2, <1>3, <1>4, <1>5, <1>6

\* A thread runs the job it has taken.
LEMMA TakenRuns ==
  ASSUME TakenInv, undefined = {}, NEW a \in Threads,
         initGEOS(a) \/ finishGEOS(a) \/ start_test(a) \/ AddTime(a)
  PROVE  /\ \A w \in Threads : Ops(w)'
         /\ undefined' = {} => Queue' /\ Dealt' + Cardinality(InHand') = head' - 1
<1>1. /\ AloneInv /\ HostTypes /\ Queue /\ Dealt + Cardinality(InHand) = head - 1
      /\ (\A w \in Threads : Ops(w)) /\ Ops(a) /\ InQueue(a)
      /\ head \in 1 .. Jobs + 1 /\ runs \in [1 .. Jobs -> Nat] /\ Dealt \in Nat
  BY DealtTypes DEF TakenInv, AloneInv, HostInv, HostTypes, Queue
<1>2. at[a] \in Running /\ a # Sender
  BY <1>1 DEF Ops, Taking, Sending, Running, initGEOS, finishGEOS, start_test, AddTime
<1>3. /\ UNCHANGED <<program, active, work, from, head, alive, sent>>
      /\ Goes(a, Following(Stages, at[a], "empty"))
  BY DEF initGEOS, finishGEOS, start_test, AddTime, GoesOn, queueVars, serverVars
<1>4. at'[a] = Following(Stages, at[a], "empty") /\ \A w \in Threads : w # a => at'[w] = at[w]
  BY <1>1, <1>3, Going
<1>5. /\ at'[a] = CASE at[a] = "init" -> "work" [] at[a] = "work" -> "load" [] at[a] = "load" -> "store"
                    [] at[a] = "store" -> IF program.client = "exp6_client" THEN "finish" ELSE "empty"
                    [] at[a] = "finish" -> "empty"
      /\ program.client = "lb_mt_client" => at[a] \notin {"init", "finish"}
  BY <1>1, <1>2, <1>4, StageStep
<1>6. /\ at'[a] \in {"work", "load", "store", "finish", "empty"}
      /\ at'[a] = "finish" => program.client = "exp6_client"
      /\ at'[a] = "work" <=> at[a] = "init"
  BY <1>2, <1>5 DEF Running
<1>7. \A w \in Threads : Ops(w)'
  BY <1>1, <1>2, <1>3, <1>4, <1>6, OpsStep DEF Taking, Running
<1>8. Queue'
  BY <1>1, <1>3, <1>4, <1>6, QueueStep
<1>9. CASE at[a] = "work"
  <2>1. runs' = [runs EXCEPT ![work[a]] = @ + 1] /\ work[a] \in 1 .. Jobs
    BY <1>1, <1>9 DEF InQueue, initGEOS, finishGEOS, start_test, AddTime
  <2>2. Dealt' = Dealt + 1
    BY <1>1, <1>3, <2>1, DealtOne
  <2>3. Cardinality(InHand) \in Nat /\ Cardinality(InHand') = Cardinality(InHand) - 1
    BY <1>4, <1>6, <1>9, HandOut
  <2> QED
    BY <1>1, <1>3, <1>7, <1>8, <2>2, <2>3
<1>10. CASE at[a] # "work"
  <2>1. runs' = runs
    BY <1>10 DEF initGEOS, finishGEOS, start_test, AddTime
  <2>2. Dealt' = Dealt
    BY <1>3, <2>1, DealtSame
  <2>3. InHand' = InHand
    BY <1>2, <1>4, <1>6, <1>10, HandSame DEF Running
  <2> QED
    BY <1>1, <1>3, <1>7, <1>8, <2>2, <2>3
<1> QED
  BY <1>9, <1>10

\* The sender sends the job it has taken, and waits.
LEMMA TakenSends ==
  ASSUME TakenInv, undefined = {}, SayHello \/ Reply
  PROVE  /\ \A w \in Threads : Ops(w)'
         /\ undefined' = {} => Queue' /\ Dealt' + Cardinality(InHand') = head' - 1
<1>1. /\ AloneInv /\ HostTypes /\ Queue /\ Dealt + Cardinality(InHand) = head - 1
      /\ (\A w \in Threads : Ops(w)) /\ Sender \in Threads /\ InQueue(Sender)
      /\ head \in 1 .. Jobs + 1 /\ runs \in [1 .. Jobs -> Nat] /\ Dealt \in Nat
  BY DealtTypes DEF TakenInv, AloneInv, HostInv, HostTypes, Queue, Threads
<1>2. /\ UNCHANGED <<program, active, work, from, head, alive, runs>>
      /\ Goes(Sender, IF at[Sender] = "send" THEN "waiting" ELSE "empty")
      /\ at[Sender] \in {"send", "waiting"}
      /\ at[Sender] = "waiting" => sent' = sent
      /\ at[Sender] = "send" => sent' = Append(sent, work[Sender])
  BY DEF SayHello, Reply, queueVars, serverVars
<1>3. /\ at'[Sender] = IF at[Sender] = "send" THEN "waiting" ELSE "empty"
      /\ \A w \in Threads : w # Sender => at'[w] = at[w]
  BY <1>1, <1>2, Going
<1>4. at'[Sender] \in {"waiting", "empty"}
  BY <1>3
<1>5. \A w \in Threads : Ops(w)'
  BY <1>1, <1>2, <1>3, <1>4, OpsStep DEF Taking, Sending
<1>6. Queue'
  BY <1>1, <1>2, <1>3, <1>4, QueueStep
<1>7. CASE at[Sender] = "send"
  <2>1. sent' = Append(sent, work[Sender]) /\ work[Sender] \in 1 .. Jobs
    BY <1>1, <1>2, <1>7 DEF InQueue
  <2>2. Dealt' = Dealt + 1
    BY <1>1, <1>2, <2>1, DealtOne
  <2>3. Cardinality(InHand) \in Nat /\ Cardinality(InHand') = Cardinality(InHand) - 1
    BY <1>1, <1>3, <1>4, <1>7, HandOut
  <2> QED
    BY <1>1, <1>2, <1>5, <1>6, <2>2, <2>3
<1>8. CASE at[Sender] = "waiting"
  <2>1. Dealt' = Dealt
    BY <1>2, <1>8, DealtSame
  <2>2. InHand' = InHand
    BY <1>1, <1>3, <1>4, <1>8, HandSame
  <2> QED
    BY <1>1, <1>2, <1>5, <1>6, <2>1, <2>2
<1> QED
  BY <1>2, <1>7, <1>8

LEMMA TakenNext == TakenInv /\ [Next]_vars => TakenInv'
<1> SUFFICES ASSUME TakenInv, [Next]_vars PROVE TakenInv'
  OBVIOUS
<1>1. AloneInv'
  BY AloneNext DEF TakenInv
<1>2. CASE undefined = {} /\ \E w \in Threads : Work(w)
  BY <1>1, <1>2, TakenTakes, TakenRuns DEF TakenInv, Work
<1>3. CASE undefined = {} /\ (SayHello \/ Reply)
  BY <1>1, <1>3, TakenSends DEF TakenInv
<1>4. CASE Serve \/ UNCHANGED vars
  <2>1. UNCHANGED <<program, active, at, work, from, head, alive, runs, sent>> /\ (undefined' = {} => undefined = {})
    BY <1>4 DEF Serve, Proceed, vars, clientVars, queueVars, serverVars
  <2>2. Dealt' = Dealt
    BY <2>1, DealtSame
  <2> QED
    BY <1>1, <2>1, <2>2 DEF TakenInv, Ops, Queue, InQueue, InHand
<1> QED
  BY <1>2, <1>3, <1>4 DEF Next

\* Unless something was undefined, the jobs that the threads have run and sent
\* when all have ended are as many as were put in the queue, whatever the
\* interleaving of their steps of pop: one that no thread took is made up for by
\* one that was taken twice (doWork and sendWork of exp6_client and lb_mt_client).
THEOREM SkippedIsDoubledAlways == Spec => []SkippedIsDoubled
<1>1. ASSUME TakenInv, Ended, active # {}, undefined = {} PROVE Dealt = Jobs
  <2>1. Queue /\ Dealt + Cardinality(InHand) = head - 1 /\ active \subseteq Threads /\ head \in 1 .. Jobs + 1
        /\ HostTypes /\ runs \in [1 .. Jobs -> Nat]
    BY <1>1 DEF TakenInv, AloneInv, HostInv, Queue
  <2>2. PICK w \in active : w \in Threads /\ at[w] = "ended"
    BY <1>1, <2>1 DEF Ended
  <2>3. head = Jobs + 1 /\ Jobs \in Nat
    BY <2>1, <2>2, JobsAssumption DEF Queue, InQueue
  <2>4. InHand = {}
    BY <1>1 DEF Ended, InHand
  <2>5. Cardinality(InHand) = 0 /\ Dealt \in Nat
    BY <2>1, <2>4, FS_EmptySet, DealtTypes
  <2> QED
    BY <2>1, <2>3, <2>5
<1>2. TakenInv => SkippedIsDoubled
  BY <1>1 DEF SkippedIsDoubled, Dealt
<1> QED
  BY <1>2, TakenInit, TakenNext, PTL DEF Spec
=============================================================================

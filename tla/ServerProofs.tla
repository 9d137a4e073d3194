---------------------------- MODULE ServerProofs ----------------------------
(***************************************************************************)
(* Proofs about AsyncServer, for every number of handler threads, objects  *)
(* and calls, with clients that may go away at any time; then about        *)
(* OffloadServer: it is an AsyncServer, so what is proved of that one      *)
(* holds of it, and its shared counter invents nothing; then about the     *)
(* polygons its programs send each other, PolygonWire.                     *)
(***************************************************************************)
EXTENDS OffloadServer, PolygonWire, SequenceTheorems, FiniteSetTheorems,
        WellFoundedInduction, TLAPS

\* The asynchronous server --------------------------------------------------

LEMMA InitSound == Init => Sound
  BY NoneAssumption
     DEF Init, Sound, TypeOK, OnePlace, StatusAssertion, WorkBeforeAnswer, ThreadOK,
         ObjectsOK, CallsOK, HeldOnce, Apart, Tracked, Holds, Held, Queued, Waits, Due, Done

\* Sound in the next state, from its parts.
LEMMA SoundParts ==
  ASSUME TypeOK', StatusAssertion', WorkBeforeAnswer',
         aborted' = "no" => \A p \in Objects : (HeldOnce(p) /\ Apart(p) /\ Tracked(p))',
         aborted' = "no" => \A u \in Threads : ThreadOK(u)',
         aborted' = "no" => ObjectsOK', aborted' = "no" => CallsOK'
  PROVE  Sound'
  BY DEF Sound, OnePlace

LEMMA NextSound == Sound /\ [Next]_vars => Sound'
  <1> SUFFICES ASSUME Sound, [Next]_vars PROVE Sound'
    OBVIOUS
  <1> USE NoneAssumption, MayAssumption
       DEF Sound, TypeOK, StatusAssertion, WorkBeforeAnswer, server, runtime,
           clients, counts
  <1>1. ASSUME NEW t \in Threads, aborted = "no", New(t) PROVE Sound'
    <2> USE <1>1 DEF New
    <2>1. TypeOK'
      BY DEF ThreadOK
    <2>2. StatusAssertion' /\ WorkBeforeAnswer'
      BY DEF ThreadOK, Due, Done, ObjectsOK
    <2>3. ASSUME aborted' = "no", NEW p \in Objects PROVE (HeldOnce(p) /\ Apart(p) /\ Tracked(p))'
      <3>1. HeldOnce(p)'
        BY <2>3 DEF OnePlace, HeldOnce, Tracked, Holds, Held
      <3>2. Apart(p)'
        BY <2>3 DEF OnePlace, Apart, Holds, Held, Queued, Due, Done, Waits,
                 ObjectsOK
      <3>3. Tracked(p)'
        BY <2>3 DEF OnePlace, ThreadOK, Tracked, Holds, Held, Queued
      <3> QED
        BY <3>1, <3>2, <3>3
    <2>4. ASSUME aborted' = "no", NEW u \in Threads PROVE ThreadOK(u)'
      BY <2>4 DEF ThreadOK, Waits, Due, Done, ObjectsOK
    <2>5. aborted' = "no" => ObjectsOK'
      BY DEF Waits, Due, Done, ObjectsOK
    <2>6. aborted' = "no" => CallsOK'
      BY DEF CallsOK
    <2> QED
      BY <2>1, <2>2, <2>3, <2>4, <2>5, <2>6, SoundParts
  <1>2. ASSUME NEW t \in Threads, aborted = "no", SetProcess(t) PROVE Sound'
    <2> USE <1>2 DEF SetProcess
    <2>1. TypeOK'
      BY DEF ThreadOK
    <2>2. StatusAssertion' /\ WorkBeforeAnswer'
      BY DEF ThreadOK, Due, Done, ObjectsOK
    <2>3. ASSUME aborted' = "no", NEW p \in Objects PROVE (HeldOnce(p) /\ Apart(p) /\ Tracked(p))'
      <3>1. HeldOnce(p)'
        BY <2>3 DEF OnePlace, HeldOnce, Holds
      <3>2. Apart(p)'
        BY <2>3 DEF OnePlace, Apart, Holds, Held, Queued
      <3>3. Tracked(p)'
        BY <2>3 DEF OnePlace, Tracked, Holds, Held, Queued
      <3> QED
        BY <3>1, <3>2, <3>3
    <2>4. ASSUME aborted' = "no", NEW u \in Threads PROVE ThreadOK(u)'
      BY <2>4 DEF OnePlace, ThreadOK, HeldOnce, Holds, Waits, Due, Done
    <2>5. aborted' = "no" => ObjectsOK'
      BY DEF ThreadOK, Waits, Due, Done, ObjectsOK
    <2>6. aborted' = "no" => CallsOK'
      BY DEF CallsOK
    <2> QED
      BY <2>1, <2>2, <2>3, <2>4, <2>5, <2>6, SoundParts
  <1>3. ASSUME NEW t \in Threads, aborted = "no", RequestSayHello(t) PROVE Sound'
    <2> USE <1>3 DEF RequestSayHello
    <2>1. TypeOK'
      BY DEF ThreadOK
    <2>2. StatusAssertion' /\ WorkBeforeAnswer'
      BY DEF ThreadOK, Due, Done, ObjectsOK
    <2>3. ASSUME aborted' = "no", NEW p \in Objects PROVE (HeldOnce(p) /\ Apart(p) /\ Tracked(p))'
      <3>1. HeldOnce(p)'
        BY <2>3 DEF OnePlace, HeldOnce, Holds
      <3>2. Apart(p)'
        BY <2>3 DEF OnePlace, HeldOnce, Apart, Holds, Held, Queued
      <3>3. Tracked(p)'
        BY <2>3 DEF OnePlace, Tracked, Holds, Held, Queued
      <3> QED
        BY <3>1, <3>2, <3>3
    <2>4. ASSUME aborted' = "no", NEW u \in Threads PROVE ThreadOK(u)'
      BY <2>4 DEF ThreadOK, Waits, Due, Done
    <2>5. aborted' = "no" => ObjectsOK'
      BY DEF ThreadOK, Waits, Due, Done, ObjectsOK
    <2>6. aborted' = "no" => CallsOK'
      BY DEF CallsOK
    <2> QED
      BY <2>1, <2>2, <2>3, <2>4, <2>5, <2>6, SoundParts
  <1>4. ASSUME NEW t \in Threads, aborted = "no", NextEvent(t) PROVE Sound'
    <2> USE <1>4 DEF NextEvent
    <2>1. TypeOK'
      BY DEF ThreadOK
    <2>2. StatusAssertion' /\ WorkBeforeAnswer'
      BY DEF ThreadOK, Due, Done, ObjectsOK
    <2>3. ASSUME aborted' = "no", NEW p \in Objects PROVE (HeldOnce(p) /\ Apart(p) /\ Tracked(p))'
      <3>1. HeldOnce(p)'
        BY <2>3 DEF OnePlace, HeldOnce, Apart, Holds, Held, Queued
      <3>2. Apart(p)'
        BY <2>3 DEF OnePlace, Apart, Holds, Held, Queued
      <3>3. Tracked(p)'
        BY <2>3 DEF OnePlace, ThreadOK, Tracked, Holds, Held, Queued
      <3> QED
        BY <3>1, <3>2, <3>3
    <2>4. ASSUME aborted' = "no", NEW u \in Threads PROVE ThreadOK(u)'
      BY <2>4 DEF ThreadOK, Waits, Due, Done, ObjectsOK
    <2>5. aborted' = "no" => ObjectsOK'
      BY DEF Waits, Due, Done, ObjectsOK
    <2>6. aborted' = "no" => CallsOK'
      BY DEF CallsOK
    <2> QED
      BY <2>1, <2>2, <2>3, <2>4, <2>5, <2>6, SoundParts
  <1>5. ASSUME NEW t \in Threads, aborted = "no", Proceed(t) PROVE Sound'
    <2>1. TypeOK'
      BY <1>5 DEF Proceed, ThreadOK
    <2>2. StatusAssertion' /\ WorkBeforeAnswer'
      BY <1>5 DEF Proceed
    <2>3. ASSUME aborted' = "no", NEW p \in Objects PROVE (HeldOnce(p) /\ Apart(p) /\ Tracked(p))'
      <3>1. HeldOnce(p)'
        BY <1>5, <2>3 DEF Proceed, OnePlace, ThreadOK, HeldOnce, Holds, Due, Done
      <3>2. Apart(p)'
        BY <1>5, <2>3 DEF Proceed, OnePlace, Apart, Holds, Held, Queued
      <3>3. Tracked(p)'
        BY <1>5, <2>3 DEF Proceed, OnePlace, ThreadOK, Tracked, Holds, Held, Queued
      <3> QED
        BY <3>1, <3>2, <3>3
    <2>4. ASSUME aborted' = "no", NEW u \in Threads PROVE ThreadOK(u)'
      BY <1>5, <2>4 DEF Proceed, ThreadOK, Waits, Due, Done
    <2>5. aborted' = "no" => ObjectsOK'
      BY <1>5 DEF Proceed, Waits, Due, Done, ObjectsOK
    <2>6. aborted' = "no" => CallsOK'
      BY <1>5 DEF Proceed, CallsOK
    <2> QED
      BY <2>1, <2>2, <2>3, <2>4, <2>5, <2>6, SoundParts
  <1>6. ASSUME NEW t \in Threads, aborted = "no", Process(t) PROVE Sound'
    <2> USE <1>6 DEF Process
    <2>1. TypeOK'
      <3>1. handled' \in [Calls -> Nat]
        BY DEF ThreadOK, Due
      <3>2. pc' \in [Threads -> {"new", "create", "request", "next", "proceed", "process",
                                 "setFinish", "finish", "delete"}]
        OBVIOUS
      <3> QED
        BY <3>1, <3>2
    <2>2. StatusAssertion' /\ WorkBeforeAnswer'
      BY DEF ThreadOK, Due, Done, ObjectsOK
    <2>3. ASSUME aborted' = "no", NEW p \in Objects PROVE (HeldOnce(p) /\ Apart(p) /\ Tracked(p))'
      <3>1. HeldOnce(p)'
        BY <2>3 DEF OnePlace, HeldOnce, Holds
      <3>2. Apart(p)'
        BY <2>3 DEF OnePlace, Apart, Holds, Held, Queued
      <3>3. Tracked(p)'
        BY <2>3 DEF OnePlace, Tracked, Holds, Held, Queued
      <3> QED
        BY <3>1, <3>2, <3>3
    <2>4. ASSUME aborted' = "no", NEW u \in Threads PROVE ThreadOK(u)'
      BY <2>4 DEF OnePlace, ThreadOK, HeldOnce, Holds, Waits, Due, Done, CallsOK
    <2>5. aborted' = "no" => ObjectsOK'
      BY DEF OnePlace, ThreadOK, Apart, Holds, Held, Queued, Waits, Due, Done,
               ObjectsOK, CallsOK
    <2>6. aborted' = "no" => CallsOK'
      BY DEF ThreadOK, CallsOK
    <2> QED
      BY <2>1, <2>2, <2>3, <2>4, <2>5, <2>6, SoundParts
  <1>7. ASSUME NEW t \in Threads, aborted = "no", SetFinish(t) PROVE Sound'
    <2> USE <1>7 DEF SetFinish
    <2>1. TypeOK'
      BY DEF ThreadOK
    <2>2. StatusAssertion' /\ WorkBeforeAnswer'
      BY DEF ThreadOK, Due, Done, ObjectsOK
    <2>3. ASSUME aborted' = "no", NEW p \in Objects PROVE (HeldOnce(p) /\ Apart(p) /\ Tracked(p))'
      <3>1. HeldOnce(p)'
        BY <2>3 DEF OnePlace, HeldOnce, Holds
      <3>2. Apart(p)'
        BY <2>3 DEF OnePlace, Apart, Holds, Held, Queued
      <3>3. Tracked(p)'
        BY <2>3 DEF OnePlace, Tracked, Holds, Held, Queued
      <3> QED
        BY <3>1, <3>2, <3>3
    <2>4. ASSUME aborted' = "no", NEW u \in Threads PROVE ThreadOK(u)'
      BY <2>4 DEF OnePlace, ThreadOK, HeldOnce, Holds, Waits, Due, Done
    <2>5. aborted' = "no" => ObjectsOK'
      BY DEF ThreadOK, Waits, Due, Done, ObjectsOK
    <2>6. aborted' = "no" => CallsOK'
      BY DEF CallsOK
    <2> QED
      BY <2>1, <2>2, <2>3, <2>4, <2>5, <2>6, SoundParts
  <1>8. ASSUME NEW t \in Threads, aborted = "no", Finish(t) PROVE Sound'
    <2> USE <1>8 DEF Finish
    <2>1. TypeOK'
      BY DEF ThreadOK
    <2>2. StatusAssertion' /\ WorkBeforeAnswer'
      BY DEF ThreadOK, Due, Done, ObjectsOK
    <2>3. ASSUME aborted' = "no", NEW p \in Objects PROVE (HeldOnce(p) /\ Apart(p) /\ Tracked(p))'
      <3>1. HeldOnce(p)'
        BY <2>3 DEF OnePlace, HeldOnce, Holds
      <3>2. Apart(p)'
        BY <2>3 DEF OnePlace, HeldOnce, Apart, Holds, Held, Queued
      <3>3. Tracked(p)'
        BY <2>3 DEF OnePlace, Tracked, Holds, Held, Queued
      <3> QED
        BY <3>1, <3>2, <3>3
    <2>4. ASSUME aborted' = "no", NEW u \in Threads PROVE ThreadOK(u)'
      BY <2>4 DEF ThreadOK, Waits, Due, Done
    <2>5. aborted' = "no" => ObjectsOK'
      BY DEF ThreadOK, Waits, Due, Done, ObjectsOK
    <2>6. aborted' = "no" => CallsOK'
      BY DEF CallsOK
    <2> QED
      BY <2>1, <2>2, <2>3, <2>4, <2>5, <2>6, SoundParts
  <1>9. ASSUME NEW t \in Threads, aborted = "no", Delete(t) PROVE Sound'
    <2> USE <1>9 DEF Delete
    <2>1. TypeOK'
      BY DEF ThreadOK
    <2>2. StatusAssertion' /\ WorkBeforeAnswer'
      BY DEF ThreadOK, Due, Done, ObjectsOK
    <2>3. ASSUME aborted' = "no", NEW p \in Objects PROVE (HeldOnce(p) /\ Apart(p) /\ Tracked(p))'
      <3>1. HeldOnce(p)'
        BY <2>3 DEF OnePlace, HeldOnce, Holds
      <3>2. Apart(p)'
        BY <2>3 DEF OnePlace, Apart, Holds, Held, Queued
      <3>3. Tracked(p)'
        <4>1. /\ status_' = [status_ EXCEPT ![tag[t]] = "free"] /\ tag' = [tag EXCEPT ![t] = None]
              /\ UNCHANGED <<made, armed, finishing, cq>> /\ tag[t] # None
          BY <2>3 DEF ThreadOK
        <4>2. CASE p = tag[t]
          <5>1. Held(p) /\ HeldOnce(p) /\ Apart(p)
            BY <2>3, <4>2 DEF OnePlace, Held, Holds
          <5>2. \A u \in Threads : ~Holds(u, p)'
            BY <4>1, <4>2, <5>1 DEF HeldOnce, Holds
          <5>3. status_'[p] = "free"
            BY <4>1, <4>2
          <5>4. p \notin armed' /\ p \notin finishing' /\ ~Queued(p)'
            BY <4>1, <5>1 DEF Apart, Queued
          <5> QED
            BY <5>2, <5>3, <5>4 DEF Tracked, Held
        <4>3. CASE p # tag[t]
          <5>1. Tracked(p)
            BY <2>3 DEF OnePlace
          <5>2. \A u \in Threads : Holds(u, p)' <=> Holds(u, p)
            BY <4>1, <4>3 DEF Holds
          <5>3. status_'[p] = status_[p]
            BY <4>1, <4>3
          <5> QED
            BY <4>1, <5>1, <5>2, <5>3 DEF Tracked, Held, Queued
        <4> QED
          BY <4>2, <4>3
      <3> QED
        BY <3>1, <3>2, <3>3
    <2>4. ASSUME aborted' = "no", NEW u \in Threads PROVE ThreadOK(u)'
      BY <2>4 DEF OnePlace, ThreadOK, HeldOnce, Holds, Waits, Due, Done
    <2>5. aborted' = "no" => ObjectsOK'
      BY DEF OnePlace, ThreadOK, HeldOnce, Apart, Tracked, Holds, Held, Queued,
               Waits, Due, Done, ObjectsOK, CallsOK
    <2>6. aborted' = "no" => CallsOK'
      BY DEF OnePlace, ThreadOK, HeldOnce, Apart, Tracked, Holds, Held, Queued,
               Waits, Due, Done, ObjectsOK, CallsOK
    <2> QED
      BY <2>1, <2>2, <2>3, <2>4, <2>5, <2>6, SoundParts
  <1>10. ASSUME NEW c \in Calls, aborted = "no", Send(c) PROVE Sound'
    <2> USE <1>10 DEF Send
    <2>1. TypeOK'
      BY DEF ThreadOK
    <2>2. StatusAssertion' /\ WorkBeforeAnswer'
      BY DEF ThreadOK, Due, Done, ObjectsOK
    <2>3. ASSUME aborted' = "no", NEW p \in Objects PROVE (HeldOnce(p) /\ Apart(p) /\ Tracked(p))'
      <3>1. HeldOnce(p)'
        BY <2>3 DEF OnePlace, HeldOnce, Holds
      <3>2. Apart(p)'
        BY <2>3 DEF OnePlace, Apart, Holds, Held, Queued
      <3>3. Tracked(p)'
        BY <2>3 DEF OnePlace, Tracked, Holds, Held, Queued
      <3> QED
        BY <3>1, <3>2, <3>3
    <2>4. ASSUME aborted' = "no", NEW u \in Threads PROVE ThreadOK(u)'
      BY <2>4 DEF ThreadOK, Waits, Due, Done
    <2>5. aborted' = "no" => ObjectsOK'
      BY DEF Waits, Due, Done, ObjectsOK
    <2>6. aborted' = "no" => CallsOK'
      BY DEF CallsOK
    <2> QED
      BY <2>1, <2>2, <2>3, <2>4, <2>5, <2>6, SoundParts
  <1>11. ASSUME NEW c \in Calls, aborted = "no", Leave(c) PROVE Sound'
    <2> USE <1>11 DEF Leave
    <2>1. TypeOK'
      BY DEF ThreadOK
    <2>2. StatusAssertion' /\ WorkBeforeAnswer'
      BY DEF ThreadOK, Due, Done, ObjectsOK
    <2>3. ASSUME aborted' = "no", NEW p \in Objects PROVE (HeldOnce(p) /\ Apart(p) /\ Tracked(p))'
      <3>1. HeldOnce(p)'
        BY <2>3 DEF OnePlace, HeldOnce, Holds
      <3>2. Apart(p)'
        BY <2>3 DEF OnePlace, Apart, Holds, Held, Queued
      <3>3. Tracked(p)'
        BY <2>3 DEF OnePlace, Tracked, Holds, Held, Queued
      <3> QED
        BY <3>1, <3>2, <3>3
    <2>4. ASSUME aborted' = "no", NEW u \in Threads PROVE ThreadOK(u)'
      BY <2>4 DEF ThreadOK, Waits, Due, Done
    <2>5. aborted' = "no" => ObjectsOK'
      BY DEF Waits, Due, Done, ObjectsOK
    <2>6. aborted' = "no" => CallsOK'
      BY DEF CallsOK
    <2> QED
      BY <2>1, <2>2, <2>3, <2>4, <2>5, <2>6, SoundParts
  <1>12. ASSUME NEW c \in Calls, aborted = "no", Match(c) PROVE Sound'
    <2> PICK o \in armed : /\ armed' = armed \ {o}
                           /\ call' = [call EXCEPT ![o] = c]
                           /\ cq' = cq \cup {[tag |-> o, ok |-> TRUE]}
      BY <1>12 DEF Match
    <2> DEFINE e == [tag |-> o, ok |-> TRUE]
    <2>0. /\ c \in sent \ matched /\ matched' = matched \cup {c}
          /\ UNCHANGED <<pc, tag, made, status_, finishing, sent, gone, handled, answered, aborted>>
      BY <1>12 DEF Match
    <2>01. o \in Objects /\ e \in [tag : Objects, ok : BOOLEAN] /\ e.tag = o /\ e.ok = TRUE
      OBVIOUS
    <2>02. Waits(o) /\ HeldOnce(o) /\ Apart(o) /\ Tracked(o) /\ ~Held(o) /\ ~Queued(o)
      BY <1>12, <2>01 DEF ObjectsOK, OnePlace, Apart
    <2> HIDE DEF e
    <2>03. cq' = cq \cup {e}
      BY DEF e
    <2>04. \A p \in Objects : Queued(p)' <=> Queued(p) \/ p = o
      BY <2>01, <2>03 DEF Queued
    <2>1. TypeOK'
      BY <2>0, <2>01, <2>03
    <2>2. StatusAssertion' /\ WorkBeforeAnswer'
      BY <2>0
    <2>3. ASSUME aborted' = "no", NEW p \in Objects PROVE (HeldOnce(p) /\ Apart(p) /\ Tracked(p))'
      <3>0. HeldOnce(p) /\ Apart(p) /\ Tracked(p) /\ (Held(p)' <=> Held(p))
        BY <2>0, <2>3 DEF OnePlace, Held, Holds
      <3>1. HeldOnce(p)'
        BY <2>0, <3>0 DEF HeldOnce, Holds
      <3>2. Apart(p)'
        <4>1. \A x, y \in cq' : x.tag = p /\ y.tag = p => x = y
          BY <2>01, <2>02, <2>03, <3>0 DEF Apart, Queued
        <4> QED
          BY <2>0, <2>02, <2>04, <3>0, <4>1 DEF Apart
      <3>3. Tracked(p)'
        BY <2>0, <2>02, <2>04, <3>0 DEF Tracked
      <3> QED
        BY <3>1, <3>2, <3>3
    <2>05. \A p \in Objects : p # o => call'[p] = call[p]
      BY <2>0
    <2>06. call'[o] = c /\ c # None /\ Due(o)' /\ (aborted' = "no" => aborted = "no")
      BY <1>12, <2>0, <2>01, <2>02 DEF Waits, Due, CallsOK
    <2>4. ASSUME aborted' = "no", NEW u \in Threads PROVE ThreadOK(u)'
      <3>1. ThreadOK(u) /\ tag[u] # o /\ made[u] # o
        BY <1>12, <2>02 DEF Held, Holds
      <3> QED
        BY <2>0, <2>05, <3>1 DEF ThreadOK, Waits, Due, Done
    <2>5. aborted' = "no" => ObjectsOK'
      <3> SUFFICES ASSUME ObjectsOK PROVE ObjectsOK'
        BY <2>06
      <3>1. \A p \in armed' : Waits(p)'
        BY <2>0, <2>05 DEF ObjectsOK, Waits
      <3>2. \A p \in finishing' : Done(p)' /\ (answered[call[p]] = 0)'
        BY <2>0, <2>02, <2>05 DEF ObjectsOK, Done, Waits
      <3>3. ASSUME NEW x \in cq' PROVE (Done(x.tag) \/ (Due(x.tag) /\ x.ok = TRUE))'
        <4>1. CASE x = e
          BY <2>01, <2>06, <4>1
        <4>2. CASE x \in cq
          <5>1. x.tag # o /\ x.tag \in Objects
            BY <2>02, <4>2 DEF Queued
          <5> QED
            BY <2>0, <2>05, <4>2, <5>1 DEF ObjectsOK, Done, Due
        <4> QED
          BY <2>03, <4>1, <4>2
      <3>4. \A p \in Objects : (status_[p] = "free" => call[p] = None)'
        BY <2>0, <2>02, <2>05 DEF ObjectsOK, Waits
      <3> QED
        BY <3>1, <3>2, <3>3, <3>4 DEF ObjectsOK
    <2>6. aborted' = "no" => CallsOK'
      BY <2>0, <2>05, <2>06 DEF CallsOK
    <2> QED
      BY <2>1, <2>2, <2>3, <2>4, <2>5, <2>6, SoundParts
  <1>13. ASSUME NEW o \in Objects, aborted = "no", Carry(o) PROVE Sound'
    <2> DEFINE b == call[o] \notin gone
               e == [tag |-> o, ok |-> b]
    <2>0. /\ o \in finishing /\ finishing' = finishing \ {o} /\ cq' = cq \cup {e}
          /\ answered' = [answered EXCEPT ![call[o]] = IF call[o] \in gone THEN @ ELSE @ + 1]
          /\ UNCHANGED <<pc, tag, made, status_, call, armed, matched, sent, gone, handled, aborted>>
      BY <1>13 DEF Carry
    <2>01. e \in [tag : Objects, ok : BOOLEAN] /\ e.tag = o
      OBVIOUS
    <2>02. Done(o) /\ answered[call[o]] = 0 /\ Apart(o) /\ Tracked(o) /\ ~Held(o) /\ ~Queued(o)
      BY <1>13, <2>0 DEF ObjectsOK, OnePlace, Apart
    <2> HIDE DEF e, b
    <2>04. \A p \in Objects : Queued(p)' <=> Queued(p) \/ p = o
      BY <2>01, <2>0 DEF Queued
    <2>05. /\ call[o] \in Calls /\ handled[call[o]] = 1 /\ answered'[call[o]] \in {0, 1}
           /\ \A d \in Calls : d # call[o] => answered'[d] = answered[d]
      BY <2>0, <2>02 DEF Done
    <2>06. \A p \in Objects : p # o /\ call[p] \in Calls => call[p] # call[o]
      <3>1. CallsOK /\ call[o] # None /\ o \in Objects
        BY <1>13, <2>05
      <3> QED
        BY <3>1 DEF CallsOK
    <2>1. TypeOK'
      <3>1. answered' \in [Calls -> Nat]
        <4> DEFINE v == IF call[o] \in gone THEN answered[call[o]] ELSE answered[call[o]] + 1
        <4>1. v \in Nat
          BY <2>05
        <4>2. answered' = [answered EXCEPT ![call[o]] = v]
          BY <2>0
        <4>3. answered \in [Calls -> Nat]
          OBVIOUS
        <4> HIDE DEF v
        <4> QED
          BY <4>1, <4>2, <4>3
      <3> QED
        BY <2>0, <2>01, <3>1
    <2>2. StatusAssertion' /\ WorkBeforeAnswer'
      BY <2>0, <2>05
    <2>3. ASSUME aborted' = "no", NEW p \in Objects PROVE (HeldOnce(p) /\ Apart(p) /\ Tracked(p))'
      <3>0. HeldOnce(p) /\ Apart(p) /\ Tracked(p) /\ (Held(p)' <=> Held(p))
        BY <2>0, <2>3 DEF OnePlace, Held, Holds
      <3>1. HeldOnce(p)'
        BY <2>0, <3>0 DEF HeldOnce, Holds
      <3>2. Apart(p)'
        <4>1. \A x, y \in cq' : x.tag = p /\ y.tag = p => x = y
          BY <2>0, <2>01, <2>02, <3>0 DEF Apart, Queued
        <4> QED
          BY <2>0, <2>02, <2>04, <3>0, <4>1 DEF Apart
      <3>3. Tracked(p)'
        BY <2>0, <2>02, <2>04, <3>0 DEF Tracked
      <3> QED
        BY <3>1, <3>2, <3>3
    <2>4. ASSUME aborted' = "no", NEW u \in Threads PROVE ThreadOK(u)'
      <3>1. ThreadOK(u) /\ tag[u] # o /\ made[u] # o
        BY <1>13, <2>02 DEF Held, Holds
      <3>2. tag[u] # None /\ call[tag[u]] \in Calls => answered'[call[tag[u]]] = answered[call[tag[u]]]
        BY <2>05, <2>06, <3>1
      <3> QED
        BY <2>0, <3>1, <3>2 DEF ThreadOK, Waits, Due, Done
    <2>5. aborted' = "no" => ObjectsOK'
      <3> SUFFICES ASSUME ObjectsOK PROVE ObjectsOK'
        BY <1>13
      <3>1. \A p \in armed' : Waits(p)'
        BY <2>0 DEF ObjectsOK, Waits
      <3>2. \A p \in finishing' : Done(p)' /\ (answered[call[p]] = 0)'
        BY <2>0, <2>05, <2>06 DEF ObjectsOK, Done
      <3>3. ASSUME NEW x \in cq' PROVE (Done(x.tag) \/ (Due(x.tag) /\ x.ok = TRUE))'
        <4>1. CASE x = e
          BY <2>0, <2>01, <2>02, <4>1 DEF Done
        <4>2. CASE x \in cq
          <5>1. x.tag # o /\ x.tag \in Objects
            BY <2>02, <4>2 DEF Queued
          <5> QED
            BY <2>0, <2>05, <2>06, <4>2, <5>1 DEF ObjectsOK, Done, Due
        <4> QED
          BY <2>0, <4>1, <4>2
      <3>4. \A p \in Objects : (status_[p] = "free" => call[p] = None)'
        BY <2>0 DEF ObjectsOK
      <3> QED
        BY <3>1, <3>2, <3>3, <3>4 DEF ObjectsOK
    <2>6. aborted' = "no" => CallsOK'
      <3>1. CallsOK /\ call[o] \in matched
        BY <1>13, <2>05 DEF CallsOK
      <3> QED
        BY <2>0, <2>05, <3>1 DEF CallsOK
    <2> QED
      BY <2>1, <2>2, <2>3, <2>4, <2>5, <2>6, SoundParts
  <1>14. CASE UNCHANGED vars
    BY <1>14 DEF vars, OnePlace, ThreadOK, HeldOnce, Apart, Tracked, Holds, Held,
             Queued, Waits, Due, Done, ObjectsOK, CallsOK
  <1>15. ASSUME NEW t \in Threads, aborted = "no", Throw(t) PROVE Sound'
    <2>1. TypeOK' /\ StatusAssertion' /\ WorkBeforeAnswer' /\ aborted' # "no"
      BY <1>15 DEF Throw
    <2> QED
      BY <2>1 DEF OnePlace
  <1> QED
    BY <1>1, <1>2, <1>3, <1>4, <1>5, <1>6, <1>7, <1>8, <1>9, <1>10, <1>11, <1>12,
         <1>13, <1>14, <1>15
         DEF Next, ThreadStep, Rest

(***************************************************************************)
(* The inductive invariant holds throughout.                               *)
(***************************************************************************)
THEOREM SoundAlways == SafeSpec => []Sound
  BY InitSound, NextSound, PTL DEF SafeSpec

(***************************************************************************)
(* Every variable of the server keeps its type.                            *)
(***************************************************************************)
THEOREM TypeCorrect == SafeSpec => []TypeOK
  BY SoundAlways, PTL DEF Sound

(***************************************************************************)
(* As long as the process lives, no CallData object is in two places, none *)
(* is used after its delete, and none is leaked.                           *)
(***************************************************************************)
THEOREM OnePlaceAlways == SafeSpec => []OnePlace
  BY SoundAlways, PTL DEF Sound

(***************************************************************************)
(* GPR_ASSERT(status_ == FINISH) never fails.                              *)
(***************************************************************************)
THEOREM StatusAssertionAlways == SafeSpec => []StatusAssertion
  BY SoundAlways, PTL DEF Sound

(***************************************************************************)
(* No call is worked on twice, and none is answered before its work.       *)
(***************************************************************************)
THEOREM WorkBeforeAnswerAlways == SafeSpec => []WorkBeforeAnswer
  BY SoundAlways, PTL DEF Sound

(***************************************************************************)
(* The server implements the work pool whose tasks are the calls: a call   *)
(* is answered only by a Carry step, and only once.                        *)
(***************************************************************************)
THEOREM Implements == SafeSpec => Pool!SafeSpec
  <1> DEFINE owed == [c \in Calls |-> 1 - answered[c]]
  <1>1. Init => Pool!Init
    BY DEF Init, Pool!Init
  <1>2. Sound /\ [Next]_vars => [Pool!Next]_owed
    <2> SUFFICES ASSUME Sound, [Next]_vars, owed' # owed PROVE Pool!Next
      OBVIOUS
    <2>1. answered' # answered
      OBVIOUS
    <2>2. PICK o \in Objects : aborted = "no" /\ Carry(o)
      BY <2>1 DEF Next, Rest, vars, counts, ThreadStep, New, SetProcess,
               RequestSayHello, NextEvent, Proceed, Process, Throw, SetFinish,
               Finish, Delete, Send, Leave, Match
    <2>3. call[o] \in Calls /\ answered[call[o]] = 0 /\ answered \in [Calls -> Nat]
      BY <2>2 DEF Carry, Sound, TypeOK, ObjectsOK
    <2>4. answered' = [answered EXCEPT ![call[o]] = @ + 1]
      BY <2>1, <2>2, <2>3 DEF Carry
    <2>5. owed[call[o]] > 0 /\ owed' = [owed EXCEPT ![call[o]] = @ - 1]
      BY <2>3, <2>4
    <2> QED
      BY <2>3, <2>5 DEF Pool!Next, Pool!CarryOut
  <1> QED
    BY <1>1, <1>2, SoundAlways, PTL DEF SafeSpec, Pool!SafeSpec
-----------------------------------------------------------------------------
\* The offloading server ----------------------------------------------------

LEMMA StepIsServerStep == [OffloadNext]_offloadAll => [Next]_vars
  <1> SUFFICES ASSUME [OffloadNext]_offloadAll PROVE [Next]_vars
    OBVIOUS
  <1>1. ASSUME aborted = "no", NEW t \in Threads,
               HandlerStep(t) \/ SendStep(t) \/ SendFails(t)
        PROVE  [Next]_vars
    <2>1. \/ ThreadStep(t) \/ Throw(t) \/ UNCHANGED vars
      BY <1>1 DEF HandlerStep, SendStep, Begin, Load, Store, SetReply, Reset, Serve,
                  SendLoad, SendStore, SendFails, ThreadStep
    <2> QED
      BY <1>1, <2>1 DEF Next
  <1>2. ASSUME aborted = "no", NEW c \in Calls, CallServer(c) \/ Accept(c) \/ GoAway(c)
        PROVE  [Next]_vars
    BY <1>2 DEF Next, CallServer, Accept, GoAway
  <1>3. ASSUME aborted = "no", NEW o \in Objects, CarryReply(o) PROVE [Next]_vars
    BY <1>3 DEF Next, CarryReply
  <1>4. CASE UNCHANGED offloadAll
    BY <1>4 DEF offloadAll
  <1> QED
    BY <1>1, <1>2, <1>3, <1>4 DEF OffloadNext, Next

(***************************************************************************)
(* Counting and forwarding change nothing in how calls are served: the     *)
(* composed process implements the asynchronous server.                    *)
(***************************************************************************)
THEOREM ImplementsServer == OffloadSafeSpec => SafeSpec
  <1>1. OffloadInit => Init
    BY DEF OffloadInit
  <1> QED
    BY <1>1, StepIsServerStep, PTL DEF OffloadSafeSpec, SafeSpec

(***************************************************************************)
(* No CallData object is in two places while requests are being counted.   *)
(***************************************************************************)
THEOREM OffloadOnePlace == OffloadSafeSpec => []OnePlace
  BY ImplementsServer, OnePlaceAlways, PTL


(***************************************************************************)
(* The inductive invariant: while a request is split, it is one a handler  *)
(* processes; its sendThread is joined before the reply is complete; and   *)
(* an addition under way is one of those still to be made.                 *)
(***************************************************************************)
SplitOK(t) == /\ stage[t] # "begin" => pc[t] = "process"
              /\ stage[t] \in {"begin", "reset"} => sendStage[t] = "none"
              /\ stage[t] = "store" => left[t] > 0
CountingOK ==
  /\ OffloadTypeOK /\ NothingInvented
  /\ aborted = "no" => \A t \in Threads : SplitOK(t)

LEMMA InitCounting == OffloadInit => CountingOK
  BY DEF OffloadInit, CountingOK, OffloadTypeOK, NothingInvented, SplitOK

\* A handler that processes proceeds with an object that serves a call.
LEMMA ProcessesACall ==
  ASSUME Sound, aborted = "no", NEW t \in Threads, pc[t] = "process"
  PROVE  Mine(t) \in Calls
  BY DEF Sound, TypeOK, ThreadOK, Due, Mine

LEMMA NextCounting == Sound /\ CountingOK /\ [OffloadNext]_offloadAll => CountingOK'
  <1> SUFFICES ASSUME Sound, CountingOK, [OffloadNext]_offloadAll PROVE CountingOK'
    OBVIOUS
  <1> USE CountAssumption DEF CountingOK, OffloadTypeOK, NothingInvented, SplitOK,
          handling, sending, results, history
  <1>1. ASSUME NEW t \in Threads, aborted = "no", Begin(t) PROVE CountingOK'
    <2>1. Local[Mine(t)] \in Nat
      BY <1>1, ProcessesACall DEF Begin
    <2> QED
      BY <1>1, <2>1 DEF Begin, vars, server
  <1>2. ASSUME NEW t \in Threads, aborted = "no", Load(t) PROVE CountingOK'
    BY <1>2 DEF Load, vars, server
  <1>3. ASSUME NEW t \in Threads, aborted = "no", Store(t) PROVE CountingOK'
    BY <1>3 DEF Store, vars, server
  <1>4. ASSUME NEW t \in Threads, aborted = "no", SetReply(t) PROVE CountingOK'
    BY <1>4 DEF SetReply, vars, server
  <1>5. ASSUME NEW t \in Threads, aborted = "no", Reset(t) PROVE CountingOK'
    BY <1>5 DEF Reset, Process, Sound, TypeOK
  <1>6. ASSUME NEW t \in Threads, aborted = "no", SendLoad(t) PROVE CountingOK'
    BY <1>6 DEF SendLoad, vars, server
  <1>7. ASSUME NEW t \in Threads, aborted = "no", SendStore(t) PROVE CountingOK'
    <2>1. Remote[Mine(t)] \in Nat
      BY <1>7, ProcessesACall DEF SendStore
    <2> QED
      BY <1>7, <2>1 DEF SendStore, vars, server
  <1>8. ASSUME NEW t \in Threads, aborted = "no", Serve(t) PROVE CountingOK'
    <2>1. pc[t] # "process" /\ \A u \in Threads \ {t} : pc'[u] = pc[u]
      BY <1>8 DEF Serve, New, SetProcess, RequestSayHello, NextEvent, Proceed, SetFinish,
                  Finish, Delete, Sound, TypeOK
    <2> QED
      BY <1>8, <2>1 DEF Serve, offloadVars
  <1>9. ASSUME NEW t \in Threads, aborted = "no", SendFails(t) PROVE CountingOK'
    BY <1>9 DEF SendFails, Throw, offloadVars
  <1>10. ASSUME NEW c \in Calls, aborted = "no", CallServer(c) \/ Accept(c) \/ GoAway(c)
         PROVE  CountingOK'
    BY <1>10 DEF CallServer, Accept, GoAway, Send, Match, Leave, offloadVars, server
  <1>11. ASSUME NEW o \in Objects, aborted = "no", CarryReply(o) PROVE CountingOK'
    BY <1>11 DEF CarryReply, Carry, server
  <1>12. CASE UNCHANGED offloadAll
    BY <1>12 DEF offloadAll, offloadVars, vars, server
  <1> QED
    BY <1>1, <1>2, <1>3, <1>4, <1>5, <1>6, <1>7, <1>8, <1>9, <1>10, <1>11, <1>12
       DEF OffloadNext, HandlerStep, SendStep, Rest, offloadAll

LEMMA NextQuiet == CountingOK /\ QuietIsZero /\ [OffloadNext]_offloadAll => QuietIsZero'
  <1> SUFFICES ASSUME CountingOK, QuietIsZero, [OffloadNext]_offloadAll, Busy' = {}
               PROVE  intersectCount' = 0
    BY DEF QuietIsZero
  <1> USE DEF Busy, handling, sending, results, history
  <1>1. ASSUME NEW t \in Threads, Begin(t) \/ Load(t) \/ Store(t) \/ SetReply(t) PROVE FALSE
    BY <1>1 DEF Begin, Load, Store, SetReply, CountingOK, OffloadTypeOK
  <1>2. ASSUME NEW t \in Threads, Reset(t) PROVE intersectCount' = 0
    BY <1>2 DEF Reset
  <1>3. ASSUME NEW t \in Threads, aborted = "no", SendStore(t) PROVE FALSE
    BY <1>3 DEF SendStore, CountingOK, SplitOK
  <1>4. CASE UNCHANGED <<stage, intersectCount>>
    BY <1>4 DEF QuietIsZero
  <1> QED
    BY <1>1, <1>2, <1>3, <1>4 DEF OffloadNext, HandlerStep, SendStep, SendLoad, SendFails, Serve,
       CallServer, Accept, GoAway, CarryReply, offloadVars, offloadAll

LEMMA CountingAlways == OffloadSafeSpec => []CountingOK
  BY ImplementsServer, SoundAlways, InitCounting, NextCounting, PTL DEF OffloadSafeSpec

(***************************************************************************)
(* The counter, the counts loaded from it and the answers keep their type, *)
(* whatever the threads lose to each other.                                *)
(***************************************************************************)
THEOREM OffloadTypeCorrect == OffloadSafeSpec => []OffloadTypeOK
  <1>1. CountingOK => OffloadTypeOK
    BY DEF CountingOK
  <1> QED
    BY <1>1, CountingAlways, PTL

(***************************************************************************)
(* No answer exceeds what all threads together have added.                 *)
(***************************************************************************)
THEOREM NothingInventedAlways == OffloadSafeSpec => []NothingInvented
  <1>1. CountingOK => NothingInvented
    BY DEF CountingOK
  <1> QED
    BY <1>1, CountingAlways, PTL

(***************************************************************************)
(* Whatever was lost among requests processed together, the counter is     *)
(* zero again when the last of them is done.                               *)
(***************************************************************************)
THEOREM QuietIsZeroAlways == OffloadSafeSpec => []QuietIsZero
  <1>1. OffloadInit => QuietIsZero
    BY DEF OffloadInit, QuietIsZero
  <1> QED
    BY <1>1, CountingAlways, NextQuiet, PTL DEF OffloadSafeSpec

-----------------------------------------------------------------------------
(***************************************************************************)
(* The answers of requests that were processed alone.  Seen is what the    *)
(* handler has counted so far; Reached, what the counter can then hold.    *)
(***************************************************************************)
Seen(t) == Local[Mine(t)] - left[t]
Reached(t) == {Seen(t)} \cup (IF sendStage[t] = "done"
                                THEN Remote[Mine(t)] .. Seen(t) + Remote[Mine(t)] ELSE {})
RunsAlone(t) == stage[t] # "begin" /\ Mine(t) \in alone
AloneOK(t) ==
  /\ Busy = {t}
  /\ left[t] \in 0 .. Local[Mine(t)]
  /\ stage[t] # "reset" => /\ intersectCount \in Reached(t)
                           /\ sendStage[t] = "none" <=> ~Offload
  /\ stage[t] = "store" => count[t] \in Reached(t)
  /\ sendStage[t] = "store" => sendCount[t] \in 0 .. Seen(t)
  /\ stage[t] = "reset" => reply_[tag[t]] \in Counted(Mine(t))
RepliesOK ==
  \A o \in Objects : call[o] \in alone /\ handled[call[o]] = 1 => reply_[o] \in Counted(call[o])
AloneSound ==
  /\ aborted = "no" => RepliesOK /\ \A t \in Threads : RunsAlone(t) => AloneOK(t)
  /\ AloneIsCounted

LEMMA InitAlone == OffloadInit => AloneSound
  BY DEF OffloadInit, Init, AloneSound, RepliesOK, RunsAlone, AloneIsCounted

\* What Sound says of a handler that processes: its call is not yet handled, and
\* no other thread has its object.
LEMMA Processing ==
  ASSUME Sound, aborted = "no", NEW t \in Threads, pc[t] = "process"
  PROVE  /\ tag[t] \in Objects /\ Mine(t) \in Calls /\ handled[Mine(t)] = 0
         /\ \A u \in Threads : tag[u] = tag[t] => u = t
         /\ tag[t] \notin armed
  BY NoneAssumption
     DEF Sound, TypeOK, ThreadOK, Due, Mine, OnePlace, HeldOnce, Apart, Held, Holds

\* A step of a thread that is busy is no step beside a request that runs alone.
LEMMA AloneIsBusy ==
  ASSUME AloneSound, aborted = "no", NEW t \in Threads, stage[t] # "begin",
         NEW u \in Threads, RunsAlone(u)
  PROVE  u = t
  BY DEF AloneSound, AloneOK, Busy

LEMMA NextAlone ==
  Sound /\ CountingOK /\ QuietIsZero /\ AloneSound /\ [OffloadNext]_offloadAll => AloneSound'
  <1> SUFFICES ASSUME Sound, CountingOK, QuietIsZero, AloneSound, [OffloadNext]_offloadAll
               PROVE  AloneSound'
    OBVIOUS
  <1> USE CountAssumption, ModeAssumption DEF handling, sending, results, history
  <1>0. \A c \in Calls : Local[c] \in Nat /\ Remote[c] \in Nat
    OBVIOUS
  <1>1. ASSUME NEW t \in Threads, aborted = "no", Begin(t) PROVE AloneSound'
    <2> USE <1>1 DEF Begin, vars, server, runtime, counts
    <2>1. stage \in [Threads -> {"begin", "load", "store", "reset"}] /\ left \in [Threads -> Nat]
          /\ sendStage \in [Threads -> {"none", "sent", "store", "done"}] /\ alone' \subseteq alone
      BY DEF CountingOK, OffloadTypeOK
    <2>2. RepliesOK'
      BY <2>1 DEF AloneSound, RepliesOK, Counted
    <2>3. AloneIsCounted'
      BY <2>1 DEF AloneSound, AloneIsCounted, Counted
    <2>4. ASSUME NEW u \in Threads, RunsAlone(u)' PROVE AloneOK(u)'
      <3>1. CASE Busy = {}
        <4>1. u = t /\ Busy' = {t}
          BY <2>1, <2>4, <3>1 DEF Busy, RunsAlone
        <4>2. intersectCount' = 0 /\ Mine(t)' = Mine(t) /\ Mine(t) \in Calls
          BY <3>1, ProcessesACall DEF QuietIsZero, Mine
        <4>3. left'[t] = Local[Mine(t)]
          BY <2>1
        <4>4. Seen(t)' = 0
          BY <1>0, <4>2, <4>3 DEF Seen
        <4>5. stage'[t] = "load" /\ sendStage'[t] = (IF Offload THEN "sent" ELSE "none")
          BY <2>1
        <4> QED
          BY <1>0, <4>1, <4>2, <4>3, <4>4, <4>5 DEF AloneOK, Reached
      <3>2. CASE Busy # {}
        <4>1. u \in Busy \cup {t} /\ Mine(u)' = Mine(u)
          BY <2>1, <2>4 DEF Busy, RunsAlone, Mine
        <4> QED
          BY <2>4, <3>2, <4>1 DEF RunsAlone
      <3> QED
        BY <3>1, <3>2
    <2> QED
      BY <2>2, <2>3, <2>4 DEF AloneSound
  <1>2. ASSUME NEW t \in Threads, aborted = "no", stage[t] # "begin",
               \A u \in Threads : stage'[u] # "begin" => stage[u] # "begin",
               alone' = alone, call' = call, tag' = tag, RepliesOK', AloneIsCounted',
               RunsAlone(t)' => AloneOK(t)'
        PROVE  AloneSound'
    <2>1. ASSUME NEW u \in Threads, RunsAlone(u)' PROVE AloneOK(u)'
      <3>1. RunsAlone(u)
        BY <1>2, <2>1 DEF RunsAlone, Mine
      <3> QED
        BY <1>2, <2>1, <3>1, AloneIsBusy
    <2> QED
      BY <1>2, <2>1 DEF AloneSound
  <1>3. ASSUME NEW t \in Threads, aborted = "no", Load(t) \/ Store(t) PROVE AloneSound'
    <2>1. RepliesOK' /\ AloneIsCounted'
      BY <1>3 DEF Load, Store, vars, server, runtime, counts, AloneSound, RepliesOK, AloneIsCounted,
                  Counted
    <2>2. ASSUME RunsAlone(t)' PROVE AloneOK(t)'
      <3>1. RunsAlone(t) /\ AloneOK(t) /\ Mine(t)' = Mine(t) /\ Mine(t) \in Calls /\ Busy' = Busy
            /\ stage[t] # "reset"
        BY <1>3, <2>2, ProcessesACall
           DEF Load, Store, vars, server, runtime, CountingOK, OffloadTypeOK, SplitOK, RunsAlone, Mine,
               AloneSound, Busy
      <3>2. CASE Load(t)
        <4>1. /\ count'[t] = intersectCount /\ left' = left /\ sendStage' = sendStage
              /\ sendCount' = sendCount /\ intersectCount' = intersectCount /\ stage'[t] = "store"
          BY <3>2 DEF Load, CountingOK, OffloadTypeOK
        <4> QED
          BY <3>1, <4>1 DEF AloneOK, Reached, Seen
      <3>3. CASE Store(t)
        <4>1. /\ left'[t] = left[t] - 1 /\ sendStage' = sendStage /\ left[t] > 0
              /\ sendCount' = sendCount /\ intersectCount' = count[t] + 1 /\ stage'[t] = "load"
              /\ left[t] \in Nat /\ sendCount[t] \in Nat
          BY <1>3, <3>3 DEF Store, CountingOK, OffloadTypeOK, SplitOK
        <4>2. count[t] \in Reached(t) /\ stage[t] = "store"
          BY <3>1, <3>3 DEF AloneOK, Store
        <4>3. Seen(t)' = Seen(t) + 1 /\ Seen(t) \in Nat /\ Seen(t)' <= Local[Mine(t)]
          BY <1>0, <3>1, <4>1 DEF Seen, AloneOK
        <4>4. count[t] + 1 \in Reached(t)'
          BY <1>0, <3>1, <4>1, <4>2, <4>3 DEF Reached
        <4>5. sendStage[t] = "store" => sendCount[t] \in 0 .. Seen(t)'
          BY <3>1, <4>1, <4>3 DEF AloneOK
        <4> QED
          BY <1>0, <3>1, <4>1, <4>3, <4>4, <4>5 DEF AloneOK
      <3> QED
        BY <1>3, <3>2, <3>3
    <2> QED
      BY <1>2, <1>3, <2>1, <2>2 DEF Load, Store, vars, server, runtime, CountingOK, OffloadTypeOK
  <1>4. ASSUME NEW t \in Threads, aborted = "no", SetReply(t) PROVE AloneSound'
    <2> USE <1>4 DEF SetReply, vars, server, runtime, counts
    <2>0. /\ stage[t] = "load" /\ stage' = [stage EXCEPT ![t] = "reset"] /\ left[t] = 0
          /\ reply_' = [reply_ EXCEPT ![tag[t]] = intersectCount] /\ sendStage[t] \in {"none", "done"}
          /\ stage \in [Threads -> {"begin", "load", "store", "reset"}]
          /\ reply_ \in [Objects -> Nat] /\ pc[t] = "process" /\ sendStage'[t] = "none"
      BY DEF CountingOK, OffloadTypeOK, SplitOK
    <2>1. RepliesOK'
      <3>1. handled[call[tag[t]]] = 0
        BY <2>0, Processing DEF Mine
      <3>2. ASSUME NEW o \in Objects, call[o] \in alone, handled[call[o]] = 1
            PROVE  reply_'[o] \in Counted(call[o])
        <4>1. o # tag[t]
          BY <3>1, <3>2
        <4>2. reply_'[o] = reply_[o]
          BY <2>0, <4>1
        <4> QED
          BY <3>2, <4>2 DEF AloneSound, RepliesOK
      <3> QED
        BY <3>2 DEF RepliesOK, Counted
    <2>2. AloneIsCounted'
      BY DEF AloneSound, AloneIsCounted, Counted
    <2>3. ASSUME RunsAlone(t)' PROVE AloneOK(t)'
      <3>1. RunsAlone(t) /\ AloneOK(t) /\ Mine(t)' = Mine(t) /\ Mine(t) \in Calls /\ Busy' = Busy
        BY <2>0, <2>3, ProcessesACall DEF RunsAlone, Mine, AloneSound, Busy
      <3>2. reply_'[tag[t]] = intersectCount
        BY <2>0, Processing
      <3>3. intersectCount \in Reached(t) /\ (sendStage[t] = "none" <=> ~Offload)
        BY <2>0, <3>1 DEF AloneOK
      <3>4. Reached(t) \subseteq Counted(Mine(t))
        BY <1>0, <2>0, <3>1, <3>3 DEF Reached, Seen, Counted
      <3>5. Counted(Mine(t))' = Counted(Mine(t)) /\ tag' = tag /\ left' = left
        BY <3>1 DEF Counted
      <3> QED
        BY <2>0, <3>1, <3>2, <3>3, <3>4, <3>5 DEF AloneOK
    <2> QED
      BY <1>2, <2>0, <2>1, <2>2, <2>3
  <1>5. ASSUME NEW t \in Threads, aborted = "no", Reset(t) PROVE AloneSound'
    <2>0. /\ stage[t] = "reset" /\ stage' = [stage EXCEPT ![t] = "begin"] /\ pc[t] = "process"
          /\ handled' = [handled EXCEPT ![Mine(t)] = @ + 1]
          /\ stage \in [Threads -> {"begin", "load", "store", "reset"}]
          /\ UNCHANGED <<reply_, answer, answered, call, tag, alone>>
      BY <1>5 DEF Reset, Process, Mine, CountingOK, OffloadTypeOK, SplitOK, runtime
    <2>1. ASSUME NEW o \in Objects, call[o] \in alone, handled'[call[o]] = 1
          PROVE  reply_[o] \in Counted(call[o])
      <3>1. CASE call[o] = Mine(t)
        <4>1. o = tag[t]
          BY <1>5, <2>0, <3>1, Processing, NoneAssumption DEF Sound, CallsOK, Mine
        <4> QED
          BY <1>5, <2>0, <2>1, <3>1, <4>1 DEF AloneSound, RunsAlone, AloneOK
      <3>2. CASE call[o] # Mine(t)
        <4>1. handled'[call[o]] = handled[call[o]]
          BY <2>0, <2>1, <3>2 DEF CountingOK, OffloadTypeOK, Sound, TypeOK
        <4> QED
          BY <1>5, <2>1, <4>1 DEF AloneSound, RepliesOK
      <3> QED
        BY <3>1, <3>2
    <2>2. RepliesOK' /\ AloneIsCounted'
      BY <2>0, <2>1 DEF RepliesOK, AloneSound, AloneIsCounted, Counted
    <2>3. ~RunsAlone(t)'
      BY <2>0 DEF RunsAlone
    <2> QED
      BY <1>2, <1>5, <2>0, <2>2, <2>3
  <1>6. ASSUME NEW t \in Threads, aborted = "no", SendLoad(t) \/ SendStore(t) PROVE AloneSound'
    <2>0. /\ stage[t] \in {"load", "store"} /\ stage' = stage /\ left' = left /\ pc[t] = "process"
          /\ UNCHANGED <<reply_, answer, answered, handled, call, tag, alone, count>>
          /\ sendStage \in [Threads -> {"none", "sent", "store", "done"}]
          /\ sendCount \in [Threads -> Nat] /\ intersectCount \in Nat /\ left[t] \in Nat
          /\ stage[t] # "reset"
      BY <1>6 DEF SendLoad, SendStore, CountingOK, OffloadTypeOK, SplitOK, vars, server, runtime, counts
    <2>1. RepliesOK' /\ AloneIsCounted'
      BY <1>6, <2>0 DEF AloneSound, RepliesOK, AloneIsCounted, Counted
    <2>2. ASSUME RunsAlone(t)' PROVE AloneOK(t)'
      <3>1. RunsAlone(t) /\ AloneOK(t) /\ Mine(t)' = Mine(t) /\ Mine(t) \in Calls /\ Busy' = Busy
        BY <1>6, <2>0, <2>2, ProcessesACall DEF RunsAlone, Mine, AloneSound, Busy
      <3>2. Seen(t)' = Seen(t) /\ Seen(t) \in Nat
        BY <1>0, <2>0, <3>1 DEF Seen, AloneOK
      <3>3. CASE SendLoad(t)
        <4>1. /\ sendStage[t] = "sent" /\ sendStage'[t] = "store" /\ sendCount'[t] = intersectCount
              /\ intersectCount' = intersectCount
          BY <2>0, <3>3 DEF SendLoad
        <4>2. intersectCount = Seen(t) /\ (stage[t] = "store" => count[t] = Seen(t))
          BY <2>0, <3>1, <4>1 DEF AloneOK, Reached
        <4> QED
          BY <1>0, <2>0, <3>1, <3>2, <4>1, <4>2 DEF AloneOK, Reached
      <3>4. CASE SendStore(t)
        <4>1. /\ sendStage[t] = "store" /\ sendStage'[t] = "done"
              /\ intersectCount' = sendCount[t] + Remote[Mine(t)]
          BY <2>0, <3>4 DEF SendStore
        <4>2. sendCount[t] \in 0 .. Seen(t) /\ (stage[t] = "store" => count[t] = Seen(t))
          BY <2>0, <3>1, <4>1 DEF AloneOK, Reached
        <4> QED
          BY <1>0, <2>0, <3>1, <3>2, <4>1, <4>2 DEF AloneOK, Reached
      <3> QED
        BY <1>6, <3>3, <3>4
    <2> QED
      BY <1>2, <1>6, <2>0, <2>1, <2>2
  <1>7. ASSUME aborted = "no", UNCHANGED <<intersectCount, handling, sending, history, reply_>>,
               \A u \in Busy : tag'[u] = tag[u] /\ call'[tag[u]] = call[tag[u]],
               aborted' = "no" => RepliesOK', AloneIsCounted'
        PROVE  AloneSound'
    <2>1. ASSUME NEW u \in Threads, RunsAlone(u)' PROVE AloneOK(u)'
      <3>1. RunsAlone(u) /\ AloneOK(u) /\ Mine(u)' = Mine(u) /\ Busy' = Busy /\ tag'[u] = tag[u]
        BY <1>7, <2>1 DEF AloneSound, RunsAlone, Mine, Busy
      <3> QED
        BY <1>7, <3>1 DEF AloneOK, Reached, Seen, Counted
    <2> QED
      BY <1>7, <2>1 DEF AloneSound
  <1>8. ASSUME NEW t \in Threads, aborted = "no", Serve(t) PROVE AloneSound'
    <2>0. /\ pc[t] # "process" /\ UNCHANGED <<offloadVars, handled, answered>>
          /\ \A u \in Threads : u # t => tag'[u] = tag[u]
          /\ \A o \in Objects : o # tag[t] => call'[o] = call[o]
          /\ \A o \in Objects : call'[o] \in {call[o], None}
      BY <1>8 DEF Serve, New, SetProcess, RequestSayHello, NextEvent, Proceed, SetFinish, Finish,
                  Delete, Sound, TypeOK, runtime, counts
    <2>1. ASSUME NEW u \in Busy PROVE tag'[u] = tag[u] /\ call'[tag[u]] = call[tag[u]]
      <3>1. u \in Threads /\ pc[u] = "process" /\ u # t
        BY <1>8, <2>0 DEF Busy, CountingOK, SplitOK
      <3>2. tag[u] \in Objects /\ tag[t] # tag[u]
        BY <1>8, <3>1, Processing
      <3> QED
        BY <2>0, <3>1, <3>2
    <2>2. RepliesOK' /\ AloneIsCounted'
      <3>1. None \notin alone
        BY NoneAssumption DEF CountingOK, OffloadTypeOK
      <3> QED
        BY <1>8, <2>0, <3>1 DEF AloneSound, RepliesOK, AloneIsCounted, Counted, offloadVars
    <2> QED
      BY <1>7, <1>8, <2>0, <2>1, <2>2 DEF offloadVars
  <1>9. ASSUME NEW t \in Threads, aborted = "no", SendFails(t) PROVE AloneSound'
    BY <1>9 DEF SendFails, Throw, counts, offloadVars, AloneSound, AloneIsCounted, Counted
  <1>10. ASSUME NEW c \in Calls, aborted = "no", CallServer(c) \/ GoAway(c) PROVE AloneSound'
    <2>1. UNCHANGED <<offloadVars, tag, call, handled, answered>>
      BY <1>10 DEF CallServer, GoAway, Send, Leave, server, runtime, counts
    <2>2. RepliesOK' /\ AloneIsCounted'
      BY <1>10, <2>1 DEF AloneSound, RepliesOK, AloneIsCounted, Counted, offloadVars
    <2> QED
      BY <1>7, <1>10, <2>1, <2>2 DEF offloadVars
  <1>11. ASSUME NEW c \in Calls, aborted = "no", Accept(c) PROVE AloneSound'
    <2>1. PICK o \in armed : call' = [call EXCEPT ![o] = c]
      BY <1>11 DEF Accept, Match
    <2>2. c \notin matched /\ UNCHANGED <<offloadVars, tag, handled, answered>>
      BY <1>11 DEF Accept, Match, server, counts
    <2>3. o \in Objects /\ handled[c] = 0
      BY <1>11, <2>2 DEF Sound, TypeOK, CallsOK
    <2>4. ASSUME NEW u \in Busy PROVE call'[tag[u]] = call[tag[u]]
      BY <1>11, <2>1, Processing DEF Busy, CountingOK, SplitOK, Sound, TypeOK
    <2>5. \A p \in Objects : call'[p] = call[p] \/ call'[p] = c
      BY <2>1 DEF Sound, TypeOK
    <2>6. RepliesOK' /\ AloneIsCounted'
      BY <1>11, <2>2, <2>3, <2>5 DEF AloneSound, RepliesOK, AloneIsCounted, Counted, offloadVars
    <2> QED
      BY <1>7, <1>11, <2>2, <2>4, <2>6 DEF offloadVars
  <1>12. ASSUME NEW o \in Objects, aborted = "no", CarryReply(o) PROVE AloneSound'
    <2>0. /\ UNCHANGED <<tag, call, handled, alone, reply_, intersectCount, handling, sending, history>>
          /\ answer' = [answer EXCEPT ![call[o]] = reply_[o]]
          /\ \A c \in Calls : c # call[o] => answered'[c] = answered[c]
          /\ call[o] \in Calls /\ handled[call[o]] = 1
      BY <1>12 DEF CarryReply, Carry, server, Sound, TypeOK, ObjectsOK, Done
    <2>1. RepliesOK'
      BY <1>12, <2>0 DEF AloneSound, RepliesOK, Counted
    <2>2. ASSUME NEW c \in alone, answered'[c] = 1 PROVE answer'[c] \in Counted(c)
      <3>1. answer \in [Calls -> Nat] /\ c \in Calls
        BY DEF CountingOK, OffloadTypeOK
      <3>2. CASE c = call[o]
        BY <1>12, <2>0, <3>1, <3>2 DEF AloneSound, RepliesOK
      <3>3. CASE c # call[o]
        BY <2>0, <2>2, <3>1, <3>3 DEF AloneSound, AloneIsCounted
      <3> QED
        BY <3>2, <3>3
    <2>3. AloneIsCounted'
      BY <2>0, <2>2 DEF AloneIsCounted, Counted
    <2> QED
      BY <1>7, <1>12, <2>0, <2>1, <2>3
  <1>13. CASE UNCHANGED offloadAll
    <2>1. UNCHANGED <<offloadVars, tag, call, handled, answered, aborted>>
      BY <1>13 DEF offloadAll, vars, server, runtime, counts
    <2>2. AloneIsCounted' /\ (RepliesOK => RepliesOK')
      BY <2>1 DEF AloneSound, RepliesOK, AloneIsCounted, Counted, offloadVars
    <2>3. CASE aborted = "no"
      BY <1>7, <2>1, <2>2, <2>3 DEF AloneSound, offloadVars
    <2>4. CASE aborted # "no"
      BY <2>1, <2>2, <2>4 DEF AloneSound
    <2> QED
      BY <2>3, <2>4
  <1> QED
    BY <1>1, <1>3, <1>4, <1>5, <1>6, <1>8, <1>9, <1>10, <1>11, <1>12, <1>13
       DEF OffloadNext, HandlerStep, SendStep, Rest, offloadAll

(***************************************************************************)
(* A request that is never processed together with another is answered     *)
(* with its own intersections, up to what its two threads lose to each     *)
(* other.                                                                  *)
(***************************************************************************)
THEOREM AloneIsCountedAlways == OffloadSafeSpec => []AloneIsCounted
  <1>1. AloneSound => AloneIsCounted
    BY DEF AloneSound
  <1> QED
    BY <1>1, ImplementsServer, SoundAlways, CountingAlways, QuietIsZeroAlways, InitAlone, NextAlone,
       PTL DEF OffloadSafeSpec

-----------------------------------------------------------------------------
(***************************************************************************)
(* The arrays of polygons that the programs of exp2 exchange, for every    *)
(* file, every size of a request and of the part that is sent on, every    *)
(* limit to the integers that are exact as floats, and whatever is read    *)
(* past the end of an array.                                               *)
(*                                                                         *)
(* Laid says what the array of some polygons is, with the index at which   *)
(* each of them ends; building it appends to it, and the first part of it  *)
(* is one too.  The DPU's walk over its headers and the two decoders are   *)
(* recursive functions: that there is one, and what it returns, is argued  *)
(* by induction on the numbers, which itself follows from the              *)
(* well-foundedness of the subsets of a finite set.                        *)
(***************************************************************************)
\* A set of subsets of a finite set has one that contains no other.
LEMMA Minimal ==
  ASSUME NEW S, IsFiniteSet(S), NEW F, F \subseteq SUBSET S, F # {}
  PROVE  \E A \in F : \A B \in F : B \subseteq A => B = A
<1>1. IsWellFoundedOn(StrictSubsetOrdering(S), SUBSET S)
  BY FS_StrictSubsetOrderingWellFounded, FS_FiniteSubsetsOfFinite
<1>2. \E A \in F : \A B \in F : ~(<<B, A>> \in StrictSubsetOrdering(S))
  BY <1>1, WFMin
<1> QED
  BY <1>2 DEF StrictSubsetOrdering

\* A set of numbers has a least one.
LEMMA LeastNumber ==
  ASSUME NEW T, T \subseteq Nat, T # {}
  PROVE  \E m \in T : \A k \in T : m <= k
<1>1. PICK top \in T : TRUE
  OBVIOUS
<1> DEFINE S == 1 .. top
           F == {1 .. k : k \in {j \in T : j <= top}}
<1>2. IsFiniteSet(S)
  BY FS_Interval
<1>3. F \subseteq SUBSET S /\ F # {}
  OBVIOUS
<1>4. PICK A \in F : \A B \in F : B \subseteq A => B = A
  <2> HIDE DEF F, S
  <2> QED
    BY <1>2, <1>3, Minimal
<1>5. PICK m \in T : m <= top /\ A = 1 .. m
  OBVIOUS
<1>6. ASSUME NEW k \in T, k < m PROVE FALSE
  <2>1. 1 .. k \in F /\ 1 .. k \subseteq 1 .. m
    BY <1>5, <1>6
  <2>2. 1 .. k = 1 .. m
    BY <1>4, <1>5, <2>1
  <2>3. m \in 1 .. m /\ m \notin 1 .. k
    BY <1>6
  <2> QED
    BY <2>2, <2>3
<1>7. m \in Nat /\ \A k \in T : k \in Nat /\ ~(k < m)
  BY <1>6
<1>8. \A k \in T : m <= k
  BY <1>7
<1> QED
  BY <1>8

\* So what holds of zero, and of the successor of a number it holds of, holds
\* of all numbers.
LEMMA Induction ==
  ASSUME NEW T, 0 \in T, \A n \in Nat : n \in T => n + 1 \in T
  PROVE  \A n \in Nat : n \in T
<1> SUFFICES ASSUME Nat \ T # {} PROVE FALSE
  OBVIOUS
<1>1. PICK m \in Nat \ T : \A k \in Nat \ T : m <= k
  BY LeastNumber
<1>2. m # 0 /\ m - 1 \in Nat /\ (m - 1) + 1 = m
  BY <1>1
<1>3. m - 1 \in T
  BY <1>1, <1>2
<1> QED
  BY <1>1, <1>2, <1>3

\* Quotient and remainder, and that they are unique.
LEMMA DivMod ==
  ASSUME NEW u \in Nat, NEW e \in Nat \ {0}
  PROVE  u = e * (u \div e) + (u % e) /\ u % e \in 0 .. e - 1 /\ u \div e \in Nat
BY SMTT(30)

\* Quotients are unique.
LEMMA Unique ==
  ASSUME NEW e \in Nat \ {0}, NEW q1 \in Int, NEW q2 \in Int, NEW r1 \in 0 .. e - 1, NEW r2 \in 0 .. e - 1,
         e * q1 + r1 = e * q2 + r2
  PROVE  q1 = q2
<1>1. e * (q1 - q2) = r2 - r1
  OBVIOUS
<1>2. q1 - q2 >= 1 => e * (q1 - q2) >= e
  OBVIOUS
<1>3. q1 - q2 <= -1 => e * (q1 - q2) <= -e
  OBVIOUS
<1> QED
  BY <1>1, <1>2, <1>3

LEMMA Remainder ==
  ASSUME NEW e \in Nat \ {0}, NEW q \in Int, NEW r \in 0 .. e - 1, NEW u \in Nat, u = e * q + r
  PROVE  u \div e = q /\ u % e = r
<1>1. u = e * (u \div e) + (u % e) /\ u % e \in 0 .. e - 1 /\ u \div e \in Nat
  BY DivMod
<1>2. u \div e = q
  BY <1>1, Unique
<1> QED
  BY <1>1, <1>2

\* The remainder after a full bunch, and before.
LEMMA FullBunch ==
  ASSUME NEW b \in Nat \ {0}, NEW n \in Nat, NEW j \in 1 .. b
  PROVE  (b * n + j) % b = 0 <=> j = b
<1>1. CASE j = b
  <2>1. b * n + j = b * (n + 1) + 0 /\ 0 \in 0 .. b - 1 /\ b * n + j \in Nat
    BY <1>1
  <2> QED
    BY <1>1, <2>1, Remainder
<1>2. CASE j # b
  <2>1. j \in 0 .. b - 1 /\ b * n + j \in Nat
    BY <1>2
  <2>2. (b * n + j) % b = j
    BY <2>1, Remainder
  <2> QED
    BY <1>2, <2>2
<1> QED
  BY <1>1, <1>2

\* Recursive decoders -------------------------------------------------------

\* A decoder: at each index before stop it finds a piece of the result and the
\* index of the next.
DecodeStep(g, i, stop, piece, next) ==
  IF i >= stop THEN <<>> ELSE piece[i] \o (IF next[i] < stop THEN g[next[i]] ELSE <<>>)
IsDecoder(g, lo, hi, stop, piece, next) ==
  g = [i \in lo .. hi |-> DecodeStep(g, i, stop, piece, next)]

\* There is one when the next index is always a later one: it is built from the
\* last index downwards.
LEMMA DecoderExists ==
  ASSUME NEW lo \in Int, NEW hi \in Int, NEW stop \in Int, stop <= hi + 1, NEW piece, NEW next,
         \A i \in lo .. hi : i < stop => next[i] \in Int /\ next[i] > i
  PROVE  \E g : IsDecoder(g, lo, hi, stop, piece, next)
<1> DEFINE OK(g, d) == /\ g = [i \in lo .. hi |-> g[i]]
                       /\ \A i \in lo .. hi : i + d > hi => g[i] = DecodeStep(g, i, stop, piece, next)
           T == {d \in Nat : \E g : OK(g, d)}
<1>1. 0 \in T
  <2>1. PICK g : g = [i \in lo .. hi |-> <<>>]
    OBVIOUS
  <2>2. OK(g, 0)
    BY <2>1
  <2> QED
    BY <2>2
<1>2. ASSUME NEW d \in Nat, d \in T PROVE d + 1 \in T
  <2>1. PICK g : OK(g, d)
    BY <1>2
  <2>2. CASE hi - d < lo
    <3>1. OK(g, d + 1)
      BY <2>1, <2>2
    <3> QED
      BY <3>1
  <2>3. CASE hi - d >= lo
    <3>1. PICK m \in lo .. hi : m = hi - d
      BY <2>3
    <3>2. PICK v : v = DecodeStep(g, m, stop, piece, next)
      OBVIOUS
    <3>3. PICK f : f = [i \in lo .. hi |-> IF i = m THEN v ELSE g[i]]
      OBVIOUS
    <3>4. f = [i \in lo .. hi |-> f[i]]
      BY <3>3
    <3>5. ASSUME NEW i \in lo .. hi, i + (d + 1) > hi PROVE f[i] = DecodeStep(f, i, stop, piece, next)
      <4>1. i >= m /\ (i # m => i + d > hi)
        BY <3>1, <3>5
      <4>2. i < stop /\ next[i] < stop => next[i] \in lo .. hi /\ next[i] # m
        BY <3>1, <4>1
      <4>3. i < stop /\ next[i] < stop => f[next[i]] = g[next[i]]
        BY <3>3, <4>2
      <4>4. DecodeStep(f, i, stop, piece, next) = DecodeStep(g, i, stop, piece, next)
        <5>1. CASE i >= stop
          BY <5>1 DEF DecodeStep
        <5>2. CASE i < stop
          BY <4>3, <5>2 DEF DecodeStep
        <5> QED
          BY <5>1, <5>2
      <4>5. f[i] = IF i = m THEN v ELSE g[i]
        BY <3>3
      <4>6. i # m => g[i] = DecodeStep(g, i, stop, piece, next)
        BY <2>1, <4>1
      <4> QED
        BY <3>2, <4>4, <4>5, <4>6
    <3>6. OK(f, d + 1)
      BY <3>4, <3>5
    <3> QED
      BY <3>6
  <2> QED
    BY <2>2, <2>3
<1>3. \A d \in Nat : d \in T
  <2> HIDE DEF T
  <2> QED
    BY <1>1, <1>2, Induction
<1>4. CASE hi < lo
  <2>1. PICK g : g = [i \in lo .. hi |-> <<>>]
    OBVIOUS
  <2>2. IsDecoder(g, lo, hi, stop, piece, next)
    BY <1>4, <2>1 DEF IsDecoder
  <2> QED
    BY <2>2
<1>5. CASE hi >= lo
  <2>1. PICK d \in Nat : d = hi - lo + 1
    BY <1>5
  <2>2. PICK g : OK(g, d)
    <3>1. d \in T
      BY <1>3
    <3> QED
      BY <3>1
  <2>3. \A i \in lo .. hi : g[i] = DecodeStep(g, i, stop, piece, next)
    BY <2>1, <2>2
  <2>4. IsDecoder(g, lo, hi, stop, piece, next)
    BY <2>2, <2>3, Zenon DEF IsDecoder
  <2> QED
    BY <2>4
<1> QED
  BY <1>4, <1>5

\* An element before a sequence.
LEMMA Before ==
  ASSUME NEW S, NEW x \in S, NEW s \in Seq(S)
  PROVE  <<x>> \o s = [j \in 1 .. Len(s) + 1 |-> IF j = 1 THEN x ELSE s[j - 1]]
<1>1. <<x>> \in Seq(S) /\ Len(<<x>>) = 1 /\ <<x>>[1] = x /\ Len(s) \in Nat
  OBVIOUS
<1>2. /\ <<x>> \o s \in Seq(S) /\ Len(<<x>> \o s) = 1 + Len(s)
      /\ \A i \in 1 .. 1 + Len(s) : (<<x>> \o s)[i] = IF i <= 1 THEN <<x>>[i] ELSE s[i - 1]
  BY <1>1, ConcatProperties
<1> DEFINE t == <<x>> \o s
<1>3. t = [i \in 1 .. Len(t) |-> t[i]]
  BY <1>2
<1> HIDE DEF t
<1>4. \A i \in 1 .. Len(t) : t[i] = IF i = 1 THEN x ELSE s[i - 1]
  BY <1>1, <1>2 DEF t
<1>5. Len(t) = Len(s) + 1
  BY <1>1, <1>2 DEF t
<1>6. t = [j \in 1 .. Len(s) + 1 |-> IF j = 1 THEN x ELSE s[j - 1]]
  BY <1>3, <1>4, <1>5
<1> QED
  BY <1>6 DEF t

\* The path of a decoder goes through n indices p and finds x.
IsPath(lo, hi, stop, piece, next, n, p, x) ==
  \A k \in 0 .. n : /\ p[k] \in lo .. hi /\ (p[k] < stop <=> k < n)
                    /\ k < n => next[p[k]] = p[k + 1] /\ piece[p[k]] = <<x[k + 1]>>

\* What a decoder with such a path returns.
LEMMA DecoderValue ==
  ASSUME NEW lo \in Int, NEW hi \in Int, NEW stop \in Int, NEW piece, NEW next, NEW g,
         IsDecoder(g, lo, hi, stop, piece, next), NEW n \in Nat, NEW p, NEW x,
         IsPath(lo, hi, stop, piece, next, n, p, x),
         NEW m \in 0 .. n
  PROVE  g[p[m]] = [j \in 1 .. n - m |-> x[m + j]]
<1> DEFINE T == {d \in Nat : d <= n => g[p[n - d]] = [j \in 1 .. d |-> x[n - d + j]]}
<1>1. ASSUME NEW i \in lo .. hi
      PROVE  g[i] = IF i >= stop THEN <<>>
                    ELSE piece[i] \o (IF next[i] < stop THEN g[next[i]] ELSE <<>>)
  BY Zenon DEF IsDecoder, DecodeStep
<1>2. 0 \in T
  <2>1. n - 0 = n /\ n \in 0 .. n
    OBVIOUS
  <2>2. p[n] \in lo .. hi /\ ~(p[n] < stop)
    BY <2>1 DEF IsPath
  <2>3. p[n] \in lo .. hi /\ p[n] >= stop
    BY <2>2
  <2>4. g[p[n]] = <<>>
    BY <1>1, <2>3
  <2>5. [j \in 1 .. 0 |-> x[n - 0 + j]] = <<>>
    OBVIOUS
  <2> QED
    BY <2>1, <2>4, <2>5
<1>3. ASSUME NEW d \in Nat, d \in T PROVE d + 1 \in T
  <2> SUFFICES ASSUME d + 1 <= n
               PROVE  g[p[n - (d + 1)]] = [j \in 1 .. d + 1 |-> x[n - (d + 1) + j]]
    OBVIOUS
  <2>1. PICK k \in 0 .. n : k = n - (d + 1) /\ k < n /\ k + 1 \in 0 .. n /\ k + 1 = n - d /\ k \in Nat
    OBVIOUS
  <2>2. g[p[k + 1]] = [j \in 1 .. d |-> x[(k + 1) + j]]
    BY <1>3, <2>1
  <2>3. next[p[k]] = p[k + 1] /\ piece[p[k]] = <<x[k + 1]>> /\ p[k] \in lo .. hi /\ p[k] < stop
    BY <2>1 DEF IsPath
  <2>4. p[k + 1] < stop <=> d # 0
    BY <2>1 DEF IsPath
  <2>5. PICK s : s = [j \in 1 .. d |-> x[(k + 1) + j]]
    OBVIOUS
  <2>6. d = 0 => s = <<>>
    BY <2>5
  <2>7. g[p[k]] = <<x[k + 1]>> \o s
    <3>1. ~(p[k] >= stop)
      BY <2>3
    <3>2. g[p[k]] = <<x[k + 1]>> \o (IF p[k + 1] < stop THEN g[p[k + 1]] ELSE <<>>)
      BY <1>1, <2>3, <3>1
    <3>3. (IF p[k + 1] < stop THEN g[p[k + 1]] ELSE <<>>) = s
      BY <2>2, <2>4, <2>5, <2>6
    <3> QED
      BY <3>2, <3>3
  <2> DEFINE S == {x[j] : j \in Int}
  <2>8. s \in Seq(S) /\ Len(s) = d /\ x[k + 1] \in S
    BY <2>1, <2>5
  <2>9. <<x[k + 1]>> \o s = [j \in 1 .. d + 1 |-> IF j = 1 THEN x[k + 1] ELSE s[j - 1]]
    <3> HIDE DEF S
    <3> QED
      BY <2>8, Before
  <2>10. ASSUME NEW j \in 1 .. d + 1 PROVE (IF j = 1 THEN x[k + 1] ELSE s[j - 1]) = x[k + j]
    <3>1. CASE j = 1
      BY <3>1
    <3>2. CASE j # 1
      <4>1. PICK i \in 1 .. d : i = j - 1 /\ (k + 1) + i = k + j
        BY <2>1, <3>2
      <4>2. s[i] = x[(k + 1) + i]
        BY <2>5
      <4> QED
        BY <3>2, <4>1, <4>2
    <3> QED
      BY <3>1, <3>2
  <2> QED
    BY <2>1, <2>7, <2>9, <2>10
<1>4. \A d \in Nat : d \in T
  <2> HIDE DEF T
  <2> QED
    BY <1>2, <1>3, Induction
<1>5. PICK d \in Nat : d = n - m /\ d <= n /\ n - d = m
  OBVIOUS
<1>6. g[p[n - d]] = [j \in 1 .. d |-> x[n - d + j]]
  BY <1>4, <1>5
<1> QED
  BY <1>5, <1>6

\* Laid out -----------------------------------------------------------------

\* An array of n polygons, the first one after the given one of the file f, whose
\* headers are exact or not: e[k] is the index of the last coordinate of the k-th.
Laid(f, a, n, first, e) ==
  /\ a \in Seq(Int) /\ n \in Nat /\ first \in Nat /\ f \in Seq(1 .. MaxPoints)
  /\ first + n <= Len(f)
  /\ e \in [0 .. n -> Int] /\ e[0] = -1 /\ Len(a) = e[n] + 1
  /\ \A k \in 1 .. n :
       /\ e[k] = e[k - 1] + 1 + 2 * f[first + k]
       /\ a[e[k - 1] + 2] = AsFloat(e[k])
       /\ \A j \in 1 .. 2 * f[first + k] : a[e[k - 1] + 2 + j] = Coordinate(first + k, j)

\* The coordinates of polygon p of the file f.
PolygonOf(f, p) == [k \in 1 .. 2 * f[p] |-> Coordinate(p, k)]

LEMMA AsFloatTypes == SizesAssumption /\ FloatAssumption => \A n \in Int : AsFloat(n) \in Int
  BY DEF AsFloat, FloatAssumption

LEMMA CoordinateTypes == SizesAssumption => \A p \in Int, k \in Int : Coordinate(p, k) \in Int
  BY DEF Coordinate, SizesAssumption

\* Its types, and the numbers of its k-th polygon.
LEMMA LaidTypes ==
  ASSUME NEW f, NEW a, NEW n, NEW first, NEW e, Laid(f, a, n, first, e)
  PROVE  /\ a \in Seq(Int) /\ n \in Nat /\ first \in Nat /\ f \in Seq(1 .. MaxPoints) /\ Len(a) \in Nat
         /\ Len(f) \in Nat /\ first + n <= Len(f)
         /\ e \in [0 .. n -> Int] /\ e[0] = -1 /\ Len(a) = e[n] + 1 /\ e[n] \in Int
<1>1. /\ a \in Seq(Int) /\ n \in Nat /\ first \in Nat /\ f \in Seq(1 .. MaxPoints)
      /\ first + n <= Len(f) /\ e \in [0 .. n -> Int] /\ e[0] = -1 /\ Len(a) = e[n] + 1
  BY DEF Laid
<1>2. Len(a) \in Nat /\ Len(f) \in Nat
  BY <1>1, LenProperties
<1>3. n \in 0 .. n
  BY <1>1
<1>4. e[n] \in Int
  BY <1>1, <1>3
<1> QED
  BY <1>1, <1>2, <1>4

LEMMA LaidStep ==
  ASSUME SizesAssumption, NEW f, NEW a, NEW n, NEW first, NEW e, Laid(f, a, n, first, e), NEW k \in 1 .. n
  PROVE  \E u \in Int : \E v \in Int : \E w \in Nat :
           /\ e[k - 1] = u /\ e[k] = v /\ f[first + k] = w /\ w >= 1 /\ v = u + 1 + 2 * w
           /\ a[u + 2] = AsFloat(v)
           /\ \A j \in 1 .. 2 * w : a[u + 2 + j] = Coordinate(first + k, j)
<1>1. /\ n \in Nat /\ first \in Nat /\ f \in Seq(1 .. MaxPoints) /\ Len(f) \in Nat /\ first + n <= Len(f)
      /\ e \in [0 .. n -> Int]
  BY LaidTypes
<1>2. first + k \in 1 .. Len(f) /\ k \in 0 .. n /\ k - 1 \in 0 .. n
  BY <1>1
<1>3. f[first + k] \in 1 .. MaxPoints
  BY <1>1, <1>2, ElementOfSeq
<1>4. e[k] \in Int /\ e[k - 1] \in Int
  BY <1>1, <1>2
<1>5. PICK u \in Int : u = e[k - 1]
  BY <1>4
<1>6. PICK v \in Int : v = e[k]
  BY <1>4
<1>7. PICK w \in Nat : w = f[first + k] /\ w >= 1
  BY <1>3 DEF SizesAssumption
<1>8. /\ e[k] = e[k - 1] + 1 + 2 * f[first + k]
      /\ a[e[k - 1] + 2] = AsFloat(e[k])
      /\ \A j \in 1 .. 2 * f[first + k] : a[e[k - 1] + 2 + j] = Coordinate(first + k, j)
  BY DEF Laid
<1> QED
  BY <1>5, <1>6, <1>7, <1>8

\* The ends lie in order.
LEMMA EndsGrow ==
  ASSUME SizesAssumption, NEW f, NEW a, NEW n, NEW first, NEW e, Laid(f, a, n, first, e)
  PROVE  /\ \A k \in 0 .. n : e[k] \in Int /\ e[k] >= -1
         /\ \A m \in 0 .. n : \A k \in 0 .. m : e[k] <= e[m] /\ (k < m => e[k] + 3 <= e[m])
<1>1. n \in Nat /\ e \in [0 .. n -> Int] /\ e[0] = -1
  BY LaidTypes
<1>2. ASSUME NEW k \in 1 .. n
      PROVE  \E u \in Int : \E v \in Int : e[k - 1] = u /\ e[k] = v /\ u + 3 <= v
  <2>1. PICK u \in Int : \E v \in Int : \E w \in Nat : e[k - 1] = u /\ e[k] = v /\ w >= 1 /\ v = u + 1 + 2 * w
    BY LaidStep
  <2>2. PICK v \in Int : \E w \in Nat : e[k - 1] = u /\ e[k] = v /\ w >= 1 /\ v = u + 1 + 2 * w
    BY <2>1
  <2>3. u + 3 <= v
    BY <2>2
  <2> QED
    BY <2>2, <2>3
<1>3. \A k \in 0 .. n : e[k] \in Int
  BY <1>1
<1> DEFINE L == {k \in Nat : k \in 0 .. n => e[k] >= -1}
<1>4. \A k \in Nat : k \in L
  <2>1. 0 \in L
    BY <1>1
  <2>2. ASSUME NEW k \in Nat, k \in L PROVE k + 1 \in L
    <3>1. ASSUME k + 1 \in 0 .. n PROVE e[k + 1] >= -1
      <4>1. PICK i \in 1 .. n : i = k + 1 /\ i - 1 = k /\ k \in 0 .. n
        BY <1>1, <3>1
      <4>2. PICK u \in Int : \E v \in Int : e[i - 1] = u /\ e[i] = v /\ u + 3 <= v
        BY <1>2
      <4>3. PICK v \in Int : e[i - 1] = u /\ e[i] = v /\ u + 3 <= v
        BY <4>2
      <4>4. u >= -1
        BY <2>2, <4>1, <4>3
      <4>5. v >= -1
        BY <4>3, <4>4
      <4> QED
        BY <4>1, <4>3, <4>5
    <3> QED
      BY <3>1
  <2> HIDE DEF L
  <2> QED
    BY <2>1, <2>2, Induction
<1>5. ASSUME NEW m \in 0 .. n, NEW k \in 0 .. m PROVE e[k] <= e[m] /\ (k < m => e[k] + 3 <= e[m])
  <2> DEFINE U == {d \in Nat : k + d <= m => e[k] <= e[k + d] /\ (d > 0 => e[k] + 3 <= e[k + d])}
  <2>1. 0 \in U
    <3>1. k \in 0 .. n /\ k + 0 = k
      BY <1>1
    <3>2. e[k] \in Int
      BY <1>3, <3>1
    <3> QED
      BY <3>1, <3>2
  <2>2. ASSUME NEW d \in Nat, d \in U PROVE d + 1 \in U
    <3>1. ASSUME k + (d + 1) <= m PROVE e[k] <= e[k + (d + 1)] /\ e[k] + 3 <= e[k + (d + 1)]
      <4>1. PICK i \in 1 .. n : i = k + (d + 1) /\ i - 1 = k + d /\ k \in 0 .. n /\ k + d <= m
        BY <1>1, <3>1
      <4>2. PICK u \in Int : \E v \in Int : e[i - 1] = u /\ e[i] = v /\ u + 3 <= v
        BY <1>2
      <4>3. PICK v \in Int : e[i - 1] = u /\ e[i] = v /\ u + 3 <= v
        BY <4>2
      <4>4. PICK z \in Int : z = e[k]
        BY <1>3, <4>1
      <4>5. z <= u
        BY <2>2, <4>1, <4>3, <4>4
      <4>6. z <= v /\ z + 3 <= v
        BY <4>3, <4>5
      <4> QED
        BY <4>1, <4>3, <4>4, <4>6
    <3> QED
      BY <3>1
  <2>3. \A d \in Nat : d \in U
    <3> HIDE DEF U
    <3> QED
      BY <2>1, <2>2, Induction
  <2>4. PICK d \in Nat : d = m - k /\ k + d = m
    BY <1>1
  <2>5. d \in U
    BY <2>3
  <2>6. e[k] <= e[k + d] /\ (d > 0 => e[k] + 3 <= e[k + d])
    BY <2>4, <2>5
  <2>7. k < m => d > 0
    BY <2>4
  <2> QED
    BY <2>4, <2>6, <2>7
<1>6. ASSUME NEW k \in 0 .. n PROVE e[k] \in Int /\ e[k] >= -1
  <2>1. k \in Nat
    BY <1>1
  <2>2. k \in L
    BY <1>4, <2>1
  <2> QED
    BY <1>3, <2>2
<1> QED
  BY <1>5, <1>6

\* The k-th polygon has w points and lies after u, up to v, in the array.
Placed(f, a, n, first, e, k, u, v, w) ==
  /\ e[k - 1] = u /\ e[k] = v /\ f[first + k] = w /\ w >= 1 /\ v = u + 1 + 2 * w
  /\ u >= -1 /\ v + 1 <= Len(a) /\ (k < n => v + 4 <= Len(a)) /\ (k = n => v + 1 = Len(a))
  /\ a[u + 2] = AsFloat(v)
  /\ \A j \in 1 .. 2 * w : a[u + 2 + j] = Coordinate(first + k, j)

LEMMA LaidInside ==
  ASSUME SizesAssumption, NEW f, NEW a, NEW n, NEW first, NEW e, Laid(f, a, n, first, e), NEW k \in 1 .. n
  PROVE  \E u \in Int : \E v \in Int : \E w \in Nat : Placed(f, a, n, first, e, k, u, v, w)
<1>1. n \in Nat /\ Len(a) \in Nat /\ Len(a) = e[n] + 1 /\ e[n] \in Int
  BY LaidTypes
<1>2. k \in 0 .. n /\ k - 1 \in 0 .. n /\ n \in 0 .. n
  BY <1>1
<1>3. PICK u \in Int : \E v \in Int : \E w \in Nat :
           /\ e[k - 1] = u /\ e[k] = v /\ f[first + k] = w /\ w >= 1 /\ v = u + 1 + 2 * w
           /\ a[u + 2] = AsFloat(v)
           /\ \A j \in 1 .. 2 * w : a[u + 2 + j] = Coordinate(first + k, j)
  BY LaidStep
<1>4. PICK v \in Int : \E w \in Nat :
           /\ e[k - 1] = u /\ e[k] = v /\ f[first + k] = w /\ w >= 1 /\ v = u + 1 + 2 * w
           /\ a[u + 2] = AsFloat(v)
           /\ \A j \in 1 .. 2 * w : a[u + 2 + j] = Coordinate(first + k, j)
  BY <1>3
<1>5. \A m \in 0 .. n : e[m] >= -1
  BY EndsGrow
<1>6. \A i \in 0 .. n : e[i] <= e[n] /\ (i < n => e[i] + 3 <= e[n])
  BY <1>2, EndsGrow
<1>7. e[k - 1] >= -1 /\ e[k] <= e[n] /\ (k < n => e[k] + 3 <= e[n])
  BY <1>2, <1>5, <1>6
<1>8. PICK z \in Int : z = e[n] /\ Len(a) = z + 1
  BY <1>1
<1>9. u >= -1 /\ v <= z /\ (k < n => v + 3 <= z)
  BY <1>4, <1>7, <1>8
<1>10. k = n => v = z
  BY <1>4, <1>8
<1>11. u >= -1 /\ v + 1 <= Len(a) /\ (k < n => v + 4 <= Len(a)) /\ (k = n => v + 1 = Len(a))
  BY <1>8, <1>9, <1>10
<1>12. PICK w \in Nat :
           /\ e[k - 1] = u /\ e[k] = v /\ f[first + k] = w /\ w >= 1 /\ v = u + 1 + 2 * w
           /\ a[u + 2] = AsFloat(v)
           /\ \A j \in 1 .. 2 * w : a[u + 2 + j] = Coordinate(first + k, j)
  BY <1>4
<1>13. Placed(f, a, n, first, e, k, u, v, w)
  BY <1>11, <1>12 DEF Placed
<1> QED
  BY <1>13

\* In a request whose headers are exact each is the index of its last coordinate.
LEMMA ExactHeader ==
  ASSUME SizesAssumption, FloatAssumption, NEW f, NEW a, NEW n, NEW first, NEW e, Fits(a), Len(a) \in Nat,
         NEW k, NEW u \in Int, NEW v \in Int, NEW w \in Nat, Placed(f, a, n, first, e, k, u, v, w)
  PROVE  a[u + 2] = v
<1>1. v + 1 <= Len(a) /\ a[u + 2] = AsFloat(v)
  BY DEF Placed
<1>2. v <= Exact
  BY <1>1 DEF Fits, FloatAssumption
<1> QED
  BY <1>1, <1>2 DEF AsFloat

\* An array without polygons.
LEMMA LaidEmpty ==
  ASSUME NEW f \in Seq(1 .. MaxPoints), NEW first \in Nat, first <= Len(f)
  PROVE  \E e : Laid(f, <<>>, 0, first, e)
<1>1. PICK e : e = [k \in 0 .. 0 |-> -1]
  OBVIOUS
<1>2. Laid(f, <<>>, 0, first, e)
  BY <1>1 DEF Laid
<1> QED
  BY <1>2

\* One polygon more.
LEMMA LaidAppended ==
  ASSUME SizesAssumption, FloatAssumption, NEW f, NEW a, NEW n, NEW first, NEW e, Laid(f, a, n, first, e),
         first + n + 1 <= Len(f)
  PROVE  \E d : Laid(f, Append(a, AsFloat(Len(a) + Len(PolygonOf(f, first + n + 1)))) \o PolygonOf(f, first + n + 1),
                     n + 1, first, d)
<1>1. /\ a \in Seq(Int) /\ n \in Nat /\ first \in Nat /\ f \in Seq(1 .. MaxPoints) /\ Len(a) \in Nat
      /\ e \in [0 .. n -> Int] /\ e[0] = -1 /\ Len(a) = e[n] + 1 /\ e[n] \in Int /\ Len(f) \in Nat
  BY LaidTypes
<1>2. PICK q : q = first + n + 1 /\ q \in 1 .. Len(f) /\ q = first + (n + 1) /\ q \in Nat
  BY <1>1
<1>3. PICK w : w = f[q] /\ w \in Nat /\ w >= 1
  <2>1. f[q] \in 1 .. MaxPoints
    BY <1>1, <1>2, ElementOfSeq
  <2> QED
    BY <2>1 DEF SizesAssumption
<1>4. PICK poly : poly = PolygonOf(f, q)
  OBVIOUS
<1>5. poly \in Seq(Int) /\ Len(poly) = 2 * w /\ \A j \in 1 .. 2 * w : poly[j] = Coordinate(q, j)
  <2>1. \A j \in 1 .. 2 * w : Coordinate(q, j) \in Int
    BY <1>2, <1>3, CoordinateTypes
  <2>2. poly = [k \in 1 .. 2 * w |-> Coordinate(q, k)]
    BY <1>3, <1>4 DEF PolygonOf
  <2>3. PICK s \in Nat : s = 2 * w
    BY <1>3
  <2>4. poly \in [1 .. s -> Int] /\ \A j \in 1 .. s : poly[j] = Coordinate(q, j)
    BY <2>1, <2>2, <2>3
  <2>5. poly \in Seq(Int) /\ Len(poly) = s
    BY <2>3, <2>4
  <2> QED
    BY <2>3, <2>4, <2>5
<1>6. PICK h \in Int : h = AsFloat(Len(a) + Len(poly))
  <2>1. Len(a) + Len(poly) \in Int
    <3>1. Len(a) \in Nat /\ Len(poly) \in Nat
      BY <1>1, <1>5
    <3> QED
      BY <3>1
  <2> QED
    BY <2>1, AsFloatTypes
<1>7. PICK b : /\ b = Append(a, h) /\ b \in Seq(Int) /\ Len(b) = Len(a) + 1 /\ b[Len(a) + 1] = h
               /\ \A i \in 1 .. Len(a) : b[i] = a[i]
  <2>1. /\ Append(a, h) \in Seq(Int) /\ Len(Append(a, h)) = Len(a) + 1 /\ Append(a, h)[Len(a) + 1] = h
        /\ \A i \in 1 .. Len(a) : Append(a, h)[i] = a[i]
    <3>1. a \in Seq(Int) /\ h \in Int
      BY <1>1, <1>6
    <3> QED
      BY ONLY <3>1, AppendProperties
  <2> QED
    BY <2>1
<1>8. PICK c : c = b \o poly
  OBVIOUS
<1>9. /\ c \in Seq(Int) /\ Len(c) = Len(b) + Len(poly)
      /\ \A i \in 1 .. Len(b) + Len(poly) : c[i] = IF i <= Len(b) THEN b[i] ELSE poly[i - Len(b)]
  <2>1. poly \in Seq(Int) /\ b \in Seq(Int)
    BY <1>5, <1>7
  <2>2. /\ b \o poly \in Seq(Int) /\ Len(b \o poly) = Len(b) + Len(poly)
        /\ \A i \in 1 .. Len(b) + Len(poly) : (b \o poly)[i] = IF i <= Len(b) THEN b[i] ELSE poly[i - Len(b)]
    BY ONLY <2>1, ConcatProperties
  <2> QED
    BY <1>8, <2>2
<1>10. PICK y \in Int : y = e[n]
  BY <1>1
<1>19. PICK z \in Int : z = y + 1 + 2 * w
  BY <1>3
<1>20. /\ Len(a) \in Nat /\ Len(a) = y + 1 /\ Len(b) = y + 2 /\ Len(poly) = 2 * w
       /\ Len(c) = Len(b) + Len(poly) /\ Len(c) = z + 1
  <2>1. Len(a) \in Nat /\ Len(a) = y + 1
    BY <1>1, <1>10
  <2>2. Len(b) = Len(a) + 1 /\ Len(poly) = 2 * w /\ Len(c) = Len(b) + Len(poly)
    BY <1>5, <1>7, <1>9
  <2>3. Len(b) = y + 2
    BY <2>1, <2>2
  <2>4. Len(c) = (y + 2) + 2 * w
    BY <2>2, <2>3
  <2>5. z + 1 = (y + 2) + 2 * w
    <3>1. PICK s \in Nat : s = 2 * w
      BY <1>3
    <3>2. z = y + 1 + s
      BY <1>19, <3>1
    <3>3. z + 1 = (y + 2) + s
      BY <3>2
    <3> QED
      BY <3>1, <3>3
  <2> QED
    BY <2>1, <2>2, <2>3, <2>4, <2>5
<1>11. PICK d : d = [k \in 0 .. n + 1 |-> IF k <= n THEN e[k] ELSE z]
  OBVIOUS
<1>12. d \in [0 .. n + 1 -> Int] /\ d[0] = -1 /\ d[n + 1] = z /\ Len(c) = z + 1
       /\ \A k \in 0 .. n : d[k] = e[k]
  <2>1. \A k \in 0 .. n + 1 : (IF k <= n THEN e[k] ELSE z) \in Int
    BY <1>1
  <2>2. n + 1 \in 0 .. n + 1 /\ ~(n + 1 <= n) /\ \A k \in 0 .. n : k \in 0 .. n + 1 /\ k <= n
    BY <1>1
  <2>3. \A k \in 0 .. n : d[k] = e[k]
    BY <1>11, <2>2
  <2>4. 0 \in 0 .. n
    BY <1>1
  <2>5. d[0] = -1
    BY <1>1, <2>3, <2>4
  <2>6. d[n + 1] = z
    BY <1>11, <2>2
  <2>7. d \in [0 .. n + 1 -> Int]
    BY <1>11, <2>1
  <2> QED
    BY <1>20, <2>3, <2>5, <2>6, <2>7
<1>13. ASSUME NEW k \in 1 .. n + 1
       PROVE  /\ d[k] = d[k - 1] + 1 + 2 * f[first + k]
              /\ c[d[k - 1] + 2] = AsFloat(d[k])
              /\ \A j \in 1 .. 2 * f[first + k] : c[d[k - 1] + 2 + j] = Coordinate(first + k, j)
  <2>1. CASE k <= n
    <3>1. k \in 1 .. n /\ k \in 0 .. n /\ k - 1 \in 0 .. n
      BY <1>1, <2>1
    <3>2. PICK u \in Int, v \in Int, m \in Nat : Placed(f, a, n, first, e, k, u, v, m)
      BY <3>1, LaidInside
    <3>4. /\ e[k - 1] = u /\ e[k] = v /\ f[first + k] = m /\ m >= 1 /\ v = u + 1 + 2 * m
          /\ u >= -1 /\ v + 1 <= Len(a)
          /\ a[u + 2] = AsFloat(v)
          /\ \A j \in 1 .. 2 * m : a[u + 2 + j] = Coordinate(first + k, j)
      BY <3>2 DEF Placed
    <3>5. d[k] = v /\ d[k - 1] = u
      BY <1>12, <3>1, <3>4
    <3>6. ASSUME NEW i \in 1 .. Len(a) PROVE c[i] = a[i]
      <4>1. i \in 1 .. Len(b) + Len(poly) /\ i <= Len(b)
        BY <1>3, <1>20
      <4> QED
        BY <1>7, <1>9, <4>1
    <3>7. u + 2 \in 1 .. Len(a)
      BY <1>1, <3>4
    <3>8. ASSUME NEW j \in 1 .. 2 * m PROVE c[u + 2 + j] = Coordinate(first + k, j)
      <4>1. u + 2 + j \in 1 .. Len(a)
        BY <1>1, <3>4
      <4>2. c[u + 2 + j] = a[u + 2 + j]
        BY <3>6, <4>1
      <4> QED
        BY <3>4, <4>2
    <3>9. c[u + 2] = AsFloat(v)
      BY <3>4, <3>6, <3>7
    <3> QED
      BY <3>4, <3>5, <3>8, <3>9
  <2>2. CASE k = n + 1
    <3>1. first + k = q /\ d[k] = z /\ d[k - 1] = y /\ f[first + k] = w
      <4>1. n \in 0 .. n /\ k - 1 = n
        BY <1>1, <2>2
      <4> QED
        BY <1>1, <1>2, <1>3, <1>10, <1>12, <2>2, <4>1
    <3>2. c[y + 2] = h
      <4>1. y + 2 \in 1 .. Len(b) + Len(poly) /\ y + 2 <= Len(b) /\ y + 2 = Len(a) + 1
        BY <1>3, <1>20
      <4>2. c[y + 2] = b[y + 2]
        BY <1>9, <4>1
      <4> QED
        BY <1>7, <4>1, <4>2
    <3>3. h = AsFloat(z)
      <4>1. Len(a) + Len(poly) = z
        BY <1>3, <1>19, <1>20
      <4> QED
        BY <1>6, <4>1
    <3>4. ASSUME NEW j \in 1 .. 2 * w PROVE c[y + 2 + j] = Coordinate(q, j)
      <4>1. /\ y + 2 + j \in 1 .. Len(b) + Len(poly) /\ ~(y + 2 + j <= Len(b))
            /\ (y + 2 + j) - Len(b) = j
        BY <1>3, <1>20
      <4>2. c[y + 2 + j] = poly[j]
        BY <1>9, <4>1
      <4> QED
        BY <1>5, <4>2
    <3> QED
      BY <1>19, <3>1, <3>2, <3>3, <3>4
  <2> QED
    BY <1>1, <2>1, <2>2
<1>14. Laid(f, c, n + 1, first, d)
  <2>1. n + 1 \in Nat /\ first + (n + 1) <= Len(f) /\ Len(c) = d[n + 1] + 1
    BY <1>1, <1>2, <1>12
  <2> QED
    BY <1>1, <1>9, <1>12, <1>13, <2>1 DEF Laid
<1> QED
  BY <1>2, <1>4, <1>6, <1>7, <1>8, <1>14

\* The first d polygons of an array.
LEMMA LaidPrefix ==
  ASSUME SizesAssumption, NEW f, NEW a, NEW n, NEW first, NEW e, Laid(f, a, n, first, e), NEW d \in 0 .. n
  PROVE  Laid(f, SubSeq(a, 1, e[d] + 1), d, first, [k \in 0 .. d |-> e[k]])
<1>1. /\ a \in Seq(Int) /\ n \in Nat /\ first \in Nat /\ f \in Seq(1 .. MaxPoints) /\ Len(a) \in Nat
      /\ e \in [0 .. n -> Int] /\ e[0] = -1 /\ Len(a) = e[n] + 1 /\ e[n] \in Int
      /\ first + n <= Len(f) /\ Len(f) \in Nat
  BY LaidTypes
<1>2. PICK z \in Int : z = e[d] /\ z + 1 \in 0 .. Len(a) /\ d \in Nat
  <2>1. n \in 0 .. n /\ d \in Nat
    BY <1>1
  <2>2. e[d] \in Int /\ e[d] >= -1 /\ e[d] <= e[n]
    BY <2>1, EndsGrow
  <2> QED
    BY <1>1, <2>1, <2>2
<1>3. PICK b : b = SubSeq(a, 1, z + 1)
  OBVIOUS
<1>4. b \in Seq(Int) /\ Len(b) = z + 1 /\ \A i \in 1 .. z + 1 : b[i] = a[i]
  <2>1. \A i \in 1 .. z + 1 : i \in 1 .. Len(a)
    BY <1>1, <1>2
  <2>2. \A i \in 1 .. z + 1 : a[i] \in Int
    BY <1>1, <2>1, ElementOfSeq
  <2>3. b = [i \in 1 .. z + 1 |-> a[i]]
    BY <1>1, <1>2, <1>3
  <2>4. z + 1 \in Nat
    BY <1>2
  <2> QED
    BY <2>2, <2>3, <2>4
<1>5. PICK g : g = [k \in 0 .. d |-> e[k]]
  OBVIOUS
<1>6. g \in [0 .. d -> Int] /\ g[0] = -1 /\ Len(b) = g[d] + 1 /\ \A k \in 0 .. d : g[k] = e[k]
  <2>1. \A k \in 0 .. d : k \in 0 .. n
    BY <1>1, <1>2
  <2>2. 0 \in 0 .. d /\ d \in 0 .. d
    BY <1>2
  <2>3. \A k \in 0 .. d : g[k] = e[k] /\ e[k] \in Int
    BY <1>1, <1>5, <2>1
  <2> QED
    BY <1>1, <1>2, <1>4, <1>5, <2>2, <2>3
<1>7. ASSUME NEW k \in 1 .. d
      PROVE  /\ g[k] = g[k - 1] + 1 + 2 * f[first + k]
             /\ b[g[k - 1] + 2] = AsFloat(g[k])
             /\ \A j \in 1 .. 2 * f[first + k] : b[g[k - 1] + 2 + j] = Coordinate(first + k, j)
  <2>1. k \in 1 .. n /\ k \in 0 .. d /\ k - 1 \in 0 .. d
    BY <1>1, <1>2
  <2>2. PICK u \in Int, v \in Int, m \in Nat : Placed(f, a, n, first, e, k, u, v, m)
    BY <2>1, LaidInside
  <2>4. /\ e[k - 1] = u /\ e[k] = v /\ f[first + k] = m /\ m >= 1 /\ v = u + 1 + 2 * m
        /\ u >= -1
        /\ a[u + 2] = AsFloat(v)
        /\ \A j \in 1 .. 2 * m : a[u + 2 + j] = Coordinate(first + k, j)
    BY <2>2 DEF Placed
  <2>5. g[k] = v /\ g[k - 1] = u
    BY <1>6, <2>1, <2>4
  <2>6. v <= z
    <3>1. e[k] <= e[d]
      BY <2>1, EndsGrow
    <3> QED
      BY <1>2, <2>4, <3>1
  <2>7. u + 2 \in 1 .. z + 1
    BY <2>4, <2>6
  <2>8. ASSUME NEW j \in 1 .. 2 * m PROVE b[u + 2 + j] = Coordinate(first + k, j)
    <3>1. u + 2 + j \in 1 .. z + 1
      BY <2>4, <2>6
    <3>2. b[u + 2 + j] = a[u + 2 + j]
      BY <1>4, <3>1
    <3> QED
      BY <2>4, <3>2
  <2>9. b[u + 2] = AsFloat(v)
    BY <1>4, <2>4, <2>7
  <2> QED
    BY <2>4, <2>5, <2>8, <2>9
<1>8. Laid(f, b, d, first, g)
  <2>1. first + d <= Len(f)
    BY <1>1, <1>2
  <2> QED
    BY <1>1, <1>2, <1>4, <1>6, <1>7, <2>1 DEF Laid
<1> QED
  BY <1>2, <1>3, <1>5, <1>8

\* Walking and decoding -----------------------------------------------------

\* The walk that AfterHeaders makes.
WalkStep(w, a, c) == IF c = 0 THEN -1
                     ELSE IF w[c - 1] + 1 \in 0 .. Len(a) - 1 THEN a[w[c - 1] + 2] ELSE Len(a)
IsWalk(w, a, n) == w = [c \in 0 .. n |-> WalkStep(w, a, c)]

LEMMA WalkIs == \A a, n : AfterHeaders(a, n) = (CHOOSE w : IsWalk(w, a, n))[n]
  BY Zenon DEF AfterHeaders, IsWalk, WalkStep

\* There is one walk only.
LEMMA WalkUnique ==
  ASSUME NEW a, NEW n \in Nat, NEW w, NEW v, IsWalk(w, a, n), IsWalk(v, a, n)
  PROVE  AfterHeaders(a, n) = w[n]
<1>1. ASSUME NEW u, IsWalk(u, a, n), NEW c \in 0 .. n PROVE u[c] = WalkStep(u, a, c)
  BY <1>1, Zenon DEF IsWalk
<1> DEFINE h == CHOOSE x : IsWalk(x, a, n)
<1>2. IsWalk(h, a, n)
  OBVIOUS
<1>3. AfterHeaders(a, n) = h[n]
  BY WalkIs
<1> HIDE DEF h
<1> DEFINE T == {c \in Nat : c \in 0 .. n => h[c] = w[c]}
<1>4. 0 \in T
  <2>1. 0 \in 0 .. n
    OBVIOUS
  <2>2. h[0] = WalkStep(h, a, 0) /\ w[0] = WalkStep(w, a, 0)
    BY <1>1, <1>2, <2>1
  <2> QED
    BY <2>2 DEF WalkStep
<1>5. ASSUME NEW c \in Nat, c \in T PROVE c + 1 \in T
  <2>1. ASSUME c + 1 \in 0 .. n PROVE h[c + 1] = w[c + 1]
    <3>1. PICK i \in 0 .. n : i = c + 1 /\ i # 0 /\ i - 1 = c /\ c \in 0 .. n
      BY <2>1
    <3>2. h[c] = w[c]
      BY <1>5, <3>1
    <3>3. h[i] = WalkStep(h, a, i) /\ w[i] = WalkStep(w, a, i)
      BY <1>1, <1>2
    <3>4. WalkStep(h, a, i) = WalkStep(w, a, i)
      BY <3>1, <3>2 DEF WalkStep
    <3> QED
      BY <3>1, <3>3, <3>4
  <2> QED
    BY <2>1
<1>6. \A c \in Nat : c \in T
  <2> HIDE DEF T
  <2> QED
    BY <1>4, <1>5, Induction
<1>7. n \in 0 .. n
  OBVIOUS
<1>8. h[n] = w[n]
  BY <1>6, <1>7
<1> QED
  BY <1>3, <1>8

\* Over exact headers the walk finds the end of the polygons, if there are so many.
LEMMA WalkValue ==
  ASSUME SizesAssumption, FloatAssumption, NEW f, NEW a, NEW n, NEW first, NEW e, Laid(f, a, n, first, e),
         Fits(a), NEW m \in Nat
  PROVE  AfterHeaders(a, m) = IF m <= n THEN e[m] ELSE Len(a)
<1>1. n \in Nat /\ Len(a) \in Nat /\ e[0] = -1 /\ Len(a) = e[n] + 1 /\ e[n] \in Int
  BY LaidTypes
<1>2. PICK w : w = [c \in 0 .. m |-> IF c <= n THEN e[c] ELSE Len(a)]
  OBVIOUS
<1>3. ASSUME NEW c \in 0 .. m PROVE w[c] = WalkStep(w, a, c)
  <2>1. CASE c = 0
    BY <1>1, <1>2, <2>1 DEF WalkStep
  <2>2. CASE c # 0 /\ c <= n
    <3>1. c \in 1 .. n /\ c - 1 \in 0 .. m /\ c - 1 <= n
      BY <1>1, <2>2
    <3>2. PICK u \in Int, v \in Int, l \in Nat : Placed(f, a, n, first, e, c, u, v, l)
      BY <3>1, LaidInside
    <3>3. a[u + 2] = v
      BY <1>1, <3>2, ExactHeader
    <3>4. e[c - 1] = u /\ e[c] = v /\ l >= 1 /\ v = u + 1 + 2 * l /\ u >= -1 /\ v + 1 <= Len(a)
      BY <3>2 DEF Placed
    <3>5. w[c] = v /\ w[c - 1] = u
      BY <1>2, <2>2, <3>1, <3>4
    <3>6. u + 1 \in 0 .. Len(a) - 1
      BY <1>1, <3>4
    <3> QED
      BY <2>2, <3>3, <3>5, <3>6 DEF WalkStep
  <2>3. CASE c = n + 1
    <3>1. c # 0 /\ c - 1 = n /\ n \in 0 .. m /\ n <= n /\ ~(c <= n)
      BY <1>1, <2>3
    <3>2. w[c] = Len(a) /\ w[c - 1] = e[n]
      BY <1>2, <3>1
    <3>3. e[n] + 1 \notin 0 .. Len(a) - 1
      BY <1>1
    <3> QED
      BY <3>1, <3>2, <3>3 DEF WalkStep
  <2>4. CASE c > n + 1
    <3>1. c # 0 /\ c - 1 \in 0 .. m /\ ~(c - 1 <= n) /\ ~(c <= n)
      BY <1>1, <2>4
    <3>2. w[c] = Len(a) /\ w[c - 1] = Len(a)
      BY <1>2, <3>1
    <3>3. Len(a) + 1 \notin 0 .. Len(a) - 1
      BY <1>1
    <3> QED
      BY <3>1, <3>2, <3>3 DEF WalkStep
  <2> QED
    BY <1>1, <2>1, <2>2, <2>3, <2>4
<1>4. IsWalk(w, a, m)
  BY <1>2, <1>3, Zenon DEF IsWalk
<1>5. AfterHeaders(a, m) = w[m]
  BY <1>4, WalkUnique
<1>6. m \in 0 .. m
  OBVIOUS
<1> QED
  BY <1>2, <1>5, <1>6

\* The loop of the DPU, as a decoder.
DpuPairs(a, i) == IF a[i + 1] > i THEN (a[i + 1] - i + 1) \div 2 ELSE 0
DpuNext(a) == [i \in 0 .. Len(a) |-> i + 2 * DpuPairs(a, i) + 1]
DpuPiece(a, junk) == [i \in 0 .. Len(a) |-> <<[k \in 1 .. 2 * DpuPairs(a, i) |-> At(a, i + k, junk)]>>]
IsDpu(g, a, junk) ==
  g = [i \in 0 .. Len(a) |->
        IF i = Len(a) THEN <<>>
        ELSE <<[k \in 1 .. 2 * DpuPairs(a, i) |-> At(a, i + k, junk)]>>
             \o (IF i + 2 * DpuPairs(a, i) + 1 < Len(a) THEN g[i + 2 * DpuPairs(a, i) + 1] ELSE <<>>)]

LEMMA DpuIs ==
  \A a, from, junk : DecodeDpu(a, from, junk)
                       = IF from \in 0 .. Len(a) THEN (CHOOSE g : IsDpu(g, a, junk))[from] ELSE <<>>
  BY Zenon DEF DecodeDpu, IsDpu, DpuPairs

LEMMA DpuDecoder ==
  ASSUME NEW a, Len(a) \in Nat, NEW junk, NEW g
  PROVE  IsDpu(g, a, junk) <=> IsDecoder(g, 0, Len(a), Len(a), DpuPiece(a, junk), DpuNext(a))
<1>1. ASSUME NEW i \in 0 .. Len(a)
      PROVE  (IF i = Len(a) THEN <<>>
              ELSE <<[k \in 1 .. 2 * DpuPairs(a, i) |-> At(a, i + k, junk)]>>
                   \o (IF i + 2 * DpuPairs(a, i) + 1 < Len(a) THEN g[i + 2 * DpuPairs(a, i) + 1] ELSE <<>>))
             = DecodeStep(g, i, Len(a), DpuPiece(a, junk), DpuNext(a))
  <2>1. i = Len(a) <=> i >= Len(a)
    OBVIOUS
  <2>2. DpuNext(a)[i] = i + 2 * DpuPairs(a, i) + 1
    BY Zenon DEF DpuNext
  <2>3. DpuPiece(a, junk)[i] = <<[k \in 1 .. 2 * DpuPairs(a, i) |-> At(a, i + k, junk)]>>
    BY Zenon DEF DpuPiece
  <2> QED
    BY <2>1, <2>2, <2>3, Zenon DEF DecodeStep
<1> QED
  BY <1>1, Zenon DEF IsDpu, IsDecoder

LEMMA DpuExists ==
  ASSUME NEW a \in Seq(Int), NEW junk
  PROVE  \E g : IsDpu(g, a, junk)
<1>1. Len(a) \in Nat
  BY LenProperties
<1>2. ASSUME NEW i \in 0 .. Len(a), i < Len(a) PROVE DpuNext(a)[i] \in Int /\ DpuNext(a)[i] > i
  <2>1. a[i + 1] \in Int
    <3>1. i + 1 \in 1 .. Len(a)
      BY <1>1, <1>2
    <3> QED
      BY <3>1, ElementOfSeq
  <2>2. PICK z \in Int : z = a[i + 1]
    BY <2>1
  <2>3. (IF z > i THEN (z - i + 1) \div 2 ELSE 0) \in Nat
    OBVIOUS
  <2>4. PICK d \in Nat : d = DpuPairs(a, i)
    BY <2>2, <2>3 DEF DpuPairs
  <2>5. DpuNext(a)[i] = i + 2 * d + 1
    BY <2>4 DEF DpuNext
  <2> QED
    BY <2>5
<1>3. \E g : IsDecoder(g, 0, Len(a), Len(a), DpuPiece(a, junk), DpuNext(a))
  <2>1. 0 \in Int /\ Len(a) \in Int /\ Len(a) <= Len(a) + 1
    BY <1>1
  <2> QED
    BY <1>2, <2>1, DecoderExists
<1> QED
  BY <1>1, <1>3, DpuDecoder

\* The polygons after the first m of n.
RestOf(f, n, first, m) == [j \in 1 .. n - m |-> PolygonOf(f, first + (m + j))]

\* What the DPU finds after the first m polygons of an array with exact headers:
\* the others.
LEMMA DpuValue ==
  ASSUME SizesAssumption, FloatAssumption, NEW f, NEW a, NEW n, NEW first, NEW e, Laid(f, a, n, first, e),
         Fits(a), NEW m \in 0 .. n, NEW junk
  PROVE  DecodeDpu(a, e[m] + 1, junk) = RestOf(f, n, first, m)
<1>1. /\ a \in Seq(Int) /\ n \in Nat /\ Len(a) \in Nat /\ e[0] = -1 /\ Len(a) = e[n] + 1 /\ e[n] \in Int
      /\ first \in Nat
  BY LaidTypes
<1> DEFINE g == CHOOSE x : IsDpu(x, a, junk)
           p == [k \in 0 .. n |-> e[k] + 1]
           x == [k \in 1 .. n |-> PolygonOf(f, first + k)]
<1>2. IsDpu(g, a, junk)
  BY <1>1, DpuExists
<1>3. IsDecoder(g, 0, Len(a), Len(a), DpuPiece(a, junk), DpuNext(a))
  BY <1>1, <1>2, DpuDecoder
<1>4. ASSUME NEW k \in 0 .. n PROVE p[k] = e[k] + 1 /\ p[k] \in 0 .. Len(a) /\ (p[k] < Len(a) <=> k < n)
  <2>1. e[k] \in Int /\ e[k] >= -1 /\ e[k] <= e[n] /\ (k < n => e[k] + 3 <= e[n])
    <3>1. n \in 0 .. n
      BY <1>1
    <3> QED
      BY <3>1, EndsGrow
  <2>2. PICK z \in Int : z = e[k] /\ p[k] = z + 1
    BY <2>1
  <2>3. PICK y \in Int : y = e[n] /\ Len(a) = y + 1
    BY <1>1
  <2>4. z >= -1 /\ z <= y /\ (k < n => z + 3 <= y) /\ (k = n => z = y)
    BY <2>1, <2>2, <2>3
  <2> HIDE DEF p
  <2>5. k < n \/ k = n
    BY <1>1
  <2>6. k = n => ~(k < n)
    BY <1>1
  <2>7. z + 1 \in 0 .. y + 1 /\ (z + 1 < y + 1 <=> k < n)
    BY <2>4, <2>5, <2>6
  <2> QED
    BY <2>2, <2>3, <2>7
<1>5. ASSUME NEW k \in 0 .. n, k < n
      PROVE  DpuNext(a)[p[k]] = p[k + 1] /\ DpuPiece(a, junk)[p[k]] = <<x[k + 1]>>
  <2>1. k + 1 \in 1 .. n /\ k + 1 \in 0 .. n /\ (k + 1) - 1 = k
    BY <1>1, <1>5
  <2>2. PICK u \in Int, v \in Int, w \in Nat : Placed(f, a, n, first, e, k + 1, u, v, w)
    BY <2>1, LaidInside
  <2>3. a[u + 2] = v
    BY <1>1, <2>2, ExactHeader
  <2>4. /\ e[k] = u /\ e[k + 1] = v /\ f[first + (k + 1)] = w /\ w >= 1 /\ v = u + 1 + 2 * w
        /\ u >= -1 /\ v + 1 <= Len(a)
        /\ \A j \in 1 .. 2 * w : a[u + 2 + j] = Coordinate(first + (k + 1), j)
    BY <2>1, <2>2 DEF Placed
  <2> HIDE DEF g, p
  <2>5. PICK i \in 0 .. Len(a) : i = u + 1 /\ p[k] = i /\ p[k + 1] = v + 1 /\ i + 1 = u + 2
    <3>1. p[k] = u + 1 /\ p[k] \in 0 .. Len(a)
      BY <1>4, <2>4
    <3>2. p[k + 1] = v + 1
      BY <1>4, <2>1, <2>4
    <3>3. (u + 1) + 1 = u + 2
      OBVIOUS
    <3> QED
      BY <3>1, <3>2, <3>3
  <2>6. DpuPairs(a, i) = w
    <3>1. a[i + 1] = v
      BY <2>3, <2>5
    <3>2. v > i /\ (v - i + 1) \div 2 = w
      BY <2>4, <2>5
    <3> QED
      BY <3>1, <3>2 DEF DpuPairs
  <2>7. DpuNext(a)[i] = v + 1
    <3>1. DpuNext(a)[i] = i + 2 * w + 1
      BY <2>6 DEF DpuNext
    <3> QED
      BY <2>4, <2>5, <3>1
  <2>8. ASSUME NEW j \in 1 .. 2 * w PROVE At(a, i + j, junk) = Coordinate(first + (k + 1), j)
    <3>1. i + j \in 0 .. Len(a) - 1 /\ (i + j) + 1 = u + 2 + j
      <4>1. PICK s \in Nat, c \in Nat : s = 2 * w /\ c = Len(a)
        BY <1>1
      <4>2. j \in 1 .. s /\ v = u + 1 + s /\ u >= -1 /\ v + 1 <= c /\ i = u + 1
        BY <2>4, <2>5, <2>8, <4>1
      <4>3. i + j \in 0 .. c - 1 /\ (i + j) + 1 = u + 2 + j
        BY <4>2
      <4> QED
        BY <4>1, <4>3
    <3>2. At(a, i + j, junk) = a[u + 2 + j]
      BY <3>1 DEF At
    <3> QED
      BY <2>4, <3>2
  <2>9. DpuPiece(a, junk)[i] = <<[j \in 1 .. 2 * w |-> At(a, i + j, junk)]>>
    BY <2>6 DEF DpuPiece
  <2>10. x[k + 1] = [j \in 1 .. 2 * w |-> Coordinate(first + (k + 1), j)]
    BY <2>1, <2>4 DEF PolygonOf
  <2>11. x[k + 1] = [j \in 1 .. 2 * w |-> At(a, i + j, junk)]
    BY <2>8, <2>10
  <2> QED
    BY <2>5, <2>7, <2>9, <2>11
<1>6. g[p[m]] = [j \in 1 .. n - m |-> x[m + j]]
  <2>1. 0 \in Int /\ Len(a) \in Int
    BY <1>1
  <2> HIDE DEF g, p, x
  <2>2. IsPath(0, Len(a), Len(a), DpuPiece(a, junk), DpuNext(a), n, p, x)
    BY <1>4, <1>5, Zenon DEF IsPath
  <2>3. PICK len, piece, next : len = Len(a) /\ piece = DpuPiece(a, junk) /\ next = DpuNext(a)
    OBVIOUS
  <2>4. /\ 0 \in Int /\ len \in Int /\ n \in Nat /\ m \in 0 .. n
        /\ IsDecoder(g, 0, len, len, piece, next) /\ IsPath(0, len, len, piece, next, n, p, x)
    <3>1. 0 \in Int /\ len \in Int /\ n \in Nat /\ m \in 0 .. n
      BY <1>1, <2>1, <2>3
    <3>2. IsDecoder(g, 0, len, len, piece, next)
      BY <1>3, <2>3, Zenon
    <3>3. IsPath(0, len, len, piece, next, n, p, x)
      BY <2>2, <2>3, Zenon
    <3> QED
      BY <3>1, <3>2, <3>3
  <2>5. PICK q, y : q = p /\ y = x
    OBVIOUS
  <2>6. PICK d : d = g
    OBVIOUS
  <2>7. /\ 0 \in Int /\ len \in Int /\ n \in Nat /\ m \in 0 .. n
        /\ IsDecoder(d, 0, len, len, piece, next) /\ IsPath(0, len, len, piece, next, n, q, y)
    BY <2>4, <2>5, <2>6
  <2>8. d[q[m]] = [j \in 1 .. n - m |-> y[m + j]]
    BY ONLY <2>7, DecoderValue
  <2> QED
    BY <2>5, <2>6, <2>8
<1>7. \A j \in 1 .. n - m : x[m + j] = PolygonOf(f, first + (m + j))
  BY <1>1
<1>8. DecodeDpu(a, e[m] + 1, junk) = g[p[m]]
  <2>1. p[m] = e[m] + 1 /\ p[m] \in 0 .. Len(a)
    BY <1>4
  <2> HIDE DEF p
  <2> QED
    BY <2>1, DpuIs
<1> HIDE DEF g, p
<1> QED
  BY <1>6, <1>7, <1>8 DEF RestOf

\* The loop of the host, as a decoder.
HostPairs(a, i) == IF a[i] >= i THEN (a[i] - i + 2) \div 2 ELSE 0
HostNext(a) == [i \in 1 .. Len(a) + 1 |-> i + 2 * HostPairs(a, i) + 1]
HostFound(a, i, junk) ==
  [k \in 1 .. IF HostPairs(a, i) > 1 /\ (a[i] - i) % 2 = 0 THEN 0 ELSE 2 * HostPairs(a, i) |->
     At(a, i + k - 1, junk)]
HostPiece(a, junk) == [i \in 1 .. Len(a) + 1 |-> <<HostFound(a, i, junk)>>]
IsHost(g, a, junk) ==
  g = [i \in 1 .. Len(a) + 1 |->
        IF i >= Len(a) THEN <<>>
        ELSE <<HostFound(a, i, junk)>>
             \o (IF i + 2 * HostPairs(a, i) + 1 < Len(a) THEN g[i + 2 * HostPairs(a, i) + 1] ELSE <<>>)]

LEMMA HostIs == \A a, junk : DecodeHost(a, junk) = (CHOOSE g : IsHost(g, a, junk))[1]
  BY Zenon DEF DecodeHost, IsHost, HostFound, HostPairs

LEMMA HostDecoder ==
  ASSUME NEW a, NEW junk, NEW g
  PROVE  IsHost(g, a, junk) <=> IsDecoder(g, 1, Len(a) + 1, Len(a), HostPiece(a, junk), HostNext(a))
<1>1. ASSUME NEW i \in 1 .. Len(a) + 1
      PROVE  (IF i >= Len(a) THEN <<>>
              ELSE <<HostFound(a, i, junk)>>
                   \o (IF i + 2 * HostPairs(a, i) + 1 < Len(a) THEN g[i + 2 * HostPairs(a, i) + 1] ELSE <<>>))
             = DecodeStep(g, i, Len(a), HostPiece(a, junk), HostNext(a))
  <2>1. HostNext(a)[i] = i + 2 * HostPairs(a, i) + 1
    BY Zenon DEF HostNext
  <2>2. HostPiece(a, junk)[i] = <<HostFound(a, i, junk)>>
    BY Zenon DEF HostPiece
  <2> QED
    BY <2>1, <2>2, Zenon DEF DecodeStep
<1> QED
  BY <1>1, Zenon DEF IsHost, IsDecoder

LEMMA HostExists ==
  ASSUME NEW a \in Seq(Int), NEW junk
  PROVE  \E g : IsHost(g, a, junk)
<1>1. Len(a) \in Nat
  BY LenProperties
<1>2. ASSUME NEW i \in 1 .. Len(a) + 1, i < Len(a) PROVE HostNext(a)[i] \in Int /\ HostNext(a)[i] > i
  <2>1. a[i] \in Int
    <3>1. i \in 1 .. Len(a)
      BY <1>1, <1>2
    <3> QED
      BY <3>1, ElementOfSeq
  <2>2. PICK z \in Int : z = a[i]
    BY <2>1
  <2>3. (IF z >= i THEN (z - i + 2) \div 2 ELSE 0) \in Nat
    OBVIOUS
  <2>4. PICK d \in Nat : d = HostPairs(a, i)
    BY <2>2, <2>3 DEF HostPairs
  <2>5. HostNext(a)[i] = i + 2 * d + 1
    BY <2>4 DEF HostNext
  <2> QED
    BY <2>5
<1>3. \E g : IsDecoder(g, 1, Len(a) + 1, Len(a), HostPiece(a, junk), HostNext(a))
  <2>1. Len(a) \in Int /\ Len(a) + 1 \in Int /\ 1 \in Int /\ Len(a) <= (Len(a) + 1) + 1
    BY <1>1
  <2> QED
    BY <1>2, <2>1, DecoderExists
<1> QED
  BY <1>3, HostDecoder

\* What the host finds in an array with exact headers: all its polygons.
LEMMA HostValue ==
  ASSUME SizesAssumption, FloatAssumption, NEW f, NEW a, NEW n, NEW first, NEW e, Laid(f, a, n, first, e),
         Fits(a), NEW junk
  PROVE  DecodeHost(a, junk) = [j \in 1 .. n |-> PolygonOf(f, first + j)]
<1>1. /\ a \in Seq(Int) /\ n \in Nat /\ Len(a) \in Nat /\ e[0] = -1 /\ Len(a) = e[n] + 1 /\ e[n] \in Int
      /\ first \in Nat
  BY LaidTypes
<1> DEFINE g == CHOOSE x : IsHost(x, a, junk)
           p == [k \in 0 .. n |-> e[k] + 2]
           x == [k \in 1 .. n |-> PolygonOf(f, first + k)]
<1>2. IsHost(g, a, junk)
  BY <1>1, HostExists
<1>3. IsDecoder(g, 1, Len(a) + 1, Len(a), HostPiece(a, junk), HostNext(a))
  BY <1>2, HostDecoder
<1>4. ASSUME NEW k \in 0 .. n PROVE p[k] = e[k] + 2 /\ p[k] \in 1 .. Len(a) + 1 /\ (p[k] < Len(a) <=> k < n)
  <2>1. e[k] \in Int /\ e[k] >= -1 /\ e[k] <= e[n] /\ (k < n => e[k] + 3 <= e[n])
    <3>1. n \in 0 .. n
      BY <1>1
    <3> QED
      BY <3>1, EndsGrow
  <2>2. PICK z \in Int : z = e[k] /\ p[k] = z + 2
    BY <2>1
  <2>3. PICK y \in Int : y = e[n] /\ Len(a) = y + 1
    BY <1>1
  <2>4. z >= -1 /\ z <= y /\ (k < n => z + 3 <= y) /\ (k = n => z = y)
    BY <2>1, <2>2, <2>3
  <2> HIDE DEF p
  <2>5. k < n \/ k = n
    BY <1>1
  <2>6. k = n => ~(k < n)
    BY <1>1
  <2>7. z + 2 \in 1 .. (y + 1) + 1 /\ (z + 2 < y + 1 <=> k < n)
    BY <2>4, <2>5, <2>6
  <2> QED
    BY <2>2, <2>3, <2>7
<1>5. ASSUME NEW k \in 0 .. n, k < n
      PROVE  HostNext(a)[p[k]] = p[k + 1] /\ HostPiece(a, junk)[p[k]] = <<x[k + 1]>>
  <2>1. k + 1 \in 1 .. n /\ k + 1 \in 0 .. n /\ (k + 1) - 1 = k
    BY <1>1, <1>5
  <2>2. PICK u \in Int, v \in Int, w \in Nat : Placed(f, a, n, first, e, k + 1, u, v, w)
    BY <2>1, LaidInside
  <2>3. a[u + 2] = v
    BY <1>1, <2>2, ExactHeader
  <2>4. /\ e[k] = u /\ e[k + 1] = v /\ f[first + (k + 1)] = w /\ w >= 1 /\ v = u + 1 + 2 * w
        /\ u >= -1 /\ v + 1 <= Len(a)
        /\ \A j \in 1 .. 2 * w : a[u + 2 + j] = Coordinate(first + (k + 1), j)
    BY <2>1, <2>2 DEF Placed
  <2>5. PICK i \in 1 .. Len(a) + 1 : i = u + 2 /\ p[k] = i /\ p[k + 1] = v + 2
    BY <1>1, <1>4, <2>1, <2>4
  <2>6. HostPairs(a, i) = w /\ (a[i] - i) % 2 # 0
    <3>1. a[i] = v
      BY <2>3, <2>5
    <3>2. v >= i /\ (v - i + 2) \div 2 = w /\ (v - i) % 2 # 0
      BY <2>4, <2>5
    <3> QED
      BY <3>1, <3>2 DEF HostPairs
  <2>7. HostNext(a)[i] = v + 2
    <3>1. HostNext(a)[i] = i + 2 * w + 1
      BY <2>6 DEF HostNext
    <3> QED
      BY <2>4, <2>5, <3>1
  <2>8. ASSUME NEW j \in 1 .. 2 * w PROVE At(a, i + j - 1, junk) = Coordinate(first + (k + 1), j)
    <3>1. i + j - 1 \in 0 .. Len(a) - 1 /\ (i + j - 1) + 1 = u + 2 + j
      <4>1. PICK l \in Nat : l = Len(a)
        BY <1>1
      <4>2. i = u + 2 /\ v = u + 1 + 2 * w /\ v + 1 <= l /\ u >= -1
        BY <2>4, <2>5, <4>1
      <4>3. u + 2 + j - 1 \in 0 .. l - 1 /\ (u + 2 + j - 1) + 1 = u + 2 + j
        BY <4>2
      <4> QED
        BY <4>1, <4>2, <4>3
    <3>2. At(a, i + j - 1, junk) = a[u + 2 + j]
      BY <3>1 DEF At
    <3> QED
      BY <2>4, <3>2
  <2>9. HostFound(a, i, junk) = [j \in 1 .. 2 * w |-> At(a, i + j - 1, junk)]
    BY <2>6 DEF HostFound
  <2>10. x[k + 1] = [j \in 1 .. 2 * w |-> Coordinate(first + (k + 1), j)]
    BY <2>1, <2>4 DEF PolygonOf
  <2>11. x[k + 1] = HostFound(a, i, junk)
    BY <2>8, <2>9, <2>10
  <2>12. HostPiece(a, junk)[i] = <<HostFound(a, i, junk)>>
    BY DEF HostPiece
  <2> QED
    BY <2>5, <2>7, <2>11, <2>12
<1>6. g[p[0]] = [j \in 1 .. n - 0 |-> x[0 + j]]
  <2>1. 1 \in Int /\ Len(a) \in Int /\ Len(a) + 1 \in Int /\ 0 \in 0 .. n
    BY <1>1
  <2> HIDE DEF g, p, x
  <2>2. IsPath(1, Len(a) + 1, Len(a), HostPiece(a, junk), HostNext(a), n, p, x)
    BY <1>4, <1>5, Zenon DEF IsPath
  <2> QED
    BY <1>1, <1>3, <2>1, <2>2, DecoderValue
<1>7. \A j \in 1 .. n : x[0 + j] = PolygonOf(f, first + j)
  BY <1>1
<1>8. DecodeHost(a, junk) = g[p[0]]
  <2>1. p[0] = 1
    <3>1. 0 \in 0 .. n
      BY <1>1
    <3> QED
      BY <1>1, <1>4, <3>1
  <2> HIDE DEF p
  <2> QED
    BY <2>1, HostIs
<1>9. n - 0 = n
  BY <1>1
<1> HIDE DEF g, p, x
<1> QED
  BY <1>6, <1>7, <1>8, <1>9

-----------------------------------------------------------------------------
\* The invariant ------------------------------------------------------------

\* Every request is the array of its polygons, and so is what the client builds of
\* those it has read since; what the DPU and the host keep of a request is what
\* they make of it.
ClientOK ==
  /\ file \in Seq(1 .. MaxPoints) /\ Len(file) \in Nat /\ polygonsRead \in 0 .. Len(file)
  /\ requests \in Seq(Seq(Int)) /\ Len(requests) \in Nat
  /\ \E k \in 0 .. bunchSize - 1 :
       /\ polygonsRead = Len(requests) * bunchSize + k
       /\ \E e : Laid(file, polygonArray, k, Len(requests) * bunchSize, e)
  /\ \A r \in 1 .. Len(requests) : \E e : Laid(file, requests[r], bunchSize, (r - 1) * bunchSize, e)

EndOf(r) == SendIndex(requests[r], dpuBunch)
ReadersOK ==
  /\ dpuBunch \in Nat
  /\ \A r \in DOMAIN forwarded :
       /\ r \in 1 .. Len(requests) /\ EndOf(r) < Len(requests[r])
       /\ forwarded[r] = SendArray(requests[r], EndOf(r))
  /\ \A r \in DOMAIN atHost : /\ r \in DOMAIN forwarded
                              /\ \E junk : atHost[r] = DecodeHost(forwarded[r], junk)
  /\ \A r \in DOMAIN atDpu : /\ r \in DOMAIN forwarded
                             /\ \E junk : atDpu[r] = DecodeDpu(requests[r], EndOf(r) + 1, junk)
  /\ thrown => \E r \in 1 .. Len(requests) : ~(EndOf(r) < Len(requests[r]))

WireInv == ClientOK /\ ReadersOK

LEMMA ArraysInit == SizesAssumption /\ WireInit => WireInv
<1> SUFFICES ASSUME SizesAssumption, WireInit PROVE WireInv
  OBVIOUS
<1>1. file \in Seq(1 .. MaxPoints) /\ Len(file) \in Nat
  <2>1. PICK n \in Nat : file \in [1 .. n -> 1 .. MaxPoints]
    BY DEF WireInit, SizesAssumption
  <2>2. file \in Seq(1 .. MaxPoints)
    BY <2>1
  <2> QED
    BY <2>2, LenProperties
<1>2. /\ polygonsRead = 0 /\ polygonArray = <<>> /\ requests = <<>> /\ forwarded = <<>> /\ atHost = <<>> /\ atDpu = <<>>
      /\ thrown = FALSE /\ dpuBunch \in Nat
  BY DEF WireInit, SizesAssumption
<1>3. Len(requests) = 0 /\ requests \in Seq(Seq(Int)) /\ 1 .. Len(requests) = {}
  BY <1>2
<1>4. DOMAIN forwarded = {} /\ DOMAIN atHost = {} /\ DOMAIN atDpu = {}
  BY <1>2
<1>5. bunchSize \in Nat /\ 0 \in 0 .. bunchSize - 1 /\ 0 * bunchSize = 0
  BY DEF SizesAssumption
<1>6. \E e : Laid(file, polygonArray, 0, 0, e)
  <2>1. 0 \in Nat /\ 0 <= Len(file)
    BY <1>1
  <2> QED
    BY <1>1, <1>2, <2>1, LaidEmpty
<1>7. ClientOK
  BY <1>1, <1>2, <1>3, <1>5, <1>6 DEF ClientOK
<1>8. ReadersOK
  BY <1>2, <1>4 DEF ReadersOK
<1> QED
  BY <1>7, <1>8 DEF WireInv

LEMMA ReadPolygonStep == SizesAssumption /\ FloatAssumption /\ WireInv /\ ReadPolygon => WireInv'
<1> SUFFICES ASSUME SizesAssumption, FloatAssumption, WireInv, ReadPolygon PROVE WireInv'
  OBVIOUS
<1>1. PICK b \in Nat : b = bunchSize /\ b >= 1
  BY DEF SizesAssumption
<1>2. /\ file \in Seq(1 .. MaxPoints) /\ Len(file) \in Nat /\ polygonsRead \in 0 .. Len(file)
      /\ requests \in Seq(Seq(Int))
      /\ \A r \in 1 .. Len(requests) : \E e : Laid(file, requests[r], b, (r - 1) * b, e)
  BY <1>1 DEF WireInv, ClientOK
<1>3. PICK n \in Nat : n = Len(requests)
  BY DEF WireInv, ClientOK
<1>4. PICK k \in 0 .. b - 1 : polygonsRead = n * b + k /\ \E e : Laid(file, polygonArray, k, n * b, e)
  BY <1>1, <1>3 DEF WireInv, ClientOK
<1>5. PICK e : Laid(file, polygonArray, k, n * b, e)
  BY <1>4
<1>6. PICK m \in Nat : m = n * b
  BY <1>1, <1>3
<1>7. polygonsRead = m + k /\ k \in Nat /\ m + k + 1 <= Len(file) /\ polygonsRead + 1 = m + k + 1
  BY <1>1, <1>2, <1>4, <1>6 DEF ReadPolygon
<1> DEFINE a == Appended(polygonArray, geomToArray(polygonsRead + 1))
<1>8. \E d : Laid(file, a, k + 1, m, d)
  <2>1. geomToArray(polygonsRead + 1) = PolygonOf(file, m + k + 1)
    BY <1>7 DEF geomToArray, PolygonOf
  <2>2. Laid(file, polygonArray, k, m, e) /\ m + k + 1 <= Len(file)
    BY <1>5, <1>6, <1>7
  <2>3. \E d : Laid(file, Append(polygonArray, AsFloat(Len(polygonArray) + Len(PolygonOf(file, m + k + 1))))
                            \o PolygonOf(file, m + k + 1), k + 1, m, d)
    BY <2>2, LaidAppended
  <2> QED
    BY <2>1, <2>3 DEF Appended
<1>9. /\ file' = file /\ dpuBunch' = dpuBunch /\ forwarded' = forwarded /\ atHost' = atHost /\ atDpu' = atDpu
      /\ thrown' = thrown /\ polygonsRead' = polygonsRead + 1
      /\ IF (polygonsRead + 1) % b = 0
           THEN requests' = Append(requests, a) /\ polygonArray' = <<>>
           ELSE polygonArray' = a /\ requests' = requests
  BY <1>1 DEF ReadPolygon
<1>10. (polygonsRead + 1) % b = 0 <=> k + 1 = b
  <2>4. b \in Nat \ {0} /\ k + 1 \in 1 .. b
    BY <1>1
  <2>1. (b * n + (k + 1)) % b = 0 <=> k + 1 = b
    BY <2>4, FullBunch
  <2>2. b * n = m
    BY <1>1, <1>6
  <2>3. polygonsRead + 1 = b * n + (k + 1)
    BY <1>7, <2>2
  <2> QED
    BY <2>1, <2>3
<1>11. a \in Seq(Int)
  BY <1>8 DEF Laid
<1> HIDE DEF a
<1>12. CASE k + 1 = b
  <2>1. requests' = Append(requests, a) /\ polygonArray' = <<>>
    BY <1>9, <1>10, <1>12
  <2>2. /\ requests' \in Seq(Seq(Int)) /\ Len(requests') = n + 1 /\ requests'[n + 1] = a
        /\ \A r \in 1 .. n : requests'[r] = requests[r]
    BY <1>2, <1>3, <1>11, <2>1, AppendProperties
  <2>3. (n + 1) * b = m + b /\ m + b = polygonsRead + 1 /\ m + b <= Len(file)
    BY <1>1, <1>6, <1>7, <1>12
  <2>4. ASSUME NEW r \in 1 .. n + 1 PROVE \E d : Laid(file, requests'[r], b, (r - 1) * b, d)
    <3>1. CASE r \in 1 .. n
      BY <1>2, <1>3, <2>2, <3>1
    <3>2. CASE r = n + 1
      <4>1. (r - 1) * b = m
        BY <1>6, <3>2
      <4> QED
        BY <1>8, <1>12, <2>2, <3>2, <4>1
    <3> QED
      BY <3>1, <3>2
  <2>5. \E d : Laid(file, <<>>, 0, m + b, d)
    <3>1. m + b \in Nat
      BY <1>1
    <3> QED
      BY <1>2, <2>3, <3>1, LaidEmpty
  <2>6. polygonsRead' \in 0 .. Len(file) /\ polygonsRead' = (n + 1) * b + 0 /\ 0 \in 0 .. b - 1
    BY <1>1, <1>2, <1>7, <1>9, <2>3
  <2>7. ClientOK'
    <3>1. \E j \in 0 .. b - 1 :
            /\ polygonsRead' = Len(requests') * b + j
            /\ \E d : Laid(file, polygonArray', j, Len(requests') * b, d)
      BY <2>1, <2>2, <2>3, <2>5, <2>6
    <3>2. \A r \in 1 .. Len(requests') : \E d : Laid(file, requests'[r], b, (r - 1) * b, d)
      BY <2>2, <2>4
    <3>3. Len(requests') \in Nat
      BY <2>2
    <3> QED
      BY <1>1, <1>2, <1>9, <2>2, <2>6, <3>1, <3>2, <3>3 DEF ClientOK
  <2>8. ReadersOK'
    <3>1. \A r \in 1 .. Len(requests) : r \in 1 .. Len(requests') /\ requests'[r] = requests[r] /\ EndOf(r)' = EndOf(r)
      <4> TAKE r \in 1 .. Len(requests)
      <4>1. r \in 1 .. n /\ r \in 1 .. n + 1
        BY <1>3
      <4>2. requests'[r] = requests[r] /\ r \in 1 .. Len(requests')
        BY <2>2, <4>1
      <4> QED
        BY <1>9, <4>2 DEF EndOf
    <3> QED
      BY <1>9, <3>1 DEF WireInv, ReadersOK
  <2> QED
    BY <2>7, <2>8 DEF WireInv
<1>13. CASE k + 1 # b
  <2>1. polygonArray' = a /\ requests' = requests
    BY <1>9, <1>10, <1>13
  <2>2. PICK j \in 0 .. b - 1 : j = k + 1
    BY <1>1, <1>13
  <2>3. polygonsRead' \in 0 .. Len(file) /\ polygonsRead' = n * b + j
    BY <1>2, <1>6, <1>7, <1>9, <2>2
  <2>4. \E d : Laid(file, a, j, n * b, d)
    BY <1>6, <1>8, <2>2
  <2>5. ClientOK'
    BY <1>1, <1>2, <1>3, <1>9, <2>1, <2>3, <2>4 DEF ClientOK
  <2>6. ReadersOK'
    BY <1>9, <2>1 DEF WireInv, ReadersOK, EndOf
  <2> QED
    BY <2>5, <2>6 DEF WireInv
<1> QED
  BY <1>12, <1>13

LEMMA SplitStep == ASSUME WireInv, NEW r \in DOMAIN requests, Split(r) PROVE WireInv'
<1>1. r \in 1 .. Len(requests)
  BY DEF WireInv, ClientOK
<1>2. /\ file' = file /\ dpuBunch' = dpuBunch /\ polygonsRead' = polygonsRead /\ polygonArray' = polygonArray
      /\ requests' = requests /\ atHost' = atHost /\ atDpu' = atDpu
  BY DEF Split
<1>3. ClientOK'
  BY <1>2 DEF WireInv, ClientOK
<1>4. CASE EndOf(r) < Len(requests[r])
  <2>1. forwarded' = Keep(forwarded, r, SendArray(requests[r], EndOf(r))) /\ thrown' = FALSE /\ r \notin DOMAIN forwarded
    BY <1>4 DEF Split, EndOf
  <2>2. /\ DOMAIN forwarded' = DOMAIN forwarded \cup {r} /\ forwarded'[r] = SendArray(requests[r], EndOf(r))
        /\ \A s \in DOMAIN forwarded : forwarded'[s] = forwarded[s]
    BY <2>1 DEF Keep
  <2> QED
    BY <1>1, <1>2, <1>3, <1>4, <2>1, <2>2 DEF WireInv, ReadersOK, EndOf
<1>5. CASE ~(EndOf(r) < Len(requests[r]))
  <2>1. forwarded' = forwarded
    BY <1>5 DEF Split, EndOf
  <2> QED
    BY <1>1, <1>2, <1>3, <1>5, <2>1 DEF WireInv, ReadersOK, EndOf
<1> QED
  BY <1>4, <1>5

LEMMA QueryDpuStep == ASSUME WireInv, NEW r \in DOMAIN requests, QueryDpu(r) PROVE WireInv'
<1>1. /\ file' = file /\ dpuBunch' = dpuBunch /\ polygonsRead' = polygonsRead /\ polygonArray' = polygonArray
      /\ requests' = requests /\ atHost' = atHost /\ forwarded' = forwarded /\ thrown' = thrown
      /\ r \in DOMAIN forwarded /\ r \notin DOMAIN atDpu
  BY DEF QueryDpu
<1>2. PICK junk : atDpu' = Keep(atDpu, r, DecodeDpu(requests[r], EndOf(r) + 1, junk))
  BY DEF QueryDpu, EndOf
<1>3. /\ DOMAIN atDpu' = DOMAIN atDpu \cup {r} /\ atDpu'[r] = DecodeDpu(requests[r], EndOf(r) + 1, junk)
      /\ \A s \in DOMAIN atDpu : atDpu'[s] = atDpu[s]
  BY <1>1, <1>2 DEF Keep
<1>4. ClientOK'
  BY <1>1 DEF WireInv, ClientOK
<1>5. ReadersOK'
  BY <1>1, <1>3 DEF WireInv, ReadersOK, EndOf
<1> QED
  BY <1>4, <1>5 DEF WireInv

LEMMA QueryHostStep == ASSUME WireInv, NEW r \in DOMAIN requests, QueryHost(r) PROVE WireInv'
<1>1. /\ file' = file /\ dpuBunch' = dpuBunch /\ polygonsRead' = polygonsRead /\ polygonArray' = polygonArray
      /\ requests' = requests /\ atDpu' = atDpu /\ forwarded' = forwarded /\ thrown' = thrown
      /\ r \in DOMAIN forwarded /\ r \notin DOMAIN atHost
  BY DEF QueryHost
<1>2. PICK junk : atHost' = Keep(atHost, r, DecodeHost(forwarded[r], junk))
  BY DEF QueryHost
<1>3. /\ DOMAIN atHost' = DOMAIN atHost \cup {r} /\ atHost'[r] = DecodeHost(forwarded[r], junk)
      /\ \A s \in DOMAIN atHost : atHost'[s] = atHost[s]
  BY <1>1, <1>2 DEF Keep
<1>4. ClientOK'
  BY <1>1 DEF WireInv, ClientOK
<1>5. ReadersOK'
  BY <1>1, <1>3 DEF WireInv, ReadersOK, EndOf
<1> QED
  BY <1>4, <1>5 DEF WireInv

LEMMA ArraysNext == SizesAssumption /\ FloatAssumption /\ WireInv /\ [WireNext]_wireVars => WireInv'
<1> SUFFICES ASSUME SizesAssumption, FloatAssumption, WireInv, [WireNext]_wireVars PROVE WireInv'
  OBVIOUS
<1>1. CASE UNCHANGED wireVars
  BY <1>1 DEF wireVars, WireInv, ClientOK, ReadersOK, EndOf
<1>2. CASE ReadPolygon
  BY <1>2, ReadPolygonStep
<1>3. ASSUME NEW r \in DOMAIN requests, Split(r) \/ QueryDpu(r) \/ QueryHost(r) PROVE WireInv'
  BY <1>3, SplitStep, QueryDpuStep, QueryHostStep
<1> QED
  BY <1>1, <1>2, <1>3 DEF WireNext

-----------------------------------------------------------------------------
\* What follows -------------------------------------------------------------

\* A request with exact headers, and the end the DPU finds in it.
LEMMA ExactRequest ==
  ASSUME SizesAssumption, FloatAssumption, WireInv, NEW r \in 1 .. Len(requests), Fits(requests[r])
  PROVE  \E first \in Nat : \E e :
           /\ first = (r - 1) * bunchSize /\ Laid(file, requests[r], bunchSize, first, e)
           /\ EndOf(r) = IF dpuBunch <= bunchSize THEN e[dpuBunch] ELSE Len(requests[r])
<1>1. PICK e : Laid(file, requests[r], bunchSize, (r - 1) * bunchSize, e)
  BY DEF WireInv, ClientOK
<1>2. PICK first \in Nat : first = (r - 1) * bunchSize
  BY <1>1, LaidTypes
<1>3. dpuBunch \in Nat
  BY DEF WireInv, ReadersOK
<1>4. AfterHeaders(requests[r], dpuBunch) = IF dpuBunch <= bunchSize THEN e[dpuBunch] ELSE Len(requests[r])
  BY <1>1, <1>3, WalkValue
<1> QED
  BY <1>1, <1>2, <1>4 DEF EndOf, SendIndex

LEMMA WholeBatchFollows == SizesAssumption /\ FloatAssumption /\ WireInv => WholeBatch
<1> SUFFICES ASSUME SizesAssumption, FloatAssumption, WireInv, NEW r \in DOMAIN requests, Fits(requests[r])
             PROVE  /\ r \in DOMAIN atHost => atHost[r] = SubSeq(Batch(r), 1, dpuBunch)
                    /\ r \in DOMAIN atDpu => atDpu[r] = SubSeq(Batch(r), dpuBunch + 1, bunchSize)
  BY DEF WholeBatch
<1>1. r \in 1 .. Len(requests)
  BY DEF WireInv, ClientOK
<1>10. PICK first \in Nat : \E e :
        /\ first = (r - 1) * bunchSize /\ Laid(file, requests[r], bunchSize, first, e)
        /\ EndOf(r) = IF dpuBunch <= bunchSize THEN e[dpuBunch] ELSE Len(requests[r])
  BY <1>1, ExactRequest
<1>2. PICK e :
        /\ first = (r - 1) * bunchSize /\ Laid(file, requests[r], bunchSize, first, e)
        /\ EndOf(r) = IF dpuBunch <= bunchSize THEN e[dpuBunch] ELSE Len(requests[r])
  BY <1>10
<1>3. PICK b \in Nat : b = bunchSize
  BY DEF SizesAssumption
<1>4. PICK d \in Nat : d = dpuBunch
  BY DEF WireInv, ReadersOK
<1> DEFINE q == requests[r]
           batch == [k \in 1 .. b |-> PolygonOf(file, first + k)]
<1>5. Batch(r) = batch
  BY <1>2, <1>3 DEF Batch, geomToArray, PolygonOf
<1>6. q \in Seq(Int) /\ Len(q) \in Nat /\ Len(q) = e[b] + 1 /\ e[b] \in Int /\ Laid(file, q, b, first, e)
  BY <1>2, <1>3, LaidTypes
<1>7. ASSUME r \in DOMAIN forwarded
      PROVE  d \in 0 .. b /\ EndOf(r) = e[d] /\ forwarded[r] = SubSeq(q, 1, e[d] + 1)
  <2>1. EndOf(r) < Len(q) /\ forwarded[r] = SendArray(q, EndOf(r))
    BY <1>7 DEF WireInv, ReadersOK
  <2>2. d <= b
    BY <1>2, <1>3, <1>4, <1>6, <2>1
  <2>3. EndOf(r) = e[d]
    BY <1>2, <1>3, <1>4, <2>2
  <2> QED
    BY <2>1, <2>2, <2>3 DEF SendArray
<1> HIDE DEF q
<1>8. ASSUME r \in DOMAIN atHost PROVE atHost[r] = SubSeq(batch, 1, d)
  <2>1. r \in DOMAIN forwarded /\ \E junk : atHost[r] = DecodeHost(forwarded[r], junk)
    BY <1>8 DEF WireInv, ReadersOK
  <2>2. PICK junk : atHost[r] = DecodeHost(forwarded[r], junk)
    BY <2>1
  <2>3. d \in 0 .. b /\ forwarded[r] = SubSeq(q, 1, e[d] + 1)
    BY <1>7, <2>1
  <2>4. PICK p : p = SubSeq(q, 1, e[d] + 1)
    OBVIOUS
  <2>5. PICK h : h = [k \in 0 .. d |-> e[k]]
    OBVIOUS
  <2>6. Laid(file, p, d, first, h)
    BY <1>6, <2>3, <2>4, <2>5, LaidPrefix
  <2>7. Fits(p)
    <3>1. e[d] \in Int /\ e[d] <= e[b]
      <4>1. b \in 0 .. b
        OBVIOUS
      <4> QED
        BY <1>6, <2>3, <4>1, EndsGrow
    <3>2. Len(p) = e[d] + 1
      <4>1. d \in 0 .. d
        OBVIOUS
      <4>2. Len(p) = h[d] + 1
        BY <2>6, LaidTypes
      <4> QED
        BY <2>5, <4>1, <4>2
    <3>3. Len(q) - 1 <= Exact
      BY DEF Fits, q
    <3> QED
      BY <1>6, <3>1, <3>2, <3>3 DEF Fits, FloatAssumption
  <2>8. DecodeHost(p, junk) = [j \in 1 .. d |-> PolygonOf(file, first + j)]
    BY <2>6, <2>7, HostValue
  <2>9. SubSeq(batch, 1, d) = [j \in 1 .. d |-> batch[j]]
    <3> HIDE DEF batch
    <3> QED
      OBVIOUS
  <2>10. \A j \in 1 .. d : batch[j] = PolygonOf(file, first + j)
    BY <2>3
  <2> QED
    BY <2>2, <2>3, <2>4, <2>8, <2>9, <2>10
<1>9. ASSUME r \in DOMAIN atDpu PROVE atDpu[r] = SubSeq(batch, d + 1, b)
  <2>1. r \in DOMAIN forwarded /\ \E junk : atDpu[r] = DecodeDpu(q, EndOf(r) + 1, junk)
    BY <1>9 DEF WireInv, ReadersOK, q
  <2>2. PICK junk : atDpu[r] = DecodeDpu(q, EndOf(r) + 1, junk)
    BY <2>1
  <2>3. d \in 0 .. b /\ EndOf(r) = e[d]
    BY <1>7, <2>1
  <2>4. Fits(q)
    BY DEF q
  <2>5. DecodeDpu(q, e[d] + 1, junk) = RestOf(file, b, first, d)
    <3> HIDE DEF q
    <3>1. Laid(file, q, b, first, e) /\ d \in 0 .. b
      BY <1>6, <2>3
    <3> QED
      BY <2>4, <3>1, DpuValue
  <2>6. SubSeq(batch, d + 1, b) = [j \in 1 .. b - d |-> batch[d + j]]
    <3> HIDE DEF batch
    <3>1. SubSeq(batch, d + 1, b) = [j \in 1 .. 1 + b - (d + 1) |-> batch[j + (d + 1) - 1]]
      OBVIOUS
    <3>2. 1 + b - (d + 1) = b - d
      BY <2>3
    <3>3. \A j \in 1 .. b - d : j + (d + 1) - 1 = d + j
      BY <2>3
    <3> QED
      BY <3>1, <3>2, <3>3
  <2>7. \A j \in 1 .. b - d : batch[d + j] = PolygonOf(file, first + (d + j))
    BY <2>3
  <2> QED
    BY <2>2, <2>3, <2>5, <2>6, <2>7 DEF RestOf
<1> QED
  BY <1>3, <1>4, <1>5, <1>8, <1>9

LEMMA ThrowsFollows == SizesAssumption /\ FloatAssumption /\ WireInv => ThrowsOnlyIfShort
<1> SUFFICES ASSUME SizesAssumption, FloatAssumption, WireInv, thrown, ~(dpuBunch > bunchSize)
             PROVE  \E r \in DOMAIN requests : ~Fits(requests[r])
  BY DEF ThrowsOnlyIfShort
<1>1. PICK r \in 1 .. Len(requests) : ~(EndOf(r) < Len(requests[r]))
  BY DEF WireInv, ReadersOK
<1>2. r \in DOMAIN requests
  BY DEF WireInv, ClientOK
<1>3. ASSUME Fits(requests[r]) PROVE FALSE
  <2>7. PICK first \in Nat : \E e :
          /\ first = (r - 1) * bunchSize /\ Laid(file, requests[r], bunchSize, first, e)
          /\ EndOf(r) = IF dpuBunch <= bunchSize THEN e[dpuBunch] ELSE Len(requests[r])
    BY <1>3, ExactRequest
  <2>1. PICK e :
          /\ first = (r - 1) * bunchSize /\ Laid(file, requests[r], bunchSize, first, e)
          /\ EndOf(r) = IF dpuBunch <= bunchSize THEN e[dpuBunch] ELSE Len(requests[r])
    BY <2>7
  <2>2. PICK b \in Nat : b = bunchSize
    BY DEF SizesAssumption
  <2>3. PICK d \in 0 .. b : d = dpuBunch
    BY <2>2 DEF WireInv, ReadersOK
  <2>4. e[d] <= e[b] /\ e[d] \in Int
    <3>1. b \in 0 .. b
      OBVIOUS
    <3> QED
      BY <2>1, <2>2, <3>1, EndsGrow
  <2>5. Len(requests[r]) = e[b] + 1 /\ e[b] \in Int
    <3>1. Laid(file, requests[r], b, first, e)
      BY <2>1, <2>2
    <3>2. PICK q : q = requests[r]
      OBVIOUS
    <3>3. Laid(file, q, b, first, e)
      BY <3>1, <3>2
    <3>4. Len(q) = e[b] + 1 /\ e[b] \in Int
      BY ONLY <3>3, LaidTypes
    <3> QED
      BY <3>2, <3>4
  <2>6. EndOf(r) = e[d]
    BY <2>1, <2>2, <2>3
  <2> QED
    BY <1>1, <2>4, <2>5, <2>6
<1> QED
  BY <1>2, <1>3

\* An array that is laid out is the array of its polygons.
LEMMA LaidIsArray ==
  ASSUME SizesAssumption, NEW f, NEW a, NEW n, NEW first, NEW e, Laid(f, a, n, first, e),
         NEW polygons, polygons = [k \in 1 .. n |-> PolygonOf(f, first + k)]
  PROVE  IsArrayOf(a, polygons)
<1>1. /\ a \in Seq(Int) /\ Len(a) \in Nat /\ DOMAIN a = 1 .. Len(a) /\ n \in Nat /\ first \in Nat
      /\ e[0] = -1 /\ Len(a) = e[n] + 1 /\ e[n] \in Int
  BY LaidTypes
<1>2. DOMAIN polygons = 1 .. n /\ Len(polygons) = n
  BY <1>1
<1>3. ASSUME NEW k \in 1 .. n
      PROVE  \E u, v \in Int : \E l \in Nat :
               /\ e[k - 1] = u /\ e[k] = v /\ u >= -1 /\ v = u + 1 + 2 * l /\ l >= 1 /\ v + 1 <= Len(a)
               /\ f[first + k] = l /\ a[u + 2] = AsFloat(v)
               /\ \A j \in 1 .. 2 * l : a[u + 2 + j] = Coordinate(first + k, j)
  <2>1. PICK u \in Int, v \in Int, l \in Nat : Placed(f, a, n, first, e, k, u, v, l)
    BY <1>3, LaidInside
  <2> QED
    BY <2>1 DEF Placed
<1>4. PICK ends : ends = [k \in 1 .. n |-> e[k] + 1]
  OBVIOUS
<1>5. ends \in [1 .. n -> DOMAIN a]
  <2>1. ASSUME NEW k \in 1 .. n PROVE e[k] + 1 \in 1 .. Len(a)
    <3>1. PICK u \in Int, v \in Int : \E l \in Nat :
            e[k] = v /\ u >= -1 /\ v = u + 1 + 2 * l /\ v + 1 <= Len(a)
      BY <1>3
    <3>2. v \in Int /\ e[k] = v /\ v + 1 >= 1 /\ v + 1 <= Len(a)
      BY <3>1
    <3> QED
      BY <1>1, <3>2
  <2> QED
    BY <1>1, <1>4, <2>1
<1> DEFINE before(k) == IF k = 1 THEN 0 ELSE ends[k - 1]
<1>6. ASSUME NEW k \in 1 .. n + 1 PROVE before(k) = e[k - 1] + 1
  <2>1. CASE k = 1
    BY <1>1, <2>1
  <2>2. CASE k # 1
    <3>1. k - 1 \in 1 .. n
      BY <1>1, <2>2
    <3> QED
      BY <1>4, <2>2, <3>1
  <2> QED
    BY <2>1, <2>2
<1>7. Len(a) = before(n + 1)
  <2>1. n + 1 \in 1 .. n + 1 /\ (n + 1) - 1 = n
    BY <1>1
  <2>2. before(n + 1) = e[(n + 1) - 1] + 1
    BY <1>6, <2>1
  <2> HIDE DEF before
  <2> QED
    BY <1>1, <2>1, <2>2
<1>8. ASSUME NEW k \in 1 .. n
      PROVE  /\ ends[k] = before(k) + 1 + Len(polygons[k])
             /\ a[before(k) + 1] = AsFloat(ends[k] - 1)
             /\ SubSeq(a, before(k) + 2, ends[k]) = polygons[k]
  <2>1. PICK u \in Int, v \in Int : \E l \in Nat :
          /\ e[k - 1] = u /\ e[k] = v /\ u >= -1 /\ v = u + 1 + 2 * l /\ l >= 1 /\ v + 1 <= Len(a)
          /\ f[first + k] = l /\ a[u + 2] = AsFloat(v)
          /\ \A j \in 1 .. 2 * l : a[u + 2 + j] = Coordinate(first + k, j)
    BY <1>3
  <2>2. PICK l \in Nat :
          /\ e[k - 1] = u /\ e[k] = v /\ u >= -1 /\ v = u + 1 + 2 * l /\ l >= 1 /\ v + 1 <= Len(a)
          /\ f[first + k] = l /\ a[u + 2] = AsFloat(v)
          /\ \A j \in 1 .. 2 * l : a[u + 2 + j] = Coordinate(first + k, j)
    BY <2>1
  <2>3. k \in 1 .. n + 1
    BY <1>1
  <2>4. before(k) = u + 1 /\ ends[k] = v + 1
    BY <1>4, <1>6, <2>2, <2>3
  <2> HIDE DEF before
  <2>5. polygons[k] = [j \in 1 .. 2 * l |-> Coordinate(first + k, j)]
    BY <2>2 DEF PolygonOf
  <2>6. Len(polygons[k]) = 2 * l
    BY <2>5
  <2>7. SubSeq(a, u + 3, v + 1) = [j \in 1 .. 2 * l |-> a[u + 2 + j]]
    <3>1. SubSeq(a, u + 3, v + 1) = [j \in 1 .. 1 + (v + 1) - (u + 3) |-> a[j + (u + 3) - 1]]
      OBVIOUS
    <3>2. 1 + (v + 1) - (u + 3) = 2 * l
      BY <2>2
    <3>3. \A j \in 1 .. 2 * l : j + (u + 3) - 1 = u + 2 + j
      BY <2>2
    <3> QED
      BY <3>1, <3>2, <3>3
  <2>8. SubSeq(a, u + 3, v + 1) = polygons[k]
    BY <2>2, <2>5, <2>7
  <2>9. before(k) + 2 = u + 3 /\ before(k) + 1 = u + 2 /\ ends[k] - 1 = v
        /\ ends[k] = before(k) + 1 + 2 * l
    BY <2>2, <2>4
  <2> QED
    BY <2>2, <2>4, <2>6, <2>8, <2>9
<1>9. ends \in [DOMAIN polygons -> DOMAIN a]
  BY <1>1, <1>2, <1>5
<1>10. Len(a) = before(Len(polygons) + 1)
  BY <1>2, <1>7, Zenon
<1>11. \A k \in DOMAIN polygons :
         /\ ends[k] = before(k) + 1 + Len(polygons[k])
         /\ a[before(k) + 1] = AsFloat(ends[k] - 1)
         /\ SubSeq(a, before(k) + 2, ends[k]) = polygons[k]
  BY <1>2, <1>8, Zenon
<1> SUFFICES \E x \in [DOMAIN polygons -> DOMAIN a] :
      /\ Len(a) = IF Len(polygons) + 1 = 1 THEN 0 ELSE x[(Len(polygons) + 1) - 1]
      /\ \A k \in DOMAIN polygons :
           /\ x[k] = (IF k = 1 THEN 0 ELSE x[k - 1]) + 1 + Len(polygons[k])
           /\ a[(IF k = 1 THEN 0 ELSE x[k - 1]) + 1] = AsFloat(x[k] - 1)
           /\ SubSeq(a, (IF k = 1 THEN 0 ELSE x[k - 1]) + 2, x[k]) = polygons[k]
  BY DEF IsArrayOf
<1> WITNESS ends \in [DOMAIN polygons -> DOMAIN a]
<1> QED
  BY <1>10, <1>11

LEMMA KeptFollows == SizesAssumption /\ FloatAssumption /\ WireInv => ReadIsKept
<1> SUFFICES ASSUME SizesAssumption, FloatAssumption, WireInv PROVE ReadIsKept
  OBVIOUS
<1>1. PICK b \in Nat \ {0} : b = bunchSize
  BY DEF SizesAssumption
<1>2. PICK n \in Nat : n = Len(requests)
  BY DEF WireInv, ClientOK
<1>3. PICK k \in 0 .. b - 1 : polygonsRead = n * b + k /\ \E e : Laid(file, polygonArray, k, n * b, e)
  BY <1>1, <1>2 DEF WireInv, ClientOK
<1>4. PICK first \in Nat : first = n * b
  BY <1>1
<1>5. polygonsRead = first + k /\ polygonsRead \div b = n /\ polygonsRead % b = k
  <2>1. polygonsRead = b * n + k /\ polygonsRead \in Nat
    BY <1>3, <1>4
  <2> QED
    BY <1>3, <1>4, <2>1, Remainder
<1>6. IsArrayOf(polygonArray, [j \in 1 .. k |-> geomToArray(polygonsRead - k + j)])
  <2>1. PICK e : Laid(file, polygonArray, k, first, e)
    BY <1>3, <1>4
  <2>2. \A j \in 1 .. k : geomToArray(polygonsRead - k + j) = PolygonOf(file, first + j)
    <3>1. \A j \in 1 .. k : polygonsRead - k + j = first + j
      BY <1>5
    <3> QED
      BY <3>1 DEF geomToArray, PolygonOf
  <2>3. [j \in 1 .. k |-> geomToArray(polygonsRead - k + j)] = [j \in 1 .. k |-> PolygonOf(file, first + j)]
    BY <2>2
  <2> QED
    BY <2>1, <2>3, LaidIsArray
<1>7. ASSUME NEW r \in DOMAIN requests PROVE IsArrayOf(requests[r], Batch(r))
  <2>1. PICK e : Laid(file, requests[r], bunchSize, (r - 1) * bunchSize, e)
    <3>1. \A q \in 1 .. Len(requests) : \E e : Laid(file, requests[q], bunchSize, (q - 1) * bunchSize, e)
      BY DEF WireInv, ClientOK
    <3>2. requests \in Seq(Seq(Int))
      BY DEF WireInv, ClientOK
    <3>3. r \in 1 .. Len(requests)
      BY <3>2
    <3> QED
      BY <3>1, <3>3, Zenon
  <2>2. Batch(r) = [j \in 1 .. bunchSize |-> PolygonOf(file, (r - 1) * bunchSize + j)]
    BY DEF Batch, geomToArray, PolygonOf
  <2> QED
    BY <2>1, <2>2, LaidIsArray
<1> QED
  BY <1>1, <1>2, <1>5, <1>6, <1>7 DEF ReadIsKept

(***************************************************************************)
(* Host and DPU between them query each polygon of a request once, whole   *)
(* and in order, as long as its headers are exact: whatever the sizes of   *)
(* the polygons and of the requests, the part the DPU sends on, and what   *)
(* is read past the end of an array.                                       *)
(***************************************************************************)
THEOREM WholeBatchAlways == WireSpec => []WholeBatch
<1>1. WireInit => WireInv
  BY SizesAssumption, ArraysInit
<1>2. WireInv /\ [WireNext]_wireVars => WireInv'
  BY SizesAssumption, FloatAssumption, ArraysNext
<1>3. WireInv => WholeBatch
  BY SizesAssumption, FloatAssumption, WholeBatchFollows
<1> QED
  BY <1>1, <1>2, <1>3, PTL DEF WireSpec

(***************************************************************************)
(* The DPU's bounds-checked read throws only for a request with fewer      *)
(* polygons than it sends on, or one so long that a header was rounded.    *)
(***************************************************************************)
THEOREM ThrowsOnlyIfShortAlways == WireSpec => []ThrowsOnlyIfShort
<1>1. WireInit => WireInv
  BY SizesAssumption, ArraysInit
<1>2. WireInv /\ [WireNext]_wireVars => WireInv'
  BY SizesAssumption, FloatAssumption, ArraysNext
<1>3. WireInv => ThrowsOnlyIfShort
  BY SizesAssumption, FloatAssumption, ThrowsFollows
<1> QED
  BY <1>1, <1>2, <1>3, PTL DEF WireSpec

(***************************************************************************)
(* The requests are the arrays of the polygons the client has read, each   *)
(* once and in order, bunchSize to a request, and the array it builds is   *)
(* that of the rest, for any sizes of files, polygons and requests.        *)
(***************************************************************************)
THEOREM ReadIsKeptAlways == WireSpec => []ReadIsKept
<1>1. WireInit => WireInv
  BY SizesAssumption, ArraysInit
<1>2. WireInv /\ [WireNext]_wireVars => WireInv'
  BY SizesAssumption, FloatAssumption, ArraysNext
<1>3. WireInv => ReadIsKept
  BY SizesAssumption, FloatAssumption, KeptFollows
<1> QED
  BY <1>1, <1>2, <1>3, PTL DEF WireSpec
=============================================================================

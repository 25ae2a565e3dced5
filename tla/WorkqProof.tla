------------------------------ MODULE WorkqProof ------------------------------
(***************************************************************************)
(* Proofs about the work queue package, for every set of clients and items *)
(* and every parallelism: the life of the queue and of its servers, then   *)
(* the items, each served once, in order, by a server of its own; and of   *)
(* its program's statistics, which count every call of the engine once.    *)
(***************************************************************************)
EXTENDS WorkqMain, FiniteSetTheorems, FunctionTheorems, SequenceTheorems, TLAPS

(* The life of the queue, and what its counter counts: the servers, at     *)
(* most Parallelism of them.  After a destroy with servers left (clients   *)
(* not joined) the counter may stay too high.                              *)
Life ==
  /\ valid = WORKQ_VALID => mtx = "live"
  /\ dpc = "init" => mtx = "raw"
  /\ dpc = "up" /\ valid # WORKQ_VALID => mtx = "raw"
  /\ dpc \in {"lock", "sleep", "wake", "mutex"} => mtx = "live"
  /\ dpc \in {"sleep", "wake", "mutex"} => valid # WORKQ_VALID
  /\ mtx = "raw" => counter = 0 /\ queue = <<>> /\ Alive = {}
                    /\ \A c \in Clients : cpc[c] = "idle"
  /\ counter >= Cardinality(Alive)
  /\ mtx = "live" => counter = Cardinality(Alive)
  /\ counter <= Parallelism
  /\ \A s \in Servers : pc[s] = "work" => job[s] \in Items
  /\ \A c \in Clients : cpc[c] = "lock" => adds[c] \in 1 .. MaxAdds

Safe == TypeOK /\ Life

LEMMA AliveFinite == IsFiniteSet(Alive) /\ Cardinality(Alive) \in Nat
<1>1. Alive \in SUBSET Servers
  BY DEF Alive
<1> QED BY <1>1, WorkqAssumption, FS_Subset, FS_CardinalityType

(* One server more, and one less.                                          *)
LEMMA OneMore ==
  ASSUME NEW s, s \notin Alive, Alive' = Alive \cup {s}
  PROVE  Cardinality(Alive') = Cardinality(Alive) + 1
BY AliveFinite, FS_AddElement

LEMMA OneLess ==
  ASSUME NEW s \in Alive, Alive' = Alive \ {s}
  PROVE  Cardinality(Alive') = Cardinality(Alive) - 1 /\ Cardinality(Alive') \in Nat
BY AliveFinite, FS_RemoveElement, FS_CardinalityType

LEMMA InitSafe == Init => Safe
<1> SUFFICES ASSUME Init PROVE Safe
  OBVIOUS
<1>1. TypeOK
  BY WorkqAssumption DEF Init, TypeOK, NoItem
<1>2. Alive = {}
  BY DEF Init, Alive
<1>3. Life
  BY <1>2, FS_EmptySet, WorkqAssumption DEF Init, Life, WORKQ_VALID
<1> QED BY <1>1, <1>3 DEF Safe

(* What one server does with the mutex locked.                             *)
LEMMA ServerSection ==
  ASSUME Safe, NEW s \in Servers, pc[s] \in {"start", "wake", "back"}, mtx = "live",
         Take(s) \/ Sleep(s) \/ ShutDown(s) \/ Leave(s),
         timedout' \in [Servers -> {0, 1}],
         InServer
  PROVE  Safe'
<1> USE WorkqAssumption DEF Safe, InServer, clients, history
<1>1. s \in Alive
  BY DEF Alive
<1>2. CASE Take(s)
  <2>1. Head(queue) \in Items /\ Tail(queue) \in Seq(Items)
    BY <1>2, HeadTailProperties DEF Take, TypeOK
  <2>2. Alive' = Alive
    BY <1>2 DEF Take, Alive, TypeOK
  <2>3. TypeOK'
    BY <1>2, <2>1 DEF Take, TypeOK
  <2>4. Life'
    BY <1>2, <2>1, <2>2 DEF Take, Life, TypeOK
  <2> QED BY <2>3, <2>4
<1>3. CASE Sleep(s)
  <2>1. Alive' = Alive
    BY <1>3 DEF Sleep, Alive, TypeOK
  <2>2. TypeOK'
    BY <1>3 DEF Sleep, TypeOK
  <2>3. Life'
    BY <1>3, <2>1 DEF Sleep, Life, TypeOK
  <2> QED BY <2>2, <2>3
<1>4. CASE ShutDown(s) \/ Leave(s)
  <2>1. Alive' = Alive \ {s}
    BY <1>4 DEF ShutDown, Leave, Alive, TypeOK
  <2>2. counter' = Cardinality(Alive') /\ counter' \in Nat /\ counter' <= Parallelism
    <3>1. counter = Cardinality(Alive) /\ counter <= Parallelism
      BY DEF Life
    <3>2. counter' = counter - 1
      BY <1>4 DEF ShutDown, Leave
    <3>3. Cardinality(Alive') = Cardinality(Alive) - 1 /\ Cardinality(Alive') \in Nat
      BY <1>1, <2>1, OneLess
    <3> QED BY <3>1, <3>2, <3>3, AliveFinite
  <2>3. TypeOK'
    BY <1>4, <2>2 DEF ShutDown, Leave, TypeOK
  <2>4. Life'
    <3>1. \A r \in Servers : pc'[r] = "work" => job'[r] \in Items
      BY <1>4 DEF ShutDown, Leave, Life, TypeOK
    <3>2. dpc' = dpc \/ (dpc = "sleep" /\ dpc' = "wake")
      BY <1>4 DEF ShutDown, Leave
    <3>3. valid' = valid /\ mtx' = mtx /\ cpc' = cpc /\ adds' = adds
      OBVIOUS
    <3>4. mtx = "live" /\ dpc # "init" /\ (dpc = "up" => valid = WORKQ_VALID)
      BY DEF Life
    <3>5. counter' >= Cardinality(Alive')
      BY <2>2, AliveFinite
    <3>6. \A c \in Clients : cpc'[c] = "lock" => adds'[c] \in 1 .. MaxAdds
      BY <3>3 DEF Life
    <3>7. dpc \in {"sleep", "wake", "mutex"} => valid # WORKQ_VALID
      BY DEF Life
    <3> HIDE DEF Safe
    <3> QED BY <2>2, <3>1, <3>2, <3>3, <3>4, <3>5, <3>6, <3>7 DEF Life
  <2> QED BY <2>3, <2>4
<1> QED BY <1>2, <1>3, <1>4

(* Every step of the clients, the servers and the destroying thread keeps  *)
(* the types and the counter.                                              *)
LEMMA StepSafe == Safe /\ [Next]_vars => Safe'
<1> SUFFICES ASSUME Safe, [Next]_vars PROVE Safe'
  OBVIOUS
<1> USE WorkqAssumption DEF Safe, wq, servers, clients, destroyer, history,
      WORKQ_VALID, EINVAL, EBUSY, ENOMEM, EAGAIN
<1>1. ASSUME NEW c \in Clients, WorkqAdd(c) PROVE Safe'
  <2>1. Alive' = Alive
    BY <1>1 DEF WorkqAdd, Alive
  <2>2. TypeOK'
    <3>1. adds' \in [Clients -> 0..MaxAdds] /\ cpc' \in [Clients -> {"idle", "lock"}]
      <4>1. adds' = adds \/ (adds[c] < MaxAdds /\ adds' = [adds EXCEPT ![c] = @ + 1])
        BY <1>1 DEF WorkqAdd
      <4>2. adds' \in [Clients -> 0..MaxAdds]
        BY <4>1 DEF TypeOK
      <4>3. cpc' = [cpc EXCEPT ![c] = "idle"] \/ cpc' = [cpc EXCEPT ![c] = "lock"]
        BY <1>1 DEF WorkqAdd, AddReturns
      <4>4. cpc \in [Clients -> {"idle", "lock"}]
        BY DEF TypeOK
      <4>5. cpc' \in [Clients -> {"idle", "lock"}]
        <5> HIDE DEF Safe
        <5> QED BY <4>3, <4>4
      <4> QED BY <4>2, <4>5
    <3>2. status' \in [Clients -> {0, EINVAL, ENOMEM, EAGAIN}]
      <4>1. \/ status' = status
            \/ \E e \in {EINVAL, ENOMEM} : status' = [status EXCEPT ![c] = e]
        BY <1>1 DEF WorkqAdd, AddReturns
      <4>2. status \in [Clients -> {0, EINVAL, ENOMEM, EAGAIN}]
        BY DEF TypeOK
      <4> HIDE DEF Safe
      <4> QED BY <4>1, <4>2
    <3> QED BY <1>1, <3>1, <3>2 DEF WorkqAdd, TypeOK
  <2>3. Life'
    BY <1>1, <2>1 DEF WorkqAdd, AddReturns, Life, TypeOK
  <2> QED BY <2>2, <2>3
<1>2. ASSUME NEW c \in Clients, AddLockFailed(c) PROVE Safe'
  <2>1. Alive' = Alive
    BY <1>2 DEF AddLockFailed, Alive
  <2> QED BY <1>2, <2>1 DEF AddLockFailed, AddReturns, Life, TypeOK
<1>3. ASSUME NEW c \in Clients, Enqueue(c) \/ EnqueueNoThread(c) PROVE Safe'
  <2>1. /\ mtx = "live" /\ mtx' = "live"
        /\ queue' = Append(queue, <<c, adds[c]>>) /\ <<c, adds[c]>> \in Items
    <3>1. mtx = "live" /\ mtx' = "live" /\ queue' = Append(queue, <<c, adds[c]>>)
      BY <1>3 DEF Enqueue, EnqueueNoThread
    <3>2. adds[c] \in 1 .. MaxAdds
      BY <1>3 DEF Enqueue, EnqueueNoThread, Life
    <3> QED BY <3>1, <3>2 DEF Items
  <2>2. queue' \in Seq(Items)
    BY <2>1, AppendProperties DEF TypeOK
  <2>3. cpc' \in [Clients -> {"idle", "lock"}] /\ accepted' \subseteq Items
    <3>1. accepted' = accepted \/ accepted' = accepted \cup {<<c, adds[c]>>}
      BY <1>3 DEF Enqueue, EnqueueNoThread
    <3>2. cpc' = [cpc EXCEPT ![c] = "idle"]
      BY <1>3 DEF Enqueue, EnqueueNoThread, AddReturns
    <3>3. cpc \in [Clients -> {"idle", "lock"}] /\ accepted \subseteq Items
      BY DEF TypeOK
    <3>4. <<c, adds[c]>> \in Items
      BY <2>1
    <3> HIDE DEF Safe
    <3> QED BY <3>1, <3>2, <3>3, <3>4
  <2>4. status' \in [Clients -> {0, EINVAL, ENOMEM, EAGAIN}]
    <3>1. \E e \in {0, EAGAIN} : status' = [status EXCEPT ![c] = e]
      BY <1>3 DEF Enqueue, EnqueueNoThread, AddReturns
    <3> QED BY <3>1 DEF TypeOK
  <2>5. UNCHANGED <<valid, quit, mtx, timedout, job, adds, destroyer, finished>>
    BY <1>3 DEF Enqueue, EnqueueNoThread
  <2>6. CASE UNCHANGED <<pc, counter>>
    <3>1. Alive' = Alive
      BY <2>6 DEF Alive
    <3>2. TypeOK'
      BY <2>2, <2>6, <2>3, <2>4, <2>5 DEF TypeOK
    <3>3. Life'
      BY <1>3, <2>1, <2>6, <3>1 DEF Enqueue, EnqueueNoThread, AddReturns, Life, TypeOK
    <3> QED BY <3>2, <3>3
  <2>7. CASE Enqueue(c) /\ counter < Parallelism /\ CreateServer
    <3>1. PICK s \in Servers : pc[s] = "none" /\ pc' = [pc EXCEPT ![s] = "start"]
      BY <2>7 DEF CreateServer
    <3>2. s \notin Alive /\ Alive' = Alive \cup {s}
      BY <3>1 DEF Alive, TypeOK
    <3>3. counter' = Cardinality(Alive') /\ counter' \in Nat /\ counter' <= Parallelism
      <4>1. counter = Cardinality(Alive) /\ counter < Parallelism /\ counter' = counter + 1
        BY <2>1, <2>7 DEF CreateServer, Life
      <4>2. Cardinality(Alive') = Cardinality(Alive) + 1
        BY <3>2, OneMore
      <4> HIDE DEF Safe
      <4> QED BY <4>1, <4>2, AliveFinite
    <3>4. TypeOK'
      <4>1. pc' \in [Servers -> {"none", "start", "sleep", "wake", "work", "back"}]
        BY <3>1 DEF TypeOK
      <4> QED BY <2>2, <2>3, <2>4, <2>5, <3>3, <4>1 DEF TypeOK
    <3>5. Life'
      BY <2>1, <2>7, <3>1, <3>3 DEF Enqueue, AddReturns, Life, TypeOK
    <3> QED BY <3>4, <3>5
  <2> QED BY <1>3, <2>6, <2>7 DEF Enqueue, EnqueueNoThread, idle, servers
<1>4. ASSUME NEW s \in Servers, ServerStart(s) PROVE Safe'
  BY <1>4, ServerSection DEF ServerStart, ClearTimeout, TypeOK
<1>5. ASSUME NEW s \in Servers, ServerWoken(s) PROVE Safe'
  BY <1>5, ServerSection DEF ServerWoken, TypeOK
<1>6. ASSUME NEW s \in Servers, ServerBack(s) PROVE Safe'
  <2>1. pc[s] \in {"start", "wake", "back"} /\ mtx = "live" /\ InServer
    BY <1>6 DEF ServerBack
  <2>2. Take(s) \/ Sleep(s) \/ ShutDown(s) \/ Leave(s)
    BY <1>6 DEF ServerBack
  <2>3. timedout' = timedout \/ ClearTimeout(s)
    BY <1>6 DEF ServerBack
  <2>4. timedout' \in [Servers -> {0, 1}]
    BY <2>3 DEF ClearTimeout, TypeOK
  <2> QED BY <2>1, <2>2, <2>4, ServerSection
<1>7. ASSUME NEW s \in Servers, Engine(s) PROVE Safe'
  <2>1. Alive' = Alive
    BY <1>7 DEF Engine, Alive, TypeOK
  <2>2. job[s] \in Items
    BY <1>7 DEF Engine, Life
  <2>3. TypeOK'
    BY <1>7, <2>2 DEF Engine, TypeOK
  <2>4. Life'
    BY <1>7, <2>1 DEF Engine, Life, TypeOK
  <2> QED BY <2>3, <2>4
<1>8. ASSUME NEW s \in Servers, Timeout(s) \/ SpuriousWakeup(s) PROVE Safe'
  <2>1. Alive' = Alive
    BY <1>8 DEF Timeout, SpuriousWakeup, Alive, TypeOK
  <2>2. TypeOK'
    <3>1. /\ timedout' = timedout \/ timedout' = [timedout EXCEPT ![s] = 1]
          /\ pc' = [pc EXCEPT ![s] = "wake"]
          /\ UNCHANGED <<wq, job, clients, destroyer, history>>
      BY <1>8 DEF Timeout, SpuriousWakeup
    <3>2. timedout' \in [Servers -> {0, 1}]
      BY <3>1 DEF TypeOK
    <3>3. pc' \in [Servers -> {"none", "start", "sleep", "wake", "work", "back"}]
      BY <3>1 DEF TypeOK
    <3> QED BY <3>1, <3>2, <3>3 DEF TypeOK
  <2>3. Life'
    BY <1>8, <2>1 DEF Timeout, SpuriousWakeup, Life, TypeOK
  <2> QED BY <2>2, <2>3
<1>9. ASSUME NEW s \in Servers, ServerLockFailed(s) PROVE Safe'
  <2>1. s \in Alive /\ Alive' = Alive \ {s}
    BY <1>9 DEF ServerLockFailed, Alive, TypeOK
  <2>2. counter' >= Cardinality(Alive') /\ counter' \in Nat /\ counter' <= Parallelism
    <3>1. counter >= Cardinality(Alive) /\ counter <= Parallelism /\ counter \in Nat
      BY DEF Life, TypeOK
    <3>2. counter' = counter - 1 \/ counter' = counter
      BY <1>9 DEF ServerLockFailed
    <3>3. Cardinality(Alive') = Cardinality(Alive) - 1 /\ Cardinality(Alive') \in Nat
      BY <2>1, OneLess
    <3> HIDE DEF Safe
    <3> QED BY <3>1, <3>2, <3>3, AliveFinite
  <2>3. TypeOK'
    BY <1>9, <2>2 DEF ServerLockFailed, TypeOK
  <2>4. Life'
    BY <1>9, <2>2 DEF ServerLockFailed, Life, TypeOK
  <2> QED BY <2>3, <2>4
<1>10. CASE WorkqInit
  <2>1. Alive' = Alive
    BY <1>10 DEF WorkqInit, Alive
  <2>2. TypeOK'
    BY <1>10 DEF WorkqInit, TypeOK
  <2>3. mtx = "raw" /\ counter = 0 /\ Cardinality(Alive) = 0 /\ counter' = 0
    <3>1. mtx = "raw" /\ counter = 0 /\ Alive = {} /\ counter' = counter
      BY <1>10 DEF WorkqInit, Life
    <3> HIDE DEF Safe
    <3> QED BY <3>1, FS_EmptySet
  <2>4. Life'
    BY <1>10, <2>1, <2>3 DEF WorkqInit, Life
  <2> QED BY <2>2, <2>4
<1>11. CASE DestroyLocked
  <2>1. Alive' = Alive
    BY <1>11 DEF DestroyLocked, Alive, idle, TypeOK
  <2>2. TypeOK'
    BY <1>11 DEF DestroyLocked, idle, TypeOK
  <2>3. Life'
    BY <1>11, <2>1 DEF DestroyLocked, Life, idle, TypeOK
  <2> QED BY <2>2, <2>3
<1>12. CASE WorkqDestroy \/ DestroyWoken \/ DestroySpurious \/ DestroyMutex \/ DestroyCond
  <2>1. Alive' = Alive
    BY <1>12 DEF WorkqDestroy, DestroyWoken, DestroySpurious, DestroyMutex, DestroyCond, Alive
  <2>2. TypeOK'
    BY <1>12 DEF WorkqDestroy, DestroyWoken, DestroySpurious, DestroyMutex, DestroyCond, TypeOK
  <2>3. Life'
    <3>1. CASE WorkqDestroy
      BY <2>1, <3>1 DEF WorkqDestroy, Life, TypeOK
    <3>2. CASE DestroyWoken \/ DestroySpurious
      BY <2>1, <3>2 DEF DestroyWoken, DestroySpurious, Life, TypeOK
    <3>3. CASE DestroyMutex
      BY <2>1, <3>3 DEF DestroyMutex, Life, TypeOK
    <3>4. CASE DestroyCond
      BY <2>1, <3>4 DEF DestroyCond, Life, TypeOK
    <3> QED BY <1>12, <3>1, <3>2, <3>3, <3>4
  <2> QED BY <2>2, <2>3
<1>13. CASE UNCHANGED vars
  <2>1. Alive' = Alive
    BY <1>13 DEF vars, Alive
  <2> QED BY <1>13, <2>1 DEF vars, TypeOK, Life
<1> QED
  BY <1>1, <1>2, <1>3, <1>4, <1>5, <1>6, <1>7, <1>8, <1>9, <1>10, <1>11,
     <1>12, <1>13 DEF Next, ClientStep, ServerStep, MainStep, Terminated

(* Every variable of the work queue keeps its type.                        *)
THEOREM WorkqTypes == Spec => []TypeOK
<1>1. Safe => TypeOK
  BY DEF Safe
<1> QED BY InitSafe, StepSafe, <1>1, PTL DEF Spec

(* While the queue lives, its counter is the number of server threads, and *)
(* there are never more than Parallelism.                                  *)
THEOREM WorkqCounterCounts == Spec => []CounterCounts
<1>1. Safe => CounterCounts
  <2>1. ASSUME Safe, mtx = "raw" PROVE counter = Cardinality(Alive)
    BY <2>1, FS_EmptySet DEF Safe, Life
  <2> QED BY <2>1 DEF Safe, TypeOK, Life, CounterCounts
<1> QED BY InitSafe, StepSafe, <1>1, PTL DEF Spec

-----------------------------------------------------------------------------
(* With the clients joined, the run-down leaves no server behind.          *)
RunDown ==
  /\ dpc \notin {"init", "up"} => \A c \in Clients : cpc[c] = "idle"
  /\ dpc \in {"mutex", "cond", "done"} => Alive = {}
  /\ mtx = "dead" => dpc \in {"cond", "done"}

LEMMA StepRunDown ==
  ASSUME JoinFirst, Safe, RunDown, [Next]_vars
  PROVE  RunDown'
<1> USE WorkqAssumption DEF Safe, wq, servers, clients, destroyer, history, InServer
<1>0. dpc \in {"mutex", "cond", "done"} => \A s \in Servers : pc[s] = "none"
  BY DEF RunDown, Alive
<1>1. ASSUME NEW c \in Clients, WorkqAdd(c) \/ ClientStep(c) PROVE RunDown'
  <2>1. dpc = "up" \/ dpc = "init"
    BY <1>1 DEF WorkqAdd, ClientStep, AddLockFailed, Enqueue, EnqueueNoThread, RunDown
  <2> QED BY <1>1, <2>1
      DEF WorkqAdd, ClientStep, AddLockFailed, Enqueue, EnqueueNoThread, RunDown
<1>2. ASSUME NEW s \in Servers, ServerStart(s) \/ ServerWoken(s) \/ ServerBack(s)
      PROVE  RunDown'
  <2>1. dpc \notin {"mutex", "cond", "done"} /\ mtx = "live"
    BY <1>0, <1>2 DEF ServerStart, ServerWoken, ServerBack
  <2>2. dpc' = dpc \/ (dpc = "sleep" /\ dpc' = "wake")
    BY <1>2 DEF ServerStart, ServerWoken, ServerBack, Take, Sleep, ShutDown, Leave
  <2> QED BY <1>2, <2>1, <2>2 DEF ServerStart, ServerWoken, ServerBack, RunDown
<1>3. ASSUME NEW s \in Servers, Engine(s) \/ Timeout(s) \/ SpuriousWakeup(s) \/ ServerLockFailed(s)
      PROVE  RunDown'
  <2>1. pc[s] # "none"
    BY <1>3 DEF Engine, Timeout, SpuriousWakeup, ServerLockFailed
  <2>2. dpc \notin {"mutex", "cond", "done"}
    BY <1>0, <2>1
  <2> QED BY <1>3, <2>2 DEF Engine, Timeout, SpuriousWakeup, ServerLockFailed, RunDown
<1>4. CASE WorkqInit \/ WorkqDestroy
  <2>1. Alive' = Alive
    BY <1>4 DEF WorkqInit, WorkqDestroy, Alive
  <2> QED BY <1>4, <2>1 DEF WorkqInit, WorkqDestroy, Finished, Life, RunDown
<1>5. CASE DestroyLocked \/ DestroyWoken
  <2>1. dpc' = "mutex" => Alive' = Alive /\ counter = 0
    BY <1>5 DEF DestroyLocked, DestroyWoken, Alive, TypeOK
  <2>2. mtx = "live" /\ counter = Cardinality(Alive)
    BY <1>5 DEF DestroyLocked, DestroyWoken, Life
  <2>3. counter = 0 => Alive = {}
    BY <2>2, AliveFinite, FS_EmptySet
  <2> QED BY <1>5, <2>1, <2>2, <2>3 DEF DestroyLocked, DestroyWoken, RunDown
<1>6. CASE DestroySpurious \/ DestroyMutex \/ DestroyCond \/ UNCHANGED vars
  <2>1. Alive' = Alive
    BY <1>6 DEF DestroySpurious, DestroyMutex, DestroyCond, vars, Alive
  <2> QED BY <1>6, <2>1 DEF DestroySpurious, DestroyMutex, DestroyCond, vars, RunDown
<1> QED
  BY <1>1, <1>2, <1>3, <1>4, <1>5, <1>6 DEF Next, ServerStep, MainStep, Terminated

(* When the clients are joined first, workq_destroy destroys the mutex and *)
(* the condition variable only after the last server thread has left.      *)
THEOREM WorkqQuietDestroy ==
  ASSUME JoinFirst
  PROVE  Spec => []QuietDestroy
<1>1. Init => RunDown
  BY DEF Init, RunDown
<1>2. Safe /\ RunDown /\ [Next]_vars => Safe' /\ RunDown'
  BY StepSafe, StepRunDown
<1>3. RunDown => QuietDestroy
  BY DEF RunDown, QuietDestroy
<1> QED BY InitSafe, <1>1, <1>2, <1>3, PTL DEF Spec
-----------------------------------------------------------------------------
(***************************************************************************)
(* The items.                                                              *)
(***************************************************************************)

Queued(i) == {n \in DOMAIN queue : queue[n] = i}
Running == {s \in Servers : pc[s] = "work"}
Working(i) == {s \in Servers : pc[s] = "work" /\ job[s] = i}
Places(i) == Cardinality(Queued(i)) + Cardinality(Working(i)) + finished[i]

(* The names of items that no client has added yet.                        *)
Fresh(i) == i[2] > adds[i[1]] \/ (i[2] = adds[i[1]] /\ cpc[i[1]] = "lock")

Placed ==
  \A i \in Items : /\ i \in accepted => ~Fresh(i) /\ Places(i) = 1
                   /\ Fresh(i) => Places(i) = 0
                   /\ Places(i) <= 1

(***************************************************************************)
(* Everything a step may do to the items.                                  *)
(***************************************************************************)
Fresher == \A i \in Items : Fresh(i)' => Fresh(i)

Quiet ==
  /\ queue' = queue /\ Running' = Running /\ job' = job /\ finished' = finished
  /\ accepted' = accepted /\ Fresher
  /\ mtx # "dead" /\ Alive' = {} => Alive = {} \/ queue = <<>>

Adds(i) ==
  /\ queue' = Append(queue, i) /\ Running' = Running /\ job' = job /\ finished' = finished
  /\ accepted' \in {accepted, accepted \cup {i}}
  /\ Fresh(i) /\ ~Fresh(i)' /\ Fresher
  /\ Alive' # {} \/ (accepted' = accepted /\ Alive' = Alive)

Takes(s) ==
  /\ queue # <<>> /\ queue' = Tail(queue) /\ mtx = "live"
  /\ s \in Alive \ Running /\ Running' = Running \cup {s} /\ s \in Alive'
  /\ job' = [job EXCEPT ![s] = Head(queue)] /\ finished' = finished
  /\ accepted' = accepted /\ Fresher

Finishes(s) ==
  /\ queue' = queue /\ s \in Running /\ Running' = Running \ {s} /\ s \in Alive'
  /\ job' = job /\ finished' = [finished EXCEPT ![job[s]] = @ + 1]
  /\ accepted' = accepted /\ Fresher

Kinds ==
  \/ Quiet \/ (\E i \in Items : Adds(i))
  \/ (\E s \in Servers : Takes(s) \/ Finishes(s))

LEMMA SameFresh == ASSUME adds' = adds, cpc' = cpc PROVE Fresher
BY DEF Fresher, Fresh

(* A client that returns leaves no item fresh, and one that calls only the *)
(* next of those that were.                                                *)
LEMMA ClientFresh ==
  ASSUME TypeOK, NEW c \in Clients, NEW p \in {"idle", "lock"}, cpc' = [cpc EXCEPT ![c] = p],
         \/ adds' = adds /\ p = "idle"
         \/ adds' = [adds EXCEPT ![c] = @ + 1]
  PROVE  Fresher
<1> SUFFICES ASSUME NEW i \in Items, Fresh(i)' PROVE Fresh(i)
  BY DEF Fresher
<1>1. i[1] \in Clients /\ i[2] \in Nat /\ adds[i[1]] \in Nat
  BY WorkqAssumption DEF Items, TypeOK
<1>2. cpc \in [Clients -> {"idle", "lock"}] /\ adds \in [Clients -> 0 .. MaxAdds]
  BY DEF TypeOK
<1>3. CASE i[1] = c
  <2>1. CASE adds' = adds /\ p = "idle"
    BY <2>1, <1>1, <1>2, <1>3 DEF Fresh
  <2>2. CASE adds' = [adds EXCEPT ![c] = @ + 1]
    <3>1. adds'[i[1]] = adds[i[1]] + 1
      BY <2>2, <1>2, <1>3
    <3> QED BY <3>1, <1>1 DEF Fresh
  <2> QED BY <2>1, <2>2
<1>4. CASE i[1] # c
  BY <1>1, <1>2, <1>4 DEF Fresh
<1> QED BY <1>3, <1>4

(* The servers that work are the same, and nobody leaves items behind.     *)
LEMMA QuietStep ==
  ASSUME queue' = queue, job' = job, UNCHANGED history, adds' = adds, cpc' = cpc,
         \A s \in Servers : pc'[s] = "work" <=> pc[s] = "work",
         mtx # "dead" /\ Alive' = {} => Alive = {} \/ queue = <<>>
  PROVE  Kinds
<1>1. Running' = Running
  BY DEF Running
<1> QED BY <1>1, SameFresh DEF Kinds, Quiet, history

LEMMA SectionKinds ==
  ASSUME Safe, NEW s \in Servers, pc[s] \in {"start", "wake", "back"}, mtx = "live",
         Take(s) \/ Sleep(s) \/ ShutDown(s) \/ Leave(s), InServer
  PROVE  Kinds
<1>1. pc \in [Servers -> {"none", "start", "sleep", "wake", "work", "back"}]
      /\ job \in [Servers -> Items \cup {NoItem}]
  BY DEF Safe, TypeOK
<1>2. CASE Take(s)
  <2>1. Running' = Running \cup {s} /\ s \in Alive \ Running /\ s \in Alive'
    BY <1>1, <1>2 DEF Take, Running, Alive
  <2>2. Fresher
    BY SameFresh DEF InServer, clients
  <2>3. Takes(s)
    BY <2>1, <2>2, <1>2 DEF Take, Takes, InServer, history
  <2> QED BY <2>3 DEF Kinds
<1>3. CASE Sleep(s)
  <2>1. \A r \in Servers : pc'[r] = "work" <=> pc[r] = "work"
    BY <1>1, <1>3 DEF Sleep
  <2> QED BY <2>1, <1>3, QuietStep DEF Sleep, InServer, clients, history
<1>4. CASE ShutDown(s) \/ Leave(s)
  <2>1. \A r \in Servers : pc'[r] = "work" <=> pc[r] = "work"
    BY <1>1, <1>4 DEF ShutDown, Leave
  <2>2. queue = <<>> /\ queue' = queue /\ job' = job
    BY <1>4 DEF ShutDown, Leave
  <2> QED BY <2>1, <2>2, QuietStep DEF InServer, clients
<1> QED BY <1>2, <1>3, <1>4

LEMMA StepKinds ==
  ASSUME Safe, [Next]_vars
  PROVE  Kinds
<1>0. /\ pc \in [Servers -> {"none", "start", "sleep", "wake", "work", "back"}]
      /\ job \in [Servers -> Items \cup {NoItem}]
      /\ cpc \in [Clients -> {"idle", "lock"}] /\ adds \in [Clients -> 0 .. MaxAdds]
  BY DEF Safe, TypeOK
<1>1. ASSUME NEW c \in Clients, WorkqAdd(c) \/ AddLockFailed(c) PROVE Kinds
  <2>1. UNCHANGED <<wq, servers, history>>
    BY <1>1 DEF WorkqAdd, AddLockFailed, destroyer
  <2>2. Fresher
    <3>1. CASE WorkqAdd(c)
      <4>1. \/ adds' = adds /\ cpc' = [cpc EXCEPT ![c] = "idle"]
            \/ adds' = [adds EXCEPT ![c] = @ + 1] /\ cpc' = [cpc EXCEPT ![c] = "lock"]
        BY <3>1 DEF WorkqAdd, AddReturns
      <4> QED BY <4>1, ClientFresh DEF Safe
    <3>2. CASE AddLockFailed(c)
      BY <3>2, ClientFresh DEF AddLockFailed, AddReturns, Safe
    <3> QED BY <1>1, <3>1, <3>2
  <2>3. Running' = Running /\ Alive' = Alive
    BY <2>1 DEF servers, Running, Alive
  <2> QED BY <2>1, <2>2, <2>3 DEF Kinds, Quiet, wq, servers, history
<1>2. ASSUME NEW c \in Clients, Enqueue(c) \/ EnqueueNoThread(c) PROVE Kinds
  <2> DEFINE i == <<c, adds[c]>>
  <2>1. /\ queue' = Append(queue, i) /\ job' = job /\ finished' = finished /\ adds' = adds
        /\ accepted' \in {accepted, accepted \cup {i}} /\ cpc[c] = "lock" /\ mtx = "live"
        /\ cpc' = [cpc EXCEPT ![c] = "idle"]
    BY <1>2 DEF Enqueue, EnqueueNoThread, AddReturns, servers, history
  <2>2. i \in Items
    BY <2>1 DEF Items, Safe, Life
  <2>3. Fresher
    BY <2>1, ClientFresh DEF Safe
  <2>4. Fresh(i) /\ ~Fresh(i)'
    BY <2>1, <2>2, <1>0 DEF Fresh
  <2>5. CASE UNCHANGED pc
    <3>1. Running' = Running /\ Alive' = Alive
      BY <2>5 DEF Running, Alive
    <3>2. Alive' # {} \/ accepted' = accepted
      <4>1. CASE EnqueueNoThread(c)
        BY <4>1 DEF EnqueueNoThread, history
      <4>2. CASE Enqueue(c)
        <5>1. counter >= Parallelism
          <6>1. counter < Parallelism => \E s \in Servers : pc[s] = "none" /\ pc'[s] = "start"
            BY <4>2, <1>0 DEF Enqueue, CreateServer, idle
          <6> QED BY <6>1, <2>5, WorkqAssumption DEF Safe, TypeOK
        <5>2. counter = Cardinality(Alive) /\ counter # 0
          BY <5>1, <2>1, WorkqAssumption DEF Safe, Life, TypeOK
        <5>3. Alive # {}
          BY <5>2, FS_EmptySet
        <5> QED BY <5>3, <3>1
      <4> QED BY <1>2, <4>1, <4>2
    <3> QED BY <2>1, <2>2, <2>3, <2>4, <3>1, <3>2 DEF Kinds, Adds
  <2>6. CASE \E s \in Servers : pc[s] = "none" /\ pc' = [pc EXCEPT ![s] = "start"]
    <3>1. PICK s \in Servers : pc[s] = "none" /\ pc' = [pc EXCEPT ![s] = "start"]
      BY <2>6
    <3>2. Running' = Running /\ s \in Alive'
      BY <3>1, <1>0 DEF Running, Alive
    <3> QED BY <2>1, <2>2, <2>3, <2>4, <3>2 DEF Kinds, Adds
  <2> QED BY <1>2, <2>5, <2>6 DEF Enqueue, EnqueueNoThread, CreateServer, idle, servers
<1>3. ASSUME NEW s \in Servers, ServerStart(s) \/ ServerWoken(s) \/ ServerBack(s) PROVE Kinds
  <2>1. /\ pc[s] \in {"start", "wake", "back"} /\ mtx = "live" /\ InServer
        /\ Take(s) \/ Sleep(s) \/ ShutDown(s) \/ Leave(s)
    BY <1>3 DEF ServerStart, ServerWoken, ServerBack
  <2> QED BY <2>1, SectionKinds
<1>4. ASSUME NEW s \in Servers, Engine(s) PROVE Kinds
  <2>1. /\ s \in Running /\ Running' = Running \ {s} /\ s \in Alive'
    BY <1>4, <1>0 DEF Engine, Running, Alive
  <2>2. Fresher
    BY <1>4, SameFresh DEF Engine, clients
  <2>3. Finishes(s)
    BY <2>1, <2>2, <1>4 DEF Engine, Finishes, wq
  <2> QED BY <2>3 DEF Kinds
<1>5. ASSUME NEW s \in Servers, Timeout(s) \/ SpuriousWakeup(s) PROVE Kinds
  <2>1. pc[s] = "sleep" /\ pc' = [pc EXCEPT ![s] = "wake"] /\ UNCHANGED <<wq, job, clients, history>>
    BY <1>5 DEF Timeout, SpuriousWakeup
  <2>2. (\A r \in Servers : pc'[r] = "work" <=> pc[r] = "work") /\ s \in Alive'
    BY <2>1, <1>0 DEF Alive
  <2> QED BY <2>1, <2>2, QuietStep DEF wq, clients
<1>6. ASSUME NEW s \in Servers, ServerLockFailed(s) PROVE Kinds
  <2>1. /\ mtx = "dead" /\ queue' = queue
        /\ pc[s] # "work" /\ pc' = [pc EXCEPT ![s] = "none"] /\ UNCHANGED <<job, clients, history>>
    BY <1>6 DEF ServerLockFailed
  <2>2. \A r \in Servers : pc'[r] = "work" <=> pc[r] = "work"
    BY <2>1, <1>0
  <2> QED BY <2>1, <2>2, QuietStep DEF clients
<1>7. CASE DestroyLocked
  <2>1. UNCHANGED <<queue, job, clients, history>>
    BY <1>7 DEF DestroyLocked
  <2>2. pc' = pc
    BY <1>7, <1>0 DEF DestroyLocked, idle
  <2> QED BY <2>1, <2>2, QuietStep DEF clients, Alive
<1>8. CASE WorkqInit \/ WorkqDestroy \/ DestroyWoken \/ DestroySpurious \/ DestroyMutex
             \/ DestroyCond \/ UNCHANGED vars
  <2>1. UNCHANGED <<queue, servers, clients, history>>
    BY <1>8 DEF WorkqInit, WorkqDestroy, DestroyWoken, DestroySpurious, DestroyMutex, DestroyCond,
                vars, wq
  <2> QED BY <2>1, QuietStep DEF servers, clients, Alive
<1> QED BY <1>1, <1>2, <1>3, <1>4, <1>5, <1>6, <1>7, <1>8
        DEF Next, ClientStep, ServerStep, MainStep, Terminated

(***************************************************************************)
(* Where the items are.                                                    *)
(***************************************************************************)
LEMMA Finite ==
  ASSUME TypeOK, NEW i
  PROVE  /\ IsFiniteSet(Queued(i)) /\ Cardinality(Queued(i)) \in Nat
         /\ IsFiniteSet(Working(i)) /\ Cardinality(Working(i)) \in Nat
         /\ IsFiniteSet(Running) /\ Cardinality(Running) \in Nat
<1>1. IsFiniteSet(1 .. Len(queue)) /\ DOMAIN queue = 1 .. Len(queue)
  BY FS_Interval DEF TypeOK
<1>2. Queued(i) \subseteq 1 .. Len(queue) /\ Working(i) \subseteq Servers /\ Running \subseteq Servers
  BY <1>1 DEF Queued, Working, Running
<1> QED BY <1>1, <1>2, WorkqAssumption, FS_Subset, FS_CardinalityType

LEMMA Appended ==
  ASSUME TypeOK, NEW i \in Items, queue' = Append(queue, i)
  PROVE  /\ Cardinality(Queued(i)') = Cardinality(Queued(i)) + 1
         /\ \A j : j # i => Queued(j)' = Queued(j)
<1> DEFINE N == Len(queue)
<1>1. /\ N \in Nat /\ DOMAIN queue = 1 .. N /\ DOMAIN queue' = 1 .. N + 1
      /\ queue'[N + 1] = i /\ \A n \in 1 .. N : queue'[n] = queue[n]
  BY DEF TypeOK
<1> HIDE DEF N
<1>2. N + 1 \notin 1 .. N /\ 1 .. N + 1 = (1 .. N) \cup {N + 1}
  BY <1>1
<1>3. Queued(i)' = Queued(i) \cup {N + 1} /\ N + 1 \notin Queued(i)
  BY <1>1, <1>2 DEF Queued
<1>4. Cardinality(Queued(i) \cup {N + 1}) = Cardinality(Queued(i)) + 1
  BY <1>3, Finite, FS_AddElement
<1>5. \A j : j # i => Queued(j)' = Queued(j)
  BY <1>1, <1>2 DEF Queued
<1> QED BY <1>3, <1>4, <1>5

LEMMA Taken ==
  ASSUME TypeOK, queue # <<>>, queue' = Tail(queue), NEW i
  PROVE  Cardinality(Queued(i)') =
           Cardinality(Queued(i)) - (IF i = Head(queue) THEN 1 ELSE 0)
<1> DEFINE N == Len(queue)
<1>1. /\ N \in Nat \ {0} /\ DOMAIN queue = 1 .. N /\ queue[1] = Head(queue)
      /\ DOMAIN queue' = 1 .. N - 1 /\ \A n \in 1 .. N - 1 : queue'[n] = queue[n + 1]
  <2>1. queue \in Seq(Items)
    BY DEF TypeOK
  <2>2. Len(queue') = N - 1 /\ queue' \in Seq(Items)
    BY <2>1, HeadTailProperties
  <2>3. \A n \in 1 .. N - 1 : queue'[n] = queue[n + 1]
    BY <2>1, <2>2, HeadTailProperties
  <2> QED BY <2>1, <2>2, <2>3
<1> HIDE DEF N
<1> DEFINE rest == Queued(i) \ {1}
           f == [n \in rest |-> n - 1]
<1>2. \A n \in rest : n \in 2 .. N /\ n - 1 \in 1 .. N - 1 /\ queue[n] = i /\ (n - 1) + 1 = n
  BY <1>1 DEF Queued
<1>3. \A n \in Queued(i)' : n \in 1 .. N - 1 /\ n + 1 \in rest /\ (n + 1) - 1 = n
  <2> TAKE n \in Queued(i)'
  <2>1. n \in 1 .. N - 1 /\ queue[n + 1] = i
    BY <1>1 DEF Queued
  <2>2. n + 1 \in 1 .. N /\ n + 1 # 1 /\ (n + 1) - 1 = n
    BY <2>1, <1>1
  <2> QED BY <2>1, <2>2, <1>1 DEF Queued
<1>4. f \in [rest -> Queued(i)']
  <2>1. \A n \in rest : n - 1 \in Queued(i)'
    <3> TAKE n \in rest
    <3>1. n - 1 \in 1 .. N - 1 /\ queue'[n - 1] = i
      BY <1>1, <1>2
    <3> QED BY <3>1, <1>1 DEF Queued
  <2> QED BY <2>1
<1>5. \A m, n \in rest : f[m] = f[n] => m = n
  <2> TAKE m, n \in rest
  <2>1. m \in Int /\ n \in Int /\ f[m] = m - 1 /\ f[n] = n - 1
    BY <1>2
  <2> QED BY <2>1
<1>6. \A n \in Queued(i)' : \E m \in rest : f[m] = n
  BY <1>3
<1> HIDE DEF f, rest
<1>7. ExistsBijection(rest, Queued(i)')
  <2>1. f \in Bijection(rest, Queued(i)')
    BY <1>4, <1>5, <1>6, Fun_IsBij
  <2> QED BY <2>1 DEF ExistsBijection
<1>8. /\ IsFiniteSet(rest)
      /\ Cardinality(rest) = IF 1 \in Queued(i) THEN Cardinality(Queued(i)) - 1
                             ELSE Cardinality(Queued(i))
  BY Finite, FS_RemoveElement DEF rest
<1>9. Cardinality(Queued(i)') = Cardinality(rest)
  BY <1>7, <1>8, FS_Bijection
<1>10. 1 \in Queued(i) <=> i = Head(queue)
  BY <1>1 DEF Queued
<1> QED BY <1>8, <1>9, <1>10, Finite

LEMMA StepPlaced ==
  ASSUME Safe, Placed, Kinds, finished' \in [Items -> Nat]
  PROVE  Placed'
<1> SUFFICES ASSUME NEW i \in Items
             PROVE  /\ i \in accepted' => ~Fresh(i)' /\ Places(i)' = 1
                    /\ Fresh(i)' => Places(i)' = 0
                    /\ Places(i)' <= 1
  BY DEF Placed
<1>1. /\ i \in accepted => ~Fresh(i) /\ Places(i) = 1
      /\ Fresh(i) => Places(i) = 0
      /\ Places(i) <= 1
      /\ TypeOK /\ finished \in [Items -> Nat]
  BY DEF Placed, Safe, TypeOK
<1>2. /\ Cardinality(Queued(i)) \in Nat /\ Cardinality(Working(i)) \in Nat /\ finished[i] \in Nat
      /\ IsFiniteSet(Working(i))
  BY <1>1, Finite
<1>3. CASE Quiet
  <2>1. Queued(i)' = Queued(i) /\ Working(i)' = Working(i)
    BY <1>3 DEF Quiet, Queued, Working, Running
  <2>2. Places(i)' = Places(i) /\ accepted' = accepted /\ (Fresh(i)' => Fresh(i))
    BY <2>1, <1>3 DEF Quiet, Places, Fresher
  <2> QED BY <2>2, <1>1
<1>4. ASSUME NEW j \in Items, Adds(j)
      PROVE  /\ i \in accepted' => ~Fresh(i)' /\ Places(i)' = 1
             /\ Fresh(i)' => Places(i)' = 0
             /\ Places(i)' <= 1
  <2>1. Working(i)' = Working(i) /\ finished' = finished
    BY <1>4 DEF Adds, Working, Running
  <2>2. CASE i = j
    <3>1. Cardinality(Queued(i)') = Cardinality(Queued(i)) + 1
      BY <2>2, <1>1, <1>4, Appended DEF Adds
    <3>2. Places(i) = 0 /\ ~Fresh(i)'
      BY <2>2, <1>1, <1>4 DEF Adds
    <3>3. Places(i)' = 1
      BY <3>1, <3>2, <2>1, <1>2 DEF Places
    <3> QED BY <3>2, <3>3
  <2>3. CASE i # j
    <3>1. Queued(i)' = Queued(i)
      BY <2>3, <1>1, <1>4, Appended DEF Adds
    <3>2. /\ Places(i)' = Places(i) /\ (i \in accepted' => i \in accepted)
          /\ Fresh(i)' => Fresh(i)
      BY <3>1, <2>1, <2>3, <1>4 DEF Places, Adds, Fresher
    <3> QED BY <3>2, <1>1
  <2> QED BY <2>2, <2>3
<1>5. ASSUME NEW s \in Servers, Takes(s)
      PROVE  /\ i \in accepted' => ~Fresh(i)' /\ Places(i)' = 1
             /\ Fresh(i)' => Places(i)' = 0
             /\ Places(i)' <= 1
  <2>1. Cardinality(Queued(i)') = Cardinality(Queued(i)) - (IF i = Head(queue) THEN 1 ELSE 0)
    BY <1>1, <1>5, Taken DEF Takes
  <2>2. s \notin Working(i)
    BY <1>5 DEF Takes, Working, Running
  <2>3. job \in [Servers -> Items \cup {NoItem}]
    BY <1>1 DEF TypeOK
  <2>4. Working(i)' = IF i = Head(queue) THEN Working(i) \cup {s} ELSE Working(i)
    <3>1. \A r \in Servers : pc'[r] = "work" <=> (r = s \/ pc[r] = "work")
      BY <1>5 DEF Takes, Running
    <3>2. job'[s] = Head(queue) /\ \A r \in Servers \ {s} : job'[r] = job[r]
      BY <2>3, <1>5 DEF Takes
    <3>3. pc[s] # "work"
      BY <1>5 DEF Takes, Running
    <3> QED BY <3>1, <3>2, <3>3 DEF Working
  <2>5. Cardinality(Working(i)') = Cardinality(Working(i)) + (IF i = Head(queue) THEN 1 ELSE 0)
    <3>1. Cardinality(Working(i) \cup {s}) = Cardinality(Working(i)) + 1
      BY <2>2, <1>2, FS_AddElement
    <3> QED BY <3>1, <2>4, <1>2
  <2>6. finished' = finished /\ accepted' = accepted /\ (Fresh(i)' => Fresh(i))
    BY <1>5 DEF Takes, Fresher
  <2>7. Places(i)' = Places(i)
    BY <2>1, <2>5, <2>6, <1>2 DEF Places
  <2> QED BY <2>6, <2>7, <1>1
<1>6. ASSUME NEW s \in Servers, Finishes(s)
      PROVE  /\ i \in accepted' => ~Fresh(i)' /\ Places(i)' = 1
             /\ Fresh(i)' => Places(i)' = 0
             /\ Places(i)' <= 1
  <2>1. Queued(i)' = Queued(i)
    BY <1>6 DEF Finishes, Queued
  <2>2. job' = job /\ (\A r \in Servers : pc'[r] = "work" <=> (r # s /\ pc[r] = "work"))
        /\ pc[s] = "work" /\ finished' = [finished EXCEPT ![job[s]] = @ + 1]
    BY <1>6 DEF Finishes, Running
  <2>3. accepted' = accepted /\ (Fresh(i)' => Fresh(i))
    BY <1>6 DEF Finishes, Fresher
  <2>4. CASE i = job[s]
    <3>1. Working(i)' = Working(i) \ {s} /\ s \in Working(i)
      BY <2>2, <2>4 DEF Working
    <3>2. Cardinality(Working(i) \ {s}) = Cardinality(Working(i)) - 1
      BY <3>1, <1>2, FS_RemoveElement
    <3>3. finished'[i] = finished[i] + 1
      BY <2>2, <2>4, <1>1
    <3>4. Places(i)' = Places(i)
      BY <3>1, <3>2, <3>3, <2>1, <1>2 DEF Places
    <3> QED BY <3>4, <2>3, <1>1
  <2>5. CASE i # job[s]
    <3>1. Working(i)' = Working(i)
      BY <2>2, <2>5 DEF Working
    <3>2. finished'[i] = finished[i]
      BY <2>2, <2>5, <1>1
    <3>3. Places(i)' = Places(i)
      BY <3>1, <3>2, <2>1 DEF Places
    <3> QED BY <3>3, <2>3, <1>1
  <2> QED BY <2>4, <2>5
<1> QED BY <1>3, <1>4, <1>5, <1>6 DEF Kinds

LEMMA InitPlaced == Init => Placed
<1> SUFFICES ASSUME Init, NEW i \in Items PROVE i \notin accepted /\ Places(i) = 0
  BY DEF Placed
<1>1. Queued(i) = {} /\ Working(i) = {} /\ finished[i] = 0 /\ accepted = {}
  BY DEF Init, Queued, Working
<1> QED BY <1>1, FS_EmptySet DEF Places

LEMMA ItemsSafe == Spec => [](Safe /\ Placed)
<1>1. Init => Safe /\ Placed
  BY InitSafe, InitPlaced
<1>2. Safe /\ Placed /\ [Next]_vars => Safe' /\ Placed'
  <2> SUFFICES ASSUME Safe, Placed, [Next]_vars PROVE Safe' /\ Placed'
    OBVIOUS
  <2>1. Safe'
    BY StepSafe
  <2>2. finished' \in [Items -> Nat]
    BY <2>1 DEF Safe, TypeOK
  <2> QED BY <2>1, <2>2, StepKinds, StepPlaced
<1> QED BY <1>1, <1>2, PTL DEF Spec

(* Every item that workq_add has accepted is on the queue once, with one   *)
(* server, or has been through the engine once, early destroys included.   *)
THEOREM WorkqItemsOnce == Spec => []ItemsOnce
<1>1. Safe /\ Placed => ItemsOnce
  <2> SUFFICES ASSUME Safe, Placed, NEW i \in accepted
               PROVE  Occurrences(i)
                        + Cardinality({s \in Servers : pc[s] = "work" /\ job[s] = i})
                        + finished[i] = 1
    BY DEF ItemsOnce
  <2>1. i \in Items
    BY DEF Safe, TypeOK
  <2> QED BY <2>1 DEF Placed, Places, Occurrences, Queued, Working
<1> QED BY <1>1, ItemsSafe, PTL

-----------------------------------------------------------------------------
(* With the clients joined first, no accepted item is left without a       *)
(* server to take it.                                                      *)
Attended == Alive = {} => \A n \in DOMAIN queue : queue[n] \notin accepted

LEMMA StepAttended ==
  ASSUME Safe, Placed, RunDown, Attended, Kinds, JoinFirst
  PROVE  Attended'
<1> SUFFICES ASSUME Alive' = {} PROVE \A n \in DOMAIN queue' : queue'[n] \notin accepted'
  BY DEF Attended
<1>1. CASE Quiet
  <2>1. Alive = {} \/ queue = <<>>
    <3>1. mtx = "dead" => Alive = {}
      BY DEF RunDown
    <3> QED BY <3>1, <1>1 DEF Quiet
  <2> QED BY <2>1, <1>1 DEF Quiet, Attended
<1>2. ASSUME NEW i \in Items, Adds(i) PROVE \A n \in DOMAIN queue' : queue'[n] \notin accepted'
  <2>1. accepted' = accepted /\ Alive = {} /\ i \notin accepted /\ queue' = Append(queue, i)
    BY <1>2 DEF Adds, Placed
  <2>2. queue \in Seq(Items)
    BY DEF Safe, TypeOK
  <2>3. \A n \in DOMAIN queue' : queue'[n] = i \/ (n \in DOMAIN queue /\ queue'[n] = queue[n])
    BY <2>1, <2>2
  <2> QED BY <2>1, <2>3 DEF Attended
<1>3. ASSUME NEW s \in Servers, Takes(s) \/ Finishes(s) PROVE FALSE
  BY <1>3 DEF Takes, Finishes
<1> QED BY <1>1, <1>2, <1>3 DEF Kinds

(* When the clients are joined first, workq_destroy returns after every    *)
(* item they have added has been served.                                   *)
THEOREM WorkqDestroyDrains ==
  ASSUME JoinFirst
  PROVE  Spec => []DestroyDrains
<1>1. Init => RunDown /\ Attended
  BY DEF Init, RunDown, Attended
<1>2. Safe /\ Placed /\ RunDown /\ Attended /\ [Next]_vars => RunDown' /\ Attended'
  BY StepRunDown, StepKinds, StepAttended
<1>3. Safe /\ Placed /\ RunDown /\ Attended => DestroyDrains
  <2> SUFFICES ASSUME Safe, Placed, RunDown, Attended, dpc = "done", mtx = "dead",
                      NEW i \in accepted
               PROVE  finished[i] = 1
    BY DEF DestroyDrains
  <2>1. Alive = {} /\ i \in Items
    BY DEF RunDown, Safe, TypeOK
  <2>2. Queued(i) = {} /\ Working(i) = {}
    BY <2>1 DEF Attended, Queued, Working, Alive
  <2>3. Places(i) = 1 /\ finished[i] \in Nat
    BY <2>1 DEF Placed, Safe, TypeOK
  <2> QED BY <2>2, <2>3, FS_EmptySet DEF Places
<1> QED BY ItemsSafe, <1>1, <1>2, <1>3, PTL DEF Spec

-----------------------------------------------------------------------------
(***************************************************************************)
(* The refinement of WorkPool.                                             *)
(***************************************************************************)
Pairs == {<<s, job[s]>> : s \in Running}

LEMMA PairsCount ==
  ASSUME TypeOK
  PROVE  Cardinality(Pairs) = Cardinality(Running)
<1> DEFINE f == [s \in Running |-> <<s, job[s]>>]
<1>1. f \in [Running -> Pairs] /\ \A p \in Pairs : \E s \in Running : f[s] = p
  BY DEF Pairs
<1>2. \A r, s \in Running : f[r] = f[s] => r = s
  OBVIOUS
<1> HIDE DEF f
<1>3. f \in Bijection(Running, Pairs)
  BY <1>1, <1>2, Fun_IsBij
<1>4. ExistsBijection(Running, Pairs) /\ IsFiniteSet(Running)
  BY <1>3, Finite DEF ExistsBijection
<1> QED BY <1>4, FS_Bijection

LEMMA RoomToStart ==
  ASSUME Safe, NEW s \in Alive \ Running, mtx = "live"
  PROVE  Cardinality(Running) < Parallelism
<1>1. Running \cup {s} \subseteq Alive
  BY DEF Running, Alive
<1>2. Cardinality(Running \cup {s}) = Cardinality(Running) + 1
  BY Finite, FS_AddElement DEF Safe
<1>3. Cardinality(Running \cup {s}) <= Cardinality(Alive)
  BY <1>1, AliveFinite, FS_Subset
<1>4. Cardinality(Alive) <= Parallelism
  BY DEF Safe, Life
<1> QED BY <1>2, <1>3, <1>4, Finite, AliveFinite, WorkqAssumption DEF Safe

LEMMA KindsRefine ==
  ASSUME Safe, Kinds
  PROVE  [Pool!Next]_(Pool!vars)
<1>0. /\ {<<s, job[s]>> : s \in {r \in Servers : pc[r] = "work"}} = Pairs
      /\ {<<s, job[s]>> : s \in {r \in Servers : pc[r] = "work"}}' = Pairs'
  BY DEF Pairs, Running
<1>1. CASE Quiet
  BY <1>1 DEF Quiet, Running, Pool!vars
<1>2. ASSUME NEW i \in Items, Adds(i) PROVE Pool!Next
  <2>1. Pool!Submit(i)
    BY <1>2 DEF Adds, Running, Pool!Submit
  <2> QED BY <2>1 DEF Pool!Next
<1>3. ASSUME NEW s \in Servers, Takes(s) PROVE Pool!Next
  <2>1. Cardinality(Pairs) < Parallelism
    BY <1>3, PairsCount, RoomToStart DEF Takes, Safe
  <2>2. s \notin Running /\ \A p \in Pairs : p[1] # s
    BY <1>3 DEF Takes, Pairs
  <2>3. Pairs' = Pairs \cup {<<s, Head(queue)>>}
    <3>1. Running' = Running \cup {s} /\ Running \subseteq Servers
      BY <1>3 DEF Takes, Running
    <3>2. job'[s] = Head(queue) /\ \A r \in Running : job'[r] = job[r]
      BY <3>1, <2>2, <1>3 DEF Takes, Safe, TypeOK
    <3> QED BY <3>1, <3>2 DEF Pairs
  <2>4. Pool!Cardinality(Pairs) = Cardinality(Pairs)
    BY DEF Pool!Cardinality, Cardinality
  <2>5. Pool!Start(s)
    BY <2>1, <2>2, <2>3, <2>4, <1>0, <1>3 DEF Takes, Pool!Start
  <2> QED BY <2>5 DEF Pool!Next
<1>4. ASSUME NEW s \in Servers, Finishes(s) PROVE Pool!Next
  <2> DEFINE mine == <<s, job[s]>>
  <2>1. mine \in Pairs /\ mine[2] = job[s]
    BY <1>4 DEF Finishes, Pairs
  <2>2. Pairs' = Pairs \ {mine}
    BY <1>4 DEF Finishes, Pairs
  <2>3. Pool!Finish(mine)
    BY <2>1, <2>2, <1>0, <1>4 DEF Finishes, Pool!Finish
  <2>4. mine \in {<<r, job[r]>> : r \in {q \in Servers : pc[q] = "work"}}
    BY <1>4 DEF Finishes, Running
  <2> HIDE DEF mine
  <2> QED BY <2>3, <2>4, Zenon DEF Pool!Next, Pool!Finish
<1> QED BY <1>1, <1>2, <1>3, <1>4 DEF Kinds

(* The package implements WorkPool: servers take items in the order they   *)
(* were added, each once, at most Parallelism at a time.                   *)
THEOREM WorkqImplementsPool == Spec => ImplementsWorkPool
<1>1. Init => Pool!Init
  BY DEF Init, Pool!Init
<1>2. Safe /\ [Next]_vars => [Pool!Next]_(Pool!vars)
  BY StepKinds, KindsRefine
<1> QED BY <1>1, <1>2, InitSafe, StepSafe, PTL DEF Spec, ImplementsWorkPool, Pool!Spec
-----------------------------------------------------------------------------
(***************************************************************************)
(* The statistics of workq_main.c.                                         *)
(***************************************************************************)
Counting(i) == {s \in Servers : i \in calls[s]}
Ending(i) == {e \in ending : i \in e}
Listed(i) == {e \in list : i \in e}

Engines == calls \in [Servers -> SUBSET Items] /\ IsFiniteSet(ending) /\ IsFiniteSet(list)

LEMMA EnginesFinite ==
  ASSUME Engines, NEW i
  PROVE  /\ IsFiniteSet(Counting(i)) /\ Cardinality(Counting(i)) \in Nat
         /\ IsFiniteSet(Ending(i)) /\ Cardinality(Ending(i)) \in Nat
         /\ IsFiniteSet(Listed(i)) /\ Cardinality(Listed(i)) \in Nat
<1>1. Counting(i) \subseteq Servers /\ Ending(i) \subseteq ending /\ Listed(i) \subseteq list
  BY DEF Counting, Ending, Listed
<1> QED BY <1>1, WorkqAssumption, FS_Subset, FS_CardinalityType DEF Engines

LEMMA SetPlus ==
  ASSUME NEW S, NEW x, IsFiniteSet(S), x \notin S
  PROVE  Cardinality(S \cup {x}) = Cardinality(S) + 1
BY FS_AddElement

LEMMA SetMinus ==
  ASSUME NEW S, NEW x \in S, IsFiniteSet(S)
  PROVE  Cardinality(S \ {x}) = Cardinality(S) - 1
BY FS_RemoveElement

LEMMA SetSome ==
  ASSUME NEW S, NEW x \in S, IsFiniteSet(S)
  PROVE  Cardinality(S) # 0
BY FS_EmptySet

(* A step of the program is a step of the package, or leaves it alone.     *)
LEMMA MainSteps ==
  ASSUME [MainNext]_allvars
  PROVE  [Next]_vars
<1>1. ASSUME NEW c \in Clients, Add(c) PROVE Next
  BY <1>1 DEF Add, Next
<1>2. ASSUME NEW s \in Servers, EngineRoutine(s) \/ ServerRuns(s) \/ ServerWaits(s) PROVE Next
  BY <1>2 DEF EngineRoutine, ServerRuns, ServerWaits, Next, ServerStep
<1>3. CASE Main_
  BY <1>3 DEF Main_, Next
<1>4. CASE Destructor \/ Summary \/ Ended \/ UNCHANGED allvars
  BY <1>4 DEF Destructor, Summary, Ended, allvars
<1> QED BY <1>1, <1>2, <1>3, <1>4 DEF MainNext

(* An item has been through the engine once at most, and not while a       *)
(* server works on it.                                                     *)
LEMMA FinishedOnce ==
  ASSUME Safe, Placed, NEW i \in Items
  PROVE  finished[i] \in {0, 1} /\ (Working(i) # {} => finished[i] = 0)
<1>1. /\ Cardinality(Queued(i)) \in Nat /\ Cardinality(Working(i)) \in Nat
      /\ IsFiniteSet(Working(i)) /\ finished[i] \in Nat
  BY Finite DEF Safe, TypeOK
<1>2. Cardinality(Queued(i)) + Cardinality(Working(i)) + finished[i] <= 1
  BY DEF Placed, Places
<1>3. Working(i) # {} => Cardinality(Working(i)) # 0
  BY <1>1, SetSome
<1> QED BY <1>1, <1>2, <1>3

(* So it is counted in one place at most.                                  *)
LEMMA CountedOnce ==
  ASSUME Safe, Placed, Engines, CallsAccounted, NEW i \in Items
  PROVE  /\ Working(i) # {} => Counting(i) = {} /\ Ending(i) = {} /\ Listed(i) = {}
         /\ Counting(i) # {} => Ending(i) = {}
         /\ Ending(i) # {} => Listed(i) = {}
<1>1. /\ Cardinality(Counting(i)) \in Nat /\ Cardinality(Ending(i)) \in Nat
      /\ Cardinality(Listed(i)) \in Nat
      /\ Counting(i) # {} => Cardinality(Counting(i)) # 0
      /\ Ending(i) # {} => Cardinality(Ending(i)) # 0
      /\ Listed(i) # {} => Cardinality(Listed(i)) # 0
  BY EnginesFinite, SetSome
<1>2. finished[i] = Cardinality(Counting(i)) + Cardinality(Ending(i)) + Cardinality(Listed(i))
  BY DEF CallsAccounted, Counting, Ending, Listed
<1>3. finished[i] \in {0, 1} /\ (Working(i) # {} => finished[i] = 0)
  BY FinishedOnce
<1> QED BY <1>1, <1>2, <1>3

(* A call is counted where the engine makes it.                            *)
LEMMA EngineCounts ==
  ASSUME Safe, Placed, Engines, CallsAccounted, NEW s \in Servers, EngineRoutine(s)
  PROVE  Engines' /\ CallsAccounted'
<1> DEFINE j == job[s]
<1>1. /\ pc[s] = "work" /\ finished' = [finished EXCEPT ![j] = @ + 1]
      /\ calls' = [calls EXCEPT ![s] = @ \cup {j}] /\ ending' = ending /\ list' = list
  BY DEF EngineRoutine, Engine
<1>2. j \in Items /\ finished \in [Items -> Nat] /\ calls \in [Servers -> SUBSET Items]
  BY <1>1 DEF Safe, Life, TypeOK, Engines
<1>3. s \in Working(j)
  BY <1>1 DEF Working
<1> HIDE DEF j
<1>4. Counting(j) = {}
  BY <1>2, <1>3, CountedOnce
<1>5. Engines'
  BY <1>1, <1>2 DEF Engines
<1>6. ASSUME NEW i \in Items
      PROVE  finished'[i] = Cardinality(Counting(i)') + Cardinality(Ending(i)') + Cardinality(Listed(i)')
  <2>1. finished[i] = Cardinality(Counting(i)) + Cardinality(Ending(i)) + Cardinality(Listed(i))
    BY DEF CallsAccounted, Counting, Ending, Listed
  <2>2. Ending(i)' = Ending(i) /\ Listed(i)' = Listed(i)
    BY <1>1 DEF Ending, Listed
  <2>3. /\ \A r \in Servers \ {s} : calls'[r] = calls[r]
        /\ calls'[s] = calls[s] \cup {j}
    BY <1>1, <1>2
  <2>4. CASE i = j
    <3>1. Counting(i)' = Counting(i) \cup {s} /\ s \notin Counting(i)
      BY <2>3, <2>4, <1>4 DEF Counting
    <3>2. Cardinality(Counting(i)') = Cardinality(Counting(i)) + 1
      BY <3>1, EnginesFinite, SetPlus
    <3>3. finished'[i] = finished[i] + 1
      BY <2>4, <1>1, <1>2
    <3> QED BY <3>2, <3>3, <2>1, <2>2, EnginesFinite
  <2>5. CASE i # j
    <3>1. Counting(i)' = Counting(i)
      BY <2>3, <2>5 DEF Counting
    <3>2. finished'[i] = finished[i]
      BY <2>5, <1>1, <1>2
    <3> QED BY <3>1, <3>2, <2>1, <2>2
  <2> QED BY <2>4, <2>5
<1> QED BY <1>5, <1>6 DEF CallsAccounted, Counting, Ending, Listed

(* A server that ends takes its count along.                               *)
LEMMA ServerCounts ==
  ASSUME Safe, Placed, Engines, CallsAccounted, NEW s \in Servers, finished' = finished,
         calls' = [calls EXCEPT ![s] = {}], ending' = ending \cup ({calls[s]} \ {{}}), list' = list
  PROVE  Engines' /\ CallsAccounted'
<1>1. calls \in [Servers -> SUBSET Items] /\ finished \in [Items -> Nat]
  BY DEF Safe, TypeOK, Engines
<1>2. Engines'
  <2>1. ending' = ending \/ ending' = ending \cup {calls[s]}
    OBVIOUS
  <2> QED BY <2>1, <1>1, FS_AddElement DEF Engines
<1>3. ASSUME NEW i \in Items
      PROVE  finished'[i] = Cardinality(Counting(i)') + Cardinality(Ending(i)') + Cardinality(Listed(i)')
  <2>1. finished[i] = Cardinality(Counting(i)) + Cardinality(Ending(i)) + Cardinality(Listed(i))
    BY DEF CallsAccounted, Counting, Ending, Listed
  <2>2. Listed(i)' = Listed(i)
    BY DEF Listed
  <2>3. Counting(i)' = Counting(i) \ {s}
    BY <1>1 DEF Counting
  <2>4. CASE i \in calls[s]
    <3>1. s \in Counting(i)
      BY <2>4 DEF Counting
    <3>2. Ending(i) = {}
      BY <3>1, CountedOnce
    <3>3. Ending(i)' = Ending(i) \cup {calls[s]} /\ calls[s] \notin Ending(i)
      BY <2>4, <3>2 DEF Ending
    <3>4. /\ Cardinality(Counting(i)') = Cardinality(Counting(i)) - 1
          /\ Cardinality(Ending(i)') = Cardinality(Ending(i)) + 1
      BY <3>1, <3>3, <2>3, EnginesFinite, SetPlus, SetMinus
    <3> QED BY <3>4, <2>1, <2>2, EnginesFinite
  <2>5. CASE i \notin calls[s]
    <3>1. Counting(i)' = Counting(i) /\ Ending(i)' = Ending(i)
      BY <2>3, <2>5 DEF Counting, Ending
    <3> QED BY <3>1, <2>1, <2>2
  <2> QED BY <2>4, <2>5
<1> QED BY <1>2, <1>3 DEF CallsAccounted, Counting, Ending, Listed

(* The destructor moves a count to the list.                               *)
LEMMA DestructorCounts ==
  ASSUME Safe, Placed, Engines, CallsAccounted, Destructor
  PROVE  Engines' /\ CallsAccounted'
<1>1. PICK e \in ending : list' = list \cup {e} /\ ending' = ending \ {e}
  BY DEF Destructor
<1>2. calls' = calls /\ finished' = finished
  BY DEF Destructor, vars, history
<1>3. Engines'
  BY <1>1, <1>2, FS_AddElement, FS_RemoveElement DEF Engines
<1>4. ASSUME NEW i \in Items
      PROVE  finished'[i] = Cardinality(Counting(i)') + Cardinality(Ending(i)') + Cardinality(Listed(i)')
  <2>1. finished[i] = Cardinality(Counting(i)) + Cardinality(Ending(i)) + Cardinality(Listed(i))
    BY DEF CallsAccounted, Counting, Ending, Listed
  <2>2. Counting(i)' = Counting(i)
    BY <1>2 DEF Counting
  <2>3. CASE i \in e
    <3>1. e \in Ending(i) /\ Ending(i)' = Ending(i) \ {e}
      BY <1>1, <2>3 DEF Ending
    <3>2. Listed(i) = {}
      BY <3>1, CountedOnce
    <3>3. Listed(i)' = Listed(i) \cup {e} /\ e \notin Listed(i)
      BY <1>1, <2>3, <3>2 DEF Listed
    <3>4. /\ Cardinality(Ending(i)') = Cardinality(Ending(i)) - 1
          /\ Cardinality(Listed(i)') = Cardinality(Listed(i)) + 1
      BY <3>1, <3>3, EnginesFinite, SetPlus, SetMinus
    <3> QED BY <3>4, <2>1, <2>2, <1>2, EnginesFinite
  <2>4. CASE i \notin e
    <3>1. Ending(i)' = Ending(i) /\ Listed(i)' = Listed(i)
      BY <1>1, <2>4 DEF Ending, Listed
    <3> QED BY <3>1, <2>1, <2>2, <1>2
  <2> QED BY <2>3, <2>4
<1> QED BY <1>3, <1>4 DEF CallsAccounted, Counting, Ending, Listed

LEMMA StepAccounted ==
  ASSUME Safe, Placed, Engines, CallsAccounted, [MainNext]_allvars
  PROVE  Engines' /\ CallsAccounted'
<1>1. ASSUME UNCHANGED <<calls, ending, list>>, finished' = finished
      PROVE  Engines' /\ CallsAccounted'
  BY <1>1 DEF Engines, CallsAccounted
<1>2. ASSUME NEW c \in Clients, Add(c) PROVE Engines' /\ CallsAccounted'
  <2>1. finished' = finished
    BY <1>2 DEF Add, WorkqAdd, ClientStep, AddLockFailed, Enqueue, EnqueueNoThread, history
  <2> QED BY <2>1, <1>1, <1>2 DEF Add, tsd
<1>3. ASSUME NEW s \in Servers, EngineRoutine(s) PROVE Engines' /\ CallsAccounted'
  BY <1>3, EngineCounts
<1>4. ASSUME NEW s \in Servers, ServerRuns(s) PROVE Engines' /\ CallsAccounted'
  <2>1. finished' = finished /\ list' = list
    BY <1>4 DEF ServerRuns, ServerStart, ServerWoken, ServerBack, InServer, history
  <2>2. \/ UNCHANGED <<calls, ending>>
        \/ calls' = [calls EXCEPT ![s] = {}] /\ ending' = ending \cup ({calls[s]} \ {{}})
    BY <1>4 DEF ServerRuns
  <2> QED BY <2>1, <2>2, <1>1, ServerCounts
<1>5. ASSUME NEW s \in Servers, ServerWaits(s) PROVE Engines' /\ CallsAccounted'
  <2>1. finished' = finished
    BY <1>5 DEF ServerWaits, Timeout, SpuriousWakeup, history
  <2> QED BY <2>1, <1>1, <1>5 DEF ServerWaits, tsd
<1>6. CASE Destructor
  BY <1>6, DestructorCounts
<1>7. CASE Main_
  <2>1. finished' = finished
    BY <1>7 DEF Main_, MainStep, WorkqInit, WorkqDestroy, DestroyLocked, DestroyWoken,
                DestroySpurious, DestroyMutex, DestroyCond, history
  <2> QED BY <2>1, <1>1, <1>7 DEF Main_, tsd
<1>8. CASE Summary \/ Ended \/ UNCHANGED allvars
  BY <1>8, <1>1 DEF Summary, Ended, allvars, vars, history, tsd
<1> QED BY <1>2, <1>3, <1>4, <1>5, <1>6, <1>7, <1>8 DEF MainNext

(* In workq_main.c, for any number of clients, items and servers, every    *)
(* call of the engine is counted once: in the data of one running server,  *)
(* of one thread that is still ending, or of one on the list.  The last    *)
(* two are different things: main's sum is of the list only, and nothing   *)
(* makes it wait for the threads that are ending.                          *)
THEOREM WorkqMainCallsAccounted == MainInit /\ [][MainNext]_allvars => []CallsAccounted
<1> DEFINE Inv == Safe /\ Placed /\ Engines /\ CallsAccounted
<1>1. MainInit => Inv
  <2> SUFFICES ASSUME MainInit PROVE Inv
    OBVIOUS
  <2>1. Safe /\ Placed /\ Engines
    BY InitSafe, InitPlaced, FS_EmptySet DEF MainInit, Engines
  <2>2. ASSUME NEW i \in Items
        PROVE  finished[i] = 0 /\ Counting(i) = {} /\ Ending(i) = {} /\ Listed(i) = {}
    BY DEF MainInit, Init, Counting, Ending, Listed
  <2>3. Cardinality({}) = 0
    BY FS_EmptySet
  <2>4. ASSUME NEW i \in Items
        PROVE  finished[i] = Cardinality(Counting(i)) + Cardinality(Ending(i)) + Cardinality(Listed(i))
    BY <2>2, <2>3
  <2>5. CallsAccounted
    BY <2>4 DEF CallsAccounted, Counting, Ending, Listed
  <2> QED BY <2>1, <2>5
<1>2. Inv /\ [MainNext]_allvars => Inv'
  <2> SUFFICES ASSUME Inv, [MainNext]_allvars PROVE Inv'
    OBVIOUS
  <2>1. [Next]_vars
    BY MainSteps
  <2>2. Safe'
    BY <2>1, StepSafe
  <2>3. finished' \in [Items -> Nat]
    BY <2>2 DEF Safe, TypeOK
  <2> QED BY <2>1, <2>2, <2>3, StepKinds, StepPlaced, StepAccounted
<1>3. Inv => CallsAccounted
  OBVIOUS
<1> QED BY <1>1, <1>2, <1>3, PTL
=============================================================================

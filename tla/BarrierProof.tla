---------------------------- MODULE BarrierProof ----------------------------
(***************************************************************************)
(* Proofs about the barrier package, for every set of threads and every    *)
(* count, and about the program barrier_main.c (the last part, which alone *)
(* needs ProgramShape), for every number of threads and rounds.            *)
(***************************************************************************)
EXTENDS BarrierMain, FiniteSetTheorems, TLAPS

Safe == TypeOK /\ LockInv

(* The initial state satisfies the type invariant and the mutex            *)
(* discipline.                                                             *)
LEMMA InitSafe == Init => Safe
<1> SUFFICES ASSUME Init PROVE Safe
  OBVIOUS
<1>1. TypeOK
  BY BarrierAssumption DEF Init, TypeOK, BARRIER_VALID
<1>2. LockInv
  BY BarrierAssumption DEF Init, LockInv, BARRIER_VALID
<1> QED BY <1>1, <1>2 DEF Safe

(* Every step of barrier_init, barrier_wait and barrier_destroy keeps the  *)
(* types and the mutex discipline, whatever the number of threads.         *)
LEMMA StepSafe == Safe /\ [Next]_vars => Safe'
<1> SUFFICES ASSUME Safe, [Next]_vars PROVE Safe'
  OBVIOUS
<1> USE BarrierAssumption DEF Safe, BARRIER_VALID, SERIAL, EINVAL, EBUSY, EAGAIN,
      shared, callers, destroyer, history
<1>1. ASSUME NEW t \in Threads, BarrierWait(t) PROVE Safe'
  BY <1>1 DEF BarrierWait, TypeOK, LockInv
<1>2. ASSUME NEW t \in Threads, Lock(t) PROVE Safe'
  BY <1>2 DEF Lock, Acquire, TypeOK, LockInv
<1>3. ASSUME NEW t \in Threads, Arrive(t) PROVE Safe'
  <2>1. owner = t /\ mtx = "live" /\ counter \in 1..Count
    BY <1>3 DEF Arrive, LockInv
  <2>2. CASE ArriveLast(t)
    BY <1>3, <2>1, <2>2 DEF Arrive, ArriveLast, TypeOK, LockInv
  <2>3. CASE ArriveEarly(t)
    BY <1>3, <2>1, <2>3 DEF Arrive, ArriveEarly, TypeOK, LockInv
  <2> QED BY <1>3, <2>2, <2>3 DEF Arrive
<1>4. ASSUME NEW t \in Threads, SpuriousWakeup(t) PROVE Safe'
  BY <1>4 DEF SpuriousWakeup, TypeOK, LockInv
<1>5. ASSUME NEW t \in Threads, Relock(t) PROVE Safe'
  BY <1>5 DEF Relock, Acquire, TypeOK, LockInv
<1>6. ASSUME NEW t \in Threads, Test(t) PROVE Safe'
  BY <1>6 DEF Test, TypeOK, LockInv
<1>7. CASE BarrierInit
  BY <1>7 DEF BarrierInit, TypeOK, LockInv
<1>8. CASE BarrierDestroy
  BY <1>8 DEF BarrierDestroy, TypeOK, LockInv
<1>9. CASE DestroyLock
  BY <1>9 DEF DestroyLock, TypeOK, LockInv
<1>10. CASE DestroyBody
  BY <1>10 DEF DestroyBody, TypeOK, LockInv
<1>11. CASE DestroyMutex
  BY <1>11 DEF DestroyMutex, TypeOK, LockInv
<1>12. CASE DestroyCond
  BY <1>12 DEF DestroyCond, TypeOK, LockInv
<1>13. CASE UNCHANGED vars
  BY <1>13 DEF vars, TypeOK, LockInv
<1> QED
  BY <1>1, <1>2, <1>3, <1>4, <1>5, <1>6, <1>7, <1>8, <1>9, <1>10, <1>11,
     <1>12, <1>13 DEF Next, CallerStep, MainStep, Terminated

(* Every variable of the barrier keeps its type, in every behaviour.       *)
THEOREM BarrierTypes == Spec => []TypeOK
<1>1. Safe => TypeOK
  BY DEF Safe
<1> QED BY InitSafe, StepSafe, <1>1, PTL DEF Spec

(* Every thread between its lock and its unlock owns the mutex, and a      *)
(* valid barrier has live pthread objects.                                 *)
THEOREM BarrierLocking == Spec => []LockInv
<1>1. Safe => LockInv
  BY DEF Safe
<1> QED BY InitSafe, StepSafe, <1>1, PTL DEF Spec

-----------------------------------------------------------------------------
(* The threads of the current cycle form a finite set, and a full current  *)
(* cycle but one leaves room for exactly the missing thread: when the      *)
(* counter is 1 and t is outside, every other thread is waiting.           *)
LEMMA CurrentFinite ==
  /\ Current \subseteq Threads
  /\ IsFiniteSet(Current)
  /\ Cardinality(Current) \in Nat
<1>1. Current \subseteq Threads
  BY DEF Current
<1>2. IsFiniteSet(Current)
  BY <1>1, BarrierAssumption, FS_Subset
<1> QED BY <1>1, <1>2, FS_CardinalityType

LEMMA LastIsMissing ==
  ASSUME Cardinality(Threads) <= Count,
         NEW t \in Threads, t \notin Current,
         Cardinality(Current) = Count - 1
  PROVE  Threads = Current \cup {t}
<1>1. Current \cup {t} \in SUBSET Threads
  BY CurrentFinite
<1>2. Cardinality(Current \cup {t}) = Cardinality(Current) + 1
  BY CurrentFinite, FS_AddElement
<1>3. Cardinality(Threads) \in Nat
  BY BarrierAssumption, FS_CardinalityType
<1>4. Cardinality(Current \cup {t}) <= Cardinality(Threads)
  BY <1>1, BarrierAssumption, FS_Subset
<1>5. Cardinality(Threads) = Cardinality(Current \cup {t})
  BY <1>2, <1>3, <1>4, BarrierAssumption
<1> QED BY <1>1, <1>5, BarrierAssumption, FS_Subset

(* A step that moves nobody into or out of the wait loop, and puts to      *)
(* sleep only threads of the current cycle, keeps the cycle invariant.     *)
LEMMA QuietStep ==
  ASSUME CycleInv,
         UNCHANGED <<gen, joined, calls, mine, cycle, counter>>,
         \A t \in Threads : Inside(t)' <=> Inside(t),
         \A t \in Threads : pc'[t] = "sleep" => joined[t] = gen,
         mtx' = mtx \/ mtx' = "dead"
  PROVE  CycleInv'
<1>1. Current' = Current
  BY DEF Current
<1> QED BY <1>1 DEF CycleInv, NobodyLeftBehind

(* Every step keeps the cycle invariant when there are at most Count       *)
(* threads.                                                                *)
LEMMA StepCycle ==
  ASSUME Cardinality(Threads) <= Count, Safe, CycleInv, [Next]_vars
  PROVE  CycleInv'
<1> USE BarrierAssumption DEF Safe, shared, callers, destroyer, history
<1>1. ASSUME NEW t \in Threads, BarrierWait(t) PROVE CycleInv'
  BY <1>1, QuietStep DEF BarrierWait, TypeOK, Inside, CycleInv, NobodyLeftBehind
<1>2. ASSUME NEW t \in Threads, Lock(t) PROVE CycleInv'
  BY <1>2, QuietStep DEF Lock, Acquire, TypeOK, Inside, CycleInv, NobodyLeftBehind
<1>3. ASSUME NEW t \in Threads, Arrive(t) PROVE CycleInv'
  <2>1. /\ mtx = "live" /\ mtx' = "live" /\ t \notin Current /\ ~Inside(t)
        /\ counter = Count - Cardinality(Current)
    BY <1>3 DEF Arrive, LockInv, Current, Inside, CycleInv
  <2>2. CASE ArriveLast(t)
    <3>1. Threads = Current \cup {t}
      BY <2>1, <2>2, CurrentFinite, LastIsMissing DEF ArriveLast
    <3>2. \A u \in Threads : ~Inside(u)' \/ (joined'[u] = gen /\ mine[u] = cycle /\ u # t)
      BY <1>3, <2>1, <2>2, <3>1 DEF Arrive, ArriveLast, Inside, Current, CycleInv, TypeOK
    <3>3. Current' = {}
      BY <1>3, <2>2, <3>2 DEF Arrive, ArriveLast, Current, TypeOK
    <3>4. counter' = Count - Cardinality(Current')
      BY <2>2, <3>3, FS_EmptySet DEF ArriveLast
    <3>5. \A u \in Threads : pc'[u] # "sleep"
      BY <1>3, <2>2 DEF Arrive, ArriveLast, TypeOK
    <3>6. \A u \in Threads : calls'[u] = gen'
      BY <1>3, <2>1, <2>2, <3>1 DEF Arrive, ArriveLast, CycleInv, TypeOK
    <3>7. \A u \in Threads : Inside(u)' =>
            /\ joined'[u] = gen' - 1
            /\ mine'[u] # cycle'
      BY <1>3, <2>2, <3>2 DEF Arrive, ArriveLast, TypeOK
    <3>8. gen' \in Nat
      BY <2>2 DEF ArriveLast, TypeOK
    <3> QED BY <3>3, <3>4, <3>5, <3>6, <3>7, <3>8 DEF CycleInv, NobodyLeftBehind
  <2>3. CASE ArriveEarly(t)
    <3>1. Current' = Current \cup {t}
      BY <1>3, <2>1, <2>3 DEF Arrive, ArriveEarly, Current, Inside, TypeOK
    <3>2. Cardinality(Current') = Cardinality(Current) + 1
      BY <2>1, <3>1, CurrentFinite, FS_AddElement
    <3>3. counter' = Count - Cardinality(Current')
      BY <2>1, <2>3, <3>2, CurrentFinite DEF ArriveEarly
    <3>4. \A u \in Threads : Inside(u)' =>
            /\ joined'[u] \in {gen' - 1, gen'}
            /\ mine'[u] = cycle' <=> joined'[u] = gen'
      BY <1>3, <2>3 DEF Arrive, ArriveEarly, Inside, CycleInv, TypeOK
    <3>5. NobodyLeftBehind'
      BY <1>3, <2>3 DEF Arrive, ArriveEarly, NobodyLeftBehind, CycleInv, TypeOK
    <3>6. \A u \in Threads : calls'[u] = IF u \in Current' THEN gen' + 1 ELSE gen'
      BY <1>3, <2>1, <2>3, <3>1 DEF Arrive, ArriveEarly, CycleInv, TypeOK
    <3> QED BY <3>3, <3>4, <3>5, <3>6 DEF CycleInv
  <2> QED BY <1>3, <2>2, <2>3 DEF Arrive
<1>4. ASSUME NEW t \in Threads, SpuriousWakeup(t) PROVE CycleInv'
  BY <1>4, QuietStep DEF SpuriousWakeup, TypeOK, Inside, CycleInv, NobodyLeftBehind
<1>5. ASSUME NEW t \in Threads, Relock(t) PROVE CycleInv'
  <2>1. CASE mtx = "live"
    BY <1>5, <2>1, QuietStep
    DEF Relock, Acquire, TypeOK, Inside, CycleInv, NobodyLeftBehind
  <2>2. CASE mtx = "dead"
    BY <1>5, <2>2 DEF Relock, Acquire, TypeOK, Inside, CycleInv, NobodyLeftBehind
  <2> QED BY <1>5, <2>1, <2>2 DEF Relock, Acquire
<1>6. ASSUME NEW t \in Threads, Test(t) PROVE CycleInv'
  <2>1. CASE mine[t] = cycle
    BY <1>6, <2>1, QuietStep DEF Test, TypeOK, Inside, CycleInv, NobodyLeftBehind
  <2>2. CASE mine[t] # cycle
    <3>1. Current' = Current
      BY <1>6, <2>2 DEF Test, TypeOK, Inside, Current, CycleInv
    <3> QED BY <1>6, <2>2, <3>1 DEF Test, TypeOK, Inside, CycleInv, NobodyLeftBehind
  <2> QED BY <2>1, <2>2
<1>7. CASE BarrierInit
  <2>1. \A t \in Threads : ~Inside(t)' /\ pc'[t] = "idle" /\ calls'[t] = gen'
    BY <1>7 DEF BarrierInit, LockInv, Inside, TypeOK
  <2>2. Current' = {}
    BY <2>1 DEF Current
  <2> QED BY <1>7, <2>1, <2>2, FS_EmptySet DEF BarrierInit, CycleInv, NobodyLeftBehind
<1>8. CASE BarrierDestroy \/ DestroyLock \/ DestroyBody \/ DestroyMutex \/ DestroyCond
  BY <1>8, QuietStep
  DEF BarrierDestroy, DestroyLock, DestroyBody, DestroyMutex, DestroyCond,
      TypeOK, Inside, CycleInv, NobodyLeftBehind
<1>9. CASE UNCHANGED vars
  BY <1>9, QuietStep DEF vars, TypeOK, Inside, CycleInv, NobodyLeftBehind
<1> QED
  BY <1>1, <1>2, <1>3, <1>4, <1>5, <1>6, <1>7, <1>8, <1>9
  DEF Next, CallerStep, MainStep, Terminated

(* Initially nobody is inside barrier_wait.                                *)
LEMMA InitCycle == Init => CycleInv
<1> SUFFICES ASSUME Init PROVE CycleInv
  OBVIOUS
<1>1. Current = {}
  BY DEF Init, Current, Inside
<1> QED BY <1>1 DEF Init, CycleInv, NobodyLeftBehind, Inside

(* The cycle invariant makes the k-th return follow every k-th arrival.    *)
LEMMA CycleSync == TypeOK /\ CycleInv => BarrierSync
BY DEF TypeOK, CycleInv, BarrierSync, Returns, Current, Inside

(* With at most Count threads, no thread whose cycle was broadcast is      *)
(* asleep in barrier_wait, and the one-bit cycle never confuses two        *)
(* cycles.                                                                 *)
THEOREM BarrierCycles ==
  ASSUME Cardinality(Threads) <= Count
  PROVE  Spec => []CycleInv
<1>1. Safe /\ CycleInv /\ [Next]_vars => Safe' /\ CycleInv'
  BY StepSafe, StepCycle
<1> QED BY InitSafe, InitCycle, <1>1, PTL DEF Spec

(* With at most Count threads, no thread that was released is left behind. *)
THEOREM BarrierNobodyLeftBehind ==
  ASSUME Cardinality(Threads) <= Count
  PROVE  Spec => []NobodyLeftBehind
<1>1. CycleInv => NobodyLeftBehind
  BY DEF CycleInv
<1> QED BY BarrierCycles, <1>1, PTL

(* With at most Count threads, no thread passes the barrier for the k-th   *)
(* time before every thread has reached it k times.                        *)
THEOREM BarrierSynchronises ==
  ASSUME Cardinality(Threads) <= Count
  PROVE  Spec => []BarrierSync
<1>1. Spec => [](TypeOK /\ CycleInv)
  BY BarrierTypes, BarrierCycles, PTL
<1> QED BY <1>1, CycleSync, PTL

-----------------------------------------------------------------------------
(* When Main joins the callers before it destroys the barrier, nobody is   *)
(* inside barrier_wait, or ever enters it again, from barrier_destroy on.  *)
JoinInv ==
  /\ \A t \in Threads : status[t] = EINVAL => valid = 0
  /\ dpc = "init" => \A t \in Threads : status[t] = 0
  /\ dpc \notin {"init", "up"} => \A t \in Threads :
        pc[t] = "idle" /\ (calls[t] = MaxCalls \/ valid = 0)
  /\ mtx = "dead" => dpc \notin {"init", "up"}

LEMMA StepJoin ==
  ASSUME JoinFirst, Safe, JoinInv, [Next]_vars
  PROVE  JoinInv'
<1> USE BarrierAssumption DEF Safe, shared, callers, destroyer, history,
      BARRIER_VALID, SERIAL, EINVAL, EBUSY, EAGAIN
<1>1. ASSUME NEW t \in Threads, BarrierWait(t) PROVE JoinInv'
  BY <1>1 DEF BarrierWait, JoinInv, TypeOK
<1>2. ASSUME NEW t \in Threads, Lock(t) \/ Relock(t) PROVE JoinInv'
  BY <1>2 DEF Lock, Relock, Acquire, JoinInv, TypeOK
<1>3. ASSUME NEW t \in Threads, Arrive(t) PROVE JoinInv'
  <2>1. dpc = "up" /\ UNCHANGED <<dpc, mtx, valid>>
    BY <1>3 DEF Arrive, JoinInv, LockInv, TypeOK
  <2>2. \A u \in Threads : status'[u] = EINVAL => status[u] = EINVAL
    BY <1>3 DEF Arrive, ArriveLast, ArriveEarly, TypeOK
  <2> QED BY <2>1, <2>2 DEF JoinInv
<1>4. ASSUME NEW t \in Threads, SpuriousWakeup(t) \/ Test(t) PROVE JoinInv'
  BY <1>4 DEF SpuriousWakeup, Test, JoinInv, TypeOK
<1>5. CASE BarrierInit
  BY <1>5 DEF BarrierInit, JoinInv, LockInv
<1>6. CASE BarrierDestroy
  BY <1>6 DEF BarrierDestroy, Finished, JoinInv, TypeOK
<1>7. CASE DestroyLock \/ DestroyBody \/ DestroyMutex \/ DestroyCond
  BY <1>7 DEF DestroyLock, DestroyBody, DestroyMutex, DestroyCond, JoinInv, LockInv
<1>8. CASE UNCHANGED vars
  BY <1>8 DEF vars, JoinInv
<1> QED
  BY <1>1, <1>2, <1>3, <1>4, <1>5, <1>6, <1>7, <1>8
  DEF Next, CallerStep, MainStep, Terminated

(* Every step of the package is a step of the rendezvous, or changes       *)
(* nothing the rendezvous knows of.                                        *)
Released == {t \in Threads : Inside(t) /\ joined[t] # gen}

LEMMA StepRendezvous ==
  ASSUME Cardinality(Threads) = Count, Safe, CycleInv, JoinInv, [Next]_vars
  PROVE  [Rdv!Next]_Rdv!vars
<1> USE BarrierAssumption DEF Safe, shared, callers, destroyer, history
<1>1. ASSUME UNCHANGED <<gen, joined>>, \A t \in Threads : Inside(t)' <=> Inside(t)
      PROVE  [Rdv!Next]_Rdv!vars
  BY <1>1 DEF Rdv!vars, Current
<1>2. ASSUME NEW t \in Threads, BarrierWait(t) \/ Lock(t) \/ Relock(t) \/ SpuriousWakeup(t)
      PROVE  [Rdv!Next]_Rdv!vars
  BY <1>1, <1>2
  DEF BarrierWait, Lock, Relock, Acquire, SpuriousWakeup, Inside, TypeOK, JoinInv
<1>3. ASSUME NEW t \in Threads, Arrive(t) PROVE [Rdv!Next]_Rdv!vars
  <2>1. /\ mtx = "live" /\ t \notin Current /\ ~Inside(t)
        /\ counter = Count - Cardinality(Current)
    BY <1>3 DEF Arrive, LockInv, Current, Inside, CycleInv
  <2>2. CASE ArriveLast(t)
    <3>1. Threads = Current \cup {t}
      BY <2>1, <2>2, CurrentFinite, LastIsMissing DEF ArriveLast
    <3>2. Current' = {}
      BY <1>3, <2>1, <2>2, <3>1 DEF Arrive, ArriveLast, Current, Inside, TypeOK
    <3>3. Released' = Current
      BY <1>3, <2>1, <2>2, <3>1 DEF Arrive, ArriveLast, Current, Released, Inside, TypeOK
    <3>4. gen' = gen + 1
      BY <2>2 DEF ArriveLast
    <3> QED BY <2>1, <3>1, <3>2, <3>3, <3>4 DEF Rdv!Next, Rdv!Release, Released
  <2>3. CASE ArriveEarly(t)
    <3>1. Current' = Current \cup {t}
      BY <1>3, <2>1, <2>3 DEF Arrive, ArriveEarly, Current, Inside, TypeOK
    <3>2. Released' = Released
      BY <1>3, <2>1, <2>3 DEF Arrive, ArriveEarly, Released, Inside, TypeOK
    <3>3. Current \cup {t} # Threads
      BY <2>1, <2>3, CurrentFinite, FS_AddElement DEF ArriveEarly
    <3> QED BY <2>1, <2>3, <3>1, <3>2, <3>3 DEF ArriveEarly, Rdv!Next, Rdv!Gather, Released
  <2> QED BY <1>3, <2>2, <2>3 DEF Arrive
<1>4. ASSUME NEW t \in Threads, Test(t) PROVE [Rdv!Next]_Rdv!vars
  <2>1. CASE mine[t] = cycle
    BY <1>1, <1>4, <2>1 DEF Test, Inside, TypeOK
  <2>2. CASE mine[t] # cycle
    <3>1. t \in Released /\ Released' = Released \ {t} /\ Current' = Current
      BY <1>4, <2>2 DEF Test, Inside, Released, Current, CycleInv, TypeOK
    <3> QED BY <1>4, <3>1 DEF Test, Rdv!Next, Rdv!GoOn, Released
  <2> QED BY <2>1, <2>2
<1>5. CASE MainStep \/ BarrierDestroy \/ UNCHANGED vars
  BY <1>1, <1>5
  DEF MainStep, BarrierInit, DestroyLock, DestroyBody, DestroyMutex, DestroyCond,
      BarrierDestroy, Inside, vars
<1> QED
  BY <1>2, <1>3, <1>4, <1>5 DEF Next, CallerStep, Terminated

(* One party per thread, joined before the destroy: the package implements *)
(* the rendezvous (its safety part; its fairness is model-checked).        *)
THEOREM BarrierImplementsRendezvous ==
  ASSUME JoinFirst, Cardinality(Threads) = Count
  PROVE  Spec => ImplementsRendezvous
<1>1. Init => Rdv!Init
  BY DEF Init, Rdv!Init, Current, Inside
<1>2. Init => JoinInv
  BY DEF Init, JoinInv, EINVAL
<1>3. Safe /\ CycleInv /\ JoinInv /\ [Next]_vars
        => Safe' /\ CycleInv' /\ JoinInv' /\ [Rdv!Next]_Rdv!vars
  <2>1. Cardinality(Threads) <= Count
    BY BarrierAssumption
  <2> QED BY <2>1, StepSafe, StepCycle, StepJoin, StepRendezvous
<1> QED
  BY InitSafe, InitCycle, <1>1, <1>2, <1>3, PTL DEF Spec, ImplementsRendezvous, Rdv!Spec

-----------------------------------------------------------------------------
(***************************************************************************)
(* The program barrier_main.c.                                             *)
(***************************************************************************)
(* One thread at most returned BARRIER_SERIAL_THREAD from the same cycle.  *)
OneSerial ==
  \A t, u \in Threads :
    /\ ~Inside(t) /\ status[t] = SERIAL
    /\ ~Inside(u) /\ status[u] = SERIAL
    /\ calls[t] = calls[u]
    => t = u

MainTypes ==
  /\ stage \in [Threads -> {"none", "call1", "wait1", "compute", "call2", "wait2", "serial", "done"}]
  /\ out_loop \in [Threads -> Nat] /\ thread_num \in [Threads -> 0 .. Count]
  /\ increment \in [Threads -> Int] /\ k \in 0 .. Count
  /\ mpc \in {"init", "create", "join"} /\ aborted \in BOOLEAN

(* main destroys the barrier when every thread has ended.                  *)
Joined ==
  /\ mpc = "init" => k = 0
  /\ mpc # "join" => \A t \in Threads : t >= k => stage[t] = "none"
  /\ mpc = "join" => \A t \in Threads : t < k => stage[t] = "done"
  /\ dpc \notin {"init", "up"} => mpc = "join" /\ k = Count
  /\ mtx = "dead" => dpc \notin {"init", "up"}

(* How many calls of barrier_wait have arrived, by where the thread is.    *)
CallsOf(t, before) ==
  \/ pc[t] \in {"lock", "in"} /\ calls[t] = before
  \/ Inside(t) /\ calls[t] = before + 1
  \/ pc[t] = "idle" /\ calls[t] = before + 1 /\ status[t] \in {0, SERIAL}
  \/ pc[t] = "idle" /\ status[t] > 0

CallsMade ==
  \A t \in Threads :
    /\ stage[t] \notin {"wait1", "wait2"} => pc[t] = "idle"
    /\ stage[t] = "none" => calls[t] = 0 /\ out_loop[t] = 0
    /\ stage[t] \in {"call1", "done"} => calls[t] = 2 * out_loop[t]
    /\ stage[t] = "wait1" => CallsOf(t, 2 * out_loop[t])
    /\ stage[t] \in {"compute", "call2"} => calls[t] = 2 * out_loop[t] + 1
    /\ stage[t] = "wait2" => CallsOf(t, 2 * out_loop[t] + 1)
    /\ stage[t] = "serial" => calls[t] = 2 * out_loop[t] + 2 /\ status[t] = SERIAL
    /\ stage[t] # "serial" => thread_num[t] = 0

(* The thread that makes the serial update of a round, from its return.    *)
Updating(t) ==
  \/ stage[t] = "serial"
  \/ stage[t] = "wait2" /\ pc[t] = "idle" /\ status[t] = SERIAL

(* The increments are those of the rounds that were updated, and of the    *)
(* update that is under way.                                               *)
Increments ==
  \A t \in Threads :
    /\ \A v \in Threads : Updating(v) =>
         increment[t] = t + out_loop[v] + (IF t < thread_num[v] THEN 1 ELSE 0)
    /\ (\A v \in Threads : ~Updating(v)) => 2 * (increment[t] - t) \in {gen - 1, gen}

MainSafe ==
  /\ Safe /\ CycleInv /\ OneSerial
  /\ MainTypes /\ Joined /\ CallsMade /\ Increments

LEMMA MainStepIsStep == [MainNext]_allvars => [Next]_vars
<1> SUFFICES ASSUME [MainNext]_allvars PROVE [Next]_vars
  OBVIOUS
<1>1. CASE Main_
  BY <1>1 DEF Main_, InitBarrier, CreateThread, StartJoining, JoinThread, Destroy, Next, MainStep
<1>2. ASSUME NEW t \in Threads, Thread(t) PROVE [Next]_vars
  BY <1>2 DEF Thread, Call, InPackage, Returned, Compute, Serial, Next
<1>3. CASE Ended \/ UNCHANGED allvars
  BY <1>3 DEF Ended, allvars
<1> QED BY <1>1, <1>2, <1>3 DEF MainNext

LEMMA ThreadCount ==
  ASSUME ProgramShape
  PROVE  /\ Cardinality(Threads) = Count /\ Cardinality(Threads) <= Count /\ Count \in Nat \ {0}
         /\ \A t \in Threads : t \in Nat /\ t < Count
         /\ \A n \in Nat : n < Count => n \in Threads
<1>1. Cardinality(0 .. (Count - 1)) = Count
  BY BarrierAssumption, FS_Interval
<1> QED BY <1>1, BarrierAssumption DEF ProgramShape

(* A step of a thread inside the package: what it does to the others.      *)
LEMMA PackageStep ==
  ASSUME Safe, NEW t \in Threads, CallerStep(t) \/ SpuriousWakeup(t)
  PROVE  /\ pc[t] # "idle" /\ dpc' = dpc
         /\ \A u \in Threads \ {t} :
              /\ calls'[u] = calls[u] /\ status'[u] = status[u]
              /\ Inside(u)' <=> Inside(u)
              /\ pc'[u] = pc[u] \/ (pc[u] = "sleep" /\ pc'[u] = "wake")
         /\ \A b \in Nat : CallsOf(t, b) => CallsOf(t, b)'
         /\ gen' = gen \/ (Arrive(t) /\ ArriveLast(t))
         /\ gen' = gen /\ pc'[t] = "idle" => status'[t] # SERIAL
<1> USE DEF Safe, shared, callers, destroyer, history, SERIAL, EINVAL
<1>1. CASE Arrive(t)
  <2>1. CASE ArriveLast(t)
    BY <1>1, <2>1 DEF Arrive, ArriveLast, Inside, CallsOf, TypeOK
  <2>2. CASE ArriveEarly(t)
    BY <1>1, <2>2 DEF Arrive, ArriveEarly, Inside, CallsOf, TypeOK
  <2> QED BY <1>1, <2>1, <2>2 DEF Arrive
<1>2. CASE Lock(t) \/ Relock(t)
  BY <1>2 DEF Lock, Relock, Acquire, Inside, CallsOf, TypeOK
<1>3. CASE Test(t)
  BY <1>3 DEF Test, Inside, CallsOf, TypeOK
<1>4. CASE SpuriousWakeup(t)
  BY <1>4 DEF SpuriousWakeup, Inside, CallsOf, TypeOK
<1> QED BY <1>1, <1>2, <1>3, <1>4 DEF CallerStep

LEMMA StepOneSerial ==
  ASSUME Cardinality(Threads) <= Count, Safe, CycleInv, OneSerial, [Next]_vars
  PROVE  OneSerial'
<1> USE DEF shared, callers, destroyer, history
<1>1. ASSUME NEW t \in Threads, CallerStep(t) \/ SpuriousWakeup(t) PROVE OneSerial'
  <2>1. CASE gen' = gen
    <3>1. ASSUME ~Inside(t)', status'[t] = SERIAL PROVE ~Inside(t) /\ status[t] = SERIAL /\ calls'[t] = calls[t]
      BY <1>1, <2>1, <3>1
      DEF CallerStep, SpuriousWakeup, Lock, Relock, Acquire, Test, Arrive, ArriveLast,
          ArriveEarly, Inside,
          Safe, TypeOK, SERIAL, EINVAL
    <3> QED BY <1>1, <3>1, PackageStep DEF OneSerial
  <2>2. CASE Arrive(t) /\ ArriveLast(t)
    <3>1. mtx = "live" /\ t \notin Current
      BY <2>2, BarrierAssumption DEF Arrive, Safe, LockInv, Current, Inside
    <3>2. calls[t] = gen /\ calls'[t] = gen + 1
      BY <2>2, <3>1 DEF Arrive, CycleInv, Safe, TypeOK
    <3>3. \A u \in Threads : ~Inside(u) => calls[u] = gen
      BY <3>1 DEF CycleInv, Current
    <3>4. gen \in Nat
      BY DEF Safe, TypeOK
    <3> QED BY <1>1, <3>2, <3>3, <3>4, PackageStep DEF OneSerial
  <2> QED BY <1>1, <2>1, <2>2, PackageStep
<1>2. ASSUME NEW t \in Threads, BarrierWait(t) PROVE OneSerial'
  <2>1. \A u \in Threads : status'[u] = SERIAL => status[u] = SERIAL /\ calls'[u] = calls[u] /\ (Inside(u)' <=> Inside(u))
    BY <1>2 DEF BarrierWait, Inside, Safe, TypeOK, SERIAL, EINVAL
  <2> QED BY <2>1 DEF OneSerial
<1>3. CASE MainStep \/ BarrierDestroy \/ UNCHANGED vars
  BY <1>3 DEF MainStep, BarrierInit, DestroyLock, DestroyBody, DestroyMutex, DestroyCond,
     BarrierDestroy, vars, OneSerial, Inside
<1> QED BY <1>1, <1>2, <1>3 DEF Next, Terminated

LEMMA InitMain ==
  ASSUME ProgramShape
  PROVE  MainInit => OneSerial /\ MainTypes /\ Joined /\ CallsMade /\ Increments
<1> SUFFICES ASSUME MainInit PROVE OneSerial /\ MainTypes /\ Joined /\ CallsMade /\ Increments
  OBVIOUS
<1> USE ThreadCount
<1>1. OneSerial
  BY DEF MainInit, Init, OneSerial, SERIAL
<1>2. MainTypes
  <2>1. 0 \in 0 .. Count /\ \A t \in Threads : t \in Int
    OBVIOUS
  <2> QED BY <2>1 DEF MainInit, MainTypes
<1>3. Joined
  BY DEF MainInit, Init, Joined
<1>4. CallsMade
  BY DEF MainInit, Init, CallsMade
<1>5. Increments
  BY DEF MainInit, Init, Increments, Updating
<1> QED BY <1>1, <1>2, <1>3, <1>4, <1>5

LEMMA StepMainTypes ==
  ASSUME ProgramShape, MainTypes, [MainNext]_allvars
  PROVE  MainTypes'
<1> USE DEF client, mainvars
<1>0. /\ Count \in Nat \ {0} /\ \A n \in Nat : n < Count => n \in Threads
      /\ out_loop \in [Threads -> Nat] /\ k \in 0 .. Count
      /\ stage \in [Threads -> {"none", "call1", "wait1", "compute", "call2", "wait2", "serial", "done"}]
  BY ThreadCount DEF MainTypes
<1>1. ASSUME NEW t \in Threads, Call(t) \/ InPackage(t) \/ Compute(t) PROVE MainTypes'
  BY <1>1 DEF Call, InPackage, Compute, Goto, MainTypes
<1>2. ASSUME NEW t \in Threads, Returned(t) PROVE MainTypes'
  <2>1. UNCHANGED <<thread_num, increment, mpc, k>> /\ aborted' \in BOOLEAN
    BY <1>2 DEF Returned, MainTypes
  <2>2. stage' \in [Threads -> {"none", "call1", "wait1", "compute", "call2", "wait2", "serial", "done"}]
    BY <1>0, <1>2 DEF Returned, NextRound, Goto
  <2>3. out_loop' \in [Threads -> Nat]
    BY <1>0, <1>2 DEF Returned, NextRound
  <2> QED BY <2>1, <2>2, <2>3 DEF MainTypes
<1>3. ASSUME NEW t \in Threads, Serial(t) PROVE MainTypes'
  <2>1. UNCHANGED <<k, mpc, aborted>>
    BY <1>3 DEF Serial
  <2>2. CASE thread_num[t] < Count
    <3>1. thread_num[t] + 1 \in 0 .. Count /\ thread_num[t] \in Threads
      BY <1>0, <2>2 DEF MainTypes
    <3> QED BY <1>3, <2>1, <2>2, <3>1 DEF Serial, MainTypes
  <2>3. CASE thread_num[t] = Count
    BY <1>0, <1>3, <2>1, <2>3 DEF Serial, NextRound, Goto, MainTypes
  <2> QED BY <1>3, <2>2, <2>3 DEF Serial
<1>4. CASE Main_
  <2>1. CASE InitBarrier \/ StartJoining \/ Destroy
    BY <1>0, <2>1 DEF InitBarrier, StartJoining, Destroy, MainTypes
  <2>2. CASE CreateThread
    <3>1. /\ UNCHANGED <<out_loop, thread_num, increment, mpc>>
          /\ aborted' \in BOOLEAN
      BY <2>2 DEF CreateThread, MainTypes
    <3>2. k' \in 0 .. Count
      BY <1>0, <2>2 DEF CreateThread
    <3>3. stage' \in [Threads -> {"none", "call1", "wait1", "compute", "call2", "wait2", "serial", "done"}]
      BY <1>0, <2>2 DEF CreateThread, Goto
    <3> QED BY <3>1, <3>2, <3>3 DEF MainTypes
  <2>3. CASE JoinThread
    BY <1>0, <2>3 DEF JoinThread, MainTypes
  <2> QED BY <1>4, <2>1, <2>2, <2>3 DEF Main_
<1>5. CASE Ended \/ UNCHANGED allvars
  BY <1>5 DEF Ended, allvars, MainTypes
<1> QED BY <1>1, <1>2, <1>3, <1>4, <1>5 DEF MainNext, Thread

LEMMA StepJoined ==
  ASSUME ProgramShape, Safe, MainTypes, Joined, CallsMade, [MainNext]_allvars
  PROVE  Joined'
<1> USE ThreadCount DEF client, mainvars, vars, shared, callers, destroyer, history
<1>1. ASSUME NEW t \in Threads, Thread(t)
      PROVE  /\ UNCHANGED <<k, mpc, dpc, mtx>>
             /\ stage[t] # "none" \/ stage' = stage
             /\ stage[t] # "done" \/ stage' = stage
             /\ \A u \in Threads \ {t} : stage'[u] = stage[u]
  <2>1. CASE Call(t)
    BY <2>1 DEF Call, BarrierWait, Goto, MainTypes
  <2>2. CASE InPackage(t)
    BY <2>2 DEF InPackage, CallerStep, Lock, Arrive, Relock, Acquire, Test, SpuriousWakeup
  <2>3. CASE Returned(t)
    BY <2>3 DEF Returned, NextRound, Goto, MainTypes
  <2>4. CASE Compute(t) \/ Serial(t)
    BY <2>4 DEF Compute, Serial, NextRound, Goto, MainTypes
  <2> QED BY <1>1, <2>1, <2>2, <2>3, <2>4 DEF Thread
<1>2. ASSUME NEW t \in Threads, Thread(t) PROVE Joined'
  BY <1>1, <1>2 DEF Joined
<1>3. CASE InitBarrier \/ StartJoining \/ JoinThread
  BY <1>3 DEF InitBarrier, BarrierInit, StartJoining, JoinThread, Joined, MainTypes
<1>4. CASE CreateThread
  BY <1>4 DEF CreateThread, Goto, Joined, MainTypes
<1>5. CASE Destroy
  BY <1>5 DEF Destroy, MainStep, BarrierInit, DestroyLock, DestroyBody, DestroyMutex, DestroyCond,
     BarrierDestroy, Joined, Safe, LockInv
<1>6. CASE Ended \/ UNCHANGED allvars
  BY <1>6 DEF Ended, allvars, Joined
<1> QED BY <1>2, <1>3, <1>4, <1>5, <1>6 DEF MainNext, Main_

LEMMA StepCallsMade ==
  ASSUME ProgramShape, Safe, MainTypes, Joined, CallsMade, [MainNext]_allvars
  PROVE  CallsMade'
<1> USE ThreadCount DEF client, mainvars
<1>0. /\ pc \in [Threads -> {"idle", "lock", "in", "sleep", "wake", "test"}]
      /\ status \in [Threads -> {0, SERIAL, EINVAL}] /\ calls \in [Threads -> Nat]
      /\ out_loop \in [Threads -> Nat] /\ thread_num \in [Threads -> 0 .. Count]
  BY DEF Safe, TypeOK, MainTypes
<1>1. ASSUME NEW t \in Threads, Call(t) PROVE CallsMade'
  BY <1>0, <1>1
  DEF Call, BarrierWait, Goto, CallsMade, CallsOf, Inside, MainTypes, shared, destroyer, history,
      EINVAL, SERIAL
<1>2. ASSUME NEW t \in Threads, InPackage(t) PROVE CallsMade'
  <2>1. CallerStep(t) \/ SpuriousWakeup(t)
    BY <1>2 DEF InPackage
  <2>2. UNCHANGED <<stage, out_loop, thread_num>>
    BY <1>2 DEF InPackage
  <2>3. stage[t] \in {"wait1", "wait2"}
    BY <2>1, PackageStep DEF CallsMade
  <2>4. \A b \in Nat : CallsOf(t, b) => CallsOf(t, b)'
    BY <2>1, PackageStep
  <2>5. ASSUME NEW u \in Threads \ {t}
        PROVE  /\ pc[u] = "idle" => pc'[u] = "idle"
               /\ calls'[u] = calls[u] /\ status'[u] = status[u]
               /\ \A b \in Nat : CallsOf(u, b) => CallsOf(u, b)'
    BY <2>1, PackageStep DEF CallsOf, Inside
  <2>6. 2 * out_loop[t] \in Nat /\ 2 * out_loop[t] + 1 \in Nat
    BY <1>0
  <2>7. ASSUME NEW u \in Threads
        PROVE  2 * out_loop[u] \in Nat /\ 2 * out_loop[u] + 1 \in Nat
    BY <1>0
  <2> QED BY <2>2, <2>3, <2>4, <2>5, <2>6, <2>7 DEF CallsMade
<1>3. ASSUME NEW t \in Threads, Returned(t) PROVE CallsMade'
  BY <1>0, <1>3
  DEF Returned, NextRound, Goto, CallsMade, CallsOf, Inside, MainTypes, vars, shared, callers,
      history, EINVAL, SERIAL
<1>4. ASSUME NEW t \in Threads, Compute(t) PROVE CallsMade'
  BY <1>0, <1>4 DEF Compute, Goto, CallsMade, CallsOf, Inside, MainTypes, vars, callers, history
<1>5. ASSUME NEW t \in Threads, Serial(t) PROVE CallsMade'
  BY <1>0, <1>5 DEF Serial, NextRound, Goto, CallsMade, CallsOf, Inside, MainTypes, vars, callers,
     history
<1>6. CASE CreateThread
  BY <1>0, <1>6 DEF CreateThread, Goto, Joined, CallsMade, CallsOf, Inside, MainTypes, vars,
     callers, history
<1>7. CASE InitBarrier \/ StartJoining \/ JoinThread \/ Destroy \/ Ended \/ UNCHANGED allvars
  <2>1. UNCHANGED <<pc, calls, status, stage, out_loop, thread_num>>
    BY <1>7 DEF InitBarrier, StartJoining, JoinThread, Destroy, Ended, allvars, vars, callers,
       history, MainStep, BarrierInit, DestroyLock, DestroyBody, DestroyMutex, DestroyCond,
       BarrierDestroy
  <2> QED BY <2>1 DEF CallsMade, CallsOf, Inside
<1> QED BY <1>1, <1>2, <1>3, <1>4, <1>5, <1>6, <1>7 DEF MainNext, Thread, Main_

(* A thread that is outside the barrier, before the program has ended, has *)
(* called it as often as the barrier was passed.                           *)
LEMMA OutsideCalls ==
  ASSUME ProgramShape, MainTypes, Joined, CycleInv, NEW t \in Threads, stage[t] # "done"
  PROVE  mtx # "dead" /\ \A u \in Threads : ~Inside(u) => calls[u] = gen
<1>1. t < Count
  BY ThreadCount
<1>2. mtx # "dead"
  BY <1>1 DEF Joined
<1> QED BY <1>2 DEF CycleInv, Current

LEMMA UpdatingCalls ==
  ASSUME ProgramShape, Safe, MainTypes, Joined, CycleInv, CallsMade, NEW t \in Threads, Updating(t)
  PROVE  /\ ~Inside(t) /\ pc[t] = "idle" /\ status[t] = SERIAL
         /\ calls[t] = gen /\ gen = 2 * out_loop[t] + 2
         /\ stage[t] # "serial" => thread_num[t] = 0
<1>1. stage[t] # "done" /\ ~Inside(t) /\ pc[t] = "idle" /\ status[t] = SERIAL
  BY DEF Updating, CallsMade, Inside
<1>2. calls[t] = 2 * out_loop[t] + 2
  <2>1. out_loop[t] \in Nat
    BY DEF MainTypes
  <2> QED BY <1>1, <2>1 DEF Updating, CallsMade, CallsOf, SERIAL
<1> QED BY <1>1, <1>2, OutsideCalls DEF CallsMade

LEMMA OneUpdating ==
  ASSUME ProgramShape, Safe, MainTypes, Joined, CycleInv, CallsMade, OneSerial,
         NEW t \in Threads, Updating(t), NEW u \in Threads, Updating(u)
  PROVE  t = u
BY UpdatingCalls DEF OneSerial

(* Two variables that are enough to tell who is updating.                  *)
LEMMA SameUpdate ==
  ASSUME Increments, UNCHANGED <<gen, increment>>,
         \A t \in Threads : /\ Updating(t)' <=> Updating(t)
                            /\ Updating(t) => out_loop'[t] = out_loop[t] /\ thread_num'[t] = thread_num[t]
  PROVE  Increments'
BY DEF Increments

LEMMA Half ==
  ASSUME NEW x \in Int, NEW i \in Int, NEW o \in Int, 2 * (x - i) \in {2 * o, 2 * o + 1}
  PROVE  x = i + o
OBVIOUS

(* The last arrival at the second barrier of a round makes its thread the  *)
(* updating one.                                                           *)
LEMMA LastArrival ==
  ASSUME ProgramShape, Safe, MainTypes, Joined, CycleInv, CallsMade, Increments,
         NEW t \in Threads, Arrive(t), ArriveLast(t),
         UNCHANGED <<stage, out_loop, thread_num, increment>>
  PROVE  Increments'
<1>1. /\ mtx = "live" /\ t \notin Current /\ pc[t] = "in"
      /\ counter = Count - Cardinality(Current)
  BY BarrierAssumption DEF Arrive, Safe, LockInv, Current, Inside, CycleInv
<1>2. Threads = Current \cup {t}
  BY <1>1, CurrentFinite, LastIsMissing, ThreadCount DEF ArriveLast
<1>3. \A u \in Threads \ {t} : Inside(u) /\ Inside(u)' /\ ~Updating(u) /\ ~Updating(u)'
  <2> SUFFICES ASSUME NEW u \in Threads \ {t}
               PROVE  Inside(u) /\ Inside(u)' /\ ~Updating(u) /\ ~Updating(u)'
    OBVIOUS
  <2>1. Inside(u) /\ Inside(u)'
    BY <1>2, PackageStep DEF Current, CallerStep
  <2>2. stage[u] # "serial"
    BY <2>1 DEF Inside, CallsMade
  <2> QED BY <2>1, <2>2 DEF Inside, Updating
<1>4. ~Updating(t) /\ stage[t] \in {"wait1", "wait2"} /\ thread_num[t] = 0
  BY <1>1 DEF Updating, CallsMade
<1>5. gen' = gen + 1 /\ pc'[t] = "idle" /\ status'[t] = SERIAL /\ gen \in Nat /\ out_loop[t] \in Nat
  BY DEF ArriveLast, Safe, TypeOK, MainTypes
<1>6. calls[t] = gen
  BY <1>1 DEF CycleInv
<1>7. ASSUME NEW i \in Threads
      PROVE  i \in Int /\ increment[i] \in Int /\ 2 * (increment[i] - i) \in {gen - 1, gen}
  BY <1>3, <1>4, ThreadCount DEF Increments, MainTypes
<1>8. CASE stage[t] = "wait1"
  <2>1. gen = 2 * out_loop[t]
    BY <1>1, <1>6, <1>8 DEF CallsMade, CallsOf, Inside
  <2>2. ~Updating(t)'
    BY <1>8 DEF Updating
  <2>3. ASSUME NEW i \in Threads PROVE 2 * (increment'[i] - i) \in {gen' - 1, gen'}
    BY <1>5, <1>7, <2>1
  <2> QED BY <1>3, <2>2, <2>3 DEF Increments
<1>9. CASE stage[t] = "wait2"
  <2>1. gen = 2 * out_loop[t] + 1
    BY <1>1, <1>6, <1>9 DEF CallsMade, CallsOf, Inside
  <2>2. Updating(t)'
    BY <1>5, <1>9 DEF Updating
  <2>3. ASSUME NEW i \in Threads
        PROVE  increment'[i] = i + out_loop'[t] + (IF i < thread_num'[t] THEN 1 ELSE 0)
    <3>1. increment[i] = i + out_loop[t]
      <4>1. 2 * (increment[i] - i) \in {2 * out_loop[t], 2 * out_loop[t] + 1}
        BY <1>5, <1>7, <2>1
      <4> QED BY <1>5, <1>7, <4>1, Half
    <3>2. ~(i < 0)
      BY ThreadCount
    <3> QED BY <1>4, <1>7, <1>5, <3>1, <3>2
  <2> QED BY <1>3, <2>2, <2>3 DEF Increments
<1> QED BY <1>4, <1>8, <1>9

LEMMA StepIncrements ==
  ASSUME ProgramShape, Safe, MainTypes, Joined, CycleInv, CallsMade, OneSerial, Increments,
         [MainNext]_allvars
  PROVE  Increments'
<1> USE DEF client, mainvars
<1>0. /\ pc \in [Threads -> {"idle", "lock", "in", "sleep", "wake", "test"}]
      /\ status \in [Threads -> {0, SERIAL, EINVAL}] /\ SERIAL # EINVAL /\ SERIAL # 0
      /\ stage \in [Threads -> {"none", "call1", "wait1", "compute", "call2", "wait2", "serial", "done"}]
      /\ out_loop \in [Threads -> Nat] /\ thread_num \in [Threads -> 0 .. Count]
      /\ increment \in [Threads -> Int] /\ gen \in Nat /\ Count \in Nat
  BY BarrierAssumption DEF Safe, TypeOK, MainTypes, SERIAL, EINVAL
<1>1. ASSUME NEW t \in Threads, Call(t) PROVE Increments'
  <2>1. UNCHANGED <<gen, increment, out_loop, thread_num>> /\ stage[t] \in {"call1", "call2"}
    BY <1>1 DEF Call, BarrierWait, history
  <2>2. ~Updating(t) /\ ~Updating(t)'
    BY <1>0, <1>1 DEF Call, BarrierWait, Goto, Updating
  <2>3. \A u \in Threads \ {t} : Updating(u)' <=> Updating(u)
    BY <1>0, <1>1 DEF Call, BarrierWait, Goto, Updating
  <2> QED BY <2>1, <2>2, <2>3, SameUpdate
<1>2. ASSUME NEW t \in Threads, InPackage(t) PROVE Increments'
  <2>1. (CallerStep(t) \/ SpuriousWakeup(t)) /\ UNCHANGED <<stage, out_loop, thread_num, increment>>
    BY <1>2 DEF InPackage
  <2>2. CASE gen' = gen
    <3>1. ~Updating(t) /\ ~Updating(t)'
      BY <2>1, <2>2, PackageStep DEF Updating, CallsMade
    <3>2. \A u \in Threads \ {t} : Updating(u)' <=> Updating(u)
      BY <2>1, PackageStep DEF Updating
    <3> QED BY <2>1, <2>2, <3>1, <3>2, SameUpdate
  <2>3. CASE Arrive(t) /\ ArriveLast(t)
    BY <2>1, <2>3, LastArrival
  <2> QED BY <2>1, <2>2, <2>3, PackageStep
<1>3. ASSUME NEW t \in Threads, Returned(t) PROVE Increments'
  <2>1. UNCHANGED <<gen, increment, thread_num, pc, status>>
    BY <1>3 DEF Returned, vars, callers, history
  <2>2. Updating(t)' <=> Updating(t)
    BY <1>0, <1>3, <2>1 DEF Returned, NextRound, Goto, Updating, SERIAL
  <2>3. Updating(t) => out_loop' = out_loop
    BY <1>0, <1>3 DEF Returned, Updating
  <2>4. \A u \in Threads \ {t} : (Updating(u)' <=> Updating(u)) /\ out_loop'[u] = out_loop[u]
    BY <1>0, <1>3, <2>1 DEF Returned, NextRound, Goto, Updating
  <2> QED BY <2>1, <2>2, <2>3, <2>4, SameUpdate
<1>4. ASSUME NEW t \in Threads, Compute(t) PROVE Increments'
  <2>1. UNCHANGED <<gen, increment, thread_num, out_loop, pc, status>>
    BY <1>4 DEF Compute, vars, callers, history
  <2>2. \A u \in Threads : Updating(u)' <=> Updating(u)
    BY <1>0, <1>4, <2>1 DEF Compute, Goto, Updating
  <2> QED BY <2>1, <2>2, SameUpdate
<1>5. ASSUME NEW t \in Threads, Serial(t) PROVE Increments'
  <2>1. Updating(t) /\ UNCHANGED <<gen, pc, status>> /\ stage[t] = "serial"
    BY <1>5 DEF Serial, Updating, vars, callers, history
  <2>2. gen = 2 * out_loop[t] + 2 /\ \A u \in Threads : Updating(u) => u = t
    BY <2>1, UpdatingCalls, OneUpdating
  <2>3. \A i \in Threads : increment[i] = i + out_loop[t] + (IF i < thread_num[t] THEN 1 ELSE 0)
    BY <2>1 DEF Increments
  <2>4. \A i \in Threads : i \in Nat /\ i < Count /\ increment[i] \in Int
    BY <1>0, ThreadCount
  <2>5. CASE thread_num[t] < Count
    <3>1. /\ increment' = [increment EXCEPT ![thread_num[t]] = @ + 1]
          /\ thread_num' = [thread_num EXCEPT ![t] = @ + 1] /\ UNCHANGED <<stage, out_loop>>
      <4>1. thread_num[t] # Count
        BY <1>0, <2>5
      <4> QED BY <1>5, <4>1 DEF Serial
    <3>2. \A u \in Threads : Updating(u)' <=> Updating(u)
      BY <2>1, <3>1 DEF Updating
    <3>3. thread_num[t] \in Nat /\ thread_num'[t] = thread_num[t] + 1 /\ out_loop'[t] = out_loop[t]
      BY <1>0, <3>1
    <3>4. ASSUME NEW i \in Threads
          PROVE  increment'[i] = i + out_loop[t] + (IF i < thread_num[t] + 1 THEN 1 ELSE 0)
      <4>1. CASE i = thread_num[t]
        BY <1>0, <2>3, <2>4, <3>1, <3>3, <4>1
      <4>2. CASE i # thread_num[t]
        BY <1>0, <2>3, <2>4, <3>1, <3>3, <4>2
      <4> QED BY <4>1, <4>2
    <3> QED BY <2>1, <2>2, <3>2, <3>3, <3>4 DEF Increments
  <2>6. CASE thread_num[t] = Count
    <3>1. increment' = increment /\ stage' = [stage EXCEPT ![t] = IF out_loop[t] + 1 < OUTLOOPS THEN "call1" ELSE "done"]
      <4>1. ~(thread_num[t] < Count)
        BY <1>0, <2>6
      <4> QED BY <1>5, <4>1 DEF Serial, NextRound, Goto
    <3>2. \A u \in Threads : ~Updating(u)'
      BY <1>0, <2>1, <2>2, <3>1 DEF Updating
    <3>3. ASSUME NEW i \in Threads PROVE 2 * (increment'[i] - i) \in {gen' - 1, gen'}
      <4>1. increment'[i] = i + out_loop[t] + 1
        BY <2>3, <2>4, <2>6, <3>1
      <4>2. out_loop[t] \in Nat /\ gen' = 2 * out_loop[t] + 2
        BY <1>0, <2>1, <2>2
      <4> QED BY <2>4, <4>1, <4>2
    <3> QED BY <3>2, <3>3 DEF Increments
  <2> QED BY <1>5, <2>5, <2>6 DEF Serial
<1>6. CASE CreateThread
  <2>1. /\ UNCHANGED <<gen, increment, thread_num, out_loop, pc, status>>
        /\ stage' = stage \/ (k \in Threads /\ stage[k] = "none" /\ \E s \in {"call1", "done"} :
                                                stage' = [stage EXCEPT ![k] = s])
    BY <1>6, ThreadCount DEF CreateThread, Goto, vars, callers, history, Joined, MainTypes
  <2>2. \A u \in Threads : Updating(u)' <=> Updating(u)
    BY <1>0, <2>1 DEF Updating
  <2> QED BY <2>1, <2>2, SameUpdate
<1>7. CASE InitBarrier \/ StartJoining \/ JoinThread \/ Destroy \/ Ended \/ UNCHANGED allvars
  <2>1. UNCHANGED <<pc, gen, status, stage, out_loop, thread_num, increment>>
    BY <1>7 DEF InitBarrier, StartJoining, JoinThread, Destroy, Ended, allvars, vars, callers,
       history, MainStep, BarrierInit, DestroyLock, DestroyBody, DestroyMutex, DestroyCond,
       BarrierDestroy
  <2> QED BY <2>1, SameUpdate DEF Updating
<1> QED BY <1>1, <1>2, <1>3, <1>4, <1>5, <1>6, <1>7 DEF MainNext, Thread, Main_

LEMMA MainSafeApart ==
  ASSUME ProgramShape, MainSafe
  PROVE  RoundsApart
<1> USE DEF MainSafe
<1>0. /\ \A t \in Threads : out_loop[t] \in Nat /\ t \in Nat /\ increment[t] \in Int
      /\ gen \in Nat
  BY ThreadCount DEF MainTypes, Safe, TypeOK
<1>1. ASSUME NEW t \in Threads, stage[t] = "compute" PROVE increment[t] = t + out_loop[t]
  <2>1. ~Inside(t) /\ calls[t] = 2 * out_loop[t] + 1
    BY <1>1 DEF CallsMade, Inside
  <2>2. gen = 2 * out_loop[t] + 1
    BY <1>1, <2>1, OutsideCalls
  <2>3. \A v \in Threads : ~Updating(v)
    <3>1. \A v \in Threads : Updating(v) => gen = 2 * out_loop[v] + 2
      BY UpdatingCalls
    <3> QED BY <1>0, <2>2, <3>1
  <2>4. 2 * (increment[t] - t) \in {2 * out_loop[t], 2 * out_loop[t] + 1}
    BY <1>0, <2>2, <2>3 DEF Increments
  <2> QED BY <1>0, <2>4, Half
<1>2. ASSUME NEW t \in Threads, NEW u \in Threads, stage[t] = "serial", u # t
      PROVE  stage[u] \in {"wait2", "call1", "wait1", "done"}
  <2>1. Updating(t) /\ gen = 2 * out_loop[t] + 2
    BY <1>2, UpdatingCalls DEF Updating
  <2>2. stage[u] # "serial"
    BY <1>2, <2>1, OneUpdating DEF Updating
  <2>3. ASSUME stage[u] \in {"none", "compute", "call2"} PROVE FALSE
    <3>1. ~Inside(u) /\ calls[u] \in {0, 2 * out_loop[u] + 1}
      BY <2>3 DEF CallsMade, Inside
    <3>2. calls[u] = gen
      BY <1>2, <3>1, OutsideCalls
    <3> QED BY <1>0, <2>1, <3>1, <3>2
  <2> QED BY <2>2, <2>3 DEF MainTypes
<1> QED BY <1>1, <1>2 DEF RoundsApart

(* Rounds stay apart in barrier_main.c, for every number of threads and of *)
(* rounds: the parallel work uses the increments of its own round, and     *)
(* nobody works or updates while one thread updates.                       *)
THEOREM BarrierMainRoundsApart ==
  ASSUME ProgramShape
  PROVE  MainInit /\ [][MainNext]_allvars => []RoundsApart
<1>1. MainInit => MainSafe
  BY InitSafe, InitCycle, InitMain DEF MainInit, MainSafe
<1>2. MainSafe /\ [MainNext]_allvars => MainSafe'
  BY ThreadCount, MainStepIsStep, StepSafe, StepCycle, StepOneSerial, StepMainTypes, StepJoined,
     StepCallsMade, StepIncrements DEF MainSafe
<1>3. MainSafe => RoundsApart
  BY MainSafeApart
<1> QED BY <1>1, <1>2, <1>3, PTL
=============================================================================

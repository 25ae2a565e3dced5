----------------------------- MODULE RwlockProof -----------------------------
(***************************************************************************)
(* Proofs about the read-write lock package, for every set of threads.     *)
(***************************************************************************)
EXTENDS Rwlock, FiniteSetTheorems, TLAPS

Safe == TypeOK /\ Protocol /\ Counting

(* Owners and waiters are finite sets, so the counters can count them.     *)
LEMMA SetsFinite ==
  /\ \A m : IsFiniteSet(Owners(m)) /\ Cardinality(Owners(m)) \in Nat
  /\ \A o : IsFiniteSet(Waiters(o)) /\ Cardinality(Waiters(o)) \in Nat
<1>1. ASSUME NEW S \in SUBSET Threads
      PROVE  IsFiniteSet(S) /\ Cardinality(S) \in Nat
  BY RwlockAssumption, FS_Subset, FS_CardinalityType
<1> QED BY <1>1 DEF Owners, Waiters

(* Adding a new element to a finite set, or removing one of its elements,  *)
(* changes its cardinality by one.                                         *)
LEMMA Grow ==
  ASSUME NEW S, IsFiniteSet(S), NEW x, x \notin S
  PROVE  Cardinality(S \cup {x}) = Cardinality(S) + 1
BY FS_AddElement

LEMMA Shrink ==
  ASSUME NEW S, IsFiniteSet(S), NEW x \in S
  PROVE  Cardinality(S \ {x}) = Cardinality(S) - 1
BY FS_RemoveElement

(* A finite set with no elements counted is empty.                         *)
LEMMA ZeroEmpty ==
  ASSUME NEW S, IsFiniteSet(S)
  PROVE  Cardinality(S) = 0 <=> S = {}
BY FS_EmptySet

(* In the initial state the lock is not initialised and nobody uses it.    *)
LEMMA InitSafe == Init => Safe
<1> SUFFICES ASSUME Init PROVE Safe
  OBVIOUS
<1>1. TypeOK
  BY DEF Init, TypeOK, LockOps
<1>2. Protocol
  BY DEF Init, Protocol, InCall, RWLOCK_VALID
<1>3. /\ Owners("read") = {} /\ Owners("write") = {}
      /\ Waiters("readlock") = {} /\ Waiters("writelock") = {}
  BY DEF Init, Owners, Waiters
<1>4. Counting
  BY <1>3, FS_EmptySet DEF Init, Counting
<1> QED BY <1>1, <1>2, <1>4 DEF Safe

(* The types and the protocol of the calls are kept by every step.         *)
LEMMA StepProtocol ==
  ASSUME Safe, [Next]_vars
  PROVE  Protocol' /\ (r_wait' \in Nat /\ w_wait' \in Nat /\ r_active' \in Nat => TypeOK')
<1> USE DEF Safe, callers, destroyer, counters, LockOps, UnlockOps,
      RWLOCK_VALID, EINVAL, EBUSY, EAGAIN, NoOtherChange, Locked, Return, Own,
      Sleep, InCall
<1> DEFINE Goal == Protocol' /\ (r_wait' \in Nat /\ w_wait' \in Nat /\ r_active' \in Nat => TypeOK')
<1>1. ASSUME NEW t \in Threads, NEW o \in LockOps \cup UnlockOps, Call(t, o) PROVE Goal
  BY <1>1 DEF Call, Owed, TypeOK, Protocol
<1>2. ASSUME NEW t \in Threads, ReadLock(t) PROVE Goal
  BY <1>2 DEF ReadLock, TypeOK, Protocol
<1>3. ASSUME NEW t \in Threads, ReadWoken(t) PROVE Goal
  BY <1>3 DEF ReadWoken, TypeOK, Protocol
<1>4. ASSUME NEW t \in Threads, ReadTryLock(t) PROVE Goal
  BY <1>4 DEF ReadTryLock, TypeOK, Protocol
<1>5. ASSUME NEW t \in Threads, ReadUnlock(t) PROVE Goal
  BY <1>5 DEF ReadUnlock, SignalOne, ReturnWaking, Asleep, TypeOK, Protocol
<1>6. ASSUME NEW t \in Threads, WriteLock(t) PROVE Goal
  BY <1>6 DEF WriteLock, TypeOK, Protocol
<1>7. ASSUME NEW t \in Threads, WriteWoken(t) PROVE Goal
  BY <1>7 DEF WriteWoken, TypeOK, Protocol
<1>8. ASSUME NEW t \in Threads, WriteTryLock(t) PROVE Goal
  BY <1>8 DEF WriteTryLock, TypeOK, Protocol
<1>9. ASSUME NEW t \in Threads, WriteUnlock(t) PROVE Goal
  BY <1>9 DEF WriteUnlock, SignalOne, Broadcast, ReturnWaking, Asleep, TypeOK, Protocol
<1>10. ASSUME NEW t \in Threads, LockFailed(t) PROVE Goal
  BY <1>10 DEF LockFailed, TypeOK, Protocol
<1>11. ASSUME NEW t \in Threads, WaitFailed(t) PROVE Goal
  BY <1>11 DEF WaitFailed, TypeOK, Protocol
<1>12. ASSUME NEW t \in Threads, Cleanup(t) PROVE Goal
  BY <1>12 DEF Cleanup, TypeOK, Protocol
<1>13. ASSUME NEW t \in Threads, SpuriousWakeup(t) \/ Cancel(t) PROVE Goal
  BY <1>13 DEF SpuriousWakeup, Cancel, TypeOK, Protocol
<1>14. CASE RwlInit
  BY <1>14 DEF RwlInit, TypeOK, Protocol
<1>15. CASE RwlDestroy \/ DestroyBody \/ DestroyMutex \/ DestroyConds
  BY <1>15 DEF RwlDestroy, DestroyBody, DestroyMutex, DestroyConds, TypeOK, Protocol
<1>16. CASE UNCHANGED vars
  BY <1>16 DEF vars, TypeOK, Protocol
<1> QED
  BY <1>1, <1>2, <1>3, <1>4, <1>5, <1>6, <1>7, <1>8, <1>9, <1>10, <1>11,
     <1>12, <1>13, <1>14, <1>15, <1>16 DEF Next, Section, MainStep, Terminated

(* Every step keeps the counters equal to what they count.                 *)
LEMMA StepCounting ==
  ASSUME Safe, [Next]_vars
  PROVE  Counting' /\ r_wait' \in Nat /\ w_wait' \in Nat /\ r_active' \in Nat
<1> USE DEF Safe, callers, destroyer, counters, NoOtherChange, Locked, Return,
      Own, Sleep, EINVAL, EBUSY
<1> DEFINE R == Owners("read")
           W == Owners("write")
           RW == Waiters("readlock")
           WW == Waiters("writelock")
           Goal == Counting' /\ r_wait' \in Nat /\ w_wait' \in Nat /\ r_active' \in Nat
<1>1. /\ IsFiniteSet(R) /\ Cardinality(R) \in Nat
      /\ IsFiniteSet(W) /\ Cardinality(W) \in Nat
      /\ IsFiniteSet(RW) /\ Cardinality(RW) \in Nat
      /\ IsFiniteSet(WW) /\ Cardinality(WW) \in Nat
  BY SetsFinite
<1>2. ASSUME R' = R, W' = W, RW' = RW, WW' = WW, UNCHANGED counters,
             mtx' = "dead" => mtx \in {"live", "dead"}, mtx = "dead" => mtx' = "dead"
      PROVE  Goal
  BY <1>1, <1>2 DEF Counting, TypeOK
<1>3. ASSUME NEW t \in Threads, NEW o \in LockOps \cup UnlockOps, Call(t, o) PROVE Goal
  <2>1. R' = R /\ W' = W /\ RW' = RW /\ WW' = WW
    BY <1>3 DEF Call, Owners, Waiters, TypeOK
  <2> QED BY <1>2, <1>3, <2>1 DEF Call, TypeOK
<1>4. ASSUME NEW t \in Threads, ReadLock(t) PROVE Goal
  <2>0. t \notin R /\ t \notin RW /\ W' = W /\ WW' = WW
    BY <1>4 DEF ReadLock, Owners, Waiters, TypeOK, Protocol, InCall
  <2>1. CASE w_active # 0
    <3>1. R' = R /\ RW' = RW \cup {t}
      BY <1>4, <2>1 DEF ReadLock, Owners, Waiters, TypeOK
    <3> QED BY <1>1, <1>4, <2>0, <2>1, <3>1, Grow DEF ReadLock, Counting, TypeOK
  <2>2. CASE w_active = 0
    <3>1. R' = R \cup {t} /\ RW' = RW
      BY <1>4, <2>2 DEF ReadLock, Owners, Waiters, TypeOK
    <3> QED BY <1>1, <1>4, <2>0, <2>2, <3>1, Grow DEF ReadLock, Counting, TypeOK
  <2> QED BY <2>1, <2>2
<1>5. ASSUME NEW t \in Threads, ReadWoken(t) PROVE Goal
  <2>0. t \notin R /\ t \in RW /\ W' = W /\ WW' = WW
    BY <1>5 DEF ReadWoken, Owners, Waiters, TypeOK, Protocol, InCall
  <2>1. CASE w_active # 0
    <3>1. R' = R /\ RW' = RW
      BY <1>5, <2>1 DEF ReadWoken, Owners, Waiters, TypeOK
    <3> QED BY <1>2, <1>5, <2>0, <2>1, <3>1 DEF ReadWoken
  <2>2. CASE w_active = 0
    <3>1. R' = R \cup {t} /\ RW' = RW \ {t}
      BY <1>5, <2>2 DEF ReadWoken, Owners, Waiters, TypeOK
    <3>2. /\ Cardinality(R') = Cardinality(R) + 1
          /\ Cardinality(RW') = Cardinality(RW) - 1 /\ Cardinality(RW') \in Nat
      BY <1>1, <2>0, <3>1, Grow, Shrink, FS_RemoveElement, FS_CardinalityType
    <3> QED BY <1>1, <1>5, <2>0, <2>2, <3>2 DEF ReadWoken, Counting, TypeOK
  <2> QED BY <2>1, <2>2
<1>6. ASSUME NEW t \in Threads, ReadTryLock(t) PROVE Goal
  <2>0. t \notin R /\ W' = W /\ RW' = RW /\ WW' = WW
    BY <1>6 DEF ReadTryLock, Owners, Waiters, TypeOK, Protocol, InCall
  <2>1. CASE w_active # 0
    <3>1. R' = R
      BY <1>6, <2>1 DEF ReadTryLock, Owners
    <3> QED BY <1>2, <1>6, <2>0, <2>1, <3>1 DEF ReadTryLock
  <2>2. CASE w_active = 0
    <3>1. R' = R \cup {t}
      BY <1>6, <2>2 DEF ReadTryLock, Owners, TypeOK
    <3> QED BY <1>1, <1>6, <2>0, <2>2, <3>1, Grow DEF ReadTryLock, Counting, TypeOK
  <2> QED BY <2>1, <2>2
<1>7. ASSUME NEW t \in Threads, ReadUnlock(t) PROVE Goal
  <2>1. t \in R /\ R' = R \ {t} /\ W' = W
    BY <1>7 DEF ReadUnlock, Owners, TypeOK, Protocol, InCall
  <2>2. RW' = RW /\ WW' = WW
    BY <1>7 DEF ReadUnlock, SignalOne, ReturnWaking, Asleep, Waiters, TypeOK
  <2>3. Cardinality(R') = Cardinality(R) - 1 /\ Cardinality(R') \in Nat
    BY <1>1, <2>1, Shrink, FS_RemoveElement, FS_CardinalityType
  <2>4. w_active = 0 /\ UNCHANGED mtx
    BY <1>1, <1>7, <2>1, ZeroEmpty DEF ReadUnlock, Counting, TypeOK
  <2> QED BY <1>1, <1>7, <2>1, <2>2, <2>3, <2>4 DEF ReadUnlock, Counting, TypeOK
<1>8. ASSUME NEW t \in Threads, WriteLock(t) PROVE Goal
  <2>0. t \notin W /\ t \notin WW /\ R' = R /\ RW' = RW
    BY <1>8 DEF WriteLock, Owners, Waiters, TypeOK, Protocol, InCall
  <2>1. CASE WriteBlocked
    <3>1. W' = W /\ WW' = WW \cup {t}
      BY <1>8, <2>1 DEF WriteLock, Owners, Waiters, TypeOK
    <3> QED BY <1>1, <1>8, <2>0, <2>1, <3>1, Grow DEF WriteLock, Counting, TypeOK
  <2>2. CASE ~WriteBlocked
    <3>1. W' = W \cup {t} /\ WW' = WW
      BY <1>8, <2>2 DEF WriteLock, Owners, Waiters, TypeOK
    <3> QED BY <1>1, <1>8, <2>0, <2>2, <3>1, Grow
        DEF WriteLock, WriteBlocked, Counting, TypeOK
  <2> QED BY <2>1, <2>2
<1>9. ASSUME NEW t \in Threads, WriteWoken(t) PROVE Goal
  <2>0. t \notin W /\ t \in WW /\ R' = R /\ RW' = RW
    BY <1>9 DEF WriteWoken, Owners, Waiters, TypeOK, Protocol, InCall
  <2>1. CASE WriteBlocked
    <3>1. W' = W /\ WW' = WW
      BY <1>9, <2>1 DEF WriteWoken, Owners, Waiters, TypeOK
    <3> QED BY <1>2, <1>9, <2>0, <2>1, <3>1 DEF WriteWoken
  <2>2. CASE ~WriteBlocked
    <3>1. W' = W \cup {t} /\ WW' = WW \ {t}
      BY <1>9, <2>2 DEF WriteWoken, Owners, Waiters, TypeOK
    <3>2. /\ Cardinality(W') = Cardinality(W) + 1
          /\ Cardinality(WW') = Cardinality(WW) - 1 /\ Cardinality(WW') \in Nat
      BY <1>1, <2>0, <3>1, Grow, Shrink, FS_RemoveElement, FS_CardinalityType
    <3> QED BY <1>1, <1>9, <2>0, <2>2, <3>2
        DEF WriteWoken, WriteBlocked, Counting, TypeOK
  <2> QED BY <2>1, <2>2
<1>10. ASSUME NEW t \in Threads, WriteTryLock(t) PROVE Goal
  <2>0. t \notin W /\ R' = R /\ RW' = RW /\ WW' = WW
    BY <1>10 DEF WriteTryLock, Owners, Waiters, TypeOK, Protocol, InCall
  <2>1. CASE WriteBlocked
    <3>1. W' = W
      BY <1>10, <2>1 DEF WriteTryLock, Owners
    <3> QED BY <1>2, <1>10, <2>0, <2>1, <3>1 DEF WriteTryLock
  <2>2. CASE ~WriteBlocked
    <3>1. W' = W \cup {t}
      BY <1>10, <2>2 DEF WriteTryLock, Owners, TypeOK
    <3> QED BY <1>1, <1>10, <2>0, <2>2, <3>1, Grow
        DEF WriteTryLock, WriteBlocked, Counting, TypeOK
  <2> QED BY <2>1, <2>2
<1>11. ASSUME NEW t \in Threads, WriteUnlock(t) PROVE Goal
  <2>1. t \in W /\ W' = W \ {t} /\ R' = R
    BY <1>11 DEF WriteUnlock, Owners, TypeOK, Protocol, InCall
  <2>2. RW' = RW /\ WW' = WW
    BY <1>11 DEF WriteUnlock, SignalOne, Broadcast, ReturnWaking, Asleep, Waiters, TypeOK
  <2>3. Cardinality(W') = Cardinality(W) - 1
    BY <1>1, <2>1, Shrink
  <2>4. w_active = 1
    BY <1>1, <2>1, ZeroEmpty DEF Counting, TypeOK
  <2> QED BY <1>1, <1>11, <2>1, <2>2, <2>3, <2>4 DEF WriteUnlock, Counting, TypeOK
<1>12. ASSUME NEW t \in Threads, LockFailed(t) PROVE Goal
  <2>1. R' = R /\ W' = W /\ RW' = RW /\ WW' = WW
    BY <1>12 DEF LockFailed, Owners, Waiters, TypeOK
  <2> QED BY <1>2, <1>12, <2>1 DEF LockFailed
<1>13. ASSUME NEW t \in Threads, WaitFailed(t) PROVE Goal
  <2>1. R' = R /\ W' = W
    BY <1>13 DEF WaitFailed, Owners
  <2>2. CASE op[t] = "readlock"
    <3>1. t \in RW /\ RW' = RW \ {t} /\ WW' = WW
      BY <1>13, <2>2 DEF WaitFailed, Waiters, TypeOK
    <3>2. Cardinality(RW') = Cardinality(RW) - 1 /\ Cardinality(RW') \in Nat
      BY <1>1, <3>1, Shrink, FS_RemoveElement, FS_CardinalityType
    <3> QED BY <1>1, <1>13, <2>1, <2>2, <3>1, <3>2 DEF WaitFailed, Counting, TypeOK
  <2>3. CASE op[t] = "writelock"
    <3>1. t \in WW /\ WW' = WW \ {t} /\ RW' = RW
      BY <1>13, <2>3 DEF WaitFailed, Waiters, TypeOK
    <3>2. Cardinality(WW') = Cardinality(WW) - 1 /\ Cardinality(WW') \in Nat
      BY <1>1, <3>1, Shrink, FS_RemoveElement, FS_CardinalityType
    <3> QED BY <1>1, <1>13, <2>1, <2>3, <3>1, <3>2 DEF WaitFailed, Counting, TypeOK
  <2> QED BY <1>13, <2>2, <2>3 DEF WaitFailed
<1>14. ASSUME NEW t \in Threads, Cleanup(t) PROVE Goal
  <2>1. R' = R /\ W' = W
    BY <1>14 DEF Cleanup, Owners
  <2>2. CASE op[t] = "readlock"
    <3>1. t \in RW /\ RW' = RW \ {t} /\ WW' = WW
      BY <1>14, <2>2 DEF Cleanup, Waiters, TypeOK
    <3>2. Cardinality(RW') = Cardinality(RW) - 1 /\ Cardinality(RW') \in Nat
      BY <1>1, <3>1, Shrink, FS_RemoveElement, FS_CardinalityType
    <3> QED BY <1>1, <1>14, <2>1, <2>2, <3>1, <3>2 DEF Cleanup, Counting, TypeOK
  <2>3. CASE op[t] = "writelock"
    <3>1. t \in WW /\ WW' = WW \ {t} /\ RW' = RW
      BY <1>14, <2>3 DEF Cleanup, Waiters, TypeOK
    <3>2. Cardinality(WW') = Cardinality(WW) - 1 /\ Cardinality(WW') \in Nat
      BY <1>1, <3>1, Shrink, FS_RemoveElement, FS_CardinalityType
    <3> QED BY <1>1, <1>14, <2>1, <2>3, <3>1, <3>2 DEF Cleanup, Counting, TypeOK
  <2> QED BY <1>14, <2>2, <2>3 DEF Cleanup
<1>15. ASSUME NEW t \in Threads, SpuriousWakeup(t) \/ Cancel(t) PROVE Goal
  <2>1. R' = R /\ W' = W /\ RW' = RW /\ WW' = WW
    BY <1>15 DEF SpuriousWakeup, Cancel, Owners, Waiters, TypeOK
  <2> QED BY <1>2, <1>15, <2>1 DEF SpuriousWakeup, Cancel
<1>16. CASE RwlInit
  <2>1. R' = R /\ W' = W /\ RW' = RW /\ WW' = WW
    BY <1>16 DEF RwlInit, Owners, Waiters
  <2>2. R = {} /\ W = {} /\ RW = {} /\ WW = {}
    BY <1>16 DEF RwlInit, Protocol, Owners, Waiters
  <2> QED BY <1>1, <1>16, <2>1, <2>2, ZeroEmpty DEF RwlInit, Counting
<1>17. CASE RwlDestroy \/ DestroyBody \/ DestroyMutex \/ DestroyConds
  <2>1. R' = R /\ W' = W /\ RW' = RW /\ WW' = WW
    BY <1>17 DEF RwlDestroy, DestroyBody, DestroyMutex, DestroyConds, Owners, Waiters
  <2> QED BY <1>2, <1>17, <2>1
      DEF RwlDestroy, DestroyBody, DestroyMutex, DestroyConds, Protocol
<1>18. CASE UNCHANGED vars
  <2>1. R' = R /\ W' = W /\ RW' = RW /\ WW' = WW
    BY <1>18 DEF vars, Owners, Waiters
  <2> QED BY <1>2, <1>18, <2>1 DEF vars, TypeOK
<1> QED
  BY <1>3, <1>4, <1>5, <1>6, <1>7, <1>8, <1>9, <1>10, <1>11, <1>12, <1>13,
     <1>14, <1>15, <1>16, <1>17, <1>18 DEF Next, Section, MainStep, Terminated

LEMMA StepSafe == Safe /\ [Next]_vars => Safe'
BY StepProtocol, StepCounting DEF Safe

(* In every behaviour, whatever the number of threads, cancelled or not,   *)
(* the four counters count the owners and the waiters.                     *)
THEOREM RwlockCounting == Spec => []Counting
<1>1. Safe => Counting
  BY DEF Safe
<1> QED BY InitSafe, StepSafe, <1>1, PTL DEF Spec

(* Every variable of the lock keeps its type.                              *)
THEOREM RwlockTypes == Spec => []TypeOK
<1>1. Safe => TypeOK
  BY DEF Safe
<1> QED BY InitSafe, StepSafe, <1>1, PTL DEF Spec

-----------------------------------------------------------------------------
(* Until a waiting thread is cancelled, nobody is asleep while the lock is *)
(* free and nobody is on its way to it.                                    *)
Cancelled == \E u \in Threads : pc[u] \in {"cancel", "gone"}

(* A thread that was cancelled never comes back.                           *)
LEMMA StepCancelled ==
  ASSUME Safe, [Next]_vars, Cancelled
  PROVE  Cancelled'
<1> USE DEF Safe, callers, destroyer, counters, NoOtherChange, Locked, Return, Sleep
<1>1. PICK u \in Threads : pc[u] \in {"cancel", "gone"}
  BY DEF Cancelled
<1>2. pc'[u] \in {"cancel", "gone"}
  <2>1. ASSUME NEW t \in Threads, NEW o \in LockOps \cup UnlockOps, Call(t, o)
        PROVE  pc'[u] \in {"cancel", "gone"}
    BY <1>1, <2>1 DEF Call, TypeOK
  <2>2. ASSUME NEW t \in Threads,
               ReadLock(t) \/ ReadWoken(t) \/ ReadTryLock(t) \/ WriteLock(t)
                 \/ WriteWoken(t) \/ WriteTryLock(t)
        PROVE  pc'[u] \in {"cancel", "gone"}
    BY <1>1, <2>2
    DEF ReadLock, ReadWoken, ReadTryLock, WriteLock, WriteWoken, WriteTryLock, TypeOK
  <2>3. ASSUME NEW t \in Threads, ReadUnlock(t) \/ WriteUnlock(t)
        PROVE  pc'[u] \in {"cancel", "gone"}
    BY <1>1, <2>3
    DEF ReadUnlock, WriteUnlock, SignalOne, Broadcast, ReturnWaking, Asleep, TypeOK
  <2>4. ASSUME NEW t \in Threads,
               LockFailed(t) \/ WaitFailed(t) \/ Cleanup(t) \/ Cancel(t) \/ SpuriousWakeup(t)
        PROVE  pc'[u] \in {"cancel", "gone"}
    BY <1>1, <2>4 DEF LockFailed, WaitFailed, Cleanup, Cancel, SpuriousWakeup, TypeOK
  <2>5. CASE MainStep \/ Terminated \/ UNCHANGED vars
    BY <1>1, <2>5
    DEF MainStep, RwlInit, RwlDestroy, DestroyBody, DestroyMutex, DestroyConds,
        Terminated, vars
  <2> QED BY <2>1, <2>2, <2>3, <2>4, <2>5 DEF Next, Section
<1> QED BY <1>1, <1>2 DEF Cancelled

Awake == Safe /\ NoLostWakeup

LEMMA StepWakeup ==
  ASSUME Awake, [Next]_vars
  PROVE  NoLostWakeup'
<1>a. SUFFICES ASSUME ~Cancelled PROVE NoLostWakeup'
  BY StepCancelled DEF Awake, Cancelled, NoLostWakeup
<1>b. \A u \in Threads : pc[u] \notin {"cancel", "gone"}
  BY <1>a DEF Cancelled
<1> USE <1>b
<1> USE RwlockAssumption DEF Awake, Safe, callers, destroyer, counters,
      NoOtherChange, Locked, Return, Sleep
<1>0. \A t \in Threads : pc[t] = "sleep" => op[t] \in {"readlock", "writelock"}
  BY DEF Protocol
<1>1. ASSUME NEW t \in Threads, NEW o \in LockOps \cup UnlockOps, Call(t, o)
      PROVE  NoLostWakeup'
  BY <1>1 DEF Call, NoLostWakeup, TypeOK
<1>2. ASSUME NEW t \in Threads, ReadLock(t) PROVE NoLostWakeup'
  BY <1>2, SetsFinite DEF ReadLock, NoLostWakeup, TypeOK
<1>3. ASSUME NEW t \in Threads, ReadWoken(t) PROVE NoLostWakeup'
  BY <1>3 DEF ReadWoken, NoLostWakeup, TypeOK
<1>4. ASSUME NEW t \in Threads, ReadTryLock(t) PROVE NoLostWakeup'
  BY <1>4 DEF ReadTryLock, NoLostWakeup, TypeOK
<1>5. ASSUME NEW t \in Threads, ReadUnlock(t) PROVE NoLostWakeup'
  <2>1. w_active = 0
    <3>1. t \in Owners("read")
      BY <1>5 DEF ReadUnlock, Owners, Protocol, InCall
    <3> QED BY <3>1, SetsFinite, ZeroEmpty DEF Counting
  <2>2. \A u \in Threads : pc[u] = "sleep" => op[u] = "writelock"
    BY <1>5, <2>1 DEF NoLostWakeup, ReadUnlock
  <2>3. CASE r_active = 1 /\ w_wait > 0
    <3>1. CASE Asleep("writelock") = {} /\ ReturnWaking(t, {})
      BY <1>5, <2>2, <3>1 DEF ReadUnlock, ReturnWaking, Asleep, NoLostWakeup, TypeOK
    <3>2. ASSUME NEW u \in Asleep("writelock"), ReturnWaking(t, {u})
          PROVE  NoLostWakeup'
      <4>1. u \in Threads /\ u # t /\ pc'[u] = "wake"
        BY <1>5, <3>2 DEF ReadUnlock, ReturnWaking, Asleep
      <4>2. \A v \in Threads : pc'[v] = "sleep" => op'[v] = "writelock"
        BY <1>5, <2>2, <3>2 DEF ReadUnlock, ReturnWaking, TypeOK
      <4> QED BY <4>1, <4>2 DEF NoLostWakeup
    <3> QED BY <1>5, <2>3, <3>1, <3>2 DEF ReadUnlock, SignalOne
  <2>4. CASE r_active = 1 /\ ~(w_wait > 0)
    <3>1. w_wait = 0
      BY <2>4 DEF TypeOK
    <3>2. Waiters("writelock") = {}
      BY <1>5, <3>1, SetsFinite, ZeroEmpty DEF ReadUnlock, Counting
    <3> QED BY <1>5, <2>2, <2>4, <3>2 DEF ReadUnlock, Waiters, NoLostWakeup, TypeOK
  <2>5. CASE r_active # 1
    <3>1. r_active > 1
      BY <1>5, <2>5, SetsFinite, StepCounting DEF ReadUnlock, TypeOK
    <3> QED BY <1>5, <2>2, <2>5, <3>1 DEF ReadUnlock, NoLostWakeup, TypeOK
  <2> QED BY <2>3, <2>4, <2>5
<1>6. ASSUME NEW t \in Threads, WriteLock(t) PROVE NoLostWakeup'
  BY <1>6 DEF WriteLock, WriteBlocked, NoLostWakeup, TypeOK
<1>7. ASSUME NEW t \in Threads, WriteWoken(t) PROVE NoLostWakeup'
  BY <1>7 DEF WriteWoken, WriteBlocked, NoLostWakeup, TypeOK
<1>8. ASSUME NEW t \in Threads, WriteTryLock(t) PROVE NoLostWakeup'
  BY <1>8 DEF WriteTryLock, NoLostWakeup, TypeOK
<1>9. ASSUME NEW t \in Threads, WriteUnlock(t) PROVE NoLostWakeup'
  <2>1. CASE r_wait > 0 /\ Broadcast(t, "readlock")
    <3>1. PICK u \in Threads : u \in Waiters("readlock")
      <4>1. Waiters("readlock") # {}
        BY <1>9, <2>1, SetsFinite, ZeroEmpty DEF WriteUnlock, Counting
      <4> QED BY <4>1 DEF Waiters
    <3>2. u # t /\ pc'[u] = "wake"
      BY <1>9, <2>1, <3>1
      DEF WriteUnlock, Broadcast, ReturnWaking, Asleep, Waiters, Protocol, TypeOK
    <3>3. \A v \in Threads : pc'[v] = "sleep" => op'[v] = "writelock"
      BY <1>0, <1>9, <2>1 DEF WriteUnlock, Broadcast, ReturnWaking, Asleep, TypeOK
    <3> QED BY <3>2, <3>3 DEF NoLostWakeup
  <2>2. ASSUME r_wait = 0 PROVE \A v \in Threads : pc[v] = "sleep" => op[v] = "writelock"
    <3>1. Waiters("readlock") = {}
      BY <1>9, <2>2, SetsFinite, ZeroEmpty DEF WriteUnlock, Counting
    <3> QED BY <1>0, <3>1 DEF Waiters
  <2>3. CASE r_wait = 0 /\ w_wait > 0 /\ SignalOne(t, "writelock")
    <3>1. CASE Asleep("writelock") = {} /\ ReturnWaking(t, {})
      BY <1>9, <2>2, <2>3, <3>1
      DEF WriteUnlock, ReturnWaking, Asleep, NoLostWakeup, TypeOK
    <3>2. ASSUME NEW u \in Asleep("writelock"), ReturnWaking(t, {u})
          PROVE  NoLostWakeup'
      <4>1. u \in Threads /\ u # t /\ pc'[u] = "wake"
        BY <1>9, <3>2 DEF WriteUnlock, ReturnWaking, Asleep
      <4>2. \A v \in Threads : pc'[v] = "sleep" => op'[v] = "writelock"
        BY <1>9, <2>2, <2>3, <3>2 DEF WriteUnlock, ReturnWaking, TypeOK
      <4> QED BY <4>1, <4>2 DEF NoLostWakeup
    <3> QED BY <2>3, <3>1, <3>2 DEF SignalOne
  <2>4. CASE r_wait = 0 /\ w_wait = 0 /\ Return(t, 0)
    <3>1. Waiters("writelock") = {}
      BY <1>9, <2>4, SetsFinite, ZeroEmpty DEF WriteUnlock, Counting
    <3> QED BY <1>9, <2>2, <2>4, <3>1 DEF WriteUnlock, Waiters, NoLostWakeup, TypeOK
  <2> QED BY <1>9, <2>1, <2>3, <2>4 DEF WriteUnlock
<1>10. ASSUME NEW t \in Threads, LockFailed(t) \/ WaitFailed(t) PROVE NoLostWakeup'
  BY <1>10 DEF LockFailed, WaitFailed, NoLostWakeup
<1>11. ASSUME NEW t \in Threads, Cleanup(t) \/ Cancel(t) PROVE NoLostWakeup'
  BY <1>11 DEF Cleanup, Cancel, NoLostWakeup, TypeOK
<1>12. ASSUME NEW t \in Threads, SpuriousWakeup(t) PROVE NoLostWakeup'
  BY <1>12 DEF SpuriousWakeup, NoLostWakeup, TypeOK
<1>13. CASE RwlInit
  BY <1>13 DEF RwlInit, NoLostWakeup, Protocol
<1>14. CASE RwlDestroy \/ DestroyBody \/ DestroyMutex \/ DestroyConds
  BY <1>14 DEF RwlDestroy, DestroyBody, DestroyMutex, DestroyConds, NoLostWakeup
<1>15. CASE UNCHANGED vars
  BY <1>15 DEF vars, NoLostWakeup
<1> QED
  BY <1>1, <1>2, <1>3, <1>4, <1>5, <1>6, <1>7, <1>8, <1>9, <1>10, <1>11,
     <1>12, <1>13, <1>14, <1>15 DEF Next, Section, MainStep, Terminated

(* Until a waiting thread is cancelled, a sleeping thread always waits for *)
(* an owner, or for a thread that is awake and will signal in its turn.    *)
THEOREM RwlockNoLostWakeup == Spec => []NoLostWakeup
<1>1. Init => NoLostWakeup
  BY DEF Init, NoLostWakeup
<1>2. Safe /\ NoLostWakeup /\ [Next]_vars => Safe' /\ NoLostWakeup'
  BY StepSafe, StepWakeup DEF Awake
<1> QED BY InitSafe, <1>1, <1>2, PTL DEF Spec

-----------------------------------------------------------------------------
(* The package gives shared-exclusive access, whatever is cancelled or     *)
(* destroyed: each step that changes the owners is a step of the abstract  *)
(* lock.                                                                   *)
LEMMA StepAccess ==
  ASSUME Safe, [Next]_vars
  PROVE  [Access!Next]_Access!vars
<1> USE DEF Safe, callers, NoOtherChange, Locked, Own
<1> DEFINE R == Owners("read")
           W == Owners("write")
<1>1. /\ w_active = 0 <=> W = {}
      /\ r_active = 0 <=> R = {}
  BY SetsFinite, ZeroEmpty DEF Counting
<1>2. ASSUME NEW t \in Threads, ReadLock(t) \/ ReadWoken(t) \/ ReadTryLock(t)
      PROVE  [Access!Next]_Access!vars
  <2>1. CASE UNCHANGED holds
    BY <2>1 DEF Owners, Access!vars
  <2>2. CASE w_active = 0 /\ Own(t, "read")
    <3>1. W = {} /\ t \notin R /\ R' = R \cup {t} /\ W' = W
      BY <1>1, <1>2, <2>2
      DEF ReadLock, ReadWoken, ReadTryLock, Owners, Protocol, InCall, TypeOK
    <3> QED BY <3>1 DEF Access!Next, Access!Read
  <2> QED BY <1>2, <2>1, <2>2 DEF ReadLock, ReadWoken, ReadTryLock, Sleep
<1>3. ASSUME NEW t \in Threads, WriteLock(t) \/ WriteWoken(t) \/ WriteTryLock(t)
      PROVE  [Access!Next]_Access!vars
  <2>1. CASE UNCHANGED holds
    BY <2>1 DEF Owners, Access!vars
  <2>2. CASE ~WriteBlocked /\ Own(t, "write")
    <3>1. r_active = 0 /\ w_active = 0
      BY <2>2 DEF WriteBlocked, TypeOK
    <3>2. W = {} /\ R = {} /\ R' = R /\ W' = {t}
      BY <1>1, <1>3, <2>2, <3>1
      DEF WriteLock, WriteWoken, WriteTryLock, Owners, Protocol, InCall, TypeOK
    <3> QED BY <3>2 DEF Access!Next, Access!Write
  <2> QED BY <1>3, <2>1, <2>2 DEF WriteLock, WriteWoken, WriteTryLock, Sleep
<1>4. ASSUME NEW t \in Threads, ReadUnlock(t) \/ WriteUnlock(t)
      PROVE  [Access!Next]_Access!vars
  <2>1. t \in R \cup W /\ R' = R \ {t} /\ W' = W \ {t}
    BY <1>4 DEF ReadUnlock, WriteUnlock, Owners, Protocol, InCall, TypeOK
  <2> QED BY <2>1 DEF Access!Next, Access!Leave
<1>5. CASE UNCHANGED holds
  BY <1>5 DEF Owners, Access!vars
<1> QED
  BY <1>2, <1>3, <1>4, <1>5
  DEF Next, Section, MainStep, Terminated, vars, Call, LockFailed, WaitFailed,
      Cleanup, SpuriousWakeup, Cancel, RwlInit, RwlDestroy, DestroyBody,
      DestroyMutex, DestroyConds

(* The lock implements the abstract shared-exclusive lock.                 *)
THEOREM RwlockImplements == Spec => ImplementsSharedExclusive
<1>1. Init => Access!Init
  BY DEF Init, Access!Init, Owners
<1>2. Safe /\ [Next]_vars => [Access!Next]_Access!vars
  BY StepAccess
<1> QED
  BY InitSafe, StepSafe, <1>1, <1>2, PTL
  DEF Spec, ImplementsSharedExclusive, Access!Spec
=============================================================================

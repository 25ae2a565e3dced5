-------------------------------- MODULE Rwlock --------------------------------
(***************************************************************************)
(* The read-write lock package of rwlock.c: one rwlock_t shared by the     *)
(* threads Threads and by the thread that initialises and destroys it.     *)
(*                                                                         *)
(* What a call does between its pthread_mutex_lock and its unlock (or its  *)
(* sleep in pthread_cond_wait) is one step; the unlocked test of "valid"   *)
(* before it is another.  A woken thread competes for the mutex again with *)
(* everybody else.  A thread locks only when it holds nothing and unlocks  *)
(* what it holds.                                                          *)
(***************************************************************************)
EXTENDS Integers, FiniteSets

CONSTANTS
  Threads,     \* the threads that use the lock
  MaxLocks,    \* bound: the lock calls of each thread
  CanCancel,   \* TRUE: threads may be cancelled while they wait
  JoinFirst    \* TRUE: the threads are joined before rwl_destroy

ASSUME RwlockAssumption ==
  /\ IsFiniteSet(Threads)
  /\ MaxLocks \in [Threads -> Nat]
  /\ CanCancel \in BOOLEAN
  /\ JoinFirst \in BOOLEAN

VARIABLES
  valid, r_active, w_active, r_wait, w_wait,  \* the fields of rwlock_t
  mtx,      \* its pthread objects: "raw", "live" or "dead"
  pc,       \* where each thread is inside a call
  op,       \* the call it is in, or was in last
  holds,    \* what it owns: "none", "read" or "write"
  status,   \* the status its last call returned
  locks,    \* its lock calls so far
  dpc, dstatus, mstatus   \* the initialising thread, and its statuses

counters == <<r_active, w_active, r_wait, w_wait>>
callers == <<pc, op, holds, status, locks>>
destroyer == <<dpc, dstatus, mstatus>>
vars == <<valid, counters, mtx, callers, destroyer>>

RWLOCK_VALID == 16435934    \* 0xfacade

EINVAL == 22
EBUSY  == 16
EAGAIN == 11

LockOps == {"readlock", "readtrylock", "writelock", "writetrylock"}
UnlockOps == {"readunlock", "writeunlock"}

(***************************************************************************)
(* rwl_init: "valid" is set last, once all three objects exist.            *)
(***************************************************************************)
Init ==
  /\ valid = 0 /\ mtx = "raw"
  /\ r_active = 0 /\ w_active = 0 /\ r_wait = 0 /\ w_wait = 0
  /\ pc = [t \in Threads |-> "idle"]
  /\ op = [t \in Threads |-> "readlock"]
  /\ holds = [t \in Threads |-> "none"]
  /\ status = [t \in Threads |-> 0]
  /\ locks = [t \in Threads |-> 0]
  /\ dpc = "init" /\ dstatus = 0 /\ mstatus = 0

RwlInit ==
  /\ dpc = "init"
  /\ r_active' = 0 /\ w_active' = 0 /\ r_wait' = 0 /\ w_wait' = 0
  /\ dpc' = "up"
  /\ \/ valid' = RWLOCK_VALID /\ mtx' = "live" /\ dstatus' = 0
     \/ dstatus' = EAGAIN /\ UNCHANGED <<valid, mtx>>
  /\ UNCHANGED <<callers, mstatus>>

(***************************************************************************)
(* The call of any of the six operations, and its test of "valid".         *)
(***************************************************************************)
Owed(t, o) ==      \* the caller's side of the contract
  \/ o \in LockOps /\ holds[t] = "none" /\ locks[t] < MaxLocks[t]
  \/ o = "readunlock" /\ holds[t] = "read"
  \/ o = "writeunlock" /\ holds[t] = "write"

Call(t, o) ==
  /\ pc[t] = "idle" /\ dpc # "init" /\ Owed(t, o)
  /\ op' = [op EXCEPT ![t] = o]
  /\ \/ /\ valid = RWLOCK_VALID
        /\ pc' = [pc EXCEPT ![t] = "lock"]
        /\ locks' = [locks EXCEPT ![t] = IF o \in LockOps THEN @ + 1 ELSE @]
        /\ UNCHANGED status
     \/ /\ valid # RWLOCK_VALID
        /\ status' = [status EXCEPT ![t] = EINVAL]
        /\ UNCHANGED <<pc, locks>>
  /\ UNCHANGED <<valid, counters, mtx, holds, destroyer>>

LockFailed(t) ==   \* pthread_mutex_lock of a destroyed mutex
  /\ pc[t] = "lock" /\ mtx = "dead"
  /\ pc' = [pc EXCEPT ![t] = "idle"]
  /\ status' = [status EXCEPT ![t] = EINVAL]
  /\ UNCHANGED <<valid, counters, mtx, op, holds, locks, destroyer>>

Locked(t, o) == pc[t] = "lock" /\ op[t] = o /\ mtx = "live"

Return(t, s) ==
  /\ pc' = [pc EXCEPT ![t] = "idle"]
  /\ status' = [status EXCEPT ![t] = s]

Own(t, mode) == holds' = [holds EXCEPT ![t] = mode]

Sleep(t) == pc' = [pc EXCEPT ![t] = "sleep"] /\ UNCHANGED <<holds, status>>

Asleep(o) == {t \in Threads : pc[t] = "sleep" /\ op[t] = o}

(* The caller t returns 0 and the threads in W are woken up.               *)
ReturnWaking(t, W) ==
  /\ pc' = [u \in Threads |-> IF u = t THEN "idle"
                              ELSE IF u \in W THEN "wake" ELSE pc[u]]
  /\ status' = [status EXCEPT ![t] = 0]

SignalOne(t, o) ==
  \/ Asleep(o) = {} /\ ReturnWaking(t, {})
  \/ \E u \in Asleep(o) : ReturnWaking(t, {u})

Broadcast(t, o) == ReturnWaking(t, Asleep(o))

NoOtherChange == UNCHANGED <<valid, mtx, op, locks, destroyer>>

(* Mutant: the test of rwl_writelock forgets the active readers.           *)
WriteBlocked_WritersOnly == w_active # 0

WriteBlocked == w_active # 0 \/ r_active > 0

(***************************************************************************)
(* rwl_readlock, rwl_readtrylock, rwl_readunlock.                          *)
(***************************************************************************)
ReadLock(t) ==
  /\ Locked(t, "readlock")
  /\ \/ /\ w_active # 0
        /\ r_wait' = r_wait + 1
        /\ Sleep(t)
        /\ UNCHANGED r_active
     \/ /\ w_active = 0
        /\ r_active' = r_active + 1
        /\ Own(t, "read") /\ Return(t, 0)
        /\ UNCHANGED r_wait
  /\ UNCHANGED <<w_active, w_wait>> /\ NoOtherChange

ReadWoken(t) ==    \* pthread_cond_wait has locked the mutex again
  /\ pc[t] = "wake" /\ op[t] = "readlock" /\ mtx = "live"
  /\ \/ /\ w_active # 0
        /\ Sleep(t)
        /\ UNCHANGED <<r_active, r_wait>>
     \/ /\ w_active = 0
        /\ r_wait' = r_wait - 1
        /\ r_active' = r_active + 1
        /\ Own(t, "read") /\ Return(t, 0)
  /\ UNCHANGED <<w_active, w_wait>> /\ NoOtherChange

ReadTryLock(t) ==
  /\ Locked(t, "readtrylock")
  /\ \/ /\ w_active # 0
        /\ Return(t, EBUSY)
        /\ UNCHANGED <<r_active, holds>>
     \/ /\ w_active = 0
        /\ r_active' = r_active + 1
        /\ Own(t, "read") /\ Return(t, 0)
  /\ UNCHANGED <<w_active, r_wait, w_wait>> /\ NoOtherChange

(* Mutant: the last reader does not look for waiting writers.              *)
ReadUnlock_NoSignal(t) ==
  /\ Locked(t, "readunlock")
  /\ r_active' = r_active - 1
  /\ Own(t, "none") /\ Return(t, 0)
  /\ UNCHANGED <<w_active, r_wait, w_wait>> /\ NoOtherChange

ReadUnlock(t) ==
  /\ Locked(t, "readunlock")
  /\ r_active' = r_active - 1
  /\ Own(t, "none")
  /\ \/ r_active = 1 /\ w_wait > 0 /\ SignalOne(t, "writelock")
     \/ ~(r_active = 1 /\ w_wait > 0) /\ Return(t, 0)
  /\ UNCHANGED <<w_active, r_wait, w_wait>> /\ NoOtherChange

(***************************************************************************)
(* rwl_writelock, rwl_writetrylock, rwl_writeunlock.                       *)
(***************************************************************************)
WriteLock(t) ==
  /\ Locked(t, "writelock")
  /\ \/ /\ WriteBlocked
        /\ w_wait' = w_wait + 1
        /\ Sleep(t)
        /\ UNCHANGED w_active
     \/ /\ ~WriteBlocked
        /\ w_active' = 1
        /\ Own(t, "write") /\ Return(t, 0)
        /\ UNCHANGED w_wait
  /\ UNCHANGED <<r_active, r_wait>> /\ NoOtherChange

WriteWoken(t) ==
  /\ pc[t] = "wake" /\ op[t] = "writelock" /\ mtx = "live"
  /\ \/ /\ WriteBlocked
        /\ Sleep(t)
        /\ UNCHANGED <<w_active, w_wait>>
     \/ /\ ~WriteBlocked
        /\ w_wait' = w_wait - 1
        /\ w_active' = 1
        /\ Own(t, "write") /\ Return(t, 0)
  /\ UNCHANGED <<r_active, r_wait>> /\ NoOtherChange

WriteTryLock(t) ==
  /\ Locked(t, "writetrylock")
  /\ \/ /\ WriteBlocked
        /\ Return(t, EBUSY)
        /\ UNCHANGED <<w_active, holds>>
     \/ /\ ~WriteBlocked
        /\ w_active' = 1
        /\ Own(t, "write") /\ Return(t, 0)
  /\ UNCHANGED <<r_active, r_wait, w_wait>> /\ NoOtherChange

(* Mutant: one waiting reader is signalled instead of all.                 *)
WriteUnlock_OneReader(t) ==
  /\ Locked(t, "writeunlock")
  /\ w_active' = 0
  /\ Own(t, "none")
  /\ \/ r_wait > 0 /\ SignalOne(t, "readlock")
     \/ r_wait = 0 /\ w_wait > 0 /\ SignalOne(t, "writelock")
     \/ r_wait = 0 /\ w_wait = 0 /\ Return(t, 0)
  /\ UNCHANGED <<r_active, r_wait, w_wait>> /\ NoOtherChange

WriteUnlock(t) ==  \* waiting readers first
  /\ Locked(t, "writeunlock")
  /\ w_active' = 0
  /\ Own(t, "none")
  /\ \/ r_wait > 0 /\ Broadcast(t, "readlock")
     \/ r_wait = 0 /\ w_wait > 0 /\ SignalOne(t, "writelock")
     \/ r_wait = 0 /\ w_wait = 0 /\ Return(t, 0)
  /\ UNCHANGED <<r_active, r_wait, w_wait>> /\ NoOtherChange

(***************************************************************************)
(* Waiting that does not end with the lock: a wakeup POSIX lets happen     *)
(* unprompted, a mutex destroyed meanwhile, a cancellation.  A cancelled   *)
(* thread is still counted as waiting until it has locked the mutex to run *)
(* its cleanup handler.  Decrements of two threads that found the mutex    *)
(* destroyed may be lost.                                                  *)
(***************************************************************************)
SpuriousWakeup(t) ==
  /\ pc[t] = "sleep"
  /\ pc' = [pc EXCEPT ![t] = "wake"]
  /\ UNCHANGED <<valid, counters, mtx, op, holds, status, locks, destroyer>>

WaitFailed(t) ==
  /\ pc[t] = "wake" /\ mtx = "dead"
  /\ \/ op[t] = "readlock" /\ r_wait' \in {r_wait - 1, r_wait} /\ UNCHANGED w_wait
     \/ op[t] = "writelock" /\ w_wait' \in {w_wait - 1, w_wait} /\ UNCHANGED r_wait
  /\ Return(t, EINVAL)
  /\ UNCHANGED <<r_active, w_active, holds>> /\ NoOtherChange

Cancel(t) ==       \* delivered while the thread is blocked in the wait
  /\ CanCancel /\ pc[t] = "sleep"
  /\ pc' = [pc EXCEPT ![t] = "cancel"]
  /\ UNCHANGED <<valid, counters, mtx, op, holds, status, locks, destroyer>>

(* Mutant: the cleanup handlers only unlock the mutex.                     *)
Cleanup_KeepsCount(t) ==
  /\ pc[t] = "cancel"
  /\ pc' = [pc EXCEPT ![t] = "gone"]
  /\ UNCHANGED <<counters, holds, status>> /\ NoOtherChange

Cleanup(t) ==      \* rwl_readcleanup, rwl_writecleanup; the thread ends
  /\ pc[t] = "cancel"
  /\ \/ op[t] = "readlock" /\ r_wait' = r_wait - 1 /\ UNCHANGED w_wait
     \/ op[t] = "writelock" /\ w_wait' = w_wait - 1 /\ UNCHANGED r_wait
  /\ pc' = [pc EXCEPT ![t] = "gone"]
  /\ UNCHANGED <<r_active, w_active, holds, status>> /\ NoOtherChange

(***************************************************************************)
(* rwl_destroy.                                                            *)
(***************************************************************************)
Finished(t) ==
  \/ pc[t] = "gone"
  \/ pc[t] = "idle" /\ (status[t] = EINVAL \/ (locks[t] = MaxLocks[t] /\ holds[t] = "none"))

RwlDestroy ==      \* the call, and its unlocked test of "valid"
  /\ dpc = "up"
  /\ JoinFirst => \A t \in Threads : Finished(t)
  /\ \/ valid = RWLOCK_VALID /\ dpc' = "lock" /\ UNCHANGED dstatus
     \/ valid # RWLOCK_VALID /\ dpc' = "done" /\ dstatus' = EINVAL
  /\ UNCHANGED <<valid, counters, mtx, callers, mstatus>>

DestroyBody ==
  /\ dpc = "lock"
  /\ \/ /\ r_active > 0 \/ w_active # 0 \/ r_wait # 0 \/ w_wait # 0
        /\ dstatus' = EBUSY
        /\ dpc' = "up"
        /\ UNCHANGED valid
     \/ /\ r_active <= 0 /\ w_active = 0 /\ r_wait = 0 /\ w_wait = 0
        /\ valid' = 0
        /\ dpc' = "mutex"
        /\ UNCHANGED dstatus
  /\ UNCHANGED <<counters, mtx, callers, mstatus>>

Contending == \E t \in Threads : pc[t] \in {"lock", "wake", "cancel"}

DestroyMutex ==    \* refused when a contending thread holds the mutex
  /\ dpc = "mutex"
  /\ \/ mtx' = "dead" /\ mstatus' = 0
     \/ Contending /\ mstatus' = EBUSY /\ UNCHANGED mtx
  /\ dpc' = "cond"
  /\ UNCHANGED <<valid, counters, callers, dstatus>>

DestroyConds ==    \* pthread_cond_destroy waits for sleepers, returns 0
  /\ dpc = "cond"
  /\ \A t \in Threads : pc[t] # "sleep"
  /\ LET status1 == 0
         status2 == 0
     IN  dstatus' = IF mstatus = 0 THEN mstatus
                    ELSE IF status1 = 0 THEN status1 ELSE status2
  /\ dpc' = "done"
  /\ UNCHANGED <<valid, counters, mtx, callers, mstatus>>

(***************************************************************************)
(* The specification.  A thread that can step does, in the end, and a      *)
(* thread that holds the lock unlocks it in the end; cancellations and     *)
(* spurious wakeups are never promised.                                    *)
(***************************************************************************)
Section(t) ==
  \/ ReadLock(t) \/ ReadWoken(t) \/ ReadTryLock(t) \/ ReadUnlock(t)
  \/ WriteLock(t) \/ WriteWoken(t) \/ WriteTryLock(t) \/ WriteUnlock(t)
  \/ LockFailed(t) \/ WaitFailed(t) \/ Cleanup(t)

MainStep == RwlInit \/ RwlDestroy \/ DestroyBody \/ DestroyMutex \/ DestroyConds

Terminated ==
  /\ dpc = "done" /\ \A t \in Threads : pc[t] \in {"idle", "gone"}
  /\ UNCHANGED vars

Next ==
  \/ \E t \in Threads, o \in LockOps \cup UnlockOps : Call(t, o)
  \/ \E t \in Threads : Section(t) \/ SpuriousWakeup(t) \/ Cancel(t)
  \/ MainStep
  \/ Terminated

Spec == Init /\ [][Next]_vars

Fairness ==
  /\ \A t \in Threads :
       WF_vars(Section(t)) /\ \A o \in UnlockOps : WF_vars(Call(t, o))
  /\ WF_vars(MainStep)

FairSpec == Spec /\ Fairness
-----------------------------------------------------------------------------
(***************************************************************************)
(* Properties.                                                             *)
(***************************************************************************)

(* Every variable keeps its type, and no counter drops below zero.         *)
TypeOK ==
  /\ valid \in {0, RWLOCK_VALID} /\ mtx \in {"raw", "live", "dead"}
  /\ r_active \in Nat /\ w_active \in {0, 1} /\ r_wait \in Nat /\ w_wait \in Nat
  /\ pc \in [Threads -> {"idle", "lock", "sleep", "wake", "cancel", "gone"}]
  /\ op \in [Threads -> LockOps \cup UnlockOps]
  /\ holds \in [Threads -> {"none", "read", "write"}]
  /\ status \in [Threads -> {0, EINVAL, EBUSY}]
  /\ locks \in [Threads -> Nat]
  /\ dpc \in {"init", "up", "lock", "mutex", "cond", "done"}
  /\ dstatus \in {0, EINVAL, EBUSY, EAGAIN} /\ mstatus \in {0, EBUSY}

Owners(mode) == {t \in Threads : holds[t] = mode}

InCall(t) == pc[t] \notin {"idle", "gone"}

Waiters(o) == {t \in Threads : op[t] = o /\ pc[t] \in {"sleep", "wake", "cancel"}}

(* The counters count what they are said to, so that readers and writers   *)
(* are kept apart and no cleanup or early wakeup is counted twice          *)
(* (rwlock.h:24-27; rwlock.c:110, 135, 138, 194, 219).  Once the mutex is  *)
(* destroyed a lost decrement may leave too many waiters counted.          *)
Counting ==
  /\ r_active = Cardinality(Owners("read"))
  /\ w_active = Cardinality(Owners("write"))
  /\ r_active = 0 \/ w_active = 0
  /\ r_wait >= Cardinality(Waiters("readlock"))
  /\ w_wait >= Cardinality(Waiters("writelock"))
  /\ mtx # "dead" => /\ r_wait = Cardinality(Waiters("readlock"))
                     /\ w_wait = Cardinality(Waiters("writelock"))

(* The life of the lock and the state of a call: a valid lock has live     *)
(* pthread objects, a thread inside an unlock owns what it unlocks, one    *)
(* inside a lock call owns nothing yet (rwlock.c:54, 65-92).               *)
Protocol ==
  /\ valid = RWLOCK_VALID => mtx = "live"
  /\ dpc = "init" => mtx = "raw"
  /\ dpc \in {"lock", "mutex"} => mtx = "live"
  /\ dpc = "mutex" => valid = 0
  /\ mtx = "raw" => \A t \in Threads : pc[t] = "idle" /\ holds[t] = "none"
  /\ \A t \in Threads : InCall(t) =>
       holds[t] = CASE op[t] = "readunlock" -> "read"
                    [] op[t] = "writeunlock" -> "write"
                    [] OTHER -> "none"
  /\ \A t \in Threads : pc[t] \in {"sleep", "wake", "cancel"} =>
       op[t] \in {"readlock", "writelock"}
  /\ CanCancel \/ \A t \in Threads : pc[t] # "cancel"

(* Nobody sleeps while the lock could be had: a sleeping reader waits for  *)
(* a writer, and a sleeping writer for an owner or for a thread that is    *)
(* awake and will signal it in its turn (rwlock.c:177, 261-268).  That is  *)
(* no longer so once a waiting thread was cancelled: a wakeup it has taken *)
(* with it, or a broadcast to a reader that is still counted, reaches      *)
(* nobody else.                                                            *)
NoLostWakeup ==
  mtx = "live" => \A t \in Threads : pc[t] = "sleep" =>
    \/ w_active # 0
    \/ /\ op[t] = "writelock"
       /\ r_active > 0 \/ \E u \in Threads : pc[u] = "wake"
    \/ \E u \in Threads : pc[u] \in {"cancel", "gone"}

(* The owners change as a shared-exclusive lock lets them: no reader       *)
(* enters beside a writer, no writer beside anybody (rwlock.c:126, 210).   *)
Access == INSTANCE SharedExclusive WITH
  readers <- Owners("read"),
  writers <- Owners("write")

ImplementsSharedExclusive == Access!Spec

(* Every call returns, under fair scheduling, when owners unlock, unless a *)
(* waiting thread was cancelled or the lock destroyed under the callers.   *)
CallReturns ==
  \A t \in Threads :
    pc[t] # "idle" ~> \/ pc[t] = "idle"
                      \/ \E u \in Threads : pc[u] = "gone"
                      \/ valid = 0
=============================================================================

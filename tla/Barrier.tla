------------------------------- MODULE Barrier -------------------------------
(***************************************************************************)
(* The barrier package of barrier.c: barrier_init, barrier_wait and        *)
(* barrier_destroy on one barrier_t shared by the caller threads Threads   *)
(* and by the thread Main that initialises and destroys it.                *)
(*                                                                         *)
(* The pthread mutex is explicit (owner), because barrier_destroy calls    *)
(* pthread_mutex_destroy without holding it.  A step that runs with the    *)
(* mutex held does everything up to the unlock or to the sleep inside      *)
(* pthread_cond_wait.  The unlocked test of "valid" is a step of its own.  *)
(***************************************************************************)
EXTENDS Integers, FiniteSets

CONSTANTS
  Threads,     \* the threads that call barrier_wait
  Main,        \* the thread that calls barrier_init and barrier_destroy
  Nobody,      \* "the mutex is free"
  Count,       \* the count given to barrier_init
  MaxCalls,    \* bound: successful arrivals at the barrier per thread
  JoinFirst    \* TRUE: Main joins the callers before barrier_destroy

ASSUME BarrierAssumption ==
  /\ IsFiniteSet(Threads)
  /\ Main \notin Threads
  /\ Nobody \notin Threads \cup {Main}
  /\ Count \in Nat \ {0}
  /\ MaxCalls \in Nat
  /\ JoinFirst \in BOOLEAN

VARIABLES
  valid, counter, cycle,  \* the fields of barrier_t (threshold is Count)
  mtx,      \* the pthread objects of barrier_t: "raw", "live" or "dead"
  owner,    \* the thread that holds barrier->mutex
  pc,       \* where each caller is inside barrier_wait
  mine,     \* its local variable "cycle"
  status,   \* the status its last barrier_wait returned
  dpc,      \* where Main is
  dstatus,  \* the status of Main's last call
  mstatus,  \* Main's local "status" of pthread_mutex_destroy
  gen,      \* history: completed barrier cycles
  joined,   \* history: the value of gen when the caller arrived
  calls     \* history: arrivals of each caller

shared == <<valid, counter, cycle, mtx, owner>>
callers == <<pc, mine, status>>
destroyer == <<dpc, dstatus, mstatus>>
history == <<gen, joined, calls>>
vars == <<shared, callers, destroyer, history>>

BARRIER_VALID == 14404350   \* 0xdbcafe

EINVAL == 22
EBUSY  == 16
EAGAIN == 11
SERIAL == -1    \* what barrier_wait returns to the last thread to arrive

(***************************************************************************)
(* barrier_init.  The counters are set before the pthread objects are      *)
(* made; when either cannot be made, "valid" stays clear.                  *)
(***************************************************************************)
Init ==
  /\ valid = 0 /\ counter = 0 /\ cycle = 0
  /\ mtx = "raw" /\ owner = Nobody
  /\ pc = [t \in Threads |-> "idle"]
  /\ mine = [t \in Threads |-> 0]
  /\ status = [t \in Threads |-> 0]
  /\ dpc = "init" /\ dstatus = 0 /\ mstatus = 0
  /\ gen = 0
  /\ joined = [t \in Threads |-> 0]
  /\ calls = [t \in Threads |-> 0]

BarrierInit ==
  /\ dpc = "init"
  /\ counter' = Count /\ cycle' = 0
  /\ dpc' = "up"
  /\ \/ valid' = BARRIER_VALID /\ mtx' = "live" /\ dstatus' = 0
     \/ dstatus' = EAGAIN /\ UNCHANGED <<valid, mtx>>
  /\ UNCHANGED <<owner, callers, mstatus, history>>

(***************************************************************************)
(* barrier_wait.                                                           *)
(***************************************************************************)
BarrierWait(t) ==      \* the call, and its unlocked test of "valid"
  /\ pc[t] = "idle" /\ dpc # "init" /\ calls[t] < MaxCalls
  /\ \/ /\ valid = BARRIER_VALID
        /\ pc' = [pc EXCEPT ![t] = "lock"]
        /\ UNCHANGED status
     \/ /\ valid # BARRIER_VALID
        /\ status' = [status EXCEPT ![t] = EINVAL]
        /\ UNCHANGED pc
  /\ UNCHANGED <<shared, mine, destroyer, history>>

(* pthread_mutex_lock from location "from"; a destroyed mutex gives EINVAL *)
(* and barrier_wait returns it.                                            *)
Acquire(t, from, to) ==
  /\ pc[t] = from
  /\ \/ /\ mtx = "live" /\ owner = Nobody
        /\ owner' = t
        /\ pc' = [pc EXCEPT ![t] = to]
        /\ UNCHANGED status
     \/ /\ mtx = "dead"
        /\ pc' = [pc EXCEPT ![t] = "idle"]
        /\ status' = [status EXCEPT ![t] = EINVAL]
        /\ UNCHANGED owner
  /\ UNCHANGED <<valid, counter, cycle, mtx, mine, destroyer, history>>

Lock(t) == Acquire(t, "lock", "in")

(* Mutants: the cycle is not flipped; one waiter is signalled instead of   *)
(* all; the wait is not in a loop.                                         *)
ArriveLast_NoFlip(t) ==
  /\ counter = 1
  /\ counter' = Count /\ gen' = gen + 1 /\ UNCHANGED cycle
  /\ pc' = [u \in Threads |-> IF u = t THEN "idle"
                              ELSE IF pc[u] = "sleep" THEN "wake" ELSE pc[u]]
  /\ status' = [status EXCEPT ![t] = SERIAL]

ArriveLast_Signal(t) ==
  /\ counter = 1
  /\ counter' = Count /\ cycle' = 1 - cycle /\ gen' = gen + 1
  /\ LET asleep == {u \in Threads : pc[u] = "sleep"}
     IN  \/ asleep = {} /\ pc' = [pc EXCEPT ![t] = "idle"]
         \/ \E u \in asleep : pc' = [pc EXCEPT ![t] = "idle", ![u] = "wake"]
  /\ status' = [status EXCEPT ![t] = SERIAL]

Test_NoLoop(t) ==
  /\ pc[t] = "test"
  /\ pc' = [pc EXCEPT ![t] = "idle"]
  /\ status' = [status EXCEPT ![t] = 0]
  /\ owner' = Nobody
  /\ UNCHANGED <<valid, counter, cycle, mtx, mine, destroyer, history>>

(* The last thread flips the cycle, rearms the counter, broadcasts and     *)
(* unlocks; any other one sleeps in pthread_cond_wait.                     *)
ArriveLast(t) ==
  /\ counter = 1
  /\ cycle' = 1 - cycle
  /\ counter' = Count
  /\ gen' = gen + 1
  /\ pc' = [u \in Threads |-> IF u = t THEN "idle"
                              ELSE IF pc[u] = "sleep" THEN "wake" ELSE pc[u]]
  /\ status' = [status EXCEPT ![t] = SERIAL]

ArriveEarly(t) ==
  /\ counter # 1
  /\ counter' = counter - 1
  /\ pc' = [pc EXCEPT ![t] = "sleep"]
  /\ UNCHANGED <<cycle, gen, status>>

Arrive(t) ==
  /\ pc[t] = "in"
  /\ mine' = [mine EXCEPT ![t] = cycle]
  /\ joined' = [joined EXCEPT ![t] = gen]
  /\ calls' = [calls EXCEPT ![t] = @ + 1]
  /\ ArriveLast(t) \/ ArriveEarly(t)
  /\ owner' = Nobody
  /\ UNCHANGED <<valid, mtx, destroyer>>

SpuriousWakeup(t) ==   \* POSIX lets pthread_cond_wait return unprompted
  /\ pc[t] = "sleep"
  /\ pc' = [pc EXCEPT ![t] = "wake"]
  /\ UNCHANGED <<shared, mine, status, destroyer, history>>

Relock(t) == Acquire(t, "wake", "test")   \* pthread_cond_wait locks again

(* The test of the while loop: sleep again, or unlock and return 0.        *)
Test(t) ==
  /\ pc[t] = "test"
  /\ \/ /\ mine[t] = cycle
        /\ pc' = [pc EXCEPT ![t] = "sleep"]
        /\ UNCHANGED status
     \/ /\ mine[t] # cycle
        /\ pc' = [pc EXCEPT ![t] = "idle"]
        /\ status' = [status EXCEPT ![t] = 0]
  /\ owner' = Nobody
  /\ UNCHANGED <<valid, counter, cycle, mtx, mine, destroyer, history>>

(***************************************************************************)
(* barrier_destroy.                                                        *)
(***************************************************************************)
Finished(t) == pc[t] = "idle" /\ (calls[t] = MaxCalls \/ status[t] > 0)

BarrierDestroy ==      \* the call, and its unlocked test of "valid"
  /\ dpc = "up"
  /\ JoinFirst => \A t \in Threads : Finished(t)
  /\ \/ valid = BARRIER_VALID /\ dpc' = "lock" /\ UNCHANGED dstatus
     \/ valid # BARRIER_VALID /\ dpc' = "done" /\ dstatus' = EINVAL
  /\ UNCHANGED <<shared, callers, mstatus, history>>

DestroyLock ==
  /\ dpc = "lock" /\ owner = Nobody
  /\ owner' = Main
  /\ dpc' = "body"
  /\ UNCHANGED <<valid, counter, cycle, mtx, callers, dstatus, mstatus, history>>

DestroyBody ==
  /\ dpc = "body"
  /\ \/ /\ counter # Count
        /\ dstatus' = EBUSY
        /\ dpc' = "up"
        /\ UNCHANGED valid
     \/ /\ counter = Count
        /\ valid' = 0
        /\ dpc' = "mutex"
        /\ UNCHANGED dstatus
  /\ owner' = Nobody
  /\ UNCHANGED <<counter, cycle, mtx, callers, mstatus, history>>

DestroyMutex ==        \* pthread_mutex_destroy refuses a locked mutex
  /\ dpc = "mutex"
  /\ \/ owner = Nobody /\ mtx' = "dead" /\ mstatus' = 0
     \/ owner # Nobody /\ mstatus' = EBUSY /\ UNCHANGED mtx
  /\ dpc' = "cond"
  /\ UNCHANGED <<valid, counter, cycle, owner, callers, dstatus, history>>

DestroyCond ==         \* pthread_cond_destroy waits for sleepers, returns 0
  /\ dpc = "cond"
  /\ \A t \in Threads : pc[t] # "sleep"
  /\ LET status2 == 0
     IN  dstatus' = IF mstatus = 0 THEN mstatus ELSE status2
  /\ dpc' = "done"
  /\ UNCHANGED <<shared, callers, mstatus, history>>

(***************************************************************************)
(* The specification.  Fairness is the client's (BarrierMain).             *)
(***************************************************************************)
CallerStep(t) == Lock(t) \/ Arrive(t) \/ Relock(t) \/ Test(t)

MainStep == BarrierInit \/ DestroyLock \/ DestroyBody \/ DestroyMutex \/ DestroyCond

Terminated ==
  /\ dpc = "done"
  /\ \A t \in Threads : pc[t] = "idle"
  /\ UNCHANGED vars

Next ==
  \/ \E t \in Threads : BarrierWait(t) \/ CallerStep(t) \/ SpuriousWakeup(t)
  \/ MainStep \/ BarrierDestroy
  \/ Terminated

Spec == Init /\ [][Next]_vars
-----------------------------------------------------------------------------
(***************************************************************************)
(* Properties.                                                             *)
(***************************************************************************)

(* Every variable of the barrier and of its callers keeps its type.        *)
TypeOK ==
  /\ valid \in {0, BARRIER_VALID} /\ counter \in 0..Count /\ cycle \in {0, 1}
  /\ mtx \in {"raw", "live", "dead"}
  /\ owner \in Threads \cup {Main, Nobody}
  /\ pc \in [Threads -> {"idle", "lock", "in", "sleep", "wake", "test"}]
  /\ mine \in [Threads -> {0, 1}]
  /\ status \in [Threads -> {0, SERIAL, EINVAL}]
  /\ dpc \in {"init", "up", "lock", "body", "mutex", "cond", "done"}
  /\ dstatus \in {0, EINVAL, EBUSY, EAGAIN} /\ mstatus \in {0, EBUSY}
  /\ gen \in Nat /\ joined \in [Threads -> Nat] /\ calls \in [Threads -> Nat]

Inside(t) == pc[t] \in {"sleep", "wake", "test"}

Current == {t \in Threads : Inside(t) /\ joined[t] = gen}

(* A thread asleep in pthread_cond_wait belongs to the cycle that is still *)
(* filling: once its own cycle has been broadcast, barrier_wait never goes *)
(* back to sleep (the while loop on the one-bit cycle, barrier.c:126).     *)
NobodyLeftBehind == \A t \in Threads : pc[t] = "sleep" => joined[t] = gen

Returns(t) == IF Inside(t) THEN calls[t] - 1 ELSE calls[t]

(* No thread returns from its k-th barrier_wait before every thread has    *)
(* arrived for the k-th time (the decrement and the rearm of counter).     *)
BarrierSync ==
  mtx # "dead" => \A t, u \in Threads : Returns(t) <= calls[u]

(* The mutex discipline and the life of the pthread objects: the owner is  *)
(* the thread between its lock and its unlock, the objects exist while     *)
(* "valid" is set, and a live barrier always waits for one more thread     *)
(* (barrier.c:97-142, 58-82).                                              *)
LockInv ==
  /\ \A t \in Threads : pc[t] \in {"in", "test"} <=> owner = t
  /\ dpc = "body" <=> owner = Main
  /\ owner # Nobody \/ valid = BARRIER_VALID => mtx = "live"
  /\ dpc = "init" => mtx = "raw"
  /\ mtx = "raw" => gen = 0 /\ \A t \in Threads : pc[t] = "idle" /\ calls[t] = 0
  /\ dpc \in {"lock", "body", "mutex"} => mtx = "live"
  /\ dpc = "mutex" => valid = 0
  /\ mtx = "live" => counter \in 1..Count

(* What the one-bit cycle and the counter stand for while there are no     *)
(* more threads than Count: the counter is what the current cycle lacks,   *)
(* a thread inside is at most one cycle behind, and its saved bit tells    *)
(* exactly whether it is (barrier.c:101-106, 126).                         *)
CycleInv ==
  /\ mtx = "live" => counter = Count - Cardinality(Current)
  /\ \A t \in Threads : Inside(t) =>
        /\ joined[t] \in {gen - 1, gen}
        /\ mine[t] = cycle <=> joined[t] = gen
  /\ NobodyLeftBehind
  /\ mtx # "dead" => \A t \in Threads :
        calls[t] = IF t \in Current THEN gen + 1 ELSE gen

(* With one party per thread, the package implements the rendezvous: the   *)
(* gathered threads are those of the current cycle, the released ones      *)
(* those of an earlier cycle that are still inside barrier_wait.           *)
Rdv == INSTANCE Rendezvous WITH
  waiting <- Current,
  released <- {t \in Threads : Inside(t) /\ joined[t] # gen},
  rounds <- gen

ImplementsRendezvous == Rdv!Spec
=============================================================================

----------------------------- MODULE BarrierMain -----------------------------
(***************************************************************************)
(* barrier_main.c: THREADS threads go through OUTLOOPS rounds of parallel  *)
(* work and serial update, separated by the barrier of module Barrier.     *)
(* The INLOOPS * ARRAY additions of one round are one step, as each of     *)
(* them adds the same self->increment; the serial update writes one        *)
(* thread's increment per step.                                            *)
(***************************************************************************)
EXTENDS Barrier

CONSTANT OUTLOOPS    \* rounds of each thread

(* The array thread[THREADS] of main, and two calls in each round.         *)
ProgramShape ==
  /\ Threads = 0 .. (Count - 1)
  /\ OUTLOOPS \in Nat
  /\ MaxCalls = 2 * OUTLOOPS

VARIABLES
  stage,       \* where each thread is in thread_routine
  out_loop,    \* its round
  thread_num,  \* its index into the serial update
  increment,   \* thread[t].increment
  array,       \* what the rounds added to an element of thread[t].array
  mpc, k,      \* where main is, and its loop index
  aborted      \* the process died in err_abort

client == <<stage, out_loop, thread_num, increment, array>>
mainvars == <<mpc, k>>
allvars == <<vars, client, mainvars, aborted>>

MainInit ==
  /\ Init
  /\ stage = [t \in Threads |-> "none"]
  /\ out_loop = [t \in Threads |-> 0]
  /\ thread_num = [t \in Threads |-> 0]
  /\ increment = [t \in Threads |-> t]
  /\ array = [t \in Threads |-> 0]
  /\ mpc = "init" /\ k = 0
  /\ aborted = FALSE

Goto(t, s) == stage' = [stage EXCEPT ![t] = s]

(***************************************************************************)
(* thread_routine.                                                         *)
(***************************************************************************)
Call(t) ==
  /\ ~aborted
  /\ \/ stage[t] = "call1" /\ Goto(t, "wait1")
     \/ stage[t] = "call2" /\ Goto(t, "wait2")
  /\ BarrierWait(t)
  /\ UNCHANGED <<out_loop, thread_num, increment, array, mainvars, aborted>>

InPackage(t) ==      \* the thread runs inside barrier_wait
  /\ ~aborted
  /\ CallerStep(t) \/ SpuriousWakeup(t)
  /\ UNCHANGED <<client, mainvars, aborted>>

NextRound(t) ==      \* out_loop++ and the test of the outer loop
  /\ out_loop' = [out_loop EXCEPT ![t] = @ + 1]
  /\ Goto(t, IF out_loop[t] + 1 < OUTLOOPS THEN "call1" ELSE "done")

(* Mutant: the return status is not looked at, every thread updates.       *)
Returned_AllSerial(t) ==
  /\ ~aborted
  /\ stage[t] \in {"wait1", "wait2"} /\ pc[t] = "idle"
  /\ Goto(t, IF stage[t] = "wait1" THEN "compute" ELSE "serial")
  /\ UNCHANGED <<vars, out_loop, thread_num, increment, array, mainvars, aborted>>

Returned(t) ==       \* barrier_wait has returned status[t]
  /\ ~aborted
  /\ stage[t] \in {"wait1", "wait2"} /\ pc[t] = "idle"
  /\ \/ /\ status[t] > 0
        /\ aborted' = TRUE
        /\ UNCHANGED <<stage, out_loop>>
     \/ /\ status[t] <= 0 /\ stage[t] = "wait1"
        /\ Goto(t, "compute")
        /\ UNCHANGED <<out_loop, aborted>>
     \/ /\ status[t] = SERIAL /\ stage[t] = "wait2"
        /\ Goto(t, "serial")
        /\ UNCHANGED <<out_loop, aborted>>
     \/ /\ status[t] = 0 /\ stage[t] = "wait2"
        /\ NextRound(t)
        /\ UNCHANGED aborted
  /\ UNCHANGED <<vars, thread_num, increment, array, mainvars>>

Compute(t) ==
  /\ ~aborted
  /\ stage[t] = "compute"
  /\ array' = [array EXCEPT ![t] = @ + increment[t]]
  /\ Goto(t, "call2")
  /\ UNCHANGED <<vars, out_loop, thread_num, increment, mainvars, aborted>>

Serial(t) ==
  /\ ~aborted
  /\ stage[t] = "serial"
  /\ \/ /\ thread_num[t] < Count
        /\ increment' = [increment EXCEPT ![thread_num[t]] = @ + 1]
        /\ thread_num' = [thread_num EXCEPT ![t] = @ + 1]
        /\ UNCHANGED <<stage, out_loop>>
     \/ /\ thread_num[t] = Count
        /\ thread_num' = [thread_num EXCEPT ![t] = 0]
        /\ NextRound(t)
        /\ UNCHANGED increment
  /\ UNCHANGED <<vars, array, mainvars, aborted>>

(***************************************************************************)
(* main.                                                                   *)
(***************************************************************************)
InitBarrier ==       \* main does not look at the status of barrier_init
  /\ ~aborted
  /\ mpc = "init"
  /\ BarrierInit
  /\ mpc' = "create"
  /\ UNCHANGED <<client, k, aborted>>

CreateThread ==
  /\ ~aborted
  /\ mpc = "create" /\ k < Count
  /\ \/ /\ Goto(k, IF OUTLOOPS > 0 THEN "call1" ELSE "done")
        /\ k' = k + 1
        /\ UNCHANGED aborted
     \/ /\ aborted' = TRUE
        /\ UNCHANGED <<stage, k>>
  /\ UNCHANGED <<vars, out_loop, thread_num, increment, array, mpc>>

StartJoining ==
  /\ ~aborted
  /\ mpc = "create" /\ k = Count
  /\ mpc' = "join" /\ k' = 0
  /\ UNCHANGED <<vars, client, aborted>>

JoinThread ==        \* pthread_join (what main prints is left out)
  /\ ~aborted
  /\ mpc = "join" /\ k < Count
  /\ stage[k] = "done"
  /\ k' = k + 1
  /\ UNCHANGED <<vars, client, mpc, aborted>>

Destroy ==
  /\ ~aborted
  /\ mpc = "join" /\ k = Count
  /\ MainStep \/ BarrierDestroy
  /\ UNCHANGED <<client, mainvars, aborted>>

Main_ == InitBarrier \/ CreateThread \/ StartJoining \/ JoinThread \/ Destroy

Thread(t) == Call(t) \/ InPackage(t) \/ Returned(t) \/ Compute(t) \/ Serial(t)

Ended ==
  /\ aborted \/ (dpc = "done" /\ k = Count)
  /\ UNCHANGED allvars

MainNext ==
  \/ Main_
  \/ \E t \in Threads : Thread(t)
  \/ Ended

(* Every thread keeps running; inside the package, fairness is Barrier's.  *)
Progress(t) ==
  /\ ~aborted /\ CallerStep(t)
  /\ UNCHANGED <<client, mainvars, aborted>>

MainSpec ==
  /\ MainInit /\ [][MainNext]_allvars
  /\ WF_allvars(Main_)
  /\ \A t \in Threads :
       /\ WF_allvars(Call(t)) /\ WF_allvars(Returned(t))
       /\ WF_allvars(Compute(t)) /\ WF_allvars(Serial(t))
       /\ SF_allvars(Progress(t))
-----------------------------------------------------------------------------
(* The serial update and the parallel work of a round keep apart: the work *)
(* uses an increment that the serial thread of the previous round has      *)
(* finished with and no other round has touched (thread t adds             *)
(* t + out_loop in every round), and while one thread updates, every other *)
(* is between the two barriers around it (barrier_main.c:51, 62-67).       *)
RoundsApart ==
  /\ \A t \in Threads : stage[t] = "compute" => increment[t] = t + out_loop[t]
  /\ \A t, u \in Threads :
       stage[t] = "serial" /\ u # t => stage[u] \in {"wait2", "call1", "wait1", "done"}

(* The program ends: main joins every thread and destroys the barrier, or  *)
(* an error has aborted the process.                                       *)
Terminates == <>(aborted \/ (dpc = "done" /\ k = Count))
=============================================================================

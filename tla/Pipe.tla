--------------------------------- MODULE Pipe ---------------------------------
(***************************************************************************)
(* The pipeline of pipe.c: a thread for each stage takes the value of its  *)
(* stage, sends it on one greater and keeps its stage's mutex while it     *)
(* does; the last stage is a receptacle from which results are collected.  *)
(*                                                                         *)
(* A step is what a thread does from one wait, for a mutex or a condition, *)
(* to the next.  The callers of pipe_start and pipe_result are threads of  *)
(* one program; main of pipe.c is a single one that does both.             *)
(***************************************************************************)
EXTENDS Integers, Sequences, FiniteSets

CONSTANTS
  Callers,     \* the threads that start values and collect results
  Stages,      \* the number of stage threads
  MaxStarts    \* bound: the number of values started

ASSUME PipeAssumption ==
  /\ IsFiniteSet(Callers) /\ Callers \cap Int = {}
  /\ Stages \in Nat \ {0} /\ MaxStarts \in Nat

VARIABLES
  data_ready, data,  \* of each stage
  owner,       \* who has each stage's mutex: a set of one thread at most
  active,      \* the values that were started and not asked for
  pc,          \* where each thread is: a stage thread has its stage's number
  value,       \* the value a thread is sending
  started,     \* the number of values started so far
  entered,     \* history: the values callers sent into the first stage, in order
  results      \* history: the results, in the order they were collected

vars == <<data_ready, data, owner, active, pc, value, started, entered, results>>

StageThreads == 1 .. Stages
Tail_ == Stages + 1
AllStages == 1 .. Tail_
Threads == StageThreads \cup Callers

Init ==
  /\ data_ready = [s \in AllStages |-> 0] /\ data = [s \in AllStages |-> 0]
  /\ owner = [s \in AllStages |-> {}]
  /\ active = 0
  /\ pc = [t \in Threads |-> IF t \in StageThreads THEN "start" ELSE "idle"]
  /\ value = [t \in Threads |-> 0]
  /\ started = 0 /\ entered = <<>> /\ results = <<>>

Go(t, from, to) == pc[t] = from /\ pc' = [pc EXCEPT ![t] = to]

(***************************************************************************)
(* The conditions of a stage.  Its thread, or at the tail those who        *)
(* collect, wait for avail; those who send to it wait for ready.  A signal *)
(* wakes one.                                                              *)
(***************************************************************************)
Target(t) == IF t \in StageThreads THEN t + 1 ELSE 1
Sleepers(s, cond) ==
  IF cond = "avail" THEN {t \in Threads : pc[t] = "avail" /\ s = IF t \in StageThreads THEN t ELSE Tail_}
  ELSE {t \in Threads : pc[t] = "ready" /\ Target(t) = s}

Woken(cond) == IF cond = "avail" THEN "test" ELSE "send"

(* Thread t goes on to "to", and signals a condition of stage s.           *)
Signal(s, cond, t, to) ==
  IF Sleepers(s, cond) = {} THEN pc' = [pc EXCEPT ![t] = to]
  ELSE \E u \in Sleepers(s, cond) : pc' = [pc EXCEPT ![t] = to, ![u] = Woken(cond)]

Free(s, t) == owner[s] \subseteq {t}

Release(s) == owner' = [owner EXCEPT ![s] = {}]

(***************************************************************************)
(* pipe_send.                                                              *)
(***************************************************************************)
SendWaits(t) ==        \* the stage is full
  /\ pc[t] = "send" /\ Free(Target(t), t) /\ data_ready[Target(t)] = 1
  /\ Go(t, "send", "ready")
  /\ UNCHANGED <<data_ready, data, owner, active, value, started, entered, results>>

(* The history: what a caller sends goes into the first stage.             *)
Enters(t) == entered' = IF t \in Callers THEN Append(entered, value[t]) ELSE entered

(* Mutant: a value overwrites the one in the stage.                        *)
Send_NoWait(t) ==
  LET s == Target(t)
  IN  /\ pc[t] = "send" /\ Free(s, t)
      /\ data' = [data EXCEPT ![s] = value[t]]
      /\ data_ready' = [data_ready EXCEPT ![s] = 1]
      /\ Signal(s, "avail", t, IF t \in StageThreads THEN "sent" ELSE "idle")
      /\ Enters(t)
      /\ UNCHANGED <<owner, active, value, started, results>>

Send(t) ==
  LET s == Target(t)
  IN  /\ pc[t] = "send" /\ Free(s, t) /\ data_ready[s] = 0
      /\ data' = [data EXCEPT ![s] = value[t]]
      /\ data_ready' = [data_ready EXCEPT ![s] = 1]
      /\ Signal(s, "avail", t, IF t \in StageThreads THEN "sent" ELSE "idle")
      /\ Enters(t)
      /\ UNCHANGED <<owner, active, value, started, results>>

(***************************************************************************)
(* pipe_stage.  The mutex of the stage is released only in the wait.       *)
(***************************************************************************)
StageWaits(t) ==
  /\ t \in StageThreads
  /\ Free(t, t) /\ data_ready[t] # 1
  /\ Go(t, "test", "avail") \/ Go(t, "start", "avail")
  /\ Release(t)
  /\ UNCHANGED <<data_ready, data, active, value, started, entered, results>>

StageTakes(t) ==
  /\ t \in StageThreads
  /\ Free(t, t) /\ data_ready[t] = 1
  /\ Go(t, "test", "send") \/ Go(t, "start", "send")
  /\ owner' = [owner EXCEPT ![t] = {t}]
  /\ value' = [value EXCEPT ![t] = data[t] + 1]
  /\ UNCHANGED <<data_ready, data, active, started, entered, results>>

(* Mutant: nobody is told that the stage is empty.                         *)
StageEmpties_Silent(t) ==
  /\ t \in StageThreads
  /\ Go(t, "sent", "test")
  /\ data_ready' = [data_ready EXCEPT ![t] = 0]
  /\ UNCHANGED <<data, owner, active, value, started, entered, results>>

StageEmpties(t) ==
  /\ t \in StageThreads /\ pc[t] = "sent"
  /\ data_ready' = [data_ready EXCEPT ![t] = 0]
  /\ Signal(t, "ready", t, "test")
  /\ UNCHANGED <<data, owner, active, value, started, entered, results>>

(***************************************************************************)
(* pipe_start and pipe_result.                                             *)
(***************************************************************************)
PipeStart(c) ==
  /\ c \in Callers /\ started < MaxStarts
  /\ Go(c, "idle", "send")
  /\ started' = started + 1
  /\ value' = [value EXCEPT ![c] = 10 * started']
  /\ active' = active + 1
  /\ UNCHANGED <<data_ready, data, owner, entered, results>>

(* Mutant: the value is counted out when it has arrived.                   *)
PipeResult_CountsLate(c) ==
  /\ c \in Callers
  /\ Go(c, "idle", IF active > 0 THEN "test" ELSE "idle")
  /\ UNCHANGED <<active, data_ready, data, owner, value, started, entered, results>>

PipeResult(c) ==
  /\ c \in Callers
  /\ \/ active > 0 /\ Go(c, "idle", "test") /\ active' = active - 1
     \/ active <= 0 /\ pc[c] = "idle" /\ UNCHANGED <<pc, active>>
  /\ UNCHANGED <<data_ready, data, owner, value, started, entered, results>>

ResultWaits(c) ==
  /\ c \in Callers
  /\ data_ready[Tail_] = 0 /\ Free(Tail_, c)
  /\ Go(c, "test", "avail")
  /\ UNCHANGED <<data_ready, data, owner, active, value, started, entered, results>>

Result(c) ==
  /\ c \in Callers /\ pc[c] = "test"
  /\ data_ready[Tail_] = 1 /\ Free(Tail_, c)
  /\ results' = Append(results, data[Tail_])
  /\ data_ready' = [data_ready EXCEPT ![Tail_] = 0]
  /\ Signal(Tail_, "ready", c, "idle")
  /\ UNCHANGED <<data, owner, active, value, started, entered>>

SpuriousWakeup(t) ==
  /\ Go(t, "avail", "test") \/ Go(t, "ready", "send")
  /\ UNCHANGED <<data_ready, data, owner, active, value, started, entered, results>>

(***************************************************************************)
(* The specification: every thread that can run does in the end; callers   *)
(* need not make calls.                                                    *)
(***************************************************************************)
Step(t) ==
  \/ SendWaits(t) \/ Send(t)
  \/ StageWaits(t) \/ StageTakes(t) \/ StageEmpties(t)
  \/ ResultWaits(t) \/ Result(t)

Next ==
  \/ \E t \in Threads : Step(t) \/ SpuriousWakeup(t)
  \/ \E c \in Callers : PipeStart(c) \/ PipeResult(c)

Spec == Init /\ [][Next]_vars

FairSpec == Spec /\ \A t \in Threads : WF_vars(Step(t))
-----------------------------------------------------------------------------
(* A stage is full; a value that is in two stages while it moves is in the *)
(* later one.                                                              *)
Full(s) == data_ready[s] = 1 /\ (s = Tail_ \/ pc[s] # "sent")

(* What went in and did not come out, the oldest first.                    *)
Inside == [i \in 1 .. Len(entered) - Len(results) |-> entered[Len(results) + i]]

Inputs == {10 * n : n \in 1 .. MaxStarts}

(* Values come out in the order in which they went in, each once and one   *)
(* greater for every stage, whoever waits for whom; and no more are inside *)
(* than there are stages.                                                  *)
Queue == INSTANCE Fifo WITH
  Capacity <- Tail_, Steps <- Stages, Values <- Inputs,
  contents <- Inside, results <- results

ImplementsFifo == Queue!Spec

(* active is what pipe_result takes it for: the values in the pipe and on  *)
(* their way to it, without those that a caller has asked for already, so  *)
(* nobody waits for a value that will not come (pipe.c:213).               *)
ActiveCounts ==
  /\ active >= 0
  /\ active + Cardinality({c \in Callers : pc[c] \in {"test", "avail"}})
       = Cardinality({s \in AllStages : Full(s)})
           + Cardinality({c \in Callers : pc[c] \in {"send", "ready"}})

(* A caller that asked for a result gets one, even with every stage full.  *)
ResultReturns == \A c \in Callers : pc[c] \in {"test", "avail"} ~> pc[c] = "idle"
=============================================================================

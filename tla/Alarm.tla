--------------------------------- MODULE Alarm ---------------------------------
(***************************************************************************)
(* alarm_cond.c: main puts alarms on a list sorted by time; the alarm      *)
(* thread takes the first off and waits for it with a timeout that an      *)
(* earlier alarm cuts short.                                               *)
(*                                                                         *)
(* alarm_mutex is held by the alarm thread except while it waits, so it is *)
(* free exactly when the thread waits or has to take it again.  What main  *)
(* does with the mutex held is one step.                                   *)
(***************************************************************************)
EXTENDS Integers, Sequences, FiniteSets

CONSTANTS
  Alarms,      \* the alarms that may be requested, each once
  Seconds,     \* the seconds they may be requested for; may be negative
  MaxTime,     \* bound: the last time an alarm may be set to
  NoAlarm

ASSUME AlarmAssumption ==
  /\ IsFiniteSet(Alarms) /\ NoAlarm \notin Alarms
  /\ Seconds \subseteq Int /\ MaxTime \in Nat

VARIABLES
  now,             \* the time; it starts at 1, long after the Epoch
  alarm_list,
  current_alarm,   \* what the alarm thread waits for; 0: for any alarm
  time,            \* the time of each alarm; 0 until it is requested
  pc,              \* where the alarm thread is
  alarm,           \* the alarm it has taken off the list
  exited,          \* main has met the end of its input: the process is gone
  fired            \* history: the alarms that were printed and freed

vars == <<now, alarm_list, current_alarm, time, pc, alarm, exited, fired>>

Init ==
  /\ now = 1 /\ alarm_list = <<>> /\ current_alarm = 0
  /\ time = [a \in Alarms |-> 0]
  /\ pc = "start" /\ alarm = NoAlarm
  /\ exited = FALSE /\ fired = {}

Waiting == pc \in {"wait", "timed_wait"}

MutexFree == Waiting \/ pc \in {"start", "woken", "timed_woken", "timed_out"}

(***************************************************************************)
(* alarm_insert: in front of the first alarm that is not earlier; the      *)
(* thread is woken when it waits for any alarm or for a later one.         *)
(***************************************************************************)
Insert(a, t) ==
  \E at \in 0 .. Len(alarm_list) :
    /\ \A n \in 1 .. at : time[alarm_list[n]] < t
    /\ at < Len(alarm_list) => time[alarm_list[at + 1]] >= t
    /\ alarm_list' = SubSeq(alarm_list, 1, at) \o <<a>>
                       \o SubSeq(alarm_list, at + 1, Len(alarm_list))

(* Mutant: an earlier alarm does not wake the thread.                      *)
Wakes_WhenIdle(t) == current_alarm = 0

Wakes(t) == current_alarm = 0 \/ t < current_alarm

(***************************************************************************)
(* main.  An alarm for time 0 is left out: to current_alarm, and to time,  *)
(* 0 stands for none, and in the program it is the Epoch, which only a     *)
(* request for decades ago could name.                                     *)
(***************************************************************************)
Request(a, seconds) ==
  LET t == now + seconds
  IN  /\ ~exited /\ MutexFree
      /\ time[a] = 0 /\ t \in (-MaxTime .. MaxTime) \ {0}
      /\ time' = [time EXCEPT ![a] = t]
      /\ Insert(a, t)
      /\ current_alarm' = IF Wakes(t) THEN t ELSE current_alarm
      /\ pc' = IF Wakes(t) /\ pc = "wait" THEN "woken"
               ELSE IF Wakes(t) /\ pc = "timed_wait" THEN "timed_woken" ELSE pc
      /\ UNCHANGED <<now, alarm, exited, fired>>

Exit ==
  /\ ~exited /\ exited' = TRUE
  /\ UNCHANGED <<now, alarm_list, current_alarm, time, pc, alarm, fired>>

(***************************************************************************)
(* alarm_thread.                                                           *)
(***************************************************************************)
Lock ==
  /\ ~exited /\ pc = "start"
  /\ pc' = "loop"
  /\ UNCHANGED <<now, alarm_list, current_alarm, time, alarm, exited, fired>>

GoesOff(a) ==
  /\ fired' = fired \cup {a}
  /\ pc' = "loop"

TakeFirst ==           \* the alarm is due, or the wait for it begins
  /\ alarm_list # <<>>
  /\ alarm' = Head(alarm_list) /\ alarm_list' = Tail(alarm_list)
  /\ \/ /\ time[alarm'] > now
        /\ current_alarm' = time[alarm'] /\ pc' = "timed_wait"
        /\ UNCHANGED fired
     \/ /\ time[alarm'] <= now
        /\ current_alarm' = IF pc = "loop" THEN 0 ELSE current_alarm
        /\ GoesOff(alarm')
  /\ UNCHANGED <<now, time, exited>>

Loop ==
  /\ ~exited /\ pc = "loop"
  /\ \/ TakeFirst
     \/ /\ alarm_list = <<>>
        /\ current_alarm' = 0 /\ pc' = "wait"
        /\ UNCHANGED <<now, alarm_list, time, alarm, exited, fired>>

Woken ==               \* from pthread_cond_wait
  /\ ~exited /\ pc = "woken"
  /\ \/ TakeFirst
     \/ /\ alarm_list = <<>>
        /\ pc' = "wait"
        /\ UNCHANGED <<now, alarm_list, current_alarm, time, alarm, exited, fired>>

(* Mutants: the end of the wait is taken for the end of its time; the      *)
(* alarm is not put back on the list.                                      *)
TimedWoken_Expires ==
  /\ ~exited /\ pc = "timed_woken"
  /\ \/ /\ current_alarm = time[alarm]
        /\ pc' = "timed_wait"
        /\ UNCHANGED fired
     \/ /\ current_alarm # time[alarm]
        /\ GoesOff(alarm)
  /\ UNCHANGED <<now, time, alarm, alarm_list, current_alarm, exited>>

TimedWoken_Forgets ==
  /\ ~exited /\ pc = "timed_woken"
  /\ pc' = IF current_alarm = time[alarm] THEN "timed_wait" ELSE "loop"
  /\ UNCHANGED <<now, alarm_list, current_alarm, time, alarm, exited, fired>>

TimedWoken ==          \* from pthread_cond_timedwait, before the time
  /\ ~exited /\ pc = "timed_woken"
  /\ \/ /\ current_alarm = time[alarm]
        /\ pc' = "timed_wait"
        /\ UNCHANGED <<alarm_list, current_alarm>>
     \/ /\ current_alarm # time[alarm]
        /\ Insert(alarm, time[alarm])
        /\ current_alarm' = IF Wakes(time[alarm]) THEN time[alarm] ELSE current_alarm
        /\ pc' = "loop"
  /\ UNCHANGED <<now, time, alarm, exited, fired>>

TimedOut ==            \* with ETIMEDOUT
  /\ ~exited /\ pc = "timed_out"
  /\ GoesOff(alarm)
  /\ UNCHANGED <<now, alarm_list, current_alarm, time, alarm, exited>>

Thread == Lock \/ Loop \/ Woken \/ TimedWoken \/ TimedOut

(***************************************************************************)
(* The clock, and what a wait on the condition does of itself.             *)
(***************************************************************************)
Tick ==
  /\ ~exited /\ now < MaxTime
  /\ now' = now + 1
  /\ UNCHANGED <<alarm_list, current_alarm, time, pc, alarm, exited, fired>>

Timeout ==
  /\ ~exited /\ pc = "timed_wait" /\ time[alarm] <= now
  /\ pc' = "timed_out"
  /\ UNCHANGED <<now, alarm_list, current_alarm, time, alarm, exited, fired>>

SpuriousWakeup ==
  /\ ~exited /\ Waiting
  /\ pc' = IF pc = "wait" THEN "woken" ELSE "timed_woken"
  /\ UNCHANGED <<now, alarm_list, current_alarm, time, alarm, exited, fired>>

Exited == exited /\ UNCHANGED vars

Next ==
  \/ \E a \in Alarms, s \in Seconds : Request(a, s)
  \/ Exit \/ Thread \/ Tick \/ Timeout \/ SpuriousWakeup \/ Exited

Spec == Init /\ [][Next]_vars

(* Time passes, the thread runs, and a wait whose time is over ends.       *)
FairSpec == Spec /\ WF_vars(Tick) /\ WF_vars(Thread) /\ SF_vars(Timeout)
-----------------------------------------------------------------------------
Pending ==
  {alarm_list[n] : n \in DOMAIN alarm_list}
    \cup (IF pc \in {"timed_wait", "timed_woken", "timed_out"} THEN {alarm} ELSE {})

(* The thread never sleeps past an alarm: it waits for any alarm only when *)
(* there is none, and for one only when no earlier one is on the list      *)
(* (alarm_cond.c:8-11).                                                    *)
NeverOversleeps ==
  /\ pc = "wait" => alarm_list = <<>>
  /\ pc = "timed_wait" => \A a \in Pending : time[a] >= time[alarm]

(* No alarm is lost, printed twice or printed early, whatever wakes the    *)
(* thread and whatever is on the list when it times out.                   *)
Clock == INSTANCE AlarmClock WITH pending <- Pending

ImplementsClock == Clock!Spec

(* Every alarm goes off, unless main has met the end of its input.         *)
AlarmsFire == \A a \in Alarms : time[a] # 0 ~> (a \in fired \/ exited)
=============================================================================

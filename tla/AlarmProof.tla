------------------------------ MODULE AlarmProof ------------------------------
(***************************************************************************)
(* Proofs about alarm_cond.c, for every set of alarms and of delays: the   *)
(* list stays sorted, so that the alarm thread, which looks at the first   *)
(* alarm only, never waits for a later one than it has to.                 *)
(***************************************************************************)
EXTENDS Alarm, SequenceTheorems, TLAPS

OnList == {alarm_list[n] : n \in DOMAIN alarm_list}
Holds == pc \in {"timed_wait", "timed_woken", "timed_out"}

TypeOK ==
  /\ now \in Nat /\ now >= 1
  /\ alarm_list \in Seq(Alarms)
  /\ current_alarm \in Int
  /\ time \in [Alarms -> Int]
  /\ pc \in {"start", "loop", "wait", "woken", "timed_wait", "timed_woken", "timed_out"}
  /\ Holds => alarm \in Alarms
  /\ exited \in BOOLEAN
  /\ fired \in SUBSET Alarms

Sorted ==
  \A m, n \in 1 .. Len(alarm_list) :
    m < n => alarm_list[m] # alarm_list[n] /\ time[alarm_list[m]] <= time[alarm_list[n]]

(* Every alarm that was requested is in one place, and no other is in any. *)
Placed ==
  /\ OnList \cap fired = {}
  /\ Holds => alarm \notin OnList \cup fired
  /\ \A a \in Pending \cup fired : time[a] # 0

(* current_alarm says what the thread waits for, or that it has been told  *)
(* of an earlier alarm.                                                    *)
Told ==
  /\ pc = "wait" => alarm_list = <<>> /\ current_alarm = 0
  /\ pc = "woken" => alarm_list # <<>> \/ current_alarm = 0
  /\ pc = "timed_wait" => current_alarm = time[alarm]
  /\ pc \in {"timed_wait", "timed_woken"} =>
       /\ current_alarm # 0 /\ current_alarm <= time[alarm]
       /\ current_alarm = time[alarm] => \A a \in OnList : time[a] >= time[alarm]
  /\ pc = "timed_out" => time[alarm] <= now

Safe == TypeOK /\ Sorted /\ Placed /\ Told

LEMMA PendingIs == Pending = OnList \cup (IF Holds THEN {alarm} ELSE {})
BY DEF Pending, OnList, Holds

(***************************************************************************)
(* The list.                                                               *)
(***************************************************************************)
LEMMA Inserting ==
  ASSUME alarm_list \in Seq(Alarms), time \in [Alarms -> Int], Sorted,
         NEW a \in Alarms, NEW t \in Int, a \notin OnList, Insert(a, t),
         time' \in [Alarms -> Int], time'[a] = t,
         \A b \in Alarms \ {a} : time'[b] = time[b]
  PROVE  /\ alarm_list' \in Seq(Alarms) /\ alarm_list' # <<>>
         /\ OnList' = OnList \cup {a}
         /\ Sorted'
<1> DEFINE N == Len(alarm_list)
<1>1. N \in Nat /\ DOMAIN alarm_list = 1 .. N /\ \A n \in 1 .. N : alarm_list[n] \in Alarms
  OBVIOUS
<1> HIDE DEF N
<1>2. PICK at \in 0 .. N :
        /\ \A n \in 1 .. at : time[alarm_list[n]] < t
        /\ at < N => time[alarm_list[at + 1]] >= t
        /\ alarm_list' = SubSeq(alarm_list, 1, at) \o <<a>> \o SubSeq(alarm_list, at + 1, N)
  BY DEF Insert, N
<1> DEFINE front == SubSeq(alarm_list, 1, at)
           back == SubSeq(alarm_list, at + 1, N)
<1>a. at \in Nat /\ at <= N
  BY <1>1
<1>3. front \in Seq(Alarms) /\ Len(front) = at /\ \A n \in 1 .. at : front[n] = alarm_list[n]
  <2>1. \A n \in 1 .. at : alarm_list[n] \in Alarms
    BY <1>1, <1>a
  <2> QED BY <2>1, <1>1, <1>a, SubSeqProperties
<1>4. /\ back \in Seq(Alarms) /\ Len(back) = N - at
      /\ \A n \in 1 .. N - at : back[n] = alarm_list[at + n]
  <2>1. \A n \in at + 1 .. N : alarm_list[n] \in Alarms
    BY <1>1, <1>a
  <2>2. /\ back \in Seq(Alarms)
        /\ Len(back) = IF at + 1 <= N THEN N - (at + 1) + 1 ELSE 0
        /\ \A n \in 1 .. N - (at + 1) + 1 : back[n] = alarm_list[at + 1 + n - 1]
    BY <2>1, <1>1, <1>a, SubSeqProperties
  <2> HIDE DEF back
  <2>3. Len(back) = N - at
    BY <2>2, <1>1, <1>a
  <2>4. ASSUME NEW n \in 1 .. N - at PROVE back[n] = alarm_list[at + n]
    <3>1. n \in 1 .. N - (at + 1) + 1 /\ at + 1 + n - 1 = at + n
      BY <1>1, <1>a
    <3> QED BY <3>1, <2>2
  <2> QED BY <2>2, <2>3, <2>4
<1> HIDE DEF front, back
<1>5. <<a>> \in Seq(Alarms) /\ Len(<<a>>) = 1 /\ <<a>>[1] = a
  OBVIOUS
<1> DEFINE most == front \o <<a>>
<1>6. /\ most \in Seq(Alarms) /\ Len(most) = at + 1
      /\ \A n \in 1 .. at + 1 : most[n] = IF n <= at THEN alarm_list[n] ELSE a
  BY <1>3, <1>5, ConcatProperties
<1> HIDE DEF most
<1>7. /\ alarm_list' \in Seq(Alarms) /\ Len(alarm_list') = N + 1
      /\ \A n \in 1 .. N + 1 : alarm_list'[n] = IF n <= at THEN alarm_list[n]
                                                ELSE IF n = at + 1 THEN a ELSE alarm_list[n - 1]
  <2>1. alarm_list' = most \o back
    BY <1>2 DEF most, front, back
  <2>2. /\ alarm_list' \in Seq(Alarms) /\ Len(alarm_list') = (at + 1) + (N - at)
        /\ \A n \in 1 .. (at + 1) + (N - at) :
             alarm_list'[n] = IF n <= at + 1 THEN most[n] ELSE back[n - (at + 1)]
    <3>1. /\ most \o back \in Seq(Alarms) /\ Len(most \o back) = Len(most) + Len(back)
          /\ \A n \in 1 .. Len(most) + Len(back) :
               (most \o back)[n] = IF n <= Len(most) THEN most[n] ELSE back[n - Len(most)]
      <4>1. most \in Seq(Alarms) /\ back \in Seq(Alarms)
        BY <1>4, <1>6
      <4> QED BY <4>1, ConcatProperties
    <3>2. Len(most) = at + 1 /\ Len(back) = N - at
      BY <1>4, <1>6
    <3> QED BY <3>1, <3>2, <2>1
  <2>3. \A n \in at + 2 .. N + 1 : back[n - (at + 1)] = alarm_list[n - 1]
    <3> TAKE n \in at + 2 .. N + 1
    <3>1. n - (at + 1) \in 1 .. N - at /\ at + (n - (at + 1)) = n - 1
      BY <1>1, <1>a
    <3> QED BY <3>1, <1>4
  <2>4. Len(alarm_list') = N + 1
    BY <2>2, <1>1, <1>a
  <2>5. ASSUME NEW n \in 1 .. N + 1
        PROVE  alarm_list'[n] = IF n <= at THEN alarm_list[n]
                                ELSE IF n = at + 1 THEN a ELSE alarm_list[n - 1]
    <3>1. n \in 1 .. (at + 1) + (N - at)
      BY <1>1, <1>a
    <3>2. CASE n <= at + 1
      <4>1. n \in 1 .. at + 1 /\ alarm_list'[n] = most[n]
        BY <3>1, <3>2, <2>2, <1>1, <1>a
      <4> QED BY <4>1, <1>6, <1>1, <1>a
    <3>3. CASE n > at + 1
      <4>1. n \in at + 2 .. N + 1 /\ alarm_list'[n] = back[n - (at + 1)]
        BY <3>1, <3>3, <2>2, <1>1, <1>a
      <4> QED BY <4>1, <3>3, <2>3, <1>1, <1>a
    <3> QED BY <3>2, <3>3, <1>1, <1>a
  <2> QED BY <2>2, <2>4, <2>5
<1>8. OnList' = OnList \cup {a}
  <2>1. OnList' = {alarm_list'[n] : n \in 1 .. N + 1}
    BY <1>7 DEF OnList
  <2>2. OnList = {alarm_list[n] : n \in 1 .. N}
    BY <1>1, <1>a DEF OnList
  <2>3. \A n \in 1 .. N + 1 : alarm_list'[n] \in OnList \cup {a}
    <3> TAKE n \in 1 .. N + 1
    <3>1. CASE n <= at
      BY <3>1, <2>2, <1>7, <1>1, <1>a
    <3>2. CASE n = at + 1
      BY <3>2, <1>7, <1>1, <1>a
    <3>3. CASE n > at + 1
      <4>1. n - 1 \in 1 .. N /\ alarm_list'[n] = alarm_list[n - 1]
        BY <3>3, <1>7, <1>1, <1>a
      <4> QED BY <4>1, <2>2
    <3> QED BY <3>1, <3>2, <3>3, <1>1, <1>a
  <2>4. \A n \in 1 .. N : alarm_list[n] \in OnList'
    <3> TAKE n \in 1 .. N
    <3>1. CASE n <= at
      BY <3>1, <2>1, <1>7, <1>1, <1>a
    <3>2. CASE n > at
      <4>1. n + 1 \in 1 .. N + 1 /\ alarm_list'[n + 1] = alarm_list[n]
        BY <3>2, <1>7, <1>1, <1>a
      <4> QED BY <4>1, <2>1
    <3> QED BY <3>1, <3>2, <1>1, <1>a
  <2>5. a \in OnList'
    <3>1. at + 1 \in 1 .. N + 1 /\ alarm_list'[at + 1] = a
      BY <1>7, <1>1, <1>a
    <3> QED BY <3>1, <2>1
  <2> QED BY <2>1, <2>2, <2>3, <2>4, <2>5
<1>9. Sorted'
  <2> SUFFICES ASSUME NEW m \in 1 .. N + 1, NEW n \in 1 .. N + 1, m < n
               PROVE  /\ alarm_list'[m] # alarm_list'[n]
                      /\ time'[alarm_list'[m]] <= time'[alarm_list'[n]]
    BY <1>7 DEF Sorted
  <2>0. \A k \in 1 .. N : alarm_list[k] # a /\ time'[alarm_list[k]] = time[alarm_list[k]]
                          /\ time[alarm_list[k]] \in Int
    BY <1>1, <1>a DEF OnList
  <2>1. \A k \in 1 .. N, l \in 1 .. N : k < l =>
           alarm_list[k] # alarm_list[l] /\ time[alarm_list[k]] <= time[alarm_list[l]]
    BY DEF Sorted, N
  <2>2. \A k \in at + 1 .. N : time[alarm_list[k]] >= t
    <3> TAKE k \in at + 1 .. N
    <3>1. at + 1 \in 1 .. N /\ k \in 1 .. N /\ time[alarm_list[at + 1]] >= t
      BY <1>1, <1>a, <1>2
    <3>2. CASE k = at + 1
      BY <3>1, <3>2
    <3>3. CASE k > at + 1
      <4>1. /\ time[alarm_list[at + 1]] <= time[alarm_list[k]]
            /\ time[alarm_list[at + 1]] \in Int /\ time[alarm_list[k]] \in Int
        BY <3>1, <3>3, <2>0, <2>1
      <4> QED BY <4>1, <3>1
    <3> QED BY <3>2, <3>3, <1>1, <1>a
  <2>3. CASE n <= at
    <3>1. /\ m \in 1 .. N /\ n \in 1 .. N
          /\ alarm_list'[m] = alarm_list[m] /\ alarm_list'[n] = alarm_list[n]
      BY <2>3, <1>7, <1>1, <1>a
    <3> QED BY <3>1, <2>0, <2>1
  <2>4. CASE n = at + 1
    <3>1. m \in 1 .. at /\ m \in 1 .. N /\ alarm_list'[m] = alarm_list[m] /\ alarm_list'[n] = a
      BY <2>4, <1>7, <1>1, <1>a
    <3> QED BY <3>1, <2>0, <1>2
  <2>5. CASE n > at + 1
    <3>1. n - 1 \in at + 1 .. N /\ n - 1 \in 1 .. N /\ alarm_list'[n] = alarm_list[n - 1]
      BY <2>5, <1>7, <1>1, <1>a
    <3>2. CASE m <= at
      <4>1. m \in 1 .. N /\ m < n - 1 /\ alarm_list'[m] = alarm_list[m]
        <5>1. m \in 1 .. N /\ m < n - 1
          BY <3>2, <2>5, <1>1, <1>a
        <5> QED BY <5>1, <3>2, <1>7
      <4> QED BY <4>1, <3>1, <2>0, <2>1
    <3>3. CASE m = at + 1
      <4>1. alarm_list'[m] = a
        BY <3>3, <1>7, <1>1, <1>a
      <4> QED BY <4>1, <3>1, <2>0, <2>2
    <3>4. CASE m > at + 1
      <4>1. m - 1 \in 1 .. N /\ m - 1 < n - 1 /\ alarm_list'[m] = alarm_list[m - 1]
        BY <3>4, <1>7, <1>1, <1>a
      <4> QED BY <4>1, <3>1, <2>0, <2>1
    <3> QED BY <3>2, <3>3, <3>4, <1>1, <1>a
  <2> QED BY <2>3, <2>4, <2>5, <1>1, <1>a
<1>10. alarm_list' # <<>>
  BY <1>7, <1>1, <1>a
<1> QED BY <1>7, <1>8, <1>9, <1>10

(* The first alarm is the earliest, and is on the list once.               *)
LEMMA Taking ==
  ASSUME alarm_list \in Seq(Alarms), time \in [Alarms -> Int], Sorted, alarm_list # <<>>,
         alarm' = Head(alarm_list), alarm_list' = Tail(alarm_list), time' = time
  PROVE  /\ alarm' \in OnList /\ alarm' \in Alarms
         /\ alarm_list' \in Seq(Alarms)
         /\ OnList' = OnList \ {alarm'}
         /\ \A b \in OnList' : time[b] >= time[alarm']
         /\ Sorted'
<1> DEFINE N == Len(alarm_list)
<1>1. /\ N \in Nat \ {0} /\ DOMAIN alarm_list = 1 .. N
      /\ \A n \in 1 .. N : alarm_list[n] \in Alarms
  OBVIOUS
<1>2. alarm' = alarm_list[1]
  OBVIOUS
<1>3. /\ alarm_list' \in Seq(Alarms) /\ Len(alarm_list') = N - 1
      /\ \A n \in 1 .. N - 1 : alarm_list'[n] = alarm_list[n + 1]
  BY HeadTailProperties
<1> HIDE DEF N
<1>4. OnList = {alarm_list[n] : n \in 1 .. N} /\ OnList' = {alarm_list'[n] : n \in 1 .. N - 1}
  <2>1. DOMAIN alarm_list' = 1 .. N - 1
    BY <1>1, <1>3
  <2> QED BY <2>1, <1>1 DEF OnList
<1>5. \A m, n \in 1 .. N : m < n =>
        alarm_list[m] # alarm_list[n] /\ time[alarm_list[m]] <= time[alarm_list[n]]
  BY DEF Sorted, N
<1>6. \A n \in 1 .. N - 1 : /\ n + 1 \in 1 .. N /\ alarm_list'[n] = alarm_list[n + 1]
                            /\ alarm_list'[n] # alarm' /\ time[alarm_list'[n]] >= time[alarm']
  <2> TAKE n \in 1 .. N - 1
  <2>1. n + 1 \in 1 .. N /\ 1 \in 1 .. N /\ 1 < n + 1
    BY <1>1
  <2> QED BY <2>1, <1>1, <1>2, <1>3, <1>5
<1>7. OnList' = OnList \ {alarm'}
  <2>1. OnList' \subseteq OnList \ {alarm'}
    BY <1>4, <1>6
  <2>2. ASSUME NEW b \in OnList, b # alarm' PROVE b \in OnList'
    <3>1. PICK n \in 1 .. N : b = alarm_list[n]
      BY <1>4
    <3>2. n - 1 \in 1 .. N - 1 /\ (n - 1) + 1 = n
      BY <3>1, <2>2, <1>1, <1>2
    <3> QED BY <3>1, <3>2, <1>3, <1>4
  <2> QED BY <2>1, <2>2
<1>8. Sorted'
  <2> SUFFICES ASSUME NEW m \in 1 .. N - 1, NEW n \in 1 .. N - 1, m < n
               PROVE  /\ alarm_list'[m] # alarm_list'[n]
                      /\ time[alarm_list'[m]] <= time[alarm_list'[n]]
    BY <1>3 DEF Sorted
  <2>1. m + 1 < n + 1
    BY <1>1
  <2> QED BY <2>1, <1>5, <1>6
<1>9. 1 \in 1 .. N
  BY <1>1
<1> QED BY <1>1, <1>2, <1>3, <1>4, <1>6, <1>7, <1>8, <1>9

(***************************************************************************)
(* The invariant.                                                          *)
(***************************************************************************)
LEMMA InitSafe == Init => Safe
<1> SUFFICES ASSUME Init PROVE Safe
  OBVIOUS
<1>1. TypeOK
  <2>1. alarm_list \in Seq(Alarms) /\ current_alarm \in Int /\ now \in Nat /\ now >= 1
    BY DEF Init
  <2> QED BY <2>1 DEF Init, TypeOK, Holds
<1>2. OnList = {} /\ Pending = {}
  BY PendingIs DEF Init, OnList, Holds
<1>3. Sorted /\ Placed /\ Told
  BY <1>2 DEF Init, Sorted, Placed, Told, Holds
<1> QED BY <1>1, <1>3 DEF Safe

(* A step that leaves the list, the alarms and their times alone.          *)
LEMMA SameList ==
  ASSUME UNCHANGED <<alarm_list, time>>
  PROVE  OnList' = OnList /\ (Sorted => Sorted')
BY DEF OnList, Sorted

LEMMA RequestSafe ==
  ASSUME Safe, NEW a \in Alarms, NEW s \in Seconds, Request(a, s)
  PROVE  /\ Safe' /\ a \notin Pending \cup fired /\ time'[a] \in Int
         /\ Pending' = Pending \cup {a}
<1> DEFINE t == now + s
<1>1. t \in Int /\ t # 0
  BY AlarmAssumption DEF Safe, TypeOK, Request
<1>2. /\ time' = [time EXCEPT ![a] = t] /\ time[a] = 0 /\ Insert(a, t)
      /\ time' \in [Alarms -> Int] /\ time'[a] = t
      /\ \A b \in Alarms \ {a} : time'[b] = time[b]
  BY <1>1 DEF Safe, TypeOK, Request
<1>3. a \notin Pending \cup fired
  BY <1>2 DEF Safe, Placed
<1>4. a \notin OnList /\ (Holds => a # alarm)
  BY <1>3, PendingIs
<1>5. /\ alarm_list' \in Seq(Alarms) /\ alarm_list' # <<>> /\ OnList' = OnList \cup {a}
      /\ Sorted'
  <2>1. alarm_list \in Seq(Alarms) /\ time \in [Alarms -> Int] /\ Sorted
    BY DEF Safe, TypeOK
  <2> QED BY <2>1, <1>1, <1>2, <1>4, Inserting
<1> HIDE DEF t
<1>6. /\ current_alarm' = IF Wakes(t) THEN t ELSE current_alarm
      /\ pc' = IF Wakes(t) /\ pc = "wait" THEN "woken"
               ELSE IF Wakes(t) /\ pc = "timed_wait" THEN "timed_woken" ELSE pc
      /\ UNCHANGED <<now, alarm, exited, fired>>
  BY DEF Request, t
<1>7. OnList \subseteq Alarms /\ (Holds' <=> Holds)
  BY <1>6 DEF Safe, TypeOK, OnList, Holds
<1>8. Pending' = Pending \cup {a}
  <2>1. Pending' = OnList' \cup (IF Holds' THEN {alarm'} ELSE {})
    BY DEF Pending, OnList, Holds
  <2> QED BY <2>1, <1>5, <1>6, <1>7, PendingIs
<1>9. TypeOK'
  BY <1>1, <1>2, <1>5, <1>6, <1>7 DEF Safe, TypeOK, Holds
<1>10. Placed'
  <2>1. OnList' \cap fired' = {} /\ (Holds' => alarm' \notin OnList' \cup fired')
    BY <1>3, <1>4, <1>5, <1>6, <1>7 DEF Safe, Placed
  <2>2. ASSUME NEW b \in Pending' \cup fired' PROVE time'[b] # 0
    <3>1. b = a \/ b \in Pending \cup fired
      BY <1>6, <1>8
    <3>2. Pending \cup fired \subseteq Alarms
      BY <1>7, PendingIs DEF Safe, TypeOK
    <3> QED BY <3>1, <3>2, <1>1, <1>2 DEF Safe, Placed
  <2> QED BY <2>1, <2>2 DEF Placed
<1>11. Told'
  <2>1. Holds => alarm \in Alarms /\ time'[alarm'] = time[alarm] /\ time[alarm] \in Int
    BY <1>2, <1>4, <1>6 DEF Safe, TypeOK
  <2>2. pc' \in {"timed_wait", "timed_woken"} => pc \in {"timed_wait", "timed_woken"} /\ Holds
    BY <1>6 DEF Holds
  <2>3. current_alarm \in Int
    BY DEF Safe, TypeOK
  <2>4. ASSUME pc' \in {"timed_wait", "timed_woken"}
        PROVE  /\ pc' = "timed_wait" => current_alarm' = time'[alarm']
               /\ current_alarm' # 0 /\ current_alarm' <= time'[alarm']
    BY <2>1, <2>2, <2>3, <2>4, <1>1, <1>6 DEF Safe, Told, Wakes
  <2>5. ASSUME pc' \in {"timed_wait", "timed_woken"}, current_alarm' = time'[alarm'],
               NEW b \in OnList'
        PROVE  time'[b] >= time'[alarm']
    <3>1. ~Wakes(t) /\ current_alarm = time[alarm] /\ t >= current_alarm
      BY <2>1, <2>2, <2>3, <2>5, <1>1, <1>6 DEF Safe, Told, Wakes
    <3>2. CASE b = a
      BY <3>1, <3>2, <2>1, <2>2, <2>5, <1>2
    <3>3. CASE b \in OnList
      BY <3>1, <3>3, <2>1, <2>2, <2>5, <1>2, <1>4, <1>7 DEF Safe, Told
    <3> QED BY <3>2, <3>3, <1>5
  <2>6. pc' # "wait"
    BY <1>6 DEF Safe, Told, Wakes
  <2>7. pc' = "timed_out" => time'[alarm'] <= now'
    BY <2>1, <1>6 DEF Safe, Told, Holds
  <2> QED BY <2>4, <2>5, <2>6, <2>7, <1>5 DEF Told
<1> QED BY <1>2, <1>3, <1>5, <1>8, <1>9, <1>10, <1>11 DEF Safe

(* The alarm thread takes the first alarm: it goes off or is waited for.   *)
LEMMA TakeSafe ==
  ASSUME Safe, pc \in {"loop", "woken"}, TakeFirst
  PROVE  /\ Safe'
         /\ \/ Pending' = Pending /\ fired' = fired
            \/ \E a \in Pending : /\ a \in Alarms /\ time[a] <= now
                                 /\ Pending' = Pending \ {a} /\ fired' = fired \cup {a}
<1>1. /\ alarm' \in OnList /\ alarm' \in Alarms /\ alarm_list' \in Seq(Alarms)
      /\ OnList' = OnList \ {alarm'} /\ \A b \in OnList' : time[b] >= time[alarm']
      /\ Sorted'
  BY Taking DEF Safe, TypeOK, TakeFirst
<1>2. UNCHANGED <<now, time, exited>>
  BY DEF TakeFirst
<1>3. Pending = OnList /\ ~Holds
  BY PendingIs DEF Holds
<1>4. Pending' = OnList' \cup (IF Holds' THEN {alarm'} ELSE {})
  BY DEF Pending, OnList, Holds
<1>5. time[alarm'] \in Int /\ now \in Nat /\ now >= 1
  BY <1>1 DEF Safe, TypeOK
<1>6. CASE time[alarm'] > now
  <2>1. current_alarm' = time[alarm'] /\ pc' = "timed_wait" /\ fired' = fired
    BY <1>5, <1>6 DEF TakeFirst
  <2>2. Pending' = Pending
    BY <2>1, <1>1, <1>3, <1>4 DEF Holds
  <2>3. TypeOK'
    BY <2>1, <1>1, <1>2, <1>5 DEF Safe, TypeOK, Holds
  <2>4. Placed'
    BY <2>1, <2>2, <1>1, <1>2 DEF Safe, Placed, Holds
  <2>5. Told'
    BY <2>1, <1>1, <1>2, <1>5, <1>6 DEF Told
  <2> QED BY <2>1, <2>2, <2>3, <2>4, <2>5, <1>1 DEF Safe
<1>7. CASE time[alarm'] <= now
  <2>1. /\ current_alarm' \in {0, current_alarm} /\ pc' = "loop"
        /\ fired' = fired \cup {alarm'}
    BY <1>5, <1>7 DEF TakeFirst, GoesOff
  <2>2. Pending' = Pending \ {alarm'}
    BY <2>1, <1>1, <1>3, <1>4 DEF Holds
  <2>3. TypeOK'
    BY <2>1, <1>1, <1>2, <1>5 DEF Safe, TypeOK, Holds
  <2>4. Placed'
    BY <2>1, <2>2, <1>1, <1>2, <1>3 DEF Safe, Placed, Holds
  <2>5. Told'
    BY <2>1 DEF Told
  <2> QED BY <2>1, <2>2, <2>3, <2>4, <2>5, <1>1, <1>3, <1>7 DEF Safe
<1> QED BY <1>5, <1>6, <1>7

(* The end of a timed wait: the alarm goes back on the list when the       *)
(* thread has been told of an earlier one.                                 *)
LEMMA TimedWokenSafe ==
  ASSUME Safe, TimedWoken
  PROVE  Safe' /\ Pending' = Pending /\ fired' = fired
<1>1. pc = "timed_woken" /\ UNCHANGED <<now, time, alarm, exited, fired>>
  BY DEF TimedWoken
<1>2. alarm \in Alarms /\ alarm \notin OnList \cup fired /\ Pending = OnList \cup {alarm}
      /\ time[alarm] \in Int
  BY <1>1, PendingIs DEF Safe, TypeOK, Placed, Holds
<1>3. Pending' = OnList' \cup (IF Holds' THEN {alarm'} ELSE {})
  BY DEF Pending, OnList, Holds
<1>4. CASE current_alarm = time[alarm]
  <2>1. pc' = "timed_wait" /\ UNCHANGED <<alarm_list, current_alarm>>
    BY <1>4 DEF TimedWoken
  <2>2. OnList' = OnList /\ Sorted'
    BY <2>1, <1>1, SameList DEF Safe
  <2>3. Pending' = Pending
    BY <2>1, <2>2, <1>1, <1>2, <1>3 DEF Holds
  <2>4. TypeOK'
    BY <2>1, <1>1, <1>2 DEF Safe, TypeOK, Holds
  <2>5. Placed'
    BY <2>1, <2>2, <2>3, <1>1, <1>2 DEF Safe, Placed, Holds
  <2>6. Told'
    BY <2>1, <2>2, <1>1, <1>4 DEF Safe, Told
  <2> QED BY <2>2, <2>3, <2>4, <2>5, <2>6, <1>1 DEF Safe
<1>5. CASE current_alarm # time[alarm]
  <2>1. /\ Insert(alarm, time[alarm]) /\ pc' = "loop"
        /\ current_alarm' \in {time[alarm], current_alarm}
    BY <1>5 DEF TimedWoken
  <2>2. alarm_list \in Seq(Alarms) /\ time \in [Alarms -> Int] /\ Sorted
    BY DEF Safe, TypeOK
  <2>3. time' \in [Alarms -> Int] /\ time'[alarm] = time[alarm]
        /\ \A b \in Alarms \ {alarm} : time'[b] = time[b]
    BY <2>2, <1>1
  <2>4. alarm_list' \in Seq(Alarms) /\ OnList' = OnList \cup {alarm} /\ Sorted'
    BY <2>1, <2>2, <2>3, <1>2, Inserting
  <2>5. Pending' = Pending
    BY <2>1, <2>4, <1>2, <1>3 DEF Holds
  <2>6. TypeOK'
    BY <2>1, <2>4, <1>1, <1>2 DEF Safe, TypeOK, Holds
  <2>7. Placed'
    BY <2>1, <2>4, <2>5, <1>1, <1>2 DEF Safe, Placed, Holds
  <2>8. Told'
    BY <2>1 DEF Told
  <2> QED BY <2>4, <2>5, <2>6, <2>7, <2>8, <1>1 DEF Safe
<1> QED BY <1>4, <1>5

(* The steps that move no alarm.                                           *)
LEMMA QuietSafe ==
  ASSUME Safe, UNCHANGED <<alarm_list, time, alarm, fired>>,
         current_alarm' \in Int, exited' \in BOOLEAN, now' \in Nat, now' >= now,
         pc' \in {"start", "loop", "wait", "woken", "timed_wait", "timed_woken", "timed_out"},
         Holds' <=> Holds, Told'
  PROVE  Safe' /\ Pending' = Pending
<1>1. OnList' = OnList /\ Sorted'
  BY SameList DEF Safe
<1>2. Pending' = OnList' \cup (IF Holds' THEN {alarm'} ELSE {})
  BY DEF Pending, OnList, Holds
<1>3. Pending' = Pending
  BY <1>1, <1>2, PendingIs
<1>4. TypeOK'
  BY DEF Safe, TypeOK
<1>5. Placed'
  BY <1>1, <1>3 DEF Safe, Placed
<1> QED BY <1>1, <1>3, <1>4, <1>5 DEF Safe

(* What a step does to the alarms: nothing, one is set, or one goes off.   *)
Steps ==
  \/ Pending' = Pending /\ fired' = fired /\ time' = time /\ now' \in {now, now + 1}
  \/ \E a \in Alarms : /\ a \notin Pending \cup fired /\ Pending' = Pending \cup {a}
                       /\ time' = [time EXCEPT ![a] = time'[a]] /\ fired' = fired /\ now' = now
  \/ \E a \in Alarms : /\ a \in Pending /\ time[a] <= now
                       /\ Pending' = Pending \ {a} /\ fired' = fired \cup {a}
                       /\ time' = time /\ now' = now

LEMMA NextSafe ==
  ASSUME Safe, [Next]_vars
  PROVE  Safe' /\ Steps
<1> USE DEF Steps
<1>1. ASSUME NEW a \in Alarms, NEW s \in Seconds, Request(a, s) PROVE Safe' /\ Steps
  <2>1. Safe' /\ a \notin Pending \cup fired /\ Pending' = Pending \cup {a}
    BY <1>1, RequestSafe
  <2>2. time' = [time EXCEPT ![a] = time'[a]] /\ fired' = fired /\ now' = now
    BY <1>1 DEF Request, Safe, TypeOK
  <2> QED BY <2>1, <2>2
<1>2. CASE Exit
  BY <1>2, QuietSafe DEF Exit, Safe, TypeOK, Told, Holds, OnList
<1>3. CASE Lock
  BY <1>3, QuietSafe DEF Lock, Safe, TypeOK, Told, Holds, OnList
<1>4. ASSUME pc \in {"loop", "woken"}, TakeFirst PROVE Safe' /\ Steps
  <2>1. time' = time /\ now' = now
    BY <1>4 DEF TakeFirst
  <2>2. /\ Safe'
        /\ \/ Pending' = Pending /\ fired' = fired
           \/ \E a \in Pending : /\ a \in Alarms /\ time[a] <= now
                                /\ Pending' = Pending \ {a} /\ fired' = fired \cup {a}
    BY <1>4, TakeSafe
  <2> QED BY <2>1, <2>2
<1>5. CASE Loop
  <2>1. CASE TakeFirst
    BY <2>1, <1>4, <1>5 DEF Loop
  <2>2. CASE alarm_list = <<>> /\ current_alarm' = 0 /\ pc' = "wait"
             /\ UNCHANGED <<now, alarm_list, time, alarm, exited, fired>>
    BY <2>2, <1>5, QuietSafe DEF Loop, Safe, TypeOK, Told, Holds
  <2> QED BY <2>1, <2>2, <1>5 DEF Loop
<1>6. CASE Woken
  <2>1. CASE TakeFirst
    BY <2>1, <1>4, <1>6 DEF Woken
  <2>2. CASE alarm_list = <<>> /\ pc' = "wait"
             /\ UNCHANGED <<now, alarm_list, current_alarm, time, alarm, exited, fired>>
    BY <2>2, <1>6, QuietSafe DEF Woken, Safe, TypeOK, Told, Holds
  <2> QED BY <2>1, <2>2, <1>6 DEF Woken
<1>7. CASE TimedWoken
  <2>1. time' = time /\ now' = now
    BY <1>7 DEF TimedWoken
  <2> QED BY <2>1, <1>7, TimedWokenSafe
<1>8. CASE TimedOut
  <2>1. /\ pc = "timed_out" /\ pc' = "loop" /\ fired' = fired \cup {alarm}
        /\ UNCHANGED <<now, alarm_list, current_alarm, time, alarm, exited>>
    BY <1>8 DEF TimedOut, GoesOff
  <2>2. alarm \in Alarms /\ alarm \notin OnList \cup fired /\ Pending = OnList \cup {alarm}
        /\ time[alarm] <= now
    BY <2>1, PendingIs DEF Safe, TypeOK, Placed, Told, Holds
  <2>3. OnList' = OnList /\ Sorted'
    BY <2>1, SameList DEF Safe
  <2>4. Pending' = OnList' \cup (IF Holds' THEN {alarm'} ELSE {})
    BY DEF Pending, OnList, Holds
  <2>5. Pending' = Pending \ {alarm}
    BY <2>1, <2>2, <2>3, <2>4 DEF Holds
  <2>6. TypeOK' /\ Told'
    BY <2>1, <2>2 DEF Safe, TypeOK, Told, Holds
  <2>7. Placed'
    BY <2>1, <2>2, <2>3, <2>5 DEF Safe, Placed, Holds
  <2> QED BY <2>1, <2>2, <2>3, <2>5, <2>6, <2>7 DEF Safe
<1>9. CASE Tick
  BY <1>9, QuietSafe DEF Tick, Safe, TypeOK, Told, Holds, OnList
<1>10. CASE Timeout
  BY <1>10, QuietSafe DEF Timeout, Safe, TypeOK, Told, Holds
<1>11. CASE SpuriousWakeup
  BY <1>11, QuietSafe DEF SpuriousWakeup, Waiting, Safe, TypeOK, Told, Holds, OnList
<1>12. CASE UNCHANGED vars
  BY <1>12, QuietSafe DEF vars, Safe, TypeOK, Told, Holds, OnList
<1> QED BY <1>1, <1>2, <1>3, <1>5, <1>6, <1>7, <1>8, <1>9, <1>10, <1>11, <1>12
        DEF Next, Thread, Exited

LEMMA AlarmSafe == Spec => []Safe
<1>1. Safe /\ [Next]_vars => Safe'
  BY NextSafe
<1> QED BY <1>1, InitSafe, PTL DEF Spec

(***************************************************************************)
(* The theorems.                                                           *)
(***************************************************************************)
(* The variables have their types, for every set of alarms.                *)
THEOREM AlarmTypes == Spec => []TypeOK
<1>1. Safe => TypeOK
  BY DEF Safe
<1> QED BY <1>1, AlarmSafe, PTL

(* The list of alarm_insert is sorted by time and holds no alarm twice.    *)
THEOREM AlarmSorted == Spec => []Sorted
<1>1. Safe => Sorted
  BY DEF Safe
<1> QED BY <1>1, AlarmSafe, PTL

(* The alarm thread waits for any alarm only when there is none, and for   *)
(* one only when none is earlier.                                          *)
THEOREM AlarmNeverOversleeps == Spec => []NeverOversleeps
<1>1. ASSUME Safe PROVE NeverOversleeps
  <2>1. pc = "wait" => alarm_list = <<>>
    BY <1>1 DEF Safe, Told
  <2>2. ASSUME pc = "timed_wait", NEW a \in Pending PROVE time[a] >= time[alarm]
    <3>1. alarm \in Alarms /\ time[alarm] \in Int /\ (a \in OnList \/ a = alarm)
      BY <1>1, <2>2, PendingIs DEF Safe, TypeOK, Holds
    <3> QED BY <3>1, <1>1, <2>2 DEF Safe, Told
  <2> QED BY <2>1, <2>2 DEF NeverOversleeps
<1> QED BY <1>1, AlarmSafe, PTL

(* Every alarm that was requested goes off at most once, and not before    *)
(* its time.                                                               *)
THEOREM AlarmImplementsClock == Spec => ImplementsClock
<1>1. Init => Clock!Init
  <2> SUFFICES ASSUME Init PROVE Clock!Init
    OBVIOUS
  <2>1. Pending = {}
    BY DEF Init, Pending
  <2> QED BY <2>1 DEF Init, Clock!Init
<1>2. ASSUME Safe, [Next]_vars PROVE [Clock!Next]_Clock!vars
  BY <1>2, NextSafe DEF Steps, Clock!Next, Clock!vars, Clock!Tick, Clock!Set, Clock!Fire
<1> QED BY <1>1, <1>2, AlarmSafe, PTL DEF Spec, ImplementsClock, Clock!Spec
=============================================================================

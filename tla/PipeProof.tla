------------------------------ MODULE PipeProof ------------------------------
(***************************************************************************)
(* Proofs about pipe.c, for every number of stages and of callers: the     *)
(* counter active is what is in the pipe, and the pipe is a first-in       *)
(* first-out queue.                                                        *)
(***************************************************************************)
EXTENDS Pipe, FiniteSetTheorems, SequenceTheorems, TLAPS

Places == {"start", "idle", "test", "avail", "send", "ready", "sent"}

TypeOK ==
  /\ data_ready \in [AllStages -> {0, 1}] /\ data \in [AllStages -> Int]
  /\ owner \in [AllStages -> SUBSET Threads]
  /\ active \in Int
  /\ pc \in [Threads -> Places] /\ value \in [Threads -> Int]
  /\ started \in Nat /\ entered \in Seq(Int) /\ results \in Seq(Int)
  /\ \A c \in Callers : pc[c] \in {"idle", "test", "avail", "send", "ready"}
  /\ \A t \in StageThreads : pc[t] # "idle"

(* A stage thread that sends leaves its stage full until it has sent.      *)
Carries == \A t \in StageThreads : pc[t] \in {"send", "ready", "sent"} => data_ready[t] = 1

Asking == {c \in Callers : pc[c] \in {"test", "avail"}}
Sending == {c \in Callers : pc[c] \in {"send", "ready"}}
Held == {s \in AllStages : Full(s)}

Counted == active >= 0 /\ active + Cardinality(Asking) = Cardinality(Held) + Cardinality(Sending)

Safe == TypeOK /\ Carries /\ Counted

LEMMA Threads_ ==
  /\ Tail_ \in Nat /\ Tail_ \in AllStages /\ Tail_ \notin StageThreads /\ 1 \in AllStages
  /\ StageThreads \subseteq AllStages /\ AllStages \subseteq Int
  /\ StageThreads \cap Callers = {}
  /\ \A t \in StageThreads : t + 1 \in AllStages /\ t + 1 # t
  /\ \A s \in AllStages : s = Tail_ \/ s \in StageThreads
BY PipeAssumption DEF Tail_, AllStages, StageThreads

LEMMA TargetIs ==
  ASSUME NEW t \in Threads
  PROVE  /\ Target(t) \in AllStages
         /\ t \in StageThreads => Target(t) = t + 1
         /\ t \in Callers => Target(t) = 1
BY Threads_ DEF Target, Threads

LEMMA Finite ==
  /\ IsFiniteSet(Asking) /\ Cardinality(Asking) \in Nat
  /\ IsFiniteSet(Sending) /\ Cardinality(Sending) \in Nat
  /\ IsFiniteSet(Held) /\ Cardinality(Held) \in Nat
<1>1. Asking \subseteq Callers /\ Sending \subseteq Callers /\ Held \subseteq AllStages
  BY DEF Asking, Sending, Held
<1>2. IsFiniteSet(AllStages)
  BY Threads_, FS_Interval DEF AllStages
<1> QED BY <1>1, <1>2, PipeAssumption, FS_Subset, FS_CardinalityType

LEMMA Plus ==
  ASSUME NEW S, NEW x, IsFiniteSet(S), x \notin S
  PROVE  Cardinality(S \cup {x}) = Cardinality(S) + 1
BY FS_AddElement

LEMMA SameSet ==
  ASSUME NEW S, NEW T, NEW x, S \ {x} = T \ {x}, x \in S <=> x \in T
  PROVE  S = T
OBVIOUS

LEMMA Minus ==
  ASSUME NEW S, NEW x \in S, IsFiniteSet(S)
  PROVE  Cardinality(S \ {x}) = Cardinality(S) - 1
BY FS_RemoveElement

(***************************************************************************)
(* A signal wakes one sleeper, which makes no difference to any count.     *)
(***************************************************************************)
Dozes(u) ==
  \/ pc'[u] = pc[u]
  \/ pc[u] = "avail" /\ pc'[u] = "test"
  \/ pc[u] = "ready" /\ pc'[u] = "send"

LEMMA Signalled ==
  ASSUME TypeOK, NEW s, NEW cond \in {"avail", "ready"}, NEW t \in Threads,
         pc[t] \notin {"avail", "ready"}, NEW to \in Places, Signal(s, cond, t, to)
  PROVE  /\ pc' \in [Threads -> Places] /\ pc'[t] = to
         /\ \A u \in Threads \ {t} : Dozes(u)
<1>1. pc \in [Threads -> Places]
  BY DEF TypeOK
<1>2. CASE Sleepers(s, cond) = {}
  BY <1>1, <1>2 DEF Signal, Dozes
<1>3. ASSUME NEW u \in Sleepers(s, cond), pc' = [pc EXCEPT ![t] = to, ![u] = Woken(cond)]
      PROVE  /\ pc' \in [Threads -> Places] /\ pc'[t] = to
             /\ \A v \in Threads \ {t} : Dozes(v)
  <2>1. u \in Threads /\ pc[u] = cond /\ Woken(cond) = (IF cond = "avail" THEN "test" ELSE "send")
    BY <1>3 DEF Sleepers, Woken
  <2>2. u # t
    BY <2>1
  <2> QED BY <1>1, <1>3, <2>1, <2>2 DEF Dozes, Places
<1> QED BY <1>2, <1>3 DEF Signal

(* What a step does to the counts: nobody but t changes sides.             *)
LEMMA Sides ==
  ASSUME TypeOK, pc' \in [Threads -> Places], NEW t \in Threads,
         \A u \in Threads \ {t} : Dozes(u)
  PROVE  /\ Asking' \ {t} = Asking \ {t} /\ Sending' \ {t} = Sending \ {t}
         /\ t \in Asking' <=> t \in Callers /\ pc'[t] \in {"test", "avail"}
         /\ t \in Sending' <=> t \in Callers /\ pc'[t] \in {"send", "ready"}
         /\ t \in Asking <=> t \in Callers /\ pc[t] \in {"test", "avail"}
         /\ t \in Sending <=> t \in Callers /\ pc[t] \in {"send", "ready"}
BY DEF Asking, Sending, Dozes, Threads

LEMMA StagesHeld ==
  ASSUME NEW t \in Threads, \A u \in Threads \ {t} : Dozes(u),
         NEW s \in AllStages, s # t, data_ready'[s] = data_ready[s]
  PROVE  s \in Held' <=> s \in Held
<1>1. s = Tail_ \/ s \in Threads \ {t}
  BY Threads_ DEF Threads
<1> QED BY <1>1 DEF Held, Full, Dozes

LEMMA StagesCarry ==
  ASSUME Carries, NEW t \in Threads, \A u \in Threads \ {t} : Dozes(u),
         NEW s \in StageThreads, s # t, data_ready[s] = 1 => data_ready'[s] = 1
  PROVE  pc'[s] \in {"send", "ready", "sent"} => data_ready'[s] = 1
BY DEF Carries, Dozes, Threads

(***************************************************************************)
(* The steps.                                                              *)
(***************************************************************************)
LEMMA InitSafe == Init => Safe
<1> SUFFICES ASSUME Init PROVE Safe
  OBVIOUS
<1>1. TypeOK
  BY Threads_ DEF Init, TypeOK, Places, Threads
<1>2. Carries
  BY DEF Init, Carries, Threads
<1>3. Asking = {} /\ Sending = {} /\ Held = {}
  BY Threads_ DEF Init, Asking, Sending, Held, Full, Threads
<1> QED BY <1>1, <1>2, <1>3, FS_EmptySet DEF Init, Safe, Counted

(* pipe_send fills the stage, and a stage thread leaves its own behind.    *)
LEMMA SendMoves ==
  ASSUME Safe, NEW t \in Threads, Send(t)
  PROVE  LET s == Target(t)
         IN  /\ s \in AllStages /\ s \notin Held /\ s \in Held' /\ s # t
             /\ pc' \in [Threads -> Places]
             /\ pc'[t] = IF t \in StageThreads THEN "sent" ELSE "idle"
             /\ \A u \in Threads \ {t} : Dozes(u)
             /\ data_ready' \in [AllStages -> {0, 1}] /\ data_ready'[s] = 1
             /\ \A r \in AllStages \ {s} : data_ready'[r] = data_ready[r]
             /\ t \in StageThreads => t \in Held /\ data_ready[t] = 1 /\ Held' = (Held \ {t}) \cup {s}
             /\ t \in Callers => Held' = Held \cup {s}
<1> DEFINE s == Target(t)
           to == IF t \in StageThreads THEN "sent" ELSE "idle"
<1>1. /\ pc[t] = "send" /\ data_ready[s] = 0
      /\ data_ready' = [data_ready EXCEPT ![s] = 1]
      /\ Signal(s, "avail", t, to)
  BY DEF Send
<1>2. s \in AllStages /\ s # t
  BY TargetIs, Threads_, PipeAssumption DEF Threads
<1>3. TypeOK /\ to \in Places
  BY DEF Safe, Places
<1>4. /\ pc' \in [Threads -> Places] /\ pc'[t] = to
      /\ \A u \in Threads \ {t} : Dozes(u)
  BY <1>1, <1>3, Signalled
<1>5. (t \in StageThreads => s = t + 1) /\ (t \in Callers => s = 1)
  BY TargetIs
<1> HIDE DEF s
<1>6. /\ data_ready' \in [AllStages -> {0, 1}] /\ data_ready'[s] = 1
      /\ \A r \in AllStages \ {s} : data_ready'[r] = data_ready[r]
  BY <1>1, <1>2, <1>3 DEF TypeOK
<1>7. \A r \in AllStages \ {s, t} : r \in Held' <=> r \in Held
  BY <1>4, <1>6, StagesHeld
<1>8. s \notin Held
  BY <1>1 DEF Held, Full
<1>9. s \in Held'
  <2>1. pc'[s] # "sent" \/ s = Tail_
    <3>1. CASE s \in StageThreads
      <4>1. pc[s] # "sent"
        BY <3>1, <1>1 DEF Safe, Carries
      <4> QED BY <4>1, <3>1, <1>2, <1>4 DEF Dozes, Threads
    <3> QED BY <3>1, <1>2, Threads_
  <2> QED BY <2>1, <1>2, <1>6 DEF Held, Full
<1>10. Held \subseteq AllStages /\ Held' \subseteq AllStages
  BY DEF Held, AllStages, Tail_
<1>11. ASSUME t \in StageThreads
       PROVE  t \in Held /\ data_ready[t] = 1 /\ Held' = (Held \ {t}) \cup {s}
  <2>1. data_ready[t] = 1 /\ t # Tail_ /\ t \in AllStages
    BY <1>1, <1>11, Threads_ DEF Safe, Carries
  <2>2. t \in Held /\ t \notin Held'
    BY <2>1, <1>1, <1>4, <1>11 DEF Held, Full
  <2> QED BY <2>1, <2>2, <1>2, <1>7, <1>9, <1>10
<1>12. ASSUME t \in Callers PROVE Held' = Held \cup {s}
  <2>1. t \notin AllStages
    BY <1>12, Threads_, PipeAssumption
  <2> QED BY <2>1, <1>7, <1>9, <1>10
<1> QED BY <1>2, <1>4, <1>6, <1>8, <1>9, <1>11, <1>12 DEF s

LEMMA SendSafe ==
  ASSUME Safe, NEW t \in Threads, Send(t)
  PROVE  Safe'
<1> DEFINE s == Target(t)
<1>1. /\ pc[t] = "send" /\ data' = [data EXCEPT ![s] = value[t]]
      /\ UNCHANGED <<owner, active, value, started, results>> /\ Enters(t)
  BY DEF Send
<1>2. TypeOK
  BY DEF Safe
<1>3. /\ s \in AllStages /\ s \notin Held /\ s # t
      /\ pc' \in [Threads -> Places]
      /\ pc'[t] = IF t \in StageThreads THEN "sent" ELSE "idle"
      /\ \A u \in Threads \ {t} : Dozes(u)
      /\ data_ready' \in [AllStages -> {0, 1}] /\ data_ready'[s] = 1
      /\ \A r \in AllStages \ {s} : data_ready'[r] = data_ready[r]
      /\ t \in StageThreads => t \in Held /\ data_ready[t] = 1 /\ Held' = (Held \ {t}) \cup {s}
      /\ t \in Callers => Held' = Held \cup {s}
  BY SendMoves
<1> HIDE DEF s
<1>4. TypeOK'
  <2>1. data' \in [AllStages -> Int]
    BY <1>1, <1>2, <1>3 DEF TypeOK
  <2>2. \A c \in Callers : pc'[c] \in {"idle", "test", "avail", "send", "ready"}
    BY <1>2, <1>3, Threads_ DEF TypeOK, Threads, Dozes
  <2>3. \A r \in StageThreads : pc'[r] # "idle"
    BY <1>2, <1>3, Threads_ DEF TypeOK, Threads, Dozes
  <2>4. entered' \in Seq(Int)
    <3>1. value[t] \in Int /\ entered \in Seq(Int)
      BY <1>2 DEF TypeOK
    <3> QED BY <3>1, <1>1 DEF Enters
  <2> QED BY <2>1, <2>2, <2>3, <2>4, <1>1, <1>2, <1>3 DEF TypeOK
<1>5. Carries'
  <2>1. ASSUME NEW r \in StageThreads, r # t
        PROVE  pc'[r] \in {"send", "ready", "sent"} => data_ready'[r] = 1
    <3>1. data_ready[r] = 1 => data_ready'[r] = 1
      BY <1>3, Threads_
    <3> QED BY <3>1, <2>1, <1>3, StagesCarry DEF Safe
  <2>2. ASSUME t \in StageThreads PROVE data_ready'[t] = 1
    BY <2>2, <1>3, Threads_
  <2> QED BY <2>1, <2>2 DEF Carries
<1>6. CASE t \in StageThreads
  <2>1. Cardinality(Held') = Cardinality(Held)
    <3>1. IsFiniteSet(Held \ {t}) /\ Cardinality(Held \ {t}) = Cardinality(Held) - 1
      BY <1>3, <1>6, Finite, FS_RemoveElement
    <3>2. Cardinality(Held') = Cardinality(Held \ {t}) + 1
      BY <3>1, <1>3, <1>6, Plus
    <3> QED BY <3>1, <3>2, Finite
  <2>2. Asking' = Asking /\ Sending' = Sending
    BY <1>2, <1>3, <1>6, Sides, Threads_
  <2> QED BY <1>1, <1>4, <1>5, <2>1, <2>2 DEF Safe, Counted
<1>7. CASE t \in Callers
  <2>1. Asking' = Asking /\ Sending' = Sending \ {t} /\ t \in Sending
    BY <1>1, <1>2, <1>3, <1>7, Sides, Threads_
  <2>2. Cardinality(Held') = Cardinality(Held) + 1 /\ Cardinality(Sending') = Cardinality(Sending) - 1
    BY <2>1, <1>3, <1>7, Finite, Plus, Minus
  <2>3. active \in Int /\ active' = active
    BY <1>1, <1>2 DEF TypeOK
  <2>4. Counted'
    BY <2>1, <2>2, <2>3, Finite DEF Safe, Counted
  <2> QED BY <1>4, <1>5, <2>4 DEF Safe
<1> QED BY <1>6, <1>7 DEF Threads

(* A step that leaves the stages and active alone, and takes its thread    *)
(* from one place to another on the same side.                             *)
LEMMA QuietSafe ==
  ASSUME Safe, NEW t \in Threads, UNCHANGED <<data_ready, data, active, started, entered, results>>,
         owner' \in [AllStages -> SUBSET Threads], value' \in [Threads -> Int],
         NEW to \in Places, pc' = [pc EXCEPT ![t] = to],
         \/ to = "avail" /\ pc[t] \in {"start", "test"}
         \/ to = "test" /\ pc[t] = "avail"
         \/ to = "ready" /\ pc[t] = "send"
         \/ to = "send" /\ pc[t] = "ready"
         \/ to = "send" /\ t \in StageThreads /\ pc[t] \in {"start", "test"} /\ data_ready[t] = 1
  PROVE  Safe'
<1>1. TypeOK /\ pc' \in [Threads -> Places] /\ pc'[t] = to /\ \A u \in Threads \ {t} : Dozes(u)
  BY DEF Safe, TypeOK, Dozes
<1>2. TypeOK'
  BY <1>1, Threads_ DEF TypeOK, Threads
<1>3. Carries'
  BY DEF Safe, Carries, TypeOK
<1>4. Held' = Held
  <2>1. \A s \in AllStages : Full(s)' <=> Full(s)
    BY DEF Safe, TypeOK, Full
  <2> QED BY <2>1 DEF Held, AllStages, Tail_
<1>5. Asking' = Asking /\ Sending' = Sending
  <2>1. t \in Callers => pc[t] # "start" /\ t \notin StageThreads
    BY Threads_ DEF Safe, TypeOK
  <2>2. (t \in Asking' <=> t \in Asking) /\ (t \in Sending' <=> t \in Sending)
    BY <2>1, <1>1 DEF Asking, Sending
  <2>3. Asking' \ {t} = Asking \ {t} /\ Sending' \ {t} = Sending \ {t}
    BY <1>1, Sides
  <2> QED BY <2>2, <2>3, SameSet
<1> QED BY <1>2, <1>3, <1>4, <1>5 DEF Safe, Counted

LEMMA StageEmptiesSafe ==
  ASSUME Safe, NEW t \in Threads, StageEmpties(t)
  PROVE  Safe'
<1>1. /\ t \in StageThreads /\ pc[t] = "sent"
      /\ data_ready' = [data_ready EXCEPT ![t] = 0]
      /\ Signal(t, "ready", t, "test")
      /\ UNCHANGED <<data, owner, active, value, started, entered, results>>
  BY DEF StageEmpties
<1>2. TypeOK /\ "test" \in Places /\ t \in AllStages /\ t # Tail_ /\ t \notin Callers
  BY <1>1, Threads_ DEF Safe, Places
<1>3. /\ pc' \in [Threads -> Places] /\ pc'[t] = "test"
      /\ \A u \in Threads \ {t} : Dozes(u)
  BY <1>1, <1>2, Signalled
<1>4. /\ data_ready' \in [AllStages -> {0, 1}] /\ data_ready'[t] = 0
      /\ \A r \in AllStages \ {t} : data_ready'[r] = data_ready[r]
  BY <1>1, <1>2 DEF TypeOK
<1>5. TypeOK'
  BY <1>1, <1>2, <1>3, <1>4, Threads_ DEF TypeOK, Threads, Dozes
<1>6. Carries'
  <2>1. ASSUME NEW r \in StageThreads, r # t
        PROVE  pc'[r] \in {"send", "ready", "sent"} => data_ready'[r] = 1
    BY <2>1, <1>3, <1>4, StagesCarry, Threads_ DEF Safe
  <2> QED BY <2>1, <1>3 DEF Carries
<1>7. Held' = Held
  <2>1. \A r \in AllStages \ {t} : r \in Held' <=> r \in Held
    BY <1>3, <1>4, StagesHeld
  <2>2. t \notin Held /\ t \notin Held'
    BY <1>1, <1>2, <1>4 DEF Held, Full
  <2>3. Held \subseteq AllStages /\ Held' \subseteq AllStages
    BY DEF Held, AllStages, Tail_
  <2> QED BY <2>1, <2>2, <2>3
<1>8. Asking' = Asking /\ Sending' = Sending
  BY <1>2, <1>3, Sides
<1> QED BY <1>1, <1>5, <1>6, <1>7, <1>8 DEF Safe, Counted

LEMMA ResultSafe ==
  ASSUME Safe, NEW c \in Threads, Result(c)
  PROVE  Safe'
<1>1. /\ c \in Callers /\ pc[c] = "test" /\ data_ready[Tail_] = 1
      /\ results' = Append(results, data[Tail_])
      /\ data_ready' = [data_ready EXCEPT ![Tail_] = 0]
      /\ Signal(Tail_, "ready", c, "idle")
      /\ UNCHANGED <<data, owner, active, value, started, entered>>
  BY DEF Result
<1>2. TypeOK /\ "idle" \in Places /\ Tail_ \in AllStages /\ c \notin AllStages /\ c \notin StageThreads
  BY <1>1, Threads_, PipeAssumption DEF Safe, Places
<1>3. /\ pc' \in [Threads -> Places] /\ pc'[c] = "idle"
      /\ \A u \in Threads \ {c} : Dozes(u)
  BY <1>1, <1>2, Signalled
<1>4. /\ data_ready' \in [AllStages -> {0, 1}] /\ data_ready'[Tail_] = 0
      /\ \A r \in AllStages \ {Tail_} : data_ready'[r] = data_ready[r]
  BY <1>1, <1>2 DEF TypeOK
<1>5. TypeOK'
  <2>1. results' \in Seq(Int)
    BY <1>1, <1>2 DEF TypeOK
  <2>2. \A d \in Callers : pc'[d] \in {"idle", "test", "avail", "send", "ready"}
    BY <1>2, <1>3, Threads_ DEF TypeOK, Threads, Dozes
  <2>3. \A r \in StageThreads : pc'[r] # "idle"
    BY <1>2, <1>3, Threads_ DEF TypeOK, Threads, Dozes
  <2> QED BY <2>1, <2>2, <2>3, <1>1, <1>2, <1>3, <1>4 DEF TypeOK
<1>6. Carries'
  <2>1. ASSUME NEW r \in StageThreads
        PROVE  pc'[r] \in {"send", "ready", "sent"} => data_ready'[r] = 1
    <3>1. r # c /\ data_ready'[r] = data_ready[r]
      BY <1>2, <1>4, Threads_
    <3> QED BY <3>1, <1>3, StagesCarry DEF Safe
  <2> QED BY <2>1 DEF Carries
<1>7. Held' = Held \ {Tail_} /\ Tail_ \in Held
  <2>1. \A r \in AllStages \ {Tail_} : r \in Held' <=> r \in Held
    BY <1>2, <1>3, <1>4, StagesHeld
  <2>2. Tail_ \in Held
    BY <1>1, <1>2 DEF Held, Full
  <2>3. Tail_ \notin Held'
    BY <1>4 DEF Held, Full
  <2>4. Held \subseteq AllStages /\ Held' \subseteq AllStages
    BY DEF Held, AllStages, Tail_
  <2> QED BY <2>1, <2>2, <2>3, <2>4
<1>8. Asking' = Asking \ {c} /\ c \in Asking /\ Sending' = Sending
  <2>1. Asking' \ {c} = Asking \ {c} /\ Sending' \ {c} = Sending \ {c}
    BY <1>2, <1>3, Sides
  <2>2. c \in Asking /\ c \notin Asking' /\ c \notin Sending /\ c \notin Sending'
    BY <1>1, <1>3 DEF Asking, Sending
  <2> QED BY <2>1, <2>2
<1>9. Cardinality(Held') = Cardinality(Held) - 1 /\ Cardinality(Asking') = Cardinality(Asking) - 1
  BY <1>7, <1>8, Finite, Minus
<1>10. active \in Int /\ active' = active
  BY <1>1, <1>2 DEF TypeOK
<1>11. Counted'
  BY <1>8, <1>9, <1>10, Finite DEF Safe, Counted
<1> QED BY <1>5, <1>6, <1>11 DEF Safe

LEMMA CallSafe ==
  ASSUME Safe, NEW c \in Callers, PipeStart(c) \/ PipeResult(c)
  PROVE  Safe'
<1>1. c \in Threads /\ c \notin StageThreads /\ TypeOK
  BY Threads_ DEF Threads, Safe
<1>2. ASSUME UNCHANGED data_ready, NEW to \in {"send", "test"}, pc' = [pc EXCEPT ![c] = to]
      PROVE  /\ Carries' /\ Held' = Held /\ pc' \in [Threads -> Places] /\ pc'[c] = to
             /\ \A u \in Threads \ {c} : pc'[u] = pc[u] /\ Dozes(u)
  <2>1. /\ pc' \in [Threads -> Places] /\ pc'[c] = to
        /\ \A u \in Threads \ {c} : pc'[u] = pc[u] /\ Dozes(u)
    BY <1>1, <1>2 DEF TypeOK, Dozes, Places
  <2>2. Carries'
    BY <2>1, <1>1, <1>2 DEF Safe, Carries, Threads
  <2>3. \A s \in AllStages : Full(s)' <=> Full(s)
    BY <2>1, <1>1, <1>2, Threads_ DEF Full, Threads
  <2>4. Held' = Held
    BY <2>3 DEF Held, AllStages, Tail_
  <2> QED BY <2>1, <2>2, <2>4
<1>3. CASE PipeStart(c)
  <2>1. /\ pc[c] = "idle" /\ pc' = [pc EXCEPT ![c] = "send"] /\ active' = active + 1
        /\ started' = started + 1 /\ value' = [value EXCEPT ![c] = 10 * started']
        /\ UNCHANGED <<data_ready, data, owner, entered, results>>
    BY <1>3 DEF PipeStart, Go
  <2>2. /\ Carries' /\ Held' = Held /\ pc' \in [Threads -> Places] /\ pc'[c] = "send"
        /\ \A u \in Threads \ {c} : pc'[u] = pc[u] /\ Dozes(u)
    BY <2>1, <1>2
  <2>3. TypeOK'
    <3>1. started' \in Nat
      BY <2>1, <1>1 DEF TypeOK
    <3>2. value' \in [Threads -> Int]
      <4>1. 10 * started' \in Int /\ value \in [Threads -> Int]
        BY <3>1, <1>1 DEF TypeOK
      <4> QED BY <4>1, <2>1
    <3>3. active' \in Int
      BY <2>1, <1>1 DEF TypeOK
    <3> QED BY <3>1, <3>2, <3>3, <2>1, <2>2, <1>1, Threads_ DEF TypeOK, Threads
  <2>4. Asking' = Asking /\ Sending' = Sending \cup {c} /\ c \notin Sending
    <3>1. Asking' \ {c} = Asking \ {c} /\ Sending' \ {c} = Sending \ {c}
      BY <2>2, <1>1, Sides
    <3>2. c \notin Asking /\ c \notin Asking' /\ c \notin Sending /\ c \in Sending'
      BY <2>1, <2>2 DEF Asking, Sending
    <3> QED BY <3>1, <3>2
  <2>5. Cardinality(Sending') = Cardinality(Sending) + 1
    BY <2>4, Finite, Plus
  <2>6. active \in Int
    BY <1>1 DEF TypeOK
  <2>7. Counted'
    BY <2>1, <2>2, <2>4, <2>5, <2>6, Finite DEF Safe, Counted
  <2> QED BY <2>2, <2>3, <2>7 DEF Safe
<1>4. CASE PipeResult(c)
  <2>1. /\ pc[c] = "idle" /\ UNCHANGED <<data_ready, data, owner, value, started, entered, results>>
        /\ \/ active > 0 /\ pc' = [pc EXCEPT ![c] = "test"] /\ active' = active - 1
           \/ UNCHANGED <<pc, active>>
    BY <1>4 DEF PipeResult, Go
  <2>2. CASE UNCHANGED <<pc, active>>
    <3>1. Asking' = Asking /\ Sending' = Sending /\ Held' = Held
      BY <2>1, <2>2 DEF Asking, Sending, Held, Full, AllStages, Tail_
    <3> QED BY <3>1, <2>1, <2>2 DEF Safe, TypeOK, Carries, Counted
  <2>3. CASE active > 0 /\ pc' = [pc EXCEPT ![c] = "test"] /\ active' = active - 1
    <3>1. /\ Carries' /\ Held' = Held /\ pc' \in [Threads -> Places] /\ pc'[c] = "test"
          /\ \A u \in Threads \ {c} : pc'[u] = pc[u] /\ Dozes(u)
      BY <2>1, <2>3, <1>2
    <3>2. TypeOK'
      BY <3>1, <2>1, <2>3, <1>1, Threads_ DEF TypeOK, Threads
    <3>3. Asking' = Asking \cup {c} /\ c \notin Asking /\ Sending' = Sending
      BY <3>1, <2>1, <1>1, Sides
    <3>4. Cardinality(Asking') = Cardinality(Asking) + 1
      BY <3>3, Finite, Plus
    <3> QED BY <3>1, <3>2, <3>3, <3>4, <2>3, <1>1, Finite DEF Safe, Counted, TypeOK
  <2> QED BY <2>1, <2>2, <2>3
<1> QED BY <1>3, <1>4

LEMMA NextSafe ==
  ASSUME Safe, [Next]_vars
  PROVE  Safe'
<1>1. ASSUME NEW t \in Threads, Step(t) PROVE Safe'
  <2>1. CASE SendWaits(t)
    <3>1. pc' = [pc EXCEPT ![t] = "ready"] /\ pc[t] = "send" /\ "ready" \in Places
      BY <2>1 DEF SendWaits, Go, Places
    <3> QED BY <3>1, <2>1, QuietSafe DEF SendWaits, Safe, TypeOK
  <2>2. CASE Send(t)
    BY <2>2, SendSafe
  <2>3. CASE StageWaits(t)
    <3>1. pc' = [pc EXCEPT ![t] = "avail"] /\ pc[t] \in {"start", "test"} /\ "avail" \in Places
      BY <2>3 DEF StageWaits, Go, Places
    <3>2. owner' \in [AllStages -> SUBSET Threads]
      BY <2>3, Threads_ DEF StageWaits, Release, Safe, TypeOK
    <3> QED BY <3>1, <3>2, <2>3, QuietSafe DEF StageWaits, Safe, TypeOK
  <2>4. CASE StageTakes(t)
    <3>1. /\ pc' = [pc EXCEPT ![t] = "send"] /\ pc[t] \in {"start", "test"} /\ "send" \in Places
          /\ t \in StageThreads /\ t \in AllStages /\ data_ready[t] = 1
      BY <2>4, Threads_ DEF StageTakes, Go, Places
    <3>2. owner' \in [AllStages -> SUBSET Threads] /\ value' \in [Threads -> Int]
      BY <3>1, <2>4 DEF StageTakes, Safe, TypeOK
    <3> QED BY <3>1, <3>2, <2>4, QuietSafe DEF StageTakes, Safe, TypeOK
  <2>5. CASE StageEmpties(t)
    BY <2>5, StageEmptiesSafe
  <2>6. CASE ResultWaits(t)
    <3>1. pc' = [pc EXCEPT ![t] = "avail"] /\ pc[t] = "test" /\ "avail" \in Places
      BY <2>6 DEF ResultWaits, Go, Places
    <3> QED BY <3>1, <2>6, QuietSafe DEF ResultWaits, Safe, TypeOK
  <2>7. CASE Result(t)
    BY <2>7, ResultSafe
  <2> QED BY <1>1, <2>1, <2>2, <2>3, <2>4, <2>5, <2>6, <2>7 DEF Step
<1>2. ASSUME NEW t \in Threads, SpuriousWakeup(t) PROVE Safe'
  <2>1. UNCHANGED <<data_ready, data, owner, active, value, started, entered, results>>
    BY <1>2 DEF SpuriousWakeup
  <2>2. CASE pc[t] = "avail" /\ pc' = [pc EXCEPT ![t] = "test"]
    BY <2>1, <2>2, QuietSafe DEF Safe, TypeOK, Places
  <2>3. CASE pc[t] = "ready" /\ pc' = [pc EXCEPT ![t] = "send"]
    BY <2>1, <2>3, QuietSafe DEF Safe, TypeOK, Places
  <2> QED BY <1>2, <2>2, <2>3 DEF SpuriousWakeup, Go
<1>3. ASSUME NEW c \in Callers, PipeStart(c) \/ PipeResult(c) PROVE Safe'
  BY <1>3, CallSafe
<1>4. CASE UNCHANGED vars
  <2>1. Asking' = Asking /\ Sending' = Sending /\ Held' = Held
    BY <1>4 DEF vars, Asking, Sending, Held, Full, AllStages, Tail_
  <2> QED BY <2>1, <1>4 DEF vars, Safe, TypeOK, Carries, Counted
<1> QED BY <1>1, <1>2, <1>3, <1>4 DEF Next

LEMMA PipeSafe == Spec => []Safe
<1>1. Safe /\ [Next]_vars => Safe'
  BY NextSafe
<1> QED BY <1>1, InitSafe, PTL DEF Spec

(***************************************************************************)
(* The order of the values: a full stage has the value that went in as     *)
(* many places after the last result as there are full stages from it to   *)
(* the tail, one greater for every stage behind it.                        *)
(***************************************************************************)
Ahead(s) == {u \in Held : u >= s}

InLine ==
  /\ Len(entered) = Len(results) + Cardinality(Held)
  /\ \A s \in Held : data[s] = entered[Len(results) + Cardinality(Ahead(s))] + (s - 1)

(* What is on its way into a stage.                                        *)
Brought ==
  /\ \A t \in StageThreads : pc[t] \in {"send", "ready"} => value[t] = data[t] + 1
  /\ \A c \in Callers : pc[c] \in {"send", "ready"} => value[c] \in Inputs

Entered == started <= MaxStarts /\ entered \in Seq(Inputs)

Orderly == Safe /\ InLine /\ Brought /\ Entered

LEMMA AheadCounts ==
  ASSUME NEW s \in Held
  PROVE  /\ IsFiniteSet(Ahead(s)) /\ s \in Ahead(s)
         /\ Cardinality(Ahead(s)) \in 1 .. Cardinality(Held)
<1>1. Ahead(s) \subseteq Held /\ s \in Ahead(s)
  BY Threads_ DEF Ahead, Held
<1>2. IsFiniteSet(Ahead(s)) /\ Cardinality(Ahead(s)) \in Nat /\ Cardinality(Ahead(s)) <= Cardinality(Held)
  BY <1>1, Finite, FS_Subset, FS_CardinalityType
<1>3. Cardinality(Ahead(s)) # 0
  BY <1>1, <1>2, FS_EmptySet
<1> QED BY <1>1, <1>2, <1>3, Finite

(* The step of a caller that sends: the value is the last.                 *)
LEMMA CallerSends ==
  ASSUME Orderly, NEW t \in Callers, Send(t)
  PROVE  InLine'
<1> DEFINE v == value[t]
<1>1. /\ data' = [data EXCEPT ![1] = v] /\ results' = results
      /\ entered' = Append(entered, v) /\ v \in Int
      /\ entered \in Seq(Int) /\ results \in Seq(Int) /\ data \in [AllStages -> Int]
  <2>1. Target(t) = 1 /\ t \in Threads
    BY TargetIs DEF Threads
  <2> QED BY <2>1 DEF Send, Enters, Orderly, Safe, TypeOK
<1>2. /\ 1 \in AllStages /\ 1 \notin Held /\ Held' = Held \cup {1} /\ Held \subseteq AllStages
  <2>1. Target(t) = 1 /\ t \in Threads /\ Safe
    BY TargetIs DEF Threads, Orderly
  <2>2. 1 \in AllStages /\ 1 \notin Held /\ Held' = Held \cup {1}
    BY <2>1, SendMoves
  <2> QED BY <2>2 DEF Held
<1>3. IsFiniteSet(Held) /\ Cardinality(Held) \in Nat /\ Cardinality(Held') = Cardinality(Held) + 1
  BY <1>2, Finite, Plus
<1>4. /\ Len(entered) = Len(results) + Cardinality(Held) /\ Len(results) \in Nat /\ Len(entered) \in Nat
      /\ \A s \in Held : data[s] = entered[Len(results) + Cardinality(Ahead(s))] + (s - 1)
  BY <1>1 DEF Orderly, InLine
<1> HIDE DEF v
<1>5. /\ Len(entered') = Len(entered) + 1 /\ entered'[Len(entered) + 1] = v
      /\ \A i \in 1 .. Len(entered) : entered'[i] = entered[i]
  BY <1>1
<1>6. ASSUME NEW s \in Held'
      PROVE  data'[s] = entered'[Len(results') + Cardinality(Ahead(s)')] + (s - 1)
  <2>1. CASE s = 1
    <3>1. Ahead(s)' = Held'
      <4>1. \A u \in Held' : u >= 1
        BY <1>2, PipeAssumption DEF AllStages, Tail_
      <4> QED BY <4>1, <2>1 DEF Ahead
    <3> QED BY <3>1, <2>1, <1>1, <1>2, <1>3, <1>4, <1>5
  <2>2. CASE s # 1
    <3>1. s \in Held /\ s \in Int /\ s > 1
      BY <2>2, <1>2, Threads_ DEF AllStages
    <3>2. Ahead(s)' = Ahead(s)
      BY <3>1, <1>2 DEF Ahead
    <3>3. Cardinality(Ahead(s)) \in 1 .. Cardinality(Held)
      BY <3>1, AheadCounts
    <3>4. Len(results) + Cardinality(Ahead(s)) \in 1 .. Len(entered)
      BY <3>3, <1>3, <1>4
    <3>5. data'[s] = data[s]
      BY <3>1, <1>1, <1>2
    <3> QED BY <3>1, <3>2, <3>4, <3>5, <1>1, <1>4, <1>5
  <2> QED BY <2>1, <2>2
<1>7. Len(entered') = Len(results') + Cardinality(Held')
  BY <1>1, <1>3, <1>4, <1>5
<1> QED BY <1>6, <1>7 DEF InLine

(* The step of a stage that sends: its value has the same place one stage  *)
(* further on.                                                             *)
LEMMA StageSends ==
  ASSUME Orderly, NEW t \in StageThreads, Send(t)
  PROVE  InLine'
<1> DEFINE s == t + 1
<1>1. /\ data' = [data EXCEPT ![s] = value[t]] /\ results' = results /\ entered' = entered
      /\ pc[t] = "send" /\ data \in [AllStages -> Int] /\ value[t] = data[t] + 1
      /\ results \in Seq(Int) /\ entered \in Seq(Int)
  <2>1. Target(t) = s /\ t \in Threads /\ t \notin Callers
    BY TargetIs, Threads_ DEF Threads
  <2> QED BY <2>1 DEF Send, Enters, Orderly, Safe, TypeOK, Brought
<1>2. /\ s \in AllStages /\ s \notin Held /\ t \in Held /\ Held' = (Held \ {t}) \cup {s}
      /\ Held \subseteq AllStages /\ AllStages \subseteq Int /\ t \in Int
  <2>1. Target(t) = s /\ t \in Threads /\ Safe
    BY TargetIs DEF Threads, Orderly
  <2>2. s \in AllStages /\ s \notin Held /\ t \in Held /\ Held' = (Held \ {t}) \cup {s}
    BY <2>1, SendMoves
  <2> QED BY <2>2, Threads_ DEF Held
<1>3. Cardinality(Held') = Cardinality(Held)
  <2>1. IsFiniteSet(Held \ {t}) /\ Cardinality(Held \ {t}) = Cardinality(Held) - 1
    BY <1>2, Finite, FS_RemoveElement
  <2>2. Cardinality(Held') = Cardinality(Held \ {t}) + 1
    BY <2>1, <1>2, Plus
  <2> QED BY <2>1, <2>2, Finite
<1>4. /\ Len(entered) = Len(results) + Cardinality(Held)
      /\ \A r \in Held : data[r] = entered[Len(results) + Cardinality(Ahead(r))] + (r - 1)
  BY DEF Orderly, InLine
<1>5. ASSUME NEW r \in Held'
      PROVE  data'[r] = entered[Len(results) + Cardinality(Ahead(r)')] + (r - 1)
  <2>1. CASE r = s
    <3>1. Ahead(r)' = (Ahead(t) \ {t}) \cup {s} /\ s \notin Ahead(t)
      <4>1. \A u \in Int : u >= s <=> u >= t /\ u # t
        BY <1>2
      <4>2. Held \subseteq Int /\ s >= s
        BY <1>2
      <4>3. \A u : u \in Ahead(r)' <=> u \in Held' /\ u >= s
        BY <2>1 DEF Ahead
      <4>4. \A u : u \in Ahead(t) <=> u \in Held /\ u >= t
        BY DEF Ahead
      <4>5. s \notin Ahead(t) /\ s \in Ahead(r)'
        BY <1>2, <4>2, <4>3, <4>4
      <4>6. ASSUME NEW u, u # s PROVE u \in Ahead(r)' <=> u \in Ahead(t) \ {t}
        BY <4>1, <4>2, <4>3, <4>4, <4>6, <1>2
      <4> HIDE DEF s
      <4> QED BY <4>5, <4>6
    <3>2. Cardinality(Ahead(r)') = Cardinality(Ahead(t))
      <4>1. IsFiniteSet(Ahead(t)) /\ t \in Ahead(t) /\ Cardinality(Ahead(t)) \in Nat
        BY <1>2, AheadCounts
      <4>2. IsFiniteSet(Ahead(t) \ {t}) /\ Cardinality(Ahead(t) \ {t}) = Cardinality(Ahead(t)) - 1
        BY <4>1, FS_RemoveElement
      <4>3. Cardinality(Ahead(r)') = Cardinality(Ahead(t) \ {t}) + 1
        BY <3>1, <4>2, Plus
      <4> QED BY <4>1, <4>2, <4>3
    <3>3. data'[r] = data[t] + 1 /\ data[t] = entered[Len(results) + Cardinality(Ahead(t))] + (t - 1)
      BY <2>1, <1>1, <1>2, <1>4
    <3>4. Len(results) + Cardinality(Ahead(t)) \in 1 .. Len(entered)
      BY <1>1, <1>2, <1>4, AheadCounts, Finite
    <3>5. entered[Len(results) + Cardinality(Ahead(t))] \in Int
      BY <3>4, <1>1
    <3> QED BY <2>1, <3>2, <3>3, <3>5, <1>2
  <2>2. CASE r # s
    <3>1. r \in Held /\ r # t /\ r \in Int /\ data'[r] = data[r]
      BY <2>2, <1>1, <1>2
    <3>2. CASE r > t
      <4>1. Ahead(r)' = Ahead(r)
        <5>1. r > s
          BY <3>1, <3>2, <2>2, <1>2
        <5> QED BY <5>1, <3>1, <1>2 DEF Ahead
      <4> QED BY <4>1, <3>1, <1>4
    <3>3. CASE r < t
      <4>1. Ahead(r)' = (Ahead(r) \ {t}) \cup {s} /\ s \notin Ahead(r) /\ t \in Ahead(r)
        BY <3>1, <3>3, <1>2 DEF Ahead
      <4>2. IsFiniteSet(Ahead(r)) /\ Cardinality(Ahead(r)) \in Nat
        BY <3>1, AheadCounts
      <4>3. IsFiniteSet(Ahead(r) \ {t}) /\ Cardinality(Ahead(r) \ {t}) = Cardinality(Ahead(r)) - 1
        BY <4>1, <4>2, FS_RemoveElement
      <4>4. Cardinality(Ahead(r)') = Cardinality(Ahead(r) \ {t}) + 1
        BY <4>1, <4>3, Plus
      <4> QED BY <4>2, <4>3, <4>4, <3>1, <1>4
    <3> QED BY <3>1, <3>2, <3>3, <1>2
  <2> QED BY <2>1, <2>2
<1> QED BY <1>1, <1>3, <1>4, <1>5 DEF InLine

(* A result is the oldest value, one greater for every stage.              *)
LEMMA ResultIs ==
  ASSUME Orderly, NEW c \in Callers, Result(c)
  PROVE  /\ Len(entered) - Len(results) > 0
         /\ results' = Append(results, entered[Len(results) + 1] + Stages)
         /\ entered' = entered /\ InLine'
<1>1. /\ c \in Threads /\ pc[c] = "test" /\ data_ready[Tail_] = 1 /\ Signal(Tail_, "ready", c, "idle")
      /\ data_ready' = [data_ready EXCEPT ![Tail_] = 0]
      /\ results' = Append(results, data[Tail_]) /\ entered' = entered /\ data' = data
      /\ TypeOK /\ "idle" \in Places
  BY DEF Result, Threads, Orderly, Safe, Places
<1>2. /\ entered \in Seq(Int) /\ results \in Seq(Int) /\ data[Tail_] \in Int
      /\ data_ready \in [AllStages -> {0, 1}] /\ Tail_ \in AllStages
  BY <1>1, Threads_ DEF TypeOK
<1>3. \A u \in Threads \ {c} : Dozes(u)
  BY <1>1, Signalled
<1>4. Held' = Held \ {Tail_} /\ Tail_ \in Held
  <2>1. ASSUME NEW r \in AllStages, r # Tail_ PROVE r \in Held' <=> r \in Held
    <3>1. r # c /\ data_ready'[r] = data_ready[r]
      BY <2>1, <1>1, <1>2, PipeAssumption, Threads_
    <3> QED BY <3>1, <1>1, <1>3, StagesHeld
  <2>2. Tail_ \in Held /\ Tail_ \notin Held'
    BY <1>1, <1>2 DEF Held, Full
  <2>3. Held \subseteq AllStages /\ Held' \subseteq AllStages
    BY DEF Held, AllStages, Tail_
  <2> QED BY <2>1, <2>2, <2>3
<1>5. /\ Len(entered) = Len(results) + Cardinality(Held)
      /\ \A s \in Held : data[s] = entered[Len(results) + Cardinality(Ahead(s))] + (s - 1)
  BY DEF Orderly, InLine
<1>6. Cardinality(Ahead(Tail_)) = 1
  <2>1. Ahead(Tail_) = {Tail_}
    BY <1>4 DEF Ahead, Held, AllStages, Tail_
  <2> QED BY <2>1, FS_Singleton
<1>7. Cardinality(Held) \in Nat \ {0} /\ Cardinality(Held') = Cardinality(Held) - 1
  BY <1>4, Finite, Minus, AheadCounts
<1>8. data[Tail_] = entered[Len(results) + 1] + Stages
  <2>1. Len(results) + 1 \in 1 .. Len(entered)
    BY <1>2, <1>5, <1>7
  <2>2. entered[Len(results) + 1] \in Int
    BY <2>1, <1>2
  <2> QED BY <2>2, <1>4, <1>5, <1>6, PipeAssumption DEF Tail_
<1>9. Len(results') = Len(results) + 1
  BY <1>1, <1>2
<1>10. ASSUME NEW s \in Held'
       PROVE  Len(results') + Cardinality(Ahead(s)') = Len(results) + Cardinality(Ahead(s))
  <2>1. s \in Held /\ s # Tail_
    BY <1>4
  <2>2. Tail_ >= s
    BY <2>1, PipeAssumption DEF Held, AllStages, Tail_
  <2>3. Ahead(s)' = Ahead(s) \ {Tail_} /\ Tail_ \in Ahead(s)
    BY <2>2, <1>4 DEF Ahead
  <2>4. IsFiniteSet(Ahead(s)) /\ Cardinality(Ahead(s)) \in Nat
    BY <2>1, AheadCounts
  <2>5. Cardinality(Ahead(s)') = Cardinality(Ahead(s)) - 1
    BY <2>3, <2>4, Minus
  <2> QED BY <2>4, <2>5, <1>2, <1>9
<1>11. InLine'
  <2>1. Len(entered') = Len(results') + Cardinality(Held')
    BY <1>1, <1>2, <1>5, <1>7, <1>9
  <2>2. ASSUME NEW s \in Held'
        PROVE  data'[s] = entered'[Len(results') + Cardinality(Ahead(s)')] + (s - 1)
    BY <2>2, <1>1, <1>4, <1>5, <1>10
  <2> QED BY <2>1, <2>2 DEF InLine
<1> QED BY <1>1, <1>2, <1>5, <1>7, <1>8, <1>11

(***************************************************************************)
(* The other steps leave the values where they are.                        *)
(***************************************************************************)
Quiet(t) ==
  \/ SendWaits(t) \/ StageWaits(t) \/ StageTakes(t) \/ StageEmpties(t)
  \/ ResultWaits(t) \/ SpuriousWakeup(t)
  \/ t \in Callers /\ (PipeStart(t) \/ PipeResult(t))

LEMMA Values_ ==
  ASSUME NEW t \in Threads, Quiet(t)
  PROVE  data' = data /\ entered' = entered /\ results' = results
BY DEF Quiet, SendWaits, StageWaits, StageTakes, StageEmpties, ResultWaits, SpuriousWakeup,
       PipeStart, PipeResult

LEMMA HeldStays ==
  ASSUME Safe, NEW t \in Threads, Quiet(t)
  PROVE  Held' = Held
<1>1. TypeOK /\ \A s \in StageThreads : s \in Threads
  BY DEF Safe, Threads
<1>2. CASE StageEmpties(t)
  <2>1. /\ t \in StageThreads /\ t \in AllStages /\ pc[t] = "sent" /\ Signal(t, "ready", t, "test")
        /\ data_ready' = [data_ready EXCEPT ![t] = 0] /\ "test" \in Places /\ t # Tail_
    BY <1>2, Threads_ DEF StageEmpties, Places
  <2>2. \A u \in Threads \ {t} : Dozes(u)
    BY <1>1, <2>1, Signalled
  <2>3. data_ready'[t] = 0 /\ \A r \in AllStages \ {t} : data_ready'[r] = data_ready[r]
    BY <1>1, <2>1 DEF TypeOK
  <2>4. \A r \in AllStages \ {t} : r \in Held' <=> r \in Held
    BY <2>2, <2>3, StagesHeld
  <2>5. t \notin Held /\ t \notin Held' /\ Held \subseteq AllStages /\ Held' \subseteq AllStages
    BY <2>1, <2>3 DEF Held, Full, AllStages, Tail_
  <2> QED BY <2>4, <2>5
<1>3. CASE ~ StageEmpties(t)
  <2>1. /\ data_ready' = data_ready
        /\ \/ pc' = pc
           \/ \E to \in Places \ {"sent"} : pc[t] # "sent" /\ pc' = [pc EXCEPT ![t] = to]
    BY <1>3 DEF Quiet, SendWaits, StageWaits, StageTakes, ResultWaits, SpuriousWakeup,
                PipeStart, PipeResult, Go, Places
  <2>2. \A u \in Threads : pc'[u] = "sent" <=> pc[u] = "sent"
    BY <2>1, <1>1 DEF TypeOK
  <2>3. \A s \in AllStages : Full(s)' <=> Full(s)
    BY <2>1, <2>2, <1>1, Threads_ DEF Full
  <2> QED BY <2>3 DEF Held, AllStages, Tail_
<1> QED BY <1>2, <1>3

LEMMA StepInLine ==
  ASSUME Orderly, [Next]_vars
  PROVE  InLine'
<1>1. ASSUME NEW t \in Threads, Quiet(t) PROVE InLine'
  BY <1>1, Values_, HeldStays DEF Orderly, InLine, Ahead
<1>2. ASSUME NEW t \in Threads, Send(t) PROVE InLine'
  BY <1>2, CallerSends, StageSends DEF Threads
<1>3. ASSUME NEW t \in Threads, Result(t) PROVE InLine'
  BY <1>3, ResultIs DEF Result
<1>4. CASE UNCHANGED vars
  BY <1>4 DEF Orderly, InLine, Ahead, Held, Full, vars
<1> QED BY <1>1, <1>2, <1>3, <1>4 DEF Next, Step, Quiet, Threads

LEMMA BroughtStays ==
  ASSUME Brought,
         \A u \in Threads : pc'[u] \in {"send", "ready"} =>
           /\ pc[u] \in {"send", "ready"} /\ value'[u] = value[u]
           /\ u \in StageThreads => data'[u] = data[u]
  PROVE  Brought'
BY DEF Brought, Threads, Inputs

LEMMA StepBrought ==
  ASSUME Orderly, [Next]_vars
  PROVE  Brought'
<1>1. TypeOK /\ Carries /\ Brought /\ Entered
  BY DEF Orderly, Safe
<1>2. ASSUME NEW t \in Threads, Send(t) PROVE Brought'
  <2> DEFINE s == Target(t)
  <2>1. /\ data_ready[s] = 0 /\ data' = [data EXCEPT ![s] = value[t]] /\ value' = value
        /\ pc'[t] \notin {"send", "ready"}
        /\ \A u \in Threads \ {t} : Dozes(u)
    BY <1>2, SendMoves DEF Send, Orderly
  <2> HIDE DEF s
  <2>2. ASSUME NEW u \in Threads, pc'[u] \in {"send", "ready"}
        PROVE  /\ pc[u] \in {"send", "ready"} /\ value'[u] = value[u]
               /\ u \in StageThreads => data'[u] = data[u]
    <3>1. pc[u] \in {"send", "ready"}
      BY <2>1, <2>2 DEF Dozes
    <3>2. u \in StageThreads => u # s /\ u \in AllStages
      BY <3>1, <2>1, <1>1, Threads_ DEF Carries
    <3> QED BY <3>1, <3>2, <2>1, <1>1 DEF TypeOK
  <2> QED BY <2>2, <1>1, BroughtStays
<1>3. ASSUME NEW t \in Threads, Result(t) PROVE Brought'
  <2>1. /\ data' = data /\ value' = value /\ pc[t] = "test"
        /\ Signal(Tail_, "ready", t, "idle") /\ "idle" \in Places
    BY <1>3 DEF Result, Places
  <2>2. pc'[t] = "idle" /\ \A u \in Threads \ {t} : Dozes(u)
    BY <1>1, <2>1, Signalled
  <2> QED BY <1>1, <2>1, <2>2, BroughtStays DEF Dozes
<1>4. ASSUME NEW t \in Threads, StageEmpties(t) PROVE Brought'
  <2>1. /\ data' = data /\ value' = value /\ pc[t] = "sent"
        /\ Signal(t, "ready", t, "test") /\ "test" \in Places
    BY <1>4 DEF StageEmpties, Places
  <2>2. pc'[t] = "test" /\ \A u \in Threads \ {t} : Dozes(u)
    BY <1>1, <2>1, Signalled
  <2> QED BY <1>1, <2>1, <2>2, BroughtStays DEF Dozes
<1>5. ASSUME NEW t \in Threads, StageTakes(t) PROVE Brought'
  <2>1. /\ t \in StageThreads /\ t \notin Callers /\ pc' = [pc EXCEPT ![t] = "send"]
        /\ data' = data /\ value' = [value EXCEPT ![t] = data[t] + 1]
    BY <1>5, Threads_ DEF StageTakes, Go
  <2>2. /\ \A u \in Threads \ {t} : pc'[u] = pc[u] /\ value'[u] = value[u]
        /\ value'[t] = data'[t] + 1
    BY <1>1, <2>1 DEF TypeOK
  <2> QED BY <1>1, <2>1, <2>2 DEF Brought, Threads, Inputs
<1>6. ASSUME NEW t \in Callers, PipeStart(t) PROVE Brought'
  <2>1. /\ t \in Threads /\ t \notin StageThreads /\ pc' = [pc EXCEPT ![t] = "send"]
        /\ started < MaxStarts /\ started' = started + 1
        /\ data' = data /\ value' = [value EXCEPT ![t] = 10 * started']
    BY <1>6, Threads_ DEF PipeStart, Go, Threads
  <2>2. started' \in 1 .. MaxStarts
    BY <1>1, <2>1, PipeAssumption DEF TypeOK
  <2>3. 10 * started' \in Inputs
    BY <2>2 DEF Inputs
  <2>4. /\ \A u \in Threads \ {t} : pc'[u] = pc[u] /\ value'[u] = value[u]
        /\ value'[t] = 10 * started'
    BY <1>1, <2>1 DEF TypeOK
  <2> HIDE DEF Inputs
  <2>5. Inputs' = Inputs
    BY DEF Inputs
  <2> QED BY <1>1, <2>1, <2>3, <2>4, <2>5 DEF Brought, Threads
<1>7. ASSUME NEW t \in Threads,
             \/ SendWaits(t) \/ StageWaits(t) \/ ResultWaits(t) \/ SpuriousWakeup(t)
             \/ t \in Callers /\ PipeResult(t)
      PROVE  Brought'
  <2>1. /\ data' = data /\ value' = value
        /\ \/ pc' = pc
           \/ \E to \in Places :
                /\ to \in {"send", "ready"} => pc[t] \in {"send", "ready"}
                /\ pc' = [pc EXCEPT ![t] = to]
    BY <1>7 DEF SendWaits, StageWaits, ResultWaits, SpuriousWakeup, PipeResult, Go, Places
  <2>2. \A u \in Threads : pc'[u] \in {"send", "ready"} => pc[u] \in {"send", "ready"}
    BY <1>1, <2>1 DEF TypeOK
  <2> QED BY <1>1, <2>1, <2>2, BroughtStays
<1>8. CASE UNCHANGED vars
  BY <1>1, <1>8 DEF Brought, vars, Inputs
<1> QED BY <1>2, <1>3, <1>4, <1>5, <1>6, <1>7, <1>8 DEF Next, Step, Threads

LEMMA StepEntered ==
  ASSUME Orderly, [Next]_vars
  PROVE  Entered'
<1>1. TypeOK /\ Brought /\ Entered
  BY DEF Orderly, Safe
<1>2. ASSUME NEW t \in Threads, Send(t) PROVE Entered'
  <2>1. started' = started /\ Enters(t) /\ pc[t] = "send"
    BY <1>2 DEF Send
  <2>2. t \in Callers => value[t] \in Inputs
    BY <1>1, <2>1 DEF Brought
  <2>3. entered' \in Seq(Inputs)
    BY <1>1, <2>1, <2>2, AppendProperties DEF Enters, Entered
  <2> QED BY <1>1, <2>1, <2>3 DEF Entered, Inputs
<1>3. ASSUME NEW t \in Threads, Quiet(t) \/ Result(t) PROVE Entered'
  <2>1. entered' = entered
    <3>1. Result(t) => entered' = entered
      BY DEF Result
    <3> QED BY <3>1, <1>3, Values_
  <2>2. started' = started \/ (started < MaxStarts /\ started' = started + 1)
    <3>1. Quiet(t) => started' = started \/ (started < MaxStarts /\ started' = started + 1)
      BY DEF Quiet, SendWaits, StageWaits, StageTakes, StageEmpties, ResultWaits, SpuriousWakeup,
             PipeStart, PipeResult
    <3>2. Result(t) => started' = started
      BY DEF Result
    <3> QED BY <3>1, <3>2, <1>3
  <2>3. started' <= MaxStarts
    BY <1>1, <2>2, PipeAssumption DEF TypeOK, Entered
  <2> QED BY <1>1, <2>1, <2>3 DEF Entered, Inputs
<1>4. CASE UNCHANGED vars
  BY <1>1, <1>4 DEF Entered, vars, Inputs
<1> QED BY <1>2, <1>3, <1>4 DEF Next, Step, Quiet, Threads

LEMMA InitOrderly == Init => Orderly
<1> SUFFICES ASSUME Init PROVE Orderly
  OBVIOUS
<1>1. Held = {}
  BY DEF Init, Held, Full
<1>2. InLine
  BY <1>1, FS_EmptySet DEF Init, InLine
<1>3. Brought
  BY DEF Init, Brought, Threads
<1>4. Entered
  BY PipeAssumption DEF Init, Entered
<1> QED BY <1>2, <1>3, <1>4, InitSafe DEF Orderly

LEMMA PipeOrderly == Spec => []Orderly
<1>1. Orderly /\ [Next]_vars => Orderly'
  BY NextSafe, StepInLine, StepBrought, StepEntered DEF Orderly
<1> QED BY <1>1, InitOrderly, PTL DEF Spec

(***************************************************************************)
(* The steps of the first-in first-out queue.                              *)
(***************************************************************************)
Rest(in, out) == [i \in 1 .. Len(in) - Len(out) |-> in[Len(out) + i]]

LEMMA InsideIs == Inside = Rest(entered, results) /\ Inside' = Rest(entered', results')
BY DEF Inside, Rest

LEMMA RestIs ==
  ASSUME NEW in \in Seq(Inputs), NEW out \in Seq(Int), Len(out) <= Len(in)
  PROVE  /\ Rest(in, out) \in Seq(Inputs) /\ Len(Rest(in, out)) = Len(in) - Len(out)
         /\ \A i \in 1 .. Len(Rest(in, out)) : Rest(in, out)[i] = in[Len(out) + i]
<1> DEFINE n == Len(in) - Len(out)
           q == Rest(in, out)
<1>1. n \in Nat /\ Len(in) \in Nat /\ Len(out) \in Nat
  BY LenProperties
<1>2. \A i \in 1 .. n : Len(out) + i \in 1 .. Len(in)
  BY <1>1
<1>3. \A i \in 1 .. n : in[Len(out) + i] \in Inputs
  BY <1>2, ElementOfSeq
<1>4. q \in [1 .. n -> Inputs] /\ \A i \in 1 .. n : q[i] = in[Len(out) + i]
  <2>1. q = [i \in 1 .. n |-> in[Len(out) + i]]
    BY DEF Rest
  <2> HIDE DEF q, n
  <2> QED BY <2>1, <1>3
<1> HIDE DEF q
<1>5. q \in Seq(Inputs)
  <2> HIDE DEF n
  <2>1. q \in UNION {[1 .. m -> Inputs] : m \in Nat}
    BY <1>1, <1>4
  <2> QED BY <2>1, SeqDef
<1>6. Len(q) = n
  BY <1>1, <1>4, <1>5, LenProperties
<1> QED BY <1>4, <1>5, <1>6 DEF q

LEMMA Puts ==
  ASSUME Orderly, NEW t \in Callers, Send(t)
  PROVE  Queue!Put
<1>1. /\ entered \in Seq(Inputs) /\ results \in Seq(Int) /\ value[t] \in Inputs
      /\ entered' = Append(entered, value[t]) /\ results' = results
      /\ Len(entered) = Len(results) + Cardinality(Held)
  BY DEF Orderly, Safe, TypeOK, InLine, Entered, Brought, Send, Enters
<1>2. /\ Len(entered) \in Nat /\ Len(results) \in Nat /\ Cardinality(Held) \in Nat
      /\ Len(results) <= Len(entered)
  BY <1>1, Finite, LenProperties
<1>3. Cardinality(Held) < Tail_
  <2>1. 1 \notin Held /\ Held \subseteq AllStages
    BY SendMoves, TargetIs DEF Orderly, Threads, Held
  <2>2. Held \subseteq 2 .. Tail_
    BY <2>1, PipeAssumption DEF AllStages, Tail_
  <2>3. IsFiniteSet(2 .. Tail_) /\ Cardinality(2 .. Tail_) = Stages
    BY FS_Interval, PipeAssumption DEF Tail_
  <2>4. Cardinality(Held) <= Stages
    BY <2>2, <2>3, FS_Subset
  <2> QED BY <2>4, <1>2, PipeAssumption DEF Tail_
<1>4. /\ entered' \in Seq(Inputs) /\ Len(entered') = Len(entered) + 1
      /\ \A i \in 1 .. Len(entered) : entered'[i] = entered[i]
      /\ entered'[Len(entered) + 1] = value[t]
  BY <1>1, AppendProperties
<1>5. /\ Inside \in Seq(Inputs) /\ Len(Inside) = Len(entered) - Len(results)
      /\ \A i \in 1 .. Len(Inside) : Inside[i] = entered[Len(results) + i]
  <2>1. Inside = Rest(entered, results)
    BY InsideIs
  <2> QED BY ONLY <2>1, <1>1, <1>2, RestIs
<1>6. /\ Inside' \in Seq(Inputs) /\ Len(Inside') = Len(entered') - Len(results)
      /\ \A i \in 1 .. Len(Inside') : Inside'[i] = entered'[Len(results) + i]
  <2>1. Inside' = Rest(entered', results)
    BY <1>1, InsideIs
  <2>2. Len(results) <= Len(entered')
    BY <1>2, <1>4
  <2> QED BY ONLY <2>1, <2>2, <1>1, <1>4, RestIs
<1>7. Inside' = Append(Inside, value[t])
  <2> DEFINE q == Append(Inside, value[t])
  <2>1. /\ q \in Seq(Inputs) /\ Len(q) = Len(Inside) + 1
        /\ \A i \in 1 .. Len(Inside) : q[i] = Inside[i]
        /\ q[Len(Inside) + 1] = value[t]
    BY <1>1, <1>5, AppendProperties
  <2> HIDE DEF q
  <2>2. Len(Inside') = Len(q)
    BY <2>1, <1>2, <1>4, <1>5, <1>6
  <2> DEFINE k == Len(Inside)
             m == Len(entered)
             n == Len(results)
  <2>5. Len(Inside') = k + 1 /\ k = m - n /\ k \in Nat /\ m \in Nat /\ n \in Nat
    BY <1>2, <1>4, <1>5, <1>6
  <2> HIDE DEF k, m, n
  <2>3. ASSUME NEW i \in 1 .. Len(Inside') PROVE Inside'[i] = q[i]
    <3>1. CASE i \in 1 .. Len(Inside)
      <4>1. Len(results) + i \in 1 .. Len(entered)
        BY <3>1, <1>2, <1>5
      <4> QED BY <4>1, <3>1, <2>1, <2>3, <1>4, <1>5, <1>6
    <3>2. CASE i \notin 1 .. Len(Inside)
      <4>1. i = Len(Inside) + 1 /\ Len(results) + i = Len(entered) + 1
        <5>1. i \in 1 .. k + 1 /\ i \notin 1 .. k
          BY <3>2, <2>3, <2>5 DEF k
        <5>2. i = k + 1 /\ n + i = m + 1
          BY <5>1, <2>5
        <5> QED BY <5>2 DEF k, m, n
      <4> QED BY <4>1, <2>1, <2>3, <1>4, <1>6
    <3> QED BY <3>1, <3>2
  <2>4. Inside' = q
    BY <2>1, <2>2, <2>3, <1>6, SeqEqual
  <2> QED BY <2>4 DEF q
<1>8. Len(Inside) < Tail_
  BY <1>1, <1>2, <1>3, <1>5
<1> QED BY <1>1, <1>7, <1>8 DEF Queue!Put, Inputs

LEMMA Gets ==
  ASSUME Orderly, NEW c \in Callers, Result(c)
  PROVE  Queue!Get
<1>1. /\ entered \in Seq(Inputs) /\ results \in Seq(Int) /\ entered' = entered
      /\ Len(entered) - Len(results) > 0
      /\ results' = Append(results, entered[Len(results) + 1] + Stages)
      /\ results' \in Seq(Int) /\ Len(results') = Len(results) + 1
  <2>1. entered \in Seq(Inputs) /\ results \in Seq(Int) /\ data[Tail_] \in Int
    BY Threads_ DEF Orderly, Safe, TypeOK, Entered
  <2>2. results' \in Seq(Int) /\ Len(results') = Len(results) + 1
    BY <2>1, AppendProperties DEF Result
  <2> QED BY <2>1, <2>2, ResultIs
<1>2. /\ Len(entered) \in Nat /\ Len(results) \in Nat
      /\ Len(results) <= Len(entered) /\ Len(results') <= Len(entered)
  BY <1>1, LenProperties
<1>3. /\ Inside \in Seq(Inputs) /\ Len(Inside) = Len(entered) - Len(results)
      /\ \A i \in 1 .. Len(Inside) : Inside[i] = entered[Len(results) + i]
  <2>1. Inside = Rest(entered, results)
    BY InsideIs
  <2> QED BY ONLY <2>1, <1>1, <1>2, RestIs
<1>4. /\ Inside' \in Seq(Inputs) /\ Len(Inside') = Len(entered) - Len(results')
      /\ \A i \in 1 .. Len(Inside') : Inside'[i] = entered[Len(results') + i]
  <2>1. Inside' = Rest(entered, results')
    BY <1>1, InsideIs
  <2> QED BY ONLY <2>1, <1>1, <1>2, RestIs
<1>5. Inside # <<>> /\ Head(Inside) = entered[Len(results) + 1]
  <2>1. Inside # <<>>
    BY <1>1, <1>2, <1>3, EmptySeq
  <2>2. Head(Inside) = Inside[1]
    BY <2>1, <1>3
  <2> QED BY <2>1, <2>2, <1>1, <1>2, <1>3
<1>6. Inside' = Tail(Inside)
  <2> DEFINE q == Tail(Inside)
  <2>1. /\ q \in Seq(Inputs) /\ Len(q) = Len(Inside) - 1
        /\ \A i \in 1 .. Len(q) : q[i] = Inside[i + 1]
    BY <1>3, <1>5, HeadTailProperties
  <2> HIDE DEF q
  <2>2. Len(Inside') = Len(q)
    BY <2>1, <1>1, <1>2, <1>3, <1>4
  <2>3. ASSUME NEW i \in 1 .. Len(Inside') PROVE Inside'[i] = q[i]
    <3>1. i \in 1 .. Len(q) /\ i + 1 \in 1 .. Len(Inside)
      BY <2>1, <2>2, <2>3, <1>2, <1>3
    <3>2. Len(results') + i = Len(results) + (i + 1)
      BY <1>1, <1>2, <3>1
    <3> QED BY <3>1, <3>2, <2>1, <2>3, <1>3, <1>4
  <2>4. Inside' = q
    BY <2>1, <2>2, <2>3, <1>4, SeqEqual
  <2> QED BY <2>4 DEF q
<1> QED BY <1>1, <1>5, <1>6 DEF Queue!Get

LEMMA StepQueue ==
  ASSUME Orderly, [Next]_vars
  PROVE  [Queue!Put \/ Queue!Get]_<<Inside, results>>
<1>1. ASSUME NEW t \in Threads, Quiet(t) PROVE UNCHANGED <<Inside, results>>
  BY <1>1, Values_ DEF Inside
<1>2. ASSUME NEW t \in StageThreads, Send(t) PROVE UNCHANGED <<Inside, results>>
  <2>1. entered' = entered /\ results' = results
    BY <1>2, Threads_ DEF Send, Enters
  <2> QED BY <2>1 DEF Inside
<1>3. ASSUME NEW t \in Callers, Send(t) PROVE Queue!Put
  BY <1>3, Puts
<1>4. ASSUME NEW t \in Threads, Result(t) PROVE Queue!Get
  BY <1>4, Gets DEF Result
<1>5. CASE UNCHANGED vars
  BY <1>5 DEF vars, Inside
<1> QED BY <1>1, <1>2, <1>3, <1>4, <1>5 DEF Next, Step, Quiet, Threads

(***************************************************************************)
(* The theorems.                                                           *)
(***************************************************************************)
(* The variables have their types, for every number of stages and callers. *)
THEOREM PipeTypes == Spec => []TypeOK
<1>1. Safe => TypeOK
  BY DEF Safe
<1> QED BY <1>1, PipeSafe, PTL

(* active is the number of values in the pipe and on their way to it, less *)
(* those that a caller has asked for, for every number of stages: a caller *)
(* that was let through by pipe_result has a value coming to it.           *)
THEOREM PipeActiveCounts == Spec => []ActiveCounts
<1>1. Safe => ActiveCounts
  BY DEF Safe, Counted, ActiveCounts, Asking, Sending, Held
<1> QED BY <1>1, PipeSafe, PTL

(* The pipeline is a first-in first-out queue with a place for every stage *)
(* and one more: results come in the order in which their values went in,  *)
(* each once and one greater for every stage, whichever callers start      *)
(* values and collect results and however the stage threads wait.          *)
THEOREM PipeImplementsFifo == Spec => ImplementsFifo
<1>1. Init => Queue!Init
  <2> SUFFICES ASSUME Init PROVE Queue!Init
    OBVIOUS
  <2>1. Len(entered) - Len(results) = 0
    BY DEF Init
  <2>2. Inside = <<>>
    BY <2>1 DEF Inside
  <2> QED BY <2>2 DEF Init, Queue!Init
<1>2. Orderly /\ [Next]_vars => [Queue!Put \/ Queue!Get]_<<Inside, results>>
  BY StepQueue
<1> QED BY <1>1, <1>2, PipeOrderly, PTL DEF Spec, ImplementsFifo, Queue!Spec
=============================================================================

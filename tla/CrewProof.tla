------------------------------ MODULE CrewProof ------------------------------
(***************************************************************************)
(* Proofs about the work crew, for every tree, every number of workers and *)
(* callers, and every failure.                                             *)
(***************************************************************************)
EXTENDS Crew, FiniteSetTheorems, TLAPS

(* Every item that was appended is in exactly one place.                   *)
Placed ==
  /\ \A m, n \in DOMAIN list : list[m] = list[n] => m = n
  /\ \A v, w \in Busy : work[v] = work[w] => v = w
  /\ \A n \in DOMAIN list : list[n] \in added /\ list[n] \notin finished \cup dropped
  /\ \A w \in Busy : work[w] \in added /\ work[w] \notin finished \cup dropped
  /\ \A n \in DOMAIN list, w \in Busy : list[n] # work[w]
  /\ finished \cap dropped = {} /\ finished \cup dropped \subseteq added
  /\ \A i \in added : \/ i \in finished \cup dropped
                      \/ \E n \in DOMAIN list : list[n] = i
                      \/ \E w \in Busy : work[w] = i

(* What is about to be appended never was: an item's entries are appended  *)
(* by the worker that has it, and a request by its caller, once.           *)
NoEntry(i, A) == i[2] \in Dirs => \A e \in Entries[i[2]] : <<i[1], e>> \notin A

Fresh ==
  /\ \A i \in added : cpc[i[1]] \in {"await done", "wait", "returned"}
  /\ \A i \in added, d \in Dirs : i[2] \in Entries[d] => <<i[1], d>> \in added
  /\ \A n \in DOMAIN list : NoEntry(list[n], added)
  /\ \A w \in Workers : pc[w] = "look" => NoEntry(work[w], added)
  /\ \A w \in Workers : pc[w] = "read" =>
       /\ Path(w) \in Dirs /\ unread[w] \subseteq Entries[Path(w)]
       /\ \A e \in unread[w] : <<work[w][1], e>> \notin added

(* The counts that go with it.                                             *)
Counted ==
  /\ IsFiniteSet(added) /\ IsFiniteSet(finished) /\ IsFiniteSet(dropped)
  /\ CountsOutstanding
  /\ Cardinality(added) = Len(list) + Cardinality(Busy)
                            + Cardinality(finished) + Cardinality(dropped)

(* No worker runs before crew_create has made them.                        *)
Begun == life = "new" => \A w \in Workers : pc[w] = "none"

Safe == TypeOK /\ Begun /\ Placed /\ Fresh /\ Counted

LEMMA WorkersFinite ==
  /\ IsFiniteSet(Busy) /\ Cardinality(Busy) \in Nat
  /\ IsFiniteSet(Exited) /\ Cardinality(Exited) \in Nat
<1>1. Busy \in SUBSET Workers /\ Exited \in SUBSET Workers
  BY DEF Busy, Exited
<1> QED BY <1>1, CrewAssumption, FS_Subset, FS_CardinalityType

(* Everything that is counted is finite.                                   *)
LEMMA Numbers ==
  ASSUME TypeOK, Counted
  PROVE  /\ Cardinality(added) \in Nat /\ Cardinality(finished) \in Nat
         /\ Cardinality(dropped) \in Nat /\ Cardinality(Busy) \in Nat
         /\ Len(list) \in Nat /\ work_count \in Nat
<1>1. /\ Cardinality(added) \in Nat /\ Cardinality(finished) \in Nat
      /\ Cardinality(dropped) \in Nat
  BY FS_CardinalityType DEF Counted
<1>2. list \in Seq(Items) /\ work_count \in Nat
  BY DEF TypeOK
<1>3. Len(list) \in Nat
  BY <1>2
<1> QED BY <1>1, <1>2, <1>3, WorkersFinite

(* An item is the pair of its caller and its path.                         *)
LEMMA ItemPair ==
  ASSUME NEW i \in Items
  PROVE  i = <<i[1], i[2]>> /\ i[1] \in Callers /\ i[2] \in Paths
BY DEF Items

(* In the initial state there is no item.                                  *)
LEMMA InitSafe == Init => Safe
<1> SUFFICES ASSUME Init PROVE Safe
  OBVIOUS
<1>1. TypeOK
  BY DEF Init, TypeOK
<1>2. Busy = {} /\ DOMAIN list = {} /\ Len(list) = 0
  BY DEF Init, Busy
<1>3. Placed
  BY <1>2 DEF Init, Placed
<1>4. Fresh
  BY <1>2 DEF Init, Fresh
<1>5. Counted
  BY <1>2, FS_EmptySet DEF Init, Counted, CountsOutstanding
<1>6. Begun
  BY DEF Init, Begun
<1> QED BY <1>1, <1>3, <1>4, <1>5, <1>6 DEF Safe

-----------------------------------------------------------------------------
(* A signal wakes at most one sleeping worker: nobody comes to have or to  *)
(* have had an item by it.                                                 *)
LEMMA SignalQuiet ==
  ASSUME TypeOK, SignalGo
  PROVE  /\ pc' \in [Workers -> {"none", "begin", "start", "await start", "top",
                                 "await work", "look", "read", "finish", "exit"}]
         /\ Busy' = Busy /\ Exited' = Exited
         /\ \A w \in Workers : pc'[w] \in {"look", "read", "finish"} => pc'[w] = pc[w]
BY DEF TypeOK, SignalGo, Asleep, Awake, Busy, Exited

(* A step that appends, takes and gives back nothing.                      *)
LEMMA QuietStep ==
  ASSUME Placed, Counted, Busy' = Busy, UNCHANGED <<list, work_count, work, history>>
  PROVE  Placed' /\ Counted'
BY DEF Placed, Counted, CountsOutstanding, history

(* What Append does to a list of items.                                    *)
LEMMA AppendFacts ==
  ASSUME NEW s \in Seq(Items), NEW i \in Items, NEW t, t = Append(s, i)
  PROVE  /\ t \in Seq(Items) /\ Len(t) = Len(s) + 1 /\ Len(s) \in Nat
         /\ DOMAIN s = 1 .. Len(s) /\ DOMAIN t = 1 .. (Len(s) + 1)
         /\ t[Len(s) + 1] = i
         /\ \A n \in DOMAIN s : n \in DOMAIN t /\ t[n] = s[n]
         /\ \A n \in DOMAIN t : n \in DOMAIN s \/ n = Len(s) + 1
         /\ \A n \in DOMAIN t : t[n] = i \/ (n \in DOMAIN s /\ t[n] = s[n])
<1>1. t \in Seq(Items) /\ Len(t) = Len(s) + 1 /\ Len(s) \in Nat
  OBVIOUS
<1>2. DOMAIN s = 1 .. Len(s) /\ DOMAIN t = 1 .. (Len(s) + 1)
  BY <1>1
<1>3. t[Len(s) + 1] = i /\ \A n \in 1 .. Len(s) : t[n] = s[n]
  BY <1>1
<1>4. \A n \in DOMAIN t : t[n] = i \/ (n \in DOMAIN s /\ t[n] = s[n])
  BY <1>1, <1>2, <1>3
<1>5. \A n \in DOMAIN t : n \in DOMAIN s \/ n = Len(s) + 1
  BY <1>1, <1>2
<1>6. \A n \in DOMAIN s : n \in DOMAIN t /\ t[n] = s[n]
  BY <1>1, <1>2, <1>3
<1> QED BY <1>1, <1>2, <1>3, <1>4, <1>5, <1>6

(* A step that appends an item that is new.                                *)
LEMMA AppendStep ==
  ASSUME TypeOK, Placed, Counted, NEW i \in Items, i \notin added,
         Append1(i), Busy' = Busy, UNCHANGED <<work, finished, dropped>>
  PROVE  /\ list' \in Seq(Items) /\ work_count' \in Nat /\ added' \subseteq Items
         /\ Placed' /\ Counted'
<1>0. list \in Seq(Items) /\ work_count \in Nat /\ added \subseteq Items
  BY DEF TypeOK
<1>1. /\ list' = Append(list, i) /\ work_count' = work_count + 1
      /\ added' = added \cup {i}
  BY DEF Append1
<1>2. /\ list' \in Seq(Items) /\ Len(list') = Len(list) + 1 /\ Len(list) \in Nat
      /\ list'[Len(list) + 1] = i /\ Len(list) + 1 \in DOMAIN list'
      /\ \A n \in DOMAIN list : n \in DOMAIN list' /\ list'[n] = list[n]
      /\ \A n \in DOMAIN list' : n \in DOMAIN list \/ n = Len(list) + 1
  BY <1>0, <1>1, AppendFacts
<1> DEFINE last == Len(list) + 1
<1>3. /\ \A n \in DOMAIN list' : \/ n \in DOMAIN list /\ list'[n] = list[n]
                                 \/ n = last /\ list'[n] = i
      /\ \A n \in DOMAIN list : n \in DOMAIN list' /\ list'[n] = list[n]
      /\ last \in DOMAIN list'
  BY <1>2
<1> HIDE DEF last
<1>4. list'[last] = i
  BY <1>2 DEF last
<1>5. Placed'
  <2>1. \A m, n \in DOMAIN list' : list'[m] = list'[n] => m = n
    BY <1>3 DEF Placed
  <2>2. /\ \A n \in DOMAIN list' : list'[n] \in added' /\ list'[n] \notin finished \cup dropped
        /\ \A n \in DOMAIN list', w \in Busy : list'[n] # work[w]
    BY <1>1, <1>3 DEF Placed
  <2>3. \A v, w \in Busy : work[v] = work[w] => v = w
    BY DEF Placed
  <2>4. \A w \in Busy : work[w] \in added' /\ work[w] \notin finished \cup dropped
    BY <1>1 DEF Placed
  <2>5. finished \cap dropped = {} /\ finished \cup dropped \subseteq added'
    BY <1>1 DEF Placed
  <2>6. \A j \in added' : \/ j \in finished \cup dropped
                          \/ \E n \in DOMAIN list' : list'[n] = j
                          \/ \E w \in Busy : work[w] = j
    BY <1>1, <1>3, <1>4 DEF Placed
  <2> QED BY <2>1, <2>2, <2>3, <2>4, <2>5, <2>6 DEF Placed
<1>6. Cardinality(added') = Cardinality(added) + 1 /\ IsFiniteSet(added')
  BY <1>1, FS_AddElement DEF Counted
<1>7. Counted'
  <2>1. /\ Cardinality(added) \in Nat /\ Cardinality(finished) \in Nat
        /\ Cardinality(dropped) \in Nat /\ Cardinality(Busy) \in Nat
    BY Numbers
  <2>2. /\ Cardinality(Busy') = Cardinality(Busy) /\ Cardinality(dropped') = Cardinality(dropped)
        /\ Cardinality(finished') = Cardinality(finished)
    OBVIOUS
  <2>3. CountsOutstanding'
    BY <1>0, <1>1, <1>2, <2>1, <2>2 DEF Counted, CountsOutstanding
  <2>4. Cardinality(added') = Len(list') + Cardinality(Busy')
                               + Cardinality(finished') + Cardinality(dropped')
    BY <1>2, <1>6, <2>1, <2>2 DEF Counted
  <2>5. IsFiniteSet(finished') /\ IsFiniteSet(dropped')
    BY DEF Counted
  <2> QED BY <1>6, <2>3, <2>4, <2>5 DEF Counted
<1>8. list' \in Seq(Items) /\ work_count' \in Nat /\ added' \subseteq Items
  BY <1>0, <1>1, <1>2
<1> QED BY <1>5, <1>7, <1>8

(* A worker takes the first item of the list.                              *)
LEMMA TakeStep ==
  ASSUME TypeOK, Placed, Counted, NEW w \in Workers, TakeWork(w)
  PROVE  /\ list' \in Seq(Items) /\ work'[w] = list[1] /\ 1 \in DOMAIN list
         /\ \A n \in DOMAIN list' : n + 1 \in DOMAIN list /\ list'[n] = list[n + 1]
         /\ work' \in [Workers -> Items \cup {<<>>}]
         /\ Placed' /\ Counted'
<1>0. list \in Seq(Items) /\ list # <<>> /\ list' = Tail(list)
  BY DEF TypeOK, TakeWork
<1>1. /\ Len(list) \in Nat \ {0} /\ Len(list') = Len(list) - 1 /\ list' \in Seq(Items)
      /\ DOMAIN list = 1 .. Len(list) /\ DOMAIN list' = 1 .. (Len(list) - 1)
      /\ Head(list) = list[1] /\ list[1] \in Items
  BY <1>0
<1>2. \A n \in DOMAIN list' : n \in Nat /\ n + 1 \in DOMAIN list /\ n + 1 # 1
                              /\ list'[n] = list[n + 1]
  BY <1>0, <1>1
<1>3. \A n \in DOMAIN list : n = 1 \/ \E m \in DOMAIN list' : list'[m] = list[n]
  <2> SUFFICES ASSUME NEW n \in DOMAIN list, n # 1
               PROVE  \E m \in DOMAIN list' : list'[m] = list[n]
    OBVIOUS
  <2>1. n - 1 \in DOMAIN list' /\ (n - 1) + 1 = n
    BY <1>1
  <2> QED BY <1>2, <2>1
<1>4. 1 \in DOMAIN list
  BY <1>1
<1>5. /\ work' = [work EXCEPT ![w] = list[1]] /\ pc' = [pc EXCEPT ![w] = "look"]
      /\ UNCHANGED <<work_count, history>> /\ pc[w] = "top"
  BY <1>1 DEF TakeWork
<1>6. work' \in [Workers -> Items \cup {<<>>}] /\ work'[w] = list[1]
      /\ \A v \in Busy : work'[v] = work[v]
  BY <1>1, <1>5 DEF TypeOK, Busy
<1>7. w \notin Busy /\ Busy' = Busy \cup {w}
  BY <1>5 DEF TypeOK, Busy
<1>8. Placed'
  <2> USE <1>5, <1>6, <1>7 DEF history
  <2>1. \A m, n \in DOMAIN list' : list'[m] = list'[n] => m = n
    BY <1>2 DEF Placed
  <2>2. \A n \in DOMAIN list' : /\ list'[n] \in added' /\ list'[n] \notin finished' \cup dropped'
                                /\ \A v \in Busy' : list'[n] # work'[v]
    BY <1>2, <1>4 DEF Placed
  <2>3. \A u, v \in Busy' : work'[u] = work'[v] => u = v
    BY <1>4 DEF Placed
  <2>4. \A v \in Busy' : work'[v] \in added' /\ work'[v] \notin finished' \cup dropped'
    BY <1>4 DEF Placed
  <2>5. finished' \cap dropped' = {} /\ finished' \cup dropped' \subseteq added'
    BY DEF Placed
  <2>6. \A j \in added' : \/ j \in finished' \cup dropped'
                          \/ \E n \in DOMAIN list' : list'[n] = j
                          \/ \E v \in Busy' : work'[v] = j
    BY <1>3 DEF Placed
  <2> QED BY <2>1, <2>2, <2>3, <2>4, <2>5, <2>6 DEF Placed
<1>9. Counted'
  <2>1. /\ Cardinality(added) \in Nat /\ Cardinality(finished) \in Nat
        /\ Cardinality(dropped) \in Nat /\ Cardinality(Busy) \in Nat
    BY Numbers
  <2>2. Cardinality(Busy') = Cardinality(Busy) + 1
    BY <1>7, WorkersFinite, FS_AddElement
  <2>3. UNCHANGED <<work_count, added, finished, dropped>>
    BY <1>5 DEF history
  <2>4. CountsOutstanding'
    BY <1>1, <2>1, <2>2, <2>3 DEF Counted, CountsOutstanding
  <2>5. Cardinality(added') = Len(list') + Cardinality(Busy')
                               + Cardinality(finished') + Cardinality(dropped')
    BY <1>1, <2>1, <2>2, <2>3 DEF Counted
  <2>6. IsFiniteSet(added') /\ IsFiniteSet(finished') /\ IsFiniteSet(dropped')
    BY <2>3 DEF Counted
  <2> QED BY <2>4, <2>5, <2>6 DEF Counted
<1> QED BY <1>1, <1>2, <1>4, <1>6, <1>8, <1>9

(* A worker gives an item away: it has finished it, or leaves it behind.   *)
LEMMA GiveStep ==
  ASSUME TypeOK, Placed, Counted, NEW w \in Busy, Busy' = Busy \ {w},
         UNCHANGED <<list, work, added>>,
         \/ /\ finished' = finished \cup {work[w]} /\ dropped' = dropped
            /\ work_count' = work_count - 1
         \/ /\ dropped' = dropped \cup {work[w]} /\ finished' = finished
            /\ work_count' = work_count
  PROVE  Placed' /\ Counted' /\ work_count' \in Nat
<1>1. work[w] \in added /\ work[w] \notin finished \cup dropped
  BY DEF Placed
<1>2. Placed'
  BY <1>1 DEF Placed
<1>3. /\ Cardinality(added) \in Nat /\ Cardinality(finished) \in Nat
      /\ Cardinality(dropped) \in Nat /\ Cardinality(Busy) \in Nat
      /\ Len(list) \in Nat /\ work_count \in Nat
  BY Numbers
<1>4. Cardinality(Busy') = Cardinality(Busy) - 1 /\ Cardinality(Busy') \in Nat
  <2>1. IsFiniteSet(Busy \ {w}) /\ Cardinality(Busy \ {w}) = Cardinality(Busy) - 1
    BY WorkersFinite, FS_RemoveElement
  <2> QED BY <2>1, FS_CardinalityType
<1>5. CASE finished' = finished \cup {work[w]} /\ dropped' = dropped
           /\ work_count' = work_count - 1
  <2>1. Cardinality(finished') = Cardinality(finished) + 1 /\ IsFiniteSet(finished')
    BY <1>1, <1>5, FS_AddElement DEF Counted
  <2>2. Cardinality(dropped') = Cardinality(dropped) /\ Cardinality(added') = Cardinality(added)
        /\ Len(list') = Len(list)
    BY <1>5
  <2>3. CountsOutstanding' /\ work_count' \in Nat
    BY <1>3, <1>4, <1>5, <2>2 DEF Counted, CountsOutstanding
  <2>4. Cardinality(added') = Len(list') + Cardinality(Busy')
                               + Cardinality(finished') + Cardinality(dropped')
    BY <1>3, <1>4, <2>1, <2>2 DEF Counted
  <2> QED BY <1>2, <1>5, <2>1, <2>3, <2>4 DEF Counted
<1>6. CASE dropped' = dropped \cup {work[w]} /\ finished' = finished
           /\ work_count' = work_count
  <2>1. Cardinality(dropped') = Cardinality(dropped) + 1 /\ IsFiniteSet(dropped')
    BY <1>1, <1>6, FS_AddElement DEF Counted
  <2>2. Cardinality(finished') = Cardinality(finished) /\ Cardinality(added') = Cardinality(added)
        /\ Len(list') = Len(list)
    BY <1>6
  <2>3. CountsOutstanding' /\ work_count' \in Nat
    BY <1>3, <1>4, <1>6, <2>1, <2>2 DEF Counted, CountsOutstanding
  <2>4. Cardinality(added') = Len(list') + Cardinality(Busy')
                               + Cardinality(finished') + Cardinality(dropped')
    BY <1>3, <1>4, <2>1, <2>2 DEF Counted
  <2> QED BY <1>2, <1>6, <2>1, <2>3, <2>4 DEF Counted
<1> QED BY <1>5, <1>6

-----------------------------------------------------------------------------
Called == {"await done", "wait", "returned"}

(* A step that appends nothing and gives nobody an item.                   *)
LEMMA FreshQuiet ==
  ASSUME TypeOK, Fresh, UNCHANGED <<list, added>>,
         \A w \in Workers : pc'[w] = "look" => pc[w] = "look" /\ work'[w] = work[w],
         \A w \in Workers : pc'[w] = "read" =>
           pc[w] = "read" /\ work'[w] = work[w] /\ unread'[w] \subseteq unread[w],
         \A c \in Callers : cpc[c] \in Called => cpc'[c] \in Called
  PROVE  Fresh'
<1>1. \A i \in added : i[1] \in Callers
  BY ItemPair DEF TypeOK
<1>2. \A i \in added : cpc'[i[1]] \in Called
  BY <1>1 DEF Fresh, Called
<1>4. \A w \in Workers : pc'[w] = "read" =>
        /\ Path(w)' \in Dirs /\ unread'[w] \subseteq Entries[Path(w)']
        /\ \A e \in unread'[w] : <<work'[w][1], e>> \notin added
  BY DEF Fresh, Path
<1>5. \A w \in Workers : pc'[w] = "look" => NoEntry(work'[w], added)
  BY DEF Fresh
<1> QED BY <1>2, <1>4, <1>5 DEF Fresh, Called

(* A step that appends an item whose parent is there, when nobody but the  *)
(* step's own worker could append it.                                      *)
LEMMA FreshAppend ==
  ASSUME TypeOK, Placed, Fresh, NEW i \in Items, i \notin added, Append1(i),
         list' \in Seq(Items), cpc'[i[1]] \in Called,
         \A c \in Callers : cpc[c] \in Called => cpc'[c] \in Called,
         \A d \in Dirs : i[2] \in Entries[d] => <<i[1], d>> \in added,
         \A n \in DOMAIN list : ~(list[n][2] \in Dirs /\ i[1] = list[n][1]
                                  /\ i[2] \in Entries[list[n][2]]),
         \A w \in Workers : pc'[w] = "look" =>
           /\ pc[w] = "look" /\ work'[w] = work[w]
           /\ ~(work[w][2] \in Dirs /\ i[1] = work[w][1] /\ i[2] \in Entries[work[w][2]]),
         \A w \in Workers : pc'[w] = "read" =>
           /\ pc[w] = "read" /\ work'[w] = work[w] /\ unread'[w] \subseteq unread[w]
           /\ \A e \in unread'[w] : <<work[w][1], e>> # i
  PROVE  Fresh'
<1>1. /\ list' = Append(list, i) /\ added' = added \cup {i} /\ list \in Seq(Items)
      /\ \A j \in added : j \in Items
  BY DEF Append1, TypeOK
<1>2. \A n \in DOMAIN list' : list'[n] = i \/ (n \in DOMAIN list /\ list'[n] = list[n])
  BY <1>1, AppendFacts
<1>3. i = <<i[1], i[2]>> /\ i[1] \in Callers /\ \A j \in added : j[1] \in Callers
  BY <1>1, ItemPair
<1>4. \A j \in added' : cpc'[j[1]] \in Called
  BY <1>1, <1>3 DEF Fresh, Called
<1>5. \A j \in added', d \in Dirs : j[2] \in Entries[d] => <<j[1], d>> \in added'
  BY <1>1 DEF Fresh
<1>0. \A j \in added, d \in Dirs : j[2] \in Entries[d] => <<j[1], d>> \in added
  BY DEF Fresh
<1>6. ASSUME i[2] \in Dirs, NEW e \in Entries[i[2]] PROVE <<i[1], e>> \notin added'
  <2>1. <<i[1], e>> \notin added
    <3> SUFFICES ASSUME <<i[1], e>> \in added PROVE FALSE
      OBVIOUS
    <3>1. <<i[1], e>>[1] = i[1] /\ <<i[1], e>>[2] = e
      OBVIOUS
    <3>2. <<i[1], i[2]>> \in added
      BY <1>0, <1>6, <3>1
    <3> QED BY <3>2, <1>3
  <2>2. <<i[1], e>> # i
    <3> SUFFICES ASSUME <<i[1], e>> = i PROVE FALSE
      OBVIOUS
    <3>1. e = i[2]
      BY <1>3
    <3>2. <<i[1], i[2]>> \in added
      BY <1>6, <3>1
    <3> QED BY <3>2, <1>3
  <2> QED BY <2>1, <2>2, <1>1
<1>7. \A j : NoEntry(j, added) /\ ~(j[2] \in Dirs /\ i[1] = j[1] /\ i[2] \in Entries[j[2]])
             => NoEntry(j, added')
  <2> SUFFICES ASSUME NEW j, NoEntry(j, added), j[2] \in Dirs, NEW e \in Entries[j[2]],
                      ~(i[1] = j[1] /\ i[2] \in Entries[j[2]])
               PROVE  <<j[1], e>> \notin added'
    BY DEF NoEntry
  <2>1. <<j[1], e>> \notin added
    BY DEF NoEntry
  <2>2. <<j[1], e>> # i
    <3> SUFFICES ASSUME <<j[1], e>> = i PROVE FALSE
      OBVIOUS
    <3>1. i[1] = j[1] /\ i[2] = e
      OBVIOUS
    <3> QED BY <3>1
  <2> QED BY <2>1, <2>2, <1>1
<1>8. \A n \in DOMAIN list' : NoEntry(list'[n], added')
  <2>1. NoEntry(i, added')
    BY <1>6 DEF NoEntry
  <2>2. ASSUME NEW n \in DOMAIN list PROVE NoEntry(list[n], added')
    BY <1>7 DEF Fresh
  <2> QED BY <1>2, <2>1, <2>2
<1>9. \A w \in Workers : pc'[w] = "look" => NoEntry(work'[w], added')
  BY <1>7 DEF Fresh
<1>10. \A w \in Workers : pc'[w] = "read" =>
         /\ Path(w)' \in Dirs /\ unread'[w] \subseteq Entries[Path(w)']
         /\ \A e \in unread'[w] : <<work'[w][1], e>> \notin added'
  <2> SUFFICES ASSUME NEW w \in Workers, pc'[w] = "read"
               PROVE  /\ Path(w)' \in Dirs /\ unread'[w] \subseteq Entries[Path(w)']
                      /\ \A e \in unread'[w] : <<work'[w][1], e>> \notin added'
    OBVIOUS
  <2>1. pc[w] = "read" /\ work'[w] = work[w] /\ unread'[w] \subseteq unread[w]
    OBVIOUS
  <2>2. Path(w) \in Dirs /\ unread[w] \subseteq Entries[Path(w)] /\ Path(w)' = Path(w)
    BY <2>1 DEF Fresh, Path
  <2>3. \A e \in unread'[w] : <<work[w][1], e>> \notin added /\ <<work[w][1], e>> # i
    BY <2>1 DEF Fresh
  <2> QED BY <1>1, <2>1, <2>2, <2>3
<1> QED BY <1>4, <1>5, <1>8, <1>9, <1>10 DEF Fresh, Called

(* Every step of crew_create, crew_start and worker_routine keeps all of   *)
(* it.                                                                     *)
LEMMA QuietSafe ==
  ASSUME Safe,
         \/ \E w \in Workers :
              /\ life = "up"
              /\ \/ Start(w) \/ WaitForWork(w) \/ LookAtFile(w) \/ OpenDirectory(w)
                 \/ OutOfMemory(w) \/ ReadEnds(w) \/ SpuriousGo(w)
         \/ \E c \in Callers :
              /\ life = "up"
              /\ \/ CrewStart(c) \/ WaitIdle(c) \/ RequestAborts(c)
                 \/ WaitDone(c) \/ SpuriousDone(c)
         \/ CrewCreate
         \/ UNCHANGED vars
  PROVE  Safe'
<1> USE DEF Safe, crew, workers, history
<1>1. ASSUME NEW w \in Workers, life = "up", Start(w) PROVE Safe'
  <2> USE <1>1 DEF Start
  <2>1. TypeOK' /\ Begun' /\ Busy' = Busy /\ UNCHANGED <<list, work_count, work, history>>
    BY DEF TypeOK, Begun, Busy
  <2>2. Fresh'
    BY FreshQuiet DEF TypeOK, Called, history
  <2> QED BY <2>1, <2>2, QuietStep
<1>2. ASSUME NEW w \in Workers, life = "up", WaitForWork(w) PROVE Safe'
  <2> USE <1>2 DEF WaitForWork
  <2>1. TypeOK' /\ Begun' /\ Busy' = Busy /\ UNCHANGED <<list, work_count, work, history>>
    BY DEF TypeOK, Begun, Busy
  <2>2. Fresh'
    BY FreshQuiet DEF TypeOK, Called, history
  <2> QED BY <2>1, <2>2, QuietStep
<1>3. ASSUME NEW w \in Workers, life = "up", LookAtFile(w) PROVE Safe'
  <2> USE <1>3 DEF LookAtFile
  <2>1. TypeOK' /\ Begun' /\ Busy' = Busy /\ UNCHANGED <<list, work_count, work, history>>
    BY DEF TypeOK, Begun, Busy
  <2>2. Fresh'
    BY FreshQuiet DEF TypeOK, Called, history
  <2> QED BY <2>1, <2>2, QuietStep
<1>4. ASSUME NEW w \in Workers, life = "up", OutOfMemory(w) PROVE Safe'
  <2> USE <1>4 DEF OutOfMemory
  <2>1. TypeOK' /\ Begun' /\ Busy' = Busy /\ UNCHANGED <<list, work_count, work, history>>
    BY DEF TypeOK, Begun, Busy
  <2>2. Fresh'
    BY FreshQuiet DEF TypeOK, Called, history
  <2> QED BY <2>1, <2>2, QuietStep
<1>5. ASSUME NEW w \in Workers, life = "up", ReadEnds(w) PROVE Safe'
  <2> USE <1>5 DEF ReadEnds
  <2>1. TypeOK' /\ Begun' /\ Busy' = Busy /\ UNCHANGED <<list, work_count, work, history>>
    BY DEF TypeOK, Begun, Busy
  <2>2. Fresh'
    BY FreshQuiet DEF TypeOK, Called, history
  <2> QED BY <2>1, <2>2, QuietStep
<1>6. ASSUME NEW w \in Workers, life = "up", SpuriousGo(w) PROVE Safe'
  <2> USE <1>6 DEF SpuriousGo, Asleep, Awake
  <2>1. TypeOK' /\ Begun' /\ Busy' = Busy /\ UNCHANGED <<list, work_count, work, history>>
    BY DEF TypeOK, Begun, Busy
  <2>2. Fresh'
    BY FreshQuiet DEF TypeOK, Called, history
  <2> QED BY <2>1, <2>2, QuietStep
<1>7. ASSUME NEW w \in Workers, life = "up", OpenDirectory(w) PROVE Safe'
  <2>0. /\ Path(w) \in Dirs /\ Entries[Path(w)] \subseteq Paths /\ pc[w] = "look"
        /\ unread' = [unread EXCEPT ![w] = Entries[Path(w)]] /\ pc' = [pc EXCEPT ![w] = "read"]
        /\ UNCHANGED <<list, work_count, life, work, cpc, history>>
    BY <1>7, CrewAssumption DEF OpenDirectory
  <2>1. TypeOK' /\ Begun' /\ Busy' = Busy /\ UNCHANGED <<list, work_count, work, history>>
    BY <2>0 DEF TypeOK, Begun, Busy
  <2>2. Fresh'
    <3>1. /\ \A v \in Workers : pc'[v] = IF v = w THEN "read" ELSE pc[v]
          /\ \A v \in Workers : unread'[v] = IF v = w THEN Entries[Path(w)] ELSE unread[v]
      BY <2>0 DEF TypeOK
    <3>2. \A e \in Entries[Path(w)] : <<work[w][1], e>> \notin added
      BY <2>0 DEF Fresh, NoEntry, Path
    <3>3. ASSUME NEW v \in Workers, pc'[v] = "read"
          PROVE  /\ Path(v)' \in Dirs /\ unread'[v] \subseteq Entries[Path(v)']
                 /\ \A e \in unread'[v] : <<work'[v][1], e>> \notin added'
      <4>1. CASE v = w
        BY <2>0, <3>1, <3>2, <4>1 DEF Path
      <4>2. CASE v # w
        BY <2>0, <3>1, <3>3, <4>2 DEF Fresh, Path
      <4> QED BY <4>1, <4>2
    <3>4. \A v \in Workers : pc'[v] = "look" => NoEntry(work'[v], added')
      BY <2>0, <3>1 DEF Fresh
    <3> QED BY <2>0, <3>3, <3>4 DEF Fresh
  <2> QED BY <2>1, <2>2, QuietStep
<1>8. ASSUME NEW c \in Callers, life = "up", CrewStart(c) PROVE Safe'
  <2> USE <1>8 DEF CrewStart
  <2>1. TypeOK' /\ Begun' /\ Busy' = Busy /\ UNCHANGED <<list, work_count, work, history>>
    BY DEF TypeOK, Begun, Busy
  <2>2. Fresh'
    BY FreshQuiet DEF TypeOK, Called, history
  <2> QED BY <2>1, <2>2, QuietStep
<1>9. ASSUME NEW c \in Callers, life = "up", WaitIdle(c) PROVE Safe'
  <2> USE <1>9 DEF WaitIdle
  <2>1. TypeOK' /\ Begun' /\ Busy' = Busy /\ UNCHANGED <<list, work_count, work, history>>
    BY DEF TypeOK, Begun, Busy
  <2>2. Fresh'
    BY FreshQuiet DEF TypeOK, Called, history
  <2> QED BY <2>1, <2>2, QuietStep
<1>10. ASSUME NEW c \in Callers, life = "up", RequestAborts(c) PROVE Safe'
  <2> USE <1>10 DEF RequestAborts
  <2>1. TypeOK' /\ Begun' /\ Busy' = Busy /\ UNCHANGED <<list, work_count, work, history>>
    BY DEF TypeOK, Begun, Busy
  <2>2. Fresh'
    BY FreshQuiet DEF TypeOK, Called, history
  <2> QED BY <2>1, <2>2, QuietStep
<1>11. ASSUME NEW c \in Callers, life = "up", WaitDone(c) PROVE Safe'
  <2> USE <1>11 DEF WaitDone
  <2>1. TypeOK' /\ Begun' /\ Busy' = Busy /\ UNCHANGED <<list, work_count, work, history>>
    BY DEF TypeOK, Begun, Busy
  <2>2. Fresh'
    BY FreshQuiet DEF TypeOK, Called, history
  <2> QED BY <2>1, <2>2, QuietStep
<1>12. ASSUME NEW c \in Callers, life = "up", SpuriousDone(c) PROVE Safe'
  <2> USE <1>12 DEF SpuriousDone
  <2>1. TypeOK' /\ Begun' /\ Busy' = Busy /\ UNCHANGED <<list, work_count, work, history>>
    BY DEF TypeOK, Begun, Busy
  <2>2. Fresh'
    BY FreshQuiet DEF TypeOK, Called, history
  <2> QED BY <2>1, <2>2, QuietStep
<1>13. CASE CrewCreate
  <2> USE <1>13 DEF CrewCreate
  <2>1. TypeOK' /\ Begun' /\ Busy' = Busy /\ UNCHANGED <<list, work_count, work, history>>
    BY DEF TypeOK, Begun, Busy
  <2>2. /\ \A w \in Workers : pc'[w] = pc[w] \/ pc'[w] = "begin"
        /\ UNCHANGED <<list, added, work, unread, cpc>>
    OBVIOUS
  <2> HIDE DEF CrewCreate
  <2>3. /\ \A w \in Workers : pc'[w] = "look" => pc[w] = "look" /\ work'[w] = work[w]
        /\ \A w \in Workers : pc'[w] = "read" =>
             pc[w] = "read" /\ work'[w] = work[w] /\ unread'[w] \subseteq unread[w]
    BY <2>2
  <2>4. Fresh'
    BY <2>2, <2>3, FreshQuiet
  <2> QED BY <2>1, <2>4, QuietStep
<1>14. CASE UNCHANGED vars
  <2> USE <1>14 DEF vars
  <2>1. TypeOK' /\ Begun' /\ Busy' = Busy /\ UNCHANGED <<list, work_count, work, history>>
    BY DEF TypeOK, Begun, Busy
  <2>2. Fresh'
    BY FreshQuiet DEF TypeOK, Called, history
  <2> QED BY <2>1, <2>2, QuietStep
<1> QED BY <1>1, <1>2, <1>3, <1>4, <1>5, <1>6, <1>7, <1>8, <1>9, <1>10, <1>11, <1>12, <1>13, <1>14

LEMMA TakeSafe ==
  ASSUME Safe, NEW w \in Workers, life = "up", TakeWork(w)
  PROVE  Safe'
<1>1. /\ TypeOK /\ Placed /\ Fresh /\ Counted
      /\ pc' = [pc EXCEPT ![w] = "look"] /\ UNCHANGED <<work_count, life, unread, cpc, history>>
      /\ work' = [work EXCEPT ![w] = Head(list)]
  BY DEF Safe, TakeWork
<1>2. /\ Placed' /\ Counted' /\ list' \in Seq(Items) /\ work' \in [Workers -> Items \cup {<<>>}]
      /\ work'[w] = list[1] /\ 1 \in DOMAIN list
      /\ \A n \in DOMAIN list' : n + 1 \in DOMAIN list /\ list'[n] = list[n + 1]
  BY <1>1, TakeStep
<1>3. TypeOK' /\ Begun'
  BY <1>1, <1>2 DEF TypeOK, Begun, history
<1>4. /\ \A v \in Workers : pc'[v] = IF v = w THEN "look" ELSE pc[v]
      /\ \A v \in Workers : v # w => work'[v] = work[v]
  BY <1>1 DEF TypeOK
<1>5. \A n \in DOMAIN list' : NoEntry(list'[n], added)
  <2>1. \A n \in DOMAIN list : NoEntry(list[n], added)
    BY <1>1 DEF Fresh
  <2>2. ASSUME NEW n \in DOMAIN list' PROVE NoEntry(list'[n], added)
    <3>1. n + 1 \in DOMAIN list /\ list'[n] = list[n + 1]
      BY <1>2
    <3>2. NoEntry(list[n + 1], added)
      BY <2>1, <3>1
    <3> QED BY <3>1, <3>2
  <2> QED BY <2>2
<1>6. \A v \in Workers : pc'[v] = "look" => NoEntry(work'[v], added)
  <2>1. NoEntry(list[1], added)
    BY <1>1, <1>2 DEF Fresh
  <2>2. \A v \in Workers : pc[v] = "look" => NoEntry(work[v], added)
    BY <1>1 DEF Fresh
  <2> QED BY <1>2, <1>4, <2>1, <2>2
<1>7. Fresh'
  <2>1. UNCHANGED <<added, cpc, unread>>
    BY <1>1 DEF history
  <2>2. ASSUME NEW v \in Workers, pc'[v] = "read"
        PROVE  /\ Path(v)' \in Dirs /\ unread'[v] \subseteq Entries[Path(v)']
               /\ \A e \in unread'[v] : <<work'[v][1], e>> \notin added'
    <3>1. pc[v] = "read" /\ work'[v] = work[v]
      BY <1>4, <2>2
    <3>2. /\ Path(v) \in Dirs /\ unread[v] \subseteq Entries[Path(v)]
          /\ \A e \in unread[v] : <<work[v][1], e>> \notin added
      BY <1>1, <3>1 DEF Fresh
    <3> QED BY <2>1, <3>1, <3>2 DEF Path
  <2>3. /\ \A i \in added' : cpc'[i[1]] \in {"await done", "wait", "returned"}
        /\ \A i \in added', d \in Dirs : i[2] \in Entries[d] => <<i[1], d>> \in added'
    BY <1>1, <2>1 DEF Fresh
  <2>4. /\ \A n \in DOMAIN list' : NoEntry(list'[n], added')
        /\ \A v \in Workers : pc'[v] = "look" => NoEntry(work'[v], added')
    BY <1>5, <1>6, <2>1
  <2> QED BY <2>2, <2>3, <2>4 DEF Fresh
<1> QED BY <1>2, <1>3, <1>7 DEF Safe

LEMMA OpenFailedSafe ==
  ASSUME Safe, NEW w \in Workers, life = "up", OpenFailed(w)
  PROVE  Safe'
<1>1. /\ TypeOK /\ Placed /\ Fresh /\ Counted /\ w \in Busy
      /\ pc' = [pc EXCEPT ![w] = "top"] /\ dropped' = dropped \cup {work[w]}
      /\ UNCHANGED <<list, work_count, life, work, unread, cpc, added, finished>>
  BY DEF Safe, OpenFailed, Busy, crew
<1>2. Busy' = Busy \ {w}
  BY <1>1 DEF TypeOK, Busy
<1>3. Placed' /\ Counted'
  BY <1>1, <1>2, GiveStep
<1>4. work[w] \in Items
  BY <1>1 DEF Placed, TypeOK
<1>5. TypeOK' /\ Begun'
  BY <1>1, <1>4 DEF TypeOK, Begun
<1>6. Fresh'
  BY <1>1, FreshQuiet DEF TypeOK
<1> QED BY <1>3, <1>5, <1>6 DEF Safe

LEMMA FinishSafe ==
  ASSUME Safe, NEW w \in Workers, life = "up", Finish(w)
  PROVE  Safe'
<1>1. /\ TypeOK /\ Placed /\ Fresh /\ Counted /\ w \in Busy
      /\ pc' = [pc EXCEPT ![w] = "exit"] \/ pc' = [pc EXCEPT ![w] = "top"]
      /\ cpc' = cpc \/ BroadcastDone
      /\ finished' = finished \cup {work[w]} /\ work_count' = work_count - 1
      /\ UNCHANGED <<list, life, work, unread, added, dropped>>
  BY DEF Safe, Finish, Busy
<1>2. Busy' = Busy \ {w}
  BY <1>1 DEF TypeOK, Busy
<1>3. Placed' /\ Counted' /\ work_count' \in Nat
  BY <1>1, <1>2, GiveStep
<1>4. work[w] \in Items
  BY <1>1 DEF Placed, TypeOK
<1>5. /\ cpc' \in [Callers -> {"idle", "call", "await idle", "await done", "wait", "returned"}]
      /\ \A c \in Callers : cpc[c] \in Called => cpc'[c] \in Called
  BY <1>1 DEF TypeOK, BroadcastDone, Called
<1>6. TypeOK' /\ Begun'
  BY <1>1, <1>3, <1>4, <1>5 DEF TypeOK, Begun
<1>7. \A v \in Workers : pc'[v] \in {"look", "read"} => pc'[v] = pc[v]
  BY <1>1 DEF TypeOK
<1>8. Fresh'
  BY <1>1, <1>5, <1>7, FreshQuiet
<1> QED BY <1>3, <1>6, <1>8 DEF Safe

(* The entry a worker appends is new, and no other item has it.            *)
LEMMA ReadEntrySafe ==
  ASSUME Safe, NEW w \in Workers, life = "up", ReadEntry(w)
  PROVE  Safe'
<1>1. /\ TypeOK /\ Placed /\ Fresh /\ Counted /\ w \in Busy /\ pc[w] = "read" /\ SignalGo
      /\ UNCHANGED <<life, work, cpc, finished, dropped>>
  BY DEF Safe, ReadEntry, Busy
<1>2. PICK e \in unread[w] : /\ Append1(<<work[w][1], e>>)
                             /\ unread' = [unread EXCEPT ![w] = @ \ {e}]
  BY DEF ReadEntry
<1> DEFINE i == <<work[w][1], e>>
<1>3. /\ work[w] \in added /\ work[w] \in Items /\ Path(w) \in Dirs /\ e \in Entries[Path(w)]
      /\ i \notin added
  BY <1>1, <1>2 DEF Placed, TypeOK, Fresh
<1>4. work[w] = <<work[w][1], Path(w)>> /\ work[w][1] \in Callers /\ e \in Paths
  BY <1>3, ItemPair, CrewAssumption DEF Path
<1>5. i \in Items /\ i[1] = work[w][1] /\ i[2] = e
  BY <1>4 DEF Items
<1>6. \A d \in Dirs : e \in Entries[d] => d = Path(w)
  BY <1>3, CrewAssumption
<1> HIDE DEF i
<1>7. /\ Busy' = Busy
      /\ pc' \in [Workers -> {"none", "begin", "start", "await start", "top",
                              "await work", "look", "read", "finish", "exit"}]
      /\ \A v \in Workers : pc'[v] \in {"look", "read", "finish"} => pc'[v] = pc[v]
  BY <1>1, SignalQuiet
<1>8. Append1(i)
  BY <1>2 DEF i
<1>9. /\ list' \in Seq(Items) /\ work_count' \in Nat /\ added' \subseteq Items
      /\ Placed' /\ Counted'
  BY <1>1, <1>3, <1>5, <1>7, <1>8, AppendStep
<1>10. TypeOK' /\ Begun'
  BY <1>1, <1>2, <1>7, <1>9 DEF TypeOK, Begun
<1>11. Fresh'
  <2>1. cpc'[i[1]] \in Called /\ \A c \in Callers : cpc[c] \in Called => cpc'[c] \in Called
    BY <1>1, <1>3, <1>5 DEF Fresh, Called
  <2>2. \A d \in Dirs : i[2] \in Entries[d] => <<i[1], d>> \in added
    BY <1>3, <1>4, <1>5, <1>6
  <2>3. ASSUME NEW j \in Items, j[2] \in Dirs, i[1] = j[1], i[2] \in Entries[j[2]]
        PROVE  j = work[w]
    BY <1>4, <1>5, <1>6, <2>3, ItemPair
  <2>4. \A n \in DOMAIN list : list[n] \in Items /\ list[n] # work[w]
    BY <1>1 DEF Placed, TypeOK
  <2>5. \A n \in DOMAIN list : ~(list[n][2] \in Dirs /\ i[1] = list[n][1]
                                 /\ i[2] \in Entries[list[n][2]])
    BY <2>3, <2>4
  <2>6. ASSUME NEW v \in Workers, pc'[v] = "look"
        PROVE  /\ pc[v] = "look" /\ work'[v] = work[v]
               /\ ~(work[v][2] \in Dirs /\ i[1] = work[v][1] /\ i[2] \in Entries[work[v][2]])
    <3>1. pc[v] = "look" /\ v \in Busy /\ v # w
      BY <1>1, <1>7, <2>6 DEF Busy
    <3>2. work[v] \in Items /\ work[v] # work[w]
      BY <1>1, <3>1 DEF Placed, TypeOK
    <3> QED BY <1>1, <2>3, <3>1, <3>2
  <2>7. ASSUME NEW v \in Workers, pc'[v] = "read"
        PROVE  /\ pc[v] = "read" /\ work'[v] = work[v] /\ unread'[v] \subseteq unread[v]
               /\ \A x \in unread'[v] : <<work[v][1], x>> # i
    <3>1. pc[v] = "read" /\ v \in Busy
      BY <1>7, <2>7 DEF Busy
    <3>2. unread'[v] = IF v = w THEN unread[w] \ {e} ELSE unread[v]
      BY <1>1, <1>2 DEF TypeOK
    <3>3. ASSUME NEW x \in unread'[v], <<work[v][1], x>> = i PROVE FALSE
      <4>1. x = e /\ work[v][1] = work[w][1]
        BY <3>3 DEF i
      <4>2. v # w
        BY <3>2, <4>1
      <4>3. Path(v) \in Dirs /\ e \in Entries[Path(v)]
        BY <1>1, <3>1, <3>2, <4>1, <4>2 DEF Fresh
      <4>4. work[v] \in Items
        BY <1>1, <3>1 DEF Placed, TypeOK
      <4>5. work[v] = work[w]
        BY <1>5, <2>3, <4>1, <4>3, <4>4 DEF Path
      <4> QED BY <1>1, <3>1, <4>2, <4>5 DEF Placed
    <3> QED BY <1>1, <3>1, <3>2, <3>3
  <2> QED BY <1>1, <1>3, <1>5, <1>8, <1>9, <2>1, <2>2, <2>5, <2>6, <2>7, FreshAppend
<1> QED BY <1>9, <1>10, <1>11 DEF Safe

(* A request is new: its caller has appended nothing before, and nobody    *)
(* else appends the path it was given.                                     *)
LEMMA RequestSafe ==
  ASSUME Safe, NEW c \in Callers, life = "up", Request(c)
  PROVE  Safe'
<1> DEFINE i == <<c, Root>>
<1>1. /\ TypeOK /\ Placed /\ Fresh /\ Counted /\ cpc[c] = "call" /\ SignalGo /\ Append1(i)
      /\ cpc' = [cpc EXCEPT ![c] = "await done"]
      /\ UNCHANGED <<life, work, unread, finished, dropped>>
  BY DEF Safe, Request
<1>2. i \in Items /\ i[1] = c /\ i[2] = Root
  BY CrewAssumption DEF Items
<1>3. i \notin added
  BY <1>1, <1>2 DEF Fresh
<1>4. \A d \in Dirs : Root \notin Entries[d]
  BY CrewAssumption
<1> HIDE DEF i
<1>5. /\ Busy' = Busy
      /\ pc' \in [Workers -> {"none", "begin", "start", "await start", "top",
                              "await work", "look", "read", "finish", "exit"}]
      /\ \A v \in Workers : pc'[v] \in {"look", "read", "finish"} => pc'[v] = pc[v]
  BY <1>1, SignalQuiet
<1>6. /\ list' \in Seq(Items) /\ work_count' \in Nat /\ added' \subseteq Items
      /\ Placed' /\ Counted'
  BY <1>1, <1>2, <1>3, <1>5, AppendStep
<1>7. TypeOK' /\ Begun'
  BY <1>1, <1>5, <1>6 DEF TypeOK, Begun
<1>8. cpc'[i[1]] \in Called /\ \A d \in Callers : cpc[d] \in Called => cpc'[d] \in Called
  BY <1>1, <1>2 DEF TypeOK, Called
<1>9. \A v \in Workers : pc'[v] = "read" =>
        /\ pc[v] = "read" /\ work'[v] = work[v] /\ unread'[v] \subseteq unread[v]
        /\ \A x \in unread'[v] : <<work[v][1], x>> # i
  <2> SUFFICES ASSUME NEW v \in Workers, pc'[v] = "read",
                      NEW x \in unread[v], <<work[v][1], x>> = i
               PROVE  FALSE
    BY <1>1, <1>5
  <2>1. pc[v] = "read" /\ x = Root
    BY <1>5 DEF i
  <2>2. Path(v) \in Dirs /\ x \in Entries[Path(v)]
    BY <1>1, <2>1 DEF Fresh
  <2> QED BY <1>4, <2>1, <2>2
<1>10. Fresh'
  BY <1>1, <1>2, <1>3, <1>4, <1>5, <1>6, <1>8, <1>9, FreshAppend
<1> QED BY <1>6, <1>7, <1>10 DEF Safe

LEMMA StepSafe == Safe /\ [Next]_vars => Safe'
<1> SUFFICES ASSUME Safe, [Next]_vars PROVE Safe'
  OBVIOUS
<1>1. ASSUME NEW w \in Workers, WorkerStep(w) PROVE Safe'
  BY <1>1, QuietSafe, TakeSafe, OpenFailedSafe, ReadEntrySafe, FinishSafe DEF WorkerStep
<1>2. ASSUME NEW c \in Callers, CallerStep(c) PROVE Safe'
  BY <1>2, QuietSafe, RequestSafe DEF CallerStep
<1> QED BY <1>1, <1>2, QuietSafe DEF Next, Stopped

(* Every variable of the crew keeps its type; in particular work_count is  *)
(* never negative.                                                         *)
THEOREM CrewTypes == Spec => []TypeOK
<1>1. Safe => TypeOK
  BY DEF Safe
<1> QED BY InitSafe, StepSafe, <1>1, PTL DEF Spec

(* work_count is the number of items on the list, in hand or left behind.  *)
THEOREM CrewCountsOutstanding == Spec => []CountsOutstanding
<1>1. Safe => CountsOutstanding
  BY DEF Safe, Counted
<1> QED BY InitSafe, StepSafe, <1>1, PTL DEF Spec

(* No item is lost, and none is looked at twice.                           *)
THEOREM CrewItemsOnce == Spec => []ItemsOnce
<1>1. Safe => ItemsOnce
  <2> SUFFICES ASSUME Safe PROVE ItemsOnce
    OBVIOUS
  <2>1. added = Queued \cup InHand \cup finished \cup dropped
    BY DEF Safe, Placed, Queued, InHand
  <2> QED BY <2>1 DEF Safe, Counted, ItemsOnce
<1> QED BY InitSafe, StepSafe, <1>1, PTL DEF Spec

-----------------------------------------------------------------------------
(* A step that neither appends an item nor finishes one sends no worker    *)
(* home, and lets a caller return only when nothing is outstanding.        *)
Idle ==
  /\ Exited' = Exited /\ UNCHANGED <<added, work_count, finished>>
  /\ \A c \in Callers : cpc'[c] = "returned" => cpc[c] = "returned" \/ work_count = 0

LEMMA StepKinds ==
  ASSUME Safe, [Next]_vars
  PROVE  \/ Idle
         \/ \E w \in Workers : ReadEntry(w) \/ Finish(w)
         \/ \E c \in Callers : Request(c)
<1> USE DEF Safe, TypeOK, Idle, Exited, crew, workers, history
<1>1. ASSUME NEW w \in Workers, Start(w) PROVE Idle
  BY <1>1 DEF Start
<1>2. ASSUME NEW w \in Workers, WaitForWork(w) PROVE Idle
  BY <1>2 DEF WaitForWork
<1>3. ASSUME NEW w \in Workers, TakeWork(w) PROVE Idle
  BY <1>3 DEF TakeWork
<1>4. ASSUME NEW w \in Workers, LookAtFile(w) PROVE Idle
  BY <1>4 DEF LookAtFile
<1>5. ASSUME NEW w \in Workers, OutOfMemory(w) PROVE Idle
  BY <1>5 DEF OutOfMemory
<1>6. ASSUME NEW w \in Workers, ReadEnds(w) PROVE Idle
  BY <1>6 DEF ReadEnds
<1>7. ASSUME NEW w \in Workers, OpenDirectory(w) PROVE Idle
  BY <1>7 DEF OpenDirectory
<1>8. ASSUME NEW w \in Workers, OpenFailed(w) PROVE Idle
  BY <1>8 DEF OpenFailed
<1>9. ASSUME NEW w \in Workers, SpuriousGo(w) PROVE Idle
  BY <1>9 DEF SpuriousGo, Asleep, Awake
<1>10. ASSUME NEW c \in Callers, CrewStart(c) PROVE Idle
  BY <1>10 DEF CrewStart
<1>11. ASSUME NEW c \in Callers, WaitIdle(c) PROVE Idle
  BY <1>11 DEF WaitIdle
<1>12. ASSUME NEW c \in Callers, RequestAborts(c) PROVE Idle
  BY <1>12 DEF RequestAborts
<1>13. ASSUME NEW c \in Callers, WaitDone(c) PROVE Idle
  <2>1. /\ cpc' = [cpc EXCEPT ![c] = IF work_count > 0 THEN "await done" ELSE "returned"]
        /\ UNCHANGED <<pc, work_count, added, finished>>
    BY <1>13 DEF WaitDone
  <2>2. work_count \in Nat /\ c \in DOMAIN cpc
    OBVIOUS
  <2>3. Exited' = Exited
    BY <2>1
  <2>4. CASE work_count > 0
    BY <2>1, <2>2, <2>3, <2>4
  <2>5. CASE work_count = 0
    BY <2>1, <2>2, <2>3, <2>5
  <2>6. work_count > 0 \/ work_count = 0
    <3> HIDE DEF Safe, TypeOK
    <3> QED BY <2>2
  <2> QED BY <2>4, <2>5, <2>6
<1>14. ASSUME NEW c \in Callers, SpuriousDone(c) PROVE Idle
  BY <1>14 DEF SpuriousDone
<1>15. ASSUME life = "new", CrewCreate PROVE Idle
  BY <1>15 DEF CrewCreate, Begun
<1>16. CASE UNCHANGED vars
  BY <1>16 DEF vars
<1> HIDE DEF Idle, Safe, TypeOK
<1> QED
  BY <1>1, <1>2, <1>3, <1>4, <1>5, <1>6, <1>7, <1>8, <1>9, <1>10, <1>11, <1>12, <1>13, <1>14,
     <1>15, <1>16
  DEF Next, WorkerStep, CallerStep, Stopped, CrewCreate

(* With nothing outstanding, everything that was appended is finished.     *)
LEMMA NothingLeft ==
  ASSUME Safe, work_count = 0
  PROVE  list = <<>> /\ Busy = {} /\ dropped = {} /\ added \subseteq finished
<1>1. Cardinality(Busy) = 0 /\ Cardinality(dropped) = 0 /\ Len(list) = 0
  BY Numbers DEF Safe, Counted, CountsOutstanding
<1>2. Busy = {} /\ dropped = {}
  BY <1>1, WorkersFinite, FS_EmptySet DEF Safe, Counted
<1>3. list = <<>> /\ DOMAIN list = {}
  <2>1. list \in Seq(Items)
    BY DEF Safe, TypeOK
  <2>2. list = <<>>
    BY <1>1, <2>1
  <2> QED BY <2>2
<1> QED BY <1>2, <1>3 DEF Safe, Placed

(* A crew_start that has returned has had its whole tree looked at, and    *)
(* nothing is ever added to that tree again.                               *)
THEOREM CrewReturnsWhenDone == Spec => []ReturnsWhenDone
<1>1. Init => ReturnsWhenDone
  BY DEF Init, ReturnsWhenDone
<1>2. ASSUME Safe, ReturnsWhenDone, [Next]_vars PROVE ReturnsWhenDone'
  <2>1. \A i \in added : i[1] \in Callers
    BY <1>2, ItemPair DEF Safe, TypeOK
  <2>2. CASE Idle
    BY <1>2, <2>2, NothingLeft DEF Idle, ReturnsWhenDone
  <2>3. ASSUME NEW w \in Workers, ReadEntry(w) PROVE ReturnsWhenDone'
    <3>1. UNCHANGED <<cpc, finished>> /\ w \in Busy
      BY <2>3 DEF ReadEntry, Busy
    <3>2. work[w] \in added /\ work[w] \notin finished /\ work[w][1] \in Callers
      BY <1>2, <2>1, <3>1 DEF Safe, Placed
    <3>3. cpc[work[w][1]] # "returned"
      BY <1>2, <3>2 DEF ReturnsWhenDone
    <3>4. \A i \in added' : i \in added \/ i[1] = work[w][1]
      BY <2>3 DEF ReadEntry, Append1
    <3> QED BY <1>2, <3>1, <3>3, <3>4 DEF ReturnsWhenDone
  <2>4. ASSUME NEW w \in Workers, Finish(w) PROVE ReturnsWhenDone'
    <3>1. UNCHANGED added /\ finished \subseteq finished'
      BY <2>4 DEF Finish
    <3>2. \A c \in Callers : cpc'[c] = "returned" => cpc[c] = "returned"
      BY <2>4 DEF Finish, BroadcastDone
    <3> QED BY <1>2, <3>1, <3>2 DEF ReturnsWhenDone
  <2>5. ASSUME NEW c \in Callers, Request(c) PROVE ReturnsWhenDone'
    <3>1. UNCHANGED finished /\ added' = added \cup {<<c, Root>>}
          /\ cpc' = [cpc EXCEPT ![c] = "await done"]
      BY <2>5 DEF Request, Append1
    <3>2. cpc \in [Callers -> {"idle", "call", "await idle", "await done", "wait", "returned"}]
      BY <1>2 DEF Safe, TypeOK
    <3>3. cpc'[c] # "returned" /\ \A d \in Callers : d # c => cpc'[d] = cpc[d]
      BY <3>1, <3>2
    <3>4. \A i \in added' : i \in added \/ i[1] = c
      <4>1. <<c, Root>>[1] = c
        OBVIOUS
      <4> QED BY <3>1, <4>1
    <3> QED BY <1>2, <3>1, <3>3, <3>4 DEF ReturnsWhenDone
  <2> QED BY <1>2, <2>2, <2>3, <2>4, <2>5, StepKinds
<1>3. Safe /\ ReturnsWhenDone /\ [Next]_vars => Safe' /\ ReturnsWhenDone'
  BY <1>2, StepSafe
<1> QED BY InitSafe, <1>1, <1>3, PTL DEF Spec

Asked == {c \in Callers : <<c, Root>> \in added}

(* The crew loses exactly one worker for every request it has completed.   *)
THEOREM CrewOneLeavesPerRequest == Spec => []OneLeavesPerRequest
<1>0. IsFiniteSet(Asked) /\ Cardinality(Asked) \in Nat
  <2>1. Asked \in SUBSET Callers
    BY DEF Asked
  <2> QED BY <2>1, CrewAssumption, FS_Subset, FS_CardinalityType
<1>1. Init => OneLeavesPerRequest
  <2> SUFFICES ASSUME Init PROVE OneLeavesPerRequest
    OBVIOUS
  <2>1. Exited = {} /\ Asked = {} /\ work_count = 0
    BY DEF Init, Exited, Asked
  <2>2. Cardinality(Exited) = 0 /\ Cardinality(Asked) = 0
    BY <2>1, FS_EmptySet
  <2>3. Cardinality(Exited) = Cardinality(Asked) - (IF work_count > 0 THEN 1 ELSE 0)
    BY <2>1, <2>2
  <2> QED BY <2>3 DEF OneLeavesPerRequest, Asked
<1>2. ASSUME Safe, OneLeavesPerRequest, [Next]_vars PROVE OneLeavesPerRequest'
  <2> USE <1>2
  <2>1. work_count \in Nat /\ Cardinality(Exited) \in Nat
    BY WorkersFinite DEF Safe, TypeOK
  <2>2. Cardinality(Exited) = Cardinality(Asked) - (IF work_count > 0 THEN 1 ELSE 0)
    BY DEF OneLeavesPerRequest, Asked
  <2>3. ASSUME NEW w \in Busy PROVE work_count > 0
    <3>1. Busy # {} /\ Cardinality(Busy) # 0
      BY <2>3, WorkersFinite, FS_EmptySet
    <3>2. work_count = Len(list) + Cardinality(Busy) + Cardinality(dropped)
      BY DEF Safe, Counted, CountsOutstanding
    <3> QED BY <3>1, <3>2, Numbers DEF Safe
  <2>4. CASE Idle
    <3>1. Exited' = Exited /\ Asked' = Asked /\ work_count' = work_count
      BY <2>4 DEF Idle, Asked
    <3> QED BY <2>2, <3>1 DEF OneLeavesPerRequest, Asked
  <2>5. ASSUME NEW w \in Workers, ReadEntry(w) PROVE OneLeavesPerRequest'
    <3>1. pc[w] = "read" /\ w \in Busy /\ SignalGo /\ work_count' = work_count + 1
      BY <2>5 DEF ReadEntry, Append1, Busy
    <3>2. Exited' = Exited
      BY <3>1, SignalQuiet DEF Safe
    <3>3. PICK e \in unread[w] : added' = added \cup {<<work[w][1], e>>}
      BY <2>5 DEF ReadEntry, Append1
    <3>4. e # Root
      <4>1. Path(w) \in Dirs /\ e \in Entries[Path(w)]
        BY <3>1 DEF Safe, Fresh
      <4> QED BY <4>1, CrewAssumption
    <3>5. Asked' = Asked
      BY <3>3, <3>4 DEF Asked
    <3>6. work_count > 0 /\ work_count' > 0
      BY <2>1, <2>3, <3>1
    <3> QED BY <2>2, <3>2, <3>5, <3>6 DEF OneLeavesPerRequest, Asked
  <2>6. ASSUME NEW w \in Workers, Finish(w) PROVE OneLeavesPerRequest'
    <3>1. pc[w] = "finish" /\ w \in Busy /\ w \notin Exited /\ UNCHANGED added
          /\ work_count' = work_count - 1
      BY <2>6 DEF Finish, Busy, Exited
    <3>2. work_count > 0 /\ Asked' = Asked
      BY <2>3, <3>1 DEF Asked
    <3>3. CASE work_count - 1 <= 0 /\ pc' = [pc EXCEPT ![w] = "exit"]
      <4>1. Exited' = Exited \cup {w}
        BY <3>1, <3>3 DEF Safe, TypeOK, Exited
      <4>2. Cardinality(Exited') = Cardinality(Exited) + 1
        BY <3>1, <4>1, WorkersFinite, FS_AddElement
      <4>3. ~(work_count' > 0)
        BY <2>1, <3>1, <3>3
      <4>4. Cardinality(Asked') = Cardinality(Asked)
        BY <3>2
      <4>5. Cardinality(Exited') = Cardinality(Asked') - (IF work_count' > 0 THEN 1 ELSE 0)
        BY <1>0, <2>1, <2>2, <3>2, <4>2, <4>3, <4>4
      <4> QED BY <4>5 DEF OneLeavesPerRequest, Asked
    <3>4. CASE work_count - 1 > 0 /\ pc' = [pc EXCEPT ![w] = "top"]
      <4>1. Exited' = Exited
        BY <3>1, <3>4 DEF Safe, TypeOK, Exited
      <4>2. work_count' > 0
        BY <3>1, <3>4
      <4> QED BY <2>2, <3>2, <4>1, <4>2 DEF OneLeavesPerRequest, Asked
    <3> QED BY <2>6, <3>3, <3>4 DEF Finish
  <2>7. ASSUME NEW c \in Callers, Request(c) PROVE OneLeavesPerRequest'
    <3>1. /\ cpc[c] = "call" /\ work_count <= 0 /\ work_count' = work_count + 1 /\ SignalGo
          /\ added' = added \cup {<<c, Root>>}
      BY <2>7 DEF Request, Append1
    <3>2. Exited' = Exited
      BY <3>1, SignalQuiet DEF Safe
    <3>3. c \notin Asked /\ Asked' = Asked \cup {c}
      <4>1. ASSUME <<c, Root>> \in added PROVE FALSE
        BY <3>1, <4>1 DEF Safe, Fresh
      <4> QED BY <3>1, <4>1 DEF Asked
    <3>4. Cardinality(Asked') = Cardinality(Asked) + 1
      BY <1>0, <3>3, FS_AddElement
    <3>5. ~(work_count > 0) /\ work_count' > 0
      BY <2>1, <3>1
    <3> QED BY <1>0, <2>1, <2>2, <3>2, <3>4, <3>5 DEF OneLeavesPerRequest, Asked
  <2> QED BY <2>4, <2>5, <2>6, <2>7, StepKinds
<1>3. Safe /\ OneLeavesPerRequest /\ [Next]_vars => Safe' /\ OneLeavesPerRequest'
  BY <1>2, StepSafe
<1> QED BY InitSafe, <1>1, <1>3, PTL DEF Spec
=============================================================================

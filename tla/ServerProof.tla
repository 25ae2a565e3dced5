----------------------------- MODULE ServerProof -----------------------------
(***************************************************************************)
(* Theorems of Server: no request is used after it was freed, freed twice  *)
(* or lost, and the lines are echoed whole and in order, for any number of *)
(* clients, writes and lines.                                              *)
(***************************************************************************)
EXTENDS Server, FiniteSetTheorems, TLAPS

Elements(q) == {q[n] : n \in DOMAIN q}
Distinct(q) == \A m, n \in DOMAIN q : q[m] = q[n] => m = n

Queued == Elements(requests)

(* A request is in one place: in the queue, once, at the server, or done.  *)
OnePlace ==
  /\ heap = Queued \cup serving \cup done_flag
  /\ Queued \cap serving = {} /\ Queued \cap done_flag = {} /\ serving \cap done_flag = {}
  /\ Distinct(requests)
  /\ \A r \in done_flag : Sync(r)

(* The place of the server tells whether it exists and has a request.      *)
ServerPlace ==
  /\ pc[TtyServer] \in {"serve", "finish"} <=> serving # {}
  /\ pc[TtyServer] = "none" <=> ~running

Placed == OnePlace /\ ServerPlace

(* Who waits has one request, and of the other requests nobody waits for   *)
(* any.                                                                    *)
Awaited ==
  /\ \A c \in Clients : pc[c] \in {"asleep", "woken"} <=> Read(c) \in heap
  /\ pc[Main] \in {"asleep", "woken"} <=> Quit(Main) \in heap
  /\ \A r \in heap :
       \/ r.operation = "read" /\ r.by \in Clients /\ r = Read(r.by)
       \/ r.operation = "quit" /\ r = Quit(Main)
       \/ r.operation = "write" /\ r.by \in Clients
  /\ \A c \in Clients : c >= count => pc[c] = "none"

WriteFresh(r) ==
  /\ pc[r.by] \notin {"leave", "gone"} => r.line <= string[r.by]
  /\ pc[r.by] = "write" /\ r.line = string[r.by] => r.loop < loops[r.by]

(* The writes of a client that are under way are of earlier lines, or of   *)
(* this line and earlier rounds of its loop.                               *)
Fresh ==
  /\ \A r \in heap : r.operation = "write" => WriteFresh(r)
  /\ \A c \in Clients : string[c] <= typed /\ text[c] <= typed
  /\ \A c \in Clients : pc[c] \in {"asleep", "woken"} => text[c] = 0 \/ string[c] < text[c]

Safe == TypeOK /\ Placed /\ Awaited /\ Fresh

-----------------------------------------------------------------------------
(***************************************************************************)
(* The queue.                                                              *)
(***************************************************************************)
LEMMA AppendElements ==
  ASSUME NEW S, NEW q \in Seq(S), NEW r \in S
  PROVE  /\ Elements(Append(q, r)) = Elements(q) \cup {r}
         /\ Distinct(q) /\ r \notin Elements(q) => Distinct(Append(q, r))
<1>1. /\ DOMAIN q = 1 .. Len(q) /\ DOMAIN Append(q, r) = 1 .. Len(q) + 1 /\ Len(q) \in Nat
      /\ Append(q, r)[Len(q) + 1] = r
      /\ \A n \in 1 .. Len(q) : Append(q, r)[n] = q[n]
  OBVIOUS
<1> QED BY <1>1 DEF Elements, Distinct

LEMMA TailElements ==
  ASSUME NEW S, NEW q \in Seq(S), q # <<>>, Distinct(q)
  PROVE  /\ Elements(Tail(q)) = Elements(q) \ {Head(q)} /\ Head(q) \in Elements(q)
         /\ Distinct(Tail(q))
<1>1. /\ DOMAIN q = 1 .. Len(q) /\ DOMAIN Tail(q) = 1 .. Len(q) - 1
      /\ Len(q) \in Nat \ {0} /\ Head(q) = q[1]
      /\ \A n \in 1 .. Len(q) - 1 : Tail(q)[n] = q[n + 1]
  OBVIOUS
<1>2. \A m, n \in 1 .. Len(q) : q[m] = q[n] => m = n
  BY <1>1 DEF Distinct
<1>3. \A x : x \in Elements(q) <=> \E n \in 1 .. Len(q) : x = q[n]
  BY <1>1 DEF Elements
<1>4. \A x : x \in Elements(Tail(q)) <=> \E n \in 1 .. Len(q) - 1 : x = q[n + 1]
  BY <1>1 DEF Elements
<1>5. ASSUME NEW x \in Elements(q), x # Head(q) PROVE x \in Elements(Tail(q))
  <2>1. PICK n \in 1 .. Len(q) : x = q[n]
    BY <1>3
  <2>2. n - 1 \in 1 .. Len(q) - 1 /\ x = q[(n - 1) + 1]
    BY <2>1, <1>1, <1>5
  <2> QED BY <2>2, <1>4
<1>6. ASSUME NEW x \in Elements(Tail(q)) PROVE x \in Elements(q) /\ x # Head(q)
  BY <1>1, <1>2, <1>3, <1>4
<1>7. Distinct(Tail(q))
  BY <1>1, <1>2 DEF Distinct
<1> QED BY <1>1, <1>3, <1>5, <1>6, <1>7

-----------------------------------------------------------------------------
(***************************************************************************)
(* Safe is inductive.                                                      *)
(***************************************************************************)
LEMMA Ranges ==
  /\ Clients \subseteq Requesters /\ Clients \subseteq Int /\ Requesters \subseteq Int
  /\ Main \in Requesters /\ Main \notin Clients /\ TtyServer \notin Requesters
  /\ \A n \in 0 .. CLIENT_THREADS : n < CLIENT_THREADS => n \in Clients
BY ServerAssumption DEF Clients, Main, TtyServer, Requesters

LEMMA InitSafe == Init => Safe
<1> SUFFICES ASSUME Init PROVE Safe
  OBVIOUS
<1>1. TypeOK
  BY Ranges, ServerAssumption DEF Init, TypeOK, PcOK
<1>2. Placed
  BY Ranges DEF Init, Placed, OnePlace, ServerPlace, Queued, Elements, Distinct
<1>3. Awaited
  BY Ranges DEF Init, Awaited
<1>4. Fresh
  BY Ranges DEF Init, Fresh, WriteFresh
<1> QED BY <1>1, <1>2, <1>3, <1>4 DEF Safe

(* What is not in the heap yet when it is asked for.                       *)
LEMMA NewRequests ==
  ASSUME Safe
  PROVE  /\ \A c \in Clients : pc[c] = "read" => Read(c) \notin heap
         /\ \A c \in Clients : pc[c] = "write" => Write(c) \notin heap
         /\ pc[Main] = "quit" => Quit(Main) \notin heap
<1>1. \A c \in Clients : pc[c] = "read" => Read(c) \notin heap
  BY DEF Safe, Awaited
<1>2. ASSUME NEW c \in Clients, pc[c] = "write", Write(c) \in heap PROVE FALSE
  <2>1. /\ Write(c).operation = "write" /\ Write(c).line = string[c]
        /\ Write(c).by = c /\ Write(c).loop = loops[c]
    BY DEF Write
  <2>2. loops[c] < loops[c]
    BY <1>2, <2>1 DEF Safe, Fresh, WriteFresh
  <2>3. loops[c] \in Int
    BY ServerAssumption DEF Safe, TypeOK
  <2> QED BY <2>2, <2>3
<1>3. pc[Main] = "quit" => Quit(Main) \notin heap
  BY DEF Safe, Awaited
<1> QED BY <1>1, <1>2, <1>3

LEMMA RequestTypes ==
  ASSUME TypeOK, NEW c \in Clients
  PROVE  Read(c) \in Requests /\ Write(c) \in Requests /\ Quit(Main) \in Requests
BY Ranges, ServerAssumption DEF TypeOK, Read, Write, Quit, Requests

DataOK ==
  /\ requests \in Seq(Requests) /\ running \in BOOLEAN
  /\ heap \subseteq Requests /\ done_flag \subseteq Requests
  /\ serving \subseteq Requests /\ \A r, s \in serving : r = s
  /\ text \in [Requesters -> Nat] /\ typed \in Nat
  /\ loops \in [Clients -> 0 .. Writes - 1] /\ string \in [Clients -> Nat]
  /\ client_threads \in Int /\ client_threads <= CLIENT_THREADS
  /\ count \in 0 .. CLIENT_THREADS

LEMMA Parts == TypeOK <=> DataOK /\ PcOK
BY DEF TypeOK, DataOK

LEMMA StepPc == Safe /\ [Next]_vars => PcOK'
<1> SUFFICES ASSUME Safe, [Next]_vars PROVE PcOK'
  OBVIOUS
<1>0. TypeOK /\ PcOK
  BY Parts DEF Safe
<1> USE Ranges, ServerAssumption
<1>1. ASSUME NEW c \in Clients, ClientReads(c) PROVE PcOK'
  BY <1>0, <1>1 DEF PcOK, ClientReads, Request
<1>2. ASSUME NEW c \in Clients, ClientHasRead(c) PROVE PcOK'
  BY <1>0, <1>2 DEF PcOK, ClientHasRead, Waiting, Go
<1>3. ASSUME NEW c \in Clients, ClientWrites(c) PROVE PcOK'
  BY <1>0, <1>3 DEF PcOK, ClientWrites, Request
<1>4. ASSUME NEW c \in Clients, ClientLeaves(c) PROVE PcOK'
  BY <1>0, <1>4 DEF PcOK, ClientLeaves
<1>5. CASE ServerWaits
  BY <1>0, <1>5 DEF PcOK, ServerWaits, Go
<1>6. CASE ServerTakes
  BY <1>0, <1>6 DEF PcOK, ServerTakes, Go
<1>7. CASE ServerReads
  BY <1>0, <1>7 DEF PcOK, ServerReads, Go
<1>8. CASE ServerWrites
  BY <1>0, <1>8 DEF PcOK, ServerWrites, Go
<1>9. CASE ServerQuits
  BY <1>0, <1>9 DEF PcOK, ServerQuits, Go
<1>10. CASE ServerFinishes
  <2>1. PICK r \in serving : ServerFinishes!(r)
    BY <1>10 DEF ServerFinishes
  <2>2. r.by \in Requesters
    BY <1>0 DEF TypeOK, Requests
  <2>3. \A t \in Requesters : pc'[t] = pc[t] \/ (pc[t] = "asleep" /\ pc'[t] = "woken")
    BY <1>0, <2>1, <2>2 DEF PcOK, Go
  <2>4. pc' \in [Requesters \cup {TtyServer} -> {pc'[t] : t \in Requesters \cup {TtyServer}}]
    BY <1>0, <2>1, <2>2 DEF PcOK, Go
  <2>5. pc'[TtyServer] \in {"gone", "lock"}
    BY <1>0, <2>1, <2>2 DEF PcOK, Go
  <2> QED BY <1>0, <2>3, <2>4, <2>5 DEF PcOK
<1>11. CASE MainCreates
  <2>1. count < client_threads => count \in Clients
    BY <1>0 DEF TypeOK
  <2> QED BY <1>0, <1>11, <2>1 DEF PcOK, MainCreates, Go
<1>12. CASE MainJoins
  BY <1>0, <1>12 DEF PcOK, MainJoins, Go
<1>13. CASE MainQuits
  BY <1>0, <1>13 DEF PcOK, MainQuits, Request
<1>14. CASE MainReturns
  BY <1>0, <1>14 DEF PcOK, MainReturns, Waiting, Go
<1>15. ASSUME NEW t \in DOMAIN pc, SpuriousWakeup(t) PROVE PcOK'
  BY <1>0, <1>15 DEF PcOK, SpuriousWakeup, Go
<1>16. CASE UNCHANGED vars
  BY <1>0, <1>16 DEF PcOK, vars
<1> QED
  BY <1>1, <1>2, <1>3, <1>4, <1>5, <1>6, <1>7, <1>8, <1>9, <1>10, <1>11, <1>12, <1>13, <1>14,
     <1>15, <1>16
     DEF Next, Client, Server_, Main_, Returned

LEMMA StepData == Safe /\ [Next]_vars => DataOK'
<1> SUFFICES ASSUME Safe, [Next]_vars PROVE DataOK'
  OBVIOUS
<1>0. TypeOK /\ DataOK
  BY Parts DEF Safe
<1> USE Ranges, ServerAssumption
<1>1. ASSUME NEW c \in Clients, ClientReads(c) PROVE DataOK'
  BY <1>0, <1>1, RequestTypes DEF DataOK, ClientReads, Request, clients
<1>2. ASSUME NEW c \in Clients, ClientHasRead(c) PROVE DataOK'
  BY <1>0, <1>2 DEF DataOK, ClientHasRead, Waiting, Go
<1>3. ASSUME NEW c \in Clients, ClientWrites(c) PROVE DataOK'
  <2>1. (loops[c] + 1) % Writes \in 0 .. Writes - 1
    BY <1>0 DEF DataOK
  <2>2. loops' \in [Clients -> 0 .. Writes - 1]
    BY <1>0, <1>3, <2>1 DEF DataOK, ClientWrites
  <2>3. requests' \in Seq(Requests) /\ heap' \subseteq Requests /\ running' \in BOOLEAN
    BY <1>0, <1>3, RequestTypes DEF DataOK, ClientWrites, Request
  <2>4. UNCHANGED <<done_flag, serving, text, string, client_threads, count, typed>>
    BY <1>3 DEF ClientWrites, Request
  <2> QED BY <1>0, <2>2, <2>3, <2>4 DEF DataOK
<1>4. ASSUME NEW c \in Clients, ClientLeaves(c) PROVE DataOK'
  <2>1. client_threads' \in Int /\ client_threads' <= CLIENT_THREADS
    BY <1>0, <1>4 DEF DataOK, ClientLeaves
  <2>2. UNCHANGED <<server, loops, string, count, typed>>
    BY <1>4 DEF ClientLeaves
  <2> QED BY <1>0, <2>1, <2>2 DEF DataOK, server
<1>5. CASE ServerWaits
  BY <1>0, <1>5 DEF DataOK, ServerWaits, Go, server, clients
<1>6. CASE ServerTakes
  BY <1>0, <1>6 DEF DataOK, ServerTakes, Go, clients
<1>7. CASE ServerReads
  <2>1. PICK r \in serving : ServerReads!(r)
    BY <1>7 DEF ServerReads
  <2>2. r.by \in Requesters
    BY <1>0 DEF DataOK, Requests
  <2>3. text' \in [Requesters -> Nat] /\ typed' \in Nat
    BY <1>0, <2>1, <2>2 DEF DataOK
  <2>4. UNCHANGED <<requests, running, heap, done_flag, serving, loops, string, client_threads, count>>
    BY <2>1 DEF clients
  <2> QED BY <1>0, <2>3, <2>4 DEF DataOK
<1>8. CASE ServerWrites
  BY <1>0, <1>8 DEF DataOK, ServerWrites, Go, server, clients
<1>9. CASE ServerQuits
  BY <1>0, <1>9 DEF DataOK, ServerQuits, Go, server, clients
<1>10. CASE ServerFinishes
  BY <1>0, <1>10 DEF DataOK, ServerFinishes, Go, clients, Requests
<1>11. CASE MainCreates
  BY <1>0, <1>11 DEF DataOK, MainCreates, Go, server
<1>12. CASE MainJoins
  BY <1>0, <1>12 DEF DataOK, MainJoins, Go, server, clients
<1>13. CASE MainQuits
  BY <1>0, <1>13 DEF DataOK, MainQuits, Request, clients, Quit, Requests
<1>14. CASE MainReturns
  BY <1>0, <1>14 DEF DataOK, MainReturns, Waiting, Go, clients
<1>15. ASSUME NEW t \in DOMAIN pc, SpuriousWakeup(t) PROVE DataOK'
  BY <1>0, <1>15 DEF DataOK, SpuriousWakeup, Go, server, clients
<1>16. CASE UNCHANGED vars
  BY <1>0, <1>16 DEF DataOK, vars, server, clients
<1> QED
  BY <1>1, <1>2, <1>3, <1>4, <1>5, <1>6, <1>7, <1>8, <1>9, <1>10, <1>11, <1>12, <1>13, <1>14,
     <1>15, <1>16
     DEF Next, Client, Server_, Main_, Returned
-----------------------------------------------------------------------------
(* What the steps do to the requests, one case each.                       *)
Queues(r) ==
  /\ r \in Requests \ heap /\ requests' = Append(requests, r) /\ heap' = heap \cup {r}
  /\ UNCHANGED <<done_flag, serving>>

Takes ==
  /\ requests # <<>> /\ requests' = Tail(requests)
  /\ serving = {} /\ serving' = {Head(requests)}
  /\ UNCHANGED <<heap, done_flag>>

Finishes(r) ==
  /\ r \in serving /\ serving' = {}
  /\ IF Sync(r) THEN done_flag' = done_flag \cup {r} /\ heap' = heap
                 ELSE heap' = heap \ {r} /\ done_flag' = done_flag
  /\ UNCHANGED requests

Frees(r) ==
  /\ r \in done_flag /\ heap' = heap \ {r} /\ done_flag' = done_flag \ {r}
  /\ UNCHANGED <<requests, serving>>

Kept == UNCHANGED <<requests, heap, done_flag, serving>>

LEMMA KindsPlace ==
  ASSUME TypeOK, OnePlace,
         \/ \E r \in Requests : Queues(r) \/ Finishes(r) \/ Frees(r)
         \/ Takes \/ Kept
  PROVE  OnePlace'
<1>1. ASSUME NEW r \in Requests, Queues(r) PROVE OnePlace'
  <2>1. Queued' = Queued \cup {r} /\ Distinct(requests')
    BY <1>1, AppendElements DEF Queues, OnePlace, Queued, TypeOK
  <2> QED BY <1>1, <2>1 DEF Queues, OnePlace
<1>2. ASSUME NEW r \in Requests, Finishes(r) PROVE OnePlace'
  <2>1. Queued' = Queued /\ serving = {r} /\ Distinct(requests')
    BY <1>2 DEF Finishes, OnePlace, Queued, TypeOK
  <2> QED BY <1>2, <2>1 DEF Finishes, OnePlace
<1>3. ASSUME NEW r \in Requests, Frees(r) PROVE OnePlace'
  <2>1. Queued' = Queued /\ Distinct(requests')
    BY <1>3 DEF Frees, OnePlace, Queued
  <2> QED BY <1>3, <2>1 DEF Frees, OnePlace
<1>4. CASE Takes
  <2>1. /\ Queued' = Queued \ {Head(requests)} /\ Head(requests) \in Queued
        /\ Distinct(requests')
    BY <1>4, TailElements DEF Takes, OnePlace, Queued, TypeOK
  <2> QED BY <1>4, <2>1 DEF Takes, OnePlace
<1>5. CASE Kept
  BY <1>5 DEF Kept, OnePlace, Queued
<1> QED BY <1>1, <1>2, <1>3, <1>4, <1>5

KindOfStep ==
  \/ \E r \in Requests : Queues(r) \/ Finishes(r) \/ Frees(r)
  \/ Takes \/ Kept

LEMMA StepKinds == Safe /\ [Next]_vars => KindOfStep
<1> SUFFICES ASSUME Safe, [Next]_vars PROVE KindOfStep
  OBVIOUS
<1>0. TypeOK /\ PcOK /\ Placed
  BY Parts DEF Safe
<1> USE Ranges
<1>1. ASSUME NEW c \in Clients, ClientReads(c) PROVE KindOfStep
  <2>1. Queues(Read(c)) /\ Read(c) \in Requests
    BY <1>0, <1>1, RequestTypes, NewRequests DEF Queues, ClientReads, Request
  <2> QED BY <2>1 DEF KindOfStep
<1>2. ASSUME NEW c \in Clients, ClientHasRead(c) PROVE KindOfStep
  <2>1. Frees(Read(c)) \/ Kept
    BY <1>2 DEF Frees, Kept, ClientHasRead, Waiting
  <2> QED BY <1>0, <2>1, RequestTypes DEF KindOfStep
<1>3. ASSUME NEW c \in Clients, ClientWrites(c) PROVE KindOfStep
  <2>1. Queues(Write(c)) /\ Write(c) \in Requests
    BY <1>0, <1>3, RequestTypes, NewRequests DEF Queues, ClientWrites, Request
  <2> QED BY <2>1 DEF KindOfStep
<1>4. ASSUME NEW c \in Clients, ClientLeaves(c) PROVE KindOfStep
  BY <1>4 DEF ClientLeaves, server, KindOfStep, Kept
<1>5. CASE ServerWaits
  BY <1>5 DEF ServerWaits, server, KindOfStep, Kept
<1>6. CASE ServerTakes
  BY <1>0, <1>6 DEF ServerTakes, Go, Placed, ServerPlace, Takes, KindOfStep
<1>7. CASE ServerReads
  BY <1>7 DEF ServerReads, KindOfStep, Kept
<1>8. CASE ServerWrites
  BY <1>8 DEF ServerWrites, server, KindOfStep, Kept
<1>9. CASE ServerQuits
  BY <1>9 DEF ServerQuits, server, KindOfStep, Kept
<1>10. CASE ServerFinishes
  <2>1. PICK r \in serving : ServerFinishes!(r)
    BY <1>10 DEF ServerFinishes
  <2>2. Finishes(r) /\ r \in Requests
    BY <1>0, <2>1 DEF Finishes, TypeOK
  <2> QED BY <2>2 DEF KindOfStep
<1>11. CASE MainCreates
  BY <1>11 DEF MainCreates, server, KindOfStep, Kept
<1>12. CASE MainJoins
  BY <1>12 DEF MainJoins, server, KindOfStep, Kept
<1>13. CASE MainQuits
  <2>1. Quit(Main) \in Requests
    BY DEF Quit, Requests
  <2>2. Queues(Quit(Main))
    BY <1>0, <1>13, <2>1, NewRequests DEF Queues, MainQuits, Request
  <2> QED BY <2>1, <2>2 DEF KindOfStep
<1>14. CASE MainReturns
  <2>1. Frees(Quit(Main)) \/ Kept
    BY <1>14 DEF Frees, Kept, MainReturns, Waiting
  <2> QED BY <1>0, <2>1 DEF Quit, Requests, KindOfStep
<1>15. ASSUME NEW t \in DOMAIN pc, SpuriousWakeup(t) PROVE KindOfStep
  BY <1>15 DEF SpuriousWakeup, server, KindOfStep, Kept
<1>16. CASE UNCHANGED vars
  BY <1>16 DEF vars, server, KindOfStep, Kept
<1> QED
  BY <1>1, <1>2, <1>3, <1>4, <1>5, <1>6, <1>7, <1>8, <1>9, <1>10, <1>11, <1>12, <1>13, <1>14,
     <1>15, <1>16
     DEF Next, Client, Server_, Main_, Returned

LEMMA StepPlace == Safe /\ [Next]_vars => ServerPlace'
<1> SUFFICES ASSUME Safe, [Next]_vars PROVE ServerPlace'
  OBVIOUS
<1>0. TypeOK /\ PcOK /\ ServerPlace
  BY Parts DEF Safe, Placed
<1> USE Ranges
<1>1. ASSUME NEW t \in Requesters, NEW r, NEW to, Request(t, r, to) PROVE ServerPlace'
  BY <1>0, <1>1 DEF PcOK, ServerPlace, Request
<1>2. ASSUME NEW t \in Requesters, NEW r, NEW to, Waiting(t, r, to) PROVE ServerPlace'
  BY <1>0, <1>2 DEF PcOK, ServerPlace, Waiting, Go
<1>3. ASSUME NEW c \in Clients, Client(c) PROVE ServerPlace'
  <2>1. CASE ClientLeaves(c)
    BY <1>0, <2>1 DEF PcOK, ServerPlace, ClientLeaves, server
  <2> QED BY <1>1, <1>2, <1>3, <2>1 DEF Client, ClientReads, ClientHasRead, ClientWrites
<1>4. CASE ServerWaits
  BY <1>0, <1>4 DEF PcOK, ServerPlace, ServerWaits, Go, server
<1>5. CASE ServerTakes
  BY <1>0, <1>5 DEF PcOK, ServerPlace, ServerTakes, Go
<1>6. CASE ServerReads \/ ServerWrites \/ ServerQuits
  BY <1>0, <1>6 DEF PcOK, ServerPlace, ServerReads, ServerWrites, ServerQuits, Go, server
<1>7. CASE ServerFinishes
  <2>1. PICK r \in serving : ServerFinishes!(r)
    BY <1>7 DEF ServerFinishes
  <2>2. r.by \in Requesters
    BY <1>0 DEF TypeOK, Requests
  <2>3. pc'[TtyServer] \in {"gone", "lock"} /\ serving' = {} /\ running' = running
    BY <1>0, <2>1, <2>2 DEF PcOK, Go
  <2> QED BY <1>0, <2>1, <2>3 DEF ServerPlace
<1>8. CASE MainCreates
  <2>1. count < client_threads => count \in Clients
    BY <1>0, ServerAssumption DEF TypeOK
  <2> QED BY <1>0, <1>8, <2>1 DEF PcOK, ServerPlace, MainCreates, Go, server
<1>9. CASE MainJoins \/ MainQuits \/ MainReturns
  <2>1. CASE MainJoins
    BY <1>0, <2>1 DEF PcOK, ServerPlace, MainJoins, Go, server
  <2> QED BY <1>1, <1>2, <1>9, <2>1 DEF MainQuits, MainReturns
<1>10. ASSUME NEW t \in DOMAIN pc, SpuriousWakeup(t) PROVE ServerPlace'
  BY <1>0, <1>10 DEF PcOK, ServerPlace, SpuriousWakeup, Go, server
<1>11. CASE UNCHANGED vars
  BY <1>0, <1>11 DEF ServerPlace, vars, server
<1> QED
  BY <1>3, <1>4, <1>5, <1>6, <1>7, <1>8, <1>9, <1>10, <1>11 DEF Next, Server_, Main_, Returned

LEMMA Fields ==
  ASSUME NEW c \in Clients
  PROVE  /\ Read(c).by = c /\ Read(c).operation = "read"
         /\ Write(c).by = c /\ Write(c).operation = "write"
         /\ Write(c).line = string[c] /\ Write(c).loop = loops[c]
         /\ Quit(Main).by = Main /\ Quit(Main).operation = "quit"
BY DEF Read, Write, Quit

LEMMA StepAwaited == Safe /\ [Next]_vars => Awaited'
<1> SUFFICES ASSUME Safe, [Next]_vars PROVE Awaited'
  OBVIOUS
<1>0. TypeOK /\ PcOK /\ Placed /\ Awaited
  BY Parts DEF Safe
<1>a. \A c \in Clients : Read(c).by = c /\ Read(c).operation = "read"
  BY Fields
<1>b. \A c \in Clients : Write(c).by = c /\ Write(c).operation = "write"
  BY Fields
<1>c. Quit(Main).by = Main /\ Quit(Main).operation = "quit"
  BY DEF Quit
<1> USE Ranges
<1>1. ASSUME NEW c \in Clients, ClientReads(c) PROVE Awaited'
  <2>1. /\ heap' = heap \cup {Read(c)} /\ count' = count /\ pc[c] = "read"
        /\ pc'[c] = "asleep" /\ \A t \in Requesters \ {c} : pc'[t] = pc[t]
    BY <1>0, <1>1 DEF ClientReads, Request, PcOK, clients
  <2> QED BY <1>0, <1>a, <1>b, <1>c, <2>1 DEF Awaited
<1>2. ASSUME NEW c \in Clients, ClientHasRead(c) PROVE Awaited'
  <2>1. /\ count' = count /\ \A t \in Requesters \ {c} : pc'[t] = pc[t]
        /\ pc[c] = "woken"
    BY <1>0, <1>2 DEF ClientHasRead, Waiting, Go, PcOK
  <2>2. \/ heap' = heap /\ pc'[c] = "asleep"
        \/ heap' = heap \ {Read(c)} /\ pc'[c] \in {"leave", "write"}
    BY <1>0, <1>2 DEF ClientHasRead, Waiting, Go, PcOK
  <2> QED BY <1>0, <1>a, <1>b, <1>c, <2>1, <2>2 DEF Awaited
<1>3. ASSUME NEW c \in Clients, ClientWrites(c) PROVE Awaited'
  <2>1. /\ heap' = heap \cup {Write(c)} /\ count' = count /\ pc[c] = "write"
        /\ pc'[c] \in {"write", "read"} /\ \A t \in Requesters \ {c} : pc'[t] = pc[t]
    BY <1>0, <1>3 DEF ClientWrites, Request, PcOK
  <2> QED BY <1>0, <1>a, <1>b, <1>c, <2>1 DEF Awaited
<1>4. ASSUME NEW c \in Clients, ClientLeaves(c) PROVE Awaited'
  <2>1. /\ heap' = heap /\ count' = count /\ pc[c] = "leave" /\ pc'[c] = "gone"
        /\ \A d \in Clients \ {c} : pc'[d] = pc[d]
        /\ pc'[Main] = pc[Main] \/ (pc[Main] = "wait" /\ pc'[Main] = "join")
    BY <1>0, <1>4 DEF ClientLeaves, server, PcOK
  <2> QED BY <1>0, <2>1 DEF Awaited
<1>5. CASE ServerWaits \/ ServerTakes \/ ServerReads \/ ServerWrites \/ ServerQuits
  <2>1. /\ heap' = heap /\ count' = count /\ \A t \in Requesters : pc'[t] = pc[t]
    BY <1>0, <1>5
       DEF ServerWaits, ServerTakes, ServerReads, ServerWrites, ServerQuits, Go, server, clients,
           PcOK
  <2> QED BY <1>0, <2>1 DEF Awaited
<1>6. CASE ServerFinishes
  <2>1. PICK r \in serving : ServerFinishes!(r)
    BY <1>6 DEF ServerFinishes
  <2>2. r.by \in Requesters /\ r.operation \in {"read", "write", "quit"}
    BY <1>0 DEF TypeOK, Requests
  <2>3. \A t \in Requesters : pc'[t] = pc[t] \/ (pc[t] = "asleep" /\ pc'[t] = "woken")
    BY <1>0, <2>1, <2>2 DEF PcOK, Go
  <2>4. count' = count /\ (heap' = heap \/ (heap' = heap \ {r} /\ r.operation = "write"))
    BY <2>1, <2>2 DEF Sync, clients
  <2> QED BY <1>0, <1>a, <1>c, <2>3, <2>4 DEF Awaited
<1>7. CASE MainCreates
  <2>1. count < client_threads => count \in Clients
    BY <1>0, ServerAssumption DEF TypeOK
  <2>2. CASE count < client_threads
    <3>1. /\ heap' = heap /\ count' = count + 1 /\ pc'[count] = "read" /\ pc[count] = "none"
          /\ \A t \in Requesters \ {count} : pc'[t] = pc[t]
      BY <1>0, <1>7, <2>1, <2>2 DEF MainCreates, server, PcOK, TypeOK, Awaited
    <3>2. count \in Int /\ \A c \in Clients : c >= count + 1 => c >= count /\ c # count
      BY <1>0 DEF TypeOK
    <3> QED BY <1>0, <2>1, <2>2, <3>1, <3>2 DEF Awaited
  <2>3. CASE ~(count < client_threads)
    <3>1. /\ heap' = heap /\ count' = count /\ pc[Main] = "create" /\ pc'[Main] = "join"
          /\ \A t \in Clients : pc'[t] = pc[t]
      BY <1>0, <1>7, <2>3 DEF MainCreates, Go, server, PcOK
    <3> QED BY <1>0, <3>1 DEF Awaited
  <2> QED BY <2>2, <2>3
<1>8. CASE MainJoins
  <2>1. /\ heap' = heap /\ count' = count /\ \A t \in Clients : pc'[t] = pc[t]
        /\ pc[Main] = "join" /\ pc'[Main] \in {"wait", "quit"}
    BY <1>0, <1>8 DEF MainJoins, Go, server, clients, PcOK
  <2> QED BY <1>0, <2>1 DEF Awaited
<1>9. CASE MainQuits
  <2>1. /\ heap' = heap \cup {Quit(Main)} /\ count' = count
        /\ pc'[Main] = "asleep" /\ \A t \in Clients : pc'[t] = pc[t]
    BY <1>0, <1>9 DEF MainQuits, Request, clients, PcOK
  <2> QED BY <1>0, <1>a, <1>c, <2>1 DEF Awaited
<1>10. CASE MainReturns
  <2>1. /\ count' = count /\ pc[Main] = "woken" /\ \A t \in Clients : pc'[t] = pc[t]
        /\ \/ heap' = heap /\ pc'[Main] = "asleep"
           \/ heap' = heap \ {Quit(Main)} /\ pc'[Main] = "returned"
    BY <1>0, <1>10 DEF MainReturns, Waiting, Go, clients, PcOK
  <2> QED BY <1>0, <1>a, <1>c, <2>1 DEF Awaited
<1>11. ASSUME NEW t \in DOMAIN pc, SpuriousWakeup(t) PROVE Awaited'
  <2>1. heap' = heap /\ count' = count /\ DOMAIN pc = Requesters \cup {TtyServer}
    BY <1>0, <1>11 DEF SpuriousWakeup, server, clients, PcOK
  <2>2. \A d \in Clients : pc'[d] = pc[d] \/ (pc[d] = "asleep" /\ pc'[d] = "woken")
    BY <1>0, <1>11, <2>1 DEF SpuriousWakeup, Go, PcOK
  <2>3. \/ pc'[Main] = pc[Main] \/ (pc[Main] = "asleep" /\ pc'[Main] = "woken")
        \/ pc[Main] = "wait" /\ pc'[Main] = "join"
    BY <1>0, <1>11, <2>1 DEF SpuriousWakeup, Go, PcOK
  <2> QED BY <1>0, <2>1, <2>2, <2>3 DEF Awaited
<1>12. CASE UNCHANGED vars
  BY <1>0, <1>12 DEF Awaited, vars, server, clients
<1> QED
  BY <1>1, <1>2, <1>3, <1>4, <1>5, <1>6, <1>7, <1>8, <1>9, <1>10, <1>11, <1>12
     DEF Next, Client, Server_, Main_, Returned

(* Nothing that Fresh is about changes, or only for the better.            *)
LEMMA FreshStays ==
  ASSUME Safe, heap' \subseteq heap, UNCHANGED <<string, loops, text, typed>>,
         \A c \in Clients :
           \/ pc'[c] = pc[c]
           \/ pc'[c] = "gone"
           \/ pc[c] \in {"asleep", "woken"} /\ pc'[c] \in {"asleep", "woken"}
           \/ pc[c] = "none" /\ pc'[c] = "read"
  PROVE  Fresh'
<1>1. \A r \in heap : r.operation = "write" => r.by \in Clients
  BY DEF Safe, Awaited
<1> QED BY <1>1 DEF Safe, Fresh, WriteFresh

LEMMA StepFresh == Safe /\ [Next]_vars => Fresh'
<1> SUFFICES ASSUME Safe, [Next]_vars PROVE Fresh'
  OBVIOUS
<1>0. TypeOK /\ PcOK /\ Placed /\ Awaited /\ Fresh
  BY Parts DEF Safe
<1>a. \A c \in Clients : string[c] \in Nat /\ text[c] \in Nat /\ loops[c] \in Int /\ typed \in Nat
  BY <1>0, Ranges, ServerAssumption DEF TypeOK
<1>b. \A r \in heap : /\ r.operation = "write" => r.by \in Clients
                      /\ r.line \in Nat /\ r.loop \in Nat
  BY <1>0 DEF Awaited, TypeOK, Requests
<1> USE Ranges
<1>1. ASSUME NEW c \in Clients, ClientReads(c) PROVE Fresh'
  <2>1. /\ heap' = heap \cup {Read(c)} /\ UNCHANGED <<string, loops, typed>>
        /\ text' = [text EXCEPT ![c] = 0] /\ text'[c] = 0
        /\ \A d \in Clients \ {c} : text'[d] = text[d]
        /\ pc'[c] = "asleep" /\ \A d \in Clients \ {c} : pc'[d] = pc[d]
    BY <1>0, <1>1 DEF ClientReads, Request, PcOK, TypeOK, clients
  <2>2. \A d \in Clients : string'[d] <= typed' /\ text'[d] <= typed'
    BY <1>0, <1>a, <2>1 DEF Fresh
  <2>3. \A d \in Clients : pc'[d] \in {"asleep", "woken"} => text'[d] = 0 \/ string'[d] < text'[d]
    BY <1>0, <2>1 DEF Fresh
  <2>4. ASSUME NEW r \in heap', r.operation = "write"
        PROVE  WriteFresh(r)'
    <3>1. r \in heap
      BY <2>1, <2>4, Fields
    <3>2. WriteFresh(r) /\ r.by \in Clients
      BY <1>0, <1>b, <2>4, <3>1 DEF Fresh
    <3>3. pc[c] = "read"
      BY <1>1 DEF ClientReads
    <3> QED BY <2>1, <3>2, <3>3 DEF WriteFresh
  <2> QED BY <2>2, <2>3, <2>4 DEF Fresh
<1>2. ASSUME NEW c \in Clients, ClientHasRead(c) PROVE Fresh'
  <2>1. \A d \in Clients \ {c} : pc'[d] = pc[d]
    BY <1>0, <1>2 DEF ClientHasRead, Waiting, Go, PcOK
  <2>2. pc[c] = "woken" /\ heap' \subseteq heap /\ UNCHANGED <<text, loops, typed>>
    BY <1>2 DEF ClientHasRead, Waiting, Go
  <2>3. CASE Read(c) \notin done_flag
    <3>1. string' = string /\ pc'[c] = "asleep"
      BY <1>0, <1>2, <2>3 DEF ClientHasRead, Waiting, Go, PcOK
    <3> QED BY <2>1, <2>2, <3>1, FreshStays
  <2>4. CASE Read(c) \in done_flag
    <3>1. /\ string'[c] = text[c] /\ \A d \in Clients \ {c} : string'[d] = string[d]
          /\ pc'[c] = IF text[c] = 0 THEN "leave" ELSE "write"
      BY <1>0, <1>2, <2>4 DEF ClientHasRead, Waiting, Go, PcOK, TypeOK
    <3>2. text[c] = 0 \/ string[c] < text[c]
      BY <1>0, <2>2 DEF Fresh
    <3>3. \A d \in Clients : string'[d] <= typed' /\ text'[d] <= typed'
      BY <1>0, <1>a, <2>2, <3>1 DEF Fresh
    <3>4. \A d \in Clients : pc'[d] \in {"asleep", "woken"} => text'[d] = 0 \/ string'[d] < text'[d]
      BY <1>0, <2>1, <2>2, <3>1 DEF Fresh
    <3>5. ASSUME NEW r \in heap', r.operation = "write"
          PROVE  WriteFresh(r)'
      <4>1. r \in heap /\ WriteFresh(r) /\ r.by \in Clients
        BY <1>0, <1>b, <2>2, <3>5 DEF Fresh
      <4>2. CASE r.by = c
        <5>1. text[c] # 0 => r.line <= string[c] /\ string[c] < text[c]
          BY <2>2, <3>2, <4>1, <4>2 DEF WriteFresh
        <5>2. text[c] # 0 => r.line < text[c]
          BY <1>a, <1>b, <4>1, <5>1
        <5> QED BY <1>a, <1>b, <3>1, <4>1, <4>2, <5>2 DEF WriteFresh
      <4>3. CASE r.by # c
        BY <2>1, <2>2, <3>1, <4>1, <4>3 DEF WriteFresh
      <4> QED BY <4>2, <4>3
    <3> QED BY <3>3, <3>4, <3>5 DEF Fresh
  <2> QED BY <2>3, <2>4
<1>3. ASSUME NEW c \in Clients, ClientWrites(c) PROVE Fresh'
  <2>1. /\ heap' = heap \cup {Write(c)} /\ UNCHANGED <<string, text, typed>>
        /\ \A d \in Clients \ {c} : pc'[d] = pc[d] /\ loops'[d] = loops[d]
        /\ pc[c] = "write" /\ pc'[c] \in {"write", "read"}
    BY <1>0, <1>3 DEF ClientWrites, Request, PcOK, TypeOK
  <2>2. pc'[c] = "write" => loops'[c] = loops[c] + 1
    <3>1. pc'[c] = "write" => loops[c] + 1 < Writes
      BY <1>0, <1>3 DEF ClientWrites, Request, PcOK, TypeOK
    <3>2. loops[c] \in 0 .. Writes - 1 /\ Writes \in Nat \ {0}
      BY <1>0, ServerAssumption DEF TypeOK
    <3>3. loops[c] + 1 < Writes => (loops[c] + 1) % Writes = loops[c] + 1
      BY <3>2
    <3>4. loops'[c] = (loops[c] + 1) % Writes
      BY <1>0, <1>3 DEF ClientWrites, TypeOK
    <3> QED BY <3>1, <3>3, <3>4
  <2>3. Write(c).by = c /\ Write(c).line = string[c] /\ Write(c).loop = loops[c]
    BY Fields
  <2>4. \A d \in Clients : string'[d] <= typed' /\ text'[d] <= typed'
    BY <1>0, <2>1 DEF Fresh
  <2>5. \A d \in Clients : pc'[d] \in {"asleep", "woken"} => text'[d] = 0 \/ string'[d] < text'[d]
    BY <1>0, <2>1 DEF Fresh
  <2>6. ASSUME NEW r \in heap', r.operation = "write"
        PROVE  WriteFresh(r)'
    <3>1. CASE r = Write(c)
      BY <1>a, <2>1, <2>2, <2>3, <3>1 DEF WriteFresh
    <3>2. CASE r \in heap /\ r.by = c
      BY <1>0, <1>a, <1>b, <2>1, <2>2, <2>6, <3>2 DEF Fresh, WriteFresh
    <3>3. CASE r \in heap /\ r.by # c
      BY <1>0, <1>b, <2>1, <2>6, <3>3 DEF Fresh, WriteFresh
    <3> QED BY <2>1, <3>1, <3>2, <3>3
  <2> QED BY <2>4, <2>5, <2>6 DEF Fresh
<1>4. ASSUME NEW c \in Clients, ClientLeaves(c) PROVE Fresh'
  <2>1. heap' = heap /\ UNCHANGED <<string, loops, text, typed>>
    BY <1>4 DEF ClientLeaves, server
  <2>2. pc'[c] = "gone" /\ \A d \in Clients \ {c} : pc'[d] = pc[d]
    BY <1>0, <1>4 DEF ClientLeaves, PcOK
  <2> QED BY <2>1, <2>2, FreshStays
<1>5. CASE ServerWaits \/ ServerTakes \/ ServerWrites \/ ServerQuits
  <2>1. /\ heap' = heap /\ UNCHANGED <<string, loops, text, typed>>
        /\ \A c \in Clients : pc'[c] = pc[c]
    BY <1>0, <1>5 DEF ServerWaits, ServerTakes, ServerWrites, ServerQuits, Go, server, clients, PcOK
  <2> QED BY <2>1, FreshStays
<1>6. CASE ServerReads
  <2>1. PICK r \in serving : ServerReads!(r)
    BY <1>6 DEF ServerReads
  <2>2. /\ heap' = heap /\ UNCHANGED <<string, loops>> /\ \A c \in Clients : pc'[c] = pc[c]
    BY <1>0, <2>1 DEF Go, clients, PcOK
  <2>3. CASE UNCHANGED <<text, typed>>
    BY <2>2, <2>3, FreshStays
  <2>4. CASE typed' = typed + 1 /\ text' = [text EXCEPT ![r.by] = typed']
    <3>1. r.by \in Requesters
      BY <1>0 DEF TypeOK, Requests
    <3>2. \A c \in Clients : text'[c] = IF c = r.by THEN typed + 1 ELSE text[c]
      BY <1>0, <2>4, <3>1 DEF TypeOK
    <3>3. \A c \in Clients : string'[c] <= typed' /\ text'[c] <= typed'
      BY <1>0, <1>a, <2>2, <2>4, <3>2 DEF Fresh
    <3>4. \A c \in Clients : pc'[c] \in {"asleep", "woken"} => text'[c] = 0 \/ string'[c] < text'[c]
      BY <1>0, <1>a, <2>2, <3>2 DEF Fresh
    <3>5. \A q \in heap' : q.operation = "write" => WriteFresh(q)'
      BY <1>0, <1>b, <2>2 DEF Fresh, WriteFresh
    <3> QED BY <3>3, <3>4, <3>5 DEF Fresh
  <2> QED BY <2>1, <2>3, <2>4
<1>7. CASE ServerFinishes
  <2>1. PICK r \in serving : ServerFinishes!(r)
    BY <1>7 DEF ServerFinishes
  <2>2. r.by \in Requesters
    BY <1>0 DEF TypeOK, Requests
  <2>3. \A t \in Requesters : pc'[t] = pc[t] \/ (pc[t] = "asleep" /\ pc'[t] = "woken")
    BY <1>0, <2>1, <2>2 DEF PcOK, Go
  <2>4. heap' \subseteq heap /\ UNCHANGED <<string, loops, text, typed>>
    BY <2>1 DEF clients
  <2> QED BY <2>3, <2>4, FreshStays
<1>8. CASE MainCreates \/ MainJoins
  <2>1. heap' = heap /\ UNCHANGED <<string, loops, text, typed>>
    BY <1>8 DEF MainCreates, MainJoins, server, clients
  <2>2. count < client_threads => count \in Clients /\ pc[count] = "none"
    BY <1>0, ServerAssumption DEF TypeOK, Awaited
  <2>3. \A c \in Clients : pc'[c] = pc[c] \/ (pc[c] = "none" /\ pc'[c] = "read")
    BY <1>0, <1>8, <2>2 DEF MainCreates, MainJoins, Go, PcOK
  <2> QED BY <2>1, <2>3, FreshStays
<1>9. CASE MainQuits
  <2>1. /\ heap' = heap \cup {Quit(Main)} /\ UNCHANGED <<string, loops, text, typed>>
        /\ \A c \in Clients : pc'[c] = pc[c]
    BY <1>0, <1>9 DEF MainQuits, Request, clients, PcOK
  <2>2. Quit(Main).operation = "quit"
    BY DEF Quit
  <2> QED BY <1>0, <1>b, <2>1, <2>2 DEF Fresh, WriteFresh
<1>10. CASE MainReturns
  <2>1. /\ heap' \subseteq heap /\ UNCHANGED <<string, loops, text, typed>>
        /\ \A c \in Clients : pc'[c] = pc[c]
    BY <1>0, <1>10 DEF MainReturns, Waiting, Go, clients, PcOK
  <2> QED BY <2>1, FreshStays
<1>11. ASSUME NEW t \in DOMAIN pc, SpuriousWakeup(t) PROVE Fresh'
  <2>1. heap' = heap /\ UNCHANGED <<string, loops, text, typed>>
    BY <1>11 DEF SpuriousWakeup, server, clients
  <2>2. \A d \in Clients : pc'[d] = pc[d] \/ (pc[d] = "asleep" /\ pc'[d] = "woken")
    BY <1>0, <1>11 DEF SpuriousWakeup, Go, PcOK
  <2> QED BY <2>1, <2>2, FreshStays
<1>12. CASE UNCHANGED vars
  BY <1>0, <1>12 DEF Fresh, WriteFresh, vars, server, clients
<1> QED
  BY <1>1, <1>2, <1>3, <1>4, <1>5, <1>6, <1>7, <1>8, <1>9, <1>10, <1>11, <1>12
     DEF Next, Client, Server_, Main_, Returned

LEMMA StepSafe == Safe /\ [Next]_vars => Safe'
<1> SUFFICES ASSUME Safe, [Next]_vars PROVE Safe'
  OBVIOUS
<1>1. TypeOK'
  BY StepPc, StepData DEF TypeOK, PcOK, DataOK
<1>2. OnePlace'
  BY StepKinds, KindsPlace DEF KindOfStep, Safe, Placed
<1> QED BY <1>1, <1>2, StepPlace, StepAwaited, StepFresh DEF Safe, Placed

-----------------------------------------------------------------------------
(* The types of the variables (server.c:22-60), for any number of clients, *)
(* of writes and of lines.                                                 *)
THEOREM ServerTypes == Spec => []TypeOK
<1>1. Safe => TypeOK
  BY DEF Safe
<1> QED BY <1>1, InitSafe, StepSafe, PTL DEF Spec

(* A request is allocated as long as it is queued or worked on, freed by   *)
(* one side only, and a thread that waits has one that is still to be      *)
(* answered or answered (server.c:60-63, 131-134, 227).                    *)
THEOREM ServerRequestsAlive == Spec => []RequestsAlive
<1>1. Safe => RequestsAlive
  <2> SUFFICES ASSUME Safe PROVE RequestsAlive
    OBVIOUS
  <2>1. heap = Queued \cup serving \cup done_flag
    BY DEF Safe, Placed, OnePlace
  <2>2. \A n \in DOMAIN requests : requests[n] \in heap
    BY <2>1 DEF Queued, Elements
  <2>3. \A r \in heap : r \in done_flag \cup serving \/ \E n \in DOMAIN requests : requests[n] = r
    BY <2>1 DEF Queued, Elements
  <2>4. ASSUME NEW t \in Requesters
        PROVE  pc[t] \in {"asleep", "woken"} <=>
                 \E own \in heap : {r \in heap : r.by = t /\ Sync(r)} = {own}
    <3> DEFINE own == IF t = Main THEN Quit(Main) ELSE Read(t)
    <3>1. t = Main \/ t \in Clients
      BY ServerAssumption DEF Requesters
    <3>2. own.by = t /\ Sync(own)
      BY <3>1, Fields DEF Sync, Quit, Read
    <3>3. \A r \in heap : r.by = t /\ Sync(r) => r = own
      BY <3>1, Ranges, Fields DEF Safe, Awaited, Sync, Quit
    <3>4. pc[t] \in {"asleep", "woken"} <=> own \in heap
      BY <3>1, Ranges DEF Safe, Awaited
    <3> HIDE DEF own
    <3>5. own \in heap => {r \in heap : r.by = t /\ Sync(r)} = {own}
      BY <3>2, <3>3
    <3>6. own \notin heap => {r \in heap : r.by = t /\ Sync(r)} = {}
      BY <3>3
    <3> QED BY <3>4, <3>5, <3>6
  <2> QED BY <2>1, <2>2, <2>3, <2>4 DEF RequestsAlive
<1> QED BY <1>1, InitSafe, StepSafe, PTL DEF Spec
-----------------------------------------------------------------------------
(***************************************************************************)
(* The lines.  What the queue carries stays in the order it was queued in, *)
(* from there to the server and, of a write, to the output.                *)
(***************************************************************************)

(* r was queued before s: a client that reads asks for nothing else, the   *)
(* writes of a line are one client's, in the order of its loop, and main   *)
(* queues the last request of all.                                         *)
Follows(r, s) ==
  /\ r.operation = "write" /\ s.operation = "write" /\ r.line = s.line =>
       r.by = s.by /\ r.loop < s.loop
  /\ r.operation = "read" => s.by # r.by
  /\ r.operation # "quit"

InHand == IF pc[TtyServer] = "serve" THEN serving ELSE {}

Ordered ==
  /\ \A m, n \in DOMAIN requests : m < n => Follows(requests[m], requests[n])
  /\ \A r \in serving, s \in Queued : Follows(r, s)
  /\ \A r \in done_flag, s \in Queued \cup serving : Follows(r, s)
  /\ \A m, n \in DOMAIN output : m < n => Follows(output[m], output[n])
  /\ \A r \in Elements(output), s \in Queued \cup InHand : Follows(r, s)
  /\ pc[TtyServer] = "finish" => \A r \in serving : r.operation = "write" => r \in Elements(output)

OutputOK == output \in Seq({r \in Requests : r.operation = "write"})

(* The writes that were asked for, under way or done.                      *)
Issued == {r \in Elements(output) \cup heap : r.operation = "write"}

(* A write is of a line its client has read and is through with, or is at  *)
(* this round of; the rounds before it were asked for too; and the line is *)
(* no other client's.                                                      *)
WriteTraced(r) ==
  /\ r.by \in Clients /\ r.line \in 1 .. typed /\ r.loop \in 0 .. Writes - 1
  /\ pc[r.by] \notin {"leave", "gone"} => r.line <= string[r.by]
  /\ pc[r.by] = "write" /\ r.line = string[r.by] => r.loop < loops[r.by]
  /\ \A loop \in 0 .. r.loop - 1 : WriteOf(r.by, loop, r.line) \in Issued
  /\ \A d \in Clients \ {r.by} : string[d] # r.line /\ text[d] # r.line

Traced == \A r \in Issued : WriteTraced(r)

(* No two clients have the same line.                                      *)
Apart ==
  \A c \in Clients :
    /\ \A d \in Clients \ {c} :
         /\ string[c] # 0 => string[c] # string[d] /\ string[c] # text[d]
         /\ text[c] # 0 => text[c] # text[d]
    /\ pc[c] = "write" => string[c] # 0
    /\ pc[c] # "write" => loops[c] = 0

AllIssued(c, line) == \A loop \in 0 .. Writes - 1 : WriteOf(c, loop, line) \in Issued

(* The rounds a client has made with its line.                             *)
Made(c) == IF pc[c] = "write" THEN loops[c] ELSE Writes

(* Every line is with a client, still to be picked up or in its loop, or   *)
(* was written as often as it should be.                                   *)
Complete ==
  /\ \A c \in Clients : string[c] # 0 =>
       \A loop \in 0 .. Made(c) - 1 : WriteOf(c, loop, string[c]) \in Issued
  /\ \A line \in 1 .. typed : \E c \in Clients :
       \/ pc[c] \in {"asleep", "woken"} /\ text[c] = line
       \/ string[c] = line
       \/ AllIssued(c, line)
  /\ \A c \in Clients : Read(c) \in Queued \cup InHand => text[c] = 0

Gone == {c \in Clients : pc[c] = "gone"}

(* client_threads counts the clients that are not gone, and main asks the  *)
(* server to end when all are.                                             *)
Leaving ==
  /\ client_threads = CLIENT_THREADS - Cardinality(Gone)
  /\ pc[Main] \in {"quit", "asleep", "woken", "returned"} => Gone = Clients
  /\ pc[Main] = "returned" => heap = {}

Echoing == OutputOK /\ Ordered /\ Traced /\ Apart /\ Complete /\ Leaving

(* What the steps do to the requests, the server's place and the output.   *)
SamePlace ==
  /\ pc[TtyServer] = "serve" <=> pc'[TtyServer] = "serve"
  /\ pc[TtyServer] = "finish" <=> pc'[TtyServer] = "finish"

Comes(r) ==
  /\ Queues(r) /\ SamePlace /\ UNCHANGED output
  /\ \/ \E c \in Clients : pc[c] = "read" /\ r = Read(c) /\ text'[c] = 0
     \/ \E c \in Clients : pc[c] = "write" /\ r = Write(c)
     \/ pc[Main] = "quit" /\ r = Quit(Main)

Works(r) ==
  /\ Kept /\ r \in serving
  /\ pc[TtyServer] = "serve" /\ pc'[TtyServer] = "finish"
  /\ output' = IF r.operation = "write" THEN Append(output, r) ELSE output

Ends(r) ==
  /\ Finishes(r) /\ UNCHANGED output
  /\ pc[TtyServer] = "finish" /\ pc'[TtyServer] \in {"lock", "gone"}

EchoKinds ==
  \/ \E r \in Requests : Comes(r)
  \/ \E r \in Requests : Works(r)
  \/ \E r \in Requests : Ends(r)
  \/ \E r \in Requests : Frees(r) /\ SamePlace /\ UNCHANGED output
  \/ Takes /\ pc'[TtyServer] = "serve" /\ UNCHANGED output
  \/ Kept /\ SamePlace /\ UNCHANGED output

LEMMA RequestPlace ==
  ASSUME PcOK, ServerPlace, NEW t \in Requesters, NEW r, NEW to \in {"asleep", "read", "write"},
         Request(t, r, to)
  PROVE  SamePlace
BY Ranges DEF PcOK, ServerPlace, Request, SamePlace

LEMMA StepEchoKinds == Safe /\ [Next]_vars => EchoKinds
<1> SUFFICES ASSUME Safe, [Next]_vars PROVE EchoKinds
  OBVIOUS
<1>0. TypeOK /\ PcOK /\ Placed /\ ServerPlace
  BY Parts DEF Safe, Placed
<1> USE Ranges
<1>1. ASSUME NEW c \in Clients, ClientReads(c) PROVE EchoKinds
  <2>1. Queues(Read(c)) /\ Read(c) \in Requests
    BY <1>0, <1>1, RequestTypes, NewRequests DEF Queues, ClientReads, Request
  <2>2. SamePlace /\ UNCHANGED output /\ pc[c] = "read" /\ text'[c] = 0
    BY <1>0, <1>1, RequestPlace DEF ClientReads, TypeOK
  <2>3. Comes(Read(c))
    BY <2>1, <2>2 DEF Comes
  <2> QED BY <2>1, <2>3 DEF EchoKinds
<1>2. ASSUME NEW c \in Clients, ClientHasRead(c) PROVE EchoKinds
  <2>1. Frees(Read(c)) \/ Kept
    BY <1>2 DEF Frees, Kept, ClientHasRead, Waiting
  <2>2. SamePlace /\ UNCHANGED output
    BY <1>0, <1>2 DEF ClientHasRead, Waiting, Go, SamePlace, PcOK
  <2> QED BY <1>0, <2>1, <2>2, RequestTypes DEF EchoKinds
<1>3. ASSUME NEW c \in Clients, ClientWrites(c) PROVE EchoKinds
  <2>1. Queues(Write(c)) /\ Write(c) \in Requests
    BY <1>0, <1>3, RequestTypes, NewRequests DEF Queues, ClientWrites, Request
  <2>2. SamePlace /\ UNCHANGED output /\ pc[c] = "write"
    BY <1>0, <1>3, RequestPlace DEF ClientWrites
  <2>3. Comes(Write(c))
    BY <2>1, <2>2 DEF Comes
  <2> QED BY <2>1, <2>3 DEF EchoKinds
<1>4. ASSUME NEW c \in Clients, ClientLeaves(c) PROVE EchoKinds
  BY <1>0, <1>4 DEF ClientLeaves, server, EchoKinds, Kept, SamePlace, PcOK
<1>5. CASE ServerWaits
  BY <1>0, <1>5 DEF ServerWaits, server, EchoKinds, Kept, SamePlace, Go, PcOK
<1>6. CASE ServerTakes
  BY <1>0, <1>6 DEF ServerTakes, Go, Placed, ServerPlace, Takes, EchoKinds, PcOK
<1>7. CASE ServerReads \/ ServerWrites \/ ServerQuits
  <2>1. PICK r \in serving : Works(r)
    BY <1>0, <1>7 DEF ServerReads, ServerWrites, ServerQuits, server, Kept, Works, Go, PcOK
  <2> QED BY <1>0, <2>1 DEF TypeOK, EchoKinds
<1>8. CASE ServerFinishes
  <2>1. PICK r \in serving : ServerFinishes!(r)
    BY <1>8 DEF ServerFinishes
  <2>2. Finishes(r) /\ r \in Requests /\ r.by \in Requesters
    BY <1>0, <2>1 DEF Finishes, TypeOK, Requests
  <2>3. Ends(r)
    BY <1>0, <2>1, <2>2 DEF Ends, Go, PcOK
  <2> QED BY <2>2, <2>3 DEF EchoKinds
<1>9. CASE MainCreates
  <2>1. count < client_threads => count \in Clients
    BY <1>0, ServerAssumption DEF TypeOK
  <2> QED BY <1>0, <1>9, <2>1 DEF MainCreates, server, EchoKinds, Kept, SamePlace, Go, PcOK
<1>10. CASE MainJoins
  BY <1>0, <1>10 DEF MainJoins, server, EchoKinds, Kept, SamePlace, Go, PcOK
<1>11. CASE MainQuits
  <2>1. Quit(Main) \in Requests
    BY DEF Quit, Requests
  <2>2. Queues(Quit(Main))
    BY <1>0, <1>11, <2>1, NewRequests DEF Queues, MainQuits, Request
  <2>3. SamePlace /\ UNCHANGED output /\ pc[Main] = "quit"
    BY <1>0, <1>11, RequestPlace DEF MainQuits
  <2>4. Comes(Quit(Main))
    BY <2>2, <2>3 DEF Comes
  <2> QED BY <2>1, <2>4 DEF EchoKinds
<1>12. CASE MainReturns
  <2>1. Frees(Quit(Main)) \/ Kept
    BY <1>12 DEF Frees, Kept, MainReturns, Waiting
  <2>2. SamePlace /\ UNCHANGED output
    BY <1>0, <1>12 DEF MainReturns, Waiting, Go, SamePlace, PcOK
  <2>3. Quit(Main) \in Requests
    BY DEF Quit, Requests
  <2> QED BY <2>1, <2>2, <2>3 DEF EchoKinds
<1>13. ASSUME NEW t \in DOMAIN pc, SpuriousWakeup(t) PROVE EchoKinds
  BY <1>0, <1>13 DEF SpuriousWakeup, server, EchoKinds, Kept, SamePlace, Go, PcOK
<1>14. CASE UNCHANGED vars
  BY <1>14 DEF vars, server, EchoKinds, Kept, SamePlace
<1> QED
  BY <1>1, <1>2, <1>3, <1>4, <1>5, <1>6, <1>7, <1>8, <1>9, <1>10, <1>11, <1>12, <1>13, <1>14
     DEF Next, Client, Server_, Main_, Returned
LEMMA AppendAt ==
  ASSUME NEW S, NEW q \in Seq(S), NEW r \in S
  PROVE  /\ Append(q, r) \in Seq(S)
         /\ DOMAIN q \subseteq DOMAIN Append(q, r)
         /\ \A m, n \in DOMAIN Append(q, r) : m < n =>
              /\ m \in DOMAIN q /\ Append(q, r)[m] = q[m]
              /\ \/ n \in DOMAIN q /\ Append(q, r)[n] = q[n]
                 \/ n \notin DOMAIN q /\ Append(q, r)[n] = r
         /\ Elements(Append(q, r)) = Elements(q) \cup {r}
<1>1. /\ DOMAIN q = 1 .. Len(q) /\ DOMAIN Append(q, r) = 1 .. Len(q) + 1 /\ Len(q) \in Nat
      /\ Append(q, r)[Len(q) + 1] = r
      /\ \A n \in 1 .. Len(q) : Append(q, r)[n] = q[n]
  OBVIOUS
<1> QED BY <1>1, AppendElements

LEMMA TailAt ==
  ASSUME NEW S, NEW q \in Seq(S), q # <<>>
  PROVE  /\ \A m, n \in DOMAIN Tail(q) : m < n =>
              /\ m + 1 \in DOMAIN q /\ n + 1 \in DOMAIN q /\ m + 1 < n + 1
              /\ Tail(q)[m] = q[m + 1] /\ Tail(q)[n] = q[n + 1]
         /\ \A s \in Elements(Tail(q)) : \E n \in DOMAIN q : 1 < n /\ s = q[n]
         /\ 1 \in DOMAIN q /\ Head(q) = q[1] /\ Elements(Tail(q)) \subseteq Elements(q)
<1>1. /\ DOMAIN q = 1 .. Len(q) /\ DOMAIN Tail(q) = 1 .. Len(q) - 1
      /\ Len(q) \in Nat \ {0} /\ Head(q) = q[1]
      /\ \A n \in 1 .. Len(q) - 1 : Tail(q)[n] = q[n + 1]
  OBVIOUS
<1>2. ASSUME NEW s \in Elements(Tail(q)) PROVE \E n \in DOMAIN q : 1 < n /\ s = q[n]
  <2>1. PICK n \in 1 .. Len(q) - 1 : s = q[n + 1]
    BY <1>1 DEF Elements
  <2>2. n + 1 \in DOMAIN q /\ 1 < n + 1
    BY <1>1
  <2> QED BY <2>1, <2>2
<1>3. \A s \in Elements(Tail(q)) : s \in Elements(q)
  BY <1>2 DEF Elements
<1> QED BY <1>1, <1>2, <1>3

(* What is asked for comes after all that was asked for before.            *)
LEMMA ComesLast ==
  ASSUME Safe, OutputOK, Traced, Leaving, NEW r \in Requests, Comes(r),
         NEW s \in Elements(output) \cup heap
  PROVE  Follows(s, r)
<1> USE Ranges
<1>1. /\ s \in Requests /\ (s \notin heap => s.operation = "write")
  BY DEF Elements, OutputOK, Safe, TypeOK
<1>2. \/ \E c \in Clients : pc[c] = "read" /\ r = Read(c)
      \/ \E c \in Clients : pc[c] = "write" /\ r = Write(c)
      \/ pc[Main] = "quit" /\ r = Quit(Main)
  BY DEF Comes
<1>3. ASSUME s.operation = "write", r.operation = "write", s.line = r.line
      PROVE  s.by = r.by /\ s.loop < r.loop
  <2>1. PICK c \in Clients : pc[c] = "write" /\ r = Write(c)
    BY <1>2, <1>3, Fields DEF Quit
  <2>2. r.by = c /\ r.line = string[c] /\ r.loop = loops[c]
    BY <2>1, Fields
  <2>3. WriteTraced(s)
    BY <1>3 DEF Traced, Issued
  <2> QED BY <1>3, <2>1, <2>2, <2>3 DEF WriteTraced
<1>4. ASSUME s.operation = "read" PROVE r.by # s.by
  <2>1. s \in heap /\ s.by \in Clients /\ s = Read(s.by)
    BY <1>1, <1>4 DEF Safe, Awaited, Quit
  <2>2. pc[s.by] \in {"asleep", "woken"}
    BY <2>1 DEF Safe, Awaited
  <2>3. \A c \in Clients : Read(c).by = c /\ Write(c).by = c
    BY Fields
  <2> QED BY <1>2, <2>1, <2>2, <2>3 DEF Quit
<1>5. ASSUME s.operation = "quit" PROVE FALSE
  <2>1. s \in heap /\ s = Quit(Main)
    BY <1>1, <1>5 DEF Safe, Awaited
  <2>2. pc[Main] \in {"asleep", "woken"}
    BY <2>1 DEF Safe, Awaited
  <2>3. \A c \in Clients : pc[c] = "gone"
    BY <2>2 DEF Leaving, Gone
  <2> QED BY <1>2, <2>2, <2>3
<1> QED BY <1>3, <1>4, <1>5 DEF Follows

LEMMA StepOrdered ==
  ASSUME Safe, OutputOK, Ordered, Traced, Leaving, EchoKinds
  PROVE  OutputOK' /\ Ordered'
<1> DEFINE Outputs == {r \in Requests : r.operation = "write"}
<1>0. /\ requests \in Seq(Requests) /\ output \in Seq(Outputs)
      /\ heap = Queued \cup serving \cup done_flag /\ \A r, s \in serving : r = s
  BY DEF Safe, TypeOK, OutputOK, Placed, OnePlace
<1>1. ASSUME NEW r \in Requests, Comes(r) PROVE OutputOK' /\ Ordered'
  <2>1. /\ requests' = Append(requests, r)
        /\ UNCHANGED <<output, done_flag, serving>> /\ SamePlace
    BY <1>1 DEF Comes, Queues
  <2>2. \A s \in Elements(output) \cup heap : Follows(s, r)
    BY <1>1, ComesLast
  <2>3. Queued' = Queued \cup {r} /\ InHand' = InHand /\ InHand \subseteq serving
    BY <1>0, <2>1, AppendAt DEF Queued, InHand, SamePlace
  <2>4. \A n \in DOMAIN requests : Follows(requests[n], r)
    BY <1>0, <2>2 DEF Queued, Elements
  <2>5. \A m, n \in DOMAIN requests' : m < n => Follows(requests'[m], requests'[n])
    BY <1>0, <2>1, <2>4, AppendAt DEF Ordered
  <2> QED BY <1>0, <2>1, <2>2, <2>3, <2>5 DEF Ordered, OutputOK, SamePlace
<1>2. ASSUME NEW r \in Requests, Works(r) PROVE OutputOK' /\ Ordered'
  <2>1. /\ UNCHANGED <<requests, done_flag, serving>> /\ Queued' = Queued
        /\ r \in serving /\ InHand = serving /\ InHand' = {} /\ serving = {r}
    BY <1>0, <1>2 DEF Works, Kept, Queued, InHand
  <2>2. CASE r.operation = "write"
    <3>1. output' = Append(output, r) /\ r \in Outputs
      BY <1>2, <2>2 DEF Works
    <3>2. Elements(output') = Elements(output) \cup {r} /\ output' \in Seq(Outputs)
      BY <1>0, <3>1, AppendAt
    <3>3. \A m \in DOMAIN output : Follows(output[m], r)
      BY <2>1 DEF Ordered, Elements
    <3>4. \A m, n \in DOMAIN output' : m < n => Follows(output'[m], output'[n])
      BY <1>0, <3>1, <3>3, AppendAt DEF Ordered
    <3>5. \A s \in Elements(output') : \A q \in Queued : Follows(s, q)
      BY <2>1, <3>2 DEF Ordered
    <3> QED BY <2>1, <3>2, <3>4, <3>5 DEF Ordered, OutputOK
  <2>3. CASE r.operation # "write"
    <3>1. output' = output
      BY <1>2, <2>3 DEF Works
    <3> QED BY <2>1, <2>3, <3>1 DEF Ordered, OutputOK
  <2> QED BY <2>2, <2>3
<1>3. ASSUME NEW r \in Requests, Ends(r) PROVE OutputOK' /\ Ordered'
  <2>1. /\ UNCHANGED <<requests, output>> /\ Queued' = Queued
        /\ serving' = {} /\ InHand' = {} /\ InHand = {}
        /\ done_flag' \subseteq done_flag \cup {r} /\ r \in serving
    BY <1>3 DEF Ends, Finishes, Queued, InHand
  <2> QED BY <2>1 DEF Ordered, OutputOK
<1>4. ASSUME NEW r \in Requests, Frees(r), SamePlace, UNCHANGED output
      PROVE  OutputOK' /\ Ordered'
  <2>1. /\ UNCHANGED <<requests, output, serving>> /\ Queued' = Queued
        /\ InHand' = InHand /\ done_flag' \subseteq done_flag
    BY <1>4 DEF Frees, Queued, InHand, SamePlace
  <2> QED BY <1>4, <2>1 DEF Ordered, OutputOK, SamePlace
<1>5. ASSUME Takes, pc'[TtyServer] = "serve", UNCHANGED output
      PROVE  OutputOK' /\ Ordered'
  <2>1. /\ UNCHANGED done_flag /\ serving' = {Head(requests)} /\ InHand' = {Head(requests)}
        /\ Queued' \subseteq Queued /\ Head(requests) \in Queued
        /\ \A s \in Queued' : Follows(Head(requests), s)
        /\ \A m, n \in DOMAIN requests' : m < n => Follows(requests'[m], requests'[n])
    BY <1>0, <1>5, TailAt DEF Takes, Ordered, Queued, Elements, InHand
  <2> QED BY <1>5, <2>1 DEF Ordered, OutputOK
<1>6. ASSUME Kept, SamePlace, UNCHANGED output PROVE OutputOK' /\ Ordered'
  <2>1. Queued' = Queued /\ InHand' = InHand /\ UNCHANGED <<requests, serving, done_flag>>
    BY <1>6 DEF Kept, Queued, InHand, SamePlace
  <2> QED BY <1>6, <2>1 DEF Ordered, OutputOK, SamePlace
<1> QED BY <1>1, <1>2, <1>3, <1>4, <1>5, <1>6 DEF EchoKinds
(* What the steps do to the clients, their lines and what was issued.      *)
Others(c) == \A d \in Clients \ {c} : pc'[d] = pc[d]

Prompts(c) ==
  /\ pc[c] = "read" /\ pc'[c] = "asleep" /\ Others(c)
  /\ text' = [text EXCEPT ![c] = 0]
  /\ UNCHANGED <<string, loops, typed, client_threads, Issued>>

PicksUp(c) ==
  /\ pc[c] = "woken" /\ pc'[c] = (IF text[c] = 0 THEN "leave" ELSE "write") /\ Others(c)
  /\ string' = [string EXCEPT ![c] = text[c]]
  /\ UNCHANGED <<text, loops, typed, client_threads, Issued>>

Asks(c) ==
  /\ pc[c] = "write" /\ Others(c)
  /\ \A d \in Clients \ {c} : loops'[d] = loops[d]
  /\ \/ pc'[c] = "write" /\ loops'[c] = loops[c] + 1
     \/ pc'[c] = "read" /\ loops'[c] = 0 /\ loops[c] + 1 = Writes
  /\ Issued' = Issued \cup {Write(c)}
  /\ UNCHANGED <<string, text, typed, client_threads>>

Leaves(c) ==
  /\ pc[c] = "leave" /\ pc'[c] = "gone" /\ Others(c)
  /\ client_threads' = client_threads - 1
  /\ UNCHANGED <<string, text, loops, typed, Issued>>

LineTyped(c) ==
  /\ Read(c) \in InHand /\ pc'[TtyServer] = "finish" /\ UNCHANGED requests
  /\ \A d \in Clients : pc'[d] = pc[d]
  /\ typed' = typed + 1 /\ text' = [text EXCEPT ![c] = typed + 1]
  /\ UNCHANGED <<string, loops, client_threads, Issued>>

Quiet ==
  /\ \A c \in Clients :
       \/ pc'[c] = pc[c]
       \/ pc[c] \in {"asleep", "woken"} /\ pc'[c] \in {"asleep", "woken"}
       \/ pc[c] = "none" /\ pc'[c] = "read"
  /\ UNCHANGED <<string, text, loops, typed, client_threads, Issued>>

ClientKinds ==
  \/ \E c \in Clients : Prompts(c)
  \/ \E c \in Clients : PicksUp(c)
  \/ \E c \in Clients : Asks(c)
  \/ \E c \in Clients : Leaves(c)
  \/ \E c \in Clients : LineTyped(c)
  \/ Quiet

LEMMA StepClientKinds ==
  ASSUME Safe, OutputOK, Ordered, [Next]_vars
  PROVE  ClientKinds
<1>0. TypeOK /\ PcOK /\ Placed /\ ServerPlace /\ Awaited
  BY Parts DEF Safe, Placed
<1>a. \A c \in Clients : /\ Read(c).by = c /\ Read(c).operation = "read"
                         /\ Write(c).operation = "write"
  BY Fields
<1> USE Ranges
<1>1. ASSUME NEW c \in Clients, ClientReads(c) PROVE ClientKinds
  <2>1. Issued' = Issued
    BY <1>1, <1>a DEF ClientReads, Request, Issued
  <2>2. Prompts(c)
    BY <1>0, <1>1, <2>1 DEF ClientReads, Request, clients, PcOK, TypeOK, Prompts, Others
  <2> QED BY <2>2 DEF ClientKinds
<1>2. ASSUME NEW c \in Clients, ClientHasRead(c) PROVE ClientKinds
  <2>1. Issued' = Issued
    BY <1>2, <1>a DEF ClientHasRead, Waiting, Issued
  <2>2. PicksUp(c) \/ Quiet
    BY <1>0, <1>2, <2>1 DEF ClientHasRead, Waiting, Go, PcOK, TypeOK, PicksUp, Quiet, Others
  <2> QED BY <2>2 DEF ClientKinds
<1>3. ASSUME NEW c \in Clients, ClientWrites(c) PROVE ClientKinds
  <2>1. Issued' = Issued \cup {Write(c)}
    BY <1>3, <1>a DEF ClientWrites, Request, Issued
  <2>2. loops[c] \in 0 .. Writes - 1 /\ Writes \in Nat \ {0}
    BY <1>0, ServerAssumption DEF TypeOK
  <2>3. \/ loops[c] + 1 < Writes /\ (loops[c] + 1) % Writes = loops[c] + 1
        \/ ~(loops[c] + 1 < Writes) /\ loops[c] + 1 = Writes /\ (loops[c] + 1) % Writes = 0
    BY <2>2
  <2>4. /\ pc[c] = "write" /\ pc'[c] = IF loops[c] + 1 < Writes THEN "write" ELSE "read"
        /\ \A d \in Clients \ {c} : pc'[d] = pc[d] /\ loops'[d] = loops[d]
        /\ loops'[c] = (loops[c] + 1) % Writes /\ UNCHANGED <<string, text, typed, client_threads>>
    BY <1>0, <1>3 DEF ClientWrites, Request, PcOK, TypeOK
  <2>5. Asks(c)
    BY <2>1, <2>3, <2>4 DEF Asks, Others
  <2> QED BY <2>5 DEF ClientKinds
<1>4. ASSUME NEW c \in Clients, ClientLeaves(c) PROVE ClientKinds
  <2>1. Leaves(c)
    BY <1>0, <1>4 DEF ClientLeaves, server, PcOK, Leaves, Others, Issued
  <2> QED BY <2>1 DEF ClientKinds
<1>5. CASE ServerReads
  <2>1. PICK r \in serving : ServerReads!(r)
    BY <1>5 DEF ServerReads
  <2>2. r \in heap /\ r.by \in Clients /\ r = Read(r.by)
    BY <1>0, <2>1 DEF OnePlace, Placed, Awaited, Quit
  <2>3. /\ \A d \in Clients : pc'[d] = pc[d]
        /\ UNCHANGED <<string, loops, client_threads, Issued>> /\ r \in InHand
        /\ pc'[TtyServer] = "finish"
    BY <1>0, <2>1 DEF Go, PcOK, clients, Issued, InHand
  <2>4. Quiet \/ LineTyped(r.by)
    BY <2>1, <2>2, <2>3 DEF Quiet, LineTyped
  <2> QED BY <2>2, <2>4 DEF ClientKinds
<1>6. CASE ServerWaits \/ ServerTakes \/ ServerQuits \/ MainJoins
  <2>1. Quiet
    BY <1>0, <1>6 DEF ServerWaits, ServerTakes, ServerQuits, MainJoins, Go, PcOK, server, clients,
       Quiet, Issued
  <2> QED BY <2>1 DEF ClientKinds
<1>7. CASE ServerWrites
  <2>1. PICK r \in serving : ServerWrites!(r)
    BY <1>7 DEF ServerWrites
  <2>2. Elements(output') = Elements(output) \cup {r} /\ r \in heap
    BY <1>0, <2>1, AppendAt DEF OutputOK, TypeOK, OnePlace, Placed
  <2>3. Quiet
    BY <1>0, <2>1, <2>2 DEF Go, PcOK, server, clients, Quiet, Issued
  <2> QED BY <2>3 DEF ClientKinds
<1>8. CASE ServerFinishes
  <2>1. PICK r \in serving : ServerFinishes!(r)
    BY <1>8 DEF ServerFinishes
  <2>2. r.by \in Requesters
    BY <1>0 DEF TypeOK, Requests
  <2>3. Issued' = Issued
    BY <2>1 DEF Ordered, Issued, Sync
  <2>4. \A c \in Clients : pc'[c] = pc[c] \/ (pc[c] = "asleep" /\ pc'[c] = "woken")
    BY <1>0, <2>1, <2>2 DEF Go, PcOK
  <2>5. Quiet
    BY <2>1, <2>3, <2>4 DEF clients, Quiet
  <2> QED BY <2>5 DEF ClientKinds
<1>9. CASE MainCreates
  <2>1. count < client_threads => count \in Clients /\ pc[count] = "none"
    BY <1>0, ServerAssumption DEF TypeOK, Awaited
  <2>2. Quiet
    BY <1>0, <1>9, <2>1 DEF MainCreates, Go, PcOK, server, Quiet, Issued
  <2> QED BY <2>2 DEF ClientKinds
<1>10. CASE MainQuits \/ MainReturns
  <2>1. Quit(Main).operation = "quit"
    BY DEF Quit
  <2>2. Quiet
    BY <1>0, <1>10, <2>1 DEF MainQuits, Request, MainReturns, Waiting, Go, PcOK, clients, Quiet,
       Issued
  <2> QED BY <2>2 DEF ClientKinds
<1>11. ASSUME NEW t \in DOMAIN pc, SpuriousWakeup(t) PROVE ClientKinds
  <2>1. Quiet
    BY <1>0, <1>11 DEF SpuriousWakeup, Go, PcOK, server, clients, Quiet, Issued
  <2> QED BY <2>1 DEF ClientKinds
<1>12. CASE UNCHANGED vars
  BY <1>12 DEF vars, server, clients, ClientKinds, Quiet, Issued
<1> QED
  BY <1>1, <1>2, <1>3, <1>4, <1>5, <1>6, <1>7, <1>8, <1>9, <1>10, <1>11, <1>12
     DEF Next, Client, Server_, Main_, Returned
LEMMA Values ==
  ASSUME Safe
  PROVE  /\ \A c \in Clients : string[c] \in Nat /\ text[c] \in Nat /\ loops[c] \in 0 .. Writes - 1
         /\ typed \in Nat /\ Writes \in Nat \ {0}
         /\ \A c \in Clients : string[c] <= typed /\ text[c] <= typed
         /\ \A c \in Clients : pc[c] \in {"asleep", "woken"} => text[c] = 0 \/ string[c] < text[c]
         /\ text \in [Requesters -> Nat] /\ string \in [Clients -> Nat]
BY Ranges, ServerAssumption DEF Safe, TypeOK, Fresh

LEMMA StepTraced ==
  ASSUME Safe, Traced, Apart, Complete, ClientKinds
  PROVE  Traced'
<1> USE Ranges
<1>0. \A r \in Issued : r.by \in Clients /\ r.line \in Nat \ {0} /\ r.loop \in Nat
  BY Values DEF Traced, WriteTraced
<1>1. ASSUME NEW c \in Clients, Prompts(c), NEW r \in Issued PROVE WriteTraced(r)'
  <2>1. \A d \in Clients : text'[d] = IF d = c THEN 0 ELSE text[d]
    BY <1>1, Values DEF Prompts
  <2>2. WriteTraced(r) /\ r.by \in Clients /\ r.line # 0
    BY <1>0 DEF Traced
  <2>3. \A d \in Clients \ {r.by} : string'[d] # r.line /\ text'[d] # r.line
    BY <1>1, <2>1, <2>2 DEF Prompts, WriteTraced
  <2> QED BY <1>1, <2>2, <2>3 DEF Prompts, Others, WriteTraced
<1>2. ASSUME NEW c \in Clients, PicksUp(c), NEW r \in Issued PROVE WriteTraced(r)'
  <2>1. \A d \in Clients : string'[d] = IF d = c THEN text[c] ELSE string[d]
    BY <1>2, Values DEF PicksUp
  <2>2. text[c] # 0 /\ r.by = c => r.line < text[c]
    <3>1. text[c] # 0 => string[c] < text[c]
      BY <1>2, Values DEF PicksUp
    <3>2. r.by = c => r.line <= string[c]
      BY <1>2 DEF PicksUp, Traced, WriteTraced
    <3> QED BY <1>0, <3>1, <3>2, Values
  <2>3. r.by # c => r.line # text[c]
    BY DEF Traced, WriteTraced
  <2>4. WriteTraced(r) /\ r.by \in Clients /\ r.line \in Nat \ {0}
    BY <1>0 DEF Traced
  <2>5. /\ pc'[r.by] \notin {"leave", "gone"} => r.line <= string'[r.by]
        /\ pc'[r.by] = "write" /\ r.line = string'[r.by] => r.loop < loops'[r.by]
    <3>1. CASE r.by = c
      BY <1>2, <2>1, <2>2, <2>4, <3>1, Values DEF PicksUp
    <3>2. CASE r.by # c
      BY <1>2, <2>1, <2>4, <3>2 DEF PicksUp, Others, WriteTraced
    <3> QED BY <3>1, <3>2
  <2>6. \A d \in Clients \ {r.by} : string'[d] # r.line /\ text'[d] # r.line
    BY <1>2, <2>1, <2>3, <2>4 DEF PicksUp, WriteTraced
  <2> QED BY <1>2, <2>4, <2>5, <2>6 DEF PicksUp, WriteTraced
<1>3. ASSUME NEW c \in Clients, Asks(c), NEW r \in Issued' PROVE WriteTraced(r)'
  <2>1. CASE r = Write(c)
    <3>1. r.by = c /\ r.line = string[c] /\ r.loop = loops[c]
      BY <2>1, Fields
    <3>2. string[c] # 0 /\ pc[c] = "write"
      BY <1>3 DEF Asks, Apart
    <3>3. \A loop \in 0 .. loops[c] - 1 : WriteOf(c, loop, string[c]) \in Issued
      BY <3>2 DEF Complete, Made
    <3>4. \A d \in Clients \ {c} : string[d] # string[c] /\ text[d] # string[c]
      BY <3>2 DEF Apart
    <3> QED BY <1>3, <3>1, <3>2, <3>3, <3>4, Values DEF Asks, WriteTraced
  <2>2. CASE r \in Issued
    <3>1. WriteTraced(r) /\ r.by \in Clients /\ r.loop \in Nat
      BY <1>0, <2>2 DEF Traced
    <3>2. pc'[r.by] = "write" /\ r.line = string'[r.by] => r.loop < loops'[r.by]
      <4>1. CASE r.by = c
        <5>1. pc'[c] = "write" => loops'[c] = loops[c] + 1 /\ loops[c] \in Int
          BY <1>3, Values DEF Asks
        <5> QED BY <1>3, <3>1, <4>1, <5>1 DEF Asks, WriteTraced
      <4>2. CASE r.by # c
        BY <1>3, <3>1, <4>2 DEF Asks, Others, WriteTraced
      <4> QED BY <4>1, <4>2
    <3> QED BY <1>3, <3>1, <3>2 DEF Asks, Others, WriteTraced
  <2> QED BY <1>3, <2>1, <2>2 DEF Asks
<1>4. ASSUME NEW c \in Clients, Leaves(c), NEW r \in Issued PROVE WriteTraced(r)'
  BY <1>0, <1>4 DEF Leaves, Others, Traced, WriteTraced
<1>5. ASSUME NEW c \in Clients, LineTyped(c), NEW r \in Issued PROVE WriteTraced(r)'
  <2>1. \A d \in Clients : text'[d] = IF d = c THEN typed + 1 ELSE text[d]
    BY <1>5, Values DEF LineTyped
  <2>2. WriteTraced(r) /\ r.by \in Clients /\ r.line \in 1 .. typed
    BY <1>0 DEF Traced, WriteTraced
  <2>3. r.line # typed + 1 /\ r.line \in 1 .. typed + 1
    BY <2>2, Values
  <2>4. \A d \in Clients \ {r.by} : string'[d] # r.line /\ text'[d] # r.line
    BY <1>5, <2>1, <2>2, <2>3 DEF LineTyped, WriteTraced
  <2> QED BY <1>5, <2>2, <2>3, <2>4 DEF LineTyped, WriteTraced
<1>6. ASSUME Quiet, NEW r \in Issued PROVE WriteTraced(r)'
  BY <1>0, <1>6 DEF Quiet, Traced, WriteTraced
<1> QED
  BY <1>1, <1>2, <1>3, <1>4, <1>5, <1>6
     DEF ClientKinds, Prompts, PicksUp, Leaves, LineTyped, Quiet, Traced

LEMMA StepApart ==
  ASSUME Safe, Traced, Apart, ClientKinds
  PROVE  Apart'
<1> USE Ranges
<1>1. ASSUME NEW c \in Clients, Prompts(c) PROVE Apart'
  <2>1. \A d \in Clients : text'[d] = IF d = c THEN 0 ELSE text[d]
    BY <1>1, Values DEF Prompts
  <2> QED BY <1>1, <2>1 DEF Prompts, Others, Apart
<1>2. ASSUME NEW c \in Clients, PicksUp(c) PROVE Apart'
  <2>1. \A d \in Clients : string'[d] = IF d = c THEN text[c] ELSE string[d]
    BY <1>2, Values DEF PicksUp
  <2> QED BY <1>2, <2>1, Values DEF PicksUp, Others, Apart
<1>3. ASSUME NEW c \in Clients, Asks(c) PROVE Apart'
  BY <1>3 DEF Asks, Others, Apart
<1>4. ASSUME NEW c \in Clients, Leaves(c) PROVE Apart'
  BY <1>4 DEF Leaves, Others, Apart
<1>5. ASSUME NEW c \in Clients, LineTyped(c) PROVE Apart'
  <2>1. \A d \in Clients : text'[d] = IF d = c THEN typed + 1 ELSE text[d]
    BY <1>5, Values DEF LineTyped
  <2>2. \A d \in Clients : string[d] # typed + 1 /\ text[d] # typed + 1
    BY Values
  <2> QED BY <1>5, <2>1, <2>2 DEF LineTyped, Apart
<1>6. CASE Quiet
  BY <1>6 DEF Quiet, Apart
<1> QED BY <1>1, <1>2, <1>3, <1>4, <1>5, <1>6 DEF ClientKinds

(* Nobody's first round is missing, and no line gets lost.                 *)
LEMMA StepComplete ==
  ASSUME Safe, Apart, Complete, ClientKinds,
         \A c \in Clients : Read(c) \in (Queued \cup InHand)' =>
           Read(c) \in Queued \cup InHand \/ text'[c] = 0
  PROVE  Complete'
<1> USE Ranges
<1> DEFINE
      Rounds == \A c \in Clients : string[c] # 0 =>
                  \A loop \in 0 .. Made(c) - 1 : WriteOf(c, loop, string[c]) \in Issued
      With(c, line) == \/ pc[c] \in {"asleep", "woken"} /\ text[c] = line
                       \/ string[c] = line
                       \/ AllIssued(c, line)
<1>0. /\ Rounds /\ \A line \in 1 .. typed : \E c \in Clients : With(c, line)
      /\ \A c \in Clients : Read(c) \in Queued \cup InHand => text[c] = 0
  BY DEF Complete
<1>p. \A c \in Clients : Read(c) \in (Queued \cup InHand)' => text[c] = 0 \/ text'[c] = 0
  BY <1>0
<1>1. ASSUME NEW c \in Clients, Prompts(c) PROVE Complete'
  <2>1. \A d \in Clients : text'[d] = IF d = c THEN 0 ELSE text[d]
    BY <1>1, Values DEF Prompts
  <2>2. Rounds'
    BY <1>0, <1>1 DEF Prompts, Others, Made
  <2>3. \A d \in Clients, line \in 1 .. typed : With(d, line) => With(d, line)'
    BY <1>1, <2>1 DEF Prompts, Others, AllIssued
  <2>4. \A d \in Clients : Read(d) \in (Queued \cup InHand)' => text'[d] = 0
    BY <1>p, <2>1
  <2> QED BY <1>0, <1>1, <2>2, <2>3, <2>4 DEF Prompts, Complete
<1>2. ASSUME NEW c \in Clients, PicksUp(c) PROVE Complete'
  <2>1. \A d \in Clients : string'[d] = IF d = c THEN text[c] ELSE string[d]
    BY <1>2, Values DEF PicksUp
  <2>2. Rounds'
    BY <1>0, <1>2, <2>1 DEF PicksUp, Others, Made, Apart
  <2>3. \A line \in 1 .. typed : string[c] = line => AllIssued(c, line)
    BY <1>0, <1>2 DEF PicksUp, Made, AllIssued
  <2>4. \A d \in Clients, line \in 1 .. typed : With(d, line) => With(d, line)'
    BY <1>2, <2>1, <2>3 DEF PicksUp, Others, AllIssued
  <2>5. \A d \in Clients : Read(d) \in (Queued \cup InHand)' => text'[d] = 0
    BY <1>p, <1>2 DEF PicksUp
  <2> QED BY <1>0, <1>2, <2>2, <2>4, <2>5 DEF PicksUp, Complete
<1>3. ASSUME NEW c \in Clients, Asks(c) PROVE Complete'
  <2>1. WriteOf(c, loops[c], string[c]) = Write(c)
    BY DEF WriteOf, Write
  <2>2. \A d \in Clients \ {c} : Made(d)' = Made(d)
    BY <1>3 DEF Asks, Others, Made
  <2>3. Made(c) = loops[c] /\ Made(c)' = loops[c] + 1
    BY <1>3 DEF Asks, Made
  <2>4. \A loop \in 0 .. loops[c] : loop \in 0 .. loops[c] - 1 \/ loop = loops[c]
    BY Values
  <2>5. (loops[c] + 1) - 1 = loops[c]
    BY Values
  <2>6. Rounds'
    BY <1>0, <1>3, <2>1, <2>2, <2>3, <2>4, <2>5 DEF Asks
  <2>7. \A d \in Clients, line \in 1 .. typed : With(d, line) => With(d, line)'
    BY <1>3 DEF Asks, Others, AllIssued
  <2>8. \A d \in Clients : Read(d) \in (Queued \cup InHand)' => text'[d] = 0
    BY <1>p, <1>3 DEF Asks
  <2> QED BY <1>0, <1>3, <2>6, <2>7, <2>8 DEF Asks, Complete
<1>4. ASSUME NEW c \in Clients, Leaves(c) PROVE Complete'
  <2>1. Rounds'
    BY <1>0, <1>4 DEF Leaves, Others, Made
  <2>2. \A d \in Clients, line \in 1 .. typed : With(d, line) => With(d, line)'
    BY <1>4 DEF Leaves, Others, AllIssued
  <2>3. \A d \in Clients : Read(d) \in (Queued \cup InHand)' => text'[d] = 0
    BY <1>p, <1>4 DEF Leaves
  <2> QED BY <1>0, <1>4, <2>1, <2>2, <2>3 DEF Leaves, Complete
<1>5. ASSUME NEW c \in Clients, LineTyped(c) PROVE Complete'
  <2>1. \A d \in Clients : text'[d] = IF d = c THEN typed + 1 ELSE text[d]
    BY <1>5, Values DEF LineTyped
  <2>2. Rounds'
    BY <1>0, <1>5 DEF LineTyped, Made
  <2>3. text[c] = 0 /\ pc[c] \in {"asleep", "woken"}
    <3>1. Read(c) \in serving
      BY <1>5 DEF LineTyped, InHand
    <3> QED BY <1>0, <1>5, <3>1 DEF LineTyped, Safe, Placed, OnePlace, Awaited
  <2>4. \A d \in Clients, line \in 1 .. typed : With(d, line) => With(d, line)'
    BY <1>5, <2>1, <2>3 DEF LineTyped, AllIssued
  <2>5. pc'[c] \in {"asleep", "woken"} /\ text'[c] = typed + 1
    BY <1>5, <2>1, <2>3 DEF LineTyped
  <2>6. \A line \in 1 .. typed' : line \in 1 .. typed \/ line = typed + 1
    BY <1>5, Values DEF LineTyped
  <2>7. \A d \in Clients : Read(d) \in (Queued \cup InHand)' => text'[d] = 0
    <3>1. Read(c) \notin (Queued \cup InHand)'
      BY <1>5 DEF LineTyped, InHand, Safe, Placed, OnePlace, Queued
    <3> QED BY <1>p, <2>1, <3>1
  <2>8. \A line \in 1 .. typed' : \E d \in Clients : With(d, line)'
    BY <1>0, <2>4, <2>5, <2>6
  <2> QED BY <2>2, <2>7, <2>8 DEF Complete
<1>6. CASE Quiet
  <2>1. Rounds'
    BY <1>0, <1>6 DEF Quiet, Made
  <2>2. \A d \in Clients, line \in 1 .. typed : With(d, line) => With(d, line)'
    BY <1>6 DEF Quiet, AllIssued
  <2>3. \A d \in Clients : Read(d) \in (Queued \cup InHand)' => text'[d] = 0
    BY <1>p, <1>6 DEF Quiet
  <2> QED BY <1>0, <1>6, <2>1, <2>2, <2>3 DEF Quiet, Complete
<1> QED BY <1>1, <1>2, <1>3, <1>4, <1>5, <1>6 DEF ClientKinds
LEMMA StepUnread ==
  ASSUME Safe, EchoKinds, NEW c \in Clients, Read(c) \in (Queued \cup InHand)'
  PROVE  Read(c) \in Queued \cup InHand \/ text'[c] = 0
<1>0. requests \in Seq(Requests)
  BY DEF Safe, TypeOK
<1>1. ASSUME NEW r \in Requests, Comes(r) PROVE Read(c) \in Queued \cup InHand \/ text'[c] = 0
  <2>1. Queued' = Queued \cup {r} /\ InHand' = InHand
    BY <1>0, <1>1, AppendAt DEF Comes, Queues, SamePlace, InHand, Queued
  <2>2. r = Read(c) => text'[c] = 0
    BY <1>1, Fields, Ranges DEF Comes
  <2> QED BY <2>1, <2>2
<1>2. ASSUME NEW r \in Requests, Works(r) \/ Ends(r) PROVE Read(c) \in Queued
  BY <1>2 DEF Works, Ends, Kept, Finishes, InHand, Queued
<1>3. ASSUME NEW r \in Requests, Frees(r), SamePlace PROVE Read(c) \in Queued \cup InHand
  BY <1>3 DEF Frees, SamePlace, InHand, Queued
<1>4. CASE Takes
  BY <1>0, <1>4, TailAt DEF Takes, InHand, Queued, Elements
<1>5. ASSUME Kept, SamePlace PROVE Read(c) \in Queued \cup InHand
  BY <1>5 DEF Kept, SamePlace, InHand, Queued
<1> QED BY <1>1, <1>2, <1>3, <1>4, <1>5 DEF EchoKinds

(* main goes on to its last request only when nobody is left, and returns  *)
(* with that request done.                                                 *)
Last == {"quit", "asleep", "woken", "returned"}

LEMMA StepMain ==
  ASSUME Safe, [Next]_vars
  PROVE  /\ pc'[Main] \in Last => \/ pc[Main] \in Last
                                  \/ client_threads <= 0 /\ client_threads' = client_threads
         /\ pc'[Main] = "returned" => \/ pc[Main] = "returned" /\ heap' = heap
                                      \/ Quit(Main) \in done_flag /\ heap' = heap \ {Quit(Main)}
<1>0. TypeOK /\ PcOK
  BY Parts DEF Safe
<1> DEFINE Goal ==
      /\ pc'[Main] \in Last => \/ pc[Main] \in Last
                               \/ client_threads <= 0 /\ client_threads' = client_threads
      /\ pc'[Main] = "returned" => \/ pc[Main] = "returned" /\ heap' = heap
                                   \/ Quit(Main) \in done_flag /\ heap' = heap \ {Quit(Main)}
<1> USE Ranges DEF Last
<1>1. CASE UNCHANGED vars
  BY <1>1 DEF vars, server, clients
<1>2. ASSUME pc[Main] # "returned", Next PROVE Goal
  <2>1. ASSUME NEW c \in Clients, Client(c) PROVE Goal
    BY <1>0, <1>2, <2>1
       DEF Client, ClientReads, ClientHasRead, ClientWrites, ClientLeaves, Request, Waiting, Go,
           PcOK
  <2>2. CASE ServerFinishes
    <3>1. PICK r \in serving : ServerFinishes!(r)
      BY <2>2 DEF ServerFinishes
    <3>2. r.by \in Requesters
      BY <1>0 DEF TypeOK, Requests
    <3> QED BY <1>0, <1>2, <3>1, <3>2 DEF Go, PcOK
  <2>3. CASE Server_ /\ ~ServerFinishes
    BY <1>0, <1>2, <2>3 DEF Server_, ServerWaits, ServerTakes, ServerReads, ServerWrites,
       ServerQuits, Go, PcOK
  <2>4. CASE MainCreates
    <3>1. count < client_threads => count \in Clients
      BY <1>0, ServerAssumption DEF TypeOK
    <3> QED BY <1>0, <1>2, <2>4, <3>1 DEF MainCreates, Go, PcOK
  <2>5. CASE MainJoins
    <3>1. client_threads \in Int
      BY <1>0 DEF TypeOK
    <3> QED BY <1>0, <1>2, <2>5, <3>1 DEF MainJoins, Go, PcOK, clients
  <2>6. CASE MainQuits \/ MainReturns
    BY <1>0, <1>2, <2>6 DEF MainQuits, MainReturns, Request, Waiting, Go, PcOK
  <2>7. ASSUME NEW t \in DOMAIN pc, SpuriousWakeup(t) PROVE Goal
    BY <1>0, <1>2, <2>7 DEF SpuriousWakeup, Go, PcOK
  <2> QED BY <1>2, <2>1, <2>2, <2>3, <2>4, <2>5, <2>6, <2>7 DEF Next, Main_, Returned
<1>3. ASSUME pc[Main] = "returned", Next PROVE UNCHANGED vars
  BY <1>3 DEF Next, Returned
<1> QED BY <1>1, <1>2, <1>3

LEMMA ClientsFinite == IsFiniteSet(Clients) /\ Cardinality(Clients) = CLIENT_THREADS
BY FS_Interval, ServerAssumption DEF Clients

LEMMA StepLeaving ==
  ASSUME Safe, Ordered, Leaving, ClientKinds, [Next]_vars
  PROVE  Leaving'
<1> USE Ranges
<1>0. /\ IsFiniteSet(Gone) /\ Cardinality(Gone) \in Nat /\ CLIENT_THREADS \in Nat
      /\ client_threads \in Int
  <2>1. Gone \subseteq Clients
    BY DEF Gone
  <2> QED BY <2>1, ClientsFinite, FS_Subset, FS_CardinalityType, ServerAssumption DEF Safe, TypeOK
<1>1. /\ Gone \subseteq Gone' /\ Gone' \subseteq Clients
      /\ client_threads' = CLIENT_THREADS - Cardinality(Gone')
  <2>1. ASSUME NEW c \in Clients, Leaves(c)
        PROVE  Gone' = Gone \cup {c} /\ c \notin Gone /\ client_threads' = client_threads - 1
    BY <2>1 DEF Leaves, Others, Gone
  <2>2. ASSUME NEW c \in Clients, Leaves(c)
        PROVE  client_threads' = CLIENT_THREADS - Cardinality(Gone')
    <3>1. Cardinality(Gone \cup {c}) = Cardinality(Gone) + 1
      BY <1>0, <2>1, <2>2, FS_AddElement
    <3> QED BY <1>0, <2>1, <2>2, <3>1 DEF Leaving
  <2>3. ASSUME \/ \E c \in Clients : Prompts(c) \/ PicksUp(c) \/ Asks(c) \/ LineTyped(c)
               \/ Quiet
        PROVE  Gone' = Gone /\ client_threads' = client_threads
    BY <2>3 DEF Prompts, PicksUp, Asks, LineTyped, Quiet, Others, Gone
  <2>4. Gone' \subseteq Clients
    BY DEF Gone
  <2> QED BY <2>1, <2>2, <2>3, <2>4 DEF ClientKinds, Leaving
<1>2. ASSUME pc'[Main] \in Last PROVE Gone' = Clients
  <2>1. CASE pc[Main] \in Last
    BY <1>1, <2>1 DEF Leaving, Last
  <2>2. CASE client_threads <= 0 /\ client_threads' = client_threads
    <3>1. CLIENT_THREADS <= Cardinality(Gone)
      BY <1>0, <2>2 DEF Leaving
    <3>2. Gone = Clients
      <4>1. Gone \in SUBSET Clients
        BY DEF Gone
      <4>2. /\ Cardinality(Gone) <= Cardinality(Clients)
            /\ Cardinality(Gone) = Cardinality(Clients) => Gone = Clients
        BY <4>1, ClientsFinite, FS_Subset
      <4> QED BY <1>0, <3>1, <4>2, ClientsFinite
    <3> QED BY <1>1, <3>2
  <2> QED BY <1>2, <2>1, <2>2, StepMain
<1>3. ASSUME pc'[Main] = "returned" PROVE heap' = {}
  <2>1. CASE pc[Main] = "returned" /\ heap' = heap
    BY <2>1 DEF Leaving
  <2>2. CASE Quit(Main) \in done_flag /\ heap' = heap \ {Quit(Main)}
    <3>1. ~Follows(Quit(Main), Quit(Main)) /\ \A s : ~Follows(Quit(Main), s)
      BY DEF Follows, Quit
    <3>2. Queued \cup serving = {}
      BY <2>2, <3>1 DEF Ordered
    <3>3. pc[Main] \in {"asleep", "woken"}
      BY <2>2 DEF Safe, Placed, OnePlace, Awaited
    <3>4. \A c \in Clients : Read(c) \notin heap
      BY <3>3 DEF Leaving, Gone, Safe, Awaited
    <3>5. heap = done_flag /\ \A r \in done_flag : r.operation # "write"
      BY <3>2 DEF Safe, Placed, OnePlace, Sync
    <3>6. \A r \in heap : r = Quit(Main)
      BY <3>4, <3>5 DEF Safe, Awaited
    <3> QED BY <2>2, <3>6
  <2> QED BY <1>3, <2>1, <2>2, StepMain
<1> QED BY <1>1, <1>2, <1>3 DEF Leaving, Last
LEMMA InitEchoing == Init => Echoing
<1> SUFFICES ASSUME Init PROVE Echoing
  OBVIOUS
<1> USE Ranges
<1>1. Elements(output) = {} /\ Issued = {} /\ Queued = {} /\ InHand = {}
  BY DEF Init, Elements, Issued, Queued, InHand
<1>2. OutputOK /\ Ordered
  BY <1>1 DEF Init, OutputOK, Ordered
<1>3. Gone = {} /\ Cardinality({}) = 0
  BY FS_EmptySet DEF Init, Gone
<1>4. Leaving
  BY <1>3, ServerAssumption DEF Init, Leaving
<1>5. Traced /\ Apart
  BY <1>1 DEF Init, Traced, Apart
<1>6. Complete
  BY <1>1 DEF Init, Complete
<1> QED BY <1>2, <1>4, <1>5, <1>6 DEF Echoing

LEMMA StepEchoing == Safe /\ Echoing /\ [Next]_vars => Echoing'
<1> SUFFICES ASSUME Safe, Echoing, [Next]_vars PROVE Echoing'
  OBVIOUS
<1>1. EchoKinds /\ ClientKinds
  BY StepEchoKinds, StepClientKinds DEF Echoing
<1>2. OutputOK' /\ Ordered'
  BY <1>1, StepOrdered DEF Echoing
<1>3. Traced' /\ Apart'
  BY <1>1, StepTraced, StepApart DEF Echoing
<1>4. \A c \in Clients : Read(c) \in (Queued \cup InHand)' =>
        Read(c) \in Queued \cup InHand \/ text'[c] = 0
  BY <1>1, StepUnread
<1>5. Complete'
  BY <1>1, <1>4, StepComplete DEF Echoing
<1>6. Leaving'
  BY <1>1, StepLeaving DEF Echoing
<1> QED BY <1>2, <1>3, <1>5, <1>6 DEF Echoing

LEMMA EchoingLines ==
  ASSUME Safe, Echoing
  PROVE  LinesEchoed
<1> USE Ranges DEF Echoing
<1>0. /\ output \in Seq({r \in Requests : r.operation = "write"})
      /\ heap = Queued \cup serving \cup done_flag
      /\ \A n \in DOMAIN output : output[n] \in Issued /\ n \in Nat
      /\ \A r, s \in serving : r = s
      /\ \A q \in done_flag : q.operation # "write"
  BY DEF OutputOK, Safe, TypeOK, Placed, OnePlace, Sync, Issued, Elements
<1>a. \A c \in Clients : \A loop, line : /\ WriteOf(c, loop, line).by = c
                                     /\ WriteOf(c, loop, line).operation = "write"
                                     /\ WriteOf(c, loop, line).loop = loop
                                     /\ WriteOf(c, loop, line).line = line
  BY DEF WriteOf
<1>1. ASSUME NEW m \in DOMAIN output, NEW n \in DOMAIN output, m < n,
             output[m].line = output[n].line
      PROVE  output[m].by = output[n].by /\ output[m].loop < output[n].loop
  BY <1>0, <1>1 DEF Ordered, Follows, Issued
<1>2. ASSUME NEW n \in DOMAIN output, NEW loop \in 0 .. output[n].loop - 1
      PROVE  \E m \in 1 .. n - 1 : output[m] = [output[n] EXCEPT !.loop = loop]
  <2> DEFINE w == output[n]
             v == WriteOf(w.by, loop, w.line)
  <2>1. /\ w \in Requests /\ w.operation = "write" /\ w \in Elements(output)
        /\ w.by \in Clients /\ v \in Issued /\ w.loop \in Nat /\ loop \in Nat /\ loop < w.loop
    BY <1>0 DEF Traced, WriteTraced, Elements
  <2>v. v.by = w.by /\ v.operation = "write" /\ v.loop = loop /\ v.line = w.line
    BY DEF WriteOf
  <2>2. v = [w EXCEPT !.loop = loop]
    BY <2>1 DEF Requests, WriteOf
  <2> HIDE DEF w, v
  <2>3. ~Follows(w, v)
    BY <2>1, <2>v DEF Follows
  <2>4. v \in Elements(output)
    <3>1. v \notin Queued \cup InHand
      BY <2>1, <2>3 DEF Ordered
    <3>2. v \notin done_flag
      BY <1>0, <2>v
    <3>3. v \in serving => pc[TtyServer] = "finish"
      BY <3>1 DEF InHand, Safe, Placed, ServerPlace
    <3> QED BY <1>0, <2>1, <2>v, <3>1, <3>2, <3>3 DEF Ordered, Issued
  <2>5. PICK m \in DOMAIN output : output[m] = v
    BY <2>4 DEF Elements
  <2>6. m # n /\ ~(n < m)
    <3>1. m # n
      BY <2>1, <2>v, <2>5 DEF w
    <3>2. n < m => Follows(w, v)
      BY <2>5 DEF Ordered, w
    <3> QED BY <2>3, <3>1, <3>2
  <2>7. m \in 1 .. n - 1
    BY <1>0, <2>6
  <2> QED BY <2>2, <2>5, <2>7 DEF w
<1>3. ASSUME NEW r \in serving, r.operation = "read", string[r.by] # 0
      PROVE  Echoed(r.by, string[r.by])
  <2>1. r.by \in Clients /\ r = Read(r.by) /\ pc[r.by] \in {"asleep", "woken"}
    BY <1>0, <1>3 DEF Safe, Awaited, Quit
  <2>2. ASSUME NEW loop \in 0 .. Writes - 1
        PROVE  WriteOf(r.by, loop, string[r.by]) \in Elements(output)
    <3> DEFINE v == WriteOf(r.by, loop, string[r.by])
    <3>1. v \in Issued /\ v.by = r.by /\ v.operation = "write"
      <4>1. Made(r.by) = Writes
        BY <2>1 DEF Made
      <4>2. WriteOf(r.by, loop, string[r.by]) \in Issued
        BY <1>3, <2>1, <4>1 DEF Complete
      <4> QED BY <4>2 DEF WriteOf
    <3>2. v \notin Queued
      BY <1>3, <3>1 DEF Ordered, Follows
    <3> QED BY <1>0, <1>3, <3>1, <3>2 DEF Issued
  <2> QED BY <2>2 DEF Echoed, Elements
<1>4. ASSUME pc[Main] = "returned"
      PROVE  heap = {} /\ \A line \in 1 .. typed : \E c \in Clients : Echoed(c, line)
  <2>1. heap = {} /\ Gone = Clients
    BY <1>4 DEF Leaving
  <2>2. ASSUME NEW line \in 1 .. typed PROVE \E c \in Clients : Echoed(c, line)
    <3>1. PICK c \in Clients : \/ pc[c] \in {"asleep", "woken"} /\ text[c] = line
                               \/ string[c] = line
                               \/ AllIssued(c, line)
      BY DEF Complete
    <3>2. pc[c] = "gone"
      BY <2>1 DEF Gone
    <3>3. AllIssued(c, line)
      BY <3>1, <3>2 DEF Complete, Made, AllIssued
    <3>4. Echoed(c, line)
      BY <2>1, <3>3 DEF AllIssued, Echoed, Issued, Elements
    <3> QED BY <3>4
  <2> QED BY <2>1, <2>2
<1> QED BY <1>1, <1>2, <1>3, <1>4 DEF LinesEchoed

(* Every line is printed Writes times, in order and by the client that     *)
(* read it, before that client's next prompt; and all of it is printed     *)
(* when main returns (server.c:59, 260-268, 326).                          *)
THEOREM ServerLinesEchoed == Spec => []LinesEchoed
<1>1. Safe /\ Echoing /\ [Next]_vars => (Safe /\ Echoing)'
  BY StepSafe, StepEchoing
<1>2. Init => Safe /\ Echoing
  BY InitSafe, InitEchoing
<1>3. Safe /\ Echoing => LinesEchoed
  BY EchoingLines
<1> QED BY <1>1, <1>2, <1>3, PTL DEF Spec
=============================================================================

------------------------------ MODULE ApueProof ------------------------------
(***************************************************************************)
(* Proofs about the two shared programs of Advanced Programming in the     *)
(* UNIX Environment.  First the print spooler, for every set of clients,   *)
(* every number of stops and every range of job numbers that is large      *)
(* enough to give each job of one run a number of its own.  Then the       *)
(* database library, for every set of processes, keys, data and calls,     *)
(* every hash function and every number of chains.                         *)
(***************************************************************************)
EXTENDS PrintdInv, Db, FiniteSetTheorems, TLAPS

(***************************************************************************)
(* The print spooler.  The inductive invariant is in PrintdInv.            *)
(***************************************************************************)
LEMMA Files ==
  /\ NoFile = [of |-> NULL, how |-> "none"]
  /\ \A c \in Clients, part \in {"part", "empty", "all"} :
       /\ File(c, part) = [of |-> c, how |-> part] /\ File(c, part) # NoFile
       /\ File(c, part).of = c /\ File(c, part).how = part
  /\ NoFile.how = "none" /\ NoFile.of = NULL
  /\ \A f \in (DataFiles \cup Requests) \ {NoFile} :
       f.of \in Clients /\ f.how \in {"part", "empty", "all"} /\ f = File(f.of, f.how)
BY PrintdAssumption DEF NoFile, File, DataFiles, Requests

(***************************************************************************)
(* What append, tail and put-back do to the queue as a set.                *)
(***************************************************************************)
LEMMA InAppend ==
  ASSUME NEW q \in Seq(Numbers), NEW e \in Numbers, NEW n
  PROVE  /\ In(n, Append(q, e)) <=> In(n, q) \/ n = e
         /\ Once(n, q) /\ (n = e => ~In(n, q)) => Once(n, Append(q, e))
<1>1. /\ DOMAIN Append(q, e) = 1 .. Len(q) + 1 /\ Len(q) \in Nat /\ DOMAIN q = 1 .. Len(q)
      /\ \A i \in 1 .. Len(q) : Append(q, e)[i] = q[i]
      /\ Append(q, e)[Len(q) + 1] = e
  OBVIOUS
<1> QED BY <1>1 DEF In, Once

LEMMA InTail ==
  ASSUME NEW q \in Seq(Numbers), q # <<>>, NEW n
  PROVE  /\ Head(q) \in Numbers /\ Tail(q) \in Seq(Numbers)
         /\ In(n, q) <=> In(n, Tail(q)) \/ n = Head(q)
         /\ Once(n, q) => Once(n, Tail(q)) /\ (n = Head(q) => ~In(n, Tail(q)))
<1>1. /\ Len(q) \in Nat \ {0} /\ DOMAIN q = 1 .. Len(q) /\ DOMAIN Tail(q) = 1 .. Len(q) - 1
      /\ \A i \in 1 .. Len(q) - 1 : Tail(q)[i] = q[i + 1]
      /\ Head(q) = q[1] /\ Head(q) \in Numbers /\ Tail(q) \in Seq(Numbers)
  OBVIOUS
<1>2. \A i \in DOMAIN q : i = 1 \/ (i - 1 \in DOMAIN Tail(q) /\ Tail(q)[i - 1] = q[i])
  BY <1>1
<1>3. \A i \in DOMAIN Tail(q) : i + 1 \in DOMAIN q /\ q[i + 1] = Tail(q)[i] /\ i + 1 # 1
  BY <1>1
<1>4. In(n, q) <=> In(n, Tail(q)) \/ n = Head(q)
  BY <1>1, <1>2, <1>3 DEF In
<1>5. ASSUME Once(n, q) PROVE Once(n, Tail(q)) /\ (n = Head(q) => ~In(n, Tail(q)))
  <2>1. ASSUME NEW i \in DOMAIN Tail(q), NEW j \in DOMAIN Tail(q), Tail(q)[i] = n, Tail(q)[j] = n
        PROVE  i = j
    <3>1. i + 1 = j + 1
      BY <1>3, <1>5, <2>1 DEF Once
    <3> QED BY <1>1, <2>1, <3>1
  <2>2. ASSUME n = Head(q), NEW i \in DOMAIN Tail(q), Tail(q)[i] = n PROVE FALSE
    BY <1>1, <1>3, <1>5, <2>2 DEF Once
  <2> QED BY <2>1, <2>2 DEF In, Once
<1> QED BY <1>1, <1>4, <1>5

LEMMA InPutBack ==
  ASSUME NEW q \in Seq(Numbers), NEW e \in Numbers, NEW n
  PROVE  /\ <<e>> \o q \in Seq(Numbers)
         /\ In(n, <<e>> \o q) <=> In(n, q) \/ n = e
         /\ Once(n, q) /\ (n = e => ~In(n, q)) => Once(n, <<e>> \o q)
<1> DEFINE p == <<e>> \o q
<1>1. /\ Len(q) \in Nat /\ DOMAIN q = 1 .. Len(q) /\ DOMAIN p = 1 .. Len(q) + 1
      /\ \A i \in 1 .. Len(q) : p[i + 1] = q[i]
      /\ p[1] = e /\ p \in Seq(Numbers)
  OBVIOUS
<1> HIDE DEF p
<1>2. \A i \in DOMAIN p : i = 1 \/ (i - 1 \in DOMAIN q /\ q[i - 1] = p[i])
  BY <1>1
<1>3. \A i \in DOMAIN q : i + 1 \in DOMAIN p /\ p[i + 1] = q[i]
  BY <1>1
<1>4. In(n, p) <=> In(n, q) \/ n = e
  <2>1. ASSUME NEW i \in DOMAIN q, q[i] = n PROVE In(n, p)
    BY <1>3, <2>1 DEF In
  <2>2. 1 \in DOMAIN p
    BY <1>1
  <2>3. n = e => In(n, p)
    BY <1>1, <2>2 DEF In
  <2>4. In(n, p) => In(n, q) \/ n = e
    BY <1>1, <1>2 DEF In
  <2> QED BY <2>1, <2>3, <2>4 DEF In
<1>5. ASSUME Once(n, q), n = e => ~In(n, q), NEW i \in DOMAIN p, NEW j \in DOMAIN p, p[i] = n, p[j] = n
      PROVE  i = j
  <2>1. CASE i = 1 \/ j = 1
    BY <1>1, <1>2, <1>5, <2>1 DEF In
  <2>2. CASE i # 1 /\ j # 1
    <3>1. i - 1 = j - 1
      BY <1>2, <1>5, <2>2 DEF Once
    <3> QED BY <1>1, <1>5, <3>1
  <2> QED BY <2>1, <2>2
<1> QED BY <1>1, <1>4, <1>5 DEF p, Once
(***************************************************************************)
(* Types and places of threads.                                            *)
(***************************************************************************)
LEMMA InitTypes == Init => Types /\ Serving
<1> SUFFICES ASSUME Init PROVE Types /\ Serving
  OBVIOUS
<1>1. SpoolTypes /\ DaemonTypes /\ PrinterTypes
  BY PrintdAssumption DEF Init, SpoolTypes, DaemonTypes, PrinterTypes, DataFiles, Requests, Numbers
<1>2. ClientTypes /\ HistoryTypes
  BY PrintdAssumption DEF Init, ClientTypes, HistoryTypes
<1>3. Serving
  BY DEF Init, Serving
<1> QED BY <1>1, <1>2, <1>3 DEF Types

LEMMA FileTypes ==
  ASSUME SpoolTypes, NEW c \in Clients
  PROVE  /\ Finish(data, c) \in [Numbers -> DataFiles] /\ Finish(reqs, c) \in [Numbers -> Requests]
         /\ Remove(data, c) \in [Numbers -> DataFiles] /\ Remove(reqs, c) \in [Numbers -> Requests]
         /\ [data EXCEPT ![job[c]] = File(c, "part")] \in [Numbers -> DataFiles]
         /\ [reqs EXCEPT ![job[c]] = File(c, "empty")] \in [Numbers -> Requests]
<1>1. /\ File(c, "all") \in DataFiles \cap Requests
      /\ File(c, "part") \in DataFiles /\ File(c, "empty") \in Requests
      /\ NoFile \in DataFiles \cap Requests
  BY DEF File, DataFiles, Requests
<1>2. data \in [Numbers -> DataFiles] /\ reqs \in [Numbers -> Requests]
  BY DEF SpoolTypes
<1> QED BY <1>1, <1>2 DEF Finish, Remove

LEMMA StepSpoolTypes == Types /\ [Next]_vars => SpoolTypes'
<1> SUFFICES ASSUME Types, [Next]_vars PROVE SpoolTypes'
  OBVIOUS
<1>0. SpoolTypes /\ NoFile \in DataFiles \cap Requests
  BY DEF Types, DataFiles, Requests
<1>1. ASSUME spool' = spool PROVE SpoolTypes'
  BY <1>0, <1>1 DEF SpoolTypes, spool
<1>2. ASSUME NEW n \in Numbers, DiscardName(n) \/ DiscardData(n) PROVE SpoolTypes'
  BY <1>0, <1>2 DEF DiscardName, DiscardData, SpoolTypes
<1>3. ASSUME NEW c \in Clients,
             CreateData(c) \/ ReadData(c) \/ CreateRequest(c) \/ WriteRequest(c) \/ RemoveData(c)
      PROVE  SpoolTypes'
  <2>1. jobfile' = jobfile
    BY <1>3 DEF CreateData, ReadData, CreateRequest, WriteRequest, RemoveData
  <2>2. data' \in [Numbers -> DataFiles]
    BY <1>0, <1>3, FileTypes
    DEF CreateData, ReadData, CreateRequest, WriteRequest, RemoveData, SpoolTypes
  <2>3. reqs' \in [Numbers -> Requests]
    BY <1>0, <1>3, FileTypes
    DEF CreateData, ReadData, CreateRequest, WriteRequest, RemoveData, SpoolTypes
  <2> QED BY <1>0, <2>1, <2>2, <2>3 DEF SpoolTypes
<1>4. CASE UpdateJobno \/ UnlinkData \/ UnlinkRequest
  BY <1>0, <1>4 DEF UpdateJobno, UnlinkData, UnlinkRequest, SpoolTypes, Types, DaemonTypes, Numbers
<1>5. CASE Start \/ SkipNames \/ SignalName \/ Serve \/ Stop
  BY <1>1, <1>5 DEF Start, SkipNames, SignalName, Serve, Stop
<1>10. ASSUME NEW n \in Numbers, ReadName(n) \/ SkipName(n) PROVE SpoolTypes'
  BY <1>1, <1>10 DEF ReadName, SkipName
<1>6. ASSUME NEW c \in Clients,
             Accept(c) \/ Cleanup(c) \/ ReadHeader(c) \/ Reply(c) \/ AddJob(c) \/ SignalJob(c)
      PROVE  SpoolTypes'
  BY <1>1, <1>6 DEF Accept, Cleanup, ReadHeader, Reply, AddJob, SignalJob
<1>7. CASE GetJob \/ SpuriousWakeup \/ OpenData \/ ReplaceJob
  BY <1>1, <1>7 DEF GetJob, SpuriousWakeup, OpenData, ReplaceJob
<1>8. ASSUME NEW to, Send(to) PROVE SpoolTypes'
  BY <1>1, <1>8 DEF Send
<1>9. CASE UNCHANGED vars
  BY <1>1, <1>9 DEF vars
<1> QED
  BY <1>2, <1>3, <1>4, <1>5, <1>6, <1>7, <1>8, <1>9, <1>10 DEF Next, Main, Client, Printer

LEMMA StepDaemonTypes == Types /\ Serving /\ [Next]_vars => DaemonTypes'
<1> SUFFICES ASSUME Types, Serving, [Next]_vars PROVE DaemonTypes'
  OBVIOUS
<1>0. DaemonTypes /\ 1 \in Numbers
  BY PrintdAssumption DEF Types, Numbers
<1>1. ASSUME jobs' = jobs, main' \in {main, "down", "start", "discard", "serve"}, names' \subseteq names
      PROVE  DaemonTypes'
  BY <1>0, <1>1 DEF DaemonTypes, jobs
<1>2. CASE Start
  BY <1>0, <1>2 DEF Start, DaemonTypes, Types, SpoolTypes, Numbers
<1>3. ASSUME NEW n \in Numbers, ReadName(n) PROVE DaemonTypes'
  <2>1. Append(queue, n) \in Seq(Numbers)
    BY <1>0 DEF DaemonTypes
  <2> QED BY <1>0, <1>3, <2>1 DEF ReadName, DaemonTypes
<1>4. CASE Stop
  BY <1>0, <1>4 DEF Stop, DaemonTypes
<1>5. ASSUME NEW c \in Clients, ReadHeader(c) PROVE DaemonTypes'
  <2>1. queue' = queue /\ main' = main /\ names' = names
    BY <1>5 DEF ReadHeader, jobs
  <2>2. nextjob' \in Numbers
    BY <1>0, <1>5, PrintdAssumption DEF ReadHeader, jobs, DaemonTypes, Numbers
  <2> QED BY <1>0, <2>1, <2>2 DEF DaemonTypes
<1>6. ASSUME NEW c \in Clients, AddJob(c) PROVE DaemonTypes'
  <2>1. job[c] \in Numbers
    BY <1>6 DEF AddJob, Go, Serving, Types, ClientTypes, Numbers
  <2>2. Append(queue, job[c]) \in Seq(Numbers)
    BY <1>0, <2>1 DEF DaemonTypes
  <2> QED BY <1>0, <1>6, <2>2 DEF AddJob, DaemonTypes
<1>7. CASE GetJob
  <2>1. queue # <<>> => Tail(queue) \in Seq(Numbers)
    BY <1>0, InTail DEF DaemonTypes
  <2> QED BY <1>0, <1>7, <2>1 DEF GetJob, DaemonTypes
<1>8. CASE ReplaceJob
  <2>1. cur \in Numbers
    BY <1>8 DEF ReplaceJob, PrinterGoes, Types, PrinterTypes, Numbers
  <2>2. <<cur>> \o queue \in Seq(Numbers)
    BY <1>0, <2>1, InPutBack DEF DaemonTypes
  <2> QED BY <1>0, <1>8, <2>2 DEF ReplaceJob, DaemonTypes
<1>9. CASE SkipNames \/ SignalName \/ Serve
  BY <1>1, <1>9 DEF SkipNames, SignalName, Serve
<1>14. ASSUME NEW n \in Numbers, SkipName(n) \/ DiscardName(n) \/ DiscardData(n) PROVE DaemonTypes'
  BY <1>1, <1>14 DEF SkipName, DiscardName, DiscardData, jobs
<1>10. ASSUME NEW c \in Clients,
              \/ Accept(c) \/ Cleanup(c) \/ CreateData(c) \/ ReadData(c)
              \/ CreateRequest(c) \/ WriteRequest(c) \/ RemoveData(c) \/ Reply(c) \/ SignalJob(c)
       PROVE  DaemonTypes'
  BY <1>1, <1>10
  DEF Accept, Cleanup, CreateData, ReadData, CreateRequest, WriteRequest, RemoveData, Reply,
      SignalJob
<1>11. CASE UpdateJobno \/ UnlinkData \/ UnlinkRequest \/ SpuriousWakeup \/ OpenData
  BY <1>1, <1>11 DEF UpdateJobno, UnlinkData, UnlinkRequest, SpuriousWakeup, OpenData
<1>12. ASSUME NEW to, Send(to) PROVE DaemonTypes'
  BY <1>1, <1>12 DEF Send
<1>13. CASE UNCHANGED vars
  BY <1>1, <1>13 DEF vars
<1> QED
  BY <1>2, <1>3, <1>4, <1>5, <1>6, <1>7, <1>8, <1>9, <1>10, <1>11, <1>12, <1>13,
     <1>14
  DEF Next, Main, Client, Printer

LEMMA StepPrinterTypes == Types /\ [Next]_vars => PrinterTypes'
<1> SUFFICES ASSUME Types, [Next]_vars PROVE PrinterTypes'
  OBVIOUS
<1>0. PrinterTypes
  BY DEF Types
<1>1. ASSUME UNCHANGED thread \/ SignalPrinter PROVE PrinterTypes'
  BY <1>0, <1>1 DEF PrinterTypes, thread, SignalPrinter
<1>2. CASE Main
  BY <1>1, <1>2 DEF Main, Start, ReadName, SkipName, SkipNames, DiscardName, DiscardData, SignalName,
     Serve
<1>3. CASE Stop
  BY <1>0, <1>3, PrintdAssumption DEF Stop, PrinterTypes
<1>4. ASSUME NEW c \in Clients, Accept(c) \/ Client(c) PROVE PrinterTypes'
  BY <1>1, <1>4
  DEF Accept, Client, ReadHeader, CreateData, ReadData, CreateRequest, WriteRequest, RemoveData, Reply,
      AddJob, SignalJob, Cleanup
<1>5. CASE GetJob
  <2>1. queue # <<>> => Head(queue) \in 1 .. MaxJob
    BY InTail DEF Types, DaemonTypes, Numbers
  <2> QED BY <1>0, <1>5, <2>1, PrintdAssumption DEF GetJob, PrinterGoes, PrinterTypes
<1>6. CASE SpuriousWakeup \/ UpdateJobno \/ UnlinkData \/ UnlinkRequest \/ ReplaceJob \/ OpenData
  BY <1>0, <1>6, PrintdAssumption
  DEF SpuriousWakeup, UpdateJobno, UnlinkData, UnlinkRequest, ReplaceJob, OpenData, PrinterGoes,
      PrinterTypes
<1>7. CASE Send("unlink_data") \/ Send("replace")
  BY <1>0, <1>7 DEF Send, PrinterGoes, PrinterTypes
<1>8. CASE UNCHANGED vars
  BY <1>1, <1>8 DEF vars
<1> QED BY <1>2, <1>3, <1>4, <1>5, <1>6, <1>7, <1>8 DEF Next, Printer

LEMMA StepClientTypes == Types /\ [Next]_vars => ClientTypes'
<1> SUFFICES ASSUME Types, [Next]_vars PROVE ClientTypes'
  OBVIOUS
<1>0. ClientTypes
  BY DEF Types
<1>1. ASSUME UNCHANGED client PROVE ClientTypes'
  BY <1>0, <1>1 DEF ClientTypes, client
<1>2. CASE Main \/ Printer \/ SpuriousWakeup \/ UNCHANGED vars
  BY <1>1, <1>2
  DEF Main, Start, ReadName, SkipName, SkipNames, DiscardName, DiscardData, SignalName,
     Serve, Printer, GetJob, UpdateJobno, OpenData, Send,
      UnlinkData,
      UnlinkRequest, ReplaceJob, SpuriousWakeup, vars
<1>3. CASE Stop
  BY <1>0, <1>3 DEF Stop, ClientTypes
<1>4. ASSUME NEW c \in Clients, Accept(c) \/ Cleanup(c) PROVE ClientTypes'
  <2>1. \E p \in {"header", "cleanup", "done"} : pc' = [pc EXCEPT ![c] = p]
    BY <1>4 DEF Accept, Cleanup
  <2>2. job' = job /\ told' = told
    BY <1>4 DEF Accept, Cleanup
  <2> QED BY <1>0, <2>1, <2>2 DEF ClientTypes
<1>5. ASSUME NEW c \in Clients, ReadHeader(c) PROVE ClientTypes'
  <2>1. nextjob \in 0 .. MaxJob
    BY PrintdAssumption DEF Types, DaemonTypes, Numbers
  <2> QED BY <1>0, <1>5, <2>1 DEF ReadHeader, Go, ClientTypes
<1>6. ASSUME NEW c \in Clients,
             \/ CreateData(c) \/ ReadData(c) \/ CreateRequest(c) \/ WriteRequest(c)
             \/ RemoveData(c) \/ Reply(c) \/ AddJob(c) \/ SignalJob(c)
      PROVE  ClientTypes'
  BY <1>0, <1>6
  DEF CreateData, ReadData, CreateRequest, WriteRequest, RemoveData, Reply, AddJob,
      SignalJob, Go, ClientTypes
<1> QED BY <1>2, <1>3, <1>4, <1>5, <1>6 DEF Next, Client

LEMMA StepHistoryTypes == Types /\ [Next]_vars => HistoryTypes'
<1> SUFFICES ASSUME Types, [Next]_vars PROVE HistoryTypes'
  OBVIOUS
<1>0. HistoryTypes
  BY DEF Types
<1>1. ASSUME UNCHANGED history PROVE HistoryTypes'
  BY <1>0, <1>1 DEF HistoryTypes, history
<1>2. CASE Start \/ SignalName \/ Serve \/ SpuriousWakeup \/ UNCHANGED vars
  BY <1>1, <1>2 DEF Start, SignalName, Serve, SpuriousWakeup, vars
<1>8. ASSUME NEW n \in Numbers, ReadName(n) \/ DiscardData(n) PROVE HistoryTypes'
  BY <1>1, <1>8 DEF ReadName, DiscardData
<1>9. ASSUME NEW n \in Numbers, SkipName(n) PROVE HistoryTypes'
  BY <1>0, <1>9 DEF SkipName, HistoryTypes
<1>10. CASE SkipNames
  BY <1>0, <1>10 DEF SkipNames, Types, DaemonTypes, HistoryTypes
<1>11. ASSUME NEW n \in Numbers, DiscardName(n) PROVE HistoryTypes'
  BY <1>0, <1>11 DEF DiscardName, HistoryTypes
<1>3. ASSUME NEW c \in Clients, Accept(c) \/ Client(c) PROVE HistoryTypes'
  BY <1>1, <1>3
  DEF Accept, Client, ReadHeader, CreateData, ReadData, CreateRequest, WriteRequest, RemoveData, Reply,
      AddJob, SignalJob, Cleanup
<1>4. CASE Stop
  BY <1>0, <1>4 DEF Stop, HistoryTypes
<1>5. CASE GetJob \/ UpdateJobno \/ UnlinkData \/ UnlinkRequest \/ ReplaceJob
  BY <1>1, <1>5 DEF GetJob, UpdateJobno, UnlinkData, UnlinkRequest, ReplaceJob
<1>6. CASE OpenData
  <2>1. cur \in Numbers
    BY <1>6 DEF OpenData, PrinterGoes, Types, PrinterTypes, Numbers
  <2> QED BY <1>0, <1>1, <1>6, <2>1 DEF OpenData, HistoryTypes
<1>7. ASSUME NEW to, Send(to) PROVE HistoryTypes'
  <2>1. cur \in Numbers
    BY <1>7 DEF Send, PrinterGoes, Types, PrinterTypes, Numbers
  <2>2. {data[cur]} \ {NoFile} \subseteq [of : Clients, how : {"part", "all"}]
    BY <2>1 DEF Types, SpoolTypes, DataFiles
  <2>3. printed' \subseteq [of : Clients, how : {"part", "all"}]
    BY <1>0, <1>7, <2>2 DEF Send, HistoryTypes
  <2> QED BY <1>0, <1>7, <2>3 DEF Send, HistoryTypes
<1> QED
  BY <1>2, <1>3, <1>4, <1>5, <1>6, <1>7, <1>8, <1>9, <1>10, <1>11 DEF Next, Main, Printer

LEMMA StepTypes == Types /\ Serving /\ [Next]_vars => Types'
BY StepSpoolTypes, StepDaemonTypes, StepPrinterTypes, StepClientTypes, StepHistoryTypes DEF Types

LEMMA StepServing == Types /\ Serving /\ [Next]_vars => Serving'
<1> SUFFICES ASSUME Types, Serving, [Next]_vars PROVE Serving'
  OBVIOUS
<1> USE DEF Numbers, spool, jobs, thread, client, list, history
<1>0. pc \in [Clients -> {"out", "header", "create", "read", "create_request", "write_request",
                          "unlink", "reply", "add", "signal", "cleanup", "done"}]
      /\ job \in [Clients -> 0 .. MaxJob] /\ told \subseteq Clients /\ nextjob \in 1 .. MaxJob
  BY DEF Types, ClientTypes, DaemonTypes
<1>1. CASE Start \/ SkipNames \/ SignalName \/ Serve
  BY <1>0, <1>1 DEF Start, SkipNames, SignalName, SignalPrinter, Serve, Serving
<1>2. ASSUME NEW n \in Numbers, ReadName(n) \/ SkipName(n) \/ DiscardName(n) \/ DiscardData(n)
      PROVE  Serving'
  BY <1>0, <1>2 DEF ReadName, SkipName, DiscardName, DiscardData, Serving
<1>3. CASE Stop
  BY <1>0, <1>3 DEF Stop, Serving
<1>4. ASSUME NEW c \in Clients, Accept(c) \/ Cleanup(c) PROVE Serving'
  BY <1>0, <1>4 DEF Accept, Cleanup, Serving
<1>5. ASSUME NEW c \in Clients, ReadHeader(c) \/ Reply(c) \/ SignalJob(c) PROVE Serving'
  BY <1>0, <1>5 DEF ReadHeader, Reply, SignalJob, SignalPrinter, Go, Serving
<1>6. ASSUME NEW c \in Clients,
             \/ CreateData(c) \/ ReadData(c) \/ CreateRequest(c) \/ WriteRequest(c)
             \/ RemoveData(c) \/ AddJob(c)
      PROVE  Serving'
  BY <1>0, <1>6
  DEF CreateData, ReadData, CreateRequest, WriteRequest, RemoveData, AddJob, Go, Serving
<1>7. CASE Printer \/ SpuriousWakeup
  <2>1. main # "down" /\ UNCHANGED <<main, names, client, nodes>>
    BY <1>7 DEF Printer, GetJob, UpdateJobno, OpenData, Send, UnlinkData, UnlinkRequest, ReplaceJob,
                SpuriousWakeup, PrinterGoes
  <2> QED BY <2>1 DEF Serving
<1>8. CASE UNCHANGED vars
  BY <1>8 DEF vars, Serving
<1> QED
  BY <1>1, <1>2, <1>3, <1>4, <1>5, <1>6, <1>7, <1>8 DEF Next, Main, Client
(***************************************************************************)
(* Job numbers.                                                            *)
(***************************************************************************)
TakesNumber(c) ==
  /\ c \in Senders /\ pc[c] = "header" /\ main = "serve" /\ main' = main
  /\ pc' = [pc EXCEPT ![c] = "create"] /\ job' = [job EXCEPT ![c] = nextjob]
  /\ nextjob' = IF nextjob = MaxJob THEN 1 ELSE nextjob + 1
  /\ UNCHANGED <<spool, names, queue, thread, told, list, history>>

LEMMA NumberKinds ==
  ASSUME Types, Serving, [Next]_vars
  PROVE  \/ \E c \in Clients : TakesNumber(c)
         \/ /\ job' = job
            /\ \/ Start \/ Stop
               \/ nextjob' = nextjob /\ stops' = stops /\ main' # "down"
               \/ UNCHANGED <<nextjob, stops, main, jobfile>>
<1> USE DEF spool, jobs, thread, client, list, history
<1>1. CASE \/ SkipNames \/ SignalName \/ Serve
          \/ \E n \in Numbers : ReadName(n) \/ SkipName(n) \/ DiscardName(n) \/ DiscardData(n)
  BY <1>1 DEF ReadName, SkipName, SkipNames, DiscardName, DiscardData, SignalName, Serve
<1>2. ASSUME NEW c \in Clients, ReadHeader(c)
      PROVE  TakesNumber(c) \/ UNCHANGED <<job, nextjob, stops, main, jobfile>>
  BY <1>2 DEF ReadHeader, TakesNumber, Go, Serving
<1>3. ASSUME NEW c \in Clients,
             \/ Accept(c) \/ CreateData(c) \/ ReadData(c) \/ CreateRequest(c) \/ WriteRequest(c)
             \/ RemoveData(c) \/ Reply(c) \/ AddJob(c) \/ SignalJob(c) \/ Cleanup(c)
      PROVE  UNCHANGED <<job, nextjob, stops, main, jobfile>>
  BY <1>3 DEF Accept, CreateData, ReadData, CreateRequest, WriteRequest, RemoveData, Reply, AddJob, SignalJob,
     Cleanup
<1>4. CASE Printer \/ SpuriousWakeup
  BY <1>4 DEF Printer, GetJob, UpdateJobno, OpenData, Send, UnlinkData, UnlinkRequest, ReplaceJob,
              SpuriousWakeup, PrinterGoes
<1>5. CASE UNCHANGED vars
  BY <1>5 DEF vars
<1>6. CASE Start \/ Stop
  BY <1>6 DEF Start, Stop
<1> QED BY <1>1, <1>2, <1>3, <1>4, <1>5, <1>6 DEF Next, Main, Client

LEMMA InitNumbering == Init => Numbering
<1> SUFFICES ASSUME Init PROVE Numbering
  OBVIOUS
<1>1. Numbered = {}
  BY DEF Init, Numbered
<1> QED BY <1>1, FS_EmptySet DEF Init, Numbering

LEMMA StepNumbering ==
  ASSUME Cardinality(Senders) <= MaxJob, Types, Serving, Numbering, [Next]_vars
  PROVE  Numbering'
<1>0. /\ job \in [Clients -> 0 .. MaxJob] /\ nextjob \in 1 .. MaxJob /\ stops \in Nat
      /\ MaxJob \in Nat \ {0} /\ Senders \subseteq Clients
  BY PrintdAssumption DEF Types, ClientTypes, DaemonTypes, HistoryTypes, Numbers
<1>1. CASE Start
  <2>1. Numbered' = Numbered
    BY <1>1 DEF Start, client, Numbered
  <2>2. stops = 0 => Cardinality(Numbered) = 0
    BY <1>1, FS_EmptySet DEF Start, Numbering
  <2> QED
    BY <1>1, <2>1, <2>2 DEF Start, client, history, Numbering
<1>2. CASE Stop
  BY <1>0, <1>2 DEF Stop, Numbering, Numbered
<1>3. ASSUME job' = job, nextjob' = nextjob, stops' = stops, main' # "down" \/ UNCHANGED <<main, jobfile>>
      PROVE  Numbering'
  BY <1>3 DEF Numbering, Numbered
<1>4. ASSUME NEW c \in Clients, TakesNumber(c) PROVE Numbering'
  <2>1. c \notin Numbered /\ c \in Senders /\ Numbered \subseteq Senders
    BY <1>4 DEF TakesNumber, Serving, Numbered, Numbering
  <2>2. Numbered' = Numbered \cup {c}
    BY <1>0, <1>4 DEF TakesNumber, Numbered
  <2>3. /\ IsFiniteSet(Senders) /\ IsFiniteSet(Numbered) /\ IsFiniteSet(Numbered')
        /\ Cardinality(Numbered) \in Nat /\ Cardinality(Numbered') \in Nat /\ Cardinality(Senders) \in Nat
    BY <2>1, <2>2, FS_Subset, FS_AddElement, FS_CardinalityType, PrintdAssumption
  <2>4. Cardinality(Numbered') = Cardinality(Numbered) + 1
    BY <2>1, <2>2, <2>3, FS_AddElement
  <2>5. Cardinality(Numbered') <= Cardinality(Senders)
    BY <2>1, <2>2, <2>3, FS_Subset
  <2>6. Cardinality(Numbered) < MaxJob
    BY <1>0, <2>3, <2>4, <2>5
  <2>7. ASSUME stops' = 0
        PROVE  /\ \A d, e \in Numbered' : job'[d] = job'[e] => d = e
               /\ \A d \in Numbered' : job'[d] <= Cardinality(Numbered')
               /\ Cardinality(Numbered') < MaxJob => nextjob' = Cardinality(Numbered') + 1
    <3>1. stops = 0 /\ nextjob = Cardinality(Numbered) + 1
      BY <1>4, <2>6, <2>7 DEF TakesNumber, history, Numbering
    <3>2. /\ \A d \in Numbered : job[d] \in Nat /\ job[d] <= Cardinality(Numbered) /\ job'[d] = job[d]
          /\ job'[c] = nextjob
          /\ \A d, e \in Numbered : job[d] = job[e] => d = e
      BY <1>0, <1>4, <2>1, <3>1 DEF TakesNumber, Numbering, Numbered
    <3>3. \A d, e \in Numbered' : job'[d] = job'[e] => d = e
      <4>1. \A d \in Numbered : job'[d] # job'[c]
        BY <2>3, <3>1, <3>2
      <4> QED BY <2>2, <3>2, <4>1
    <3>4. \A d \in Numbered' : job'[d] <= Cardinality(Numbered')
      BY <2>2, <2>3, <2>4, <3>1, <3>2
    <3>5. Cardinality(Numbered') < MaxJob => nextjob' = Cardinality(Numbered') + 1
      BY <1>0, <1>4, <2>3, <2>4, <3>1 DEF TakesNumber
    <3> QED BY <3>3, <3>4, <3>5
  <2>8. Numbered' \subseteq Senders /\ main' # "down"
    BY <1>4, <2>1, <2>2 DEF TakesNumber
  <2> QED BY <2>7, <2>8 DEF Numbering
<1> QED BY <1>1, <1>2, <1>3, <1>4, NumberKinds

(* In the first run there is no clash, and a clash stays.                  *)
LEMMA ClashReissued ==
  ASSUME Types, Numbering, NEW c \in Clients, Clash(c)
  PROVE  Reissued(c)
BY DEF Types, HistoryTypes, Numbering, Clash, Reissued, Numbered

LEMMA NumbersStay ==
  ASSUME Types, Serving, [Next]_vars
  PROVE  /\ \A c \in Numbered : c \in Numbered' /\ job'[c] = job[c]
         /\ \A c \in Clients : Clash(c) => Clash(c)'
<1>1. \A c \in Numbered : c \in Numbered' /\ job'[c] = job[c]
  <2>1. job \in [Clients -> 0 .. MaxJob]
    BY DEF Types, ClientTypes
  <2>2. ASSUME NEW c \in Clients, TakesNumber(c) PROVE \A d \in Numbered : job'[d] = job[d]
    BY <2>1, <2>2 DEF TakesNumber, Serving, Numbered
  <2>3. \A d \in Numbered : job'[d] = job[d]
    BY <2>2, NumberKinds
  <2> QED BY <2>3 DEF Numbered
<1>2. \A c \in Clients : Clash(c) => Clash(c)'
  BY <1>1 DEF Clash
<1> QED BY <1>1, <1>2
(***************************************************************************)
(* What a step may do to one number's files, and to one client.            *)
(***************************************************************************)
DataEffect(n) ==
  \/ data'[n] = data[n]
  \/ \E c \in Numbered :
       /\ job[c] = n
       /\ \/ pc[c] = "create" /\ pc'[c] = "read" /\ data'[n] = File(c, "part")
          \/ pc[c] = "read" /\ pc'[c] = "create_request" /\ data[n].of = c /\ data'[n] = File(c, "all")
          \/ /\ pc[c] \in {"read", "create_request", "unlink"} /\ pc'[c] = "cleanup"
             /\ data'[n] = NoFile
  \/ n = cur /\ printer = "unlink_data" /\ data'[n] = NoFile
  \/ main # "serve" /\ reqs[n] = NoFile /\ data'[n] = NoFile

ReqsEffect(n) ==
  \/ reqs'[n] = reqs[n]
  \/ \E c \in Numbered :
       /\ job[c] = n
       /\ \/ pc[c] = "create_request" /\ pc'[c] = "write_request" /\ reqs'[n] = File(c, "empty")
          \/ pc[c] = "write_request" /\ pc'[c] = "reply" /\ reqs[n].of = c /\ reqs'[n] = File(c, "all")
          \/ pc[c] = "write_request" /\ pc'[c] = "unlink" /\ reqs'[n] = NoFile
  \/ n = cur /\ printer = "unlink_request" /\ reqs'[n] = NoFile
  \/ /\ main # "serve" /\ reqs'[n] = NoFile
     /\ \A c \in Clients : reqs[n] = File(c, "all") => c \in lost'

ClientEffect(c) ==
  \/ pc'[c] = pc[c]
  \/ pc[c] \in {"out", "header"} /\ pc'[c] \in {"header", "create", "cleanup"}
  \/ pc[c] = "create" /\ pc'[c] = "read" /\ data'[job[c]] = File(c, "part")
  \/ pc[c] = "read" /\ pc'[c] = "create_request" /\ (data[job[c]].of = c => data'[job[c]] = File(c, "all"))
  \/ pc[c] = "create_request" /\ pc'[c] = "write_request" /\ reqs'[job[c]] = File(c, "empty") /\ data' = data
  \/ /\ pc[c] = "write_request" /\ pc'[c] = "reply" /\ data' = data
     /\ reqs[job[c]].of = c => reqs'[job[c]] = File(c, "all")
  \/ pc[c] = "reply" /\ pc'[c] = "add" /\ data' = data /\ reqs' = reqs /\ main = "serve"
  \/ pc[c] = "add" /\ pc'[c] = "signal"
  \/ pc[c] = "signal" /\ pc'[c] = "cleanup"
  \/ pc[c] = "create" /\ pc'[c] = "cleanup"
  \/ pc[c] = "write_request" /\ pc'[c] = "unlink"
  \/ /\ pc[c] \in {"read", "create_request", "unlink"} /\ pc'[c] = "cleanup"
     /\ data'[job[c]] = NoFile
  \/ pc[c] # "out" /\ pc'[c] = "done"

LEMMA StepFiles ==
  ASSUME Types, Serving, [Next]_vars
  PROVE  \A n \in Numbers : DataEffect(n) /\ ReqsEffect(n)
<1> USE DEF spool, jobs, thread, client, list, history
<1>0. data \in [Numbers -> DataFiles] /\ reqs \in [Numbers -> Requests]
      /\ pc \in [Clients -> {"out", "header", "create", "read", "create_request", "write_request",
                             "unlink", "reply", "add", "signal", "cleanup", "done"}]
  BY DEF Types, SpoolTypes, ClientTypes
<1>1. ASSUME data' = data, reqs' = reqs PROVE \A n \in Numbers : DataEffect(n) /\ ReqsEffect(n)
  BY <1>1 DEF DataEffect, ReqsEffect
<1>2. ASSUME NEW m \in Numbers, DiscardName(m) \/ DiscardData(m)
      PROVE  \A n \in Numbers : DataEffect(n) /\ ReqsEffect(n)
  BY <1>0, <1>2 DEF DiscardName, DiscardData, DataEffect, ReqsEffect
<1>13. ASSUME NEW m \in Numbers, ReadName(m) \/ SkipName(m) PROVE data' = data /\ reqs' = reqs
  BY <1>13 DEF ReadName, SkipName
<1>3. ASSUME NEW c \in Clients, CreateData(c) PROVE \A n \in Numbers : DataEffect(n) /\ ReqsEffect(n)
  BY <1>0, <1>3 DEF CreateData, Go, DataEffect, ReqsEffect, Serving, Numbered
<1>4. ASSUME NEW c \in Clients, ReadData(c) PROVE \A n \in Numbers : DataEffect(n) /\ ReqsEffect(n)
  <2>1. c \in Numbered /\ pc[c] = "read" /\ reqs' = reqs
    BY <1>4 DEF ReadData, Go, Serving, Numbered
  <2>2. CASE pc'[c] = "create_request" /\ data' = Finish(data, c)
    BY <1>0, <2>1, <2>2 DEF Finish, DataEffect, ReqsEffect
  <2>3. CASE pc'[c] = "cleanup" /\ data' = Remove(data, c)
    BY <1>0, <2>1, <2>3 DEF Remove, DataEffect, ReqsEffect
  <2> QED BY <1>0, <1>4, <2>2, <2>3 DEF ReadData, Go
<1>5. ASSUME NEW c \in Clients, CreateRequest(c) PROVE \A n \in Numbers : DataEffect(n) /\ ReqsEffect(n)
  BY <1>0, <1>5 DEF CreateRequest, Go, Remove, DataEffect, ReqsEffect, Serving, Numbered
<1>6. ASSUME NEW c \in Clients, WriteRequest(c) PROVE \A n \in Numbers : DataEffect(n) /\ ReqsEffect(n)
  <2>1. c \in Numbered /\ pc[c] = "write_request"
    BY <1>6 DEF WriteRequest, Go, Serving, Numbered
  <2>2. CASE pc'[c] = "reply" /\ data' = data /\ reqs' = Finish(reqs, c)
    BY <1>0, <2>1, <2>2 DEF Finish, DataEffect, ReqsEffect
  <2>3. CASE pc'[c] = "unlink" /\ data' = data /\ reqs' = Remove(reqs, c)
    BY <1>0, <2>1, <2>3 DEF Remove, DataEffect, ReqsEffect
  <2> QED BY <1>0, <1>6, <2>2, <2>3 DEF WriteRequest, Go
<1>14. ASSUME NEW c \in Clients, RemoveData(c) PROVE \A n \in Numbers : DataEffect(n) /\ ReqsEffect(n)
  <2>1. c \in Numbered /\ pc[c] = "unlink" /\ pc'[c] = "cleanup"
    BY <1>0, <1>14 DEF RemoveData, Go, Serving, Numbered
  <2> QED BY <1>0, <1>14, <2>1 DEF RemoveData, Remove, DataEffect, ReqsEffect
<1>7. CASE UnlinkData \/ UnlinkRequest
  BY <1>0, <1>7 DEF UnlinkData, UnlinkRequest, PrinterGoes, DataEffect, ReqsEffect
<1>8. CASE Start \/ SkipNames \/ SignalName \/ Serve \/ Stop
  BY <1>1, <1>8 DEF Start, SkipNames, SignalName, Serve, Stop
<1>9. ASSUME NEW c \in Clients,
             Accept(c) \/ Cleanup(c) \/ ReadHeader(c) \/ Reply(c) \/ AddJob(c) \/ SignalJob(c)
      PROVE  data' = data /\ reqs' = reqs
  BY <1>9 DEF Accept, Cleanup, ReadHeader, Reply, AddJob, SignalJob
<1>10. CASE GetJob \/ SpuriousWakeup \/ OpenData \/ ReplaceJob \/ UpdateJobno
  BY <1>1, <1>10 DEF GetJob, SpuriousWakeup, OpenData, ReplaceJob, UpdateJobno
<1>11. ASSUME NEW to, Send(to) PROVE data' = data /\ reqs' = reqs
  BY <1>11 DEF Send
<1>12. CASE UNCHANGED vars
  BY <1>1, <1>12 DEF vars
<1> QED
  BY <1>1, <1>2, <1>3, <1>4, <1>5, <1>6, <1>7, <1>8, <1>9, <1>10, <1>11, <1>12, <1>13,
     <1>14
  DEF Next, Main, Client, Printer

LEMMA StepClient ==
  ASSUME Types, Serving, [Next]_vars
  PROVE  /\ \A c \in Clients : ClientEffect(c)
         /\ \A c \in told' : c \in told \/ (pc[c] = "reply" /\ pc'[c] = "add")
         /\ told \subseteq told'
<1> DEFINE Goal == /\ \A c \in Clients : ClientEffect(c)
                   /\ \A c \in told' : c \in told \/ (pc[c] = "reply" /\ pc'[c] = "add")
                   /\ told \subseteq told'
<1> USE DEF spool, jobs, thread, client, list, history
<1>0. /\ data \in [Numbers -> DataFiles] /\ reqs \in [Numbers -> Requests]
      /\ pc \in [Clients -> {"out", "header", "create", "read", "create_request", "write_request",
                             "unlink", "reply", "add", "signal", "cleanup", "done"}]
      /\ told \subseteq Clients
      /\ \A c \in Clients : pc[c] \notin {"out", "header", "cleanup", "done"} =>
            job[c] \in Numbers /\ main = "serve"
  BY DEF Types, SpoolTypes, ClientTypes, DaemonTypes, Serving, Numbers
<1>1. ASSUME told' = told, pc' = pc PROVE Goal
  BY <1>1 DEF ClientEffect
<1>2. ASSUME NEW c \in Clients, Accept(c) \/ ReadHeader(c) \/ CreateData(c) PROVE Goal
  <2>1. told' = told /\ \A d \in Clients \ {c} : pc'[d] = pc[d]
    BY <1>0, <1>2 DEF Accept, ReadHeader, CreateData, Go
  <2>2. CASE Accept(c) \/ ReadHeader(c)
    BY <1>0, <2>2 DEF Accept, ReadHeader, Go, ClientEffect
  <2>3. CASE CreateData(c)
    BY <1>0, <2>3 DEF CreateData, Go, ClientEffect
  <2> QED BY <1>2, <2>1, <2>2, <2>3 DEF ClientEffect
<1>3. ASSUME NEW c \in Clients, ReadData(c) PROVE Goal
  <2>1. told' = told /\ \A d \in Clients \ {c} : pc'[d] = pc[d]
    BY <1>0, <1>3 DEF ReadData, Go
  <2>2. ClientEffect(c)
    BY <1>0, <1>3 DEF ReadData, Go, Finish, Remove, ClientEffect
  <2> QED BY <2>1, <2>2 DEF ClientEffect
<1>4. ASSUME NEW c \in Clients, CreateRequest(c) PROVE Goal
  <2>1. told' = told /\ \A d \in Clients \ {c} : pc'[d] = pc[d]
    BY <1>0, <1>4 DEF CreateRequest, Go
  <2>2. ClientEffect(c)
    BY <1>0, <1>4 DEF CreateRequest, Go, Remove, ClientEffect
  <2> QED BY <2>1, <2>2 DEF ClientEffect
<1>5. ASSUME NEW c \in Clients, WriteRequest(c) PROVE Goal
  <2>1. told' = told /\ \A d \in Clients \ {c} : pc'[d] = pc[d]
    BY <1>0, <1>5 DEF WriteRequest, Go
  <2>2. ClientEffect(c)
    BY <1>0, <1>5 DEF WriteRequest, Go, Finish, Remove, ClientEffect
  <2> QED BY <2>1, <2>2 DEF ClientEffect
<1>12. ASSUME NEW c \in Clients, RemoveData(c) PROVE Goal
  <2>1. told' = told /\ \A d \in Clients \ {c} : pc'[d] = pc[d]
    BY <1>0, <1>12 DEF RemoveData, Go
  <2>2. ClientEffect(c)
    BY <1>0, <1>12 DEF RemoveData, Go, Remove, ClientEffect
  <2> QED BY <2>1, <2>2 DEF ClientEffect
<1>6. ASSUME NEW c \in Clients, Reply(c) \/ AddJob(c) \/ SignalJob(c) PROVE Goal
  <2>1. \A d \in Clients \ {c} : pc'[d] = pc[d]
    BY <1>0, <1>6 DEF Reply, AddJob, SignalJob, Go
  <2>2. CASE Reply(c)
    BY <1>0, <2>1, <2>2 DEF Reply, Go, ClientEffect
  <2>3. CASE AddJob(c) \/ SignalJob(c)
    BY <1>0, <2>1, <2>3 DEF AddJob, SignalJob, Go, ClientEffect
  <2> QED BY <1>6, <2>2, <2>3
<1>7. ASSUME NEW c \in Clients, Cleanup(c) PROVE Goal
  BY <1>0, <1>7 DEF Cleanup, ClientEffect
<1>8. CASE Stop
  BY <1>0, <1>8 DEF Stop, ClientEffect
<1>9. CASE Main
  BY <1>1, <1>9 DEF Main, Start, ReadName, SkipName, SkipNames, DiscardName, DiscardData, SignalName,
     Serve
<1>10. CASE Printer \/ SpuriousWakeup
  <2>1. UNCHANGED client
    BY <1>10 DEF Printer, GetJob, UpdateJobno, OpenData, Send, UnlinkData, UnlinkRequest,
       ReplaceJob, SpuriousWakeup
  <2> QED BY <1>1, <2>1
<1>11. CASE UNCHANGED vars
  BY <1>1, <1>11 DEF vars
<1> QED
  BY <1>2, <1>3, <1>4, <1>5, <1>6, <1>7, <1>8, <1>9, <1>10, <1>11, <1>12 DEF Next, Client
(***************************************************************************)
(* What a step may do to the queue.                                        *)
(***************************************************************************)
Adds(c) ==
  /\ pc[c] = "add" /\ pc'[c] = "signal"
  /\ queue' = Append(queue, job[c]) /\ cur' = cur /\ names' = names

Reads(n) ==
  /\ n \in names /\ names' = names \ {n} /\ main # "serve"
  /\ reqs[n].how = "all" /\ queue' = Append(queue, n) /\ UNCHANGED <<cur, data, reqs>>

Skips ==
  /\ main # "serve" /\ names' \subseteq names /\ UNCHANGED <<queue, cur>>
  /\ \A n \in names \ names' : n \in dropped' \/ reqs[n] = NoFile

ReadsSpool ==
  /\ main = "down" /\ UNCHANGED <<queue, cur, spool>>
  /\ names' = {n \in Numbers : reqs[n] # NoFile}

Takes ==
  /\ queue # <<>> /\ queue' = Tail(queue)
  /\ cur = 0 /\ cur' = Head(queue) /\ names' = names

LetsGo ==
  /\ cur # 0 /\ cur' = 0 /\ names' = names
  /\ \/ queue' = queue /\ (cur \in dropped' \/ printer = "unlink_request")
     \/ queue' = <<cur>> \o queue

QueueEffect ==
  \/ UNCHANGED <<queue, cur, names>>
  \/ ReadsSpool \/ Skips \/ Takes \/ LetsGo
  \/ \E n \in Numbers : Reads(n)
  \/ \E c \in Clients : Adds(c)

LEMMA StepQueue ==
  ASSUME Types, Serving, [Next]_vars, main' # "down"
  PROVE  /\ QueueEffect /\ dropped \subseteq dropped'
         /\ \A c \in Clients : pc[c] = "add" => pc'[c] = "add" \/ Adds(c)
<1> USE DEF spool, jobs, thread, client, list, history
<1>0. /\ pc \in [Clients -> {"out", "header", "create", "read", "create_request", "write_request",
                             "unlink", "reply", "add", "signal", "cleanup", "done"}]
      /\ reqs \in [Numbers -> Requests] /\ PrinterTypes
  BY DEF Types, ClientTypes, SpoolTypes
<1>1. ASSUME UNCHANGED <<queue, cur, names>> PROVE QueueEffect
  BY <1>1 DEF QueueEffect
<1>2. CASE Start
  <2>1. ReadsSpool
    BY <1>2 DEF Start, ReadsSpool
  <2> QED BY <1>2, <2>1 DEF Start, QueueEffect
<1>3. ASSUME NEW n \in Numbers, ReadName(n) PROVE Reads(n) /\ UNCHANGED <<pc, dropped>>
  BY <1>0, <1>3 DEF ReadName, Reads
<1>13. ASSUME NEW n \in Numbers, SkipName(n) \/ DiscardData(n)
       PROVE  Skips /\ dropped \subseteq dropped' /\ pc' = pc
  BY <1>13 DEF SkipName, DiscardData, Skips
<1>14. CASE SkipNames
  <2>1. Skips /\ dropped \subseteq dropped' /\ pc' = pc
    BY <1>14 DEF SkipNames, Skips
  <2> QED BY <2>1 DEF QueueEffect
<1>15. ASSUME NEW n \in Numbers, DiscardName(n) PROVE UNCHANGED <<queue, cur, names, pc, dropped>>
  BY <1>15 DEF DiscardName
<1>4. CASE SignalName \/ Serve
  BY <1>1, <1>4 DEF SignalName, SignalPrinter, Serve
<1>5. ASSUME NEW c \in Clients,
             \/ Accept(c) \/ Cleanup(c) \/ ReadHeader(c) \/ CreateData(c) \/ ReadData(c)
             \/ CreateRequest(c) \/ WriteRequest(c) \/ RemoveData(c) \/ Reply(c) \/ SignalJob(c)
      PROVE  /\ UNCHANGED <<queue, cur, names, dropped>>
             /\ \A d \in Clients : pc[d] = "add" => pc'[d] = "add"
  <2>1. pc[c] # "add" /\ \A d \in Clients \ {c} : pc'[d] = pc[d]
    BY <1>0, <1>5
    DEF Accept, Cleanup, ReadHeader, CreateData, ReadData, CreateRequest, WriteRequest, RemoveData,
        Reply, SignalJob, Go
  <2>2. UNCHANGED <<queue, cur, names, dropped>>
    BY <1>5 DEF Accept, Cleanup, ReadHeader, CreateData, ReadData, CreateRequest, WriteRequest,
       RemoveData, Reply, SignalJob, SignalPrinter
  <2> QED BY <2>1, <2>2
<1>6. ASSUME NEW c \in Clients, AddJob(c)
      PROVE  Adds(c) /\ dropped' = dropped /\ \A d \in Clients \ {c} : pc'[d] = pc[d]
  BY <1>0, <1>6 DEF AddJob, Adds, Go
<1>7. CASE GetJob
  <2>1. cur = 0 /\ UNCHANGED <<pc, dropped>>
    BY <1>0, <1>7 DEF GetJob, PrinterGoes, PrinterTypes
  <2>2. UNCHANGED <<queue, cur, names>> \/ Takes
    BY <1>7, <2>1 DEF GetJob, Takes
  <2> QED BY <2>1, <2>2 DEF QueueEffect
<1>8. CASE SpuriousWakeup \/ UpdateJobno \/ UnlinkData
  BY <1>1, <1>8 DEF SpuriousWakeup, UpdateJobno, UnlinkData
<1>9. ASSUME NEW to, Send(to) PROVE UNCHANGED <<queue, cur, names, pc, dropped>>
  BY <1>9 DEF Send
<1>10. CASE OpenData \/ UnlinkRequest \/ ReplaceJob
  <2>1. pc' = pc /\ dropped \subseteq dropped'
    BY <1>10 DEF OpenData, UnlinkRequest, ReplaceJob
  <2>2. UNCHANGED <<queue, cur, names>> \/ LetsGo
    BY <1>0, <1>10 DEF OpenData, UnlinkRequest, ReplaceJob, PrinterGoes, PrinterTypes, LetsGo
  <2> QED BY <2>1, <2>2 DEF QueueEffect
<1>11. CASE UNCHANGED vars
  BY <1>1, <1>11 DEF vars
<1>12. ~Stop
  BY DEF Stop
<1> QED
  BY <1>1, <1>2, <1>3, <1>4, <1>5, <1>6, <1>7, <1>8, <1>9, <1>10, <1>11, <1>12, <1>13,
     <1>14, <1>15
  DEF Next, Main, Client, Printer, QueueEffect

LEMMA StepLost == [Next]_vars => lost \subseteq lost'
<1> SUFFICES ASSUME [Next]_vars PROVE lost \subseteq lost'
  OBVIOUS
<1> USE DEF history
<1>1. CASE Main
  BY <1>1 DEF Main, Start, ReadName, SkipName, SkipNames, DiscardName, DiscardData, SignalName, Serve
<1>2. ASSUME NEW c \in Clients, Accept(c) \/ Client(c) PROVE lost' = lost
  BY <1>2 DEF Accept, Client, ReadHeader, CreateData, ReadData, CreateRequest, WriteRequest,
     RemoveData, Reply, AddJob, SignalJob, Cleanup
<1>3. CASE Printer \/ SpuriousWakeup \/ Stop \/ UNCHANGED vars
  BY <1>3 DEF Printer, GetJob, UpdateJobno, OpenData, Send, UnlinkData, UnlinkRequest, ReplaceJob,
     SpuriousWakeup, Stop, vars
<1> QED BY <1>1, <1>2, <1>3 DEF Next
(* A number that comes to be queued or picked up is one whose files were   *)
(* spooled whole.                                                          *)
LEMMA StepHeld ==
  ASSUME Types, Serving, [Next]_vars, NEW n \in Numbers, n = cur' \/ In(n, queue')
  PROVE  \/ n = cur \/ In(n, queue)
         \/ \E c \in Clients : pc[c] = "add" /\ pc'[c] = "signal" /\ job[c] = n
         \/ reqs[n].how = "all" /\ main # "serve" /\ UNCHANGED <<data, reqs>>
<1>0. queue \in Seq(Numbers) /\ n # 0 /\ cur \in 0 .. MaxJob
  BY PrintdAssumption DEF Types, DaemonTypes, PrinterTypes, Numbers
<1>1. CASE main' = "down"
  <2>1. cur' = 0 /\ queue' = <<>>
    BY <1>1, StepServing DEF Serving
  <2> QED BY <1>0, <2>1 DEF In
<1>2. CASE UNCHANGED <<queue, cur, names>> \/ ReadsSpool \/ Skips
  BY <1>2 DEF ReadsSpool, Skips, In
<1>3. CASE Takes
  BY <1>0, <1>3, InTail DEF Takes
<1>4. CASE LetsGo
  <2>1. cur \in Numbers /\ cur' = 0
    BY <1>0, <1>4, PrintdAssumption DEF LetsGo, Numbers
  <2>2. In(n, <<cur>> \o queue) => In(n, queue) \/ n = cur
    BY <1>0, <2>1, InPutBack
  <2>3. In(n, queue')
    BY <1>0, <2>1
  <2> QED BY <1>4, <2>2, <2>3 DEF LetsGo
<1>5. ASSUME NEW m \in Numbers, Reads(m)
      PROVE  \/ n = cur \/ In(n, queue)
             \/ n = m /\ reqs[m].how = "all" /\ main # "serve" /\ UNCHANGED <<data, reqs>>
  <2>1. In(n, Append(queue, m)) => In(n, queue) \/ n = m
    BY <1>0, InAppend
  <2> QED BY <1>5, <2>1 DEF Reads
<1>6. ASSUME NEW c \in Clients, Adds(c) PROVE (n = cur \/ In(n, queue)) \/ n = job[c]
  <2>1. job[c] \in Numbers
    BY <1>6 DEF Adds, Serving, Types, ClientTypes, Numbers
  <2> QED BY <1>0, <1>6, <2>1, InAppend DEF Adds
<1> QED BY <1>1, <1>2, <1>3, <1>4, <1>5, <1>6, StepQueue DEF QueueEffect, Adds

LEMMA StepSpooled ==
  ASSUME Types, Serving, [Next]_vars, NEW c \in Clients, Spooled(c)
  PROVE  Spooled(c)' /\ job'[c] = job[c]
<1>1. c \in Numbered /\ c \in Numbered' /\ job'[c] = job[c] /\ job[c] \in Numbers
  BY NumbersStay DEF Spooled, Types, ClientTypes, Numbers, Numbered
<1>2. pc'[c] \in {"signal", "cleanup", "done"}
  BY StepClient DEF Spooled, ClientEffect
<1>3. data'[job[c]] # File(c, "part")
  <2>1. DataEffect(job[c])
    BY <1>1, StepFiles
  <2>2. \A d \in Clients : File(d, "all") # File(c, "part") /\ (File(d, "part") = File(c, "part") => d = c)
    BY DEF File
  <2>3. NoFile # File(c, "part")
    BY Files
  <2> QED BY <1>1, <2>1, <2>2, <2>3 DEF DataEffect, Spooled, Numbered
<1> QED BY <1>1, <1>2, <1>3 DEF Spooled

LEMMA StepPrinted ==
  ASSUME Types, Serving, [Next]_vars
  PROVE  /\ printed \subseteq printed'
         /\ \A f \in printed' : f \in printed
                \/ (cur \in Numbers /\ f = data[cur] /\ f # NoFile /\ f \in DataFiles)
         /\ printer' \in {"unlink_data", "unlink_request"} =>
              /\ cur' = cur /\ cur \in Numbers
              /\ printer \in {"unlink_data", "unlink_request"} \/ (data[cur] # NoFile => data[cur] \in printed')
<1> DEFINE Goal == /\ printed \subseteq printed'
                   /\ \A f \in printed' : f \in printed
                          \/ (cur \in Numbers /\ f = data[cur] /\ f # NoFile /\ f \in DataFiles)
                   /\ printer' \in {"unlink_data", "unlink_request"} =>
                        /\ cur' = cur /\ cur \in Numbers
                        /\ printer \in {"unlink_data", "unlink_request"}
                              \/ (data[cur] # NoFile => data[cur] \in printed')
<1> USE DEF spool, jobs, thread, client, list, history
<1>0. PrinterTypes /\ (printer \notin {"get", "asleep"} => cur \in Numbers) /\ data \in [Numbers -> DataFiles]
  BY DEF Types, PrinterTypes, Numbers, SpoolTypes
<1>1. ASSUME printed' = printed, UNCHANGED thread \/ SignalPrinter PROVE Goal
  BY <1>0, <1>1 DEF SignalPrinter
<1>2. CASE Main
  BY <1>1, <1>2 DEF Main, Start, ReadName, SkipName, SkipNames, DiscardName, DiscardData, SignalName,
     Serve
<1>3. CASE Stop
  BY <1>3 DEF Stop
<1>4. ASSUME NEW c \in Clients, Accept(c) \/ Client(c) PROVE printed' = printed /\ (UNCHANGED thread \/ SignalPrinter)
  BY <1>4 DEF Accept, Client, ReadHeader, CreateData, ReadData, CreateRequest, WriteRequest, RemoveData,
     Reply, AddJob, SignalJob, Cleanup
<1>5. CASE GetJob \/ SpuriousWakeup \/ UpdateJobno \/ OpenData \/ UnlinkRequest \/ ReplaceJob
  <2>1. printed' = printed /\ printer' \notin {"unlink_data", "unlink_request"}
    BY <1>5 DEF GetJob, SpuriousWakeup, UpdateJobno, OpenData, UnlinkRequest, ReplaceJob,
       PrinterGoes
  <2> QED BY <2>1
<1>6. CASE UnlinkData
  BY <1>0, <1>6 DEF UnlinkData, PrinterGoes
<1>7. ASSUME NEW to \in {"unlink_data", "replace"}, Send(to) PROVE Goal
  <2>1. cur \in Numbers /\ cur' = cur /\ printer' = to /\ data[cur] \in DataFiles /\ NoFile \notin printed
    <3>1. NoFile \notin [of : Clients, how : {"part", "all"}]
      BY PrintdAssumption DEF NoFile, File
    <3> QED BY <1>0, <1>7, <3>1 DEF Send, PrinterGoes, Types, HistoryTypes
  <2>2. printed' = (printed \cup {data[cur]}) \ {NoFile} \/ (printed' = printed /\ to = "replace")
    BY <1>7 DEF Send
  <2> QED BY <2>1, <2>2
<1>8. CASE UNCHANGED vars
  BY <1>1, <1>8 DEF vars
<1> QED BY <1>1, <1>2, <1>3, <1>4, <1>5, <1>6, <1>7, <1>8 DEF Next, Printer
(***************************************************************************)
(* The spool.                                                              *)
(***************************************************************************)
LEMMA InitOwned == Init => Owned /\ Kept /\ Placed
<1> SUFFICES ASSUME Init PROVE Owned /\ Kept /\ Placed
  OBVIOUS
<1>1. Owned
  BY Files DEF Init, Owned, Numbers, In
<1>2. Kept /\ Placed
  BY DEF Init, Kept, SpoolOf, Placed
<1> QED BY <1>1, <1>2

LEMMA OwnedFacts ==
  ASSUME Types, Owned, NEW n \in Numbers
  PROVE  /\ n # 0 /\ data[n] \in DataFiles /\ reqs[n] \in Requests
         /\ data[n] # NoFile => data[n].of \in Numbered /\ job[data[n].of] = n
         /\ reqs[n] # NoFile => reqs[n].of \in Numbered /\ job[reqs[n].of] = n
<1>1. data[n] \in DataFiles /\ reqs[n] \in Requests /\ n # 0
  BY DEF Types, SpoolTypes, Numbers
<1>2. /\ data[n] # NoFile => data[n].of \in Clients
      /\ reqs[n] # NoFile => reqs[n].of \in Clients
  BY <1>1, Files
<1> QED BY <1>1, <1>2 DEF Owned, Numbered

LEMMA StepOwned ==
  ASSUME Types, Serving, Owned, [Next]_vars
  PROVE  Owned'
<1>0. /\ \A c \in Numbered : c \in Numbered' /\ job'[c] = job[c]
      /\ \A c \in Clients : ClientEffect(c)
      /\ Types' /\ Serving' /\ NULL \notin Clients
      /\ \A c \in Numbered : c \in Clients
  BY NumbersStay, StepClient, StepTypes, StepServing, PrintdAssumption DEF Numbered
<1>1. ASSUME NEW n \in Numbers
      PROVE  data'[n] # NoFile => job'[data'[n].of] = n
  <2>1. DataEffect(n)
    BY <1>1, StepFiles
  <2> QED BY <1>0, <1>1, <2>1, Files, OwnedFacts DEF DataEffect
<1>2. ASSUME NEW n \in Numbers, reqs'[n] # NoFile
      PROVE  /\ job'[reqs'[n].of] = n
             /\ pc'[reqs'[n].of] \in
                  {"write_request", "unlink", "reply", "add", "signal", "cleanup", "done"}
  <2>1. ReqsEffect(n)
    BY <1>2, StepFiles
  <2>2. CASE reqs'[n] = reqs[n]
    <3>1. /\ reqs[n].of \in Numbered /\ job[reqs[n].of] = n
          /\ pc[reqs[n].of] \in
               {"write_request", "unlink", "reply", "add", "signal", "cleanup", "done"}
      BY <1>2, <2>2, OwnedFacts DEF Owned
    <3>2. ClientEffect(reqs[n].of)
      BY <1>0, <3>1
    <3> QED BY <1>0, <2>2, <3>1, <3>2 DEF ClientEffect
  <2>3. CASE reqs'[n] # reqs[n]
    BY <1>0, <1>2, <2>1, <2>3, Files DEF ReqsEffect
  <2> QED BY <2>2, <2>3
<1>3. ASSUME NEW n \in Numbers, data'[n].how = "part"
      PROVE  pc'[data'[n].of] \in {"read", "done"} /\ reqs'[n].of # data'[n].of
  <2>1. DataEffect(n) /\ ReqsEffect(n)
    BY <1>3, StepFiles
  <2>2. data'[n] # NoFile
    BY <1>3, Files
  <2>3. CASE data'[n] = data[n]
    <3> DEFINE d == data[n].of
    <3>1. /\ d \in Numbered /\ job[d] = n /\ pc[d] \in {"read", "done"} /\ reqs[n].of # d
          /\ ClientEffect(d)
      BY <1>0, <1>3, <2>2, <2>3, OwnedFacts DEF Owned
    <3> HIDE DEF d
    <3>2. pc'[d] \in {"read", "done"}
      <4>1. data'[job[d]] # NoFile /\ data'[job[d]] # File(d, "all") /\ data[job[d]].of = d
        BY <1>0, <1>3, <2>2, <2>3, <3>1, Files DEF d
      <4> QED BY <3>1, <4>1 DEF ClientEffect
    <3>3. reqs'[n].of # d
      BY <1>0, <2>1, <3>1, Files DEF ReqsEffect
    <3> QED BY <2>3, <3>2, <3>3 DEF d
  <2>4. CASE data'[n] # data[n]
    <3>1. PICK c \in Numbered : job[c] = n /\ pc[c] = "create" /\ pc'[c] = "read" /\ data'[n] = File(c, "part")
      BY <1>0, <1>3, <2>1, <2>2, <2>4, Files DEF DataEffect
    <3>2. reqs[n].of # c
      <4>1. reqs[n] = NoFile => reqs[n].of # c
        BY <1>0, Files
      <4> QED BY <1>3, <3>1, <4>1 DEF Owned
    <3>3. reqs'[n].of # c
      BY <1>0, <2>1, <3>1, <3>2, Files DEF ReqsEffect
    <3> QED BY <1>0, <3>1, <3>3, Files
  <2> QED BY <2>3, <2>4
<1>4. ASSUME NEW n \in Numbers, n = cur' \/ In(n, queue')
      PROVE  \E c \in Clients : Spooled(c)' /\ job'[c] = n
  <2>1. CASE n = cur \/ In(n, queue)
    <3>1. PICK c \in Clients : Spooled(c) /\ job[c] = n
      BY <1>4, <2>1 DEF Owned
    <3> QED BY <3>1, StepSpooled
  <2>2. ASSUME NEW c \in Clients, pc[c] = "add", pc'[c] = "signal", job[c] = n
        PROVE  Spooled(c)' /\ job'[c] = n
    <3>1. c \in Numbered
      BY <2>2 DEF Serving, Numbered
    <3>2. data'[n] # File(c, "part")
      BY <1>3, <2>2, Files
    <3> QED BY <1>0, <2>2, <3>1, <3>2 DEF Spooled
  <2>3. CASE reqs[n].how = "all" /\ main # "serve" /\ UNCHANGED <<data, reqs>>
    <3>1. reqs[n] # NoFile
      BY <2>3, Files
    <3>2. PICK c \in Numbered : c = reqs[n].of /\ job[c] = n /\ pc[c] = "done"
      BY <1>0, <1>4, <2>3, <3>1, OwnedFacts DEF Owned, Serving
    <3>3. pc'[c] = "done"
      BY <1>0, <3>2 DEF ClientEffect
    <3>4. data[n] # File(c, "part")
      BY <1>0, <1>4, <3>2, Files DEF Owned
    <3>5. Spooled(c)' /\ job'[c] = n
      BY <1>0, <2>3, <3>2, <3>3, <3>4 DEF Spooled
    <3> QED BY <1>0, <3>2, <3>5
  <2> QED BY <1>4, <2>1, <2>2, <2>3, StepHeld
<1>5. ASSUME NEW f \in printed' PROVE f.of \in Numbered'
  BY <1>0, <1>5, StepPrinted, OwnedFacts DEF Owned
<1> QED BY <1>1, <1>2, <1>3, <1>4, <1>5 DEF Owned
(* What is queued or picked up under a client's number, when no other had  *)
(* it, is its own; and nobody but itself and the printer touch its files.  *)
LEMMA OwnPlace ==
  ASSUME Owned, NEW c \in Numbered, ~Clash(c), job[c] \in Numbers, job[c] = cur \/ In(job[c], queue)
  PROVE  pc[c] \in {"signal", "cleanup", "done"}
BY DEF Owned, Clash, Spooled

LEMMA OwnFiles ==
  ASSUME Types, Serving, [Next]_vars, Owned, NEW c \in Numbered, ~Clash(c)
  PROVE  /\ job[c] \in Numbers
         /\ \/ data'[job[c]] = data[job[c]]
            \/ pc[c] \in {"create", "read", "create_request", "unlink"} /\ pc'[c] # pc[c]
            \/ /\ pc[c] \in {"signal", "cleanup", "done"}
               /\ printer = "unlink_data" /\ job[c] = cur
            \/ pc[c] = "done" /\ reqs[job[c]] = NoFile
         /\ \/ reqs'[job[c]] = reqs[job[c]]
            \/ pc[c] \in {"create_request", "write_request"} /\ pc'[c] # pc[c]
            \/ /\ pc[c] \in {"signal", "cleanup", "done"}
               /\ printer = "unlink_request" /\ job[c] = cur
            \/ pc[c] = "done" /\ (reqs[job[c]] = File(c, "all") => c \in lost')
<1>1. job[c] \in Numbers
  BY DEF Types, ClientTypes, Numbers, Numbered
<1>2. c \in Clients /\ \A d \in Numbered : job[d] = job[c] => d = c
  BY DEF Clash, Numbered
<1>3. job[c] = cur => pc[c] \in {"signal", "cleanup", "done"}
  BY <1>1, OwnPlace
<1>4. main # "serve" => pc[c] = "done"
  BY DEF Serving, Numbered
<1>5. DataEffect(job[c]) /\ ReqsEffect(job[c])
  BY <1>1, StepFiles
<1> QED BY <1>1, <1>2, <1>3, <1>4, <1>5 DEF DataEffect, ReqsEffect

LEMMA StepSpoolOf ==
  ASSUME Types, Serving, [Next]_vars, Owned, NEW c \in Clients, ~Clash(c), SpoolOf(c)
  PROVE  SpoolOf(c)'
<1>0. /\ ClientEffect(c) /\ (c \in told' => c \in told \/ (pc[c] = "reply" /\ pc'[c] = "add"))
      /\ printed \subseteq printed' /\ lost \subseteq lost'
  BY StepClient, StepPrinted, StepLost
<1>1. CASE c \notin Numbered
  <2>1. pc[c] \in {"out", "header", "cleanup", "done"} /\ c \notin told
    BY <1>1 DEF Serving, Numbered
  <2>2. pc'[c] \in {"out", "header", "create", "cleanup", "done"} /\ c \notin told'
    BY <1>0, <2>1 DEF ClientEffect
  <2> QED BY <2>2 DEF SpoolOf
<1>2. CASE c \in Numbered
  <2> DEFINE n == job[c]
  <2>1. job'[c] = job[c]
    BY <1>2, NumbersStay
  <2>2. /\ pc'[c] = "read" => data'[n] = File(c, "part")
        /\ pc'[c] \in {"create_request", "write_request"} => data'[n] = File(c, "all")
        /\ pc'[c] = "write_request" => reqs'[n] = File(c, "empty")
        /\ pc'[c] = "reply" => data'[n] = File(c, "all") /\ reqs'[n] = File(c, "all")
    BY <1>0, <1>2, OwnFiles, Files DEF ClientEffect, SpoolOf, Whole
  <2>3. ASSUME c \in told' PROVE Taken(c)' \/ c \in lost' \/ Whole(c)'
    <3>1. CASE c \in told /\ (Taken(c) \/ c \in lost)
      BY <1>0, <3>1 DEF Taken
    <3>2. CASE c \in told /\ ~Taken(c) /\ c \notin lost
      <4>1. Whole(c) /\ pc[c] \in {"add", "signal", "cleanup", "done"}
        BY <3>2 DEF SpoolOf, Serving
      <4>2. ~(job[c] = cur /\ printer \in {"unlink_data", "unlink_request"})
        BY <3>2 DEF SpoolOf
      <4>3. reqs[n] = File(c, "all") /\ reqs[n] # NoFile
        BY <4>1, Files DEF Whole
      <4>4. data'[n] = data[n] /\ (reqs'[n] = reqs[n] \/ c \in lost')
        BY <1>2, <4>1, <4>2, <4>3, OwnFiles
      <4> QED BY <2>1, <4>1, <4>4 DEF Whole
    <3>3. CASE pc[c] = "reply" /\ pc'[c] = "add"
      BY <1>0, <2>1, <3>3 DEF ClientEffect, SpoolOf, Whole
    <3> QED BY <1>0, <2>3, <3>1, <3>2, <3>3
  <2>4. ASSUME c \in told', job'[c] = cur', printer' \in {"unlink_data", "unlink_request"}
        PROVE  Taken(c)' \/ c \in lost'
    <3>1. /\ job[c] = cur /\ cur \in Numbers
          /\ printer \in {"unlink_data", "unlink_request"} \/ (data[cur] # NoFile => data[cur] \in printed')
      BY <2>1, <2>4, StepPrinted
    <3>2. pc[c] \in {"signal", "cleanup", "done"}
      BY <1>2, <3>1, OwnPlace
    <3>3. c \in told
      BY <1>0, <2>4, <3>2
    <3>4. CASE Taken(c) \/ c \in lost
      BY <1>0, <3>4 DEF Taken
    <3>5. CASE ~Taken(c) /\ c \notin lost
      <4>1. data[cur] = File(c, "all") /\ printer \notin {"unlink_data", "unlink_request"}
        BY <3>1, <3>3, <3>5 DEF SpoolOf, Whole
      <4> QED BY <3>1, <4>1, Files DEF Taken
    <3> QED BY <3>4, <3>5
  <2> QED BY <2>1, <2>2, <2>3, <2>4 DEF SpoolOf, Whole
<1> QED BY <1>1, <1>2

LEMMA StepKept ==
  ASSUME Types, Serving, [Next]_vars, Owned, Kept
  PROVE  Kept'
<1>1. ASSUME NEW c \in Clients PROVE (Clash(c) \/ SpoolOf(c))'
  BY <1>1, NumbersStay, StepSpoolOf DEF Kept
<1>2. ASSUME NEW f \in printed' PROVE Clash(f.of)' \/ f.how = "all"
  <2>1. CASE f \in printed
    <3>1. f.of \in Clients
      BY <2>1 DEF Owned, Numbered
    <3> QED BY <2>1, <3>1, NumbersStay DEF Kept
  <2>2. CASE f \notin printed /\ f.how # "all"
    <3>1. cur \in Numbers /\ f = data[cur] /\ f # NoFile /\ f \in DataFiles
      BY <1>2, <2>2, StepPrinted
    <3>2. f.of \in Numbered /\ job[f.of] = cur /\ f = File(f.of, "part")
      <4>1. f.how = "part"
        BY <2>2, <3>1, PrintdAssumption DEF DataFiles
      <4> QED BY <3>1, <4>1, OwnedFacts, Files
    <3>3. PICK d \in Clients : Spooled(d) /\ job[d] = cur
      BY <3>1 DEF Owned
    <3>4. Clash(f.of) /\ f.of \in Clients
      BY <3>1, <3>2, <3>3 DEF Spooled, Clash, Numbered
    <3> QED BY <3>4, NumbersStay
  <2> QED BY <2>1, <2>2
<1> QED BY <1>1, <1>2 DEF Kept
(***************************************************************************)
(* The places of an accepted job.                                          *)
(***************************************************************************)
LEMMA StartsUp ==
  ASSUME Types, Serving, [Next]_vars, main = "down", main' # "down"
  PROVE  Start
<1> USE DEF list, client, history, jobs, thread, spool
<1>1. ASSUME NEW c \in Clients, Client(c) PROVE FALSE
  BY <1>1 DEF Client, ReadHeader, CreateData, ReadData, CreateRequest, WriteRequest, RemoveData,
              Reply, AddJob, SignalJob, Cleanup, Go, Serving
<1>2. ASSUME NEW c \in Clients PROVE ~Accept(c)
  BY DEF Accept
<1>3. ~Stop /\ ~SpuriousWakeup
  BY DEF Stop, SpuriousWakeup, PrinterGoes
<1>4. ~Printer
  BY DEF Printer, GetJob, UpdateJobno, OpenData, Send, UnlinkData, UnlinkRequest, ReplaceJob,
     PrinterGoes
<1>5. ~(UNCHANGED vars)
  BY DEF vars
<1>6. /\ ~SkipNames /\ ~SignalName /\ ~Serve
      /\ \A n \in Numbers : ~ReadName(n) /\ ~SkipName(n) /\ ~DiscardName(n) /\ ~DiscardData(n)
  BY DEF SkipNames, SignalName, Serve, ReadName, SkipName, DiscardName, DiscardData
<1> QED BY <1>1, <1>2, <1>3, <1>4, <1>5, <1>6 DEF Next, Main

(* A client that is told now has its job nowhere but with its thread.      *)
LEMMA NewPlace ==
  ASSUME Types, Serving, [Next]_vars, Owned, main' # "down",
         NEW c \in Clients, ~Clash(c), pc[c] = "reply", pc'[c] = "add"
  PROVE  PlaceOf(c)'
<1>1. c \in Numbered /\ job[c] \in Numbers /\ job'[c] = job[c] /\ main = "serve" /\ names = {}
  BY NumbersStay DEF Serving, Numbered, Types, ClientTypes, Numbers
<1>2. ~(job[c] = cur \/ In(job[c], queue))
  BY <1>1, OwnPlace
<1>3. ASSUME NEW d \in Clients, pc[d] = "add" PROVE job[d] # job[c]
  <2>1. d \in Numbered /\ d # c
    BY <1>3 DEF Serving, Numbered
  <2> QED BY <1>1, <2>1 DEF Clash
<1>4. ~(job[c] = cur' \/ In(job[c], queue'))
  BY <1>1, <1>2, <1>3, StepHeld
<1>5. names' = {}
  BY <1>1, StepQueue DEF QueueEffect, ReadsSpool, Skips, Takes, LetsGo, Reads, Adds
<1>6. Once(job[c], queue')
  BY <1>4 DEF Once, In
<1> QED BY <1>1, <1>4, <1>5, <1>6 DEF PlaceOf

(* A job that is whole on the spool when the daemon starts is found.       *)
LEMMA FoundPlace ==
  ASSUME Types, Serving, [Next]_vars, main = "down", main' # "down",
         NEW c \in told, Whole(c)
  PROVE  PlaceOf(c)'
<1>1. /\ c \in Clients /\ job[c] \in Numbers /\ job'[c] = job[c]
      /\ pc[c] \in {"out", "done"} /\ queue = <<>> /\ cur = 0
  BY NumbersStay DEF Serving, Numbered, Types, ClientTypes, Numbers
<1>2. UNCHANGED <<queue, cur, pc>> /\ names' = {n \in Numbers : reqs[n] # NoFile}
  BY StartsUp DEF Start, thread, client
<1>3. reqs[job[c]] # NoFile
  BY <1>1, Files DEF Whole
<1>4. job[c] # 0
  BY <1>1 DEF Numbers
<1>5. ~In(job[c], queue') /\ Once(job[c], queue')
  BY <1>1, <1>2 DEF In, Once
<1> QED BY <1>1, <1>2, <1>3, <1>4, <1>5 DEF PlaceOf

LEMMA StepPlace ==
  ASSUME Types, Serving, [Next]_vars, main # "down", main' # "down",
         NEW c \in told, ~Clash(c), Whole(c), PlaceOf(c),
         ~(job[c] = cur /\ printer = "unlink_request")
  PROVE  PlaceOf(c)'
<1> DEFINE n == job[c]
<1>0. /\ c \in Clients /\ c \in Numbered /\ n \in Numbers /\ n # 0 /\ job'[c] = n
      /\ queue \in Seq(Numbers) /\ cur \in 0 .. MaxJob /\ dropped \subseteq dropped'
      /\ reqs[n].how = "all"
  BY NumbersStay, StepQueue, Files
  DEF Serving, Numbered, Types, ClientTypes, DaemonTypes, PrinterTypes, Numbers, Whole
<1>1. pc'[c] = "add" => pc[c] = "add"
  BY <1>0, StepClient DEF Serving, ClientEffect
<1>2. QueueEffect /\ (pc[c] = "add" => pc'[c] = "add" \/ Adds(c))
  BY <1>0, StepQueue
<1> HIDE DEF n
<1>p. /\ Once(n, queue)
      /\ In(n, queue) => cur # n /\ pc[c] # "add" /\ n \notin names
      /\ cur = n => pc[c] # "add" /\ n \notin names
      /\ In(n, queue) \/ cur = n \/ pc[c] = "add" \/ n \in names \/ n \in dropped
  BY DEF PlaceOf, n
<1> DEFINE Goal ==
      /\ Once(n, queue')
      /\ In(n, queue') => cur' # n /\ pc'[c] # "add" /\ n \notin names'
      /\ cur' = n => pc'[c] # "add" /\ n \notin names'
      /\ In(n, queue') \/ cur' = n \/ pc'[c] = "add" \/ n \in names' \/ n \in dropped'
<1> SUFFICES Goal
  BY <1>0 DEF PlaceOf
<1>3. CASE Adds(c)
  <2>1. names = {}
    BY <1>0, <1>3 DEF Adds, Serving
  <2>2. queue' = Append(queue, n) /\ cur' = cur /\ names' = {} /\ pc[c] = "add" /\ pc'[c] = "signal"
    BY <1>3, <2>1 DEF Adds, n
  <2> QED BY <1>0, <1>p, <2>2, InAppend
<1>4. CASE ~Adds(c)
  <2>1. pc'[c] = "add" <=> pc[c] = "add"
    BY <1>1, <1>2, <1>4
  <2>2. CASE UNCHANGED <<queue, cur, names>>
    BY <1>0, <1>p, <2>1, <2>2
  <2>3. CASE Takes
    <3>1. /\ queue' = Tail(queue) /\ cur = 0 /\ cur' = Head(queue) /\ names' = names
          /\ In(n, queue) <=> In(n, Tail(queue)) \/ n = Head(queue)
          /\ Once(n, Tail(queue)) /\ (n = Head(queue) => ~In(n, Tail(queue)))
      BY <1>0, <1>p, <2>3, InTail DEF Takes
    <3> QED BY <1>0, <1>p, <2>1, <3>1
  <2>4. CASE LetsGo
    <3>1. cur \in Numbers /\ cur' = 0 /\ names' = names
      BY <1>0, <2>4, PrintdAssumption DEF LetsGo, Numbers
    <3>2. CASE queue' = queue /\ (cur \in dropped' \/ printer = "unlink_request")
      BY <1>0, <1>p, <2>1, <3>1, <3>2 DEF n
    <3>3. CASE queue' = <<cur>> \o queue
      <4>1. /\ In(n, queue') <=> In(n, queue) \/ n = cur
            /\ Once(n, queue')
        BY <1>0, <1>p, <3>1, <3>3, InPutBack
      <4> QED BY <1>0, <1>p, <2>1, <3>1, <4>1
    <3> QED BY <2>4, <3>2, <3>3 DEF LetsGo
  <2>5. ASSUME NEW m \in Numbers, Reads(m) PROVE Goal
    <3>1. m \in names /\ names' = names \ {m} /\ cur' = cur /\ queue' = Append(queue, m)
      BY <2>5 DEF Reads
    <3>2. /\ In(n, queue') <=> In(n, queue) \/ n = m
          /\ Once(n, queue')
      BY <1>0, <1>p, <3>1, InAppend
    <3>3. pc[c] # "add"
      BY <1>0, <2>5 DEF Reads, Serving
    <3> QED BY <1>0, <1>p, <2>1, <3>1, <3>2, <3>3
  <2>7. CASE Skips
    <3>1. /\ UNCHANGED <<queue, cur>> /\ names' \subseteq names
          /\ n \in names => n \in names' \/ n \in dropped'
      BY <1>0, <2>7, Files DEF Skips
    <3> QED BY <1>0, <1>p, <2>1, <3>1
  <2>6. ASSUME NEW d \in Clients, Adds(d) PROVE Goal
    <3>1. d \in Numbered /\ d # c /\ job[d] \in Numbers
      BY <1>4, <2>6 DEF Adds, Serving, Numbered, Types, ClientTypes, Numbers
    <3>2. job[d] # n
      BY <1>0, <3>1 DEF Clash, n
    <3>3. /\ In(n, queue') <=> In(n, queue)
          /\ Once(n, queue')
      BY <1>0, <1>p, <2>6, <3>1, <3>2, InAppend DEF Adds
    <3> QED BY <1>0, <1>p, <2>1, <2>6, <3>3 DEF Adds
  <2> QED BY <1>2, <2>2, <2>3, <2>4, <2>5, <2>6, <2>7 DEF QueueEffect, ReadsSpool
<1> QED BY <1>3, <1>4

LEMMA StepPlaced ==
  ASSUME Types, Serving, [Next]_vars, Owned, Kept, Placed
  PROVE  Placed'
<1> SUFFICES ASSUME main' # "down", NEW c \in told', ~Taken(c)', c \notin lost', ~Clash(c)'
             PROVE  PlaceOf(c)'
  BY DEF Placed
<1>1. /\ c \in Clients /\ ~Taken(c) /\ c \notin lost /\ ~Clash(c)
      /\ c \in told \/ (pc[c] = "reply" /\ pc'[c] = "add")
  BY StepTypes, StepClient, StepPrinted, StepLost, NumbersStay DEF Types, ClientTypes, Taken
<1>2. CASE c \notin told
  BY <1>1, <1>2, NewPlace
<1>3. CASE c \in told
  <2>1. Whole(c) /\ ~(job[c] = cur /\ printer = "unlink_request")
    BY <1>1, <1>3 DEF Kept, SpoolOf
  <2>2. CASE main = "down"
    BY <1>3, <2>1, <2>2, FoundPlace
  <2>3. CASE main # "down"
    BY <1>1, <1>3, <2>1, <2>3, StepPlace DEF Placed
  <2> QED BY <2>2, <2>3
<1> QED BY <1>2, <1>3

(***************************************************************************)
(* The theorems.                                                           *)
(***************************************************************************)
LEMMA SafeTypes == Types /\ Serving => TypeOK
<1> SUFFICES ASSUME Types, Serving PROVE TypeOK
  OBVIOUS
<1>1. \A n \in Numbers : data[n].of \in Clients \cup {NULL} /\ reqs[n].of \in Clients \cup {NULL}
  BY Files DEF Types, SpoolTypes
<1> QED
  BY <1>1 DEF Types, SpoolTypes, DaemonTypes, PrinterTypes, ClientTypes, Serving, TypeOK

(* The variables of the spooler keep their types, and a daemon that is     *)
(* down keeps nothing in memory.                                           *)
THEOREM PrintdTypes == Spec => []TypeOK
<1>1. Types /\ Serving /\ [Next]_vars => Types' /\ Serving'
  BY StepTypes, StepServing
<1> QED BY InitTypes, <1>1, SafeTypes, PTL DEF Spec

LEMMA SpecSafe ==
  ASSUME Cardinality(Senders) <= MaxJob
  PROVE  Spec => []Safe
<1>1. Init => Safe
  BY InitTypes, InitNumbering, InitOwned DEF Safe
<1>2. Safe /\ [Next]_vars => Safe'
  BY StepTypes, StepServing, StepNumbering, StepOwned, StepKept, StepPlaced DEF Safe
<1> QED BY <1>1, <1>2, PTL DEF Spec

(* A client that was told its job is accepted can rely on it: whatever     *)
(* fails or stops, its files stay whole until the printer has taken them   *)
(* (printd.c:1053-1110, 738-764), unless a start deletes them because it   *)
(* cannot read the control file (366-378), or their number is given again. *)
THEOREM PrintdAcceptedKept ==
  ASSUME Cardinality(Senders) <= MaxJob
  PROVE  Spec => []AcceptedKept
<1>1. Safe => AcceptedKept
  BY ClashReissued DEF Safe, Types, ClientTypes, Kept, SpoolOf, Whole, AcceptedKept
<1> QED BY <1>1, SpecSafe, PTL

(* The printer is never sent a file that is still being spooled or was     *)
(* abandoned.                                                              *)
THEOREM PrintdPrintsWhole ==
  ASSUME Cardinality(Senders) <= MaxJob
  PROVE  Spec => []PrintsWhole
<1>1. Safe => PrintsWhole
  <2> SUFFICES ASSUME Safe, NEW f \in printed, f.how # "all" PROVE Reissued(f.of)
    BY DEF PrintsWhole
  <2>1. Clash(f.of) /\ f.of \in Clients
    BY DEF Safe, Kept, Owned, Numbered
  <2> QED BY <2>1, ClashReissued DEF Safe
<1> QED BY <1>1, SpecSafe, PTL

LEMMA CountPlaces ==
  ASSUME NEW q \in Seq(Numbers), NEW n, Once(n, q)
  PROVE  Cardinality({i \in DOMAIN q : q[i] = n}) = IF In(n, q) THEN 1 ELSE 0
<1>1. CASE In(n, q)
  <2>1. PICK i \in DOMAIN q : q[i] = n
    BY <1>1 DEF In
  <2>2. {j \in DOMAIN q : q[j] = n} = {i}
    BY <2>1 DEF Once
  <2> QED BY <1>1, <2>2, FS_Singleton
<1>2. CASE ~In(n, q)
  <2>1. {j \in DOMAIN q : q[j] = n} = {}
    BY <1>2 DEF In
  <2> QED BY <1>2, <2>1, FS_EmptySet
<1> QED BY <1>1, <1>2

(* Once the daemon has read its spool, every accepted job that no start    *)
(* deleted is in the queue once, or with the printer, or with its thread,  *)
(* or was given up in this run because a file of it could not be opened.   *)
THEOREM PrintdNothingForgotten ==
  ASSUME Cardinality(Senders) <= MaxJob
  PROVE  Spec => []NothingForgotten
<1>1. Safe => NothingForgotten
  <2> SUFFICES ASSUME Safe, main = "serve", NEW c \in told, ~Taken(c), ~Reissued(c), c \notin lost
               PROVE  LET places == Cardinality({i \in DOMAIN queue : queue[i] = job[c]})
                                      + (IF cur = job[c] THEN 1 ELSE 0) + (IF pc[c] = "add" THEN 1 ELSE 0)
                      IN  places = 1 \/ (places = 0 /\ job[c] \in dropped)
    BY DEF NothingForgotten
  <2>1. c \in Clients /\ queue \in Seq(Numbers) /\ names = {}
    BY DEF Safe, Types, ClientTypes, DaemonTypes, Serving
  <2>2. PlaceOf(c)
    BY <2>1, ClashReissued DEF Safe, Placed
  <2>3. Cardinality({i \in DOMAIN queue : queue[i] = job[c]}) = IF In(job[c], queue) THEN 1 ELSE 0
    BY <2>1, <2>2, CountPlaces DEF PlaceOf
  <2> QED BY <2>1, <2>2, <2>3 DEF PlaceOf
<1> QED BY <1>1, SpecSafe, PTL

-----------------------------------------------------------------------------
(***************************************************************************)
(* The database library.  The lists in the files are known by three ghost  *)
(* functions on places: chain, rank and succ.  A process may change only   *)
(* the list it has locked and the record it has taken off one, so that     *)
(* what the others know of theirs stays true while it moves.               *)
(***************************************************************************)

(***************************************************************************)
(* Where a process has what.                                               *)
(***************************************************************************)
Chained == {"walk", "data", "return", "blank_data", "blank_idx", "push", "unchain", "reread",
            "find_free", "search", "append_data", "write_end_data", "append_idx",
            "write_end_idx", "write_data", "write_idx", "overwrite", "link"}

Wheres == Chained \cup {"closed", "create", "idle", "gone", "find", "next", "next_idx", "next_data"}

Writer(p) == where[p] \in Chained /\ Writes(p)
Reader(p) == where[p] \in Chained /\ ~Writes(p)
Freeing(p) == where[p] \in {"blank_idx", "push", "unchain", "search"}
Scanning(p) == where[p] \in {"next_idx", "next_data"}

(* Who has an index record that is on no list, or a data record without an *)
(* index record.                                                           *)
Holding(p) == where[p] \in {"push", "write_data", "write_idx", "link"}
NewData(p) == where[p] \in {"append_idx", "write_end_idx"}

Key(p) == req[p].key
New(p) == req[p].data

(***************************************************************************)
(* The invariant without the lists.                                        *)
(***************************************************************************)
IdxRecords == [ptr : Nat, key : Keys \cup {Blank}, klen : Nat, dat : Nat, len : Nat]
Handles == [off : Nat, ptroff : Int, ptrval : Nat, idxoff : Nat, buf : Keys \cup {Blank},
            datoff : Nat, datlen : Nat, save : Nat, pos : Nat]

DatRecords == [data : Data \cup {Blank}, len : Nat]

RecordTypes ==
  /\ head = <<>> \/ head \in [0 .. NHASH -> Nat]
  /\ idx \in Seq(IdxRecords) /\ dat \in Seq(DatRecords)

LockTypes ==
  /\ rlock \in [0 .. NHASH -> SUBSET Procs] /\ wlock \in [0 .. NHASH -> SUBSET Procs]
  /\ tail \in [{"idx", "dat"} -> SUBSET Procs]

CallTypes ==
  /\ where \in [Procs -> Wheres] /\ req \in [Procs -> Calls \cup {NoCall}]
  /\ h \in [Procs -> Handles] /\ DOMAIN result = Procs
  /\ before \in [Keys -> Data \cup {None}]

(* The kind of call that gets to a place.                                  *)
Ops(place) ==
  CASE place \in {"find", "walk", "return"} -> {"fetch", "delete", "insert", "replace", "store"}
    [] place = "data" -> {"fetch"}
    [] place \in {"blank_data", "blank_idx", "push", "unchain"} -> {"delete", "replace", "store"}
    [] place \in {"reread", "overwrite"} -> {"replace", "store"}
    [] place \in {"find_free", "search", "write_data", "write_idx"} -> {"insert", "store"}
    [] place \in {"append_data", "write_end_data", "append_idx", "write_end_idx", "link"} ->
         {"insert", "replace", "store"}
    [] place \in {"next", "next_idx", "next_data"} -> {"nextrec"}
    [] OTHER -> {"fetch", "delete", "insert", "replace", "store", "nextrec", "rewind"}

InPlace == \A p \in Procs : req[p].op \in Ops(where[p])

DbTypes == RecordTypes /\ LockTypes /\ CallTypes /\ InPlace

(* The locks are where the processes' places say, and exclude.             *)
Locked ==
  /\ \A p \in Procs, b \in 1 .. NHASH :
       /\ p \in wlock[b] <=> Writer(p) /\ Chain(p) = b
       /\ p \in rlock[b] <=> Reader(p) /\ Chain(p) = b
  /\ \A p \in Procs : /\ p \in wlock[0] <=> Freeing(p)
                      /\ p \in rlock[0] <=> Scanning(p)
                      /\ p \in tail["idx"] <=> where[p] = "write_end_idx"
                      /\ p \in tail["dat"] <=> where[p] = "write_end_data"

Excluded ==
  \A p, q \in Procs : p # q =>
    /\ Writer(p) /\ (Writer(q) \/ Reader(q)) => Chain(p) # Chain(q)
    /\ Freeing(p) => ~Freeing(q) /\ ~Scanning(q)
    /\ where[p] = "write_end_idx" => where[q] # "write_end_idx"
    /\ where[p] = "write_end_data" => where[q] # "write_end_data"

Created ==
  /\ head = <<>> => /\ idx = <<>> /\ dat = <<>>
                    /\ \A p \in Procs : where[p] \in {"closed", "create"}
  /\ head # <<>> => \E p \in Procs : where[p] \notin {"closed", "create"}

Base == DbTypes /\ Locked /\ Excluded /\ Created

(***************************************************************************)
(* The lists.  chain[i] is the list a place is on: that of a chain, 0 for  *)
(* the free list, or negative for none; rank orders the places of a list   *)
(* from its head down, and succ[i] is the place that follows.              *)
(***************************************************************************)
Lists(chain, rank, succ, n) ==
  /\ \A b \in 0 .. NHASH : chain[-b] = b
  /\ \A i \in Int : chain[i] >= 0 =>
       /\ chain[i] \in 0 .. NHASH
       /\ i = -chain[i] \/ i \in 1 .. n
       /\ succ[i] # 0 => succ[i] > 0 /\ chain[succ[i]] = chain[i] /\ rank[succ[i]] < rank[i]
  /\ \A i, j \in Int : chain[i] >= 0 /\ chain[i] = chain[j] =>
       /\ i # j => rank[i] # rank[j]
       /\ i > 0 /\ j <= 0 => rank[i] < rank[j]
       /\ rank[j] < rank[i] => succ[i] # 0 /\ rank[j] <= rank[succ[i]]

(* What is written in a pointer is the place that follows, but for the one *)
(* pointer that a deletion is about to change.                             *)
Bypassed(i) == \E p \in Procs : where[p] \in {"push", "unchain"} /\ h[p].ptroff = i

Pointers(chain, succ) ==
  /\ head # <<>> => \A i \in Int : chain[i] >= 0 => ReadPtr(i) = succ[i] \/ Bypassed(i)
  /\ head = <<>> => \A b \in 0 .. NHASH : succ[-b] = 0

Records(chain) ==
  \A n \in DOMAIN idx :
    /\ idx[n].dat \in DOMAIN dat
    /\ chain[n] = 0 => idx[n].key = Blank
    /\ chain[n] > 0 =>
         /\ idx[n].key \in Keys /\ Hash[idx[n].key] = chain[n]
         /\ KeyLen[idx[n].key] = idx[n].klen
         /\ \/ \E p \in Procs : where[p] = "blank_idx" /\ h[p].idxoff = n
            \/ dat[idx[n].dat].data \in Data /\ DatLen[dat[idx[n].dat].data] = idx[n].len
    /\ chain[n] < 0 => \E p \in Procs : Holding(p) /\ h[p].idxoff = n

Distinct(chain) ==
  \A m, n \in DOMAIN idx : m # n =>
    /\ idx[m].dat # idx[n].dat
    /\ chain[m] = chain[n] /\ chain[m] > 0 => idx[m].key # idx[n].key

Hands ==
  /\ \A p, q \in Procs : p # q /\ Holding(p) /\ Holding(q) => h[p].idxoff # h[q].idxoff
  /\ \A p \in Procs : NewData(p) =>
       /\ h[p].datoff \in DOMAIN dat
       /\ \A n \in DOMAIN idx : idx[n].dat # h[p].datoff
  /\ \A p, q \in Procs : p # q /\ NewData(p) /\ NewData(q) => h[p].datoff # h[q].datoff

(* The data of a key is v.                                                 *)
Has(chain, k, n) == chain[n] = Hash[k] /\ idx[n].key = k

Content(chain, k, v) ==
  /\ \A n \in DOMAIN idx : Has(chain, k, n) => dat[idx[n].dat].data = v
  /\ v # None <=> \E n \in DOMAIN idx : Has(chain, k, n)

(***************************************************************************)
(* What each process knows where it is.                                    *)
(***************************************************************************)
Walks(p, chain, rank, succ) ==
  /\ where[p] = "walk" =>
       /\ chain[h[p].ptroff] = Chain(p) /\ succ[h[p].ptroff] = h[p].off
       /\ \A n \in DOMAIN idx :
            chain[n] = Chain(p) /\ rank[n] >= rank[h[p].ptroff] => idx[n].key # Key(p)
  /\ where[p] = "search" => chain[h[p].ptroff] = 0 /\ succ[h[p].ptroff] = h[p].off

HasFound(p, chain) ==
  /\ h[p].idxoff \in DOMAIN idx /\ Has(chain, Key(p), h[p].idxoff)
  /\ h[p].datoff = idx[h[p].idxoff].dat

Deletes(p, chain, succ) ==
  /\ where[p] \in {"blank_data", "blank_idx"} =>
       /\ HasFound(p, chain)
       /\ chain[h[p].ptroff] = Chain(p) /\ succ[h[p].ptroff] = h[p].idxoff
       /\ succ[h[p].idxoff] = h[p].ptrval
  /\ where[p] \in {"push", "unchain"} =>
       /\ h[p].idxoff \in DOMAIN idx
       /\ chain[h[p].ptroff] = Chain(p) /\ succ[h[p].ptroff] = h[p].save
       /\ ReadPtr(h[p].ptroff) = h[p].idxoff
  /\ where[p] = "push" => idx[h[p].idxoff].ptr = succ[0]

Stores(p, chain, succ) ==
  /\ where[p] \in {"find_free", "search", "append_data", "write_end_data", "append_idx",
                   "write_end_idx", "write_data", "write_idx", "link"} =>
       h[p].save = succ[-Chain(p)]
  /\ where[p] = "write_end_data" => h[p].datoff = Len(dat) + 1
  /\ where[p] = "write_end_idx" => h[p].idxoff = Len(idx) + 1
  /\ where[p] \in {"write_data", "write_idx"} =>
       /\ idx[h[p].idxoff].klen = KeyLen[Key(p)] /\ idx[h[p].idxoff].len = DatLen[New(p)]
       /\ h[p].datoff = idx[h[p].idxoff].dat
  /\ where[p] \in {"append_idx", "write_end_idx", "write_idx"} =>
       dat[h[p].datoff].data = New(p) /\ h[p].datlen = DatLen[New(p)]
  /\ where[p] = "overwrite" => HasFound(p, chain) /\ idx[h[p].idxoff].len = DatLen[New(p)]

Holds(p, chain) ==
  /\ Holding(p) => h[p].idxoff \in DOMAIN idx /\ chain[h[p].idxoff] < 0
  /\ where[p] \in {"push", "write_data", "write_idx"} => idx[h[p].idxoff].key = Blank
  /\ where[p] = "link" =>
       /\ idx[h[p].idxoff].key = Key(p) /\ idx[h[p].idxoff].klen = KeyLen[Key(p)]
       /\ idx[h[p].idxoff].ptr = h[p].save
       /\ dat[idx[h[p].idxoff].dat].data = New(p) /\ idx[h[p].idxoff].len = DatLen[New(p)]

Looks(p, chain) ==
  /\ where[p] = "data" => HasFound(p, chain)
  /\ where[p] \in {"next", "next_idx"} => h[p].pos > 0
  /\ where[p] = "next_data" =>
       /\ h[p].pos - 1 \in DOMAIN idx /\ h[p].buf \in Keys /\ h[p].buf = idx[h[p].pos - 1].key
       /\ h[p].datoff = idx[h[p].pos - 1].dat

(* What a writer has done to its chain since it locked it.                 *)
NoRecord(chain, k) == \A n \in DOMAIN idx : ~Has(chain, k, n)

Changes(p, chain) ==
  Writer(p) =>
    /\ \A k \in Keys \ {Key(p)} : Hash[k] = Chain(p) => Content(chain, k, before[k])
    /\ where[p] \in {"walk", "blank_data", "overwrite"} => Content(chain, Key(p), before[Key(p)])
    /\ where[p] \in {"blank_data", "overwrite", "blank_idx", "push", "unchain", "reread"} =>
         before[Key(p)] # None
    /\ where[p] \in {"push", "unchain", "reread", "find_free", "search", "write_data",
                     "write_idx", "append_data", "write_end_data", "append_idx",
                     "write_end_idx", "link"} => NoRecord(chain, Key(p))
    /\ where[p] \in {"find_free", "search", "write_data", "write_idx"} => before[Key(p)] = None
    /\ where[p] \in {"append_data", "write_end_data", "append_idx", "write_end_idx", "link"} =>
         /\ req[p].op = "insert" => before[Key(p)] = None
         /\ req[p].op = "replace" => before[Key(p)] # None

Answers(p, chain, op, a, v) == req[p].op = op /\ result[p] = a /\ Content(chain, Key(p), v)

Returns(p, chain) ==
  where[p] = "return" =>
    \/ req[p].op = "fetch" /\ Content(chain, Key(p), result[p])
    \/ Answers(p, chain, "delete", -1, None) /\ before[Key(p)] = None
    \/ Answers(p, chain, "delete", 0, None) /\ before[Key(p)] # None
    \/ Answers(p, chain, "insert", 0, New(p)) /\ before[Key(p)] = None
    \/ Answers(p, chain, "insert", 1, before[Key(p)]) /\ before[Key(p)] # None
    \/ Answers(p, chain, "replace", -1, None) /\ before[Key(p)] = None
    \/ Answers(p, chain, "replace", 0, New(p)) /\ before[Key(p)] # None
    \/ Answers(p, chain, "store", 0, New(p))

At(p, chain, rank, succ) ==
  /\ Walks(p, chain, rank, succ) /\ Deletes(p, chain, succ) /\ Stores(p, chain, succ)
  /\ Holds(p, chain) /\ Looks(p, chain) /\ Changes(p, chain) /\ Returns(p, chain)

Linked(chain, rank, succ) ==
  /\ Lists(chain, rank, succ, Len(idx)) /\ Pointers(chain, succ)
  /\ Records(chain) /\ Distinct(chain)
  /\ \A p \in Procs : At(p, chain, rank, succ)

Intact == Base /\ Hands /\ \E chain, rank, succ \in [Int -> Int] : Linked(chain, rank, succ)
-----------------------------------------------------------------------------
(***************************************************************************)
(* Lists, whoever has them: what follows a place comes before it in rank,  *)
(* once, and a record is put at the head of a list or taken off it.        *)
(***************************************************************************)
LEMMA GhostTypes ==
  ASSUME NEW chain \in [Int -> Int], NEW rank \in [Int -> Int], NEW succ \in [Int -> Int]
  PROVE  \A i \in Int : chain[i] \in Int /\ rank[i] \in Int /\ succ[i] \in Int
OBVIOUS

(* The head of a list, as a place.                                         *)
LEMMA Heads ==
  ASSUME NEW chain \in [Int -> Int], NEW rank \in [Int -> Int], NEW succ \in [Int -> Int],
         NEW len \in Nat, Lists(chain, rank, succ, len), NEW b \in 0 .. NHASH
  PROVE  /\ -b \in Int /\ b \in Int /\ b >= 0 /\ -b <= 0 /\ chain[-b] = b
         /\ \A i \in Int : chain[i] = b => i = -b \/ i \in 1 .. len
<1>1. b \in Int /\ b >= 0 /\ -b \in Int /\ -b <= 0
  BY DbAssumption
<1>2. chain[-b] = b
  BY DEF Lists
<1>3. ASSUME NEW i \in Int, chain[i] = b PROVE i = -b \/ i \in 1 .. len
  <2>1. chain[i] >= 0
    BY <1>1, <1>3
  <2> QED BY <1>3, <2>1 DEF Lists
<1> QED BY <1>1, <1>2, <1>3

Following(chain, rank, succ, len) ==
  /\ \A e \in Int : chain[e] >= 0 /\ succ[e] # 0 =>
       /\ succ[e] \in Int /\ succ[e] > 0 /\ succ[e] \in 1 .. len /\ chain[succ[e]] = chain[e]
       /\ succ[e] # e /\ rank[succ[e]] < rank[e]
  /\ \A e, i \in Int : chain[e] >= 0 /\ succ[e] # 0 /\ chain[i] >= 0 /\ succ[i] = succ[e] => i = e

LEMMA Follows ==
  ASSUME NEW chain \in [Int -> Int], NEW rank \in [Int -> Int], NEW succ \in [Int -> Int],
         NEW len \in Nat, Lists(chain, rank, succ, len)
  PROVE  Following(chain, rank, succ, len)
<1>0. \A i \in Int : chain[i] \in Int /\ rank[i] \in Int /\ succ[i] \in Int
  BY GhostTypes
<1>1. ASSUME NEW e \in Int, chain[e] >= 0, NEW n, n = succ[e], n # 0
      PROVE  /\ n \in Int /\ n > 0 /\ n \in 1 .. len /\ chain[n] = chain[e] /\ n # e
             /\ rank[n] < rank[e]
             /\ \A i \in Int : chain[i] >= 0 /\ succ[i] = n => i = e
  <2>0. n \in Int
    BY <1>0, <1>1
  <2>1. n > 0 /\ chain[n] = chain[e] /\ rank[n] < rank[e]
    BY <1>0, <1>1 DEF Lists
  <2>2. n # e
    BY <1>0, <2>1
  <2>3. n = -chain[n] \/ n \in 1 .. len
    BY <1>0, <1>1, <2>0, <2>1 DEF Lists
  <2>4. n \in 1 .. len
    BY <1>0, <1>1, <2>0, <2>1, <2>3
  <2>5. ASSUME NEW i \in Int, chain[i] >= 0, succ[i] = n PROVE i = e
    <3>1. chain[i] = chain[e]
      BY <1>1, <2>1, <2>5 DEF Lists
    <3>2. rank[n] < rank[i]
      BY <1>1, <2>1, <2>5 DEF Lists
    <3>3. /\ i # e => rank[i] # rank[e]
          /\ rank[e] < rank[i] => rank[e] <= rank[n]
          /\ rank[i] < rank[e] => rank[i] <= rank[n]
      BY <1>1, <2>5, <3>1 DEF Lists
    <3> QED BY <1>0, <2>0, <2>1, <3>1, <3>2, <3>3
  <2> QED BY <2>0, <2>1, <2>2, <2>4, <2>5
<1> QED BY <1>1 DEF Following

LEMMA Removed ==
  ASSUME NEW chain \in [Int -> Int], NEW rank \in [Int -> Int], NEW succ \in [Int -> Int],
         NEW len \in Nat, Lists(chain, rank, succ, len),
         NEW e \in Int, chain[e] >= 0, NEW n, n = succ[e], n # 0
  PROVE  Lists([chain EXCEPT ![n] = -1], rank, [succ EXCEPT ![e] = succ[n]], len)
<1> DEFINE c == [chain EXCEPT ![n] = -1]
           s == [succ EXCEPT ![e] = succ[n]]
<1>0. \A i \in Int : chain[i] \in Int /\ rank[i] \in Int /\ succ[i] \in Int
  BY GhostTypes
<1>F. Following(chain, rank, succ, len)
  BY Follows
<1>1. /\ n \in Int /\ n > 0 /\ n \in 1 .. len /\ chain[n] = chain[e] /\ n # e
      /\ rank[n] < rank[e]
      /\ \A i \in Int : chain[i] >= 0 /\ succ[i] = n => i = e
  BY <1>F DEF Following
<1>2. c[n] = -1 /\ \A i \in Int : i # n => c[i] = chain[i]
  BY <1>1
<1>3. s[e] = succ[n] /\ \A i \in Int : i # e => s[i] = succ[i]
  BY <1>1
<1> HIDE DEF c, s
<1>4. ASSUME NEW k \in 0 .. NHASH PROVE c[-k] = k
  <2>1. chain[-k] = k /\ -k <= 0 /\ -k \in Int
    BY Heads
  <2> QED BY <1>1, <1>2, <2>1
<1>5. ASSUME NEW i \in Int, c[i] >= 0
      PROVE  /\ i # n /\ c[i] = chain[i] /\ chain[i] >= 0
  <2>1. i # n
    BY <1>2, <1>5
  <2> QED BY <1>2, <1>5, <2>1
<1>6. ASSUME NEW i \in Int, c[i] >= 0, s[i] # 0
      PROVE  s[i] > 0 /\ c[s[i]] = c[i] /\ rank[s[i]] < rank[i]
  <2>1. CASE i # e
    <3>1. s[i] # n /\ s[i] = succ[i]
      BY <1>1, <1>3, <1>5, <1>6, <2>1
    <3>2. s[i] \in Int /\ s[i] > 0 /\ chain[s[i]] = chain[i] /\ rank[s[i]] < rank[i]
      BY <1>5, <1>6, <3>1, <1>F DEF Following
    <3> QED BY <1>2, <1>5, <1>6, <3>1, <3>2
  <2>2. CASE i = e
    <3>1. s[i] = succ[n] /\ chain[n] >= 0
      BY <1>1, <1>3, <2>2
    <3>2. /\ s[i] \in Int /\ s[i] > 0 /\ chain[s[i]] = chain[n] /\ rank[s[i]] < rank[n]
          /\ s[i] # n
      BY <1>1, <1>6, <3>1, <1>F DEF Following
    <3>3. c[s[i]] = chain[s[i]] /\ c[i] = chain[i]
      BY <1>2, <1>5, <1>6, <3>2
    <3> QED BY <1>0, <1>1, <2>2, <3>2, <3>3
  <2> QED BY <2>1, <2>2
<1>7. ASSUME NEW i \in Int, NEW j \in Int, c[i] >= 0, c[i] = c[j]
      PROVE  /\ i # j => rank[i] # rank[j]
             /\ i > 0 /\ j <= 0 => rank[i] < rank[j]
             /\ rank[j] < rank[i] => s[i] # 0 /\ rank[j] <= rank[s[i]]
  <2>1. i # n /\ j # n /\ chain[i] = chain[j] /\ chain[i] >= 0
    BY <1>5, <1>7
  <2>2. /\ i # j => rank[i] # rank[j]
        /\ i > 0 /\ j <= 0 => rank[i] < rank[j]
        /\ rank[j] < rank[i] => succ[i] # 0 /\ rank[j] <= rank[succ[i]]
    BY <2>1 DEF Lists
  <2>3. CASE i # e
    BY <1>3, <2>2, <2>3
  <2>4. CASE i = e
    <3>1. ASSUME rank[j] < rank[i] PROVE s[i] # 0 /\ rank[j] <= rank[s[i]]
      <4>1. rank[j] <= rank[n] /\ s[i] = succ[n] /\ chain[n] = chain[j] /\ chain[n] >= 0
        BY <1>1, <1>3, <2>1, <2>2, <2>4, <3>1
      <4>2. /\ n # j => rank[n] # rank[j]
            /\ rank[j] < rank[n] => succ[n] # 0 /\ rank[j] <= rank[succ[n]]
        BY <1>1, <4>1 DEF Lists
      <4> QED BY <1>0, <1>1, <2>1, <4>1, <4>2
    <3> QED BY <2>2, <3>1
  <2> QED BY <2>3, <2>4
<1>8. ASSUME NEW i \in Int, c[i] >= 0
      PROVE  c[i] \in 0 .. NHASH /\ (i = -c[i] \/ i \in 1 .. len)
  BY <1>5, <1>8 DEF Lists
<1>9. Lists(c, rank, s, len)
  BY <1>4, <1>6, <1>7, <1>8 DEF Lists
<1> QED BY <1>9 DEF c, s

LEMMA Pushed ==
  ASSUME NEW chain \in [Int -> Int], NEW rank \in [Int -> Int], NEW succ \in [Int -> Int],
         NEW len \in Nat, Lists(chain, rank, succ, len),
         NEW b \in 0 .. NHASH, NEW hb, hb = -b, NEW n \in 1 .. len, chain[n] < 0
  PROVE  Lists([chain EXCEPT ![n] = b], [rank EXCEPT ![n] = rank[hb], ![hb] = rank[hb] + 1],
               [succ EXCEPT ![n] = succ[hb], ![hb] = n], len)
<1> DEFINE c == [chain EXCEPT ![n] = b]
           r == [rank EXCEPT ![n] = rank[hb], ![hb] = rank[hb] + 1]
           s == [succ EXCEPT ![n] = succ[hb], ![hb] = n]
<1>0. \A i \in Int : chain[i] \in Int /\ rank[i] \in Int /\ succ[i] \in Int
  BY GhostTypes
<1>F. Following(chain, rank, succ, len)
  BY Follows
<1>1. /\ hb \in Int /\ b \in Int /\ b >= 0 /\ hb <= 0 /\ chain[hb] = b
      /\ n \in Int /\ n > 0 /\ n # hb
  BY Heads
<1>2. c[n] = b /\ \A i \in Int : i # n => c[i] = chain[i]
  BY <1>1
<1>3. r[hb] = rank[hb] + 1 /\ r[n] = rank[hb] /\ \A i \in Int : i # n /\ i # hb => r[i] = rank[i]
  BY <1>1
<1>4. s[hb] = n /\ s[n] = succ[hb] /\ \A i \in Int : i # n /\ i # hb => s[i] = succ[i]
  BY <1>1
<1> HIDE DEF c, r, s
<1>5. c[hb] = b
  BY <1>1, <1>2
<1>6. ASSUME NEW k \in 0 .. NHASH PROVE c[-k] = k
  <2>1. -k \in Int /\ -k # n
    BY <1>1, <1>6, DbAssumption
  <2>2. chain[-k] = k
    BY <1>6, Heads
  <2> QED BY <1>2, <2>1, <2>2
<1>7. ASSUME NEW m \in Int, chain[m] = b, m # hb PROVE rank[m] < rank[hb] /\ m > 0
  <2>1. m \in 1 .. len
    BY <1>1, <1>7, Heads
  <2> QED BY <1>1, <1>7, <2>1 DEF Lists
<1>8. ASSUME NEW i \in Int, c[i] >= 0, i # n PROVE chain[i] >= 0 /\ chain[i] = c[i]
  BY <1>2, <1>8
<1>9. ASSUME NEW i \in Int, c[i] >= 0
      PROVE  c[i] \in 0 .. NHASH /\ (i = -c[i] \/ i \in 1 .. len)
  <2>1. CASE i = n
    BY <1>2, <2>1
  <2>2. CASE i # n
    BY <1>8, <1>9, <2>2 DEF Lists
  <2> QED BY <2>1, <2>2
<1>10. ASSUME NEW i \in Int, c[i] >= 0, s[i] # 0
       PROVE  s[i] > 0 /\ c[s[i]] = c[i] /\ r[s[i]] < r[i]
  <2>1. CASE i = hb
    BY <1>0, <1>1, <1>2, <1>3, <1>4, <1>5, <2>1
  <2>2. CASE i = n
    <3>1. s[i] = succ[hb] /\ chain[hb] >= 0
      BY <1>1, <1>4, <2>2
    <3>2. /\ s[i] \in Int /\ s[i] > 0 /\ chain[s[i]] = b /\ rank[s[i]] < rank[hb]
          /\ s[i] # hb
      BY <1>1, <1>10, <3>1, <1>F DEF Following
    <3>3. s[i] # n
      BY <1>1, <3>2
    <3> QED BY <1>2, <1>3, <2>2, <3>2, <3>3
  <2>3. CASE i # hb /\ i # n
    <3>1. s[i] = succ[i] /\ chain[i] >= 0 /\ c[i] = chain[i] /\ r[i] = rank[i]
      BY <1>3, <1>4, <1>8, <1>10, <2>3
    <3>2. /\ s[i] \in Int /\ s[i] > 0 /\ chain[s[i]] = chain[i] /\ rank[s[i]] < rank[i]
      BY <1>10, <3>1, <1>F DEF Following
    <3>3. s[i] # n /\ s[i] # hb
      BY <1>1, <3>1, <3>2
    <3> QED BY <1>2, <1>3, <3>1, <3>2, <3>3
  <2> QED BY <2>1, <2>2, <2>3
<1>11. ASSUME NEW i \in Int, NEW j \in Int, c[i] >= 0, c[i] = c[j]
       PROVE  /\ i # j => r[i] # r[j]
              /\ i > 0 /\ j <= 0 => r[i] < r[j]
              /\ r[j] < r[i] => s[i] # 0 /\ r[j] <= r[s[i]]
  <2>0. \A m \in Int : chain[m] = b /\ m # hb => rank[m] < rank[hb] /\ m > 0
    BY <1>7
  <2>1. CASE i = n
    <3>1. CASE j = n
      BY <1>0, <1>1, <1>3, <2>1, <3>1
    <3>2. CASE j = hb
      BY <1>0, <1>1, <1>3, <2>1, <3>2
    <3>3. CASE j # n /\ j # hb
      <4>1. chain[j] = b /\ rank[j] < rank[hb] /\ j > 0 /\ r[j] = rank[j]
        BY <1>2, <1>3, <1>11, <2>0, <2>1, <3>3
      <4>2. succ[hb] # 0 /\ rank[j] <= rank[succ[hb]]
        BY <1>1, <4>1 DEF Lists
      <4>3. succ[hb] # hb /\ succ[hb] \in Int /\ chain[succ[hb]] = b
        BY <1>1, <4>2, <1>F DEF Following
      <4>4. succ[hb] # n
        BY <1>1, <4>3
      <4>5. r[succ[hb]] = rank[succ[hb]]
        BY <1>3, <4>3, <4>4
      <4>6. r[i] = rank[hb] /\ s[i] = succ[hb] /\ r[j] = rank[j] /\ i > 0
        BY <1>1, <1>3, <1>4, <2>1, <4>1
      <4> QED BY <1>0, <1>1, <4>1, <4>2, <4>3, <4>5, <4>6
    <3> QED BY <3>1, <3>2, <3>3
  <2>2. CASE i = hb
    <3>1. CASE j = n
      BY <1>0, <1>1, <1>3, <1>4, <2>2, <3>1
    <3>2. CASE j = hb
      BY <1>0, <1>1, <1>3, <2>2, <3>2
    <3>3. CASE j # n /\ j # hb
      <4>1. chain[j] = b /\ rank[j] < rank[hb] /\ j > 0 /\ r[j] = rank[j]
        BY <1>2, <1>3, <1>5, <1>11, <2>0, <2>2, <3>3
      <4> QED BY <1>0, <1>1, <1>3, <1>4, <2>2, <4>1
    <3> QED BY <3>1, <3>2, <3>3
  <2>3. CASE i # n /\ i # hb
    <3>0. chain[i] = c[i] /\ chain[i] >= 0 /\ r[i] = rank[i] /\ s[i] = succ[i]
      BY <1>3, <1>4, <1>8, <1>11, <2>3
    <3>1. CASE j = n
      <4>1. chain[i] = b /\ rank[i] < rank[hb] /\ i > 0
        BY <1>2, <1>11, <2>0, <2>3, <3>0, <3>1
      <4> QED BY <1>0, <1>1, <1>3, <3>0, <3>1, <4>1
    <3>2. CASE j = hb
      <4>1. chain[i] = b /\ rank[i] < rank[hb] /\ i > 0
        BY <1>5, <1>11, <2>0, <2>3, <3>0, <3>2
      <4> QED BY <1>0, <1>1, <1>3, <3>0, <3>2, <4>1
    <3>3. CASE j # n /\ j # hb
      <4>1. chain[i] = chain[j] /\ r[j] = rank[j]
        BY <1>2, <1>3, <1>11, <3>0, <3>3
      <4>2. /\ i # j => rank[i] # rank[j]
            /\ i > 0 /\ j <= 0 => rank[i] < rank[j]
            /\ rank[j] < rank[i] => succ[i] # 0 /\ rank[j] <= rank[succ[i]]
        BY <3>0, <4>1 DEF Lists
      <4>3. ASSUME rank[j] < rank[i] PROVE succ[i] # n /\ succ[i] # hb /\ succ[i] \in Int
        <5>1. succ[i] > 0 /\ succ[i] \in Int /\ chain[succ[i]] = chain[i]
          BY <3>0, <4>2, <4>3, <1>F DEF Following
        <5> QED BY <1>1, <3>0, <5>1
      <4> QED BY <1>3, <3>0, <4>1, <4>2, <4>3
    <3> QED BY <3>1, <3>2, <3>3
  <2> QED BY <2>1, <2>2, <2>3
<1>12. Lists(c, r, s, len)
  BY <1>6, <1>9, <1>10, <1>11 DEF Lists
<1> QED BY <1>12 DEF c, r, s

LEMMA Longer ==
  ASSUME NEW chain \in [Int -> Int], NEW rank \in [Int -> Int], NEW succ \in [Int -> Int],
         NEW len \in Nat, Lists(chain, rank, succ, len)
  PROVE  Lists(chain, rank, succ, len + 1) /\ chain[len + 1] < 0
<1>1. ASSUME chain[len + 1] >= 0 PROVE FALSE
  <2>1. len + 1 = -chain[len + 1] \/ len + 1 \in 1 .. len
    BY <1>1 DEF Lists
  <2> QED BY <1>1, <2>1, GhostTypes
<1>2. chain[len + 1] < 0
  BY <1>1, GhostTypes
<1>3. 1 .. len \subseteq 1 .. (len + 1)
  OBVIOUS
<1>4. Lists(chain, rank, succ, len + 1)
  BY <1>3 DEF Lists
<1> QED BY <1>2, <1>4

LEMMA Least ==
  ASSUME NEW T \in SUBSET Nat, T # {}
  PROVE  \E m \in T : \A n \in T : m <= n
<1> DEFINE R == OpToRel(<, Nat)
<1>1. IsWellFoundedOn(R, Nat)
  BY NatLessThanWellFounded
<1>2. PICK m \in T : \A n \in T : ~(<<n, m>> \in R)
  BY <1>1, WFMin
<1>3. \A n \in T : ~(n < m)
  BY <1>2 DEF OpToRel
<1> QED BY <1>3

Iterated(g, N, S, f, x) ==
  g \in [0 .. N -> S] /\ g[0] = x /\ \A n \in 1 .. N : g[n] = f[g[n - 1]]

LEMMA Iterates ==
  ASSUME NEW N \in Nat, NEW S, NEW f, f \in [S -> S], NEW x, x \in S
  PROVE  \E g : Iterated(g, N, S, f, x)
<1> USE DEF Iterated
<1> DEFINE Good(m) == \E g \in [0 .. m -> S] : g[0] = x /\ \A n \in 1 .. m : g[n] = f[g[n - 1]]
           T == {m \in Nat : ~Good(m)}
<1>1. SUFFICES ASSUME T # {} PROVE FALSE
  OBVIOUS
<1>2. PICK m \in T : \A n \in T : m <= n
  <2>1. T \in SUBSET Nat
    OBVIOUS
  <2> HIDE DEF T
  <2> QED BY <1>1, <2>1, Least
<1>3. m \in Nat /\ ~Good(m)
  OBVIOUS
<1>4. CASE m = 0
  <2>1. [i \in 0 .. 0 |-> x] \in [0 .. m -> S]
    BY <1>4
  <2>2. [i \in 0 .. 0 |-> x][0] = x
    OBVIOUS
  <2>3. \A n \in 1 .. m : FALSE
    BY <1>4
  <2> QED BY <1>3, <2>1, <2>2, <2>3
<1>5. CASE m # 0
  <2>1. m - 1 \in Nat /\ ~(m <= m - 1)
    BY <1>3, <1>5
  <2>2. Good(m - 1)
    BY <1>2, <2>1
  <2>3. PICK g \in [0 .. (m - 1) -> S] :
          g[0] = x /\ \A n \in 1 .. (m - 1) : g[n] = f[g[n - 1]]
    BY <2>2
  <2> DEFINE k == [i \in 0 .. m |-> IF i = m THEN f[g[m - 1]] ELSE g[i]]
  <2>4. g[m - 1] \in S /\ f[g[m - 1]] \in S
    BY <1>3, <2>1
  <2>5. \A i \in 0 .. m : i # m => i \in 0 .. (m - 1) /\ g[i] \in S
    BY <1>3
  <2>6. k \in [0 .. m -> S]
    BY <2>4, <2>5
  <2>7. k[0] = x
    BY <1>3, <1>5, <2>3
  <2>8. ASSUME NEW n \in 1 .. m PROVE k[n] = f[k[n - 1]]
    <3>1. n \in 0 .. m /\ n - 1 \in 0 .. m /\ n - 1 # m
      BY <1>3
    <3>2. k[n - 1] = g[n - 1]
      BY <3>1
    <3>3. CASE n = m
      BY <3>1, <3>2, <3>3
    <3>4. CASE n # m
      <4>1. n \in 1 .. (m - 1)
        BY <1>3, <3>4
      <4> QED BY <2>3, <3>1, <3>2, <3>4, <4>1
    <3> QED BY <3>3, <3>4
  <2> HIDE DEF k
  <2> QED BY <1>3, <2>6, <2>7, <2>8
<1> QED BY <1>4, <1>5

LEMMA TrailIs ==
  ASSUME NEW b, NEW S, Len(idx) \in Nat, head # <<>>, head[b] \in S, 0 \in S,
         \A i \in S \ {0} : idx[i].ptr \in S
  PROVE  \E g :
           /\ g \in [0 .. Len(idx) -> S]
           /\ g[0] = head[b]
           /\ \A n \in 1 .. Len(idx) : g[n] = IF g[n - 1] = 0 THEN 0 ELSE idx[g[n - 1]].ptr
           /\ Trail(b) = {g[n] : n \in 0 .. Len(idx)} \ {0}
<1> DEFINE N == Len(idx)
           f == [i \in S |-> IF i = 0 THEN 0 ELSE idx[i].ptr]
           Eq(at) == at = [n \in 0 .. Len(idx) |-> IF n = 0 THEN head[b]
                              ELSE IF at[n - 1] = 0 THEN 0 ELSE idx[at[n - 1]].ptr]
           g == CHOOSE at : Eq(at)
<1>1. f \in [S -> S]
  OBVIOUS
<1>2. PICK k : Iterated(k, N, S, f, head[b])
  <2>1. N \in Nat /\ head[b] \in S
    OBVIOUS
  <2> HIDE DEF f, N
  <2> QED BY <1>1, <2>1, Iterates
<1>3. Eq(k)
  <2>1. ASSUME NEW n \in 0 .. N, n # 0
        PROVE  k[n] = IF k[n - 1] = 0 THEN 0 ELSE idx[k[n - 1]].ptr
    <3>1. n \in 1 .. N /\ n - 1 \in 0 .. N
      BY <2>1
    <3>2. k[n] = f[k[n - 1]] /\ k[n - 1] \in S
      BY <1>2, <3>1 DEF Iterated
    <3> QED BY <3>2
  <2>2. \A n \in 0 .. N : k[n] = IF n = 0 THEN head[b]
                              ELSE IF k[n - 1] = 0 THEN 0 ELSE idx[k[n - 1]].ptr
    BY <1>2, <2>1 DEF Iterated
  <2> QED BY <1>2, <2>2 DEF Iterated
<1>4. Eq(g)
  <2> HIDE DEF Eq
  <2> QED BY <1>3
<1>5. Trail(b) = {g[n] : n \in 0 .. Len(idx)} \ {0}
  BY Zenon DEF Trail
<1> HIDE DEF g
<1>6. /\ g[0] = head[b]
      /\ \A n \in 1 .. N : g[n] = IF g[n - 1] = 0 THEN 0 ELSE idx[g[n - 1]].ptr
  <2>1. N \in Nat
    OBVIOUS
  <2>2. \A n \in 0 .. N : g[n] = IF n = 0 THEN head[b]
                                ELSE IF g[n - 1] = 0 THEN 0 ELSE idx[g[n - 1]].ptr
    BY <1>4
  <2> HIDE DEF N
  <2> QED BY <2>1, <2>2
<1>7. ASSUME {n \in 0 .. N : g[n] \notin S} # {} PROVE FALSE
  <2> DEFINE T == {n \in 0 .. N : g[n] \notin S}
  <2>1. PICK n \in T : \A m \in T : n <= m
    <3>1. T \in SUBSET Nat /\ T # {}
      BY <1>7
    <3> HIDE DEF T
    <3> QED BY <3>1, Least
  <2>2. n \in 1 .. N
    BY <1>6
  <2>3. n - 1 \in 0 .. N /\ ~(n <= n - 1)
    BY <2>2
  <2>4. g[n - 1] \in S
    BY <2>1, <2>3
  <2>5. g[n] \in S
    BY <1>6, <2>2, <2>4
  <2> QED BY <2>5
<1>8. \A n \in 0 .. N : g[n] \in S
  BY <1>7
<1>9. g \in [0 .. N -> S]
  BY <1>4, <1>8
<1> QED BY <1>5, <1>6, <1>9
Walked(g, chain, succ, N, b) ==
  /\ DOMAIN g = 0 .. N /\ g[0] = succ[-b]
  /\ \A n \in 0 .. N : g[n] # 0 => g[n] \in 1 .. N /\ chain[g[n]] = b
  /\ \A n \in 1 .. N : g[n - 1] # 0 => g[n] = succ[g[n - 1]]

LEMMA Reaches ==
  ASSUME NEW chain \in [Int -> Int], NEW rank \in [Int -> Int], NEW succ \in [Int -> Int],
         NEW N \in Nat, Lists(chain, rank, succ, N), NEW b \in 0 .. NHASH,
         NEW g, Walked(g, chain, succ, N, b), NEW j \in 1 .. N, chain[j] = b
  PROVE  \E n \in 0 .. N : g[n] = j
<1> SUFFICES ASSUME \A n \in 0 .. N : g[n] # j PROVE FALSE
  OBVIOUS
<1> DEFINE hb == -b
<1>W. /\ DOMAIN g = 0 .. N /\ g[0] = succ[hb]
      /\ \A n \in 0 .. N : g[n] # 0 => g[n] \in 1 .. N /\ chain[g[n]] = b
      /\ \A n \in 1 .. N : g[n - 1] # 0 => g[n] = succ[g[n - 1]]
  BY DEF Walked
<1> USE <1>W
<1>H. hb = -b
  OBVIOUS
<1> HIDE DEF hb
<1> DEFINE Above(n) == g[n] # 0 /\ rank[j] < rank[g[n]]
           T == {n \in 0 .. N : ~Above(n)}
<1>0. \A i \in Int : chain[i] \in Int /\ rank[i] \in Int /\ succ[i] \in Int
  BY GhostTypes
<1>1. Following(chain, rank, succ, N)
  BY Follows
<1>2. b \in Int /\ b >= 0 /\ hb \in Int /\ hb <= 0 /\ chain[hb] = b /\ j \in Int /\ j > 0
  <2>1. /\ -b \in Int /\ b \in Int /\ b >= 0 /\ -b <= 0 /\ chain[-b] = b
    BY Heads
  <2>2. j \in Int /\ j > 0
    OBVIOUS
  <2> QED BY <1>H, <2>1, <2>2
<1>3. ASSUME NEW i \in Int, chain[i] = b, rank[j] < rank[i], succ[i] # j
      PROVE  /\ succ[i] # 0 /\ rank[j] < rank[succ[i]] /\ rank[succ[i]] < rank[i]
  <2>1. succ[i] # 0 /\ rank[j] <= rank[succ[i]]
    BY <1>2, <1>3 DEF Lists
  <2>2. succ[i] \in Int /\ chain[succ[i]] = b /\ rank[succ[i]] < rank[i]
    BY <1>0, <1>1, <1>2, <1>3, <2>1 DEF Following
  <2>3. rank[succ[i]] # rank[j]
    <3>1. chain[succ[i]] = chain[j] /\ chain[succ[i]] >= 0
      BY <1>2, <2>2
    <3> QED BY <1>2, <1>3, <2>2, <3>1 DEF Lists
  <2>4. rank[j] \in Int /\ rank[succ[i]] \in Int
    BY <1>0, <1>2, <2>2
  <2> QED BY <2>1, <2>2, <2>3, <2>4
<1>4. Above(0)
  <2>1. rank[j] < rank[hb]
    BY <1>2 DEF Lists
  <2>2. 0 \in 0 .. N
    BY N \in Nat
  <2>3. g[0] # j
    BY <2>2
  <2> QED BY <1>2, <1>3, <2>1, <2>3
<1>5. ASSUME NEW n \in 1 .. N, Above(n - 1) PROVE Above(n) /\ rank[g[n]] < rank[g[n - 1]]
  <2>1. n - 1 \in 0 .. N /\ n \in 0 .. N
    OBVIOUS
  <2>2. g[n] = succ[g[n - 1]] /\ g[n - 1] \in Int /\ chain[g[n - 1]] = b /\ rank[j] < rank[g[n - 1]]
    BY <1>5, <2>1
  <2>3. g[n] # j
    BY <2>1
  <2> QED BY <1>3, <2>2, <2>3
<1>6. ASSUME T # {} PROVE FALSE
  <2>1. PICK n \in T : \A m \in T : n <= m
    <3>1. T \in SUBSET Nat
      OBVIOUS
    <3> HIDE DEF T
    <3> QED BY <1>6, <3>1, Least
  <2>2. n \in 0 .. N /\ ~Above(n)
    OBVIOUS
  <2>3. n # 0
    BY <1>4, <2>2
  <2> HIDE DEF Above
  <2>4. n \in 1 .. N /\ n - 1 \in 0 .. N /\ ~(n <= n - 1)
    BY <2>2, <2>3
  <2>5. Above(n - 1)
    BY <2>1, <2>4
  <2> QED BY <1>5, <2>2, <2>4, <2>5
<1>7. \A n \in 0 .. N : g[n] # 0 /\ g[n] \in 1 .. N /\ rank[g[n]] \in Int
  <2>1. \A n \in 0 .. N : g[n] # 0
    BY <1>6
  <2>2. \A n \in 0 .. N : g[n] \in 1 .. N
    BY <2>1
  <2>3. \A i \in 1 .. N : rank[i] \in Int
    BY <1>0
  <2> QED BY ONLY <2>1, <2>2, <2>3
<1>8. \A n \in 1 .. N : rank[g[n]] < rank[g[n - 1]]
  <2>1. \A n \in 1 .. N : n - 1 \in 0 .. N
    OBVIOUS
  <2>2. \A n \in 0 .. N : Above(n)
    BY <1>6
  <2> HIDE DEF Above
  <2> QED BY <1>5, <2>1, <2>2
<1>9. ASSUME NEW m \in 0 .. N, NEW k \in 0 .. N, m < k, ~(rank[g[k]] < rank[g[m]])
      PROVE  FALSE
  <2> DEFINE U == {n \in 0 .. N : m < n /\ ~(rank[g[n]] < rank[g[m]])}
  <2>1. PICK n \in U : \A i \in U : n <= i
    <3>1. U \in SUBSET Nat
      BY ONLY N \in Nat
    <3>2. k \in U
      BY ONLY <1>9
    <3> HIDE DEF U
    <3> QED BY <3>1, <3>2, Least
  <2>2. n \in 0 .. N /\ m < n /\ ~(rank[g[n]] < rank[g[m]])
    OBVIOUS
  <2>3. n \in 1 .. N /\ n - 1 \in 0 .. N /\ ~(n <= n - 1) /\ (n - 1 = m \/ m < n - 1)
    BY <2>2
  <2>4. rank[g[n]] < rank[g[n - 1]]
    BY <1>8, <2>3
  <2>5. CASE n - 1 = m
    BY <2>2, <2>4, <2>5
  <2>6. CASE m < n - 1
    <3>1. rank[g[n - 1]] < rank[g[m]]
      BY <2>1, <2>3, <2>6
    <3>2. rank[g[n - 1]] \in Int /\ rank[g[n]] \in Int /\ rank[g[m]] \in Int
      BY <1>7, <2>2, <2>3
    <3> QED BY ONLY <2>2, <2>4, <3>1, <3>2
  <2> QED BY <2>3, <2>5, <2>6
<1>10. ASSUME NEW m \in 0 .. N, NEW n \in 0 .. N, m # n PROVE g[m] # g[n]
  <2>0. rank[g[m]] \in Int /\ rank[g[n]] \in Int
    BY <1>7
  <2>1. CASE m < n
    <3>1. rank[g[n]] < rank[g[m]]
      BY <1>9, <2>1
    <3> QED BY ONLY <2>0, <3>1
  <2>2. CASE n < m
    <3>1. rank[g[m]] < rank[g[n]]
      BY <1>9, <2>2
    <3> QED BY ONLY <2>0, <3>1
  <2> QED BY <1>10, <2>1, <2>2
<1> DEFINE P == 0 .. N
           Q == 1 .. N
<1>11. /\ IsFiniteSet(P) /\ Cardinality(P) = N + 1
       /\ IsFiniteSet(Q) /\ Cardinality(Q) = N
  <2>1. IsFiniteSet(P) /\ Cardinality(P) = IF 0 > N THEN 0 ELSE N - 0 + 1
    BY FS_Interval
  <2>2. IsFiniteSet(Q) /\ Cardinality(Q) = IF 1 > N THEN 0 ELSE N - 1 + 1
    BY FS_Interval
  <2> HIDE DEF P, Q
  <2> QED BY <2>1, <2>2
<1> DEFINE k == [n \in P |-> g[n]]
<1>12. k \in [P -> Q]
  BY <1>7
<1>13. \A m, n \in P : m # n => k[m] # k[n]
  BY <1>10
<1> HIDE DEF P, Q, k
<1>14. Cardinality(Q) < Cardinality(P)
  BY <1>11
<1>15. \E m, n \in P : m # n /\ k[m] = k[n]
  BY ONLY <1>11, <1>12, <1>14, FS_PigeonHole
<1> QED BY <1>13, <1>15

Direct(chain, succ, b) == \A i \in Int : chain[i] = b => ReadPtr(i) = succ[i]

TrailIn(chain, b) == Trail(b) = {n \in 1 .. Len(idx) : chain[n] = b}

LEMMA TrailOf ==
  ASSUME NEW chain \in [Int -> Int], NEW rank \in [Int -> Int], NEW succ \in [Int -> Int],
         Len(idx) \in Nat, Lists(chain, rank, succ, Len(idx)), head # <<>>,
         NEW b \in 0 .. NHASH, Direct(chain, succ, b)
  PROVE  TrailIn(chain, b)
<1> DEFINE N == Len(idx)
           S == {0} \cup {n \in 1 .. N : chain[n] = b}
           hb == -b
<1>D. \A i \in Int : chain[i] = b => ReadPtr(i) = succ[i]
  BY DEF Direct
<1>0. \A i \in Int : chain[i] \in Int /\ rank[i] \in Int /\ succ[i] \in Int
  BY GhostTypes
<1>1. Following(chain, rank, succ, N)
  BY Follows
<1>2. b \in Int /\ b >= 0 /\ hb \in Int /\ hb <= 0 /\ chain[hb] = b /\ -hb = b
  <2>1. b \in Int /\ b >= 0 /\ hb \in Int /\ hb <= 0 /\ chain[hb] = b
    BY Heads
  <2> QED BY <2>1
<1> HIDE DEF hb
<1>3. ASSUME NEW i \in Int, chain[i] = b PROVE succ[i] \in S
  BY <1>0, <1>1, <1>2, <1>3 DEF Following
<1>4. head[b] = succ[hb]
  <2>1. ReadPtr(hb) = head[-hb]
    BY ONLY <1>2 DEF ReadPtr
  <2> QED BY <1>2, <1>D, <2>1
<1>5. ASSUME NEW i \in S \ {0} PROVE i \in Int /\ chain[i] = b /\ idx[i].ptr = succ[i]
  <2>1. i \in 1 .. N /\ chain[i] = b
    OBVIOUS
  <2>2. i \in Int /\ i > 0
    BY <2>1
  <2> QED BY <1>D, <2>1, <2>2 DEF ReadPtr
<1>6. PICK g :
        /\ g \in [0 .. N -> S]
        /\ g[0] = head[b]
        /\ \A n \in 1 .. N : g[n] = IF g[n - 1] = 0 THEN 0 ELSE idx[g[n - 1]].ptr
        /\ Trail(b) = {g[n] : n \in 0 .. N} \ {0}
  <2>1. head[b] \in S /\ 0 \in S /\ \A i \in S \ {0} : idx[i].ptr \in S
    BY <1>2, <1>3, <1>4, <1>5
  <2> HIDE DEF S
  <2> QED BY <2>1, TrailIs
<1>7. \A n \in 0 .. N : g[n] # 0 => g[n] \in 1 .. N /\ chain[g[n]] = b
  BY <1>6
<1>8. ASSUME NEW n \in 1 .. N, g[n - 1] # 0 PROVE g[n] = succ[g[n - 1]]
  <2>1. n - 1 \in 0 .. N
    OBVIOUS
  <2>2. g[n - 1] \in S \ {0}
    BY <1>6, <1>8, <2>1
  <2> QED BY <1>5, <1>6, <1>8, <2>2
<1>9. ASSUME NEW j \in Trail(b) PROVE j \in 1 .. N /\ chain[j] = b
  <2>1. PICK n \in 0 .. N : j = g[n] /\ j # 0
    BY <1>6
  <2> QED BY <1>7, <2>1
<1>10. ASSUME NEW j \in 1 .. N, chain[j] = b PROVE j \in Trail(b)
  <2>1. DOMAIN g = 0 .. N /\ g[0] = succ[hb] /\ N \in Nat
    BY <1>4, <1>6
  <2> HIDE DEF N
  <2>2. Lists(chain, rank, succ, N) /\ hb = -b
    BY DEF N, hb
  <2>3. chain \in [Int -> Int] /\ rank \in [Int -> Int] /\ succ \in [Int -> Int]
    OBVIOUS
  <2>4. b \in 0 .. NHASH /\ j \in 1 .. N
    BY DEF N
  <2>5. Walked(g, chain, succ, N, b)
    BY ONLY <1>7, <1>8, <2>1, <2>2 DEF Walked
  <2>6. \E n \in 0 .. N : g[n] = j
    <3>1. N \in Nat /\ Lists(chain, rank, succ, N) /\ chain[j] = b
      BY ONLY <1>10, <2>1, <2>2
    <3> QED BY ONLY <2>3, <2>4, <2>5, <3>1, Reaches, SMTT(30)
  <2>7. Trail(b) = {g[n] : n \in 0 .. N} \ {0} /\ j # 0
    BY <1>6 DEF N
  <2> QED BY ONLY <2>6, <2>7
<1> QED BY <1>9, <1>10 DEF TrailIn

Keyed == {"fetch", "delete", "insert", "replace", "store"}
Storing == {"insert", "replace", "store"}

Fields(r) ==
  /\ r.off \in Nat /\ r.ptroff \in Int /\ r.ptrval \in Nat /\ r.idxoff \in Nat
  /\ r.buf \in Keys \cup {Blank} /\ r.datoff \in Nat /\ r.datlen \in Nat /\ r.save \in Nat
  /\ r.pos \in Nat

LEMMA FilesKnown ==
  ASSUME RecordTypes
  PROVE  /\ Len(idx) \in Nat /\ DOMAIN idx = 1 .. Len(idx)
         /\ Len(dat) \in Nat /\ DOMAIN dat = 1 .. Len(dat)
         /\ \A n \in DOMAIN idx : /\ n \in Nat /\ n > 0 /\ idx[n] \in IdxRecords
                                  /\ idx[n].ptr \in Nat /\ idx[n].key \in Keys \cup {Blank}
                                  /\ idx[n].klen \in Nat /\ idx[n].dat \in Nat /\ idx[n].len \in Nat
         /\ \A n \in DOMAIN dat : /\ n \in Nat /\ dat[n] \in DatRecords
                                  /\ dat[n].data \in Data \cup {Blank} /\ dat[n].len \in Nat
         /\ head # <<>> => \A b \in 0 .. NHASH : head[b] \in Nat
<1>1. /\ Len(idx) \in Nat /\ DOMAIN idx = 1 .. Len(idx)
      /\ \A n \in DOMAIN idx : idx[n] \in IdxRecords
  BY DEF RecordTypes
<1>2. /\ Len(dat) \in Nat /\ DOMAIN dat = 1 .. Len(dat)
      /\ \A n \in DOMAIN dat : dat[n] \in DatRecords
  BY DEF RecordTypes
<1>3. head # <<>> => \A b \in 0 .. NHASH : head[b] \in Nat
  BY DEF RecordTypes
<1>4. \A r \in IdxRecords : /\ r.ptr \in Nat /\ r.key \in Keys \cup {Blank}
                            /\ r.klen \in Nat /\ r.dat \in Nat /\ r.len \in Nat
  BY DEF IdxRecords
<1>5. \A r \in DatRecords : r.data \in Data \cup {Blank} /\ r.len \in Nat
  BY DEF DatRecords
<1>6. \A n \in DOMAIN idx : n \in Nat /\ n > 0
  BY <1>1
<1>7. \A n \in DOMAIN dat : n \in Nat
  BY <1>2
<1>8. \A n \in DOMAIN idx : /\ idx[n].ptr \in Nat /\ idx[n].key \in Keys \cup {Blank}
                            /\ idx[n].klen \in Nat /\ idx[n].dat \in Nat /\ idx[n].len \in Nat
  BY <1>1, <1>4
<1>9. \A n \in DOMAIN dat : dat[n].data \in Data \cup {Blank} /\ dat[n].len \in Nat
  BY <1>2, <1>5
<1> QED BY <1>1, <1>2, <1>3, <1>6, <1>7, <1>8, <1>9

LEMMA CallKnown ==
  ASSUME CallTypes, InPlace, NEW p \in Procs
  PROVE  /\ where[p] \in Wheres /\ h[p] \in Handles /\ Fields(h[p])
         /\ req[p] \in Calls \cup {NoCall} /\ req[p].op \in Ops(where[p])
         /\ req[p].op \in Keyed => /\ Key(p) \in Keys /\ Chain(p) \in 1 .. NHASH
                                   /\ Chain(p) \in 0 .. NHASH /\ KeyLen[Key(p)] \in Nat
         /\ req[p].op \in Storing => New(p) \in Data /\ DatLen[New(p)] \in Nat
         /\ DOMAIN where = Procs /\ DOMAIN h = Procs /\ DOMAIN req = Procs /\ DOMAIN result = Procs
<1>1. where[p] \in Wheres /\ h[p] \in Handles /\ req[p] \in Calls \cup {NoCall} /\ req[p].op \in Ops(where[p])
  BY DEF CallTypes, InPlace
<1>2. Fields(h[p])
  BY <1>1 DEF Fields, Handles
<1>3. CASE req[p] = NoCall
  BY <1>1, <1>2, <1>3 DEF NoCall, Keyed, Storing, CallTypes
<1>4. CASE req[p] # NoCall
  <2>1. req[p] \in Calls
    BY <1>1, <1>4
  <2>2. /\ req[p].op \in Keyed => Key(p) \in Keys
        /\ req[p].op \in Storing => New(p) \in Data
    BY <2>1, DbAssumption DEF Keyed, Storing, Key, New
  <2>3. req[p].op \in Keyed => Chain(p) \in 1 .. NHASH /\ KeyLen[Key(p)] \in Nat
    BY <2>2, DbAssumption DEF Chain, Key
  <2>4. req[p].op \in Storing => DatLen[New(p)] \in Nat
    BY <2>2, DbAssumption
  <2>5. 1 .. NHASH \subseteq 0 .. NHASH
    BY DbAssumption
  <2> QED BY <1>1, <1>2, <2>2, <2>3, <2>4, <2>5 DEF CallTypes
<1> QED BY <1>3, <1>4

(***************************************************************************)
(* One process moves.                                                      *)
(***************************************************************************)
Alone(p) ==
  /\ \A q \in Procs : q # p => /\ where'[q] = where[q] /\ req'[q] = req[q]
                               /\ h'[q] = h[q] /\ result'[q] = result[q]

Moves(p, place) ==
  /\ where' \in [Procs -> Wheres] /\ where'[p] = place
  /\ \A q \in Procs : q # p => where'[q] = where[q]

Sets(p, r) ==
  /\ h' \in [Procs -> Handles] /\ h'[p] = r
  /\ \A q \in Procs : q # p => h'[q] = h[q]

LEMMA Going ==
  ASSUME CallTypes, NEW p \in Procs, NEW w \in Wheres, Goes(p, w)
  PROVE  Moves(p, w)
BY DEF CallTypes, Goes, Moves

LEMMA Setting ==
  ASSUME CallTypes, NEW p \in Procs, NEW r \in Handles, h' = [h EXCEPT ![p] = r]
  PROVE  Sets(p, r)
BY DEF CallTypes, Sets

LEMMA ReadsIdx ==
  ASSUME CallTypes, RecordTypes, InPlace, NEW p \in Procs, NEW n \in DOMAIN idx
  PROVE  /\ ReadIdx(p, n) \in Handles
         /\ ReadIdx(p, n).off = h[p].off /\ ReadIdx(p, n).ptroff = h[p].ptroff
         /\ ReadIdx(p, n).ptrval = idx[n].ptr /\ ReadIdx(p, n).idxoff = n
         /\ ReadIdx(p, n).buf = idx[n].key /\ ReadIdx(p, n).datoff = idx[n].dat
         /\ ReadIdx(p, n).datlen = idx[n].len /\ ReadIdx(p, n).save = h[p].save
         /\ ReadIdx(p, n).pos = h[p].pos
<1>1. h[p] \in Handles
  BY CallKnown
<1>2. /\ n \in Nat /\ idx[n].ptr \in Nat /\ idx[n].key \in Keys \cup {Blank}
      /\ idx[n].klen \in Nat /\ idx[n].dat \in Nat /\ idx[n].len \in Nat
  BY FilesKnown
<1> QED BY ONLY <1>1, <1>2 DEF ReadIdx, Handles

LEMMA HandleTyped ==
  ASSUME NEW r \in Handles, NEW i \in Int, NEW n \in Nat
  PROVE  /\ Fields(r)
         /\ [r EXCEPT !.ptroff = i, !.off = n] \in Handles
         /\ [r EXCEPT !.off = n] \in Handles /\ [r EXCEPT !.save = n] \in Handles
         /\ [r EXCEPT !.pos = n] \in Handles /\ [r EXCEPT !.datlen = n] \in Handles
         /\ [r EXCEPT !.datoff = n] \in Handles /\ [r EXCEPT !.idxoff = n] \in Handles
BY DEF Handles, Fields

LEMMA HandleCleared ==
  ASSUME NEW n \in Nat
  PROVE  Handle \in Handles /\ [Handle EXCEPT !.pos = n] \in Handles
BY DEF Handles, Handle

(***************************************************************************)
(* A step with which nobody takes or gives back a lock.                    *)
(***************************************************************************)
SameRole(v, w) ==
  /\ v \in Chained <=> w \in Chained
  /\ v \in {"blank_idx", "push", "unchain", "search"} <=> w \in {"blank_idx", "push", "unchain", "search"}
  /\ v \in {"next_idx", "next_data"} <=> w \in {"next_idx", "next_data"}
  /\ v = "write_end_idx" <=> w = "write_end_idx"
  /\ v = "write_end_data" <=> w = "write_end_data"

LEMMA Quiet ==
  ASSUME Locked, Excluded, NEW p \in Procs, NEW w, Moves(p, w), UNCHANGED locks,
         \A q \in Procs : q # p => req'[q] = req[q],
         req'[p] = req[p] \/ where[p] \notin Chained,
         SameRole(where[p], w)
  PROVE  Locked' /\ Excluded'
<1>1. \A q \in Procs : /\ Writer(q)' <=> Writer(q)
                       /\ Reader(q)' <=> Reader(q)
                       /\ Freeing(q)' <=> Freeing(q)
                       /\ Scanning(q)' <=> Scanning(q)
                       /\ where'[q] = "write_end_idx" <=> where[q] = "write_end_idx"
                       /\ where'[q] = "write_end_data" <=> where[q] = "write_end_data"
                       /\ where[q] \in Chained => Chain(q)' = Chain(q)
  BY DEF Moves, SameRole, Writer, Reader, Freeing, Scanning, Writes, Chain
<1>2. \A q \in Procs : Writer(q) \/ Reader(q) => where[q] \in Chained
  BY DEF Writer, Reader
<1>3. Locked'
  BY <1>1, <1>2 DEF Locked, locks
<1>4. Excluded'
  BY <1>1, <1>2 DEF Excluded
<1> QED BY <1>3, <1>4

(* The locks of a process are those of its place.                          *)
LockedBy(p) ==
  /\ \A b \in 1 .. NHASH : /\ p \in wlock[b] <=> Writer(p) /\ Chain(p) = b
                           /\ p \in rlock[b] <=> Reader(p) /\ Chain(p) = b
  /\ p \in wlock[0] <=> Freeing(p)
  /\ p \in rlock[0] <=> Scanning(p)
  /\ p \in tail["idx"] <=> where[p] = "write_end_idx"
  /\ p \in tail["dat"] <=> where[p] = "write_end_data"

(* The locks of the others stay.                                           *)
LocksOf(p) ==
  /\ \A q \in Procs, b \in 0 .. NHASH : q # p =>
       (q \in wlock'[b] <=> q \in wlock[b]) /\ (q \in rlock'[b] <=> q \in rlock[b])
  /\ \A q \in Procs : q # p =>
       (q \in tail'["idx"] <=> q \in tail["idx"]) /\ (q \in tail'["dat"] <=> q \in tail["dat"])

ExcludedFrom(p, q) ==
  /\ Writer(p) /\ (Writer(q) \/ Reader(q)) => Chain(p) # Chain(q)
  /\ Freeing(p) => ~Freeing(q) /\ ~Scanning(q)
  /\ where[p] = "write_end_idx" => where[q] # "write_end_idx"
  /\ where[p] = "write_end_data" => where[q] # "write_end_data"

LEMMA LockedEach == Locked <=> \A p \in Procs : LockedBy(p)
BY DEF Locked, LockedBy

LEMMA ExcludedEach == Excluded <=> \A p, q \in Procs : p # q => ExcludedFrom(p, q)
BY DEF Excluded, ExcludedFrom

LEMMA Relocked ==
  ASSUME Locked, Excluded, NEW p \in Procs, NEW w, Moves(p, w), UNCHANGED req, LocksOf(p),
         LockedBy(p)', \A q \in Procs : q # p => ExcludedFrom(p, q)' /\ ExcludedFrom(q, p)'
  PROVE  Locked' /\ Excluded'
<1>1. ASSUME NEW q \in Procs, q # p
      PROVE  /\ Writer(q)' <=> Writer(q)
             /\ Reader(q)' <=> Reader(q)
             /\ Freeing(q)' <=> Freeing(q)
             /\ Scanning(q)' <=> Scanning(q)
             /\ where'[q] = where[q] /\ Chain(q)' = Chain(q)
  BY <1>1 DEF Moves, Writer, Reader, Freeing, Scanning, Writes, Chain
<1>2. ASSUME NEW q \in Procs, q # p PROVE LockedBy(q)'
  <2>1. LockedBy(q)
    BY LockedEach
  <2>2. 0 \in 0 .. NHASH /\ 1 .. NHASH \subseteq 0 .. NHASH
    BY DbAssumption
  <2> QED BY <1>1, <1>2, <2>1, <2>2 DEF LockedBy, LocksOf
<1>3. ASSUME NEW q \in Procs, NEW r \in Procs, q # p, r # p, q # r PROVE ExcludedFrom(q, r)'
  <2>1. ExcludedFrom(q, r)
    BY <1>3, ExcludedEach
  <2> QED BY <1>1, <1>3, <2>1 DEF ExcludedFrom
<1>4. \A q \in Procs : LockedBy(q)'
  BY <1>2
<1>5. \A q, r \in Procs : q # r => ExcludedFrom(q, r)'
  BY <1>3
<1>6. Locked'
  BY <1>4 DEF Locked, LockedBy
<1>7. Excluded'
  BY <1>5 DEF Excluded, ExcludedFrom
<1> QED BY <1>6, <1>7

(* A step with which a process has at most the locks it had.               *)
LessRole(v, w) ==
  /\ w \in Chained => v \in Chained
  /\ w \in {"blank_idx", "push", "unchain", "search"} => v \in {"blank_idx", "push", "unchain", "search"}
  /\ w \in {"next_idx", "next_data"} => v \in {"next_idx", "next_data"}
  /\ w = "write_end_idx" => v = "write_end_idx"
  /\ w = "write_end_data" => v = "write_end_data"

LEMMA Unlocked ==
  ASSUME Locked, Excluded, NEW p \in Procs, NEW w, Moves(p, w), UNCHANGED req, LocksOf(p),
         LockedBy(p)', LessRole(where[p], w)
  PROVE  Locked' /\ Excluded'
<1>1. ASSUME NEW q \in Procs
      PROVE  /\ Writer(q)' => Writer(q)
             /\ Reader(q)' => Reader(q)
             /\ Freeing(q)' => Freeing(q)
             /\ Scanning(q)' => Scanning(q)
             /\ where'[q] = "write_end_idx" => where[q] = "write_end_idx"
             /\ where'[q] = "write_end_data" => where[q] = "write_end_data"
             /\ Chain(q)' = Chain(q)
  BY DEF Moves, LessRole, Writer, Reader, Freeing, Scanning, Writes, Chain
<1>2. ASSUME NEW q \in Procs, NEW r \in Procs, q # r PROVE ExcludedFrom(q, r)'
  <2>1. ExcludedFrom(q, r)
    BY <1>2, ExcludedEach
  <2> QED BY <1>1, <2>1 DEF ExcludedFrom
<1> QED BY <1>2, Relocked

(***************************************************************************)
(* The rest of what holds without the lists.                               *)
(***************************************************************************)
LEMMA TypesKept ==
  ASSUME DbTypes, NEW p \in Procs, NEW w \in Wheres, Moves(p, w), RecordTypes', LockTypes',
         UNCHANGED req, h' \in [Procs -> Handles], DOMAIN result' = Procs,
         before' \in [Keys -> Data \cup {None}], req[p].op \in Ops(w)
  PROVE  DbTypes'
<1>1. CallTypes'
  BY DEF DbTypes, CallTypes, Moves
<1>2. InPlace'
  BY DEF DbTypes, InPlace, Moves
<1> QED BY <1>1, <1>2 DEF DbTypes

LEMMA CreatedKept ==
  ASSUME Created, NEW p \in Procs, NEW w, Moves(p, w), where[p] \notin {"closed", "create"},
         w \notin {"closed", "create"}, head' = <<>> => head = <<>>
  PROVE  head # <<>> /\ Created'
BY DEF Created, Moves

Ghosts(chain, rank, succ) ==
  chain \in [Int -> Int] /\ rank \in [Int -> Int] /\ succ \in [Int -> Int]

Good(chain, rank, succ) ==
  Ghosts(chain, rank, succ) /\ Base /\ Hands /\ Linked(chain, rank, succ)

(* The places that process p may change.                                   *)
Mine(p, chain, i) ==
  \/ Writer(p) /\ chain[i] = Chain(p)
  \/ Freeing(p) /\ chain[i] = 0
  \/ chain[i] < 0 /\ \A q \in Procs : q # p /\ Holding(q) => h[q].idxoff # i

(* A list that it may not.                                                 *)
Barred(p, b) == b >= 0 /\ (Writer(p) => b # Chain(p)) /\ (Freeing(p) => b # 0)

Grows == DOMAIN idx \subseteq DOMAIN idx' /\ DOMAIN dat \subseteq DOMAIN dat'

(* A step of p that changes what p may change.                             *)
Frame(p, chain, rank, succ, c, r, s) ==
  /\ Alone(p) /\ Grows
  /\ \A i \in Int : ~Mine(p, chain, i) =>
       c[i] = chain[i] /\ r[i] = rank[i] /\ s[i] = succ[i] /\ ReadPtr(i)' = ReadPtr(i)
  /\ \A n \in DOMAIN idx : ~Mine(p, chain, n) =>
       idx'[n] = idx[n] /\ dat'[idx[n].dat] = dat[idx[n].dat]
  /\ \A i \in Int : Mine(p, chain, i) =>
       c[i] < 0 \/ (Writer(p) /\ c[i] = Chain(p)) \/ (Freeing(p) /\ c[i] = 0)
  /\ ~Freeing(p) => \A n \in DOMAIN idx : idx[n].key # Blank =>
       idx'[n].key = idx[n].key /\ idx'[n].dat = idx[n].dat
  /\ \A q \in Procs : q # p =>
       /\ NewData(q) => dat'[h[q].datoff] = dat[h[q].datoff]
       /\ where[q] = "write_end_data" => Len(dat') = Len(dat)
       /\ where[q] = "write_end_idx" => Len(idx') = Len(idx)
       /\ Writer(q) => \A k \in Keys : Hash[k] = Chain(q) => before'[k] = before[k]

(* The list b after a step is what it was.                                 *)
Same(b, chain, rank, succ, c, r, s) ==
  /\ \A i \in Int : c[i] = b <=> chain[i] = b
  /\ \A i \in Int : chain[i] = b => r[i] = rank[i] /\ s[i] = succ[i] /\ ReadPtr(i)' = ReadPtr(i)
  /\ \A n \in DOMAIN idx' : c[n] = b => n \in DOMAIN idx
  /\ \A n \in DOMAIN idx : c[n] = b =>
       n \in DOMAIN idx' /\ idx'[n] = idx[n] /\ dat'[idx[n].dat] = dat[idx[n].dat]

LEMMA IdxInt ==
  ASSUME RecordTypes
  PROVE  /\ \A n \in DOMAIN idx : n \in Int
         /\ DOMAIN idx = 1 .. Len(idx) /\ Len(idx) \in Nat
BY FilesKnown

LEMMA Outside ==
  ASSUME NEW chain, NEW rank, NEW succ, Good(chain, rank, succ), NEW n \in Int,
         n \notin DOMAIN idx, n > 0
  PROVE  chain[n] < 0
<1>1. DOMAIN idx = 1 .. Len(idx) /\ Len(idx) \in Nat
  BY IdxInt DEF Good, Base, DbTypes
<1>2. chain[n] \in Int
  BY GhostTypes DEF Good, Ghosts
<1>3. Lists(chain, rank, succ, Len(idx))
  BY DEF Good, Linked
<1>4. ASSUME chain[n] >= 0 PROVE FALSE
  <2>1. chain[n] >= 0 => n = -chain[n] \/ n \in 1 .. Len(idx)
    BY <1>3 DEF Lists
  <2> QED BY <1>1, <1>2, <1>4, <2>1
<1> QED BY <1>2, <1>4

LEMMA ListKept ==
  ASSUME NEW chain, NEW rank, NEW succ, NEW c, NEW r, NEW s, NEW p \in Procs,
         Good(chain, rank, succ), RecordTypes', Ghosts(c, r, s),
         Frame(p, chain, rank, succ, c, r, s), NEW b \in Int, Barred(p, b)
  PROVE  Same(b, chain, rank, succ, c, r, s)
<1>0. \A i \in Int : chain[i] \in Int /\ c[i] \in Int
  BY DEF Good, Ghosts
<1>1. ASSUME NEW i \in Int, chain[i] = b PROVE ~Mine(p, chain, i)
  BY <1>0, <1>1 DEF Mine, Barred
<1>2. ASSUME NEW i \in Int, c[i] = b PROVE chain[i] = b
  <2>1. CASE Mine(p, chain, i)
    BY <1>0, <1>2, <2>1 DEF Frame, Barred
  <2>2. CASE ~Mine(p, chain, i)
    BY <1>2, <2>2 DEF Frame
  <2> QED BY <2>1, <2>2
<1>3. \A n \in DOMAIN idx' : n \in Int /\ n > 0
  <2>1. DOMAIN idx' = 1 .. Len(idx') /\ Len(idx') \in Nat
    BY DEF RecordTypes
  <2> QED BY <2>1
<1>4. \A n \in DOMAIN idx : n \in Int
  BY IdxInt DEF Good, Base, DbTypes
<1>5. \A i \in Int : chain[i] = b =>
        c[i] = b /\ r[i] = rank[i] /\ s[i] = succ[i] /\ ReadPtr(i)' = ReadPtr(i)
  BY <1>1 DEF Frame
<1>6. ASSUME NEW n \in DOMAIN idx', c[n] = b PROVE n \in DOMAIN idx
  <2>1. n \in Int /\ n > 0 /\ chain[n] = b
    BY <1>2, <1>3, <1>6
  <2>2. ~(chain[n] < 0)
    BY <1>0, <2>1 DEF Barred
  <2> QED BY <2>1, <2>2, Outside
<1>7. ASSUME NEW n \in DOMAIN idx, c[n] = b
      PROVE  n \in DOMAIN idx' /\ idx'[n] = idx[n] /\ dat'[idx[n].dat] = dat[idx[n].dat]
  <2>1. n \in Int /\ ~Mine(p, chain, n)
    BY <1>1, <1>2, <1>4, <1>7
  <2> QED BY <2>1 DEF Frame, Grows
<1> QED BY <1>2, <1>5, <1>6, <1>7 DEF Same

(***************************************************************************)
(* What the others know stays true.                                        *)
(***************************************************************************)
Unmoved(q) ==
  where'[q] = where[q] /\ req'[q] = req[q] /\ h'[q] = h[q] /\ result'[q] = result[q]

LEMMA UnmovedIs ==
  ASSUME NEW q, Unmoved(q)
  PROVE  /\ Key(q)' = Key(q) /\ New(q)' = New(q) /\ Chain(q)' = Chain(q)
         /\ Writer(q)' = Writer(q) /\ Reader(q)' = Reader(q) /\ Freeing(q)' = Freeing(q)
         /\ Holding(q)' = Holding(q)
BY DEF Unmoved, Key, New, Chain, Writer, Reader, Freeing, Holding, Writes

(* The lists that p must leave alone while q is where it is.               *)
LEMMA OthersBarred ==
  ASSUME Excluded, DbTypes, NEW p \in Procs, NEW q \in Procs, p # q
  PROVE  /\ where[q] \in Chained => Chain(q) \in 1 .. NHASH /\ Chain(q) \in Int /\ Barred(p, Chain(q))
         /\ Freeing(q) \/ Scanning(q) => ~Freeing(p)
         /\ Freeing(q) => Barred(p, 0)
<1>1. where[q] \in Chained => req[q].op \in Keyed
  BY CallKnown DEF DbTypes, Ops, Chained, Keyed
<1>2. where[q] \in Chained => Chain(q) \in 1 .. NHASH
  BY <1>1, CallKnown DEF DbTypes
<1>3. where[q] \in Chained => Writer(q) \/ Reader(q)
  BY DEF Writer, Reader
<1>4. ExcludedFrom(p, q) /\ ExcludedFrom(q, p)
  BY ExcludedEach
<1>5. Writer(p) => Chain(p) \in 1 .. NHASH
  BY CallKnown DEF DbTypes, Writer, Ops, Chained, Keyed
<1>6. \A b \in 1 .. NHASH : b \in Int /\ b >= 0 /\ b # 0
  BY DbAssumption
<1> QED BY <1>2, <1>3, <1>4, <1>5, <1>6 DEF ExcludedFrom, Barred

LEMMA SameContent ==
  ASSUME NEW chain, NEW rank, NEW succ, NEW c, NEW r, NEW s, RecordTypes, RecordTypes',
         NEW k, Same(Hash[k], chain, rank, succ, c, r, s), NEW v, Content(chain, k, v)
  PROVE  Content(c, k, v)'
<1>1. \A n \in DOMAIN idx' : n \in Int
  <2>1. DOMAIN idx' = 1 .. Len(idx') /\ Len(idx') \in Nat
    BY DEF RecordTypes
  <2> QED BY <2>1
<1>2. \A n \in DOMAIN idx : n \in Int
  BY IdxInt
<1>3. ASSUME NEW n \in DOMAIN idx', Has(c, k, n)'
      PROVE  n \in DOMAIN idx /\ Has(chain, k, n) /\ dat'[idx'[n].dat].data = dat[idx[n].dat].data
  BY <1>1, <1>3 DEF Has, Same
<1>4. ASSUME NEW n \in DOMAIN idx, Has(chain, k, n)
      PROVE  n \in DOMAIN idx' /\ Has(c, k, n)'
  BY <1>2, <1>4 DEF Has, Same
<1>5. \A n \in DOMAIN idx' : Has(c, k, n)' => dat'[idx'[n].dat].data = v
  BY <1>3 DEF Content
<1>6. (v # None) <=> \E n \in DOMAIN idx' : Has(c, k, n)'
  BY <1>3, <1>4 DEF Content
<1> QED BY <1>5, <1>6 DEF Content

LEMMA Others ==
  ASSUME NEW chain, NEW rank, NEW succ, NEW c, NEW r, NEW s, NEW p \in Procs,
         Good(chain, rank, succ), RecordTypes', Ghosts(c, r, s),
         Frame(p, chain, rank, succ, c, r, s), NEW q \in Procs, q # p
  PROVE  At(q, c, r, s)'
<1>1. /\ Base /\ Hands /\ DbTypes /\ Excluded /\ RecordTypes
      /\ At(q, chain, rank, succ) /\ Lists(chain, rank, succ, Len(idx))
  BY DEF Good, Base, Linked, DbTypes
<1>2. Unmoved(q)
  BY DEF Frame, Alone, Unmoved
<1>3. /\ Key(q)' = Key(q) /\ New(q)' = New(q) /\ Chain(q)' = Chain(q)
      /\ Writer(q)' = Writer(q) /\ Holding(q)' = Holding(q)
  BY <1>2, UnmovedIs
<1>4. /\ where[q] \in Chained => Chain(q) \in 1 .. NHASH /\ Chain(q) \in Int /\ Barred(p, Chain(q))
      /\ Freeing(q) \/ Scanning(q) => ~Freeing(p)
      /\ Freeing(q) => Barred(p, 0)
  BY <1>1, OthersBarred
<1>5. where[q] \in Chained => Same(Chain(q), chain, rank, succ, c, r, s)
  BY <1>4, ListKept
<1>6. Freeing(q) => Same(0, chain, rank, succ, c, r, s)
  BY <1>4, ListKept
<1>7. \A n \in DOMAIN idx : n \in Int
  BY <1>1, IdxInt
<1>8. \A n \in DOMAIN idx' : n \in Int
  <2>1. DOMAIN idx' = 1 .. Len(idx') /\ Len(idx') \in Nat
    BY DEF RecordTypes
  <2> QED BY <2>1
<1>9. h[q] \in Handles /\ Fields(h[q])
  BY <1>1, CallKnown DEF DbTypes
<1>10. Holding(q) => /\ h[q].idxoff \in DOMAIN idx /\ c[h[q].idxoff] = chain[h[q].idxoff]
                     /\ h[q].idxoff \in DOMAIN idx' /\ idx'[h[q].idxoff] = idx[h[q].idxoff]
                     /\ dat'[idx[h[q].idxoff].dat] = dat[idx[h[q].idxoff].dat]
                     /\ chain[h[q].idxoff] < 0
  <2> SUFFICES ASSUME Holding(q) PROVE /\ h[q].idxoff \in DOMAIN idx /\ c[h[q].idxoff] = chain[h[q].idxoff]
                     /\ h[q].idxoff \in DOMAIN idx' /\ idx'[h[q].idxoff] = idx[h[q].idxoff]
                     /\ dat'[idx[h[q].idxoff].dat] = dat[idx[h[q].idxoff].dat]
                     /\ chain[h[q].idxoff] < 0
    OBVIOUS
  <2>1. h[q].idxoff \in DOMAIN idx /\ chain[h[q].idxoff] < 0
    BY <1>1 DEF At, Holds
  <2>2. Writer(p) => Chain(p) \in 1 .. NHASH
    BY <1>1, CallKnown DEF DbTypes, Writer, Ops, Chained, Keyed
  <2>3. ~Mine(p, chain, h[q].idxoff)
    BY <2>1, <2>2, DbAssumption DEF Mine
  <2> QED BY <1>7, <2>1, <2>3 DEF Frame, Grows
<1>U. where'[q] = where[q] /\ req'[q] = req[q] /\ h'[q] = h[q] /\ result'[q] = result[q]
  BY <1>2 DEF Unmoved
<1>11. ASSUME where[q] \in Chained, HasFound(q, chain)
       PROVE  /\ HasFound(q, c)' /\ idx'[h[q].idxoff] = idx[h[q].idxoff]
              /\ s[h[q].idxoff] = succ[h[q].idxoff]
  <2>1. h[q].idxoff \in DOMAIN idx /\ h[q].idxoff \in Int
    BY <1>7, <1>11 DEF HasFound
  <2>2. chain[h[q].idxoff] = Chain(q) /\ Hash[Key(q)] = Chain(q) /\ idx[h[q].idxoff].key = Key(q)
    BY <1>11 DEF HasFound, Has, Chain, Key
  <2>3. /\ c[h[q].idxoff] = Chain(q) /\ s[h[q].idxoff] = succ[h[q].idxoff]
        /\ h[q].idxoff \in DOMAIN idx' /\ idx'[h[q].idxoff] = idx[h[q].idxoff]
    BY <1>5, <1>11, <2>1, <2>2 DEF Same
  <2>4. h[q].datoff = idx[h[q].idxoff].dat
    BY <1>11 DEF HasFound
  <2> QED BY <1>U, <1>3, <2>2, <2>3, <2>4 DEF HasFound, Has
<1>12. where[q] \in Chained => \A v : \A k \in Keys : Hash[k] = Chain(q) /\ Content(chain, k, v) => Content(c, k, v)'
  BY <1>1, <1>5, SameContent
<1>13. Walks(q, c, r, s)'
  <2>0. Walks(q, chain, rank, succ) /\ h[q].ptroff \in Int
    BY <1>1, <1>9 DEF At, Fields
  <2>1. ASSUME where[q] = "walk"
        PROVE  /\ c[h[q].ptroff] = Chain(q) /\ s[h[q].ptroff] = h[q].off
               /\ \A n \in DOMAIN idx' :
                    c[n] = Chain(q) /\ r[n] >= r[h[q].ptroff] => idx'[n].key # Key(q)
    <3>0. Same(Chain(q), chain, rank, succ, c, r, s)
      BY <1>5, <2>1 DEF Chained
    <3>1. /\ chain[h[q].ptroff] = Chain(q) /\ succ[h[q].ptroff] = h[q].off
          /\ \A n \in DOMAIN idx :
                chain[n] = Chain(q) /\ rank[n] >= rank[h[q].ptroff] => idx[n].key # Key(q)
      BY <2>0, <2>1 DEF Walks
    <3>2. c[h[q].ptroff] = Chain(q) /\ s[h[q].ptroff] = h[q].off /\ r[h[q].ptroff] = rank[h[q].ptroff]
      BY <2>0, <3>0, <3>1 DEF Same
    <3>3. ASSUME NEW n \in DOMAIN idx', c[n] = Chain(q), r[n] >= r[h[q].ptroff]
          PROVE  idx'[n].key # Key(q)
      <4>1. n \in DOMAIN idx /\ n \in Int
        BY <1>7, <3>0, <3>3 DEF Same
      <4>2. chain[n] = Chain(q) /\ idx'[n] = idx[n] /\ r[n] = rank[n]
        BY <3>0, <3>3, <4>1 DEF Same
      <4> QED BY <3>1, <3>2, <3>3, <4>1, <4>2
    <3> QED BY <3>2, <3>3
  <2>2. ASSUME where[q] = "search" PROVE c[h[q].ptroff] = 0 /\ s[h[q].ptroff] = h[q].off
    <3>0. Same(0, chain, rank, succ, c, r, s)
      BY <1>6, <2>2 DEF Freeing
    <3> QED BY <2>0, <2>2, <3>0 DEF Same, Walks
  <2> QED BY <1>U, <1>3, <2>1, <2>2 DEF Walks
<1>14. Deletes(q, c, s)'
  <2>0. Deletes(q, chain, succ) /\ h[q].ptroff \in Int
    BY <1>1, <1>9 DEF At, Fields
  <2>1. ASSUME where[q] \in {"blank_data", "blank_idx"}
        PROVE  /\ HasFound(q, c)'
               /\ c[h[q].ptroff] = Chain(q) /\ s[h[q].ptroff] = h[q].idxoff
               /\ s[h[q].idxoff] = h[q].ptrval
    <3>0. where[q] \in Chained /\ Same(Chain(q), chain, rank, succ, c, r, s)
      BY <1>5, <2>1 DEF Chained
    <3>1. /\ HasFound(q, chain) /\ chain[h[q].ptroff] = Chain(q)
          /\ succ[h[q].ptroff] = h[q].idxoff /\ succ[h[q].idxoff] = h[q].ptrval
      BY <2>0, <2>1 DEF Deletes
    <3> QED BY <1>11, <2>0, <3>0, <3>1 DEF Same
  <2>2. ASSUME where[q] \in {"push", "unchain"}
        PROVE  /\ h[q].idxoff \in DOMAIN idx'
               /\ c[h[q].ptroff] = Chain(q) /\ s[h[q].ptroff] = h[q].save
               /\ ReadPtr(h[q].ptroff)' = h[q].idxoff
    <3>0. where[q] \in Chained /\ Same(Chain(q), chain, rank, succ, c, r, s)
      BY <1>5, <2>2 DEF Chained
    <3>1. /\ chain[h[q].ptroff] = Chain(q) /\ h[q].idxoff \in DOMAIN idx
          /\ succ[h[q].ptroff] = h[q].save /\ ReadPtr(h[q].ptroff) = h[q].idxoff
      BY <2>0, <2>2 DEF Deletes
    <3>2. h[q].idxoff \in DOMAIN idx'
      BY <3>1 DEF Frame, Grows
    <3>3. \A i \in Int : chain[i] = Chain(q) => c[i] = Chain(q) /\ s[i] = succ[i] /\ ReadPtr(i)' = ReadPtr(i)
      BY <3>0 DEF Same
    <3>4. ReadPtr(h[q].ptroff)' = IF h[q].ptroff > 0 THEN idx'[h[q].ptroff].ptr ELSE head'[-h[q].ptroff]
      BY <1>U DEF ReadPtr
    <3>5. (IF h[q].ptroff > 0 THEN idx'[h[q].ptroff].ptr ELSE head'[-h[q].ptroff]) = ReadPtr(h[q].ptroff)
      BY <2>0, <3>1, <3>3 DEF ReadPtr
    <3> QED BY <2>0, <3>1, <3>2, <3>3, <3>4, <3>5
  <2>3. ASSUME where[q] = "push" PROVE idx'[h[q].idxoff].ptr = s[0]
    <3>0. Same(0, chain, rank, succ, c, r, s) /\ Holding(q)
      BY <1>6, <2>3 DEF Freeing, Holding
    <3>1. chain[0] = 0
      <4>1. 0 \in 0 .. NHASH
        BY DbAssumption
      <4> QED BY <1>1, <4>1 DEF Lists
    <3> QED BY <1>10, <2>0, <2>3, <3>0, <3>1 DEF Same, Deletes
  <2> QED BY <1>U, <1>3, <2>1, <2>2, <2>3 DEF Deletes
<1>15. Stores(q, c, s)'
  <2>0. Stores(q, chain, succ)
    BY <1>1 DEF At
  <2>1. ASSUME where[q] \in {"find_free", "search", "append_data", "write_end_data", "append_idx",
                             "write_end_idx", "write_data", "write_idx", "link"}
        PROVE  h[q].save = s[-Chain(q)]
    <3>0. where[q] \in Chained /\ Same(Chain(q), chain, rank, succ, c, r, s)
      BY <1>5, <2>1 DEF Chained
    <3>1. h[q].save = succ[-Chain(q)]
      BY <2>0, <2>1 DEF Stores
    <3>2. Chain(q) \in 0 .. NHASH /\ -Chain(q) \in Int
      BY <1>4, <3>0, DbAssumption
    <3>3. chain[-Chain(q)] = Chain(q)
      BY <1>1, <3>2 DEF Lists
    <3> QED BY <3>0, <3>1, <3>2, <3>3 DEF Same
  <2>2. where[q] = "write_end_data" => h[q].datoff = Len(dat') + 1
    BY <2>0 DEF Stores, Frame
  <2>3. where[q] = "write_end_idx" => h[q].idxoff = Len(idx') + 1
    BY <2>0 DEF Stores, Frame
  <2>4. ASSUME where[q] \in {"write_data", "write_idx"}
        PROVE  /\ idx'[h[q].idxoff].klen = KeyLen[Key(q)] /\ idx'[h[q].idxoff].len = DatLen[New(q)]
               /\ h[q].datoff = idx'[h[q].idxoff].dat
    BY <1>10, <2>0, <2>4 DEF Stores, Holding
  <2>5. ASSUME where[q] \in {"append_idx", "write_end_idx", "write_idx"}
        PROVE  dat'[h[q].datoff].data = New(q) /\ h[q].datlen = DatLen[New(q)]
    <3>1. dat[h[q].datoff].data = New(q) /\ h[q].datlen = DatLen[New(q)]
      BY <2>0, <2>5 DEF Stores
    <3>2. CASE where[q] = "write_idx"
      BY <1>10, <2>0, <3>1, <3>2 DEF Stores, Holding
    <3>3. CASE where[q] # "write_idx"
      <4>1. NewData(q)
        BY <2>5, <3>3 DEF NewData
      <4>2. dat'[h[q].datoff] = dat[h[q].datoff]
        BY <4>1 DEF Frame
      <4> QED BY <3>1, <4>2
    <3> QED BY <3>2, <3>3
  <2>6. ASSUME where[q] = "overwrite"
        PROVE  HasFound(q, c)' /\ idx'[h[q].idxoff].len = DatLen[New(q)]
    <3>1. HasFound(q, chain) /\ where[q] \in Chained /\ idx[h[q].idxoff].len = DatLen[New(q)]
      BY <2>0, <2>6 DEF Stores, Chained
    <3> QED BY <1>11, <3>1
  <2> QED BY <1>U, <1>3, <2>1, <2>2, <2>3, <2>4, <2>5, <2>6 DEF Stores
<1>16. Holds(q, c)'
  <2>1. Holds(q, chain) /\ (where[q] \in {"push", "write_data", "write_idx", "link"} => Holding(q))
    BY <1>1 DEF At, Holding
  <2> QED BY <1>U, <1>3, <1>10, <2>1 DEF Holds
<1>17. Looks(q, c)'
  <2>0. Looks(q, chain)
    BY <1>1 DEF At
  <2>1. where[q] = "data" => HasFound(q, c)'
    BY <1>11, <2>0 DEF Looks, Chained
  <2>2. ASSUME where[q] = "next_data"
        PROVE  /\ h[q].pos - 1 \in DOMAIN idx' /\ h[q].buf \in Keys
               /\ h[q].buf = idx'[h[q].pos - 1].key /\ h[q].datoff = idx'[h[q].pos - 1].dat
    <3>1. /\ h[q].pos - 1 \in DOMAIN idx /\ h[q].buf \in Keys
          /\ h[q].buf = idx[h[q].pos - 1].key /\ h[q].datoff = idx[h[q].pos - 1].dat
      BY <2>0, <2>2 DEF Looks
    <3>2. ~Freeing(p) /\ idx[h[q].pos - 1].key # Blank
      BY <1>4, <2>2, <3>1, DbAssumption DEF Scanning
    <3> QED BY <3>1, <3>2 DEF Frame, Grows
  <2>3. where[q] \in {"next", "next_idx"} => h[q].pos > 0
    BY <2>0 DEF Looks
  <2> QED BY <1>U, <2>1, <2>2, <2>3 DEF Looks
<1>B. Writer(q) => \A k \in Keys : Hash[k] = Chain(q) => before'[k] = before[k]
  BY DEF Frame
<1>K. where[q] \in Chained => Key(q) \in Keys /\ Hash[Key(q)] = Chain(q)
  <2>1. where[q] \in Chained => req[q].op \in Keyed
    BY <1>1, CallKnown DEF DbTypes, Ops, Chained, Keyed
  <2>2. where[q] \in Chained => Key(q) \in Keys
    BY <1>1, <2>1, CallKnown DEF DbTypes
  <2> QED BY <2>2 DEF Chain, Key
<1>N. where[q] \in Chained /\ NoRecord(chain, Key(q)) => NoRecord(c, Key(q))'
  <2> SUFFICES ASSUME where[q] \in Chained, NoRecord(chain, Key(q)),
                      NEW n \in DOMAIN idx', Has(c, Key(q), n)'
               PROVE  FALSE
    BY DEF NoRecord
  <2>1. c[n] = Chain(q) /\ idx'[n].key = Key(q) /\ n \in Int
    BY <1>3, <1>8, <1>K DEF Has
  <2>2. n \in DOMAIN idx /\ chain[n] = Chain(q) /\ idx'[n] = idx[n]
    BY <1>5, <2>1 DEF Same
  <2>3. Has(chain, Key(q), n)
    BY <1>K, <2>1, <2>2 DEF Has
  <2> QED BY <2>2, <2>3 DEF NoRecord
<1>18. Changes(q, c)'
  <2> SUFFICES ASSUME Writer(q) PROVE Changes(q, c)'
    BY <1>3 DEF Changes
  <2>0. Changes(q, chain) /\ where[q] \in Chained
    BY <1>1 DEF At, Writer
  <2>1. ASSUME NEW k \in Keys \ {Key(q)}, Hash[k] = Chain(q) PROVE Content(c, k, before[k])'
    <3>1. Content(chain, k, before[k])
      BY <2>0, <2>1 DEF Changes
    <3>2. PICK v : v = before[k]
      OBVIOUS
    <3>3. Content(c, k, v)'
      BY <1>12, <2>0, <2>1, <3>1, <3>2
    <3>4. v = before'[k]
      BY <1>B, <2>1, <3>2
    <3> QED BY <3>3, <3>4 DEF Content
  <2>2. ASSUME Content(chain, Key(q), before[Key(q)]) PROVE Content(c, Key(q), before[Key(q)])'
    <3>1. PICK v : v = before[Key(q)]
      OBVIOUS
    <3>2. PICK k : k = Key(q)
      OBVIOUS
    <3>3. Content(c, k, v)'
      BY <1>12, <1>K, <2>0, <2>2, <3>1, <3>2
    <3>4. v = before'[Key(q)] /\ k = Key(q)'
      BY <1>3, <1>B, <1>K, <2>0, <3>1, <3>2
    <3> QED BY <1>3, <3>3, <3>4 DEF Content, Has
  <2>3. before'[Key(q)'] = before[Key(q)]
    BY <1>3, <1>B, <1>K, <2>0
  <2> QED BY <1>U, <1>3, <1>N, <2>0, <2>1, <2>2, <2>3 DEF Changes
<1>19. Returns(q, c)'
  <2> SUFFICES ASSUME where[q] = "return" PROVE Returns(q, c)'
    BY <1>U DEF Returns
  <2>0. /\ Returns(q, chain) /\ where[q] \in Chained /\ Key(q) \in Keys
        /\ req[q].op # "fetch" => before'[Key(q)'] = before[Key(q)]
    BY <1>1, <1>3, <1>B, <1>K DEF At, Writer, Writes, Chained
  <2>1. ASSUME NEW v, Content(chain, Key(q), v)
        PROVE  /\ \A n \in DOMAIN idx' : Has(c, Key(q), n)' => dat'[idx'[n].dat].data = v
               /\ (v # None) <=> \E n \in DOMAIN idx' : Has(c, Key(q), n)'
    <3>1. PICK k : k = Key(q)
      OBVIOUS
    <3>2. Content(c, k, v)'
      BY <1>12, <1>K, <2>0, <2>1, <3>1
    <3>3. k = Key(q)'
      BY <1>3, <3>1
    <3> QED BY <3>2, <3>3 DEF Content, Has
  <2>3. CASE req[q].op = "fetch"
    <3>1. Content(chain, Key(q), result[q])
      BY <2>0, <2>3 DEF Returns, Answers
    <3>2. Content(c, Key(q), result[q])'
      BY <1>U, <2>1, <3>1 DEF Content
    <3> QED BY <1>U, <2>3, <3>2 DEF Returns
  <2>4. CASE req[q].op # "fetch"
    <3>1. ASSUME NEW op, NEW a, Answers(q, chain, op, a, None) PROVE Answers(q, c, op, a, None)'
      BY <1>U, <2>1, <3>1 DEF Answers, Content
    <3>2. ASSUME NEW op, NEW a, Answers(q, chain, op, a, New(q)) PROVE Answers(q, c, op, a, New(q))'
      BY <1>U, <1>3, <2>1, <3>2 DEF Answers, Content
    <3>3. ASSUME NEW op, NEW a, Answers(q, chain, op, a, before[Key(q)])
          PROVE  Answers(q, c, op, a, before[Key(q)])'
      BY <1>U, <1>3, <2>0, <2>1, <2>4, <3>3 DEF Answers, Content
    <3> QED BY <1>3, <2>0, <2>4, <3>1, <3>2, <3>3 DEF Returns
  <2> QED BY <2>3, <2>4
<1> QED BY <1>13, <1>14, <1>15, <1>16, <1>17, <1>18, <1>19 DEF At

(***************************************************************************)
(* A step that leaves the files alone.                                     *)
(***************************************************************************)
Elsewhere == Wheres \ {"blank_idx", "push", "unchain", "write_data", "write_idx", "link"}

LEMMA Local ==
  ASSUME NEW chain, NEW rank, NEW succ, NEW p \in Procs, NEW w,
         Good(chain, rank, succ), Alone(p), Moves(p, w), UNCHANGED files,
         where[p] \in Elsewhere, w \in Elsewhere,
         NewData(p)' => NewData(p) /\ h'[p].datoff = h[p].datoff,
         \A q \in Procs : q # p /\ Writer(q) =>
            \A k \in Keys : Hash[k] = Chain(q) => before'[k] = before[k],
         Base', At(p, chain, rank, succ)'
  PROVE  Good(chain, rank, succ)'
<1>1. /\ Hands /\ RecordTypes /\ Lists(chain, rank, succ, Len(idx)) /\ Pointers(chain, succ)
      /\ Records(chain) /\ Distinct(chain) /\ Ghosts(chain, rank, succ)
  BY DEF Good, Base, DbTypes, Linked
<1>2. head' = head /\ idx' = idx /\ dat' = dat
  BY DEF files
<1>3. \A q \in Procs : q # p => where'[q] = where[q] /\ h'[q] = h[q]
  BY DEF Alone
<1>4. where'[p] = w
  BY DEF Moves
<1>5. \A q \in Procs : Holding(q)' = Holding(q) /\ (Holding(q) => h'[q] = h[q])
  BY <1>3, <1>4 DEF Holding, Elsewhere
<1>6. \A i \in Int : ReadPtr(i)' = ReadPtr(i)
  BY <1>2 DEF ReadPtr
<1>7. Frame(p, chain, rank, succ, chain, rank, succ)
  <2>1. Grows
    BY <1>2 DEF Grows
  <2>2. \A i \in Int : Mine(p, chain, i) =>
           chain[i] < 0 \/ (Writer(p) /\ chain[i] = Chain(p)) \/ (Freeing(p) /\ chain[i] = 0)
    BY DEF Mine
  <2> QED BY <1>2, <1>6, <2>1, <2>2 DEF Frame
<1>8. Hands'
  <2>1. \A q, r \in Procs : q # r /\ Holding(q)' /\ Holding(r)' => h'[q].idxoff # h'[r].idxoff
    BY <1>1, <1>5 DEF Hands
  <2>2. \A q \in Procs : NewData(q)' => NewData(q) /\ h'[q].datoff = h[q].datoff
    BY <1>3 DEF NewData
  <2>3. \A q \in Procs : NewData(q)' => /\ h'[q].datoff \in DOMAIN dat
                                        /\ \A n \in DOMAIN idx : idx[n].dat # h'[q].datoff
    BY <1>1, <2>2 DEF Hands
  <2>4. \A q, r \in Procs : q # r /\ NewData(q)' /\ NewData(r)' => h'[q].datoff # h'[r].datoff
    BY <1>1, <2>2 DEF Hands
  <2> QED BY <1>2, <2>1, <2>3, <2>4 DEF Hands
<1>9. Pointers(chain, succ)'
  <2>1. \A i \in Int : Bypassed(i) => Bypassed(i)'
    BY <1>3, <1>4 DEF Bypassed, Elsewhere
  <2> QED BY <1>1, <1>2, <1>6, <2>1 DEF Pointers
<1>10. Records(chain)'
  <2>1. \A n : (\E q \in Procs : where[q] = "blank_idx" /\ h[q].idxoff = n) =>
               (\E q \in Procs : where'[q] = "blank_idx" /\ h'[q].idxoff = n)
    BY <1>3 DEF Elsewhere
  <2>2. \A n : (\E q \in Procs : Holding(q) /\ h[q].idxoff = n) =>
               (\E q \in Procs : Holding(q)' /\ h'[q].idxoff = n)
    BY <1>5
  <2> QED BY <1>1, <1>2, <2>1, <2>2 DEF Records
<1>11. Distinct(chain)' /\ Lists(chain, rank, succ, Len(idx))'
  BY <1>1, <1>2 DEF Distinct
<1>12. RecordTypes'
  BY <1>1, <1>2 DEF RecordTypes
<1>13. \A q \in Procs : At(q, chain, rank, succ)'
  BY <1>1, <1>7, <1>12, Others
<1>14. Linked(chain, rank, succ)'
  BY <1>9, <1>10, <1>11, <1>13 DEF Linked
<1> QED BY <1>1, <1>8, <1>14 DEF Good, Ghosts

(***************************************************************************)
(* What the invariant says of one process.                                 *)
(***************************************************************************)
LEMMA Basics ==
  ASSUME NEW chain, NEW rank, NEW succ, Good(chain, rank, succ)
  PROVE  /\ Ghosts(chain, rank, succ) /\ Base /\ DbTypes /\ RecordTypes /\ LockTypes /\ CallTypes
         /\ InPlace /\ Locked /\ Excluded /\ Created /\ Hands
         /\ Lists(chain, rank, succ, Len(idx)) /\ Pointers(chain, succ) /\ Records(chain)
         /\ Distinct(chain) /\ Following(chain, rank, succ, Len(idx))
         /\ Len(idx) \in Nat /\ DOMAIN idx = 1 .. Len(idx)
         /\ \A i \in Int : chain[i] \in Int /\ rank[i] \in Int /\ succ[i] \in Int
         /\ \A p \in Procs : At(p, chain, rank, succ)
<1>1. /\ Ghosts(chain, rank, succ) /\ Base /\ DbTypes /\ RecordTypes /\ LockTypes /\ CallTypes
      /\ InPlace /\ Locked /\ Excluded /\ Created /\ Hands
      /\ Lists(chain, rank, succ, Len(idx)) /\ Pointers(chain, succ) /\ Records(chain)
      /\ Distinct(chain) /\ \A p \in Procs : At(p, chain, rank, succ)
  BY DEF Good, Base, DbTypes, Linked
<1>2. Len(idx) \in Nat /\ DOMAIN idx = 1 .. Len(idx)
  BY <1>1, IdxInt
<1>3. \A i \in Int : chain[i] \in Int /\ rank[i] \in Int /\ succ[i] \in Int
  BY <1>1, GhostTypes DEF Ghosts
<1>4. Following(chain, rank, succ, Len(idx))
  BY <1>1, <1>2, Follows DEF Ghosts
<1> QED BY <1>1, <1>2, <1>3, <1>4

LEMMA Place ==
  ASSUME NEW chain, NEW rank, NEW succ, Good(chain, rank, succ), head # <<>>,
         NEW i \in Int, chain[i] >= 0
  PROVE  /\ ReadPtr(i) \in Nat /\ succ[i] \in Nat
         /\ i > 0 => i \in DOMAIN idx /\ ReadPtr(i) = idx[i].ptr
         /\ i <= 0 => -i \in 0 .. NHASH /\ ReadPtr(i) = head[-i] /\ i = -chain[i]
         /\ succ[i] # 0 => /\ succ[i] \in DOMAIN idx /\ chain[succ[i]] = chain[i]
                           /\ rank[succ[i]] < rank[i] /\ succ[i] # i
<1>1. /\ RecordTypes /\ Lists(chain, rank, succ, Len(idx)) /\ Following(chain, rank, succ, Len(idx))
      /\ Len(idx) \in Nat /\ DOMAIN idx = 1 .. Len(idx)
      /\ \A j \in Int : chain[j] \in Int /\ rank[j] \in Int /\ succ[j] \in Int
  BY Basics
<1>2. chain[i] \in 0 .. NHASH /\ (i = -chain[i] \/ i \in 1 .. Len(idx))
  BY <1>1 DEF Lists
<1>3. succ[i] # 0 => /\ succ[i] \in DOMAIN idx /\ chain[succ[i]] = chain[i] /\ succ[i] > 0
                     /\ rank[succ[i]] < rank[i] /\ succ[i] # i
  BY <1>1 DEF Following
<1>4. succ[i] \in Nat
  BY <1>1, <1>3
<1>5. CASE i > 0
  <2>1. i \in DOMAIN idx
    BY <1>1, <1>2, <1>5
  <2>2. idx[i].ptr \in Nat
    BY <1>1, <2>1, FilesKnown
  <2> QED BY <1>3, <1>4, <1>5, <2>1, <2>2 DEF ReadPtr
<1>6. CASE i <= 0
  <2>1. i = -chain[i] /\ -i \in 0 .. NHASH
    BY <1>1, <1>2, <1>6, DbAssumption
  <2>2. head[-i] \in Nat
    BY <1>1, <2>1, FilesKnown
  <2> QED BY <1>3, <1>4, <1>6, <2>1, <2>2 DEF ReadPtr
<1> QED BY <1>5, <1>6

LEMMA Straight ==
  ASSUME NEW chain, NEW rank, NEW succ, Good(chain, rank, succ), head # <<>>,
         NEW i \in Int, chain[i] >= 0,
         \A q \in Procs : where[q] \in {"push", "unchain"} => Chain(q) # chain[i]
  PROVE  ReadPtr(i) = succ[i]
<1>1. Pointers(chain, succ) /\ \A p \in Procs : At(p, chain, rank, succ)
  BY Basics
<1>2. ASSUME NEW q \in Procs, where[q] \in {"push", "unchain"} PROVE h[q].ptroff # i
  BY <1>1, <1>2 DEF At, Deletes
<1> QED BY <1>1, <1>2 DEF Pointers, Bypassed

LEMMA InChain ==
  ASSUME NEW chain, NEW rank, NEW succ, Good(chain, rank, succ), NEW p \in Procs,
         where[p] \in Chained \cup {"find"}
  PROVE  /\ req[p].op \in Keyed /\ Key(p) \in Keys /\ Hash[Key(p)] = Chain(p)
         /\ Chain(p) \in 1 .. NHASH /\ Chain(p) \in 0 .. NHASH /\ Chain(p) \in Int /\ Chain(p) > 0
         /\ -Chain(p) \in Int /\ -Chain(p) <= 0 /\ -(-Chain(p)) = Chain(p)
         /\ head # <<>> /\ chain[-Chain(p)] = Chain(p)
         /\ ReadPtr(-Chain(p)) = head[Chain(p)] /\ ReadPtr(-Chain(p)) \in Nat
<1>1. /\ Base /\ CallTypes /\ InPlace /\ Created /\ Lists(chain, rank, succ, Len(idx))
  BY Basics
<1>2. req[p].op \in Keyed
  BY <1>1, CallKnown DEF Ops, Chained, Keyed
<1>3. Key(p) \in Keys /\ Chain(p) \in 1 .. NHASH /\ Chain(p) \in 0 .. NHASH
  BY <1>1, <1>2, CallKnown
<1>4. Hash[Key(p)] = Chain(p)
  BY DEF Key, Chain
<1>5. Chain(p) \in Int /\ Chain(p) > 0 /\ -Chain(p) \in Int /\ -Chain(p) <= 0 /\ -(-Chain(p)) = Chain(p)
  BY <1>3, DbAssumption
<1>6. head # <<>>
  BY <1>1 DEF Created, Chained
<1>7. chain[-Chain(p)] = Chain(p)
  BY <1>1, <1>3 DEF Lists
<1>8. ReadPtr(-Chain(p)) \in Nat /\ ReadPtr(-Chain(p)) = head[-(-Chain(p))]
  BY <1>5, <1>6, <1>7, Place
<1> QED BY <1>2, <1>3, <1>4, <1>5, <1>6, <1>7, <1>8

(* Only p itself can be about to change a pointer of the chain it holds.   *)
LEMMA OwnChain ==
  ASSUME NEW chain, NEW rank, NEW succ, Good(chain, rank, succ), NEW p \in Procs,
         where[p] \in Chained, where[p] \notin {"push", "unchain"},
         NEW i \in Int, chain[i] = Chain(p)
  PROVE  ReadPtr(i) = succ[i]
<1>1. Excluded /\ CallTypes /\ InPlace
  BY Basics
<1>2. ASSUME NEW q \in Procs, where[q] \in {"push", "unchain"} PROVE Chain(q) # Chain(p)
  <2>1. req[q].op \in {"delete", "replace", "store"}
    BY <1>1, <1>2, CallKnown DEF Ops
  <2>2. Writer(q) /\ q # p
    BY <1>2, <2>1 DEF Writer, Writes, Chained
  <2>3. Writer(p) \/ Reader(p)
    BY DEF Writer, Reader
  <2>4. ExcludedFrom(q, p)
    BY <1>1, <2>2, ExcludedEach
  <2> QED BY <2>2, <2>3, <2>4 DEF ExcludedFrom
<1>3. Chain(p) >= 0 /\ head # <<>>
  BY InChain
<1> QED BY <1>2, <1>3, Straight

LEMMA FreeList ==
  ASSUME NEW chain, NEW rank, NEW succ, Good(chain, rank, succ), head # <<>>,
         NEW i \in Int, chain[i] = 0
  PROVE  ReadPtr(i) = succ[i]
<1>1. ASSUME NEW q \in Procs, where[q] \in {"push", "unchain"} PROVE Chain(q) # 0
  BY <1>1, InChain DEF Chained
<1> QED BY <1>1, Straight

(***************************************************************************)
(* What a process knows of its chain, when the files stay.                 *)
(***************************************************************************)
LEMMA StillThere ==
  ASSUME NEW chain, NEW p, UNCHANGED <<files, req, before>>
  PROVE  /\ Writer(p)' = (where'[p] \in Chained /\ Writes(p))
         /\ \A k, v : Content(chain, k, v)' = Content(chain, k, v)
         /\ NoRecord(chain, Key(p))' = NoRecord(chain, Key(p))
         /\ Content(chain, Key(p), before[Key(p)])' = Content(chain, Key(p), before[Key(p)])
         /\ \A k : Content(chain, k, before[k])' = Content(chain, k, before[k])
         /\ Key(p)' = Key(p) /\ New(p)' = New(p) /\ Chain(p)' = Chain(p) /\ Writes(p)' = Writes(p)
         /\ HasFound(p, chain)' = (/\ h'[p].idxoff \in DOMAIN idx /\ Has(chain, Key(p), h'[p].idxoff)
                                   /\ h'[p].datoff = idx[h'[p].idxoff].dat)
BY DEF Content, Has, NoRecord, Key, files, Writer, Writes, New, Chain, HasFound

LEMMA StillChanges ==
  ASSUME NEW chain, NEW p, UNCHANGED <<files, req, before>>, Changes(p, chain),
         Writer(p)' => Writer(p),
         Writer(p) =>
           /\ where'[p] \in {"walk", "blank_data", "overwrite"} =>
                Content(chain, Key(p), before[Key(p)])
           /\ where'[p] \in {"blank_data", "overwrite", "blank_idx", "push", "unchain", "reread"} =>
                before[Key(p)] # None
           /\ where'[p] \in {"push", "unchain", "reread", "find_free", "search", "write_data",
                              "write_idx", "append_data", "write_end_data", "append_idx",
                              "write_end_idx", "link"} => NoRecord(chain, Key(p))
           /\ where'[p] \in {"find_free", "search", "write_data", "write_idx"} =>
                before[Key(p)] = None
           /\ where'[p] \in {"append_data", "write_end_data", "append_idx", "write_end_idx", "link"} =>
                /\ req[p].op = "insert" => before[Key(p)] = None
                /\ req[p].op = "replace" => before[Key(p)] # None
  PROVE  Changes(p, chain)'
<1> SUFFICES ASSUME Writer(p)' PROVE Changes(p, chain)'
  BY DEF Changes
<1>1. Writer(p) /\ req' = req /\ before' = before
  OBVIOUS
<1>2. /\ Key(p)' = Key(p) /\ Chain(p)' = Chain(p) /\ before'[Key(p)'] = before[Key(p)]
      /\ NoRecord(chain, Key(p))' = NoRecord(chain, Key(p))
      /\ Content(chain, Key(p), before[Key(p)])' = Content(chain, Key(p), before[Key(p)])
  BY StillThere
<1>3. ASSUME NEW k \in Keys \ {Key(p)'}, Hash[k] = Chain(p)' PROVE Content(chain, k, before[k])'
  <2>1. Content(chain, k, before[k])
    BY <1>1, <1>2, <1>3 DEF Changes
  <2> QED BY <2>1, StillThere
<1> QED BY <1>1, <1>2, <1>3 DEF Changes

(***************************************************************************)
(* The locks that are taken and given back.                                *)
(***************************************************************************)
LEMMA TakesRead ==
  ASSUME LockTypes, NEW p \in Procs, NEW b \in 0 .. NHASH, ReadwLock(b, p)
  PROVE  /\ LockTypes' /\ LocksOf(p) /\ tail' = tail
         /\ \A c \in 0 .. NHASH : p \in rlock'[c] <=> p \in rlock[c] \/ c = b
         /\ \A c \in 0 .. NHASH : p \in wlock'[c] <=> p \in wlock[c]
         /\ \A q \in Procs : q # p => q \notin wlock[b]
BY DEF LockTypes, LocksOf, ReadwLock

LEMMA TakesWrite ==
  ASSUME LockTypes, NEW p \in Procs, NEW b \in 0 .. NHASH, WritewLock(b, p)
  PROVE  /\ LockTypes' /\ LocksOf(p) /\ tail' = tail
         /\ \A c \in 0 .. NHASH : p \in wlock'[c] <=> p \in wlock[c] \/ c = b
         /\ \A c \in 0 .. NHASH : p \in rlock'[c] <=> p \in rlock[c]
         /\ \A q \in Procs : q # p => q \notin wlock[b] /\ q \notin rlock[b]
BY DEF LockTypes, LocksOf, WritewLock

LEMMA GivesBack ==
  ASSUME LockTypes, NEW p \in Procs, NEW b \in 0 .. NHASH, UnLock(b, p)
  PROVE  /\ LockTypes' /\ LocksOf(p) /\ tail' = tail
         /\ \A c \in 0 .. NHASH : p \in wlock'[c] <=> p \in wlock[c] /\ c # b
         /\ \A c \in 0 .. NHASH : p \in rlock'[c] <=> p \in rlock[c] /\ c # b
BY DEF LockTypes, LocksOf, UnLock

LEMMA TakesTail ==
  ASSUME LockTypes, NEW p \in Procs, NEW f \in {"idx", "dat"}, tail[f] \ {p} = {},
         tail' = [tail EXCEPT ![f] = @ \cup {p}], UNCHANGED <<rlock, wlock>>
  PROVE  /\ LockTypes' /\ LocksOf(p)
         /\ \A g \in {"idx", "dat"} : p \in tail'[g] <=> p \in tail[g] \/ g = f
         /\ \A q \in Procs : q # p => q \notin tail[f]
BY DEF LockTypes, LocksOf

LEMMA GivesTail ==
  ASSUME LockTypes, NEW p \in Procs, NEW f \in {"idx", "dat"},
         tail' = [tail EXCEPT ![f] = @ \ {p}], UNCHANGED <<rlock, wlock>>
  PROVE  /\ LockTypes' /\ LocksOf(p)
         /\ \A g \in {"idx", "dat"} : p \in tail'[g] <=> p \in tail[g] /\ g # f
BY DEF LockTypes, LocksOf

LEMMA Zero == 0 \in 0 .. NHASH /\ 1 .. NHASH \subseteq 0 .. NHASH /\ \A b \in 1 .. NHASH : b # 0
BY DbAssumption

LEMMA LocalBase ==
  ASSUME Base, NEW p \in Procs, NEW w \in Wheres, Moves(p, w), UNCHANGED <<files, req>>,
         h' \in [Procs -> Handles], DOMAIN result' = Procs, LockTypes', Locked', Excluded',
         before' \in [Keys -> Data \cup {None}], req[p].op \in Ops(w),
         where[p] \notin {"closed", "create"}, w \notin {"closed", "create"}
  PROVE  Base'
<1>1. DbTypes'
  <2>1. RecordTypes'
    BY DEF Base, DbTypes, RecordTypes, files
  <2> QED BY <2>1, TypesKept DEF Base
<1>2. Created'
  BY CreatedKept DEF Base, files
<1> QED BY <1>1, <1>2 DEF Base

(***************************************************************************)
(* A step of a call that leaves the files alone.                           *)
(***************************************************************************)
LEMMA Inner ==
  ASSUME NEW chain, NEW rank, NEW succ, Good(chain, rank, succ), NEW p \in Procs,
         NEW w \in Elsewhere, where[p] \in Elsewhere, NEW hp \in Handles, Goes(p, w),
         h' = [h EXCEPT ![p] = hp], UNCHANGED <<files, req, before>>,
         DOMAIN result' = Procs, \A q \in Procs : q # p => result'[q] = result[q],
         LockTypes', Locked', Excluded',
         req[p].op \in Ops(w), where[p] \notin {"closed", "create"}, w \notin {"closed", "create"},
         w \in {"append_idx", "write_end_idx"} =>
           where[p] \in {"append_idx", "write_end_idx"} /\ hp.datoff = h[p].datoff,
         At(p, chain, rank, succ)'
  PROVE  Good(chain, rank, succ)'
<1>1. Base /\ CallTypes
  BY Basics
<1>2. w \in Wheres
  BY DEF Elsewhere
<1>3. Moves(p, w)
  BY <1>1, <1>2, Going
<1>4. Sets(p, hp)
  BY <1>1, Setting
<1>5. Alone(p)
  BY <1>3, <1>4 DEF Alone, Moves, Sets
<1>6. Base'
  BY <1>1, <1>2, <1>3, <1>4, LocalBase DEF Sets, CallTypes
<1>7. NewData(p)' => NewData(p) /\ h'[p].datoff = h[p].datoff
  BY <1>3, <1>4 DEF NewData, Moves, Sets
<1> QED BY <1>3, <1>5, <1>6, <1>7, Local

LEMMA InnerQuiet ==
  ASSUME NEW chain, NEW rank, NEW succ, Good(chain, rank, succ), NEW p \in Procs,
         NEW w \in Elsewhere, Goes(p, w), UNCHANGED <<locks, req>>, SameRole(where[p], w)
  PROVE  LockTypes' /\ Locked' /\ Excluded'
<1>1. LockTypes /\ CallTypes /\ Locked /\ Excluded
  BY Basics
<1>2. Moves(p, w)
  BY <1>1, Going DEF Elsewhere
<1>3. Locked' /\ Excluded'
  BY <1>1, <1>2, Quiet
<1> QED BY <1>1, <1>3 DEF LockTypes, locks

(* The record a process has come to in its chain.                          *)
LEMMA Walking ==
  ASSUME NEW chain, NEW rank, NEW succ, Good(chain, rank, succ), NEW p \in Procs, where[p] = "walk"
  PROVE  /\ h[p].ptroff \in Int /\ chain[h[p].ptroff] = Chain(p) /\ succ[h[p].ptroff] = h[p].off
         /\ \A m \in DOMAIN idx :
              chain[m] = Chain(p) /\ rank[m] >= rank[h[p].ptroff] => idx[m].key # Key(p)
         /\ h[p].off # 0 =>
              /\ h[p].off \in DOMAIN idx /\ h[p].off \in Int /\ chain[h[p].off] = Chain(p)
              /\ idx[h[p].off].ptr = succ[h[p].off] /\ succ[h[p].off] \in Nat
              /\ ReadIdx(p, h[p].off) \in Handles
         /\ h[p].off = 0 => NoRecord(chain, Key(p))
<1>1. /\ CallTypes /\ RecordTypes /\ InPlace /\ At(p, chain, rank, succ)
      /\ Lists(chain, rank, succ, Len(idx)) /\ DOMAIN idx = 1 .. Len(idx) /\ Len(idx) \in Nat
      /\ \A i \in Int : chain[i] \in Int /\ rank[i] \in Int /\ succ[i] \in Int
  BY Basics
<1>2. Chain(p) \in Int /\ Chain(p) > 0 /\ head # <<>> /\ where[p] \in Chained /\ Hash[Key(p)] = Chain(p)
  BY InChain DEF Chained
<1>3. /\ h[p].ptroff \in Int /\ chain[h[p].ptroff] = Chain(p) /\ succ[h[p].ptroff] = h[p].off
      /\ \A m \in DOMAIN idx :
           chain[m] = Chain(p) /\ rank[m] >= rank[h[p].ptroff] => idx[m].key # Key(p)
  BY <1>1, CallKnown DEF At, Walks, Fields
<1>4. ASSUME h[p].off # 0
      PROVE  /\ h[p].off \in DOMAIN idx /\ h[p].off \in Int /\ chain[h[p].off] = Chain(p)
             /\ idx[h[p].off].ptr = succ[h[p].off] /\ succ[h[p].off] \in Nat
             /\ ReadIdx(p, h[p].off) \in Handles
  <2>1. h[p].off \in DOMAIN idx /\ h[p].off \in Int /\ chain[h[p].off] = Chain(p) /\ h[p].off > 0
    <3>1. PICK o : o = h[p].ptroff
      OBVIOUS
    <3>2. o \in Int /\ chain[o] = Chain(p) /\ chain[o] >= 0 /\ succ[o] = h[p].off /\ succ[o] # 0
      BY <1>2, <1>3, <1>4, <3>1
    <3>3. succ[o] \in DOMAIN idx /\ chain[succ[o]] = chain[o]
      BY <1>2, <3>2, Place
    <3> QED BY <1>1, <3>2, <3>3
  <2>2. ReadPtr(h[p].off) = succ[h[p].off]
    BY <1>2, <2>1, OwnChain
  <2>3. idx[h[p].off].ptr = succ[h[p].off] /\ succ[h[p].off] \in Nat
    BY <1>2, <2>1, <2>2, Place
  <2>4. ReadIdx(p, h[p].off) \in Handles
    BY <1>1, <2>1, ReadsIdx
  <2> QED BY <2>1, <2>3, <2>4
<1>5. ASSUME h[p].off = 0 PROVE NoRecord(chain, Key(p))
  <2> SUFFICES ASSUME NEW m \in DOMAIN idx, Has(chain, Key(p), m) PROVE FALSE
    BY DEF NoRecord
  <2>1. m \in Int /\ chain[m] = Chain(p) /\ idx[m].key = Key(p) /\ rank[m] \in Int
        /\ rank[h[p].ptroff] \in Int
    BY <1>1, <1>2, <1>3 DEF Has
  <2>2. rank[m] < rank[h[p].ptroff]
    BY <1>3, <2>1
  <2>3. succ[h[p].ptroff] # 0
    BY <1>1, <1>2, <1>3, <2>1, <2>2 DEF Lists
  <2> QED BY <1>3, <1>5, <2>3
<1> QED BY <1>3, <1>4, <1>5

LEMMA FindNextSafe ==
  ASSUME NEW chain, NEW rank, NEW succ, Good(chain, rank, succ), NEW p \in Procs, FindNext(p)
  PROVE  Good(chain, rank, succ)'
<1> DEFINE o == h[p].ptroff
           n == h[p].off
           hp == [ReadIdx(p, n) EXCEPT !.ptroff = n, !.off = idx[n].ptr]
<1>1. /\ where[p] = "walk" /\ n # 0 /\ idx[n].key # Key(p)
      /\ h' = [h EXCEPT ![p] = hp]
      /\ UNCHANGED <<files, locks, where, req, result, left, before>>
  BY DEF FindNext, Key
<1>2. /\ CallTypes /\ InPlace /\ At(p, chain, rank, succ) /\ Lists(chain, rank, succ, Len(idx))
      /\ DOMAIN idx = 1 .. Len(idx) /\ Len(idx) \in Nat
      /\ \A i \in Int : chain[i] \in Int /\ rank[i] \in Int /\ succ[i] \in Int
  BY Basics
<1>3. Chain(p) \in Int /\ Chain(p) > 0
  BY <1>1, InChain DEF Chained
<1>4. /\ chain[o] = Chain(p) /\ succ[o] = n /\ o \in Int
      /\ \A m \in DOMAIN idx : chain[m] = Chain(p) /\ rank[m] >= rank[o] => idx[m].key # Key(p)
      /\ n \in DOMAIN idx /\ n \in Int /\ chain[n] = Chain(p)
      /\ idx[n].ptr = succ[n] /\ succ[n] \in Nat /\ ReadIdx(p, n) \in Handles
  BY <1>1, Walking
<1>5. hp \in Handles /\ hp.ptroff = n /\ hp.off = succ[n]
  <2> HIDE DEF n
  <2>1. hp = [ReadIdx(p, n) EXCEPT !.ptroff = n, !.off = succ[n]]
    BY <1>4
  <2>2. PICK r : r = ReadIdx(p, n)
    OBVIOUS
  <2>3. r \in Handles /\ hp = [r EXCEPT !.ptroff = n, !.off = succ[n]] /\ n \in Int /\ succ[n] \in Nat
    BY <1>4, <2>1, <2>2
  <2> HIDE DEF hp
  <2> QED BY <2>3 DEF Handles
<1> HIDE DEF hp, n, o
<1>6. /\ Goes(p, "walk") /\ h'[p] = hp /\ "walk" \in Elsewhere /\ where[p] \in Elsewhere
      /\ where'[p] = "walk" /\ SameRole(where[p], "walk") /\ req[p].op \in Ops("walk")
      /\ DOMAIN result' = Procs
  BY <1>1, <1>2, CallKnown DEF Goes, CallTypes, Elsewhere, Wheres, Chained, SameRole
<1>7. \A m \in DOMAIN idx : chain[m] = Chain(p) /\ rank[m] >= rank[n] => idx[m].key # Key(p)
  <2> SUFFICES ASSUME NEW m \in DOMAIN idx, chain[m] = Chain(p), rank[m] >= rank[n]
               PROVE  idx[m].key # Key(p)
    OBVIOUS
  <2>0. m \in Int /\ rank[m] \in Int /\ rank[o] \in Int /\ rank[n] \in Int
    BY <1>2, <1>4
  <2>1. CASE m = n
    BY <1>1, <2>1 DEF n
  <2>2. CASE m # n
    <3>1. rank[m] # rank[n]
      BY <1>2, <1>3, <1>4, <2>0, <2>2 DEF Lists
    <3>2. rank[m] < rank[o] => rank[m] <= rank[succ[o]]
      BY <1>2, <1>3, <1>4, <2>0 DEF Lists
    <3>3. rank[m] >= rank[o]
      BY <1>4, <2>0, <3>1, <3>2
    <3> QED BY <1>4, <3>3
  <2> QED BY <2>1, <2>2
<1>8. At(p, chain, rank, succ)'
  <2>1. Walks(p, chain, rank, succ)'
    BY <1>1, <1>4, <1>5, <1>6, <1>7 DEF Walks, Chain, Key, files
  <2>2. Changes(p, chain)'
    <3>1. Changes(p, chain) /\ where'[p] = where[p]
      BY <1>1, <1>2 DEF At
    <3>2. Writer(p)' => Writer(p)
      BY <1>1, <3>1, StillThere DEF Writer
    <3> QED BY <1>1, <3>1, <3>2, StillChanges DEF Changes
  <2>3. /\ Deletes(p, chain, succ)' /\ Stores(p, chain, succ)' /\ Holds(p, chain)'
        /\ Looks(p, chain)' /\ Returns(p, chain)'
    BY <1>6 DEF Deletes, Stores, Holds, Holding, Looks, Returns
  <2> QED BY <2>1, <2>2, <2>3 DEF At
<1>9. LockTypes' /\ Locked' /\ Excluded'
  BY <1>1, <1>6, InnerQuiet
<1> QED BY <1>1, <1>5, <1>6, <1>8, <1>9, Inner

LEMMA FoundSafe ==
  ASSUME NEW chain, NEW rank, NEW succ, Good(chain, rank, succ), NEW p \in Procs, Found(p)
  PROVE  Good(chain, rank, succ)'
<1> DEFINE o == h[p].ptroff
           n == h[p].off
           hp == ReadIdx(p, n)
<1>1. /\ where[p] = "walk" /\ n # 0 /\ idx[n].key = Key(p)
      /\ h' = [h EXCEPT ![p] = hp]
      /\ UNCHANGED <<files, locks, req, left, before>>
  BY DEF Found, Key
<1>2. PICK w \in {"data", "blank_data", "return", "overwrite"} :
        /\ Goes(p, w)
        /\ w = "data" => req[p].op = "fetch" /\ UNCHANGED result
        /\ w = "blank_data" => req[p].op \in {"delete", "replace", "store"} /\ UNCHANGED result
        /\ w = "return" => req[p].op = "insert" /\ result' = [result EXCEPT ![p] = 1]
        /\ w = "overwrite" => /\ req[p].op \in {"replace", "store"} /\ UNCHANGED result
                              /\ idx[n].len = DatLen[New(p)]
  BY DEF Found, New
<1>3. /\ CallTypes /\ RecordTypes /\ InPlace /\ At(p, chain, rank, succ)
  BY Basics
<1>4. Chain(p) \in Int /\ Chain(p) > 0 /\ Hash[Key(p)] = Chain(p)
  BY <1>1, InChain DEF Chained
<1>5. /\ chain[o] = Chain(p) /\ succ[o] = n /\ o \in Int
      /\ n \in DOMAIN idx /\ n \in Int /\ chain[n] = Chain(p)
      /\ idx[n].ptr = succ[n] /\ succ[n] \in Nat /\ hp \in Handles
  BY <1>1, Walking
<1>6. hp.ptroff = o /\ hp.idxoff = n /\ hp.datoff = idx[n].dat /\ hp.ptrval = succ[n]
  BY <1>3, <1>5, ReadsIdx
<1>7. Has(chain, Key(p), n)
  BY <1>1, <1>4, <1>5 DEF Has
<1> HIDE DEF hp, n, o
<1>8. /\ h'[p] = hp /\ w \in Elsewhere /\ where[p] \in Elsewhere
      /\ where'[p] = w /\ SameRole(where[p], w) /\ req[p].op \in Ops(w)
      /\ DOMAIN result' = Procs /\ w \notin {"append_idx", "write_end_idx", "closed", "create"}
      /\ \A q \in Procs : q # p => result'[q] = result[q]
  BY <1>1, <1>2, <1>3 DEF Goes, CallTypes, Elsewhere, Wheres, Chained, SameRole, Ops
<1>9. Changes(p, chain) /\ ~Holding(p)' /\ HasFound(p, chain)'
  <2>1. Changes(p, chain)
    BY <1>3 DEF At
  <2>2. ~Holding(p)'
    BY <1>8 DEF Holding
  <2>3. n \in DOMAIN idx' /\ chain[n] = Hash[Key(p)'] /\ idx'[n].key = Key(p)' /\ hp.datoff = idx'[n].dat
    BY <1>1, <1>5, <1>6, <1>7 DEF Has, Key, files
  <2>4. HasFound(p, chain)'
    BY <1>6, <1>8, <2>3 DEF HasFound, Has
  <2> QED BY <2>1, <2>2, <2>4
<1>10. At(p, chain, rank, succ)'
  <2>1. Walks(p, chain, rank, succ)' /\ Holds(p, chain)'
    BY <1>8, <1>9 DEF Walks, Holds
  <2>2. Deletes(p, chain, succ)'
    BY <1>1, <1>5, <1>6, <1>8, <1>9, StillThere DEF Deletes
  <2>3. Stores(p, chain, succ)'
    BY <1>1, <1>2, <1>5, <1>6, <1>8, <1>9, StillThere DEF Stores, files
  <2>4. Looks(p, chain)'
    BY <1>8, <1>9 DEF Looks
  <2>5. Writer(p) => before[Key(p)] # None /\ Content(chain, Key(p), before[Key(p)])
    <3>1. Writer(p) => Content(chain, Key(p), before[Key(p)])
      BY <1>1, <1>9 DEF Changes
    <3> QED BY <1>5, <1>7, <3>1 DEF Content
  <2>6. Writer(p)' => Writer(p)
    BY <1>1, StillThere DEF Writer, Chained
  <2>7. Changes(p, chain)'
    BY <1>1, <1>2, <1>8, <1>9, <2>5, <2>6, StillThere DEF Changes
  <2>8. Returns(p, chain)'
    <3> SUFFICES ASSUME w = "return" PROVE Returns(p, chain)'
      BY <1>8 DEF Returns
    <3>1. Writer(p) /\ req'[p].op = "insert" /\ result'[p] = 1
      BY <1>1, <1>2, <1>3 DEF Writer, Writes, Chained, CallTypes
    <3>2. Content(chain, Key(p), before[Key(p)])' /\ before'[Key(p)'] # None
      BY <1>1, <2>5, <3>1, StillThere
    <3> QED BY <3>1, <3>2 DEF Returns, Answers
  <2> QED BY <2>1, <2>2, <2>3, <2>4, <2>7, <2>8 DEF At
<1>11. LockTypes' /\ Locked' /\ Excluded'
  BY <1>1, <1>2, <1>8, InnerQuiet
<1> QED BY <1>1, <1>2, <1>5, <1>8, <1>10, <1>11, Inner

(***************************************************************************)
(* The locks a call takes and gives back on its way.                       *)
(***************************************************************************)
LEMMA LocksChain ==
  ASSUME Base, NEW p \in Procs, where[p] = "find", Moves(p, "walk"), UNCHANGED req,
         \/ Writes(p) /\ WritewLock(Chain(p), p)
         \/ ~Writes(p) /\ ReadwLock(Chain(p), p)
  PROVE  LockTypes' /\ Locked' /\ Excluded'
<1>1. LockTypes /\ Locked /\ Excluded /\ CallTypes /\ InPlace /\ LockedBy(p)
  BY LockedEach DEF Base, DbTypes
<1>2. Chain(p) \in 1 .. NHASH /\ Chain(p) \in 0 .. NHASH /\ Chain(p) # 0
  <2>1. req[p].op \in Keyed
    BY <1>1, CallKnown DEF Ops, Keyed
  <2> QED BY <1>1, <2>1, CallKnown, Zero
<1>3. /\ where'[p] = "walk" /\ Writes(p)' = Writes(p) /\ Chain(p)' = Chain(p)
      /\ \A q \in Procs : q # p => /\ where'[q] = where[q] /\ Writer(q)' = Writer(q)
                                   /\ Reader(q)' = Reader(q) /\ Chain(q)' = Chain(q)
                                   /\ Freeing(q)' = Freeing(q) /\ Scanning(q)' = Scanning(q)
  BY DEF Moves, Writes, Chain, Writer, Reader, Freeing, Scanning
<1>4. /\ ~Freeing(p)' /\ ~Scanning(p)' /\ ~Freeing(p) /\ ~Scanning(p) /\ ~Writer(p) /\ ~Reader(p)
      /\ Writer(p)' = Writes(p) /\ Reader(p)' = ~Writes(p)
  <2>1. where'[p] \in Chained
    BY <1>3 DEF Chained
  <2>2. Writer(p)' = Writes(p) /\ Reader(p)' = ~Writes(p)
    BY <1>3, <2>1 DEF Writer, Reader, Writes
  <2> QED BY <1>3, <2>2 DEF Freeing, Scanning, Writer, Reader, Chained
<1>5. CASE Writes(p) /\ WritewLock(Chain(p), p)
  <2>1. /\ LockTypes' /\ LocksOf(p) /\ tail' = tail
        /\ \A c \in 0 .. NHASH : p \in wlock'[c] <=> p \in wlock[c] \/ c = Chain(p)
        /\ \A c \in 0 .. NHASH : p \in rlock'[c] <=> p \in rlock[c]
        /\ \A q \in Procs : q # p => q \notin wlock[Chain(p)] /\ q \notin rlock[Chain(p)]
    BY <1>1, <1>2, <1>5, TakesWrite
  <2>2. LockedBy(p)'
    BY <1>1, <1>2, <1>3, <1>4, <1>5, <2>1, Zero DEF LockedBy
  <2>3. ASSUME NEW q \in Procs, q # p PROVE ExcludedFrom(p, q)' /\ ExcludedFrom(q, p)'
    <3>1. LockedBy(q)
      BY <1>1, LockedEach
    <3>2. (Writer(q) \/ Reader(q)) => Chain(q) # Chain(p)
      BY <1>2, <2>1, <2>3, <3>1 DEF LockedBy
    <3> QED BY <1>3, <1>4, <2>3, <3>2 DEF ExcludedFrom
  <2> QED BY <1>1, <2>1, <2>2, <2>3, Relocked
<1>6. CASE ~Writes(p) /\ ReadwLock(Chain(p), p)
  <2>1. /\ LockTypes' /\ LocksOf(p) /\ tail' = tail
        /\ \A c \in 0 .. NHASH : p \in rlock'[c] <=> p \in rlock[c] \/ c = Chain(p)
        /\ \A c \in 0 .. NHASH : p \in wlock'[c] <=> p \in wlock[c]
        /\ \A q \in Procs : q # p => q \notin wlock[Chain(p)]
    BY <1>1, <1>2, <1>6, TakesRead
  <2>2. LockedBy(p)'
    BY <1>1, <1>2, <1>3, <1>4, <1>6, <2>1, Zero DEF LockedBy
  <2>3. ASSUME NEW q \in Procs, q # p PROVE ExcludedFrom(p, q)' /\ ExcludedFrom(q, p)'
    <3>1. LockedBy(q)
      BY <1>1, LockedEach
    <3>2. Writer(q) => Chain(q) # Chain(p)
      BY <1>2, <2>1, <2>3, <3>1 DEF LockedBy
    <3> QED BY <1>3, <1>4, <1>6, <2>3, <3>2 DEF ExcludedFrom
  <2> QED BY <1>1, <2>1, <2>2, <2>3, Relocked
<1> QED BY <1>5, <1>6

LEMMA LeavesChain ==
  ASSUME Base, NEW p \in Procs, where[p] = "return", Moves(p, "idle"), UNCHANGED req,
         UnLock(Chain(p), p)
  PROVE  LockTypes' /\ Locked' /\ Excluded'
<1>1. LockTypes /\ Locked /\ Excluded /\ CallTypes /\ InPlace /\ LockedBy(p)
  BY LockedEach DEF Base, DbTypes
<1>2. Chain(p) \in 1 .. NHASH /\ Chain(p) \in 0 .. NHASH /\ Chain(p) # 0
  <2>1. req[p].op \in Keyed
    BY <1>1, CallKnown DEF Ops, Keyed
  <2> QED BY <1>1, <2>1, CallKnown, Zero
<1>3. /\ ~Freeing(p)' /\ ~Scanning(p)' /\ ~Freeing(p) /\ ~Scanning(p)
      /\ ~Writer(p)' /\ ~Reader(p)' /\ where'[p] = "idle"
  BY DEF Freeing, Scanning, Writer, Reader, Chained, Moves
<1>4. /\ LockTypes' /\ LocksOf(p) /\ tail' = tail
      /\ \A c \in 0 .. NHASH : p \in wlock'[c] <=> p \in wlock[c] /\ c # Chain(p)
      /\ \A c \in 0 .. NHASH : p \in rlock'[c] <=> p \in rlock[c] /\ c # Chain(p)
  BY <1>1, <1>2, GivesBack
<1>5. LockedBy(p)'
  BY <1>1, <1>2, <1>3, <1>4, Zero DEF LockedBy
<1>6. LessRole(where[p], "idle")
  BY DEF LessRole, Chained
<1> QED BY <1>1, <1>4, <1>5, <1>6, Unlocked

LEMMA LocksFree ==
  ASSUME Base, NEW p \in Procs, where[p] \in {"blank_data", "find_free"},
         NEW w \in {"blank_idx", "search"}, Moves(p, w), UNCHANGED req, WritewLock(0, p)
  PROVE  LockTypes' /\ Locked' /\ Excluded'
<1>1. LockTypes /\ Locked /\ Excluded /\ LockedBy(p)
  BY LockedEach DEF Base, DbTypes
<1>2. /\ where'[p] = w /\ Writer(p)' = Writer(p) /\ Chain(p)' = Chain(p) /\ Reader(p)' = Reader(p)
      /\ \A q \in Procs : q # p => /\ where'[q] = where[q] /\ Writer(q)' = Writer(q)
                                   /\ Reader(q)' = Reader(q) /\ Chain(q)' = Chain(q)
                                   /\ Freeing(q)' = Freeing(q) /\ Scanning(q)' = Scanning(q)
  BY DEF Moves, Writes, Chain, Writer, Reader, Freeing, Scanning, Chained
<1>3. Freeing(p)' /\ ~Scanning(p)' /\ ~Freeing(p) /\ ~Scanning(p)
  BY <1>2 DEF Freeing, Scanning
<1>4. /\ LockTypes' /\ LocksOf(p) /\ tail' = tail
      /\ \A c \in 0 .. NHASH : p \in wlock'[c] <=> p \in wlock[c] \/ c = 0
      /\ \A c \in 0 .. NHASH : p \in rlock'[c] <=> p \in rlock[c]
      /\ \A q \in Procs : q # p => q \notin wlock[0] /\ q \notin rlock[0]
  BY <1>1, TakesWrite, Zero
<1>5. LockedBy(p)'
  BY <1>1, <1>2, <1>3, <1>4, Zero DEF LockedBy
<1>6. ASSUME NEW q \in Procs, q # p PROVE ExcludedFrom(p, q)' /\ ExcludedFrom(q, p)'
  <2>1. LockedBy(q) /\ ExcludedFrom(p, q) /\ ExcludedFrom(q, p)
    BY <1>1, <1>6, LockedEach, ExcludedEach
  <2>2. ~Freeing(q) /\ ~Scanning(q)
    BY <1>4, <1>6, <2>1 DEF LockedBy
  <2> QED BY <1>2, <1>3, <1>6, <2>1, <2>2 DEF ExcludedFrom
<1> QED BY <1>1, <1>4, <1>5, <1>6, Relocked

LEMMA LeavesFree ==
  ASSUME Base, NEW p \in Procs, where[p] \in {"unchain", "search"},
         NEW w \in {"return", "reread", "write_data", "append_data"}, Moves(p, w), UNCHANGED req,
         UnLock(0, p)
  PROVE  LockTypes' /\ Locked' /\ Excluded'
<1>1. LockTypes /\ Locked /\ Excluded /\ LockedBy(p)
  BY LockedEach DEF Base, DbTypes
<1>2. /\ where'[p] = w /\ Writer(p)' = Writer(p) /\ Chain(p)' = Chain(p) /\ Reader(p)' = Reader(p)
      /\ ~Freeing(p)' /\ ~Scanning(p)' /\ ~Scanning(p)
  BY DEF Moves, Writes, Chain, Writer, Reader, Freeing, Scanning, Chained
<1>3. /\ LockTypes' /\ LocksOf(p) /\ tail' = tail
      /\ \A c \in 0 .. NHASH : p \in wlock'[c] <=> p \in wlock[c] /\ c # 0
      /\ \A c \in 0 .. NHASH : p \in rlock'[c] <=> p \in rlock[c] /\ c # 0
  BY <1>1, GivesBack, Zero
<1>4. LockedBy(p)'
  BY <1>1, <1>2, <1>3, Zero DEF LockedBy
<1>5. LessRole(where[p], w)
  BY DEF LessRole, Chained
<1> QED BY <1>1, <1>3, <1>4, <1>5, Unlocked

LEMMA LocksScan ==
  ASSUME Base, NEW p \in Procs, where[p] = "next", Moves(p, "next_idx"), UNCHANGED req,
         ReadwLock(0, p)
  PROVE  LockTypes' /\ Locked' /\ Excluded'
<1>1. LockTypes /\ Locked /\ Excluded /\ LockedBy(p)
  BY LockedEach DEF Base, DbTypes
<1>2. /\ where'[p] = "next_idx" /\ ~Writer(p) /\ ~Reader(p) /\ ~Writer(p)' /\ ~Reader(p)'
      /\ \A q \in Procs : q # p => /\ where'[q] = where[q] /\ Writer(q)' = Writer(q)
                                   /\ Reader(q)' = Reader(q) /\ Chain(q)' = Chain(q)
                                   /\ Freeing(q)' = Freeing(q) /\ Scanning(q)' = Scanning(q)
  BY DEF Moves, Writes, Chain, Writer, Reader, Freeing, Scanning, Chained
<1>3. ~Freeing(p)' /\ Scanning(p)' /\ ~Freeing(p) /\ ~Scanning(p)
  BY <1>2 DEF Freeing, Scanning
<1>4. /\ LockTypes' /\ LocksOf(p) /\ tail' = tail
      /\ \A c \in 0 .. NHASH : p \in rlock'[c] <=> p \in rlock[c] \/ c = 0
      /\ \A c \in 0 .. NHASH : p \in wlock'[c] <=> p \in wlock[c]
      /\ \A q \in Procs : q # p => q \notin wlock[0]
  BY <1>1, TakesRead, Zero
<1>5. LockedBy(p)'
  BY <1>1, <1>2, <1>3, <1>4, Zero DEF LockedBy
<1>6. ASSUME NEW q \in Procs, q # p PROVE ExcludedFrom(p, q)' /\ ExcludedFrom(q, p)'
  <2>1. LockedBy(q)
    BY <1>1, LockedEach
  <2>2. ~Freeing(q)
    BY <1>4, <1>6, <2>1 DEF LockedBy
  <2> QED BY <1>2, <1>3, <1>6, <2>2 DEF ExcludedFrom
<1> QED BY <1>1, <1>4, <1>5, <1>6, Relocked

LEMMA LeavesScan ==
  ASSUME Base, NEW p \in Procs, where[p] \in {"next_idx", "next_data"}, Moves(p, "idle"),
         UNCHANGED req, UnLock(0, p)
  PROVE  LockTypes' /\ Locked' /\ Excluded'
<1>1. LockTypes /\ Locked /\ Excluded /\ LockedBy(p)
  BY LockedEach DEF Base, DbTypes
<1>2. /\ where'[p] = "idle" /\ ~Writer(p)' /\ ~Reader(p)' /\ ~Writer(p) /\ ~Reader(p)
      /\ ~Freeing(p)' /\ ~Scanning(p)' /\ ~Freeing(p)
  BY DEF Moves, Writes, Chain, Writer, Reader, Freeing, Scanning, Chained
<1>3. /\ LockTypes' /\ LocksOf(p) /\ tail' = tail
      /\ \A c \in 0 .. NHASH : p \in wlock'[c] <=> p \in wlock[c] /\ c # 0
      /\ \A c \in 0 .. NHASH : p \in rlock'[c] <=> p \in rlock[c] /\ c # 0
  BY <1>1, GivesBack, Zero
<1>4. LockedBy(p)'
  BY <1>1, <1>2, <1>3, Zero DEF LockedBy
<1>5. LessRole(where[p], "idle")
  BY DEF LessRole, Chained
<1> QED BY <1>1, <1>3, <1>4, <1>5, Unlocked

(* The end of a file: of the index, or of the data.                        *)
LEMMA LocksEnd ==
  ASSUME Base, NEW p \in Procs, NEW f \in {"idx", "dat"}, NEW w \in Wheres, Moves(p, w),
         UNCHANGED <<req, rlock, wlock>>, tail[f] \ {p} = {}, tail' = [tail EXCEPT ![f] = @ \cup {p}],
         where[p] = (IF f = "idx" THEN "append_idx" ELSE "append_data"),
         w = (IF f = "idx" THEN "write_end_idx" ELSE "write_end_data")
  PROVE  LockTypes' /\ Locked' /\ Excluded'
<1>1. LockTypes /\ Locked /\ Excluded /\ LockedBy(p)
  BY LockedEach DEF Base, DbTypes
<1>2. /\ where'[p] = w /\ Writer(p)' = Writer(p) /\ Reader(p)' = Reader(p) /\ Chain(p)' = Chain(p)
      /\ ~Freeing(p)' /\ ~Scanning(p)' /\ ~Freeing(p) /\ ~Scanning(p)
      /\ \A q \in Procs : q # p => /\ where'[q] = where[q] /\ Writer(q)' = Writer(q)
                                   /\ Reader(q)' = Reader(q) /\ Chain(q)' = Chain(q)
                                   /\ Freeing(q)' = Freeing(q) /\ Scanning(q)' = Scanning(q)
  BY DEF Moves, Writes, Chain, Writer, Reader, Freeing, Scanning, Chained
<1>4. /\ LockTypes' /\ LocksOf(p)
      /\ \A g \in {"idx", "dat"} : p \in tail'[g] <=> p \in tail[g] \/ g = f
      /\ \A q \in Procs : q # p => q \notin tail[f]
  BY <1>1, TakesTail
<1>5. LockedBy(p)'
  BY <1>1, <1>2, <1>4 DEF LockedBy
<1>6. ASSUME NEW q \in Procs, q # p PROVE ExcludedFrom(p, q)' /\ ExcludedFrom(q, p)'
  <2>1. LockedBy(q) /\ ExcludedFrom(p, q) /\ ExcludedFrom(q, p)
    BY <1>1, <1>6, LockedEach, ExcludedEach
  <2>2. where[q] # w
    BY <1>4, <1>6, <2>1 DEF LockedBy
  <2> QED BY <1>2, <1>6, <2>1, <2>2 DEF ExcludedFrom
<1> QED BY <1>1, <1>4, <1>5, <1>6, Relocked

LEMMA LeavesEnd ==
  ASSUME Base, NEW p \in Procs, NEW f \in {"idx", "dat"}, NEW w \in Wheres, Moves(p, w),
         UNCHANGED <<req, rlock, wlock>>, tail' = [tail EXCEPT ![f] = @ \ {p}],
         where[p] \in (IF f = "idx" THEN {"write_idx", "write_end_idx"}
                       ELSE {"write_data", "write_end_data", "overwrite"}),
         w \in (IF f = "idx" THEN {"link"} ELSE {"write_idx", "append_idx", "return"})
  PROVE  LockTypes' /\ Locked' /\ Excluded'
<1>1. LockTypes /\ Locked /\ Excluded /\ LockedBy(p)
  BY LockedEach DEF Base, DbTypes
<1>2. /\ where'[p] = w /\ Writer(p)' = Writer(p) /\ Reader(p)' = Reader(p) /\ Chain(p)' = Chain(p)
      /\ ~Freeing(p)' /\ ~Scanning(p)' /\ ~Freeing(p) /\ ~Scanning(p)
  BY DEF Moves, Writes, Chain, Writer, Reader, Freeing, Scanning, Chained
<1>4. /\ LockTypes' /\ LocksOf(p)
      /\ \A g \in {"idx", "dat"} : p \in tail'[g] <=> p \in tail[g] /\ g # f
  BY <1>1, GivesTail
<1>5. LockedBy(p)'
  BY <1>1, <1>2, <1>4 DEF LockedBy
<1>6. LessRole(where[p], w)
  BY DEF LessRole, Chained
<1> QED BY <1>1, <1>4, <1>5, <1>6, Unlocked

(* The record of a key in a chain that p has locked.                       *)
LEMMA Stored ==
  ASSUME NEW chain, NEW rank, NEW succ, Good(chain, rank, succ), NEW p \in Procs,
         where[p] \in Chained \ {"blank_idx"}, NEW n \in DOMAIN idx, chain[n] = Chain(p)
  PROVE  /\ idx[n].key \in Keys /\ Hash[idx[n].key] = Chain(p) /\ KeyLen[idx[n].key] = idx[n].klen
         /\ dat[idx[n].dat].data \in Data /\ DatLen[dat[idx[n].dat].data] = idx[n].len
         /\ idx[n].dat \in DOMAIN dat
<1>1. /\ Records(chain) /\ Excluded /\ CallTypes /\ InPlace
      /\ \A q \in Procs : At(q, chain, rank, succ)
  BY Basics
<1>2. Chain(p) > 0
  BY InChain
<1>3. ASSUME NEW q \in Procs, where[q] = "blank_idx", h[q].idxoff = n PROVE FALSE
  <2>1. chain[n] = Hash[Key(q)] /\ Hash[Key(q)] = Chain(q)
    BY <1>1, <1>3 DEF At, Deletes, HasFound, Has, Chain, Key
  <2>2. req[q].op \in {"delete", "replace", "store"}
    BY <1>1, <1>3, CallKnown DEF Ops
  <2>3. Writer(q) /\ (Writer(p) \/ Reader(p)) /\ p # q
    BY <1>3, <2>2 DEF Writer, Reader, Writes, Chained
  <2>4. ExcludedFrom(q, p)
    BY <1>1, <2>3, ExcludedEach
  <2> QED BY <2>1, <2>3, <2>4 DEF ExcludedFrom
<1> QED BY <1>1, <1>2, <1>3 DEF Records

LEMMA OnlyOne ==
  ASSUME NEW chain, Distinct(chain), NEW k, Hash[k] > 0, NEW n \in DOMAIN idx, Has(chain, k, n),
         NEW v, v = dat[idx[n].dat].data, v # None
  PROVE  Content(chain, k, v)
<1>1. \A m \in DOMAIN idx : Has(chain, k, m) => m = n
  BY DEF Distinct, Has
<1> QED BY <1>1 DEF Content

LEMMA Lacks ==
  ASSUME NEW chain, NEW k, NoRecord(chain, k)
  PROVE  /\ Content(chain, k, None)
         /\ \A v : Content(chain, k, v) => v = None
BY DEF NoRecord, Content

LEMMA NotFoundSafe ==
  ASSUME NEW chain, NEW rank, NEW succ, Good(chain, rank, succ), NEW p \in Procs, NotFound(p)
  PROVE  Good(chain, rank, succ)'
<1>1. where[p] = "walk" /\ h[p].off = 0 /\ UNCHANGED <<files, locks, req, left, before>>
  BY DEF NotFound
<1>2. /\ CallTypes /\ InPlace /\ At(p, chain, rank, succ) /\ h[p] \in Handles
  BY Basics, CallKnown
<1>3. /\ Hash[Key(p)] = Chain(p) /\ -Chain(p) \in Int /\ chain[-Chain(p)] = Chain(p)
      /\ ReadPtr(-Chain(p)) \in Nat
  BY <1>1, InChain DEF Chained
<1>4. NoRecord(chain, Key(p))
  BY <1>1, Walking
<1>5. Writer(p) => before[Key(p)] = None
  BY <1>1, <1>2, <1>4, Lacks DEF At, Changes
<1>6. Writer(p)' => Writer(p)
  BY <1>1, StillThere DEF Writer, Chained
<1>7. CASE /\ req[p].op \in {"fetch", "delete", "replace"}
           /\ result' = [result EXCEPT ![p] = IF req[p].op = "fetch" THEN None ELSE -1]
           /\ Goes(p, "return")
           /\ UNCHANGED h
  <2>0. PICK hp : hp = h[p]
    OBVIOUS
  <2>1. /\ h' = [h EXCEPT ![p] = hp] /\ hp \in Handles /\ where'[p] = "return" /\ "return" \in Elsewhere
        /\ where[p] \in Elsewhere /\ SameRole(where[p], "return") /\ req[p].op \in Ops("return")
        /\ DOMAIN result' = Procs /\ \A q \in Procs : q # p => result'[q] = result[q]
        /\ result'[p] = IF req[p].op = "fetch" THEN None ELSE -1
    <3>1. /\ h' = [h EXCEPT ![p] = hp] /\ hp \in Handles /\ where'[p] = "return"
          /\ DOMAIN result' = Procs /\ \A q \in Procs : q # p => result'[q] = result[q]
          /\ result'[p] = IF req[p].op = "fetch" THEN None ELSE -1
      BY <1>1, <1>2, <1>7, <2>0 DEF Goes, CallTypes
    <3>2. "return" \in Elsewhere /\ "walk" \in Elsewhere /\ SameRole("walk", "return")
      BY DEF Elsewhere, Wheres, Chained, SameRole
    <3>3. req[p].op \in Ops("return")
      BY <1>7 DEF Ops
    <3> QED BY <1>1, <3>1, <3>2, <3>3
  <2>2. Changes(p, chain)'
    <3>1. Changes(p, chain)
      BY <1>2 DEF At
    <3> QED BY <1>1, <1>6, <2>1, <3>1, StillChanges
  <2>3. Returns(p, chain)'
    <3>0. PICK k, v : k = Key(p) /\ v = None
      OBVIOUS
    <3>1. Content(chain, Key(p), None)'
      <4>1. Content(chain, k, v)
        BY <1>4, <3>0, Lacks
      <4>2. Content(chain, k, v)' = Content(chain, k, v) /\ Key(p)' = Key(p)
        BY <1>1, StillThere
      <4> QED BY <3>0, <4>1, <4>2 DEF Content, Has
    <3>2. CASE req[p].op = "fetch"
      <4>1. req'[p].op = "fetch" /\ result'[p] = None
        BY <1>1, <2>1, <3>2
      <4>2. Content(chain, Key(p), result[p])'
        BY <3>1, <4>1 DEF Content
      <4> QED BY <4>1, <4>2 DEF Returns
    <3>3. CASE req[p].op # "fetch"
      <4>1. /\ req'[p].op \in {"delete", "replace"} /\ req'[p].op = req[p].op /\ result'[p] = -1
            /\ before'[Key(p)'] = None
        <5>1. Writer(p)
          BY <1>1, <3>3 DEF Writer, Writes, Chained
        <5> QED BY <1>1, <1>5, <1>7, <2>1, <3>3, <5>1 DEF Key
      <4> QED BY <3>1, <4>1 DEF Returns, Answers
    <3> QED BY <3>2, <3>3
  <2>4. At(p, chain, rank, succ)'
    BY <2>1, <2>2, <2>3 DEF At, Walks, Deletes, Stores, Holds, Holding, Looks
  <2>5. LockTypes' /\ Locked' /\ Excluded'
    BY <1>1, <1>7, <2>1, InnerQuiet
  <2>6. UNCHANGED <<files, req, before>> /\ Goes(p, "return") /\ where[p] \notin {"closed", "create"}
    BY <1>1, <1>7
  <2> QED BY <2>1, <2>4, <2>5, <2>6, Inner
<1>8. CASE /\ req[p].op \in {"insert", "store"}
           /\ h' = [h EXCEPT ![p].save = ReadPtr(-Chain(p))]
           /\ Goes(p, "find_free")
           /\ UNCHANGED result
  <2>0. PICK hp : hp = [h[p] EXCEPT !.save = ReadPtr(-Chain(p))]
    OBVIOUS
  <2>1. hp \in Handles /\ hp.save = succ[-Chain(p)]
    <3>1. ReadPtr(-Chain(p)) = succ[-Chain(p)]
      BY <1>1, <1>3, OwnChain DEF Chained
    <3> QED BY <1>2, <1>3, <2>0, <3>1, HandleTyped DEF Handles
  <2>2. /\ h' = [h EXCEPT ![p] = hp] /\ h'[p] = hp /\ where'[p] = "find_free"
        /\ "find_free" \in Elsewhere
        /\ where[p] \in Elsewhere /\ SameRole(where[p], "find_free")
        /\ req[p].op \in Ops("find_free") /\ DOMAIN result' = Procs
    <3>1. /\ h' = [h EXCEPT ![p] = hp] /\ h'[p] = hp /\ where'[p] = "find_free"
          /\ DOMAIN result' = Procs
      BY <1>1, <1>2, <1>8, <2>0 DEF Goes, CallTypes
    <3>2. "find_free" \in Elsewhere /\ "walk" \in Elsewhere /\ SameRole("walk", "find_free")
      BY DEF Elsewhere, Wheres, Chained, SameRole
    <3>3. req[p].op \in Ops("find_free")
      BY <1>8 DEF Ops
    <3> QED BY <1>1, <3>1, <3>2, <3>3
  <2>3. Changes(p, chain)'
    <3>1. Changes(p, chain)
      BY <1>2 DEF At
    <3> QED BY <1>1, <1>4, <1>5, <1>6, <2>2, <3>1, StillChanges
  <2>4. Stores(p, chain, succ)'
    BY <1>1, <2>1, <2>2, StillThere DEF Stores
  <2>5. At(p, chain, rank, succ)'
    BY <2>2, <2>3, <2>4 DEF At, Walks, Deletes, Holds, Holding, Looks, Returns
  <2>6. LockTypes' /\ Locked' /\ Excluded'
    BY <1>1, <1>8, <2>2, InnerQuiet
  <2> QED BY <1>1, <1>8, <2>1, <2>2, <2>5, <2>6, Inner
<1> QED BY <1>7, <1>8 DEF NotFound

LEMMA FetchDataSafe ==
  ASSUME NEW chain, NEW rank, NEW succ, Good(chain, rank, succ), NEW p \in Procs, FetchData(p)
  PROVE  Good(chain, rank, succ)'
<1>1. /\ where[p] = "data" /\ UNCHANGED <<files, locks, req, h, left, before>>
      /\ result' = [result EXCEPT ![p] = dat[h[p].datoff].data] /\ Goes(p, "return")
  BY DEF FetchData
<1>2. /\ CallTypes /\ InPlace /\ At(p, chain, rank, succ) /\ h[p] \in Handles /\ Distinct(chain)
      /\ req[p].op \in Ops("data")
  BY <1>1, Basics, CallKnown
<1>3. Hash[Key(p)] = Chain(p) /\ Chain(p) > 0
  BY <1>1, InChain DEF Chained
<1>4. req[p].op = "fetch" /\ HasFound(p, chain)
  BY <1>1, <1>2 DEF Ops, At, Looks
<1>5. Content(chain, Key(p), dat[h[p].datoff].data)
  <2>0. PICK n : n = h[p].idxoff
    OBVIOUS
  <2>1. n \in DOMAIN idx /\ Has(chain, Key(p), n) /\ h[p].datoff = idx[n].dat /\ chain[n] = Chain(p)
    BY <1>3, <1>4, <2>0 DEF HasFound, Has
  <2>2. dat[idx[n].dat].data \in Data
    BY <1>1, <2>1, Stored DEF Chained
  <2>3. dat[idx[n].dat].data # None
    BY <2>2, DbAssumption
  <2> QED BY <1>2, <1>3, <2>1, <2>3, OnlyOne
<1>H. PICK hp : hp = h[p]
  OBVIOUS
<1>6. /\ h' = [h EXCEPT ![p] = hp] /\ hp \in Handles /\ where'[p] = "return" /\ "return" \in Elsewhere
      /\ where[p] \in Elsewhere /\ SameRole(where[p], "return") /\ req[p].op \in Ops("return")
      /\ DOMAIN result' = Procs /\ result'[p] = dat[h[p].datoff].data
      /\ \A q \in Procs : q # p => result'[q] = result[q]
  <2>1. h' = [h EXCEPT ![p] = hp] /\ hp \in Handles /\ where'[p] = "return"
    BY <1>1, <1>2, <1>H DEF Goes, CallTypes
  <2>2. "return" \in Elsewhere /\ "data" \in Elsewhere /\ SameRole("data", "return")
    BY DEF Elsewhere, Wheres, Chained, SameRole
  <2>3. req[p].op \in Ops("return")
    BY <1>4 DEF Ops
  <2>4. /\ DOMAIN result' = Procs /\ result'[p] = dat[h[p].datoff].data
        /\ \A q \in Procs : q # p => result'[q] = result[q]
    BY <1>1, <1>2 DEF CallTypes
  <2> QED BY <1>1, <2>1, <2>2, <2>3, <2>4
<1>7. Returns(p, chain)'
  <2>1. PICK v : v = dat[h[p].datoff].data
    OBVIOUS
  <2>0. PICK k : k = Key(p)
    OBVIOUS
  <2>2. Content(chain, k, v)' /\ k = Key(p)'
    <3>1. Content(chain, k, v)
      BY <1>5, <2>0, <2>1
    <3>2. Content(chain, k, v)' = Content(chain, k, v) /\ Key(p)' = Key(p)
      BY <1>1, StillThere
    <3> QED BY <2>0, <3>1, <3>2
  <2>3. result'[p] = v /\ req'[p].op = "fetch"
    BY <1>1, <1>4, <1>6, <2>1
  <2>4. Content(chain, Key(p), result[p])'
    BY <2>2, <2>3 DEF Content
  <2> QED BY <2>3, <2>4 DEF Returns
<1>8. ~Writer(p)'
  BY <1>1, <1>4 DEF Writer, Writes
<1>9. At(p, chain, rank, succ)'
  BY <1>6, <1>7, <1>8 DEF At, Changes, Walks, Deletes, Stores, Holds, Holding, Looks
<1>10. LockTypes' /\ Locked' /\ Excluded'
  BY <1>1, <1>6, InnerQuiet
<1>11. UNCHANGED <<files, req, before>> /\ Goes(p, "return") /\ where[p] \notin {"closed", "create"}
  BY <1>1
<1> QED BY <1>6, <1>9, <1>10, <1>11, Inner

LEMMA RereadSafe ==
  ASSUME NEW chain, NEW rank, NEW succ, Good(chain, rank, succ), NEW p \in Procs, Reread(p)
  PROVE  Good(chain, rank, succ)'
<1>0. PICK hp : hp = [h[p] EXCEPT !.save = ReadPtr(-Chain(p))]
  OBVIOUS
<1>1. /\ where[p] = "reread" /\ UNCHANGED <<files, locks, req, result, left, before>>
      /\ h' = [h EXCEPT ![p] = hp] /\ Goes(p, "append_data")
  BY <1>0 DEF Reread
<1>2. /\ CallTypes /\ InPlace /\ At(p, chain, rank, succ) /\ h[p] \in Handles
      /\ req[p].op \in Ops("reread")
  BY <1>1, Basics, CallKnown
<1>3. /\ -Chain(p) \in Int /\ chain[-Chain(p)] = Chain(p) /\ ReadPtr(-Chain(p)) \in Nat
  BY <1>1, InChain DEF Chained
<1>4. hp \in Handles /\ hp.save = succ[-Chain(p)]
  <2>1. ReadPtr(-Chain(p)) = succ[-Chain(p)]
    BY <1>1, <1>3, OwnChain DEF Chained
  <2> QED BY <1>0, <1>2, <1>3, <2>1, HandleTyped DEF Handles
<1>5. /\ h'[p] = hp /\ where'[p] = "append_data" /\ "append_data" \in Elsewhere
      /\ where[p] \in Elsewhere /\ SameRole(where[p], "append_data")
      /\ req[p].op \in Ops("append_data") /\ DOMAIN result' = Procs
      /\ req[p].op \in {"replace", "store"}
  <2>1. h'[p] = hp /\ where'[p] = "append_data" /\ DOMAIN result' = Procs
    BY <1>1, <1>2 DEF Goes, CallTypes
  <2>2. "append_data" \in Elsewhere /\ "reread" \in Elsewhere /\ SameRole("reread", "append_data")
    BY DEF Elsewhere, Wheres, Chained, SameRole
  <2>3. req[p].op \in {"replace", "store"}
    BY <1>2 DEF Ops
  <2>4. req[p].op \in Ops("append_data")
    BY <2>3 DEF Ops
  <2> QED BY <1>1, <2>1, <2>2, <2>3, <2>4
<1>6. Writer(p)
  BY <1>1, <1>5 DEF Writer, Writes, Chained
<1>7. Changes(p, chain)'
  <2>1. Changes(p, chain)
    BY <1>2 DEF At
  <2>2. NoRecord(chain, Key(p)) /\ before[Key(p)] # None
    BY <1>1, <1>6, <2>1 DEF Changes
  <2> QED BY <1>1, <1>5, <1>6, <2>1, <2>2, StillChanges
<1>8. Stores(p, chain, succ)'
  BY <1>1, <1>4, <1>5, StillThere DEF Stores
<1>9. At(p, chain, rank, succ)'
  BY <1>5, <1>7, <1>8 DEF At, Walks, Deletes, Holds, Holding, Looks, Returns
<1>10. LockTypes' /\ Locked' /\ Excluded'
  BY <1>1, <1>5, InnerQuiet
<1> QED BY <1>1, <1>4, <1>5, <1>9, <1>10, Inner

(* The record a process has come to in the free list.                      *)
LEMMA Searching ==
  ASSUME NEW chain, NEW rank, NEW succ, Good(chain, rank, succ), NEW p \in Procs,
         where[p] = "search"
  PROVE  /\ h[p].ptroff \in Int /\ chain[h[p].ptroff] = 0 /\ succ[h[p].ptroff] = h[p].off
         /\ ReadPtr(h[p].ptroff) = h[p].off
         /\ h[p].off # 0 =>
              /\ h[p].off \in DOMAIN idx /\ h[p].off \in Int /\ chain[h[p].off] = 0
              /\ idx[h[p].off].ptr = succ[h[p].off] /\ succ[h[p].off] \in Nat
              /\ ReadIdx(p, h[p].off) \in Handles /\ h[p].off # h[p].ptroff
<1>1. CallTypes /\ RecordTypes /\ InPlace /\ At(p, chain, rank, succ)
  BY Basics
<1>2. head # <<>>
  BY InChain DEF Chained
<1>3. h[p].ptroff \in Int /\ chain[h[p].ptroff] = 0 /\ succ[h[p].ptroff] = h[p].off
  BY <1>1, CallKnown DEF At, Walks, Fields
<1>4. ReadPtr(h[p].ptroff) = h[p].off
  BY <1>2, <1>3, FreeList
<1>5. ASSUME h[p].off # 0
      PROVE  /\ h[p].off \in DOMAIN idx /\ h[p].off \in Int /\ chain[h[p].off] = 0
             /\ idx[h[p].off].ptr = succ[h[p].off] /\ succ[h[p].off] \in Nat
             /\ ReadIdx(p, h[p].off) \in Handles /\ h[p].off # h[p].ptroff
  <2>1. h[p].off \in DOMAIN idx /\ chain[h[p].off] = 0 /\ h[p].off # h[p].ptroff
    BY <1>2, <1>3, <1>5, Place
  <2>2. h[p].off \in Int /\ h[p].off > 0
    BY <1>1, <2>1, FilesKnown
  <2>3. ReadPtr(h[p].off) = succ[h[p].off]
    BY <1>2, <2>1, <2>2, FreeList
  <2>4. idx[h[p].off].ptr = succ[h[p].off] /\ succ[h[p].off] \in Nat
    BY <1>2, <2>1, <2>2, <2>3, Place
  <2>5. ReadIdx(p, h[p].off) \in Handles
    BY <1>1, <2>1, ReadsIdx
  <2> QED BY <2>1, <2>2, <2>4, <2>5
<1> QED BY <1>3, <1>4, <1>5

LEMMA FindFreeSafe ==
  ASSUME NEW chain, NEW rank, NEW succ, Good(chain, rank, succ), NEW p \in Procs, FindFree(p)
  PROVE  Good(chain, rank, succ)'
<1>0. PICK hp : hp = [h[p] EXCEPT !.ptroff = 0, !.off = ReadPtr(0)]
  OBVIOUS
<1>2. /\ CallTypes /\ InPlace /\ At(p, chain, rank, succ) /\ h[p] \in Handles /\ Base
      /\ Lists(chain, rank, succ, Len(idx))
  BY Basics, CallKnown
<1>1. /\ where[p] = "find_free" /\ UNCHANGED <<files, req, result, left, before>>
      /\ h' = [h EXCEPT ![p] = hp] /\ Goes(p, "search") /\ WritewLock(0, p)
  BY <1>0, <1>2 DEF FindFree, CallTypes
<1>3. head # <<>> /\ -Chain(p) \in Int
  BY <1>1, InChain DEF Chained
<1>4. 0 \in Int /\ chain[0] = 0 /\ ReadPtr(0) = succ[0] /\ succ[0] \in Nat
  <2>1. 0 \in Int /\ chain[0] = 0
    BY <1>2, Zero DEF Lists
  <2> QED BY <1>3, <2>1, FreeList, Place
<1>5. hp \in Handles /\ hp.ptroff = 0 /\ hp.off = succ[0] /\ hp.save = h[p].save
  BY <1>0, <1>2, <1>4, HandleTyped DEF Handles
<1>6. /\ h'[p] = hp /\ where'[p] = "search" /\ "search" \in Elsewhere
      /\ where[p] \in Elsewhere
      /\ req[p].op \in Ops("search") /\ DOMAIN result' = Procs
  <2>1. req[p].op \in Ops("find_free")
    BY <1>1, <1>2, CallKnown
  <2>2. h'[p] = hp /\ where'[p] = "search" /\ DOMAIN result' = Procs
    BY <1>1, <1>2 DEF Goes, CallTypes
  <2>3. "search" \in Elsewhere /\ "find_free" \in Elsewhere
    BY DEF Elsewhere, Wheres, Chained
  <2>4. req[p].op \in Ops("search")
    BY <2>1 DEF Ops
  <2> QED BY <1>1, <2>2, <2>3, <2>4
<1>7. Writer(p)' => Writer(p)
  BY <1>1, StillThere DEF Writer, Chained
<1>8. Changes(p, chain)'
  <2>1. Changes(p, chain)
    BY <1>2 DEF At
  <2>2. Writer(p) => NoRecord(chain, Key(p)) /\ before[Key(p)] = None
    BY <1>1, <2>1 DEF Changes
  <2> QED BY <1>1, <1>6, <1>7, <2>1, <2>2, StillChanges
<1>9. Stores(p, chain, succ)' /\ Walks(p, chain, rank, succ)'
  BY <1>1, <1>2, <1>4, <1>5, <1>6, StillThere DEF Stores, Walks, At
<1>10. At(p, chain, rank, succ)'
  BY <1>6, <1>8, <1>9 DEF At, Deletes, Holds, Holding, Looks, Returns
<1>11. LockTypes' /\ Locked' /\ Excluded'
  <2>1. Moves(p, "search")
    BY <1>1, <1>2, Going DEF Wheres, Chained
  <2> QED BY <1>1, <1>2, <2>1, LocksFree
<1> QED BY <1>1, <1>5, <1>6, <1>10, <1>11, Inner

LEMMA SearchFreeSafe ==
  ASSUME NEW chain, NEW rank, NEW succ, Good(chain, rank, succ), NEW p \in Procs, SearchFree(p)
  PROVE  Good(chain, rank, succ)'
<1> DEFINE n == h[p].off
<1>0. PICK hp : hp = [ReadIdx(p, n) EXCEPT !.ptroff = n, !.off = idx[n].ptr]
  OBVIOUS
<1>1. /\ where[p] = "search" /\ n # 0
      /\ UNCHANGED <<files, locks, where, req, result, left, before>>
      /\ h' = [h EXCEPT ![p] = hp]
  BY <1>0 DEF SearchFree
<1>2. /\ CallTypes /\ InPlace /\ At(p, chain, rank, succ) /\ h[p] \in Handles /\ RecordTypes
  BY Basics, CallKnown
<1>3. /\ n \in DOMAIN idx /\ n \in Int /\ chain[n] = 0
      /\ idx[n].ptr = succ[n] /\ succ[n] \in Nat /\ ReadIdx(p, n) \in Handles
  BY <1>1, Searching
<1> HIDE DEF n
<1>4. hp \in Handles /\ hp.ptroff = n /\ hp.off = succ[n] /\ hp.save = h[p].save
  <2>1. hp = [ReadIdx(p, n) EXCEPT !.ptroff = n, !.off = succ[n]]
    BY <1>0, <1>3
  <2>2. ReadIdx(p, n).save = h[p].save
    BY <1>2, <1>3, ReadsIdx
  <2> QED BY <1>3, <2>1, <2>2, HandleTyped DEF Handles
<1>6. /\ Goes(p, "search") /\ h'[p] = hp /\ "search" \in Elsewhere /\ where[p] \in Elsewhere
      /\ where'[p] = "search" /\ SameRole(where[p], "search") /\ req[p].op \in Ops("search")
      /\ DOMAIN result' = Procs
  BY <1>1, <1>2, CallKnown DEF Goes, CallTypes, Elsewhere, Wheres, Chained, SameRole
<1>7. Writer(p)' => Writer(p)
  BY <1>1, StillThere DEF Writer, Chained
<1>8. Changes(p, chain)'
  <2>1. Changes(p, chain)
    BY <1>2 DEF At
  <2>2. Writer(p) => NoRecord(chain, Key(p)) /\ before[Key(p)] = None
    BY <1>1, <2>1 DEF Changes
  <2> QED BY <1>1, <1>6, <1>7, <2>1, <2>2, StillChanges
<1>9. Stores(p, chain, succ)' /\ Walks(p, chain, rank, succ)'
  BY <1>1, <1>2, <1>3, <1>4, <1>6, StillThere DEF Stores, Walks, At
<1>10. At(p, chain, rank, succ)'
  BY <1>6, <1>8, <1>9 DEF At, Deletes, Holds, Holding, Looks, Returns
<1>11. LockTypes' /\ Locked' /\ Excluded'
  BY <1>1, <1>6, InnerQuiet
<1> QED BY <1>1, <1>4, <1>6, <1>10, <1>11, Inner

LEMMA NoneFreeSafe ==
  ASSUME NEW chain, NEW rank, NEW succ, Good(chain, rank, succ), NEW p \in Procs, NoneFree(p)
  PROVE  Good(chain, rank, succ)'
<1>0. PICK hp : hp = h[p]
  OBVIOUS
<1>1. /\ where[p] = "search" /\ UNCHANGED <<files, req, result, left, before>>
      /\ UnLock(0, p) /\ Goes(p, "append_data") /\ h' = h
  BY DEF NoneFree
<1>2. /\ CallTypes /\ InPlace /\ At(p, chain, rank, succ) /\ h[p] \in Handles /\ Base
      /\ req[p].op \in Ops("search")
  BY <1>1, Basics, CallKnown
<1>6. /\ h' = [h EXCEPT ![p] = hp] /\ h'[p] = hp /\ hp \in Handles /\ hp.save = h[p].save
      /\ "append_data" \in Elsewhere /\ where[p] \in Elsewhere
      /\ where'[p] = "append_data" /\ req[p].op \in Ops("append_data") /\ req[p].op # "replace"
      /\ DOMAIN result' = Procs
  BY <1>0, <1>1, <1>2 DEF Goes, CallTypes, Elsewhere, Wheres, Chained, Ops
<1>7. Writer(p)' => Writer(p)
  BY <1>1, StillThere DEF Writer, Chained
<1>8. Changes(p, chain)'
  <2>1. Changes(p, chain)
    BY <1>2 DEF At
  <2>2. Writer(p) => NoRecord(chain, Key(p)) /\ before[Key(p)] = None
    BY <1>1, <2>1 DEF Changes
  <2> QED BY <1>1, <1>6, <1>7, <2>1, <2>2, StillChanges
<1>9. Stores(p, chain, succ)'
  BY <1>1, <1>2, <1>6, StillThere DEF Stores, At
<1>10. At(p, chain, rank, succ)'
  BY <1>6, <1>8, <1>9 DEF At, Walks, Deletes, Holds, Holding, Looks, Returns
<1>11. LockTypes' /\ Locked' /\ Excluded'
  <2>1. Moves(p, "append_data")
    BY <1>1, <1>2, Going DEF Wheres, Chained
  <2> QED BY <1>1, <1>2, <2>1, LeavesFree
<1>12. UNCHANGED <<files, req, before>> /\ Goes(p, "append_data") /\ where[p] \notin {"closed", "create"}
       /\ result' = result
  BY <1>1
<1> QED BY <1>6, <1>10, <1>11, <1>12, Inner

LEMMA AppendDataSafe ==
  ASSUME NEW chain, NEW rank, NEW succ, Good(chain, rank, succ), NEW p \in Procs, AppendData(p)
  PROVE  Good(chain, rank, succ)'
<1>0. PICK hp : hp = [h[p] EXCEPT !.datoff = Len(dat) + 1]
  OBVIOUS
<1>1. /\ where[p] = "append_data" /\ UNCHANGED <<files, rlock, wlock, req, result, left, before>>
      /\ tail["dat"] \ {p} = {} /\ tail' = [tail EXCEPT !["dat"] = @ \cup {p}]
      /\ h' = [h EXCEPT ![p] = hp] /\ Goes(p, "write_end_data")
  BY <1>0 DEF AppendData, SeekEnd
<1>2. /\ CallTypes /\ InPlace /\ At(p, chain, rank, succ) /\ h[p] \in Handles /\ Base
      /\ req[p].op \in Ops("append_data") /\ Len(dat) \in Nat
  BY <1>1, Basics, CallKnown, FilesKnown
<1>3. hp \in Handles /\ hp.datoff = Len(dat) + 1 /\ hp.save = h[p].save
  <2>1. PICK n : n = Len(dat) + 1
    OBVIOUS
  <2>2. n \in Nat
    BY <1>2, <2>1
  <2>3. hp = [h[p] EXCEPT !.datoff = n]
    BY <1>0, <2>1
  <2>5. h[p] \in Handles
    BY <1>2
  <2>4. hp \in Handles
    BY ONLY <2>2, <2>3, <2>5 DEF Handles
  <2>6. hp.datoff = n /\ hp.save = h[p].save
    BY ONLY <2>3, <2>5 DEF Handles
  <2> QED BY <2>1, <2>4, <2>6
<1>6. /\ h'[p] = hp /\ "write_end_data" \in Elsewhere /\ where[p] \in Elsewhere
      /\ where'[p] = "write_end_data" /\ req[p].op \in Ops("write_end_data")
      /\ DOMAIN result' = Procs
  BY <1>1, <1>2 DEF Goes, CallTypes, Elsewhere, Wheres, Chained, Ops
<1>7. Writer(p)' => Writer(p)
  BY <1>1, StillThere DEF Writer, Chained
<1>8. Changes(p, chain)'
  <2>1. Changes(p, chain)
    BY <1>2 DEF At
  <2>2. Writer(p) => /\ NoRecord(chain, Key(p))
                     /\ req[p].op = "insert" => before[Key(p)] = None
                     /\ req[p].op = "replace" => before[Key(p)] # None
    BY <1>1, <2>1 DEF Changes
  <2> QED BY <1>1, <1>6, <1>7, <2>1, <2>2, StillChanges
<1>9. Stores(p, chain, succ)'
  <2>1. Stores(p, chain, succ)
    BY <1>2 DEF At
  <2> QED BY <1>1, <1>3, <1>6, <2>1, StillThere DEF Stores, files
<1>10. At(p, chain, rank, succ)'
  BY <1>6, <1>8, <1>9 DEF At, Walks, Deletes, Holds, Holding, Looks, Returns
<1>11. LockTypes' /\ Locked' /\ Excluded'
  <2>1. Moves(p, "write_end_data")
    BY <1>1, <1>2, Going DEF Wheres, Chained
  <2>2. PICK f, w : f = "dat" /\ w = "write_end_data"
    OBVIOUS
  <2> QED BY <1>1, <1>2, <1>6, <2>1, <2>2, LocksEnd DEF Elsewhere
<1> QED BY <1>1, <1>3, <1>6, <1>10, <1>11, Inner

LEMMA AppendIdxSafe ==
  ASSUME NEW chain, NEW rank, NEW succ, Good(chain, rank, succ), NEW p \in Procs, AppendIdx(p)
  PROVE  Good(chain, rank, succ)'
<1>0. PICK hp : hp = [h[p] EXCEPT !.idxoff = Len(idx) + 1]
  OBVIOUS
<1>1. /\ where[p] = "append_idx" /\ UNCHANGED <<files, rlock, wlock, req, result, left, before>>
      /\ tail["idx"] \ {p} = {} /\ tail' = [tail EXCEPT !["idx"] = @ \cup {p}]
      /\ h' = [h EXCEPT ![p] = hp] /\ Goes(p, "write_end_idx")
  BY <1>0 DEF AppendIdx, SeekEnd
<1>2. /\ CallTypes /\ InPlace /\ At(p, chain, rank, succ) /\ h[p] \in Handles /\ Base
      /\ req[p].op \in Ops("append_idx") /\ Len(idx) \in Nat
  BY <1>1, Basics, CallKnown
<1>3. /\ hp \in Handles /\ hp.idxoff = Len(idx) + 1 /\ hp.save = h[p].save
      /\ hp.datoff = h[p].datoff /\ hp.datlen = h[p].datlen
  <2>1. PICK n : n = Len(idx) + 1
    OBVIOUS
  <2>2. n \in Nat
    BY <1>2, <2>1
  <2>3. hp = [h[p] EXCEPT !.idxoff = n]
    BY <1>0, <2>1
  <2>5. h[p] \in Handles
    BY <1>2
  <2>4. hp \in Handles
    BY ONLY <2>2, <2>3, <2>5 DEF Handles
  <2>6. hp.idxoff = n /\ hp.save = h[p].save /\ hp.datoff = h[p].datoff /\ hp.datlen = h[p].datlen
    BY ONLY <2>3, <2>5 DEF Handles
  <2> QED BY <2>1, <2>4, <2>6
<1>6. /\ h'[p] = hp /\ "write_end_idx" \in Elsewhere /\ where[p] \in Elsewhere
      /\ where'[p] = "write_end_idx" /\ req[p].op \in Ops("write_end_idx")
      /\ DOMAIN result' = Procs
  BY <1>1, <1>2 DEF Goes, CallTypes, Elsewhere, Wheres, Chained, Ops
<1>7. Writer(p)' => Writer(p)
  BY <1>1, StillThere DEF Writer, Chained
<1>8. Changes(p, chain)'
  <2>1. Changes(p, chain)
    BY <1>2 DEF At
  <2>2. Writer(p) => /\ NoRecord(chain, Key(p))
                     /\ req[p].op = "insert" => before[Key(p)] = None
                     /\ req[p].op = "replace" => before[Key(p)] # None
    BY <1>1, <2>1 DEF Changes
  <2> QED BY <1>1, <1>6, <1>7, <2>1, <2>2, StillChanges
<1>9. Stores(p, chain, succ)'
  <2>1. Stores(p, chain, succ)
    BY <1>2 DEF At
  <2> QED BY <1>1, <1>3, <1>6, <2>1, StillThere DEF Stores, files
<1>10. At(p, chain, rank, succ)'
  BY <1>6, <1>8, <1>9 DEF At, Walks, Deletes, Holds, Holding, Looks, Returns
<1>11. LockTypes' /\ Locked' /\ Excluded'
  <2>1. Moves(p, "write_end_idx")
    BY <1>1, <1>2, Going DEF Wheres, Chained
  <2>2. PICK f, w : f = "idx" /\ w = "write_end_idx"
    OBVIOUS
  <2> QED BY <1>1, <1>2, <1>6, <2>1, <2>2, LocksEnd DEF Elsewhere
<1> QED BY <1>1, <1>3, <1>6, <1>10, <1>11, Inner

LEMMA ReturnSafe ==
  ASSUME NEW chain, NEW rank, NEW succ, Good(chain, rank, succ), NEW p \in Procs, Return(p)
  PROVE  Good(chain, rank, succ)'
<1>0. PICK hp : hp = Handle
  OBVIOUS
<1>1. /\ where[p] = "return" /\ UNCHANGED <<files, req, result, left, before>>
      /\ UnLock(Chain(p), p) /\ Goes(p, "idle") /\ h' = [h EXCEPT ![p] = hp]
  BY <1>0 DEF Return
<1>2. /\ CallTypes /\ InPlace /\ Base /\ req[p].op \in Ops("return") /\ hp \in Handles
  BY <1>0, <1>1, Basics, CallKnown, HandleCleared
<1>6. /\ "idle" \in Elsewhere /\ where[p] \in Elsewhere
      /\ where'[p] = "idle" /\ req[p].op \in Ops("idle")
      /\ DOMAIN result' = Procs
  BY <1>1, <1>2 DEF Goes, CallTypes, Elsewhere, Wheres, Chained, Ops
<1>7. ~Writer(p)'
  BY <1>6 DEF Writer, Chained
<1>10. At(p, chain, rank, succ)'
  BY <1>6, <1>7 DEF At, Walks, Deletes, Stores, Holds, Holding, Looks, Changes, Returns
<1>11. LockTypes' /\ Locked' /\ Excluded'
  <2>1. Moves(p, "idle")
    BY <1>1, <1>2, Going DEF Wheres
  <2> QED BY <1>1, <1>2, <2>1, LeavesChain
<1> QED BY <1>1, <1>2, <1>6, <1>10, <1>11, Inner

(***************************************************************************)
(* db_nextrec, db_close.                                                   *)
(***************************************************************************)
LEMMA NextStartSafe ==
  ASSUME NEW chain, NEW rank, NEW succ, Good(chain, rank, succ), NEW p \in Procs, NextStart(p)
  PROVE  Good(chain, rank, succ)'
<1>0. PICK hp : hp = h[p]
  OBVIOUS
<1>1. /\ where[p] = "next" /\ UNCHANGED <<files, req, result, left, before>> /\ h' = h
      /\ ReadwLock(0, p) /\ Goes(p, "next_idx")
  BY DEF NextStart
<1>2. /\ CallTypes /\ InPlace /\ At(p, chain, rank, succ) /\ Base /\ req[p].op \in Ops("next")
      /\ hp \in Handles
  BY <1>0, <1>1, Basics, CallKnown
<1>3. /\ h' = [h EXCEPT ![p] = hp] /\ h'[p] = h[p]
      /\ "next_idx" \in Elsewhere /\ where[p] \in Elsewhere
      /\ where'[p] = "next_idx" /\ req[p].op \in Ops("next_idx")
      /\ DOMAIN result' = Procs
  BY <1>0, <1>1, <1>2 DEF Goes, CallTypes, Elsewhere, Wheres, Ops
<1>4. ~Writer(p)' /\ h[p].pos > 0
  BY <1>1, <1>2, <1>3 DEF Writer, Chained, At, Looks
<1>5. At(p, chain, rank, succ)'
  BY <1>3, <1>4 DEF At, Walks, Deletes, Stores, Holds, Holding, Looks, Changes, Returns
<1>6. LockTypes' /\ Locked' /\ Excluded'
  <2>1. Moves(p, "next_idx")
    BY <1>1, <1>2, Going DEF Wheres
  <2> QED BY <1>1, <1>2, <2>1, LocksScan
<1>7. UNCHANGED <<files, req, before>> /\ Goes(p, "next_idx") /\ where[p] \notin {"closed", "create"}
      /\ result' = result
  BY <1>1
<1> QED BY <1>2, <1>3, <1>5, <1>6, <1>7, Inner

LEMMA NextIdxSafe ==
  ASSUME NEW chain, NEW rank, NEW succ, Good(chain, rank, succ), NEW p \in Procs, NextIdx(p)
  PROVE  Good(chain, rank, succ)'
<1> DEFINE n == h[p].pos
<1>0. PICK hp, w : /\ hp = [ReadIdx(p, n) EXCEPT !.pos = n + 1]
                   /\ w = IF idx[n].key = Blank THEN "next_idx" ELSE "next_data"
  OBVIOUS
<1>2. /\ CallTypes /\ RecordTypes /\ InPlace /\ At(p, chain, rank, succ) /\ h[p] \in Handles
      /\ Fields(h[p]) /\ DOMAIN idx = 1 .. Len(idx) /\ Len(idx) \in Nat
  BY Basics, CallKnown
<1>1. /\ where[p] = "next_idx" /\ n <= Len(idx)
      /\ UNCHANGED <<files, locks, req, result, left, before>>
      /\ h' = [h EXCEPT ![p] = hp] /\ Goes(p, w)
  <2>1. ReadIdx(p, n).pos = n
    BY <1>2 DEF ReadIdx, Handles
  <2>2. [ReadIdx(p, n) EXCEPT !.pos = @ + 1] = hp
    BY <1>0, <2>1
  <2>3. /\ where[p] = "next_idx" /\ n <= Len(idx)
        /\ UNCHANGED <<files, locks, req, result, left, before>>
    BY DEF NextIdx
  <2>4. h' = [h EXCEPT ![p] = [ReadIdx(p, n) EXCEPT !.pos = @ + 1]]
    BY DEF NextIdx
  <2>5. h' = [h EXCEPT ![p] = hp]
    BY <2>2, <2>4
  <2>6. Goes(p, w)
    BY <1>0 DEF NextIdx
  <2> QED BY <2>3, <2>5, <2>6
<1>3. req[p].op \in Ops("next_idx")
  BY <1>1, <1>2, CallKnown
<1>4. n \in DOMAIN idx /\ n \in Nat /\ n > 0 /\ n + 1 \in Nat /\ (n + 1) - 1 = n
  <2>1. Looks(p, chain) /\ n \in Nat
    BY <1>2 DEF At, Fields
  <2>2. n > 0
    BY <1>1, <2>1 DEF Looks
  <2> HIDE DEF n
  <2> QED BY <1>1, <1>2, <2>1, <2>2
<1>5. /\ ReadIdx(p, n) \in Handles /\ ReadIdx(p, n).buf = idx[n].key
      /\ ReadIdx(p, n).datoff = idx[n].dat
      /\ idx[n].key \in Keys \cup {Blank}
  BY <1>2, <1>4, ReadsIdx, FilesKnown
<1>6. hp \in Handles /\ hp.pos = n + 1 /\ hp.buf = idx[n].key /\ hp.datoff = idx[n].dat
  <2>1. PICK m : m = n + 1
    OBVIOUS
  <2>2. m \in Nat /\ hp = [ReadIdx(p, n) EXCEPT !.pos = m]
    BY <1>0, <1>4, <2>1
  <2>3. hp \in Handles /\ hp.pos = m /\ hp.buf = idx[n].key /\ hp.datoff = idx[n].dat
    <3>1. PICK r : r = ReadIdx(p, n)
      OBVIOUS
    <3>2. r \in Handles /\ r.buf = idx[n].key /\ r.datoff = idx[n].dat /\ hp = [r EXCEPT !.pos = m] /\ m \in Nat
      BY ONLY <1>5, <2>2, <3>1
    <3> QED BY ONLY <3>2 DEF Handles
  <2> QED BY <2>1, <2>3
<1> HIDE DEF n
<1>7. /\ h'[p] = hp /\ w \in Elsewhere /\ where[p] \in Elsewhere /\ w \in {"next_idx", "next_data"}
      /\ where'[p] = w /\ SameRole(where[p], w) /\ req[p].op \in Ops(w)
      /\ DOMAIN result' = Procs
  BY <1>0, <1>1, <1>2, <1>3 DEF Goes, CallTypes, Elsewhere, Wheres, Ops, SameRole, Chained
<1>8. ~Writer(p)'
  BY <1>7 DEF Writer, Chained
<1>9. Looks(p, chain)'
  <2>1. w = "next_data" => idx[n].key \in Keys
    BY <1>0, <1>5
  <2>2. idx' = idx /\ h'[p].pos - 1 = n /\ h'[p].pos > 0
    BY <1>1, <1>4, <1>6, <1>7 DEF files
  <2> QED BY <1>4, <1>6, <1>7, <2>1, <2>2 DEF Looks
<1>10. At(p, chain, rank, succ)'
  BY <1>7, <1>8, <1>9 DEF At, Walks, Deletes, Stores, Holds, Holding, Changes, Returns
<1>11. LockTypes' /\ Locked' /\ Excluded'
  BY <1>1, <1>7, InnerQuiet
<1> QED BY <1>1, <1>6, <1>7, <1>10, <1>11, Inner

LEMMA NextEndSafe ==
  ASSUME NEW chain, NEW rank, NEW succ, Good(chain, rank, succ), NEW p \in Procs, NextEnd(p)
  PROVE  Good(chain, rank, succ)'
<1>0. PICK hp : hp = h[p]
  OBVIOUS
<1>1. /\ where[p] = "next_idx" /\ UNCHANGED <<files, req, result, left, before>> /\ h' = h
      /\ UnLock(0, p) /\ Goes(p, "idle")
  BY DEF NextEnd
<1>2. /\ CallTypes /\ InPlace /\ Base /\ req[p].op \in Ops("next_idx") /\ hp \in Handles
  BY <1>0, <1>1, Basics, CallKnown
<1>3. /\ h' = [h EXCEPT ![p] = hp]
      /\ "idle" \in Elsewhere /\ where[p] \in Elsewhere
      /\ where'[p] = "idle" /\ req[p].op \in Ops("idle")
      /\ DOMAIN result' = Procs
  BY <1>0, <1>1, <1>2 DEF Goes, CallTypes, Elsewhere, Wheres, Ops
<1>4. ~Writer(p)'
  BY <1>3 DEF Writer, Chained
<1>5. At(p, chain, rank, succ)'
  BY <1>3, <1>4 DEF At, Walks, Deletes, Stores, Holds, Holding, Looks, Changes, Returns
<1>6. LockTypes' /\ Locked' /\ Excluded'
  <2>1. Moves(p, "idle")
    BY <1>1, <1>2, Going DEF Wheres
  <2> QED BY <1>1, <1>2, <2>1, LeavesScan
<1>7. UNCHANGED <<files, req, before>> /\ Goes(p, "idle") /\ where[p] \notin {"closed", "create"}
      /\ result' = result
  BY <1>1
<1> QED BY <1>2, <1>3, <1>5, <1>6, <1>7, Inner

LEMMA NextDataSafe ==
  ASSUME NEW chain, NEW rank, NEW succ, Good(chain, rank, succ), NEW p \in Procs, NextData(p)
  PROVE  Good(chain, rank, succ)'
<1>0. PICK hp, v : hp = [Handle EXCEPT !.pos = h[p].pos] /\ v = <<h[p].buf, dat[h[p].datoff].data>>
  OBVIOUS
<1>1. /\ where[p] = "next_data" /\ UNCHANGED <<files, req, left, before>>
      /\ h' = [h EXCEPT ![p] = hp] /\ result' = [result EXCEPT ![p] = v]
      /\ UnLock(0, p) /\ Goes(p, "idle")
  BY <1>0 DEF NextData
<1>2. /\ CallTypes /\ InPlace /\ Base /\ req[p].op \in Ops("next_data") /\ Fields(h[p])
  BY <1>1, Basics, CallKnown
<1>3. /\ "idle" \in Elsewhere /\ where[p] \in Elsewhere
      /\ where'[p] = "idle" /\ req[p].op \in Ops("idle")
      /\ DOMAIN result' = Procs /\ \A q \in Procs : q # p => result'[q] = result[q]
  BY <1>1, <1>2 DEF Goes, CallTypes, Elsewhere, Wheres, Ops
<1>4. ~Writer(p)' /\ hp \in Handles
  BY <1>0, <1>2, <1>3, HandleCleared DEF Writer, Chained, Fields
<1>5. At(p, chain, rank, succ)'
  BY <1>3, <1>4 DEF At, Walks, Deletes, Stores, Holds, Holding, Looks, Changes, Returns
<1>6. LockTypes' /\ Locked' /\ Excluded'
  <2>1. Moves(p, "idle")
    BY <1>1, <1>2, Going DEF Wheres
  <2> QED BY <1>1, <1>2, <2>1, LeavesScan
<1> QED BY <1>1, <1>3, <1>4, <1>5, <1>6, Inner

LEMMA DbCloseSafe ==
  ASSUME NEW chain, NEW rank, NEW succ, Good(chain, rank, succ), NEW p \in Procs, DbClose(p)
  PROVE  Good(chain, rank, succ)'
<1>0. PICK hp : hp = h[p]
  OBVIOUS
<1>1. /\ where[p] = "idle" /\ UNCHANGED <<files, locks, req, result, left, before>> /\ h' = h
      /\ Goes(p, "gone")
  BY DEF DbClose
<1>2. /\ CallTypes /\ InPlace /\ Base /\ req[p].op \in Ops("idle") /\ hp \in Handles
  BY <1>0, <1>1, Basics, CallKnown
<1>3. /\ h' = [h EXCEPT ![p] = hp]
      /\ "gone" \in Elsewhere /\ where[p] \in Elsewhere /\ SameRole(where[p], "gone")
      /\ where'[p] = "gone" /\ req[p].op \in Ops("gone")
      /\ DOMAIN result' = Procs
  BY <1>0, <1>1, <1>2 DEF Goes, CallTypes, Elsewhere, Wheres, Ops, SameRole, Chained
<1>4. ~Writer(p)'
  BY <1>3 DEF Writer, Chained
<1>5. At(p, chain, rank, succ)'
  BY <1>3, <1>4 DEF At, Walks, Deletes, Stores, Holds, Holding, Looks, Changes, Returns
<1>6. LockTypes' /\ Locked' /\ Excluded'
  BY <1>1, <1>3, InnerQuiet
<1>7. UNCHANGED <<files, req, before>> /\ Goes(p, "gone") /\ where[p] \notin {"closed", "create"}
      /\ result' = result
  BY <1>1
<1> QED BY <1>2, <1>3, <1>5, <1>6, <1>7, Inner

(***************************************************************************)
(* db_open without O_TRUNC, and the start of a call.                       *)
(***************************************************************************)
LEMMA OpenSafe ==
  ASSUME NEW chain, NEW rank, NEW succ, Good(chain, rank, succ), NEW p \in Procs,
         where[p] \in {"closed", "create"}, head # <<>>, h' = [h EXCEPT ![p].pos = 1], Goes(p, "idle"),
         UNCHANGED <<files, locks, req, result, left, before>>
  PROVE  Good(chain, rank, succ)'
<1>2. /\ CallTypes /\ InPlace /\ Base /\ Locked /\ Excluded /\ Created /\ req[p].op \in Ops(where[p])
      /\ h[p] \in Handles /\ DbTypes
  BY Basics, CallKnown
<1>0. PICK hp : hp = [h[p] EXCEPT !.pos = 1]
  OBVIOUS
<1>3. /\ h' = [h EXCEPT ![p] = hp] /\ hp \in Handles
      /\ "idle" \in Elsewhere /\ where[p] \in Elsewhere /\ "idle" \in Wheres
      /\ where'[p] = "idle" /\ req[p].op \in Ops("idle") /\ SameRole(where[p], "idle")
  BY <1>0, <1>2 DEF Goes, CallTypes, Elsewhere, Wheres, Ops, SameRole, Chained, Handles
<1>4. Moves(p, "idle") /\ Sets(p, hp)
  BY <1>2, <1>3, Going, Setting
<1>5. Alone(p) /\ h' \in [Procs -> Handles]
  BY <1>4 DEF Alone, Moves, Sets
<1>6. Locked' /\ Excluded'
  BY <1>2, <1>3, <1>4, Quiet
<1>7. DbTypes'
  <2>1. RecordTypes'
    BY <1>2 DEF DbTypes, RecordTypes, files
  <2>2. LockTypes'
    BY <1>2 DEF DbTypes, LockTypes, locks
  <2>3. before' \in [Keys -> Data \cup {None}] /\ DOMAIN result' = Procs /\ UNCHANGED req
    BY <1>2 DEF CallTypes
  <2> QED BY <1>2, <1>3, <1>4, <1>5, <2>1, <2>2, <2>3, TypesKept
<1>8. Created'
  BY <1>2, <1>3 DEF Created, files
<1>9. Base'
  BY <1>6, <1>7, <1>8 DEF Base
<1>10. ~Writer(p)' /\ ~NewData(p)'
  BY <1>3 DEF Writer, Chained, NewData
<1>11. At(p, chain, rank, succ)'
  BY <1>3, <1>10 DEF At, Walks, Deletes, Stores, Holds, Holding, Looks, Changes, Returns
<1> QED BY <1>3, <1>4, <1>5, <1>9, <1>10, <1>11, Local

LEMMA CallSafe ==
  ASSUME NEW chain, NEW rank, NEW succ, Good(chain, rank, succ), NEW p \in Procs, NEW r \in Calls,
         Call(p, r)
  PROVE  Good(chain, rank, succ)'
<1>2. /\ CallTypes /\ InPlace /\ Base /\ Locked /\ Excluded /\ Created
      /\ Fields(h[p]) /\ DbTypes
  BY Basics, CallKnown
<1>0. PICK w, n : /\ n = CASE r.op = "nextrec" -> h[p].pos [] r.op = "rewind" -> 1 [] OTHER -> 0
                  /\ w = CASE r.op = "nextrec" -> "next" [] r.op = "rewind" -> "idle" [] OTHER -> "find"
  OBVIOUS
<1>A. PICK hp : hp = [Handle EXCEPT !.pos = n]
  OBVIOUS
<1>1. /\ where[p] = "idle" /\ (r.op = "nextrec" => h[p].pos > 0)
      /\ req' = [req EXCEPT ![p] = r] /\ h' = [h EXCEPT ![p] = hp] /\ Goes(p, w)
      /\ result' = [result EXCEPT ![p] = None]
      /\ UNCHANGED <<files, locks, before>>
  BY <1>0, <1>A DEF Call
<1>B. r.op \in {"rewind", "nextrec", "fetch", "delete", "insert", "replace", "store"}
  BY DbAssumption
<1>C. n \in Nat /\ (w = "next" => n > 0) /\ w \in {"next", "idle", "find"} /\ r.op \in Ops(w)
  BY <1>0, <1>1, <1>2, <1>B DEF Fields, Ops
<1>D. hp \in Handles /\ hp.pos = n
  <2>1. hp \in Handles
    BY <1>A, <1>C, HandleCleared
  <2>2. hp.pos = n
    BY <1>A DEF Handle
  <2> QED BY <2>1, <2>2
<1>3. /\ w \in Elsewhere /\ where[p] \in Elsewhere /\ w \in Wheres
      /\ where'[p] = w /\ SameRole(where[p], w) /\ where[p] \notin Chained
  BY <1>1, <1>2, <1>C DEF Goes, CallTypes, Elsewhere, Wheres, SameRole, Chained
<1>4. Moves(p, w) /\ Sets(p, hp)
  BY <1>1, <1>2, <1>3, <1>D, Going, Setting
<1>5. Alone(p) /\ h' \in [Procs -> Handles] /\ h'[p] = hp /\ req'[p] = r
      /\ req' \in [Procs -> Calls \cup {NoCall}] /\ DOMAIN result' = Procs
      /\ \A q \in Procs : q # p => req'[q] = req[q]
  BY <1>1, <1>2, <1>4 DEF Alone, Moves, Sets, CallTypes
<1>6. Locked' /\ Excluded'
  BY <1>1, <1>2, <1>3, <1>4, <1>5, Quiet
<1>7. DbTypes'
  <2>1. RecordTypes'
    BY <1>1, <1>2 DEF DbTypes, RecordTypes, files
  <2>2. LockTypes'
    BY <1>1, <1>2 DEF DbTypes, LockTypes, locks
  <2>3. CallTypes'
    BY <1>1, <1>2, <1>4, <1>5 DEF CallTypes, Moves
  <2>4. InPlace'
    BY <1>2, <1>4, <1>5, <1>C DEF InPlace, Moves
  <2> QED BY <2>1, <2>2, <2>3, <2>4 DEF DbTypes
<1>8. Created'
  <2>1. head' = head /\ where[p] \notin {"closed", "create"} /\ w \notin {"closed", "create"}
    BY <1>1, <1>C DEF files
  <2> QED BY <1>2, <1>4, <2>1, CreatedKept
<1>9. Base'
  BY <1>6, <1>7, <1>8 DEF Base
<1>10. ~Writer(p)' /\ ~NewData(p)'
  BY <1>3, <1>C DEF Writer, Chained, NewData
<1>11. At(p, chain, rank, succ)'
  BY <1>3, <1>5, <1>10, <1>C, <1>D
     DEF At, Walks, Deletes, Stores, Holds, Holding, Looks, Changes, Returns
<1> QED BY <1>1, <1>3, <1>4, <1>5, <1>9, <1>10, <1>11, Local

(* A process at these places writes.                                       *)
LEMMA Deleting ==
  ASSUME CallTypes, InPlace, NEW q \in Procs,
         where[q] \in {"blank_data", "blank_idx", "push", "unchain", "reread", "overwrite", "find_free",
                       "search", "write_data", "write_idx", "append_data", "write_end_data",
                       "append_idx", "write_end_idx", "link"}
  PROVE  Writer(q)
<1>1. req[q].op \in Ops(where[q])
  BY CallKnown
<1>2. req[q].op # "fetch"
  BY <1>1 DEF Ops
<1> QED BY <1>2 DEF Writer, Writes, Chained

(***************************************************************************)
(* What is in a chain that nobody has locked for writing.                  *)
(***************************************************************************)
LEMMA ListIs ==
  ASSUME NEW chain, NEW rank, NEW succ, Good(chain, rank, succ), head # <<>>, NEW b \in 0 .. NHASH,
         \A q \in Procs : Writer(q) => Chain(q) # b
  PROVE  Trail(b) = {n \in DOMAIN idx : chain[n] = b}
<1>1. /\ CallTypes /\ InPlace /\ Ghosts(chain, rank, succ) /\ Lists(chain, rank, succ, Len(idx))
      /\ Len(idx) \in Nat /\ DOMAIN idx = 1 .. Len(idx)
      /\ \A i \in Int : chain[i] \in Int
  BY Basics
<1>2. \A q \in Procs : where[q] \in {"push", "unchain"} => Chain(q) # b
  BY <1>1, Deleting
<1>3. \A i \in Int : chain[i] = b => ReadPtr(i) = succ[i]
  <2>1. b >= 0
    BY DbAssumption
  <2> QED BY <1>1, <1>2, <2>1, Straight
<1>4. TrailIn(chain, b)
  <2>1. chain \in [Int -> Int] /\ rank \in [Int -> Int] /\ succ \in [Int -> Int]
    BY <1>1 DEF Ghosts
  <2>2. Len(idx) \in Nat /\ Lists(chain, rank, succ, Len(idx))
    BY <1>1
  <2>3. Direct(chain, succ, b)
    BY <1>3 DEF Direct
  <2> QED BY <2>1, <2>2, <2>3, TrailOf
<1> QED BY <1>1, <1>4 DEF TrailIn

LEMMA ValueIs ==
  ASSUME NEW chain, NEW rank, NEW succ, Good(chain, rank, succ), head # <<>>, NEW k \in Keys,
         \A q \in Procs : Writer(q) => Chain(q) # Hash[k]
  PROVE  Content(chain, k, Value(k)) /\ Value(k) \in Data \cup {None}
<1> DEFINE T == {n \in Trail(Hash[k]) : idx[n].key = k}
<1>1. /\ CallTypes /\ InPlace /\ Records(chain) /\ Distinct(chain)
      /\ \A q \in Procs : At(q, chain, rank, succ)
  BY Basics
<1>2. Hash[k] \in 1 .. NHASH /\ Hash[k] \in 0 .. NHASH /\ Hash[k] > 0
  BY DbAssumption
<1>3. T = {n \in DOMAIN idx : Has(chain, k, n)}
  <2>1. Trail(Hash[k]) = {n \in DOMAIN idx : chain[n] = Hash[k]}
    BY <1>2, ListIs
  <2> QED BY <2>1 DEF Has
<1>4. Value(k) = IF T = {} THEN None ELSE dat[idx[CHOOSE n \in T : TRUE].dat].data
  BY DEF Value
<1>5. CASE T = {}
  <2>1. NoRecord(chain, k) /\ Value(k) = None
    BY <1>3, <1>4, <1>5 DEF NoRecord
  <2> QED BY <2>1, Lacks
<1>6. CASE T # {}
  <2>0. PICK n : n = CHOOSE m \in T : TRUE
    OBVIOUS
  <2>1. n \in T
    BY <1>6, <2>0
  <2>2. n \in DOMAIN idx /\ Has(chain, k, n) /\ Value(k) = dat[idx[n].dat].data
    BY <1>3, <1>4, <1>6, <2>0, <2>1
  <2>3. ASSUME NEW q \in Procs, where[q] = "blank_idx", h[q].idxoff = n PROVE FALSE
    <3>1. Writer(q)
      BY <1>1, <2>3, Deleting
    <3>2. chain[n] = Chain(q)
      BY <1>1, <2>3 DEF At, Deletes, HasFound, Has, Key, Chain
    <3> QED BY <2>2, <3>1, <3>2 DEF Has
  <2>4. dat[idx[n].dat].data \in Data
    BY <1>1, <1>2, <2>2, <2>3 DEF Records, Has
  <2>5. PICK v : v = dat[idx[n].dat].data /\ v # None
    BY <2>4, DbAssumption
  <2>6. Content(chain, k, v)
    BY <1>1, <1>2, <2>2, <2>5, OnlyOne
  <2> QED BY <2>2, <2>4, <2>5, <2>6
<1> QED BY <1>5, <1>6

LEMMA FindStartSafe ==
  ASSUME NEW chain, NEW rank, NEW succ, Good(chain, rank, succ), NEW p \in Procs, FindStart(p)
  PROVE  Good(chain, rank, succ)'
<1>0. PICK hp : hp = [h[p] EXCEPT !.ptroff = -Chain(p), !.off = ReadPtr(-Chain(p))]
  OBVIOUS
<1>2. /\ CallTypes /\ InPlace /\ Base /\ Locked /\ Excluded /\ Created /\ LockTypes
      /\ h[p] \in Handles /\ DbTypes /\ Lists(chain, rank, succ, Len(idx))
      /\ \A q \in Procs : LockedBy(q)
      /\ \A i \in Int : chain[i] \in Int /\ rank[i] \in Int /\ succ[i] \in Int
  BY Basics, CallKnown, LockedEach
<1>1. /\ where[p] = "find" /\ Goes(p, "walk") /\ UNCHANGED <<files, req, result, left>>
      /\ h' = [h EXCEPT ![p] = hp]
      /\ \/ Writes(p) /\ WritewLock(Chain(p), p)
         \/ ~Writes(p) /\ ReadwLock(Chain(p), p)
      /\ before' = [k \in Keys |-> IF Writes(p) /\ Hash[k] = Chain(p) THEN Value(k) ELSE before[k]]
  BY <1>0, <1>2 DEF FindStart, CallTypes
<1>3. /\ req[p].op \in Keyed /\ Key(p) \in Keys /\ Hash[Key(p)] = Chain(p)
      /\ Chain(p) \in 0 .. NHASH /\ Chain(p) > 0 /\ Chain(p) \in Int /\ Chain(p) \in 1 .. NHASH
      /\ -Chain(p) \in Int /\ -Chain(p) <= 0 /\ head # <<>> /\ chain[-Chain(p)] = Chain(p)
      /\ ReadPtr(-Chain(p)) \in Nat
  BY <1>1, InChain
<1>4. \A q \in Procs : q # p => q \notin wlock[Chain(p)] /\ (Writes(p) => q \notin rlock[Chain(p)])
  BY <1>1, <1>2, <1>3, TakesRead, TakesWrite
<1>5. \A q \in Procs : Writer(q) => Chain(q) # Chain(p)
  <2> SUFFICES ASSUME NEW q \in Procs, Writer(q) PROVE Chain(q) # Chain(p)
    OBVIOUS
  <2>1. q # p
    BY <1>1 DEF Writer, Chained
  <2> QED BY <1>2, <1>3, <1>4, <2>1 DEF LockedBy
<1>6. ReadPtr(-Chain(p)) = succ[-Chain(p)]
  <2>1. \A q \in Procs : where[q] \in {"push", "unchain"} => Chain(q) # Chain(p)
    BY <1>2, <1>5, Deleting
  <2> QED BY <1>3, <2>1, Straight
<1>7. hp \in Handles /\ hp.ptroff = -Chain(p) /\ hp.off = succ[-Chain(p)]
  <2>1. PICK i, n : i = -Chain(p) /\ n = ReadPtr(-Chain(p))
    OBVIOUS
  <2>2. i \in Int /\ n \in Nat /\ h[p] \in Handles /\ hp = [h[p] EXCEPT !.ptroff = i, !.off = n]
    BY <1>0, <1>2, <1>3, <2>1
  <2>3. hp \in Handles /\ hp.ptroff = i /\ hp.off = n
    BY ONLY <2>2 DEF Handles
  <2> QED BY <1>6, <2>1, <2>3
<1>8. Moves(p, "walk") /\ Sets(p, hp)
  BY <1>1, <1>2, <1>7, Going, Setting DEF Wheres, Chained
<1>9. Alone(p) /\ h' \in [Procs -> Handles] /\ h'[p] = hp /\ where'[p] = "walk"
      /\ DOMAIN result' = Procs
  BY <1>1, <1>2, <1>8 DEF Alone, Moves, Sets, CallTypes
<1>10. \A k \in Keys : Hash[k] = Chain(p) => Content(chain, k, Value(k)) /\ Value(k) \in Data \cup {None}
  BY <1>3, <1>5, ValueIs
<1>11. before' \in [Keys -> Data \cup {None}]
  <2>1. \A k \in Keys : before[k] \in Data \cup {None}
    BY <1>2 DEF CallTypes
  <2> QED BY <1>1, <1>10, <2>1
<1>12. \A q \in Procs : q # p /\ Writer(q) =>
            \A k \in Keys : Hash[k] = Chain(q) => before'[k] = before[k]
  BY <1>1, <1>5
<1>13. Base'
  <2>1. LockTypes' /\ Locked' /\ Excluded'
    BY <1>1, <1>2, <1>8, LocksChain
  <2>2. req[p].op \in Ops("walk")
    BY <1>3 DEF Keyed, Ops
  <2> QED BY <1>1, <1>2, <1>8, <1>9, <1>11, <2>1, <2>2, LocalBase DEF Wheres, Chained
<1>14. Walks(p, chain, rank, succ)'
  <2>1. \A n \in DOMAIN idx : ~(chain[n] = Chain(p) /\ rank[n] >= rank[-Chain(p)])
    <3> SUFFICES ASSUME NEW n \in DOMAIN idx, chain[n] = Chain(p) PROVE rank[n] < rank[-Chain(p)]
      BY <1>2, <1>3, IdxInt DEF DbTypes
    <3>1. n \in Int /\ n > 0
      BY <1>2, IdxInt DEF DbTypes
    <3> QED BY <1>2, <1>3, <3>1 DEF Lists
  <2>2. Chain(p)' = Chain(p) /\ idx' = idx
    BY <1>1 DEF Chain, files
  <2> QED BY <1>3, <1>7, <1>9, <2>1, <2>2 DEF Walks
<1>15. Changes(p, chain)'
  <2> SUFFICES ASSUME Writer(p)' PROVE Changes(p, chain)'
    BY DEF Changes
  <2>1. Writes(p) /\ Key(p)' = Key(p) /\ Chain(p)' = Chain(p)
    BY <1>1 DEF Writer, Writes, Key, Chain
  <2>2. \A k \in Keys : Hash[k] = Chain(p) => Content(chain, k, before[k])'
    <3> SUFFICES ASSUME NEW k \in Keys, Hash[k] = Chain(p) PROVE Content(chain, k, before[k])'
      OBVIOUS
    <3>1. before'[k] = Value(k)
      BY <1>1, <2>1
    <3>2. Content(chain, k, Value(k))
      BY <1>10
    <3> QED BY <1>1, <3>1, <3>2 DEF Content, Has, files
  <2>3. Content(chain, Key(p), before[Key(p)])'
    <3>1. PICK k : k = Key(p)
      OBVIOUS
    <3>2. Content(chain, k, before[k])' /\ k = Key(p)'
      BY <1>3, <2>1, <2>2, <3>1
    <3> QED BY <3>2 DEF Content, Has
  <2> QED BY <1>9, <2>1, <2>2, <2>3 DEF Changes
<1>16. At(p, chain, rank, succ)'
  BY <1>9, <1>14, <1>15 DEF At, Deletes, Stores, Holds, Holding, Looks, Returns
<1>17. ~NewData(p)' /\ "walk" \in Elsewhere /\ where[p] \in Elsewhere /\ UNCHANGED files
  BY <1>1, <1>9 DEF NewData, Elsewhere, Wheres, Chained
<1> QED BY <1>8, <1>9, <1>12, <1>13, <1>16, <1>17, Local

(***************************************************************************)
(* A step that changes the files.                                          *)
(***************************************************************************)
LEMMA Outer ==
  ASSUME NEW chain, NEW rank, NEW succ, NEW p \in Procs, Good(chain, rank, succ),
         NEW c, NEW r, NEW s, Ghosts(c, r, s), Frame(p, chain, rank, succ, c, r, s),
         Base', Hands', Lists(c, r, s, Len(idx')), Pointers(c, s)', Records(c)', Distinct(c)',
         At(p, c, r, s)'
  PROVE  Good(c, r, s)'
<1>1. RecordTypes'
  BY DEF Base, DbTypes
<1>2. \A q \in Procs : At(q, c, r, s)'
  BY <1>1, Others
<1>3. Linked(c, r, s)'
  BY <1>2 DEF Linked
<1> QED BY <1>3 DEF Good, Ghosts

LEMMA OuterBase ==
  ASSUME Base, NEW p \in Procs, NEW w \in Wheres, Moves(p, w), UNCHANGED <<req, before>>,
         h' \in [Procs -> Handles], DOMAIN result' = Procs, RecordTypes', LockTypes', Locked', Excluded',
         req[p].op \in Ops(w), where[p] \notin {"closed", "create"}, w \notin {"closed", "create"},
         head' = <<>> => head = <<>>
  PROVE  Base'
<1>1. DbTypes'
  <2>1. before' \in [Keys -> Data \cup {None}]
    BY DEF Base, DbTypes, CallTypes
  <2> QED BY <2>1, TypesKept DEF Base
<1>2. Created'
  BY CreatedKept DEF Base
<1> QED BY <1>1, <1>2 DEF Base

LEMMA SameLocks ==
  ASSUME LockTypes, Locked, Excluded, NEW p \in Procs, NEW w, Moves(p, w), UNCHANGED <<locks, req>>,
         SameRole(where[p], w)
  PROVE  LockTypes' /\ Locked' /\ Excluded'
<1>1. Locked' /\ Excluded'
  BY Quiet
<1> QED BY <1>1 DEF LockTypes, locks

(* A place that others may know of is in the files.                        *)
LEMMA Valid ==
  ASSUME NEW chain, NEW rank, NEW succ, Good(chain, rank, succ), NEW p, NEW i \in Int,
         ~Mine(p, chain, i)
  PROVE  i \in DOMAIN idx \/ (i <= 0 /\ -i \in 0 .. NHASH)
<1>1. /\ Lists(chain, rank, succ, Len(idx)) /\ DOMAIN idx = 1 .. Len(idx) /\ chain[i] \in Int
      /\ \A q \in Procs : At(q, chain, rank, succ)
  BY Basics
<1>2. CASE chain[i] >= 0
  <2>1. chain[i] \in 0 .. NHASH /\ (i = -chain[i] \/ i \in 1 .. Len(idx))
    BY <1>1, <1>2 DEF Lists
  <2> QED BY <1>1, <2>1, DbAssumption
<1>3. CASE chain[i] < 0
  <2>1. PICK q \in Procs : Holding(q) /\ h[q].idxoff = i
    BY <1>3 DEF Mine
  <2> QED BY <1>1, <2>1 DEF At, Holds
<1> QED BY <1>1, <1>2, <1>3

(* The records of a key are what they were.                                *)
KeySame(k, chain, c) ==
  /\ \A n \in DOMAIN idx' : Has(c, k, n)' => n \in DOMAIN idx /\ Has(chain, k, n)
  /\ \A n \in DOMAIN idx : Has(chain, k, n) =>
       n \in DOMAIN idx' /\ Has(c, k, n)' /\ dat'[idx'[n].dat].data = dat[idx[n].dat].data

LEMMA Carried ==
  ASSUME NEW chain, NEW c, NEW k, KeySame(k, chain, c), NEW v, Content(chain, k, v)
  PROVE  Content(c, k, v)'
<1>1. \A n \in DOMAIN idx' : Has(c, k, n)' => dat'[idx'[n].dat].data = v
  BY DEF KeySame, Content
<1>2. (v # None) <=> \E n \in DOMAIN idx' : Has(c, k, n)'
  BY DEF KeySame, Content
<1> QED BY <1>1, <1>2 DEF Content

LEMMA StillNone ==
  ASSUME NEW chain, NEW c, NEW k, KeySame(k, chain, c), NoRecord(chain, k)
  PROVE  NoRecord(c, k)'
BY DEF KeySame, NoRecord

(* What p has done to the other keys of its chain.                         *)
LEMMA OtherKeys ==
  ASSUME NEW chain, NEW c, NEW p \in Procs, Writer(p), Changes(p, chain), UNCHANGED <<req, before>>,
         \A k \in Keys \ {Key(p)} : Hash[k] = Chain(p) => KeySame(k, chain, c)
  PROVE  \A k \in Keys \ {Key(p)'} : Hash[k] = Chain(p)' => Content(c, k, before[k])'
<1> SUFFICES ASSUME NEW k \in Keys \ {Key(p)'}, Hash[k] = Chain(p)' PROVE Content(c, k, before[k])'
  OBVIOUS
<1>1. k \in Keys \ {Key(p)} /\ Hash[k] = Chain(p)
  BY DEF Key, Chain
<1>2. Content(chain, k, before[k])
  BY <1>1 DEF Changes
<1>3. PICK v : v = before[k]
  OBVIOUS
<1>4. Content(c, k, v)'
  BY <1>1, <1>2, <1>3, Carried
<1> QED BY <1>3, <1>4 DEF Content, Has

LEMMA OwnKey ==
  ASSUME NEW p, UNCHANGED <<req, before>>
  PROVE  /\ Key(p)' = Key(p) /\ New(p)' = New(p) /\ Chain(p)' = Chain(p) /\ Writes(p)' = Writes(p)
         /\ before'[Key(p)'] = before[Key(p)] /\ req'[p] = req[p]
BY DEF Key, New, Chain, Writes

Passes(p, chain, rank, succ) ==
  \E c, r, s : Good(c, r, s)' /\ Frame(p, chain, rank, succ, c, r, s)

LEMMA OuterPasses ==
  ASSUME NEW chain, NEW rank, NEW succ, NEW p \in Procs, Good(chain, rank, succ),
         NEW c, NEW r, NEW s, Ghosts(c, r, s), Frame(p, chain, rank, succ, c, r, s),
         Base', Hands', Lists(c, r, s, Len(idx')), Pointers(c, s)', Records(c)', Distinct(c)',
         At(p, c, r, s)'
  PROVE  Passes(p, chain, rank, succ)
<1>1. Good(c, r, s)'
  BY Outer
<1> QED BY <1>1 DEF Passes

(* The record that is found, and the writer's place before it.             *)
LEMMA BlankDataSafe ==
  ASSUME NEW chain, NEW rank, NEW succ, Good(chain, rank, succ), NEW p \in Procs, BlankData(p)
  PROVE  Passes(p, chain, rank, succ)
<1>0. PICK n, x : n = h[p].idxoff /\ x = h[p].datoff
  OBVIOUS
<1>1. /\ where[p] = "blank_data" /\ WritewLock(0, p) /\ Goes(p, "blank_idx")
      /\ dat' = [dat EXCEPT ![x].data = Blank]
      /\ head' = head /\ idx' = idx /\ UNCHANGED <<req, before>> /\ h' = h /\ result' = result
  BY <1>0 DEF BlankData
<1>2. /\ Base /\ CallTypes /\ RecordTypes /\ InPlace /\ Hands /\ Pointers(chain, succ)
      /\ Records(chain) /\ Distinct(chain) /\ Lists(chain, rank, succ, Len(idx))
      /\ Ghosts(chain, rank, succ) /\ Excluded
      /\ DOMAIN idx = 1 .. Len(idx) /\ At(p, chain, rank, succ) /\ h[p] \in Handles
      /\ req[p].op \in Ops("blank_data")
  BY <1>1, Basics, CallKnown
<1>3. Hash[Key(p)] = Chain(p) /\ Chain(p) > 0 /\ head # <<>>
  BY <1>1, InChain DEF Chained
<1>4. /\ n \in DOMAIN idx /\ idx[n].key = Key(p) /\ chain[n] = Chain(p) /\ x = idx[n].dat
      /\ HasFound(p, chain)
      /\ chain[h[p].ptroff] = Chain(p) /\ succ[h[p].ptroff] = n /\ succ[n] = h[p].ptrval
  BY <1>0, <1>1, <1>2, <1>3 DEF At, Deletes, HasFound, Has
<1>5. x \in DOMAIN dat /\ \A m \in DOMAIN idx : m # n => idx[m].dat # x
  BY <1>2, <1>4 DEF Records, Distinct
<1>6. /\ dat'[x] = [dat[x] EXCEPT !.data = Blank] /\ DOMAIN dat' = DOMAIN dat /\ Len(dat') = Len(dat)
      /\ \A y : y # x => dat'[y] = dat[y]
      /\ dat' \in Seq(DatRecords)
  <2>1. dat[x] \in DatRecords /\ dat \in Seq(DatRecords)
    BY <1>2, <1>5, FilesKnown DEF RecordTypes
  <2>2. [dat[x] EXCEPT !.data = Blank] \in DatRecords
    BY <2>1 DEF DatRecords
  <2> QED BY <1>1, <1>5, <2>1, <2>2
<1>7. Moves(p, "blank_idx") /\ where'[p] = "blank_idx" /\ Alone(p) /\ "blank_idx" \in Wheres
  <2>1. "blank_idx" \in Wheres
    BY DEF Wheres, Chained
  <2>2. Moves(p, "blank_idx")
    BY <1>1, <1>2, <2>1, Going
  <2> QED BY <1>1, <2>1, <2>2 DEF Moves, Alone
<1>8. Writer(p) /\ ~Holding(p) /\ ~NewData(p) /\ Mine(p, chain, n)
  BY <1>1, <1>2, <1>4, Deleting DEF Holding, NewData, Mine
<1>9. \A i : ReadPtr(i)' = ReadPtr(i)
  BY <1>1 DEF ReadPtr
<1>10. \A m \in DOMAIN idx : m # n => dat'[idx[m].dat] = dat[idx[m].dat]
  BY <1>5, <1>6
<1>11. Frame(p, chain, rank, succ, chain, rank, succ)
  <2>1. Grows
    BY <1>1, <1>6 DEF Grows
  <2>2. \A i \in Int : Mine(p, chain, i) =>
           chain[i] < 0 \/ (Writer(p) /\ chain[i] = Chain(p)) \/ (Freeing(p) /\ chain[i] = 0)
    BY DEF Mine
  <2>3. \A m \in DOMAIN idx : ~Mine(p, chain, m) => idx'[m] = idx[m] /\ dat'[idx[m].dat] = dat[idx[m].dat]
    BY <1>1, <1>8, <1>10
  <2>4. \A q \in Procs : q # p /\ NewData(q) => dat'[h[q].datoff] = dat[h[q].datoff]
    BY <1>2, <1>4, <1>6 DEF Hands
  <2> QED BY <1>1, <1>6, <1>7, <1>9, <2>1, <2>2, <2>3, <2>4 DEF Frame
<1>12. Base'
  <2>1. RecordTypes'
    BY <1>1, <1>2, <1>6 DEF RecordTypes
  <2>2. LockTypes' /\ Locked' /\ Excluded'
    BY <1>1, <1>2, <1>7, LocksFree
  <2>3. /\ h' \in [Procs -> Handles] /\ DOMAIN result' = Procs /\ req[p].op \in Ops("blank_idx")
        /\ where[p] \notin {"closed", "create"} /\ UNCHANGED <<req, before>> /\ head' = head
    BY <1>1, <1>2 DEF CallTypes, Ops
  <2> QED BY <1>2, <1>7, <2>1, <2>2, <2>3, OuterBase
<1>13. \A q \in Procs : Holding(q)' = Holding(q) /\ NewData(q)' = NewData(q)
  BY <1>1, <1>7 DEF Moves, Holding, NewData
<1>14. Hands'
  BY <1>1, <1>2, <1>6, <1>13 DEF Hands
<1>15. Pointers(chain, succ)'
  <2>1. \A i : Bypassed(i) => Bypassed(i)'
    BY <1>1, <1>7 DEF Bypassed, Moves
  <2> QED BY <1>1, <1>2, <1>9, <2>1 DEF Pointers
<1>16. Records(chain)'
  <2>1. \A m : (\E q \in Procs : where[q] = "blank_idx" /\ h[q].idxoff = m) =>
               (\E q \in Procs : where'[q] = "blank_idx" /\ h'[q].idxoff = m)
    BY <1>1, <1>7 DEF Moves
  <2>2. where'[p] = "blank_idx" /\ h'[p].idxoff = n
    BY <1>0, <1>1, <1>7
  <2>3. ASSUME NEW m \in DOMAIN idx
        PROVE  /\ idx[m].dat \in DOMAIN dat'
               /\ chain[m] = 0 => idx[m].key = Blank
               /\ chain[m] > 0 =>
                    /\ idx[m].key \in Keys /\ Hash[idx[m].key] = chain[m]
                    /\ KeyLen[idx[m].key] = idx[m].klen
                    /\ \/ \E q \in Procs : where'[q] = "blank_idx" /\ h'[q].idxoff = m
                       \/ dat'[idx[m].dat].data \in Data /\ DatLen[dat'[idx[m].dat].data] = idx[m].len
               /\ chain[m] < 0 => \E q \in Procs : Holding(q)' /\ h'[q].idxoff = m
    <3>1. idx[m].dat \in DOMAIN dat' /\ (chain[m] = 0 => idx[m].key = Blank)
      BY <1>2, <1>6 DEF Records
    <3>2. chain[m] < 0 => \E q \in Procs : Holding(q)' /\ h'[q].idxoff = m
      BY <1>1, <1>2, <1>13 DEF Records
    <3>3. m = n \/ dat'[idx[m].dat] = dat[idx[m].dat]
      BY <1>10
    <3> QED BY <1>2, <2>1, <2>2, <3>1, <3>2, <3>3 DEF Records
  <2> QED BY <1>1, <2>3 DEF Records
<1>17. Distinct(chain)' /\ Lists(chain, rank, succ, Len(idx'))
  BY <1>1, <1>2 DEF Distinct
<1>18. At(p, chain, rank, succ)'
  <2>1. HasFound(p, chain)'
    BY <1>1, <1>4 DEF HasFound, Has, Key
  <2>2. Deletes(p, chain, succ)'
    BY <1>0, <1>1, <1>4, <1>7, <2>1 DEF Deletes, Chain
  <2>3. \A k \in Keys \ {Key(p)} : KeySame(k, chain, chain)
    BY <1>1, <1>4, <1>10 DEF KeySame, Has
  <2>4. \A k \in Keys \ {Key(p)'} : Hash[k] = Chain(p)' => Content(chain, k, before[k])'
    BY <1>1, <1>2, <1>8, <2>3, OtherKeys DEF At
  <2>5. before'[Key(p)'] # None
    BY <1>1, <1>2, <1>8, OwnKey DEF At, Changes
  <2>6. Changes(p, chain)'
    BY <1>7, <2>4, <2>5 DEF Changes
  <2> QED BY <1>7, <2>2, <2>6 DEF At, Walks, Stores, Holds, Holding, Looks, Returns
<1> QED BY <1>2, <1>11, <1>12, <1>14, <1>15, <1>16, <1>17, <1>18, OuterPasses

(* A pointer is written, and nothing else.                                 *)
InFiles(i) == i \in DOMAIN idx \/ (i <= 0 /\ -i \in 0 .. NHASH)

PtrWritten(i, v) ==
  /\ head' # <<>> /\ DOMAIN idx' = DOMAIN idx /\ Len(idx') = Len(idx)
  /\ idx' \in Seq(IdxRecords) /\ head' \in [0 .. NHASH -> Nat]
  /\ i > 0 => idx'[i].ptr = v
  /\ i <= 0 => head'[-i] = v
  /\ \A j \in Int : j # i /\ InFiles(j) => ReadPtr(j)' = ReadPtr(j)
  /\ \A n \in DOMAIN idx : /\ idx'[n].key = idx[n].key /\ idx'[n].klen = idx[n].klen
                           /\ idx'[n].dat = idx[n].dat /\ idx'[n].len = idx[n].len
                           /\ n # i => idx'[n] = idx[n]

LEMMA PtrWrites ==
  ASSUME RecordTypes, head # <<>>, NEW i \in Int, InFiles(i), NEW v \in Nat, WritePtr(i, v)
  PROVE  PtrWritten(i, v)
<1>1. head \in [0 .. NHASH -> Nat] /\ idx \in Seq(IdxRecords) /\ DOMAIN idx = 1 .. Len(idx)
      /\ Len(idx) \in Nat /\ (\A n \in DOMAIN idx : n > 0 /\ n \in Nat /\ idx[n] \in IdxRecords)
  BY FilesKnown DEF RecordTypes
<1>2. CASE i > 0 /\ idx' = [idx EXCEPT ![i].ptr = v] /\ head' = head
  <2>1. i \in DOMAIN idx
    BY <1>1, <1>2 DEF InFiles
  <2>2. [idx[i] EXCEPT !.ptr = v] \in IdxRecords
    BY <1>1, <2>1 DEF IdxRecords
  <2>3. /\ idx' \in Seq(IdxRecords) /\ DOMAIN idx' = DOMAIN idx /\ Len(idx') = Len(idx)
        /\ idx'[i] = [idx[i] EXCEPT !.ptr = v]
        /\ \A n \in DOMAIN idx : n # i => idx'[n] = idx[n]
    BY <1>1, <1>2, <2>1, <2>2
  <2>4. /\ idx'[i].ptr = v /\ idx'[i].key = idx[i].key /\ idx'[i].klen = idx[i].klen
        /\ idx'[i].dat = idx[i].dat /\ idx'[i].len = idx[i].len
    BY <1>1, <2>1, <2>3 DEF IdxRecords
  <2>5. \A j \in Int : j # i /\ InFiles(j) => ReadPtr(j)' = ReadPtr(j)
    BY <1>1, <1>2, <2>3 DEF InFiles, ReadPtr
  <2> QED BY <1>1, <1>2, <2>3, <2>4, <2>5 DEF PtrWritten
<1>3. CASE i <= 0 /\ head' = [head EXCEPT ![-i] = v] /\ idx' = idx
  <2>1. -i \in 0 .. NHASH
    BY <1>1, <1>3 DEF InFiles
  <2>2. /\ head' \in [0 .. NHASH -> Nat] /\ head'[-i] = v
        /\ \A b \in 0 .. NHASH : b # -i => head'[b] = head[b]
    BY <1>1, <1>3, <2>1
  <2>3. head' # <<>>
    <3>1. 0 \in DOMAIN head'
      BY <2>2, Zero
    <3>2. DOMAIN <<>> = {}
      OBVIOUS
    <3> QED BY ONLY <3>1, <3>2
  <2>4. ASSUME NEW j \in Int, j # i, InFiles(j) PROVE ReadPtr(j)' = ReadPtr(j)
    <3>1. CASE j > 0
      BY <1>3, <3>1 DEF ReadPtr
    <3>2. CASE j <= 0
      <4>1. -j \in 0 .. NHASH /\ -j # -i
        BY <1>1, <2>4, <3>2 DEF InFiles
      <4>2. PICK b : b = -j
        OBVIOUS
      <4>3. head'[b] = head[b]
        BY <2>2, <4>1, <4>2
      <4>4. ~(j > 0)
        BY ONLY <3>2, j \in Int
      <4> QED BY ONLY <4>2, <4>3, <4>4 DEF ReadPtr
    <3> QED BY <3>1, <3>2
  <2> QED BY <1>1, <1>3, <2>2, <2>3, <2>4 DEF PtrWritten
<1> QED BY <1>2, <1>3 DEF WritePtr

LEMMA BlankIdxSafe ==
  ASSUME NEW chain, NEW rank, NEW succ, Good(chain, rank, succ), NEW p \in Procs, BlankIdx(p)
  PROVE  Passes(p, chain, rank, succ)
<1>0. PICK n, e, hp : n = h[p].idxoff /\ e = h[p].ptroff /\ hp = [h[p] EXCEPT !.save = h[p].ptrval]
  OBVIOUS
<1>2. /\ Base /\ CallTypes /\ RecordTypes /\ InPlace /\ Hands /\ Pointers(chain, succ)
      /\ Records(chain) /\ Distinct(chain) /\ Lists(chain, rank, succ, Len(idx))
      /\ Ghosts(chain, rank, succ) /\ Locked /\ Excluded /\ LockTypes
      /\ DOMAIN idx = 1 .. Len(idx) /\ Len(idx) \in Nat /\ At(p, chain, rank, succ)
      /\ h[p] \in Handles /\ Fields(h[p])
      /\ \A i \in Int : chain[i] \in Int /\ rank[i] \in Int /\ succ[i] \in Int
  BY Basics, CallKnown
<1>1. /\ where[p] = "blank_idx" /\ Goes(p, "push") /\ h' = [h EXCEPT ![p] = hp]
      /\ idx' = [idx EXCEPT ![n] = [idx[n] EXCEPT !.key = Blank, !.ptr = ReadPtr(0)]]
      /\ head' = head /\ dat' = dat /\ UNCHANGED <<locks, req, before>> /\ result' = result
  BY <1>0, <1>2 DEF BlankIdx
<1>3. /\ Hash[Key(p)] = Chain(p) /\ Chain(p) > 0 /\ Chain(p) \in Int /\ head # <<>>
      /\ req[p].op \in Ops("blank_idx")
  BY <1>1, <1>2, InChain, CallKnown DEF Chained
<1>4. /\ n \in DOMAIN idx /\ n \in Int /\ n > 0 /\ idx[n].key = Key(p) /\ chain[n] = Chain(p)
      /\ e \in Int /\ chain[e] = Chain(p) /\ succ[e] = n /\ succ[n] = h[p].ptrval /\ n # e
      /\ n # 0
  <2>1. /\ n \in DOMAIN idx /\ idx[n].key = Key(p) /\ chain[n] = Chain(p)
        /\ chain[e] = Chain(p) /\ succ[e] = n /\ succ[n] = h[p].ptrval
    BY <1>0, <1>1, <1>2, <1>3 DEF At, Deletes, HasFound, Has
  <2>2. n \in Int /\ n > 0 /\ e \in Int /\ n # 0
    BY <1>0, <1>2, <2>1 DEF Fields
  <2>3. n # e
    BY <1>3, <2>1, <2>2, Place
  <2> QED BY <2>1, <2>2, <2>3
<1>5. hp \in Handles /\ hp.idxoff = n /\ hp.ptroff = e /\ hp.save = succ[n]
  BY <1>0, <1>2, <1>4 DEF Handles, Fields
<1>6. ReadPtr(0) = succ[0] /\ succ[0] \in Nat /\ ReadPtr(e) = n /\ chain[0] = 0
  <2>1. 0 \in Int /\ chain[0] = 0
    BY <1>2, Zero DEF Lists
  <2>2. ReadPtr(e) = succ[e]
    BY <1>1, <1>4, OwnChain DEF Chained
  <2> QED BY <1>3, <1>4, <2>1, <2>2, FreeList, Place
<1>7. /\ idx' \in Seq(IdxRecords) /\ DOMAIN idx' = DOMAIN idx /\ Len(idx') = Len(idx)
      /\ idx'[n].key = Blank /\ idx'[n].ptr = succ[0] /\ idx'[n].dat = idx[n].dat
      /\ \A m \in DOMAIN idx : m # n => idx'[m] = idx[m]
  <2>1. idx[n] \in IdxRecords /\ idx \in Seq(IdxRecords)
    BY <1>2, <1>4, FilesKnown DEF RecordTypes
  <2>2. PICK rec : rec = [idx[n] EXCEPT !.key = Blank, !.ptr = succ[0]]
    OBVIOUS
  <2>3. rec \in IdxRecords /\ rec.key = Blank /\ rec.ptr = succ[0] /\ rec.dat = idx[n].dat
    BY <1>6, <2>1, <2>2 DEF IdxRecords
  <2>4. idx' = [idx EXCEPT ![n] = rec]
    BY <1>1, <1>6, <2>2
  <2> QED BY <1>4, <2>1, <2>3, <2>4
<1>8. Moves(p, "push") /\ where'[p] = "push" /\ Alone(p) /\ Sets(p, hp) /\ h'[p] = hp
  <2>1. Moves(p, "push") /\ Sets(p, hp)
    BY <1>1, <1>2, <1>5, Going, Setting DEF Wheres, Chained
  <2> QED BY <1>1, <2>1 DEF Moves, Alone, Sets
<1>9. Writer(p) /\ Freeing(p) /\ ~Holding(p) /\ ~NewData(p) /\ Mine(p, chain, n) /\ Mine(p, chain, e)
  BY <1>1, <1>2, <1>4, Deleting DEF Holding, NewData, Mine, Freeing
<1>10. PICK c, s : c = [chain EXCEPT ![n] = -1] /\ s = [succ EXCEPT ![e] = succ[n]]
  OBVIOUS
<1>11. /\ c[n] = -1 /\ s[e] = succ[n] /\ Ghosts(c, rank, s)
       /\ \A i \in Int : i # n => c[i] = chain[i]
       /\ \A i \in Int : i # e => s[i] = succ[i]
  <2>1. chain \in [Int -> Int] /\ rank \in [Int -> Int] /\ succ \in [Int -> Int]
    BY <1>2 DEF Ghosts
  <2>2. n \in Int /\ e \in Int /\ succ[n] \in Int /\ -1 \in Int
    BY <1>2, <1>4
  <2>3. c \in [Int -> Int] /\ c[n] = -1 /\ \A i \in Int : i # n => c[i] = chain[i]
    BY ONLY <1>10, <2>1, <2>2
  <2>4. s \in [Int -> Int] /\ s[e] = succ[n] /\ \A i \in Int : i # e => s[i] = succ[i]
    BY ONLY <1>10, <2>1, <2>2
  <2> QED BY <2>1, <2>3, <2>4 DEF Ghosts
<1>12. Lists(c, rank, s, Len(idx'))
  <2>1. chain \in [Int -> Int] /\ rank \in [Int -> Int] /\ succ \in [Int -> Int]
    BY <1>2 DEF Ghosts
  <2>2. chain[e] >= 0
    BY <1>3, <1>4
  <2> QED BY <1>2, <1>4, <1>7, <1>10, <2>1, <2>2, Removed
<1>13. \A i \in Int : i # n => ReadPtr(i)' = ReadPtr(i)
  <2> SUFFICES ASSUME NEW i \in Int, i # n PROVE ReadPtr(i)' = ReadPtr(i)
    OBVIOUS
  <2>1. idx'[i] = idx[i]
    BY <1>1
  <2> QED BY <1>1, <2>1 DEF ReadPtr
<1>14. Frame(p, chain, rank, succ, c, rank, s)
  <2>1. Grows
    BY <1>1, <1>7 DEF Grows
  <2>2. \A i \in Int : Mine(p, chain, i) =>
           c[i] < 0 \/ (Writer(p) /\ c[i] = Chain(p)) \/ (Freeing(p) /\ c[i] = 0)
    BY <1>11 DEF Mine
  <2>3. \A m \in DOMAIN idx : ~Mine(p, chain, m) => idx'[m] = idx[m] /\ dat'[idx[m].dat] = dat[idx[m].dat]
    BY <1>1, <1>7, <1>9
  <2>4. \A i \in Int : ~Mine(p, chain, i) =>
          c[i] = chain[i] /\ s[i] = succ[i] /\ ReadPtr(i)' = ReadPtr(i)
    BY <1>9, <1>11, <1>13
  <2> QED BY <1>1, <1>7, <1>8, <1>9, <2>1, <2>2, <2>3, <2>4 DEF Frame
<1>15. Base'
  <2>1. RecordTypes'
    BY <1>1, <1>2, <1>7 DEF RecordTypes
  <2>2. LockTypes' /\ Locked' /\ Excluded'
    BY <1>1, <1>2, <1>8, SameLocks DEF SameRole, Chained
  <2>3. /\ h' \in [Procs -> Handles] /\ DOMAIN result' = Procs /\ req[p].op \in Ops("push")
        /\ where[p] \notin {"closed", "create"} /\ UNCHANGED <<req, before>> /\ head' = head
        /\ "push" \in Wheres
    BY <1>1, <1>2, <1>3, <1>8 DEF CallTypes, Ops, Sets, Wheres, Chained
  <2> QED BY <1>2, <1>8, <2>1, <2>2, <2>3, OuterBase
<1>16. \A q \in Procs : q # p => /\ Holding(q)' = Holding(q) /\ NewData(q)' = NewData(q)
                                 /\ h'[q] = h[q] /\ where'[q] = where[q]
  BY <1>8 DEF Alone, Holding, NewData
<1>17. \A q \in Procs : Holding(q) => h[q].idxoff # n
  BY <1>2, <1>3, <1>4, Basics DEF At, Holds
<1>18. Holding(p)' /\ ~NewData(p)' /\ h'[p].idxoff = n
  BY <1>5, <1>8 DEF Holding, NewData
<1>19. \A m \in DOMAIN idx : idx'[m].dat = idx[m].dat
  BY <1>7
<1>20. Hands'
  <2>1. \A q, t \in Procs : q # t /\ Holding(q)' /\ Holding(t)' => h'[q].idxoff # h'[t].idxoff
    BY <1>2, <1>16, <1>17, <1>18 DEF Hands
  <2>2. \A q \in Procs : NewData(q)' => NewData(q) /\ h'[q] = h[q]
    BY <1>16, <1>18
  <2>3. \A q \in Procs : NewData(q)' =>
       /\ h'[q].datoff \in DOMAIN dat'
       /\ \A m \in DOMAIN idx' : idx'[m].dat # h'[q].datoff
    BY <1>1, <1>2, <1>7, <1>19, <2>2 DEF Hands
  <2>4. \A q, t \in Procs : q # t /\ NewData(q)' /\ NewData(t)' => h'[q].datoff # h'[t].datoff
    BY <1>2, <2>2 DEF Hands
  <2> QED BY <2>1, <2>3, <2>4 DEF Hands
<1>21. Pointers(c, s)'
  <2>1. \A i : Bypassed(i) => Bypassed(i)'
    BY <1>1, <1>16 DEF Bypassed
  <2>2. Bypassed(e)'
    BY <1>5, <1>8 DEF Bypassed
  <2>3. ASSUME NEW i \in Int, c[i] >= 0 PROVE ReadPtr(i)' = s[i] \/ Bypassed(i)'
    <3>1. i # n /\ c[i] = chain[i] /\ ReadPtr(i)' = ReadPtr(i)
      BY <1>11, <1>13, <2>3
    <3>2. CASE i = e
      BY <2>2, <3>2
    <3>3. CASE i # e
      BY <1>2, <1>3, <1>11, <2>1, <2>3, <3>1, <3>3 DEF Pointers
    <3> QED BY <3>2, <3>3
  <2> QED BY <1>1, <1>3, <2>3 DEF Pointers
<1>22. Records(c)'
  <2> SUFFICES ASSUME NEW m \in DOMAIN idx
        PROVE  /\ idx'[m].dat \in DOMAIN dat'
               /\ c[m] = 0 => idx'[m].key = Blank
               /\ c[m] > 0 =>
                    /\ idx'[m].key \in Keys /\ Hash[idx'[m].key] = c[m]
                    /\ KeyLen[idx'[m].key] = idx'[m].klen
                    /\ \/ \E q \in Procs : where'[q] = "blank_idx" /\ h'[q].idxoff = m
                       \/ dat'[idx'[m].dat].data \in Data /\ DatLen[dat'[idx'[m].dat].data] = idx'[m].len
               /\ c[m] < 0 => \E q \in Procs : Holding(q)' /\ h'[q].idxoff = m
    BY <1>7 DEF Records
  <2>1. CASE m = n
    BY <1>1, <1>2, <1>4, <1>7, <1>11, <1>18, <2>1 DEF Records
  <2>2. CASE m # n
    <3>1. idx'[m] = idx[m] /\ c[m] = chain[m] /\ m \in Int
      BY <1>2, <1>7, <1>11, <2>2
    <3>2. \A q \in Procs : where[q] = "blank_idx" /\ h[q].idxoff = m =>
                              where'[q] = "blank_idx" /\ h'[q].idxoff = m
      BY <1>0, <1>16, <2>2
    <3>3. \A q \in Procs : Holding(q) /\ h[q].idxoff = m => Holding(q)' /\ h'[q].idxoff = m
      BY <1>9, <1>16
    <3>4. /\ idx[m].dat \in DOMAIN dat
          /\ chain[m] = 0 => idx[m].key = Blank
          /\ chain[m] > 0 =>
                    /\ idx[m].key \in Keys /\ Hash[idx[m].key] = chain[m]
                    /\ KeyLen[idx[m].key] = idx[m].klen
                    /\ \/ \E q \in Procs : where[q] = "blank_idx" /\ h[q].idxoff = m
                       \/ dat[idx[m].dat].data \in Data /\ DatLen[dat[idx[m].dat].data] = idx[m].len
          /\ chain[m] < 0 => \E q \in Procs : Holding(q) /\ h[q].idxoff = m
      BY <1>2 DEF Records
    <3> QED BY <1>1, <3>1, <3>2, <3>3, <3>4
  <2> QED BY <2>1, <2>2
<1>23. Distinct(c)'
  <2>1. \A l, m \in DOMAIN idx : l # m => idx'[l].dat # idx'[m].dat
    BY <1>2, <1>19 DEF Distinct
  <2>2. \A l, m \in DOMAIN idx : l # m /\ c[l] = c[m] /\ c[l] > 0 => idx'[l].key # idx'[m].key
    <3> SUFFICES ASSUME NEW l \in DOMAIN idx, NEW m \in DOMAIN idx, l # m, c[l] = c[m], c[l] > 0
                 PROVE  idx'[l].key # idx'[m].key
      OBVIOUS
    <3>1. l # n /\ m # n
      BY <1>11
    <3>2. l \in Int /\ m \in Int
      BY <1>2
    <3>3. chain[l] = c[l] /\ chain[m] = c[m] /\ idx'[l] = idx[l] /\ idx'[m] = idx[m]
      BY <1>7, <1>11, <3>1, <3>2
    <3> QED BY <1>2, <3>3 DEF Distinct
  <2> QED BY <1>7, <2>1, <2>2 DEF Distinct
<1>24. At(p, c, rank, s)'
  <2>1. h'[p].ptroff = e /\ h'[p].idxoff = n /\ h'[p].save = succ[n]
    BY <1>5, <1>8
  <2>2. /\ c[e] = Chain(p) /\ s[0] = succ[0] /\ c[n] < 0
    <3>1. e # 0
      BY <1>3, <1>4, <1>6
    <3> QED BY <1>4, <1>11, <3>1
  <2>3. ReadPtr(h[p].ptroff)' = n
    <3>1. (IF e > 0 THEN idx'[e].ptr ELSE head'[-e]) = n
      BY <1>4, <1>6, <1>13 DEF ReadPtr
    <3> QED BY <2>1, <3>1 DEF ReadPtr
  <2>4. Deletes(p, c, s)'
    BY <1>1, <1>4, <1>7, <1>8, <1>11, <2>1, <2>2, <2>3 DEF Deletes, Chain
  <2>5. Holds(p, c)'
    BY <1>4, <1>7, <1>8, <2>1, <2>2 DEF Holds
  <2>6. ASSUME NEW k \in Keys \ {Key(p)} PROVE KeySame(k, chain, c)
    <3>1. ASSUME NEW m \in DOMAIN idx', Has(c, k, m)' PROVE m \in DOMAIN idx /\ Has(chain, k, m)
      <4>1. m # n
        BY <1>7, <3>1, DbAssumption DEF Has
      <4>2. m \in DOMAIN idx /\ c[m] = chain[m] /\ idx'[m] = idx[m]
        BY <1>2, <1>7, <1>11, <4>1
      <4> QED BY <3>1, <4>2 DEF Has
    <3>2. ASSUME NEW m \in DOMAIN idx, Has(chain, k, m)
          PROVE m \in DOMAIN idx' /\ Has(c, k, m)' /\ dat'[idx'[m].dat].data = dat[idx[m].dat].data
      <4>1. m # n
        BY <1>4, <3>2 DEF Has
      <4>2. m \in DOMAIN idx' /\ c[m] = chain[m] /\ idx'[m] = idx[m]
        BY <1>2, <1>7, <1>11, <4>1
      <4> QED BY <1>1, <3>2, <4>2 DEF Has
    <3> QED BY <3>1, <3>2 DEF KeySame
  <2>7. \A k \in Keys \ {Key(p)'} : Hash[k] = Chain(p)' => Content(c, k, before[k])'
    BY <1>1, <1>2, <1>9, <2>6, OtherKeys DEF At
  <2>8. before'[Key(p)'] # None
    BY <1>1, <1>2, <1>9, OwnKey DEF At, Changes
  <2>9. NoRecord(c, Key(p))'
    <3> SUFFICES ASSUME NEW m \in DOMAIN idx', c[m] = Hash[Key(p)], idx'[m].key = Key(p) PROVE FALSE
      BY <1>1, OwnKey DEF NoRecord, Has
    <3>1. m # n
      BY <1>3, <1>11
    <3>2. m \in DOMAIN idx /\ chain[m] = Chain(p) /\ idx[m].key = Key(p)
      BY <1>2, <1>3, <1>7, <1>11, <3>1
    <3> QED BY <1>2, <1>3, <1>4, <3>1, <3>2 DEF Distinct
  <2>10. Changes(p, c)'
    BY <1>8, <2>7, <2>8, <2>9 DEF Changes
  <2> QED BY <1>8, <2>4, <2>5, <2>10 DEF At, Walks, Stores, Looks, Returns
<1> QED BY <1>11, <1>12, <1>14, <1>15, <1>20, <1>21, <1>22, <1>23, <1>24, OuterPasses

RecordOf(m, chain) ==
  /\ idx[m].dat \in DOMAIN dat
  /\ chain[m] = 0 => idx[m].key = Blank
  /\ chain[m] > 0 =>
       /\ idx[m].key \in Keys /\ Hash[idx[m].key] = chain[m]
       /\ KeyLen[idx[m].key] = idx[m].klen
       /\ \/ \E q \in Procs : where[q] = "blank_idx" /\ h[q].idxoff = m
          \/ dat[idx[m].dat].data \in Data /\ DatLen[dat[idx[m].dat].data] = idx[m].len
  /\ chain[m] < 0 => \E q \in Procs : Holding(q) /\ h[q].idxoff = m

LEMMA RecordStays ==
  ASSUME NEW m, NEW chain, NEW c, RecordOf(m, chain), c[m] = chain[m],
         idx'[m].key = idx[m].key, idx'[m].klen = idx[m].klen, idx'[m].dat = idx[m].dat,
         idx'[m].len = idx[m].len, idx[m].dat \in DOMAIN dat',
         dat'[idx[m].dat].data = dat[idx[m].dat].data,
         \A q \in Procs : where[q] = "blank_idx" /\ h[q].idxoff = m =>
                             where'[q] = "blank_idx" /\ h'[q].idxoff = m,
         \A q \in Procs : Holding(q) /\ h[q].idxoff = m => Holding(q)' /\ h'[q].idxoff = m
  PROVE  RecordOf(m, c)'
BY DEF RecordOf

LEMMA RecordsStay ==
  ASSUME NEW c, \A m \in DOMAIN idx' : RecordOf(m, c)'
  PROVE  Records(c)'
BY DEF Records, RecordOf

LEMMA PushSafe ==
  ASSUME NEW chain, NEW rank, NEW succ, Good(chain, rank, succ), NEW p \in Procs, Push(p)
  PROVE  Passes(p, chain, rank, succ)
<1>0. PICK n, e : n = h[p].idxoff /\ e = h[p].ptroff
  OBVIOUS
<1>2. /\ Base /\ CallTypes /\ RecordTypes /\ InPlace /\ Hands /\ Pointers(chain, succ)
      /\ Records(chain) /\ Distinct(chain) /\ Lists(chain, rank, succ, Len(idx))
      /\ Ghosts(chain, rank, succ) /\ Locked /\ Excluded /\ LockTypes
      /\ DOMAIN idx = 1 .. Len(idx) /\ Len(idx) \in Nat /\ At(p, chain, rank, succ)
      /\ Fields(h[p])
      /\ \A i \in Int : chain[i] \in Int /\ rank[i] \in Int /\ succ[i] \in Int
  BY Basics, CallKnown
<1>1. /\ where[p] = "push" /\ Goes(p, "unchain") /\ WritePtr(0, n) /\ h' = h /\ dat' = dat
      /\ UNCHANGED <<locks, req, before>> /\ result' = result
  BY <1>0 DEF Push
<1>3. /\ Hash[Key(p)] = Chain(p) /\ Chain(p) > 0 /\ Chain(p) \in Int /\ head # <<>>
      /\ req[p].op \in Ops("push")
  BY <1>1, <1>2, InChain, CallKnown DEF Chained
<1>4. /\ n \in DOMAIN idx /\ n \in Int /\ n > 0 /\ n \in Nat /\ idx[n].key = Blank /\ chain[n] < 0
      /\ e \in Int /\ chain[e] = Chain(p) /\ succ[e] = h[p].save /\ n # e /\ e # 0 /\ ReadPtr(e) = n
      /\ idx[n].ptr = succ[0] /\ chain[0] = 0 /\ n # 0
  <2>1. /\ n \in DOMAIN idx /\ idx[n].key = Blank /\ chain[n] < 0 /\ chain[e] = Chain(p)
        /\ succ[e] = h[p].save /\ idx[n].ptr = succ[0] /\ ReadPtr(e) = n
    BY <1>0, <1>1, <1>2 DEF At, Deletes, Holds, Holding
  <2>2. n \in Int /\ n > 0 /\ n \in Nat /\ e \in Int /\ n # 0
    BY <1>0, <1>2, <2>1 DEF Fields
  <2>3. chain[0] = 0
    BY <1>2, Zero DEF Lists
  <2>4. n # e /\ e # 0
    BY <1>3, <2>1, <2>3
  <2> QED BY <2>1, <2>2, <2>3, <2>4
<1>5. PtrWritten(0, n) /\ InFiles(0)
  <2>1. InFiles(0) /\ 0 \in Int
    BY Zero DEF InFiles
  <2> QED BY <1>1, <1>2, <1>3, <1>4, <2>1, PtrWrites
<1>6. /\ idx' = idx /\ head'[0] = n /\ head' # <<>>
      /\ \A j \in Int : j # 0 /\ InFiles(j) => ReadPtr(j)' = ReadPtr(j)
  BY <1>1, <1>5 DEF PtrWritten, WritePtr
<1>8. Moves(p, "unchain") /\ where'[p] = "unchain" /\ Alone(p) /\ "unchain" \in Wheres
  <2>1. "unchain" \in Wheres
    BY DEF Wheres, Chained
  <2>2. Moves(p, "unchain")
    BY <1>1, <1>2, <2>1, Going
  <2> QED BY <1>1, <2>1, <2>2 DEF Moves, Alone
<1>7. \A q \in Procs : q # p /\ Holding(q) => h[q].idxoff # n
  BY <1>0, <1>1, <1>2 DEF Hands, Holding
<1>9. Writer(p) /\ Freeing(p) /\ Holding(p) /\ Mine(p, chain, n) /\ Mine(p, chain, 0)
  BY <1>1, <1>2, <1>4, <1>7, Deleting DEF Holding, Mine, Freeing
<1>10. PICK c, r, s : /\ c = [chain EXCEPT ![n] = 0]
                      /\ r = [rank EXCEPT ![n] = rank[0], ![0] = rank[0] + 1]
                      /\ s = [succ EXCEPT ![n] = succ[0], ![0] = n]
  OBVIOUS
<1>11. /\ c[n] = 0 /\ s[n] = succ[0] /\ s[0] = n /\ Ghosts(c, r, s)
       /\ \A i \in Int : i # n => c[i] = chain[i]
       /\ \A i \in Int : i # n /\ i # 0 => s[i] = succ[i] /\ r[i] = rank[i]
  <2>1. chain \in [Int -> Int] /\ rank \in [Int -> Int] /\ succ \in [Int -> Int]
    BY <1>2 DEF Ghosts
  <2>2. n \in Int /\ 0 \in Int /\ n # 0 /\ succ[0] \in Int /\ rank[0] \in Int
    BY <1>2, <1>4
  <2>3. c \in [Int -> Int] /\ c[n] = 0 /\ \A i \in Int : i # n => c[i] = chain[i]
    BY ONLY <1>10, <2>1, <2>2
  <2>4. s \in [Int -> Int] /\ s[n] = succ[0] /\ s[0] = n /\ \A i \in Int : i # n /\ i # 0 => s[i] = succ[i]
    BY ONLY <1>10, <2>1, <2>2
  <2>5. PICK m : m = rank[0] + 1 /\ m \in Int
    BY <2>2
  <2>6. r \in [Int -> Int] /\ \A i \in Int : i # n /\ i # 0 => r[i] = rank[i]
    <3>1. r = [rank EXCEPT ![n] = rank[0], ![0] = m]
      BY <1>10, <2>5
    <3> QED BY ONLY <2>1, <2>2, <2>5, <3>1
  <2> QED BY <2>3, <2>4, <2>6 DEF Ghosts
<1>12. Lists(c, r, s, Len(idx'))
  <2>1. chain \in [Int -> Int] /\ rank \in [Int -> Int] /\ succ \in [Int -> Int]
    BY <1>2 DEF Ghosts
  <2>2. PICK b, hb : b = 0 /\ hb = 0 /\ b \in Int /\ hb \in Int
    OBVIOUS
  <2>3. b \in 0 .. NHASH /\ hb = -b
    <3>0. \A x \in Int : x + x = 0 => -x = x
      OBVIOUS
    <3>1. hb = b /\ b \in Int /\ b + b = 0
      BY ONLY <2>2
    <3>3. hb = -b
      BY ONLY <3>0, <3>1, Zenon
    <3>2. b \in 0 .. NHASH
      BY ONLY <2>2, Zero
    <3> QED BY <3>2, <3>3
  <2>4. /\ c = [chain EXCEPT ![n] = b]
        /\ r = [rank EXCEPT ![n] = rank[hb], ![hb] = rank[hb] + 1]
        /\ s = [succ EXCEPT ![n] = succ[hb], ![hb] = n]
    BY <1>10, <2>2
  <2> QED BY <1>2, <1>4, <1>6, <2>1, <2>3, <2>4, Pushed
<1>13. Frame(p, chain, rank, succ, c, r, s)
  <2>1. Grows
    BY <1>1, <1>6 DEF Grows
  <2>2. \A i \in Int : Mine(p, chain, i) =>
           c[i] < 0 \/ (Writer(p) /\ c[i] = Chain(p)) \/ (Freeing(p) /\ c[i] = 0)
    BY <1>9, <1>11 DEF Mine
  <2>3. \A i \in Int : ~Mine(p, chain, i) =>
          c[i] = chain[i] /\ r[i] = rank[i] /\ s[i] = succ[i] /\ ReadPtr(i)' = ReadPtr(i)
    BY <1>6, <1>9, <1>11, Valid DEF InFiles
  <2> QED BY <1>1, <1>6, <1>8, <1>9, <2>1, <2>2, <2>3 DEF Frame
<1>14. Base'
  <2>1. RecordTypes'
    BY <1>1, <1>2, <1>5 DEF RecordTypes, PtrWritten
  <2>2. LockTypes' /\ Locked' /\ Excluded'
    BY <1>1, <1>2, <1>8, SameLocks DEF SameRole, Chained
  <2>3. /\ h' \in [Procs -> Handles] /\ DOMAIN result' = Procs /\ req[p].op \in Ops("unchain")
        /\ where[p] \notin {"closed", "create"} /\ UNCHANGED <<req, before>>
    BY <1>1, <1>2, <1>3 DEF CallTypes, Ops
  <2> QED BY <1>2, <1>6, <1>8, <2>1, <2>2, <2>3, OuterBase
<1>15. /\ \A q \in Procs : q # p => Holding(q)' = Holding(q) /\ NewData(q)' = NewData(q)
       /\ ~Holding(p)' /\ ~NewData(p)'
  BY <1>8 DEF Alone, Holding, NewData
<1>16. Hands'
  BY <1>1, <1>2, <1>6, <1>15 DEF Hands
<1>17. Pointers(c, s)'
  <2>1. \A i : Bypassed(i) => Bypassed(i)'
    BY <1>1, <1>8 DEF Bypassed, Moves
  <2>2. ASSUME NEW i \in Int, c[i] >= 0 PROVE ReadPtr(i)' = s[i] \/ Bypassed(i)'
    <3>1. CASE i = 0
      BY <1>6, <1>11, <3>1 DEF ReadPtr
    <3>2. CASE i = n
      <4>1. ReadPtr(i)' = idx[n].ptr
        BY <1>4, <1>6, <3>2 DEF ReadPtr
      <4> QED BY <1>4, <1>11, <3>2, <4>1
    <3>3. CASE i # 0 /\ i # n
      <4>1. chain[i] >= 0 /\ s[i] = succ[i]
        BY <1>11, <2>2, <3>3
      <4>2. InFiles(i)
        BY <1>3, <4>1, Place DEF InFiles
      <4> QED BY <1>2, <1>3, <1>6, <2>1, <3>3, <4>1, <4>2 DEF Pointers
    <3> QED BY <3>1, <3>2, <3>3
  <2> QED BY <1>6, <2>2 DEF Pointers
<1>18. Records(c)'
  <2>1. ASSUME NEW m \in DOMAIN idx' PROVE RecordOf(m, c)'
    <3>0. RecordOf(m, chain) /\ m \in Int /\ m \in DOMAIN idx
      <4>1. m \in DOMAIN idx
        BY <1>6, <2>1
      <4>2. RecordOf(m, chain)
        BY <1>2, <4>1 DEF Records, RecordOf
      <4> QED BY <1>2, <4>1, <4>2
    <3>1. CASE m = n
      <4>1. idx[m].dat \in DOMAIN dat
        BY <3>0 DEF RecordOf
      <4>2. idx[m].key = Blank /\ c[m] = 0
        BY <1>4, <1>11, <3>1
      <4> QED BY <1>1, <1>6, <4>1, <4>2 DEF RecordOf
    <3>2. CASE m # n
      <4>1. c[m] = chain[m]
        BY <1>11, <3>0, <3>2
      <4>2. \A q \in Procs : where[q] = "blank_idx" /\ h[q].idxoff = m =>
                             where'[q] = "blank_idx" /\ h'[q].idxoff = m
        BY <1>1, <1>8 DEF Moves
      <4>3. \A q \in Procs : Holding(q) /\ h[q].idxoff = m => Holding(q)' /\ h'[q].idxoff = m
        BY <1>0, <1>1, <1>15, <3>2
      <4>4. idx[m].dat \in DOMAIN dat
        BY <3>0 DEF RecordOf
      <4> QED BY <1>1, <1>6, <3>0, <4>1, <4>2, <4>3, <4>4, RecordStays
    <3> QED BY <3>1, <3>2
  <2> QED BY <2>1, RecordsStay
<1>19. Distinct(c)'
  <2>1. ASSUME NEW l \in DOMAIN idx, NEW m \in DOMAIN idx, c[l] = c[m], c[l] > 0
        PROVE  chain[l] = chain[m] /\ chain[l] > 0
    <3>1. l # n /\ m # n /\ l \in Int /\ m \in Int
      BY <1>2, <1>11, <2>1
    <3> QED BY <1>11, <2>1, <3>1
  <2> QED BY <1>2, <1>6, <2>1 DEF Distinct
<1>20. At(p, c, r, s)'
  <2>1. ReadPtr(h[p].ptroff)' = n
    <3>1. ReadPtr(e)' = ReadPtr(e)
      <4>1. InFiles(e)
        BY <1>3, <1>4, Place DEF InFiles
      <4> QED BY <1>4, <1>6, <4>1
    <3>2. (IF e > 0 THEN idx'[e].ptr ELSE head'[-e]) = n
      BY <1>4, <3>1 DEF ReadPtr
    <3> QED BY <1>0, <1>1, <3>2 DEF ReadPtr
  <2>2. Deletes(p, c, s)'
    BY <1>0, <1>1, <1>4, <1>6, <1>8, <1>11, <2>1 DEF Deletes, Chain
  <2>3. ASSUME NEW k \in Keys PROVE KeySame(k, chain, c)
    <3>1. Hash[k] > 0
      BY DbAssumption
    <3>2. \A m \in DOMAIN idx : Has(c, k, m)' = Has(chain, k, m)
      BY <1>2, <1>4, <1>6, <1>11, <3>1 DEF Has
    <3> QED BY <1>1, <1>6, <3>2 DEF KeySame
  <2>4. \A k \in Keys \ {Key(p)'} : Hash[k] = Chain(p)' => Content(c, k, before[k])'
    BY <1>1, <1>2, <1>9, <2>3, OtherKeys DEF At
  <2>5. before'[Key(p)'] # None
    BY <1>1, <1>2, <1>9, OwnKey DEF At, Changes
  <2>6. NoRecord(c, Key(p))'
    <3>1. NoRecord(chain, Key(p))
      BY <1>1, <1>2, <1>9 DEF At, Changes
    <3>2. PICK k \in Keys : k = Key(p)
      BY <1>1, InChain DEF Chained
    <3>3. NoRecord(c, k)'
      BY <2>3, <3>1, <3>2, StillNone
    <3> QED BY <1>1, <3>2, <3>3, OwnKey DEF NoRecord, Has
  <2>7. Changes(p, c)'
    BY <1>8, <2>4, <2>5, <2>6 DEF Changes
  <2> QED BY <1>8, <1>15, <2>2, <2>7 DEF At, Walks, Stores, Holds, Looks, Returns
<1> QED BY <1>2, <1>11, <1>12, <1>13, <1>14, <1>16, <1>17, <1>18, <1>19, <1>20, OuterPasses

(* The keys of a chain in which only a pointer is written.                 *)
LEMMA PtrKeys ==
  ASSUME NEW chain, NEW e, NEW v, PtrWritten(e, v), dat' = dat
  PROVE  \A k : KeySame(k, chain, chain)
BY DEF PtrWritten, KeySame, Has

LEMMA UnchainSafe ==
  ASSUME NEW chain, NEW rank, NEW succ, Good(chain, rank, succ), NEW p \in Procs, Unchain(p)
  PROVE  Passes(p, chain, rank, succ)
<1>0. PICK e, v, w : e = h[p].ptroff /\ v = h[p].save /\ w = where'[p]
  OBVIOUS
<1>2. /\ Base /\ CallTypes /\ RecordTypes /\ InPlace /\ Hands /\ Pointers(chain, succ)
      /\ Records(chain) /\ Distinct(chain) /\ Lists(chain, rank, succ, Len(idx))
      /\ Ghosts(chain, rank, succ) /\ Locked /\ Excluded /\ LockTypes
      /\ DOMAIN idx = 1 .. Len(idx) /\ Len(idx) \in Nat /\ At(p, chain, rank, succ)
      /\ Fields(h[p]) /\ DOMAIN where = Procs /\ DOMAIN result = Procs
      /\ \A i \in Int : chain[i] \in Int /\ rank[i] \in Int /\ succ[i] \in Int
  BY Basics, CallKnown
<1>1. /\ where[p] = "unchain" /\ Goes(p, w) /\ WritePtr(e, v) /\ h' = h /\ dat' = dat
      /\ UNCHANGED <<req, before>> /\ UnLock(0, p)
      /\ \/ req[p].op = "delete" /\ w = "return" /\ result' = [result EXCEPT ![p] = 0]
         \/ req[p].op # "delete" /\ w = "reread" /\ result' = result
  BY <1>0, <1>2 DEF Unchain, Goes
<1>3. /\ Hash[Key(p)] = Chain(p) /\ Chain(p) > 0 /\ Chain(p) \in Int /\ head # <<>>
      /\ req[p].op \in Ops("unchain") /\ Key(p) \in Keys
  BY <1>1, <1>2, InChain, CallKnown DEF Chained
<1>4. /\ e \in Int /\ chain[e] = Chain(p) /\ succ[e] = v /\ v \in Nat /\ chain[e] >= 0
  <2>1. chain[e] = Chain(p) /\ succ[e] = v
    BY <1>0, <1>1, <1>2 DEF At, Deletes
  <2>2. e \in Int /\ v \in Nat
    BY <1>0, <1>2 DEF Fields
  <2> QED BY <1>3, <2>1, <2>2
<1>5. PtrWritten(e, v)
  <2>1. InFiles(e)
    BY <1>3, <1>4, Place DEF InFiles
  <2> QED BY <1>1, <1>2, <1>3, <1>4, <2>1, PtrWrites
<1>6. /\ DOMAIN idx' = DOMAIN idx /\ Len(idx') = Len(idx) /\ head' # <<>>
      /\ \A j \in Int : j # e /\ InFiles(j) => ReadPtr(j)' = ReadPtr(j)
      /\ \A n \in DOMAIN idx : /\ idx'[n].key = idx[n].key /\ idx'[n].klen = idx[n].klen
                               /\ idx'[n].dat = idx[n].dat /\ idx'[n].len = idx[n].len
                               /\ n # e => idx'[n] = idx[n]
  BY <1>5 DEF PtrWritten
<1>8. Moves(p, w) /\ Alone(p) /\ w \in {"return", "reread"} /\ w \in Wheres
  <2>1. w \in {"return", "reread"} /\ w \in Wheres
    BY <1>1 DEF Wheres, Chained
  <2>2. Moves(p, w)
    BY <1>1, <1>2, <2>1, Going
  <2>3. \A q \in Procs : q # p => result'[q] = result[q]
    BY <1>1, <1>2
  <2>4. \A q \in Procs : q # p => h'[q] = h[q] /\ req'[q] = req[q]
    BY <1>1
  <2> QED BY <2>1, <2>2, <2>3, <2>4 DEF Moves, Alone
<1>9. Writer(p) /\ Freeing(p) /\ ~Holding(p) /\ ~NewData(p) /\ Mine(p, chain, e)
  BY <1>1, <1>2, <1>4, Deleting DEF Holding, NewData, Mine, Freeing
<1>10. Frame(p, chain, rank, succ, chain, rank, succ)
  <2>1. Grows
    BY <1>1, <1>6 DEF Grows
  <2>2. \A i \in Int : Mine(p, chain, i) =>
           chain[i] < 0 \/ (Writer(p) /\ chain[i] = Chain(p)) \/ (Freeing(p) /\ chain[i] = 0)
    BY DEF Mine
  <2>3. \A i \in Int : ~Mine(p, chain, i) => ReadPtr(i)' = ReadPtr(i)
    BY <1>6, <1>9, Valid DEF InFiles
  <2>4. \A n \in DOMAIN idx : ~Mine(p, chain, n) => idx'[n] = idx[n]
    BY <1>6, <1>9
  <2> QED BY <1>1, <1>6, <1>8, <1>9, <2>1, <2>2, <2>3, <2>4 DEF Frame
<1>11. Base'
  <2>1. RecordTypes'
    BY <1>1, <1>2, <1>5 DEF RecordTypes, PtrWritten
  <2>2. LockTypes' /\ Locked' /\ Excluded'
    BY <1>1, <1>2, <1>8, LeavesFree
  <2>3. /\ h' \in [Procs -> Handles] /\ DOMAIN result' = Procs /\ req[p].op \in Ops(w)
        /\ where[p] \notin {"closed", "create"} /\ UNCHANGED <<req, before>>
        /\ w \notin {"closed", "create"}
    BY <1>1, <1>2, <1>3 DEF CallTypes, Ops
  <2> QED BY <1>2, <1>6, <1>8, <2>1, <2>2, <2>3, OuterBase
<1>12. \A q \in Procs : Holding(q)' = Holding(q) /\ NewData(q)' = NewData(q)
  BY <1>8, <1>9 DEF Alone, Moves, Holding, NewData
<1>13. Hands'
  BY <1>1, <1>2, <1>6, <1>12 DEF Hands
<1>14. Pointers(chain, succ)'
  <2>1. \A i : Bypassed(i) /\ i # e => Bypassed(i)'
    BY <1>0, <1>1, <1>8 DEF Bypassed, Moves
  <2>2. ASSUME NEW i \in Int, chain[i] >= 0 PROVE ReadPtr(i)' = succ[i] \/ Bypassed(i)'
    <3>1. CASE i = e
      <4>1. (IF e > 0 THEN idx'[e].ptr ELSE head'[-e]) = v
        BY <1>4, <1>5 DEF PtrWritten
      <4> QED BY <1>4, <3>1, <4>1 DEF ReadPtr
    <3>2. CASE i # e
      <4>1. InFiles(i)
        BY <1>3, <2>2, Place DEF InFiles
      <4> QED BY <1>2, <1>3, <1>6, <2>1, <2>2, <3>2, <4>1 DEF Pointers
    <3> QED BY <3>1, <3>2
  <2> QED BY <1>6, <2>2 DEF Pointers
<1>15. Records(chain)'
  <2>1. ASSUME NEW m \in DOMAIN idx' PROVE RecordOf(m, chain)'
    <3>1. m \in DOMAIN idx
      BY <1>6, <2>1
    <3>2. RecordOf(m, chain)
      BY <1>2, <3>1 DEF Records, RecordOf
    <3>3. \A q \in Procs : where[q] = "blank_idx" /\ h[q].idxoff = m =>
                           where'[q] = "blank_idx" /\ h'[q].idxoff = m
      BY <1>1, <1>8 DEF Moves
    <3>4. \A q \in Procs : Holding(q) /\ h[q].idxoff = m => Holding(q)' /\ h'[q].idxoff = m
      BY <1>1, <1>12
    <3>5. idx[m].dat \in DOMAIN dat
      BY <3>2 DEF RecordOf
    <3> QED BY <1>1, <1>6, <3>1, <3>2, <3>3, <3>4, <3>5, RecordStays
  <2> QED BY <2>1, RecordsStay
<1>16. Distinct(chain)' /\ Lists(chain, rank, succ, Len(idx'))
  BY <1>2, <1>6 DEF Distinct
<1>17. At(p, chain, rank, succ)'
  <2>1. \A k : KeySame(k, chain, chain)
    BY <1>1, <1>5, PtrKeys
  <2>2. \A k \in Keys \ {Key(p)'} : Hash[k] = Chain(p)' => Content(chain, k, before[k])'
    BY <1>1, <1>2, <1>9, <2>1, OtherKeys DEF At
  <2>3. before[Key(p)] # None /\ NoRecord(chain, Key(p))
    BY <1>1, <1>2, <1>9 DEF At, Changes
  <2>4. before'[Key(p)'] # None /\ Key(p)' = Key(p) /\ req'[p] = req[p]
    BY <1>1, <2>3, OwnKey
  <2>5. PICK k \in Keys : k = Key(p)
    BY <1>3
  <2>6. NoRecord(chain, Key(p))'
    <3>1. NoRecord(chain, k)'
      BY <2>1, <2>3, <2>5, StillNone
    <3> QED BY <2>4, <2>5, <3>1 DEF NoRecord, Has
  <2>7. Content(chain, Key(p), None)'
    <3>1. Content(chain, k, None)
      BY <2>3, <2>5, Lacks
    <3>2. Content(chain, k, None)'
      BY <2>1, <3>1, Carried
    <3> QED BY <2>4, <2>5, <3>2 DEF Content, Has
  <2>8. where'[p] = w
    BY <1>8 DEF Moves
  <2>9. Changes(p, chain)'
    BY <1>8, <2>2, <2>4, <2>6, <2>8 DEF Changes
  <2>10. Returns(p, chain)'
    BY <1>1, <1>2, <2>4, <2>7, <2>8 DEF Returns, Answers
  <2> QED BY <1>8, <2>8, <2>9, <2>10 DEF At, Walks, Deletes, Stores, Holds, Holding, Looks
<1> QED BY <1>2, <1>10, <1>11, <1>13, <1>14, <1>15, <1>16, <1>17, OuterPasses

(* Taken off its list, a place is on none.                                 *)
TakenOff(chain, rank, succ, len, e, n, c, s) ==
  /\ c[n] = -1 /\ s[e] = succ[n] /\ Ghosts(c, rank, s) /\ Lists(c, rank, s, len)
  /\ \A i \in Int : i # n => c[i] = chain[i]
  /\ \A i \in Int : i # e => s[i] = succ[i]

LEMMA Unlisted ==
  ASSUME NEW chain, NEW rank, NEW succ, Ghosts(chain, rank, succ),
         NEW len \in Nat, Lists(chain, rank, succ, len),
         NEW e \in Int, chain[e] >= 0, NEW n \in Int, n = succ[e], n # 0
  PROVE  \E c, s : TakenOff(chain, rank, succ, len, e, n, c, s)
<1>1. PICK c, s : c = [chain EXCEPT ![n] = -1] /\ s = [succ EXCEPT ![e] = succ[n]]
  OBVIOUS
<1>2. chain \in [Int -> Int] /\ rank \in [Int -> Int] /\ succ \in [Int -> Int]
  BY DEF Ghosts
<1>3. n \in Int /\ e \in Int /\ succ[n] \in Int /\ -1 \in Int
  BY <1>2
<1>4. c \in [Int -> Int] /\ c[n] = -1 /\ \A i \in Int : i # n => c[i] = chain[i]
  BY ONLY <1>1, <1>2, <1>3
<1>5. s \in [Int -> Int] /\ s[e] = succ[n] /\ \A i \in Int : i # e => s[i] = succ[i]
  BY ONLY <1>1, <1>2, <1>3
<1>6. Lists(c, rank, s, len)
  <2>1. /\ chain \in [Int -> Int] /\ rank \in [Int -> Int] /\ succ \in [Int -> Int]
        /\ len \in Nat /\ Lists(chain, rank, succ, len)
        /\ e \in Int /\ chain[e] >= 0 /\ n = succ[e] /\ n # 0
    BY <1>2
  <2>2. Lists([chain EXCEPT ![n] = -1], rank, [succ EXCEPT ![e] = succ[n]], len)
    BY ONLY <2>1, Removed
  <2> QED BY <1>1, <2>2
<1>7. TakenOff(chain, rank, succ, len, e, n, c, s)
  BY ONLY <1>2, <1>4, <1>5, <1>6 DEF Ghosts, TakenOff
<1> QED BY <1>7

LEMMA TakeFreeSafe ==
  ASSUME NEW chain, NEW rank, NEW succ, Good(chain, rank, succ), NEW p \in Procs, TakeFree(p)
  PROVE  Passes(p, chain, rank, succ)
<1>0. PICK n, e, v, hp : n = h[p].off /\ e = h[p].ptroff /\ v = idx[n].ptr /\ hp = ReadIdx(p, n)
  OBVIOUS
<1>2. /\ Base /\ CallTypes /\ RecordTypes /\ InPlace /\ Hands /\ Pointers(chain, succ)
      /\ Records(chain) /\ Distinct(chain) /\ Lists(chain, rank, succ, Len(idx))
      /\ Ghosts(chain, rank, succ) /\ Locked /\ Excluded /\ LockTypes
      /\ DOMAIN idx = 1 .. Len(idx) /\ Len(idx) \in Nat /\ At(p, chain, rank, succ)
      /\ h[p] \in Handles /\ Fields(h[p]) /\ DOMAIN h = Procs
      /\ \A i \in Int : chain[i] \in Int /\ rank[i] \in Int /\ succ[i] \in Int
  BY Basics, CallKnown
<1>1. /\ where[p] = "search" /\ Goes(p, "write_data") /\ WritePtr(e, v) /\ dat' = dat
      /\ h' = [h EXCEPT ![p] = hp] /\ UNCHANGED <<req, before>> /\ UnLock(0, p)
      /\ result' = result /\ Fits(p, n) /\ n # 0
  BY <1>0, <1>2 DEF TakeFree
<1>3. /\ Hash[Key(p)] = Chain(p) /\ Chain(p) > 0 /\ Chain(p) \in Int /\ head # <<>>
      /\ req[p].op \in Ops("search") /\ Key(p) \in Keys /\ chain[-Chain(p)] = Chain(p)
      /\ -Chain(p) \in Int
  BY <1>1, <1>2, InChain, CallKnown DEF Chained
<1>4. /\ e \in Int /\ chain[e] = 0 /\ succ[e] = n /\ n \in DOMAIN idx /\ n \in Int /\ chain[n] = 0
      /\ v = succ[n] /\ v \in Nat /\ hp \in Handles /\ n # e /\ chain[e] >= 0 /\ n > 0
      /\ idx[n].key = Blank
  <2>1. /\ e \in Int /\ chain[e] = 0 /\ succ[e] = n /\ n \in DOMAIN idx /\ n \in Int /\ chain[n] = 0
        /\ v = succ[n] /\ v \in Nat /\ hp \in Handles /\ n # e
    BY <1>0, <1>1, Searching
  <2>2. n > 0
    BY <1>2, <2>1
  <2> QED BY <1>2, <2>1, <2>2 DEF Records
<1>5. /\ hp.idxoff = n /\ hp.datoff = idx[n].dat /\ hp.save = h[p].save
  BY <1>0, <1>2, <1>4, ReadsIdx
<1>7. PtrWritten(e, v)
  <2>1. InFiles(e)
    BY <1>3, <1>4, Place DEF InFiles
  <2> QED BY <1>1, <1>2, <1>3, <1>4, <2>1, PtrWrites
<1>6. /\ DOMAIN idx' = DOMAIN idx /\ Len(idx') = Len(idx) /\ head' # <<>>
      /\ \A j \in Int : j # e /\ InFiles(j) => ReadPtr(j)' = ReadPtr(j)
      /\ \A m \in DOMAIN idx : /\ idx'[m].key = idx[m].key /\ idx'[m].klen = idx[m].klen
                               /\ idx'[m].dat = idx[m].dat /\ idx'[m].len = idx[m].len
                               /\ m # e => idx'[m] = idx[m]
  BY <1>7 DEF PtrWritten
<1>8. /\ Moves(p, "write_data") /\ where'[p] = "write_data" /\ Alone(p) /\ Sets(p, hp) /\ h'[p] = hp
      /\ "write_data" \in Wheres
  <2>1. Moves(p, "write_data") /\ Sets(p, hp) /\ "write_data" \in Wheres
    BY <1>1, <1>2, <1>4, Going, Setting DEF Wheres, Chained
  <2> QED BY <1>1, <2>1 DEF Moves, Alone, Sets
<1>9. Writer(p) /\ Freeing(p) /\ ~Holding(p) /\ ~NewData(p) /\ Mine(p, chain, e) /\ Mine(p, chain, n)
  BY <1>1, <1>2, <1>4, Deleting DEF Holding, NewData, Mine, Freeing
<1>21. PICK c, s : TakenOff(chain, rank, succ, Len(idx), e, n, c, s)
  <2>1. /\ Ghosts(chain, rank, succ) /\ Len(idx) \in Nat /\ Lists(chain, rank, succ, Len(idx))
        /\ e \in Int /\ chain[e] >= 0 /\ n \in Int /\ n = succ[e] /\ n # 0
    BY <1>1, <1>2, <1>4
  <2> QED BY ONLY <2>1, Unlisted
<1>10. /\ c[n] = -1 /\ s[e] = succ[n] /\ Ghosts(c, rank, s) /\ Lists(c, rank, s, Len(idx))
       /\ \A i \in Int : i # n => c[i] = chain[i]
       /\ \A i \in Int : i # e => s[i] = succ[i]
  BY <1>21 DEF TakenOff
<1>11. Frame(p, chain, rank, succ, c, rank, s)
  <2>1. Grows
    BY <1>1, <1>6 DEF Grows
  <2>2. \A i \in Int : Mine(p, chain, i) =>
           c[i] < 0 \/ (Writer(p) /\ c[i] = Chain(p)) \/ (Freeing(p) /\ c[i] = 0)
    BY <1>10 DEF Mine
  <2>3. \A i \in Int : ~Mine(p, chain, i) =>
          c[i] = chain[i] /\ s[i] = succ[i] /\ ReadPtr(i)' = ReadPtr(i)
    BY <1>6, <1>9, <1>10, Valid DEF InFiles
  <2>4. \A m \in DOMAIN idx : ~Mine(p, chain, m) => idx'[m] = idx[m]
    BY <1>6, <1>9
  <2>5. \A q \in Procs : q # p => Len(dat') = Len(dat) /\ Len(idx') = Len(idx)
    BY <1>1, <1>6
  <2>6. \A k : before'[k] = before[k]
    BY <1>1
  <2>7. \A m \in DOMAIN idx : ~Mine(p, chain, m) => dat'[idx[m].dat] = dat[idx[m].dat]
    BY <1>1
  <2> QED BY <1>1, <1>8, <1>9, <2>1, <2>2, <2>3, <2>4, <2>5, <2>6, <2>7 DEF Frame
<1>12. Base'
  <2>1. RecordTypes'
    BY <1>1, <1>2, <1>7 DEF RecordTypes, PtrWritten
  <2>2. LockTypes' /\ Locked' /\ Excluded'
    BY <1>1, <1>2, <1>8, LeavesFree
  <2>3. /\ h' \in [Procs -> Handles] /\ DOMAIN result' = Procs /\ req[p].op \in Ops("write_data")
        /\ where[p] \notin {"closed", "create"} /\ UNCHANGED <<req, before>>
    BY <1>1, <1>2, <1>3, <1>8 DEF CallTypes, Ops, Sets
  <2> QED BY <1>2, <1>6, <1>8, <2>1, <2>2, <2>3, OuterBase
<1>13. \A q \in Procs : q # p => /\ Holding(q)' = Holding(q) /\ NewData(q)' = NewData(q)
                                 /\ h'[q] = h[q] /\ where'[q] = where[q]
  BY <1>8 DEF Alone, Holding, NewData
<1>14. Holding(p)' /\ ~NewData(p)' /\ h'[p].idxoff = n
  BY <1>5, <1>8 DEF Holding, NewData
<1>15. \A q \in Procs : Holding(q) => h[q].idxoff # n
  BY <1>4, Basics DEF At, Holds
<1>16. Hands'
  <2>1. \A q, t \in Procs : q # t /\ Holding(q)' /\ Holding(t)' => h'[q].idxoff # h'[t].idxoff
    BY <1>2, <1>13, <1>14, <1>15 DEF Hands
  <2>2. \A q \in Procs : NewData(q)' => NewData(q) /\ h'[q] = h[q]
    BY <1>13, <1>14
  <2>3. \A q \in Procs : NewData(q)' =>
       /\ h'[q].datoff \in DOMAIN dat'
       /\ \A m \in DOMAIN idx' : idx'[m].dat # h'[q].datoff
    BY <1>1, <1>2, <1>6, <2>2 DEF Hands
  <2>4. \A q, t \in Procs : q # t /\ NewData(q)' /\ NewData(t)' => h'[q].datoff # h'[t].datoff
    BY <1>2, <2>2 DEF Hands
  <2> QED BY <2>1, <2>3, <2>4 DEF Hands
<1>17. Pointers(c, s)'
  <2>1. \A i : Bypassed(i) => Bypassed(i)'
    BY <1>1, <1>13 DEF Bypassed
  <2>2. ASSUME NEW i \in Int, c[i] >= 0 PROVE ReadPtr(i)' = s[i] \/ Bypassed(i)'
    <3>0. c[i] = chain[i]
      BY <1>10, <2>2
    <3>1. CASE i = e
      <4>1. (IF e > 0 THEN idx'[e].ptr ELSE head'[-e]) = v
        BY <1>4, <1>7 DEF PtrWritten
      <4> QED BY <1>4, <1>10, <3>1, <4>1 DEF ReadPtr
    <3>2. CASE i # e
      <4>1. InFiles(i)
        BY <1>3, <2>2, <3>0, Place DEF InFiles
      <4> QED BY <1>2, <1>3, <1>6, <1>10, <2>1, <2>2, <3>0, <3>2, <4>1 DEF Pointers
    <3> QED BY <3>1, <3>2
  <2> QED BY <1>6, <2>2 DEF Pointers
<1>18. Records(c)'
  <2>1. ASSUME NEW m \in DOMAIN idx' PROVE RecordOf(m, c)'
    <3>1. m \in DOMAIN idx /\ m \in Int
      BY <1>2, <1>6, <2>1
    <3>2. RecordOf(m, chain)
      BY <1>2, <3>1 DEF Records, RecordOf
    <3>3. idx[m].dat \in DOMAIN dat
      BY <3>2 DEF RecordOf
    <3>4. CASE m = n
      BY <1>1, <1>6, <1>10, <1>14, <3>1, <3>3, <3>4 DEF RecordOf
    <3>5. CASE m # n
      <4>1. c[m] = chain[m]
        BY <1>10, <3>1, <3>5
      <4>2. \A q \in Procs : where[q] = "blank_idx" /\ h[q].idxoff = m =>
                             where'[q] = "blank_idx" /\ h'[q].idxoff = m
        BY <1>1, <1>13
      <4>3. \A q \in Procs : Holding(q) /\ h[q].idxoff = m => Holding(q)' /\ h'[q].idxoff = m
        BY <1>9, <1>13
      <4> QED BY <1>1, <1>6, <3>1, <3>2, <3>3, <4>1, <4>2, <4>3, RecordStays
    <3> QED BY <3>4, <3>5
  <2> QED BY <2>1, RecordsStay
<1>19. Distinct(c)'
  <2>1. \A l, m \in DOMAIN idx : c[l] = c[m] /\ c[l] > 0 => chain[l] = chain[m] /\ chain[l] > 0
    <3>1. \A m \in DOMAIN idx : m \in Int
      BY <1>2
    <3>2. \A m \in DOMAIN idx : c[m] > 0 => c[m] = chain[m]
      BY <1>10, <3>1
    <3> QED BY <3>2
  <2> QED BY <1>2, <1>6, <2>1 DEF Distinct
<1>20. At(p, c, rank, s)'
  <2>1. Stores(p, c, s)'
    <3>1. s[-Chain(p)] = h[p].save
      <4>1. h[p].save = succ[-Chain(p)]
        BY <1>1, <1>2 DEF At, Stores
      <4> QED BY <1>3, <1>4, <1>10, <4>1
    <3>2. /\ idx'[n].klen = KeyLen[Key(p)] /\ idx'[n].len = DatLen[New(p)]
          /\ hp.datoff = idx'[n].dat
      BY <1>1, <1>4, <1>5, <1>6 DEF Fits, Key, New
    <3>3. Key(p)' = Key(p) /\ New(p)' = New(p) /\ Chain(p)' = Chain(p)
      BY <1>1, OwnKey
    <3>4. hp.save = s[-Chain(p)]
      BY <1>5, <3>1
    <3> QED BY <1>5, <1>8, <3>2, <3>3, <3>4 DEF Stores
  <2>2. Holds(p, c)'
    BY <1>4, <1>6, <1>8, <1>10, <1>14 DEF Holds
  <2>3. ASSUME NEW k \in Keys PROVE KeySame(k, chain, c)
    <3>1. Hash[k] > 0
      BY DbAssumption
    <3>2. \A m \in DOMAIN idx : Has(c, k, m)' = Has(chain, k, m)
      BY <1>2, <1>4, <1>6, <1>10, <3>1 DEF Has
    <3> QED BY <1>1, <1>6, <3>2 DEF KeySame
  <2>4. \A k \in Keys \ {Key(p)'} : Hash[k] = Chain(p)' => Content(c, k, before[k])'
    BY <1>1, <1>2, <1>9, <2>3, OtherKeys DEF At
  <2>5. before[Key(p)] = None /\ NoRecord(chain, Key(p))
    BY <1>1, <1>2, <1>9 DEF At, Changes
  <2>6. before'[Key(p)'] = None /\ Key(p)' = Key(p) /\ req'[p] = req[p]
    BY <1>1, <2>5, OwnKey
  <2>7. NoRecord(c, Key(p))'
    <3>1. PICK k \in Keys : k = Key(p)
      BY <1>3
    <3>2. NoRecord(c, k)'
      BY <2>3, <2>5, <3>1, StillNone
    <3> QED BY <2>6, <3>1, <3>2 DEF NoRecord, Has
  <2>8. Changes(p, c)'
    BY <1>8, <2>4, <2>6, <2>7 DEF Changes
  <2> QED BY <1>8, <2>1, <2>2, <2>8 DEF At, Walks, Deletes, Looks, Returns
<1> QED BY <1>2, <1>6, <1>10, <1>11, <1>12, <1>16, <1>17, <1>18, <1>19, <1>20, OuterPasses

(* A data record is written, and nothing else in the files.                *)
DatWritten(x, rec) ==
  /\ idx' = idx /\ head' = head
  /\ dat' \in Seq(DatRecords) /\ DOMAIN dat \subseteq DOMAIN dat'
  /\ x \in DOMAIN dat' /\ dat'[x] = rec
  /\ \A y \in DOMAIN dat : y # x => dat'[y] = dat[y]
  /\ x \in DOMAIN dat => Len(dat') = Len(dat)

LEMMA DatWrites ==
  ASSUME RecordTypes, NEW x \in Nat, x > 0, x <= Len(dat) + 1, NEW rec \in DatRecords,
         dat' = Put(dat, x, rec), idx' = idx, head' = head
  PROVE  DatWritten(x, rec)
<1>1. dat \in Seq(DatRecords) /\ DOMAIN dat = 1 .. Len(dat) /\ Len(dat) \in Nat
  BY FilesKnown DEF RecordTypes
<1>2. CASE x > Len(dat)
  <2>1. x = Len(dat) + 1 /\ x \notin DOMAIN dat
    BY <1>1, <1>2
  <2>2. dat' = Append(dat, rec)
    BY <1>2 DEF Put
  <2>3. /\ dat' \in Seq(DatRecords) /\ DOMAIN dat' = 1 .. (Len(dat) + 1)
        /\ dat'[Len(dat) + 1] = rec /\ \A y \in 1 .. Len(dat) : dat'[y] = dat[y]
    BY <1>1, <2>2
  <2>4. DOMAIN dat \subseteq DOMAIN dat' /\ x \in DOMAIN dat'
    BY <1>1, <2>1, <2>3
  <2> QED BY <1>1, <2>1, <2>3, <2>4 DEF DatWritten
<1>3. CASE ~(x > Len(dat))
  <2>1. x \in DOMAIN dat
    BY <1>1, <1>3
  <2>2. dat' = [dat EXCEPT ![x] = rec]
    BY <1>3 DEF Put
  <2>3. /\ dat' \in Seq(DatRecords) /\ DOMAIN dat' = DOMAIN dat /\ Len(dat') = Len(dat)
        /\ dat'[x] = rec /\ \A y \in DOMAIN dat : y # x => dat'[y] = dat[y]
    BY <1>1, <2>1, <2>2
  <2> QED BY <2>1, <2>3 DEF DatWritten
<1> QED BY <1>2, <1>3

(* The steps with which p writes the data of its call.                     *)
Written(p) == [data |-> New(p), len |-> DatLen[New(p)]]

WritesDat(p, x, hp, w) ==
  /\ DatWritten(x, Written(p)) /\ tail' = [tail EXCEPT !["dat"] = @ \ {p}]
  /\ h' = [h EXCEPT ![p] = hp] /\ Moves(p, w) /\ Alone(p) /\ Sets(p, hp) /\ h'[p] = hp
  /\ hp \in Handles /\ hp.datlen = DatLen[New(p)] /\ hp.datoff = x /\ hp.idxoff = h[p].idxoff
  /\ hp.save = h[p].save /\ hp.ptroff = h[p].ptroff
  /\ where'[p] = w /\ w \in {"write_idx", "append_idx", "return"}
  /\ DOMAIN result' = Procs
  /\ rlock' = rlock /\ wlock' = wlock /\ UNCHANGED <<req, before>>
  /\ Written(p).data = New(p) /\ Written(p).len = DatLen[New(p)]

LEMMA WriteDataIs ==
  ASSUME NEW chain, NEW rank, NEW succ, Good(chain, rank, succ), NEW p \in Procs, WriteData(p)
  PROVE  \E x, hp, w :
           /\ WritesDat(p, x, hp, w) /\ x = h[p].datoff
           /\ w = (IF where[p] = "write_data" THEN "write_idx"
                   ELSE IF where[p] = "write_end_data" THEN "append_idx" ELSE "return")
           /\ where[p] = "overwrite" => result'[p] = 0
<1>0. PICK x, hp, w :
         /\ x = h[p].datoff /\ hp = [h[p] EXCEPT !.datlen = DatLen[New(p)]]
         /\ w = (IF where[p] = "write_data" THEN "write_idx"
                 ELSE IF where[p] = "write_end_data" THEN "append_idx" ELSE "return")
  OBVIOUS
<1>1. /\ where[p] \in {"write_data", "write_end_data", "overwrite"}
      /\ dat' = Put(dat, x, Written(p)) /\ tail' = [tail EXCEPT !["dat"] = @ \ {p}]
      /\ h' = [h EXCEPT ![p] = hp] /\ Goes(p, w)
      /\ head' = head /\ idx' = idx /\ rlock' = rlock /\ wlock' = wlock /\ UNCHANGED <<req, before>>
  <2>1. w = (CASE where[p] = "write_data" -> "write_idx"
               [] where[p] = "write_end_data" -> "append_idx" [] OTHER -> "return")
    BY <1>0
  <2>2. /\ where[p] \in {"write_data", "write_end_data", "overwrite"}
        /\ dat' = Put(dat, x, Written(p)) /\ tail' = [tail EXCEPT !["dat"] = @ \ {p}]
        /\ head' = head /\ idx' = idx /\ rlock' = rlock /\ wlock' = wlock /\ UNCHANGED <<req, before>>
    BY <1>0 DEF WriteData, Written, New
  <2>3. Goes(p, w)
    BY <2>1 DEF WriteData
  <2>4. h' = [h EXCEPT ![p] = hp]
    BY <1>0 DEF WriteData, New
  <2> QED BY <2>2, <2>3, <2>4
<1>2. /\ RecordTypes /\ CallTypes /\ InPlace /\ At(p, chain, rank, succ) /\ Records(chain)
      /\ h[p] \in Handles /\ Fields(h[p]) /\ req[p].op \in Ops(where[p]) /\ DOMAIN result = Procs
      /\ DOMAIN where = Procs
  BY Basics, CallKnown
<1>3. New(p) \in Data /\ DatLen[New(p)] \in Nat
  <2>1. req[p].op \in Storing
    BY <1>1, <1>2 DEF Ops, Storing
  <2> QED BY <1>2, <2>1, CallKnown
<1>4. Written(p) \in DatRecords /\ Written(p).data = New(p) /\ Written(p).len = DatLen[New(p)]
  BY <1>3 DEF Written, DatRecords
<1>5. /\ hp \in Handles /\ hp.datlen = DatLen[New(p)] /\ hp.datoff = x /\ hp.idxoff = h[p].idxoff
      /\ hp.save = h[p].save /\ hp.ptroff = h[p].ptroff
  <2>1. PICK d : d = DatLen[New(p)] /\ d \in Nat
    BY <1>3
  <2>2. hp = [h[p] EXCEPT !.datlen = d] /\ h[p] \in Handles
    BY <1>0, <1>2, <2>1
  <2>3. /\ hp \in Handles /\ hp.datlen = d /\ hp.datoff = h[p].datoff /\ hp.idxoff = h[p].idxoff
        /\ hp.save = h[p].save /\ hp.ptroff = h[p].ptroff
    BY ONLY <2>1, <2>2 DEF Handles
  <2> QED BY <1>0, <2>1, <2>3
<1>6. w \in {"write_idx", "append_idx", "return"} /\ w \in Wheres
  BY <1>0 DEF Wheres, Chained
<1>7. Moves(p, w) /\ Sets(p, hp)
  BY <1>1, <1>2, <1>5, <1>6, Going, Setting
<1>8. /\ DOMAIN result' = Procs
      /\ \A q \in Procs : q # p => result'[q] = result[q]
      /\ where[p] = "overwrite" => result'[p] = 0
  <2>1. PICK v : v = (IF where[p] = "overwrite" THEN 0 ELSE result[p])
    OBVIOUS
  <2>2. result' = [result EXCEPT ![p] = v]
    BY <2>1 DEF WriteData
  <2> QED BY <1>2, <2>1, <2>2
<1>9. x \in Nat /\ x > 0 /\ x <= Len(dat) + 1
  <2>1. CASE where[p] = "write_data"
    <3>1. h[p].idxoff \in DOMAIN idx /\ x = idx[h[p].idxoff].dat
      BY <1>0, <1>2, <2>1 DEF At, Stores, Holds, Holding
    <3>2. x \in DOMAIN dat
      BY <1>2, <3>1 DEF Records
    <3> QED BY <1>2, <3>2, FilesKnown
  <2>2. CASE where[p] = "write_end_data"
    <3>1. x = Len(dat) + 1
      BY <1>0, <1>2, <2>2 DEF At, Stores
    <3> QED BY <1>2, <3>1, FilesKnown
  <2>3. CASE where[p] = "overwrite"
    <3>1. h[p].idxoff \in DOMAIN idx /\ x = idx[h[p].idxoff].dat
      BY <1>0, <1>2, <2>3 DEF At, Stores, HasFound
    <3>2. x \in DOMAIN dat
      BY <1>2, <3>1 DEF Records
    <3> QED BY <1>2, <3>2, FilesKnown
  <2> QED BY <1>1, <2>1, <2>2, <2>3
<1>10. DatWritten(x, Written(p))
  BY <1>1, <1>2, <1>4, <1>9, DatWrites
<1>11. Alone(p) /\ where'[p] = w /\ h'[p] = hp
  BY <1>1, <1>7, <1>8 DEF Alone, Moves, Sets
<1>12. WritesDat(p, x, hp, w)
  BY <1>1, <1>4, <1>5, <1>6, <1>7, <1>8, <1>10, <1>11 DEF WritesDat
<1> QED BY <1>0, <1>8, <1>12

DataNext(v) == IF v = "write_data" THEN "write_idx"
               ELSE IF v = "write_end_data" THEN "append_idx" ELSE "return"

LEMMA DatRest ==
  ASSUME NEW chain, NEW rank, NEW succ, Good(chain, rank, succ), NEW p \in Procs,
         NEW x, NEW hp, NEW w, WritesDat(p, x, hp, w), w = DataNext(where[p]),
         where[p] \in {"write_data", "write_end_data", "overwrite"}
  PROVE  /\ Base' /\ Pointers(chain, succ)' /\ Distinct(chain)' /\ Lists(chain, rank, succ, Len(idx'))
         /\ Grows /\ Writer(p) /\ \A i : ReadPtr(i)' = ReadPtr(i)
         /\ \A q \in Procs : q # p => /\ Holding(q)' = Holding(q) /\ NewData(q)' = NewData(q)
                                      /\ h'[q] = h[q] /\ where'[q] = where[q]
<1>2. /\ Base /\ CallTypes /\ RecordTypes /\ InPlace /\ Pointers(chain, succ)
      /\ Distinct(chain) /\ Lists(chain, rank, succ, Len(idx)) /\ head # <<>>
      /\ req[p].op \in Ops(where[p])
  BY Basics, CallKnown, InChain DEF Chained
<1>1. /\ DatWritten(x, Written(p)) /\ tail' = [tail EXCEPT !["dat"] = @ \ {p}]
      /\ Moves(p, w) /\ Alone(p) /\ Sets(p, hp) /\ w \in {"write_idx", "append_idx", "return"}
      /\ DOMAIN result' = Procs /\ rlock' = rlock /\ wlock' = wlock /\ UNCHANGED <<req, before>>
  BY DEF WritesDat
<1>3. /\ idx' = idx /\ head' = head /\ dat' \in Seq(DatRecords) /\ DOMAIN dat \subseteq DOMAIN dat'
  BY <1>1 DEF DatWritten
<1>4. \A i : ReadPtr(i)' = ReadPtr(i)
  BY <1>3 DEF ReadPtr
<1>5. Grows /\ Writer(p)
  BY <1>2, <1>3, Deleting DEF Grows
<1>6. \A q \in Procs : q # p => /\ Holding(q)' = Holding(q) /\ NewData(q)' = NewData(q)
                                /\ h'[q] = h[q] /\ where'[q] = where[q]
  BY <1>1 DEF Alone, Holding, NewData
<1>7. Pointers(chain, succ)'
  <2>1. \A i : Bypassed(i) => Bypassed(i)'
    BY <1>6 DEF Bypassed
  <2> QED BY <1>2, <1>3, <1>4, <2>1 DEF Pointers
<1>8. Base'
  <2>1. RecordTypes'
    BY <1>2, <1>3 DEF RecordTypes
  <2>2. w \in Wheres /\ w \notin {"closed", "create"} /\ req[p].op \in Ops(w)
    BY <1>1, <1>2 DEF Wheres, Chained, Ops, DataNext
  <2>3. LockTypes' /\ Locked' /\ Excluded'
    <3>1. PICK f \in {"idx", "dat"} : f = "dat"
      OBVIOUS
    <3>2. /\ tail' = [tail EXCEPT ![f] = @ \ {p}]
          /\ where[p] \in (IF f = "idx" THEN {"write_idx", "write_end_idx"}
                           ELSE {"write_data", "write_end_data", "overwrite"})
          /\ w \in (IF f = "idx" THEN {"link"} ELSE {"write_idx", "append_idx", "return"})
      BY <1>1, <3>1
    <3> QED BY <1>1, <1>2, <2>2, <3>2, LeavesEnd
  <2>4. /\ h' \in [Procs -> Handles] /\ where[p] \notin {"closed", "create"} /\ head' = head
    BY <1>1, <1>3 DEF Sets
  <2> QED BY <1>1, <1>2, <2>1, <2>2, <2>3, <2>4, OuterBase
<1>9. Distinct(chain)' /\ Lists(chain, rank, succ, Len(idx'))
  BY <1>2, <1>3 DEF Distinct
<1> QED BY <1>4, <1>5, <1>6, <1>7, <1>8, <1>9

(* The step is p's own, and the lists are what they were.                  *)
LEMMA DatFrame ==
  ASSUME NEW chain, NEW rank, NEW succ, Good(chain, rank, succ), NEW p \in Procs,
         NEW x, NEW hp, NEW w, WritesDat(p, x, hp, w), w = DataNext(where[p]),
         where[p] \in {"write_data", "write_end_data", "overwrite"},
         \A n \in DOMAIN idx : ~Mine(p, chain, n) => idx[n].dat # x,
         \A q \in Procs : q # p /\ NewData(q) => h[q].datoff # x,
         \A q \in Procs : q # p /\ where[q] = "write_end_data" => x \in DOMAIN dat
  PROVE  Frame(p, chain, rank, succ, chain, rank, succ)
<1>1. Alone(p) /\ DatWritten(x, Written(p)) /\ before' = before
  BY DEF WritesDat
<1>2. Grows /\ \A i : ReadPtr(i)' = ReadPtr(i)
  BY DatRest
<1>3. /\ idx' = idx /\ \A y \in DOMAIN dat : y # x => dat'[y] = dat[y]
      /\ x \in DOMAIN dat => Len(dat') = Len(dat)
  BY <1>1 DEF DatWritten
<1>4. /\ \A n \in DOMAIN idx : idx[n].dat \in DOMAIN dat
      /\ \A q \in Procs : NewData(q) => h[q].datoff \in DOMAIN dat
  BY Basics DEF Records, Hands
<1>5. \A n \in DOMAIN idx : ~Mine(p, chain, n) => idx'[n] = idx[n] /\ dat'[idx[n].dat] = dat[idx[n].dat]
  BY <1>3, <1>4
<1>6. \A i \in Int : Mine(p, chain, i) =>
         chain[i] < 0 \/ (Writer(p) /\ chain[i] = Chain(p)) \/ (Freeing(p) /\ chain[i] = 0)
  BY DEF Mine
<1>7. \A q \in Procs : q # p =>
       /\ NewData(q) => dat'[h[q].datoff] = dat[h[q].datoff]
       /\ where[q] = "write_end_data" => Len(dat') = Len(dat)
       /\ where[q] = "write_end_idx" => Len(idx') = Len(idx)
       /\ Writer(q) => \A k \in Keys : Hash[k] = Chain(q) => before'[k] = before[k]
  BY <1>1, <1>3, <1>4
<1>8. \A i \in Int : ~Mine(p, chain, i) =>
       chain[i] = chain[i] /\ rank[i] = rank[i] /\ succ[i] = succ[i] /\ ReadPtr(i)' = ReadPtr(i)
  BY <1>2
<1>9. ~Freeing(p) => \A n \in DOMAIN idx : idx[n].key # Blank =>
       idx'[n].key = idx[n].key /\ idx'[n].dat = idx[n].dat
  BY <1>3
<1> QED BY <1>1, <1>2, <1>5, <1>6, <1>7, <1>8, <1>9 DEF Frame

LEMMA DatPasses ==
  ASSUME NEW chain, NEW rank, NEW succ, Good(chain, rank, succ), NEW p \in Procs,
         NEW x, NEW hp, NEW w, WritesDat(p, x, hp, w), w = DataNext(where[p]),
         where[p] \in {"write_data", "write_end_data", "overwrite"},
         Frame(p, chain, rank, succ, chain, rank, succ),
         Hands', Records(chain)', At(p, chain, rank, succ)'
  PROVE  Passes(p, chain, rank, succ)
<1>1. Ghosts(chain, rank, succ)
  BY Basics
<1>2. /\ Base' /\ Pointers(chain, succ)' /\ Distinct(chain)' /\ Lists(chain, rank, succ, Len(idx'))
  BY DatRest
<1> QED BY <1>1, <1>2, OuterPasses

(* In place, a record that p holds.                                        *)
LEMMA WriteHeldSafe ==
  ASSUME NEW chain, NEW rank, NEW succ, Good(chain, rank, succ), NEW p \in Procs,
         NEW x, NEW hp, NEW w, WritesDat(p, x, hp, w), x = h[p].datoff, w = DataNext(where[p]),
         where[p] = "write_data"
  PROVE  Passes(p, chain, rank, succ)
<1>0. PICK n : n = h[p].idxoff
  OBVIOUS
<1>1. /\ DatWritten(x, Written(p)) /\ Alone(p) /\ UNCHANGED <<req, before>>
      /\ Written(p).data = New(p) /\ h'[p] = hp /\ where'[p] = "write_idx"
      /\ hp.datlen = DatLen[New(p)] /\ hp.datoff = x /\ hp.idxoff = n
      /\ hp.save = h[p].save
  BY <1>0 DEF WritesDat, DataNext
<1>2. /\ Hands /\ Records(chain) /\ Distinct(chain) /\ At(p, chain, rank, succ) /\ Writer(p)
      /\ \A q \in Procs : q # p => /\ Holding(q)' = Holding(q) /\ NewData(q)' = NewData(q)
                                   /\ h'[q] = h[q] /\ where'[q] = where[q]
  BY Basics, DatRest
<1>3. /\ idx' = idx /\ DOMAIN dat \subseteq DOMAIN dat' /\ dat'[x] = Written(p)
      /\ \A y \in DOMAIN dat : y # x => dat'[y] = dat[y]
  BY <1>1 DEF DatWritten
<1>4. /\ n \in DOMAIN idx /\ chain[n] < 0 /\ x = idx[n].dat /\ x \in DOMAIN dat /\ idx[n].key = Blank
      /\ idx[n].klen = KeyLen[Key(p)] /\ idx[n].len = DatLen[New(p)] /\ h[p].save = succ[-Chain(p)]
  <2>1. /\ n \in DOMAIN idx /\ chain[n] < 0 /\ x = idx[n].dat /\ idx[n].key = Blank
        /\ idx[n].klen = KeyLen[Key(p)] /\ idx[n].len = DatLen[New(p)] /\ h[p].save = succ[-Chain(p)]
    BY <1>0, <1>2 DEF At, Stores, Holds, Holding
  <2> QED BY <1>2, <2>1 DEF Records
<1>5. Holding(p) /\ ~NewData(p) /\ Holding(p)' /\ ~NewData(p)' /\ h'[p].idxoff = n
  BY <1>1 DEF Holding, NewData
<1>6. \A m \in DOMAIN idx : m # n => idx[m].dat # x
  BY <1>2, <1>4 DEF Distinct
<1>7. Mine(p, chain, n)
  BY <1>0, <1>2, <1>4, <1>5 DEF Mine, Hands
<1>8. Frame(p, chain, rank, succ, chain, rank, succ)
  <2>1. \A m \in DOMAIN idx : ~Mine(p, chain, m) => idx[m].dat # x
    BY <1>6, <1>7
  <2>2. \A q \in Procs : q # p /\ NewData(q) => h[q].datoff # x
    BY <1>2, <1>4 DEF Hands
  <2> QED BY <1>4, <2>1, <2>2, DatFrame
<1>9. Hands'
  <2>1. \A q, t \in Procs : q # t /\ Holding(q)' /\ Holding(t)' => h'[q].idxoff # h'[t].idxoff
    BY <1>0, <1>2, <1>5 DEF Hands
  <2>2. \A q \in Procs : NewData(q)' => NewData(q) /\ h'[q] = h[q]
    BY <1>2, <1>5
  <2>3. \A q \in Procs : NewData(q)' =>
       /\ h'[q].datoff \in DOMAIN dat'
       /\ \A m \in DOMAIN idx' : idx'[m].dat # h'[q].datoff
    BY <1>2, <1>3, <2>2 DEF Hands
  <2>4. \A q, t \in Procs : q # t /\ NewData(q)' /\ NewData(t)' => h'[q].datoff # h'[t].datoff
    BY <1>2, <2>2 DEF Hands
  <2> QED BY <2>1, <2>3, <2>4 DEF Hands
<1>10. Records(chain)'
  <2>1. ASSUME NEW m \in DOMAIN idx' PROVE RecordOf(m, chain)'
    <3>1. m \in DOMAIN idx
      BY <1>3, <2>1
    <3>2. RecordOf(m, chain)
      BY <1>2, <3>1 DEF Records, RecordOf
    <3>3. idx[m].dat \in DOMAIN dat
      BY <3>2 DEF RecordOf
    <3>4. CASE m = n
      <4>1. n \in Int /\ chain[n] \in Int
        BY <1>4, Basics
      <4>2. ~(chain[n] = 0) /\ ~(chain[n] > 0)
        BY ONLY <1>4, <4>1
      <4> QED BY <1>3, <1>5, <3>1, <3>3, <3>4, <4>2 DEF RecordOf
    <3>5. CASE m # n
      <4>1. dat'[idx[m].dat] = dat[idx[m].dat]
        BY <1>3, <1>6, <3>1, <3>3, <3>5
      <4>2. \A q \in Procs : where[q] = "blank_idx" /\ h[q].idxoff = m =>
                             where'[q] = "blank_idx" /\ h'[q].idxoff = m
        BY <1>2
      <4>3. \A q \in Procs : Holding(q) /\ h[q].idxoff = m => Holding(q)' /\ h'[q].idxoff = m
        BY <1>0, <1>2, <3>5
      <4> QED BY <1>3, <3>1, <3>2, <3>3, <4>1, <4>2, <4>3, RecordStays
    <3> QED BY <3>4, <3>5
  <2> QED BY <2>1, RecordsStay
<1>11. At(p, chain, rank, succ)'
  <2>0. /\ Key(p)' = Key(p) /\ New(p)' = New(p) /\ Chain(p)' = Chain(p)
        /\ before'[Key(p)'] = before[Key(p)] /\ req'[p] = req[p]
    BY <1>1, OwnKey
  <2>1. Stores(p, chain, succ)'
    BY <1>1, <1>3, <1>4, <2>0 DEF Stores
  <2>2. Holds(p, chain)'
    BY <1>1, <1>3, <1>4 DEF Holds
  <2>3. ASSUME NEW k \in Keys PROVE KeySame(k, chain, chain)
    <3>1. Hash[k] > 0 /\ chain[n] < 0 /\ chain[n] # Hash[k]
      BY <1>4, DbAssumption
    <3>2. \A m \in DOMAIN idx : Has(chain, k, m) => m # n
      BY <3>1 DEF Has
    <3>3. \A m \in DOMAIN idx : Has(chain, k, m) => dat'[idx[m].dat] = dat[idx[m].dat]
      BY <1>2, <1>3, <1>6, <3>2 DEF Records
    <3> QED BY <1>3, <3>3 DEF KeySame, Has
  <2>4. \A k \in Keys \ {Key(p)'} : Hash[k] = Chain(p)' => Content(chain, k, before[k])'
    BY <1>1, <1>2, <2>3, OtherKeys DEF At
  <2>5. before[Key(p)] = None /\ NoRecord(chain, Key(p))
    BY <1>2 DEF At, Changes
  <2>6. NoRecord(chain, Key(p))'
    <3>1. NoRecord(chain, Key(p))' = NoRecord(chain, Key(p))
      BY <1>3, <2>0 DEF NoRecord, Has
    <3> QED BY <2>5, <3>1
  <2>7. Changes(p, chain)'
    BY <1>1, <2>0, <2>4, <2>5, <2>6 DEF Changes
  <2> QED BY <1>1, <2>1, <2>2, <2>7 DEF At, Walks, Deletes, Looks, Returns
<1> QED BY <1>8, <1>9, <1>10, <1>11, DatPasses

(* At the end of the file.                                                 *)
LEMMA WriteEndSafe ==
  ASSUME NEW chain, NEW rank, NEW succ, Good(chain, rank, succ), NEW p \in Procs,
         NEW x, NEW hp, NEW w, WritesDat(p, x, hp, w), x = h[p].datoff, w = DataNext(where[p]),
         where[p] = "write_end_data"
  PROVE  Passes(p, chain, rank, succ)
<1>1. /\ DatWritten(x, Written(p)) /\ Alone(p) /\ UNCHANGED <<req, before>>
      /\ Written(p).data = New(p) /\ h'[p] = hp /\ where'[p] = "append_idx"
      /\ hp.datlen = DatLen[New(p)] /\ hp.datoff = x /\ hp.save = h[p].save
  BY DEF WritesDat, DataNext
<1>2. /\ Hands /\ Records(chain) /\ Distinct(chain) /\ At(p, chain, rank, succ) /\ Writer(p)
      /\ Excluded /\ RecordTypes
      /\ \A q \in Procs : q # p => /\ Holding(q)' = Holding(q) /\ NewData(q)' = NewData(q)
                                   /\ h'[q] = h[q] /\ where'[q] = where[q]
  BY Basics, DatRest
<1>3. /\ idx' = idx /\ DOMAIN dat \subseteq DOMAIN dat' /\ dat'[x] = Written(p) /\ x \in DOMAIN dat'
      /\ \A y \in DOMAIN dat : y # x => dat'[y] = dat[y]
  BY <1>1 DEF DatWritten
<1>4. x \notin DOMAIN dat /\ h[p].save = succ[-Chain(p)]
  <2>1. x = Len(dat) + 1 /\ h[p].save = succ[-Chain(p)]
    BY <1>2 DEF At, Stores
  <2> QED BY <1>2, <2>1, FilesKnown
<1>5. NewData(p)' /\ ~Holding(p)' /\ ~Holding(p) /\ h'[p].datoff = x
  BY <1>1 DEF Holding, NewData
<1>6. \A m \in DOMAIN idx : idx[m].dat \in DOMAIN dat /\ idx[m].dat # x
  BY <1>2, <1>4 DEF Records
<1>7. \A q \in Procs : q # p /\ NewData(q) => h[q].datoff \in DOMAIN dat /\ h[q].datoff # x
  BY <1>2, <1>4 DEF Hands
<1>8. Frame(p, chain, rank, succ, chain, rank, succ)
  <2>1. \A q \in Procs : q # p => where[q] # "write_end_data"
    BY <1>2 DEF Excluded
  <2> QED BY <1>6, <1>7, <2>1, DatFrame
<1>9. Hands'
  <2>1. \A q, t \in Procs : q # t /\ Holding(q)' /\ Holding(t)' => h'[q].idxoff # h'[t].idxoff
    BY <1>2, <1>5 DEF Hands
  <2>2. \A q \in Procs : q # p /\ NewData(q)' => NewData(q) /\ h'[q] = h[q]
    BY <1>2
  <2>3. \A q \in Procs : NewData(q)' =>
       /\ h'[q].datoff \in DOMAIN dat'
       /\ \A m \in DOMAIN idx' : idx'[m].dat # h'[q].datoff
    <3> SUFFICES ASSUME NEW q \in Procs, NewData(q)'
                 PROVE  /\ h'[q].datoff \in DOMAIN dat'
                        /\ \A m \in DOMAIN idx' : idx'[m].dat # h'[q].datoff
      OBVIOUS
    <3>1. CASE q = p
      BY <1>3, <1>5, <1>6, <3>1
    <3>2. CASE q # p
      BY <1>2, <1>3, <2>2, <3>2 DEF Hands
    <3> QED BY <3>1, <3>2
  <2>4. \A q, t \in Procs : q # t /\ NewData(q)' /\ NewData(t)' => h'[q].datoff # h'[t].datoff
    BY <1>2, <1>5, <1>7, <2>2 DEF Hands
  <2> QED BY <2>1, <2>3, <2>4 DEF Hands
<1>10. Records(chain)'
  <2>1. ASSUME NEW m \in DOMAIN idx' PROVE RecordOf(m, chain)'
    <3>1. m \in DOMAIN idx
      BY <1>3, <2>1
    <3>2. RecordOf(m, chain)
      BY <1>2, <3>1 DEF Records, RecordOf
    <3>3. dat'[idx[m].dat] = dat[idx[m].dat] /\ idx[m].dat \in DOMAIN dat'
      BY <1>3, <1>6, <3>1
    <3>4. \A q \in Procs : where[q] = "blank_idx" /\ h[q].idxoff = m =>
                           where'[q] = "blank_idx" /\ h'[q].idxoff = m
      BY <1>2
    <3>5. \A q \in Procs : Holding(q) /\ h[q].idxoff = m => Holding(q)' /\ h'[q].idxoff = m
      BY <1>2, <1>5
    <3> QED BY <1>3, <3>1, <3>2, <3>3, <3>4, <3>5, RecordStays
  <2> QED BY <2>1, RecordsStay
<1>11. At(p, chain, rank, succ)'
  <2>0. /\ Key(p)' = Key(p) /\ New(p)' = New(p) /\ Chain(p)' = Chain(p)
        /\ before'[Key(p)'] = before[Key(p)] /\ req'[p] = req[p]
    BY <1>1, OwnKey
  <2>1. Stores(p, chain, succ)'
    BY <1>1, <1>3, <1>4, <2>0 DEF Stores
  <2>2. \A k : KeySame(k, chain, chain)
    BY <1>3, <1>6 DEF KeySame, Has
  <2>3. \A k \in Keys \ {Key(p)'} : Hash[k] = Chain(p)' => Content(chain, k, before[k])'
    BY <1>1, <1>2, <2>2, OtherKeys DEF At
  <2>4. /\ NoRecord(chain, Key(p))
        /\ req[p].op = "insert" => before[Key(p)] = None
        /\ req[p].op = "replace" => before[Key(p)] # None
    BY <1>2 DEF At, Changes
  <2>5. NoRecord(chain, Key(p))'
    <3>1. NoRecord(chain, Key(p))' = NoRecord(chain, Key(p))
      BY <1>3, <2>0 DEF NoRecord, Has
    <3> QED BY <2>4, <3>1
  <2>6. Changes(p, chain)'
    BY <1>1, <2>0, <2>3, <2>4, <2>5 DEF Changes
  <2> QED BY <1>1, <1>5, <2>1, <2>6 DEF At, Walks, Deletes, Holds, Looks, Returns
<1> QED BY <1>8, <1>9, <1>10, <1>11, DatPasses

(* Over the data of the key that is stored.                                *)
LEMMA OverwriteSafe ==
  ASSUME NEW chain, NEW rank, NEW succ, Good(chain, rank, succ), NEW p \in Procs,
         NEW x, NEW hp, NEW w, WritesDat(p, x, hp, w), x = h[p].datoff, w = DataNext(where[p]),
         where[p] = "overwrite", result'[p] = 0
  PROVE  Passes(p, chain, rank, succ)
<1>0. PICK n : n = h[p].idxoff
  OBVIOUS
<1>1. /\ DatWritten(x, Written(p)) /\ Alone(p) /\ UNCHANGED <<req, before>>
      /\ Written(p).data = New(p) /\ h'[p] = hp /\ where'[p] = "return"
  BY DEF WritesDat, DataNext
<1>2. /\ Hands /\ Records(chain) /\ Distinct(chain) /\ At(p, chain, rank, succ) /\ Writer(p)
      /\ \A q \in Procs : q # p => /\ Holding(q)' = Holding(q) /\ NewData(q)' = NewData(q)
                                   /\ h'[q] = h[q] /\ where'[q] = where[q]
      /\ CallTypes /\ InPlace /\ req[p].op \in Ops("overwrite")
  BY Basics, DatRest, CallKnown
<1>3. /\ idx' = idx /\ DOMAIN dat \subseteq DOMAIN dat' /\ dat'[x] = Written(p)
      /\ \A y \in DOMAIN dat : y # x => dat'[y] = dat[y]
  BY <1>1 DEF DatWritten
<1>K. /\ Hash[Key(p)] = Chain(p) /\ Chain(p) > 0 /\ Key(p) \in Keys
      /\ New(p) \in Data
  <2>1. req[p].op \in Storing
    BY <1>2 DEF Ops, Storing
  <2> QED BY <1>2, <2>1, InChain, CallKnown DEF Chained
<1>4. /\ n \in DOMAIN idx /\ Has(chain, Key(p), n) /\ x = idx[n].dat /\ x \in DOMAIN dat
      /\ idx[n].len = DatLen[New(p)] /\ chain[n] = Chain(p)
  <2>1. /\ n \in DOMAIN idx /\ Has(chain, Key(p), n) /\ x = idx[n].dat
        /\ idx[n].len = DatLen[New(p)]
    BY <1>0, <1>2 DEF At, Stores, HasFound
  <2> QED BY <1>2, <1>K, <2>1 DEF Records, Has
<1>5. ~Holding(p) /\ ~NewData(p) /\ ~Holding(p)' /\ ~NewData(p)'
  BY <1>1 DEF Holding, NewData
<1>6. \A m \in DOMAIN idx : m # n => idx[m].dat # x
  BY <1>2, <1>4 DEF Distinct
<1>7. Mine(p, chain, n)
  BY <1>2, <1>4 DEF Mine
<1>8. Frame(p, chain, rank, succ, chain, rank, succ)
  <2>1. \A m \in DOMAIN idx : ~Mine(p, chain, m) => idx[m].dat # x
    BY <1>6, <1>7
  <2>2. \A q \in Procs : q # p /\ NewData(q) => h[q].datoff # x
    BY <1>2, <1>4 DEF Hands
  <2> QED BY <1>4, <2>1, <2>2, DatFrame
<1>9. Hands'
  <2>1. \A q \in Procs : Holding(q)' => Holding(q) /\ h'[q] = h[q]
    BY <1>2, <1>5
  <2>2. \A q \in Procs : NewData(q)' => NewData(q) /\ h'[q] = h[q]
    BY <1>2, <1>5
  <2>3. \A q \in Procs : NewData(q)' =>
       /\ h'[q].datoff \in DOMAIN dat'
       /\ \A m \in DOMAIN idx' : idx'[m].dat # h'[q].datoff
    BY <1>2, <1>3, <2>2 DEF Hands
  <2>4. \A q, t \in Procs : q # t /\ NewData(q)' /\ NewData(t)' => h'[q].datoff # h'[t].datoff
    BY <1>2, <2>2 DEF Hands
  <2>5. \A q, t \in Procs : q # t /\ Holding(q)' /\ Holding(t)' => h'[q].idxoff # h'[t].idxoff
    BY <1>2, <2>1 DEF Hands
  <2> QED BY <2>3, <2>4, <2>5 DEF Hands
<1>10. Records(chain)'
  <2>1. ASSUME NEW m \in DOMAIN idx' PROVE RecordOf(m, chain)'
    <3>1. m \in DOMAIN idx
      BY <1>3, <2>1
    <3>2. RecordOf(m, chain)
      BY <1>2, <3>1 DEF Records, RecordOf
    <3>3. idx[m].dat \in DOMAIN dat
      BY <3>2 DEF RecordOf
    <3>4. CASE m = n
      <4>1. /\ idx[m].dat \in DOMAIN dat' /\ idx[m].key \in Keys /\ Hash[idx[m].key] = chain[m]
            /\ KeyLen[idx[m].key] = idx[m].klen
        BY <1>3, <1>4, <1>K, <3>2, <3>3, <3>4 DEF RecordOf
      <4>2. dat'[idx[m].dat].data \in Data /\ DatLen[dat'[idx[m].dat].data] = idx[m].len
        BY <1>1, <1>3, <1>4, <1>K, <3>4
      <4>3. ~(chain[m] = 0) /\ ~(chain[m] < 0)
        <5>1. chain[m] = Chain(p) /\ Chain(p) \in Int
          BY <1>2, <1>4, <3>4, InChain DEF Chained
        <5> QED BY ONLY <1>K, <5>1
      <4> QED BY <1>3, <4>1, <4>2, <4>3 DEF RecordOf
    <3>5. CASE m # n
      <4>1. dat'[idx[m].dat] = dat[idx[m].dat]
        BY <1>3, <1>6, <3>1, <3>3, <3>5
      <4>2. \A q \in Procs : where[q] = "blank_idx" /\ h[q].idxoff = m =>
                             where'[q] = "blank_idx" /\ h'[q].idxoff = m
        BY <1>2
      <4>3. \A q \in Procs : Holding(q) /\ h[q].idxoff = m => Holding(q)' /\ h'[q].idxoff = m
        BY <1>2, <1>5
      <4> QED BY <1>3, <3>1, <3>2, <3>3, <4>1, <4>2, <4>3, RecordStays
    <3> QED BY <3>4, <3>5
  <2> QED BY <2>1, RecordsStay
<1>11. At(p, chain, rank, succ)'
  <2>0. /\ Key(p)' = Key(p) /\ New(p)' = New(p) /\ Chain(p)' = Chain(p)
        /\ before'[Key(p)'] = before[Key(p)] /\ req'[p] = req[p]
    BY <1>1, OwnKey
  <2>1. ASSUME NEW k \in Keys \ {Key(p)} PROVE KeySame(k, chain, chain)
    <3>1. \A m \in DOMAIN idx : Has(chain, k, m) => m # n
      BY <1>4 DEF Has
    <3>2. \A m \in DOMAIN idx : Has(chain, k, m) => dat'[idx[m].dat] = dat[idx[m].dat]
      BY <1>2, <1>3, <1>6, <3>1 DEF Records
    <3> QED BY <1>3, <3>2 DEF KeySame, Has
  <2>2. \A k \in Keys \ {Key(p)'} : Hash[k] = Chain(p)' => Content(chain, k, before[k])'
    BY <1>1, <1>2, <2>1, OtherKeys DEF At
  <2>3. before[Key(p)] # None
    BY <1>2 DEF At, Changes
  <2>4. Content(chain, Key(p), New(p))'
    <3>1. \A m \in DOMAIN idx : Has(chain, Key(p), m) => m = n
      BY <1>2, <1>4, <1>K DEF Distinct, Has
    <3>2. dat'[idx[n].dat].data = New(p) /\ New(p) # None
      BY <1>1, <1>3, <1>4, <1>K, DbAssumption
    <3>3. PICK k, v : k = Key(p) /\ v = New(p)
      OBVIOUS
    <3>4. Content(chain, k, v)'
      BY <1>3, <1>4, <3>1, <3>2, <3>3 DEF Content, Has
    <3> QED BY <2>0, <3>3, <3>4 DEF Content, Has
  <2>5. Returns(p, chain)'
    BY <1>1, <1>2, <2>0, <2>3, <2>4 DEF Returns, Answers, Ops
  <2>6. Changes(p, chain)'
    BY <1>1, <2>2 DEF Changes
  <2> QED BY <1>1, <1>5, <2>5, <2>6 DEF At, Walks, Deletes, Stores, Holds, Looks
<1> QED BY <1>8, <1>9, <1>10, <1>11, DatPasses

LEMMA WriteDataSafe ==
  ASSUME NEW chain, NEW rank, NEW succ, Good(chain, rank, succ), NEW p \in Procs, WriteData(p)
  PROVE  Passes(p, chain, rank, succ)
<1>1. PICK x, hp, w :
           /\ WritesDat(p, x, hp, w) /\ x = h[p].datoff
           /\ w = (IF where[p] = "write_data" THEN "write_idx"
                   ELSE IF where[p] = "write_end_data" THEN "append_idx" ELSE "return")
           /\ where[p] = "overwrite" => result'[p] = 0
  BY WriteDataIs
<1>2. w = DataNext(where[p])
  BY <1>1 DEF DataNext
<1>3. where[p] \in {"write_data", "write_end_data", "overwrite"}
  BY DEF WriteData
<1>4. CASE where[p] = "write_data"
  BY <1>1, <1>2, <1>4, WriteHeldSafe
<1>5. CASE where[p] = "write_end_data"
  BY <1>1, <1>2, <1>5, WriteEndSafe
<1>6. CASE where[p] = "overwrite"
  BY <1>1, <1>2, <1>6, OverwriteSafe
<1> QED BY <1>3, <1>4, <1>5, <1>6

(* An index record that is on no list is written, and nothing else.        *)
IdxWritten(n, rec) ==
  /\ dat' = dat /\ head' = head
  /\ idx' \in Seq(IdxRecords) /\ DOMAIN idx \subseteq DOMAIN idx'
  /\ n \in DOMAIN idx' /\ idx'[n] = rec
  /\ \A m \in DOMAIN idx' : m # n => m \in DOMAIN idx /\ idx'[m] = idx[m]
  /\ n \in DOMAIN idx => Len(idx') = Len(idx)
  /\ n \notin DOMAIN idx => Len(idx') = Len(idx) + 1

LEMMA IdxWrites ==
  ASSUME RecordTypes, NEW n \in Nat, n > 0, n <= Len(idx) + 1, NEW rec \in IdxRecords,
         idx' = Put(idx, n, rec), dat' = dat, head' = head
  PROVE  IdxWritten(n, rec)
<1>1. idx \in Seq(IdxRecords) /\ DOMAIN idx = 1 .. Len(idx) /\ Len(idx) \in Nat
  BY FilesKnown DEF RecordTypes
<1>2. CASE n > Len(idx)
  <2>1. n = Len(idx) + 1 /\ n \notin DOMAIN idx
    BY <1>1, <1>2
  <2>2. idx' = Append(idx, rec)
    BY <1>2 DEF Put
  <2>3. /\ idx' \in Seq(IdxRecords) /\ DOMAIN idx' = 1 .. (Len(idx) + 1) /\ Len(idx') = Len(idx) + 1
        /\ idx'[Len(idx) + 1] = rec /\ \A m \in 1 .. Len(idx) : idx'[m] = idx[m]
    <3>1. PICK s : s = idx
      OBVIOUS
    <3>2. PICK t : t = Append(s, rec)
      OBVIOUS
    <3>3. s \in Seq(IdxRecords) /\ idx' = t
      BY <1>1, <2>2, <3>1, <3>2
    <3>4. t \in Seq(IdxRecords) /\ Len(t) = Len(s) + 1
      BY <3>2, <3>3
    <3>5. t[Len(s) + 1] = rec /\ \A m \in 1 .. Len(s) : t[m] = s[m]
      BY <3>2, <3>3
    <3> QED BY <3>1, <3>3, <3>4, <3>5
  <2>4. DOMAIN idx \subseteq DOMAIN idx' /\ n \in DOMAIN idx'
    BY <1>1, <2>1, <2>3
  <2>5. \A m \in DOMAIN idx' : m # n => m \in DOMAIN idx
    BY <1>1, <2>1, <2>3
  <2> QED BY <1>1, <2>1, <2>3, <2>4, <2>5 DEF IdxWritten
<1>3. CASE ~(n > Len(idx))
  <2>1. n \in DOMAIN idx
    BY <1>1, <1>3
  <2>2. idx' = [idx EXCEPT ![n] = rec]
    BY <1>3 DEF Put
  <2>3. /\ idx' \in Seq(IdxRecords) /\ DOMAIN idx' = DOMAIN idx /\ Len(idx') = Len(idx)
        /\ idx'[n] = rec /\ \A m \in DOMAIN idx : m # n => idx'[m] = idx[m]
    <3>1. PICK s : s = idx
      OBVIOUS
    <3>2. PICK t : t = [s EXCEPT ![n] = rec]
      OBVIOUS
    <3>3. s \in Seq(IdxRecords) /\ n \in DOMAIN s /\ idx' = t
      BY <1>1, <2>1, <2>2, <3>1, <3>2
    <3>4. t \in Seq(IdxRecords) /\ Len(t) = Len(s)
      BY <3>2, <3>3
    <3>5. DOMAIN t = DOMAIN s /\ t[n] = rec /\ \A m \in DOMAIN s : m # n => t[m] = s[m]
      BY <3>2, <3>3
    <3> QED BY <3>1, <3>3, <3>4, <3>5
  <2> QED BY <2>1, <2>3 DEF IdxWritten
<1> QED BY <1>2, <1>3

(* What p knows of the record it is about to write.                        *)
WritesIdx(p, chain, succ, n, rec) ==
  /\ IdxWritten(n, rec) /\ n = h[p].idxoff /\ n \in Int /\ n > 0 /\ chain[n] < 0
  /\ rec.ptr = succ[-Chain(p)] /\ h[p].save = rec.ptr /\ rec.key = Key(p) /\ rec.klen = KeyLen[Key(p)]
  /\ rec.dat = h[p].datoff /\ rec.dat \in DOMAIN dat /\ rec.len = DatLen[New(p)]
  /\ dat[rec.dat].data = New(p)
  /\ Moves(p, "link") /\ Alone(p) /\ h' = h /\ where'[p] = "link" /\ Goes(p, "link")
  /\ tail' = [tail EXCEPT !["idx"] = @ \ {p}] /\ rlock' = rlock /\ wlock' = wlock
  /\ UNCHANGED <<req, before>> /\ result' = result
  /\ n \in DOMAIN idx => idx[n].key = Blank /\ idx[n].dat = rec.dat
  /\ n \notin DOMAIN idx => where[p] = "write_end_idx"
  /\ \A q \in Procs : q # p /\ Holding(q) => h[q].idxoff # n
  /\ \A m \in DOMAIN idx : m # n => idx[m].dat # rec.dat
  /\ \A q \in Procs : q # p /\ NewData(q) => h[q].datoff # rec.dat

LEMMA WriteIdxIs ==
  ASSUME NEW chain, NEW rank, NEW succ, Good(chain, rank, succ), NEW p \in Procs, WriteIdx(p)
  PROVE  \E n, rec : WritesIdx(p, chain, succ, n, rec)
<1>0. PICK n, rec : /\ n = h[p].idxoff
                    /\ rec = [ptr |-> h[p].save, key |-> Key(p), klen |-> KeyLen[Key(p)],
                              dat |-> h[p].datoff, len |-> h[p].datlen]
  OBVIOUS
<1>1. /\ where[p] \in {"write_idx", "write_end_idx"} /\ idx' = Put(idx, n, rec)
      /\ tail' = [tail EXCEPT !["idx"] = @ \ {p}] /\ Goes(p, "link")
      /\ head' = head /\ dat' = dat /\ rlock' = rlock /\ wlock' = wlock /\ h' = h
      /\ UNCHANGED <<req, before>> /\ result' = result
  BY <1>0 DEF WriteIdx, Key
<1>2. /\ RecordTypes /\ CallTypes /\ InPlace /\ At(p, chain, rank, succ) /\ Records(chain) /\ Distinct(chain)
      /\ h[p] \in Handles /\ Fields(h[p]) /\ req[p].op \in Ops(where[p]) /\ Hands
      /\ Len(idx) \in Nat /\ DOMAIN idx = 1 .. Len(idx)
  BY Basics, CallKnown
<1>3. Key(p) \in Keys /\ KeyLen[Key(p)] \in Nat
  <2>1. req[p].op \in Keyed
    BY <1>1, InChain DEF Chained
  <2> QED BY <1>2, <2>1, CallKnown
<1>4. /\ rec \in IdxRecords /\ rec.ptr = h[p].save /\ rec.key = Key(p) /\ rec.klen = KeyLen[Key(p)]
      /\ rec.dat = h[p].datoff /\ rec.len = h[p].datlen
  BY <1>0, <1>2, <1>3 DEF IdxRecords, Fields
<1>5. h[p].save = succ[-Chain(p)] /\ h[p].datlen = DatLen[New(p)] /\ dat[h[p].datoff].data = New(p)
  BY <1>1, <1>2 DEF At, Stores
<1>6. Moves(p, "link") /\ Alone(p) /\ where'[p] = "link"
  <2>1. Moves(p, "link")
    BY <1>1, <1>2, Going DEF Wheres, Chained
  <2> QED BY <1>1, <2>1 DEF Moves, Alone
<1>7. CASE where[p] = "write_idx"
  <2>1. n \in DOMAIN idx /\ chain[n] < 0 /\ idx[n].key = Blank /\ rec.dat = idx[n].dat /\ Holding(p)
    BY <1>0, <1>2, <1>4, <1>7 DEF At, Stores, Holds, Holding
  <2>2. n \in Nat /\ n \in Int /\ n > 0 /\ n <= Len(idx) + 1
    BY <1>2, <2>1
  <2>3. IdxWritten(n, rec)
    BY <1>1, <1>2, <1>4, <2>2, IdxWrites
  <2>4. \A q \in Procs : q # p /\ Holding(q) => h[q].idxoff # n
    BY <1>0, <1>2, <2>1 DEF Hands
  <2>5. \A m \in DOMAIN idx : m # n => idx[m].dat # rec.dat
    BY <1>2, <2>1 DEF Distinct
  <2>6. \A q \in Procs : q # p /\ NewData(q) => h[q].datoff # rec.dat
    BY <1>2, <2>1 DEF Hands
  <2>7. rec.dat \in DOMAIN dat
    BY <1>2, <2>1 DEF Records
  <2>8. WritesIdx(p, chain, succ, n, rec)
    BY <1>0, <1>1, <1>4, <1>5, <1>6, <2>1, <2>2, <2>3, <2>4, <2>5, <2>6, <2>7 DEF WritesIdx
  <2> QED BY <2>8
<1>8. CASE where[p] = "write_end_idx"
  <2>1. n = Len(idx) + 1
    BY <1>0, <1>2, <1>8 DEF At, Stores
  <2>2. n \in Nat /\ n \in Int /\ n > 0 /\ n <= Len(idx) + 1 /\ n \notin DOMAIN idx
    BY <1>2, <2>1
  <2>3. IdxWritten(n, rec)
    BY <1>1, <1>2, <1>4, <2>2, IdxWrites
  <2>4. \A q \in Procs : q # p /\ Holding(q) => h[q].idxoff # n
    BY <2>2, Basics DEF At, Holds
  <2>5. NewData(p)
    BY <1>8 DEF NewData
  <2>6. \A m \in DOMAIN idx : idx[m].dat # rec.dat
    BY <1>2, <1>4, <2>5 DEF Hands
  <2>7. \A q \in Procs : q # p /\ NewData(q) => h[q].datoff # rec.dat
    BY <1>2, <1>4, <2>5 DEF Hands
  <2>8. rec.dat \in DOMAIN dat
    BY <1>2, <1>4, <2>5 DEF Hands
  <2>9. chain[n] < 0
    BY <2>2, Outside
  <2>10. WritesIdx(p, chain, succ, n, rec)
    BY <1>0, <1>1, <1>4, <1>5, <1>6, <1>8, <2>2, <2>3, <2>4, <2>6, <2>7, <2>8, <2>9 DEF WritesIdx
  <2> QED BY <2>10
<1> QED BY <1>1, <1>7, <1>8

LEMMA WriteIdxSafe ==
  ASSUME NEW chain, NEW rank, NEW succ, Good(chain, rank, succ), NEW p \in Procs, WriteIdx(p)
  PROVE  Passes(p, chain, rank, succ)
<1>0. PICK n, rec : WritesIdx(p, chain, succ, n, rec)
  BY WriteIdxIs
<1>1. /\ IdxWritten(n, rec) /\ n = h[p].idxoff /\ n \in Int /\ n > 0 /\ chain[n] < 0
      /\ rec.ptr = succ[-Chain(p)] /\ h[p].save = rec.ptr /\ rec.key = Key(p) /\ rec.klen = KeyLen[Key(p)]
      /\ rec.dat = h[p].datoff /\ rec.dat \in DOMAIN dat /\ rec.len = DatLen[New(p)]
      /\ dat[rec.dat].data = New(p)
      /\ Moves(p, "link") /\ Alone(p) /\ h' = h /\ where'[p] = "link"
      /\ tail' = [tail EXCEPT !["idx"] = @ \ {p}] /\ rlock' = rlock /\ wlock' = wlock
      /\ UNCHANGED <<req, before>> /\ result' = result
      /\ n \in DOMAIN idx => idx[n].key = Blank /\ idx[n].dat = rec.dat
      /\ n \notin DOMAIN idx => where[p] = "write_end_idx"
      /\ \A q \in Procs : q # p /\ Holding(q) => h[q].idxoff # n
      /\ \A m \in DOMAIN idx : m # n => idx[m].dat # rec.dat
      /\ \A q \in Procs : q # p /\ NewData(q) => h[q].datoff # rec.dat
  BY <1>0 DEF WritesIdx
<1>2. /\ Base /\ CallTypes /\ RecordTypes /\ InPlace /\ Hands /\ Pointers(chain, succ)
      /\ Records(chain) /\ Distinct(chain) /\ Lists(chain, rank, succ, Len(idx))
      /\ Ghosts(chain, rank, succ) /\ Excluded
      /\ DOMAIN idx = 1 .. Len(idx) /\ Len(idx) \in Nat /\ At(p, chain, rank, succ)
      /\ req[p].op \in Ops(where[p])
      /\ \A i \in Int : chain[i] \in Int /\ rank[i] \in Int /\ succ[i] \in Int
  BY Basics, CallKnown
<1>3. where[p] \in {"write_idx", "write_end_idx"}
  BY DEF WriteIdx
<1>4. /\ Hash[Key(p)] = Chain(p) /\ Chain(p) > 0 /\ head # <<>> /\ Key(p) \in Keys
  BY <1>3, InChain DEF Chained
<1>5. /\ dat' = dat /\ head' = head
      /\ idx' \in Seq(IdxRecords) /\ DOMAIN idx \subseteq DOMAIN idx'
      /\ n \in DOMAIN idx' /\ idx'[n] = rec
      /\ \A m \in DOMAIN idx' : m # n => m \in DOMAIN idx /\ idx'[m] = idx[m]
      /\ n \in DOMAIN idx => Len(idx') = Len(idx)
      /\ n \notin DOMAIN idx => Len(idx') = Len(idx) + 1
  BY <1>1 DEF IdxWritten
<1>6. Writer(p) /\ Mine(p, chain, n)
  BY <1>1, <1>2, <1>3, Deleting DEF Mine
<1>7. \A i \in Int : i # n => ReadPtr(i)' = ReadPtr(i) \/ ~InFiles(i)
  <2> SUFFICES ASSUME NEW i \in Int, i # n, InFiles(i) PROVE ReadPtr(i)' = ReadPtr(i)
    OBVIOUS
  <2>1. CASE i > 0
    <3>1. i \in DOMAIN idx
      BY <2>1 DEF InFiles
    <3>2. idx'[i] = idx[i]
      BY <1>5, <3>1
    <3> QED BY <2>1, <3>2 DEF ReadPtr
  <2>2. CASE ~(i > 0)
    BY <1>5, <2>2 DEF ReadPtr
  <2> QED BY <2>1, <2>2
<1>8. Frame(p, chain, rank, succ, chain, rank, succ)
  <2>1. Grows
    BY <1>5 DEF Grows
  <2>2. \A i \in Int : Mine(p, chain, i) =>
           chain[i] < 0 \/ (Writer(p) /\ chain[i] = Chain(p)) \/ (Freeing(p) /\ chain[i] = 0)
    BY DEF Mine
  <2>3. \A i \in Int : ~Mine(p, chain, i) => ReadPtr(i)' = ReadPtr(i)
    BY <1>6, <1>7, Valid DEF InFiles
  <2>4. \A m \in DOMAIN idx : m # n => idx'[m] = idx[m]
    BY <1>5
  <2>5. \A m \in DOMAIN idx : ~Mine(p, chain, m) => idx'[m] = idx[m] /\ dat'[idx[m].dat] = dat[idx[m].dat]
    BY <1>5, <1>6, <2>4
  <2>6. \A m \in DOMAIN idx : idx[m].key # Blank => idx'[m].key = idx[m].key /\ idx'[m].dat = idx[m].dat
    BY <1>1, <2>4
  <2>7. \A q \in Procs : q # p /\ where[q] = "write_end_idx" => Len(idx') = Len(idx)
    BY <1>1, <1>2, <1>5 DEF Excluded
  <2>8. dat' = dat /\ Len(dat') = Len(dat) /\ before' = before
    BY <1>1, <1>5
  <2> QED BY <1>1, <2>1, <2>2, <2>3, <2>5, <2>6, <2>7, <2>8 DEF Frame
<1>9. Base'
  <2>1. RecordTypes'
    BY <1>2, <1>5 DEF RecordTypes
  <2>2. /\ h' \in [Procs -> Handles] /\ DOMAIN result' = Procs /\ req[p].op \in Ops("link")
        /\ where[p] \notin {"closed", "create"} /\ UNCHANGED <<req, before>> /\ head' = head
        /\ "link" \in Wheres
    BY <1>1, <1>2, <1>3, <1>5 DEF CallTypes, Ops, Wheres, Chained
  <2>3. LockTypes' /\ Locked' /\ Excluded'
    <3>1. PICK f \in {"idx", "dat"} : f = "idx"
      OBVIOUS
    <3>0. PICK w : w = "link"
      OBVIOUS
    <3>2. /\ tail' = [tail EXCEPT ![f] = @ \ {p}] /\ Moves(p, w) /\ w \in Wheres
          /\ where[p] \in (IF f = "idx" THEN {"write_idx", "write_end_idx"}
                           ELSE {"write_data", "write_end_data", "overwrite"})
          /\ w \in (IF f = "idx" THEN {"link"} ELSE {"write_idx", "append_idx", "return"})
      BY <1>1, <1>3, <2>2, <3>0, <3>1
    <3> QED BY <1>1, <1>2, <3>1, <3>2, LeavesEnd
  <2> QED BY <1>1, <1>2, <2>1, <2>2, <2>3, OuterBase
<1>10. /\ \A q \in Procs : q # p => Holding(q)' = Holding(q) /\ NewData(q)' = NewData(q)
       /\ Holding(p)' /\ ~NewData(p)'
  BY <1>1 DEF Alone, Holding, NewData
<1>11. \A m \in DOMAIN idx : idx'[m].dat = idx[m].dat
  BY <1>1, <1>5
<1>12. Hands'
  <2>1. \A q, t \in Procs : q # t /\ Holding(q)' /\ Holding(t)' => h'[q].idxoff # h'[t].idxoff
    BY <1>1, <1>2, <1>10 DEF Hands
  <2>2. \A q \in Procs : NewData(q)' => NewData(q) /\ q # p
    BY <1>10
  <2>3. \A q \in Procs : NewData(q)' =>
       /\ h'[q].datoff \in DOMAIN dat'
       /\ \A m \in DOMAIN idx' : idx'[m].dat # h'[q].datoff
    <3> SUFFICES ASSUME NEW q \in Procs, NewData(q)'
                 PROVE  /\ h[q].datoff \in DOMAIN dat
                        /\ \A m \in DOMAIN idx' : idx'[m].dat # h[q].datoff
      BY <1>1, <1>5
    <3>1. h[q].datoff \in DOMAIN dat /\ \A m \in DOMAIN idx : idx[m].dat # h[q].datoff
      BY <1>2, <2>2 DEF Hands
    <3>2. idx'[n].dat # h[q].datoff
      BY <1>1, <1>5, <2>2
    <3> QED BY <1>5, <3>1, <3>2
  <2>4. \A q, t \in Procs : q # t /\ NewData(q)' /\ NewData(t)' => h'[q].datoff # h'[t].datoff
    BY <1>1, <1>2, <2>2 DEF Hands
  <2> QED BY <2>1, <2>3, <2>4 DEF Hands
<1>13. Pointers(chain, succ)'
  <2>1. \A i : Bypassed(i) => Bypassed(i)'
    BY <1>1, <1>3 DEF Bypassed, Alone
  <2>2. ASSUME NEW i \in Int, chain[i] >= 0 PROVE ReadPtr(i)' = succ[i] \/ Bypassed(i)'
    <3>1. i # n
      BY <1>1, <1>2, <2>2
    <3>2. InFiles(i)
      BY <1>4, <2>2, Place DEF InFiles
    <3> QED BY <1>2, <1>4, <1>7, <2>1, <2>2, <3>1, <3>2 DEF Pointers
  <2> QED BY <1>4, <1>5, <2>2 DEF Pointers
<1>14. Records(chain)'
  <2>1. ASSUME NEW m \in DOMAIN idx' PROVE RecordOf(m, chain)'
    <3>1. CASE m = n
      <4>1. ~(chain[n] = 0) /\ ~(chain[n] > 0)
        <5>1. chain[n] \in Int /\ chain[n] < 0
          BY <1>1, <1>2
        <5> QED BY ONLY <5>1
      <4>2. Holding(p)' /\ h'[p].idxoff = n /\ idx'[n].dat \in DOMAIN dat'
        BY <1>1, <1>5, <1>10
      <4> QED BY <3>1, <4>1, <4>2 DEF RecordOf
    <3>2. CASE m # n
      <4>1. m \in DOMAIN idx /\ idx'[m] = idx[m]
        BY <1>5, <2>1, <3>2
      <4>2. RecordOf(m, chain)
        BY <1>2, <4>1 DEF Records, RecordOf
      <4>3. idx[m].dat \in DOMAIN dat
        BY <4>2 DEF RecordOf
      <4>4. \A q \in Procs : where[q] = "blank_idx" /\ h[q].idxoff = m =>
                             where'[q] = "blank_idx" /\ h'[q].idxoff = m
        BY <1>1, <1>3 DEF Alone
      <4>5. \A q \in Procs : Holding(q) /\ h[q].idxoff = m => Holding(q)' /\ h'[q].idxoff = m
        BY <1>1, <1>10
      <4> QED BY <1>5, <4>1, <4>2, <4>3, <4>4, <4>5, RecordStays
    <3> QED BY <3>1, <3>2
  <2> QED BY <2>1, RecordsStay
<1>15. Distinct(chain)'
  <2> SUFFICES ASSUME NEW l \in DOMAIN idx', NEW m \in DOMAIN idx', l # m
               PROVE  /\ idx'[l].dat # idx'[m].dat
                      /\ chain[l] = chain[m] /\ chain[l] > 0 => idx'[l].key # idx'[m].key
    BY DEF Distinct
  <2>1. CASE l = n
    <3>1. m \in DOMAIN idx /\ idx'[m] = idx[m] /\ idx'[l] = rec /\ m # n
      BY <1>5, <2>1
    <3>2. ~(chain[l] > 0)
      <4>1. chain[l] \in Int /\ chain[l] < 0
        BY <1>1, <1>2, <2>1
      <4> QED BY ONLY <4>1
    <3> QED BY <1>1, <3>1, <3>2
  <2>2. CASE m = n
    <3>1. l \in DOMAIN idx /\ idx'[l] = idx[l] /\ idx'[m] = rec /\ l # n
      BY <1>5, <2>2
    <3>2. ~(chain[m] > 0)
      <4>1. chain[m] \in Int /\ chain[m] < 0
        BY <1>1, <1>2, <2>2
      <4> QED BY ONLY <4>1
    <3> QED BY <1>1, <3>1, <3>2
  <2>3. CASE l # n /\ m # n
    <3>1. l \in DOMAIN idx /\ idx'[l] = idx[l] /\ m \in DOMAIN idx /\ idx'[m] = idx[m]
      BY <1>5, <2>3
    <3> QED BY <1>2, <3>1 DEF Distinct
  <2> QED BY <2>1, <2>2, <2>3
<1>16. Lists(chain, rank, succ, Len(idx'))
  <2>1. CASE n \in DOMAIN idx
    BY <1>2, <1>5, <2>1
  <2>2. CASE n \notin DOMAIN idx
    <3>1. chain \in [Int -> Int] /\ rank \in [Int -> Int] /\ succ \in [Int -> Int]
      BY <1>2 DEF Ghosts
    <3>2. Lists(chain, rank, succ, Len(idx) + 1)
      BY <1>2, <3>1, Longer
    <3> QED BY <1>5, <2>2, <3>2
  <2> QED BY <2>1, <2>2
<1>17. At(p, chain, rank, succ)'
  <2>0. /\ Key(p)' = Key(p) /\ New(p)' = New(p) /\ Chain(p)' = Chain(p)
        /\ before'[Key(p)'] = before[Key(p)] /\ req'[p] = req[p]
    BY <1>1, OwnKey
  <2>1. Stores(p, chain, succ)'
    BY <1>1, <2>0 DEF Stores
  <2>2. Holds(p, chain)'
    BY <1>1, <1>5, <1>10, <2>0 DEF Holds
  <2>3. ASSUME NEW k \in Keys PROVE KeySame(k, chain, chain)
    <3>1. chain[n] # Hash[k]
      <4>1. Hash[k] \in Int /\ Hash[k] > 0
        BY DbAssumption
      <4> QED BY <1>1, <1>2, <4>1
    <3>2. \A m \in DOMAIN idx' : chain[m] = Hash[k] => m \in DOMAIN idx /\ idx'[m] = idx[m]
      BY <1>5, <3>1
    <3>3. \A m \in DOMAIN idx : chain[m] = Hash[k] => m \in DOMAIN idx' /\ idx'[m] = idx[m]
      BY <1>5, <3>1
    <3> QED BY <1>5, <3>2, <3>3 DEF KeySame, Has
  <2>4. \A k \in Keys \ {Key(p)'} : Hash[k] = Chain(p)' => Content(chain, k, before[k])'
    BY <1>1, <1>2, <1>6, <2>3, OtherKeys DEF At
  <2>5. /\ NoRecord(chain, Key(p))
        /\ req[p].op = "insert" => before[Key(p)] = None
        /\ req[p].op = "replace" => before[Key(p)] # None
    <3>1. Changes(p, chain)
      BY <1>2 DEF At
    <3> QED BY <1>2, <1>3, <1>6, <3>1 DEF Changes, Ops
  <2>6. NoRecord(chain, Key(p))'
    <3>1. PICK k \in Keys : k = Key(p)
      BY <1>4
    <3>2. NoRecord(chain, k)'
      BY <2>3, <2>5, <3>1, StillNone
    <3> QED BY <2>0, <3>1, <3>2 DEF NoRecord, Has
  <2>7. Changes(p, chain)'
    BY <1>1, <2>0, <2>4, <2>5, <2>6 DEF Changes
  <2> QED BY <1>1, <2>1, <2>2, <2>7 DEF At, Walks, Deletes, Looks, Returns
<1> QED BY <1>2, <1>8, <1>9, <1>12, <1>13, <1>14, <1>15, <1>16, <1>17, OuterPasses

(* Put at the front of a list.                                             *)
Prepended(chain, rank, succ, len, b, n, c, r, s) ==
  /\ c[n] = b /\ s[n] = succ[-b] /\ s[-b] = n /\ Ghosts(c, r, s) /\ Lists(c, r, s, len)
  /\ \A i \in Int : i # n => c[i] = chain[i]
  /\ \A i \in Int : i # n /\ i # -b => s[i] = succ[i] /\ r[i] = rank[i]

LEMMA Prepends ==
  ASSUME NEW chain, NEW rank, NEW succ, Ghosts(chain, rank, succ),
         NEW len \in Nat, Lists(chain, rank, succ, len),
         NEW b \in 0 .. NHASH, NEW n \in 1 .. len, chain[n] < 0, n # -b
  PROVE  \E c, r, s : Prepended(chain, rank, succ, len, b, n, c, r, s)
<1>0. PICK hb : hb = -b
  OBVIOUS
<1>1. PICK c, r, s : /\ c = [chain EXCEPT ![n] = b]
                     /\ r = [rank EXCEPT ![n] = rank[hb], ![hb] = rank[hb] + 1]
                     /\ s = [succ EXCEPT ![n] = succ[hb], ![hb] = n]
  OBVIOUS
<1>2. chain \in [Int -> Int] /\ rank \in [Int -> Int] /\ succ \in [Int -> Int]
  BY DEF Ghosts
<1>3. n \in Int /\ hb \in Int /\ b \in Int /\ n # hb /\ succ[hb] \in Int /\ rank[hb] \in Int
  <2>1. b \in Int /\ NHASH \in Int
    BY DbAssumption
  <2> QED BY <1>0, <1>2, <2>1
<1>4. c \in [Int -> Int] /\ c[n] = b /\ \A i \in Int : i # n => c[i] = chain[i]
  BY ONLY <1>1, <1>2, <1>3
<1>5. /\ s \in [Int -> Int] /\ s[n] = succ[hb] /\ s[hb] = n
      /\ \A i \in Int : i # n /\ i # hb => s[i] = succ[i]
  BY ONLY <1>1, <1>2, <1>3
<1>6. PICK m : m = rank[hb] + 1 /\ m \in Int
  BY <1>3
<1>7. r \in [Int -> Int] /\ \A i \in Int : i # n /\ i # hb => r[i] = rank[i]
  <2>1. r = [rank EXCEPT ![n] = rank[hb], ![hb] = m]
    BY <1>1, <1>6
  <2> QED BY ONLY <1>2, <1>3, <1>6, <2>1
<1>8. Lists(c, r, s, len)
  BY <1>0, <1>1, <1>2, Pushed
<1>9. Prepended(chain, rank, succ, len, b, n, c, r, s)
  BY ONLY <1>0, <1>4, <1>5, <1>7, <1>8 DEF Prepended, Ghosts
<1> QED BY <1>9

LEMMA LinkSafe ==
  ASSUME NEW chain, NEW rank, NEW succ, Good(chain, rank, succ), NEW p \in Procs, Link(p)
  PROVE  Passes(p, chain, rank, succ)
<1>0. PICK n, b, hb : n = h[p].idxoff /\ b = Chain(p) /\ hb = -b
  OBVIOUS
<1>2. /\ Base /\ CallTypes /\ RecordTypes /\ InPlace /\ Hands /\ Pointers(chain, succ)
      /\ Records(chain) /\ Distinct(chain) /\ Lists(chain, rank, succ, Len(idx))
      /\ Ghosts(chain, rank, succ) /\ Locked /\ Excluded /\ LockTypes
      /\ DOMAIN idx = 1 .. Len(idx) /\ Len(idx) \in Nat /\ At(p, chain, rank, succ)
      /\ Fields(h[p]) /\ DOMAIN result = Procs
      /\ \A i \in Int : chain[i] \in Int /\ rank[i] \in Int /\ succ[i] \in Int
  BY Basics, CallKnown
<1>1. /\ where[p] = "link" /\ Goes(p, "return") /\ WritePtr(hb, n) /\ h' = h /\ dat' = dat
      /\ UNCHANGED <<locks, req, before>> /\ result' = [result EXCEPT ![p] = 0]
  BY <1>0 DEF Link
<1>3. /\ Hash[Key(p)] = b /\ b > 0 /\ b \in Int /\ b \in 0 .. NHASH /\ head # <<>>
      /\ hb \in Int /\ hb <= 0 /\ -hb = b /\ chain[hb] = b /\ Key(p) \in Keys
      /\ req[p].op \in Ops("link")
  BY <1>0, <1>1, <1>2, InChain, CallKnown DEF Chained
<1>N. New(p) \in Data /\ DatLen[New(p)] \in Nat /\ New(p) # None
  <2>1. req[p].op \in Storing
    BY <1>3 DEF Ops, Storing
  <2> QED BY <1>2, <2>1, CallKnown, DbAssumption
<1>4. /\ n \in DOMAIN idx /\ n \in Int /\ n > 0 /\ n \in Nat /\ chain[n] < 0 /\ n # hb
      /\ idx[n].key = Key(p) /\ idx[n].klen = KeyLen[Key(p)] /\ idx[n].ptr = succ[hb]
      /\ dat[idx[n].dat].data = New(p) /\ idx[n].len = DatLen[New(p)]
      /\ idx[n].dat \in DOMAIN dat
  <2>1. /\ n \in DOMAIN idx /\ chain[n] < 0 /\ idx[n].key = Key(p) /\ idx[n].klen = KeyLen[Key(p)]
        /\ idx[n].ptr = h[p].save /\ h[p].save = succ[hb]
        /\ dat[idx[n].dat].data = New(p) /\ idx[n].len = DatLen[New(p)]
    BY <1>0, <1>1, <1>2 DEF At, Stores, Holds, Holding
  <2>2. n \in Int /\ n > 0 /\ n \in Nat /\ n # hb
    BY <1>2, <1>3, <2>1
  <2> QED BY <1>2, <2>1, <2>2 DEF Records
<1>5. PtrWritten(hb, n)
  <2>1. InFiles(hb)
    BY <1>3 DEF InFiles
  <2> QED BY <1>1, <1>2, <1>3, <1>4, <2>1, PtrWrites
<1>6. /\ idx' = idx /\ head'[b] = n /\ head' # <<>>
      /\ \A j \in Int : j # hb /\ InFiles(j) => ReadPtr(j)' = ReadPtr(j)
  <2>1. ~(hb > 0)
    BY ONLY <1>3
  <2> QED BY <1>1, <1>3, <1>5, <2>1 DEF PtrWritten, WritePtr
<1>8. Moves(p, "return") /\ where'[p] = "return" /\ Alone(p) /\ "return" \in Wheres /\ result'[p] = 0
  <2>1. "return" \in Wheres
    BY DEF Wheres, Chained
  <2>2. Moves(p, "return")
    BY <1>1, <1>2, <2>1, Going
  <2>3. result'[p] = 0 /\ \A q \in Procs : q # p => result'[q] = result[q]
    BY <1>1, <1>2
  <2>4. \A q \in Procs : q # p => h'[q] = h[q] /\ req'[q] = req[q]
    BY <1>1
  <2> QED BY <2>1, <2>2, <2>3, <2>4 DEF Moves, Alone
<1>7. \A q \in Procs : q # p /\ Holding(q) => h[q].idxoff # n
  BY <1>0, <1>1, <1>2 DEF Hands, Holding
<1>9. Writer(p) /\ Holding(p) /\ Mine(p, chain, n) /\ Mine(p, chain, hb)
  BY <1>0, <1>1, <1>2, <1>3, <1>4, <1>7, Deleting DEF Holding, Mine
<1>10. PICK c, r, s : Prepended(chain, rank, succ, Len(idx), b, n, c, r, s)
  <2>1. /\ Ghosts(chain, rank, succ) /\ Len(idx) \in Nat /\ Lists(chain, rank, succ, Len(idx))
        /\ b \in 0 .. NHASH /\ n \in 1 .. Len(idx) /\ chain[n] < 0 /\ n # -b
    BY <1>0, <1>2, <1>3, <1>4
  <2> QED BY ONLY <2>1, Prepends
<1>11. /\ c[n] = b /\ s[n] = succ[hb] /\ s[hb] = n /\ Ghosts(c, r, s) /\ Lists(c, r, s, Len(idx))
       /\ \A i \in Int : i # n => c[i] = chain[i]
       /\ \A i \in Int : i # n /\ i # hb => s[i] = succ[i] /\ r[i] = rank[i]
  BY <1>0, <1>10 DEF Prepended
<1>13. Frame(p, chain, rank, succ, c, r, s)
  <2>1. Grows
    BY <1>1, <1>6 DEF Grows
  <2>2. \A i \in Int : Mine(p, chain, i) =>
           c[i] < 0 \/ (Writer(p) /\ c[i] = Chain(p)) \/ (Freeing(p) /\ c[i] = 0)
    BY <1>0, <1>9, <1>11 DEF Mine
  <2>3. \A i \in Int : ~Mine(p, chain, i) =>
          c[i] = chain[i] /\ r[i] = rank[i] /\ s[i] = succ[i] /\ ReadPtr(i)' = ReadPtr(i)
    BY <1>6, <1>9, <1>11, Valid DEF InFiles
  <2> QED BY <1>1, <1>6, <1>8, <1>9, <2>1, <2>2, <2>3 DEF Frame
<1>14. Base'
  <2>1. RecordTypes'
    BY <1>1, <1>2, <1>5 DEF RecordTypes, PtrWritten
  <2>2. LockTypes' /\ Locked' /\ Excluded'
    BY <1>1, <1>2, <1>8, SameLocks DEF SameRole, Chained
  <2>3. /\ h' \in [Procs -> Handles] /\ DOMAIN result' = Procs /\ req[p].op \in Ops("return")
        /\ where[p] \notin {"closed", "create"} /\ UNCHANGED <<req, before>>
    BY <1>1, <1>2, <1>3 DEF CallTypes, Ops
  <2> QED BY <1>2, <1>6, <1>8, <2>1, <2>2, <2>3, OuterBase
<1>15. /\ \A q \in Procs : q # p => Holding(q)' = Holding(q) /\ NewData(q)' = NewData(q)
       /\ ~Holding(p)' /\ ~NewData(p)'
  BY <1>8 DEF Alone, Holding, NewData
<1>16. Hands'
  <2>1. \A q \in Procs : Holding(q)' => Holding(q)
    BY <1>15
  <2>2. \A q \in Procs : NewData(q)' => NewData(q)
    BY <1>15
  <2>3. h' = h /\ idx' = idx /\ dat' = dat
    BY <1>1, <1>6
  <2> QED BY <1>2, <2>1, <2>2, <2>3 DEF Hands
<1>17. Pointers(c, s)'
  <2>1. \A i : Bypassed(i) => Bypassed(i)'
    BY <1>1, <1>8 DEF Bypassed, Moves
  <2>2. ASSUME NEW i \in Int, c[i] >= 0 PROVE ReadPtr(i)' = s[i] \/ Bypassed(i)'
    <3>1. CASE i = hb
      <4>1. ReadPtr(hb)' = head'[-hb]
        <5>1. ~(hb > 0)
          BY ONLY <1>3
        <5> QED BY <5>1 DEF ReadPtr
      <4> QED BY <1>3, <1>6, <1>11, <3>1, <4>1
    <3>2. CASE i = n
      <4>1. ReadPtr(i)' = idx[n].ptr
        BY <1>4, <1>6, <3>2 DEF ReadPtr
      <4> QED BY <1>4, <1>11, <3>2, <4>1
    <3>3. CASE i # hb /\ i # n
      <4>1. chain[i] >= 0 /\ s[i] = succ[i]
        BY <1>11, <2>2, <3>3
      <4>2. InFiles(i)
        BY <1>3, <4>1, Place DEF InFiles
      <4> QED BY <1>2, <1>3, <1>6, <2>1, <3>3, <4>1, <4>2 DEF Pointers
    <3> QED BY <3>1, <3>2, <3>3
  <2> QED BY <1>6, <2>2 DEF Pointers
<1>18. Records(c)'
  <2>1. ASSUME NEW m \in DOMAIN idx' PROVE RecordOf(m, c)'
    <3>0. m \in Int /\ m \in DOMAIN idx
      BY <1>2, <1>6, <2>1
    <3>1. CASE m = n
      <4>1. ~(b = 0) /\ ~(b < 0)
        BY ONLY <1>3
      <4>2. /\ idx[n].dat \in DOMAIN dat /\ idx[n].key \in Keys /\ Hash[idx[n].key] = b
            /\ KeyLen[idx[n].key] = idx[n].klen
            /\ dat[idx[n].dat].data \in Data /\ DatLen[dat[idx[n].dat].data] = idx[n].len
        BY <1>3, <1>4, <1>N
      <4> QED BY <1>1, <1>6, <1>11, <3>1, <4>1, <4>2 DEF RecordOf
    <3>2. CASE m # n
      <4>0. RecordOf(m, chain)
        BY <1>2, <3>0 DEF Records, RecordOf
      <4>1. c[m] = chain[m]
        BY <1>11, <3>0, <3>2
      <4>2. \A q \in Procs : where[q] = "blank_idx" /\ h[q].idxoff = m =>
                             where'[q] = "blank_idx" /\ h'[q].idxoff = m
        BY <1>1, <1>8 DEF Moves
      <4>3. \A q \in Procs : Holding(q) /\ h[q].idxoff = m => Holding(q)' /\ h'[q].idxoff = m
        BY <1>0, <1>1, <1>15, <3>2
      <4>4. idx[m].dat \in DOMAIN dat
        BY <4>0 DEF RecordOf
      <4> QED BY <1>1, <1>6, <4>0, <4>1, <4>2, <4>3, <4>4, RecordStays
    <3> QED BY <3>1, <3>2
  <2> QED BY <2>1, RecordsStay
<1>K. \A m \in DOMAIN idx : m # n /\ c[m] = b => idx[m].key # Key(p)
  <2>1. NoRecord(chain, Key(p))
    BY <1>1, <1>2, <1>9 DEF At, Changes
  <2>2. \A m \in DOMAIN idx : m \in Int
    BY <1>2
  <2> QED BY <1>3, <1>11, <2>1, <2>2 DEF NoRecord, Has
<1>19. Distinct(c)'
  <2> SUFFICES ASSUME NEW l \in DOMAIN idx, NEW m \in DOMAIN idx, l # m
               PROVE  /\ idx[l].dat # idx[m].dat
                      /\ c[l] = c[m] /\ c[l] > 0 => idx[l].key # idx[m].key
    BY <1>6 DEF Distinct
  <2>1. CASE l = n
    BY <1>2, <1>4, <1>11, <1>K, <2>1 DEF Distinct
  <2>2. CASE m = n
    BY <1>2, <1>4, <1>11, <1>K, <2>2 DEF Distinct
  <2>3. CASE l # n /\ m # n
    <3>1. l \in Int /\ m \in Int
      BY <1>2
    <3>2. c[l] = chain[l] /\ c[m] = chain[m]
      BY <1>11, <2>3, <3>1
    <3> QED BY <1>2, <3>2 DEF Distinct
  <2> QED BY <2>1, <2>2, <2>3
<1>20. At(p, c, r, s)'
  <2>0. /\ Key(p)' = Key(p) /\ New(p)' = New(p) /\ Chain(p)' = Chain(p)
        /\ before'[Key(p)'] = before[Key(p)] /\ req'[p] = req[p]
    BY <1>1, OwnKey
  <2>1. ASSUME NEW k \in Keys \ {Key(p)} PROVE KeySame(k, chain, c)
    <3>1. \A m \in DOMAIN idx : Has(c, k, m)' = Has(chain, k, m)
      <4> SUFFICES ASSUME NEW m \in DOMAIN idx PROVE Has(c, k, m)' = Has(chain, k, m)
        OBVIOUS
      <4>1. CASE m = n
        BY <1>4, <1>6, <4>1 DEF Has
      <4>2. CASE m # n
        <5>1. m \in Int
          BY <1>2
        <5> QED BY <1>6, <1>11, <4>2, <5>1 DEF Has
      <4> QED BY <4>1, <4>2
    <3> QED BY <1>1, <1>6, <3>1 DEF KeySame
  <2>2. \A k \in Keys \ {Key(p)'} : Hash[k] = Chain(p)' => Content(c, k, before[k])'
    BY <1>1, <1>2, <1>9, <2>1, OtherKeys DEF At
  <2>3. /\ req[p].op = "insert" => before[Key(p)] = None
        /\ req[p].op = "replace" => before[Key(p)] # None
    BY <1>1, <1>2, <1>9 DEF At, Changes
  <2>4. Content(c, Key(p), New(p))'
    <3>1. \A m \in DOMAIN idx : c[m] = Hash[Key(p)] /\ idx[m].key = Key(p) => m = n
      BY <1>3, <1>K
    <3>2. c[n] = Hash[Key(p)] /\ idx[n].key = Key(p)
      BY <1>3, <1>4, <1>11
    <3>3. PICK k, v : k = Key(p) /\ v = New(p)
      OBVIOUS
    <3>4. Content(c, k, v)'
      BY <1>1, <1>4, <1>6, <1>N, <3>1, <3>2, <3>3 DEF Content, Has
    <3> QED BY <2>0, <3>3, <3>4 DEF Content, Has
  <2>5. Returns(p, c)'
    BY <1>3, <1>8, <2>0, <2>3, <2>4 DEF Returns, Answers, Ops
  <2>6. Changes(p, c)'
    BY <1>8, <2>2 DEF Changes
  <2> QED BY <1>8, <1>15, <2>5, <2>6 DEF At, Walks, Deletes, Stores, Holds, Looks
<1> QED BY <1>2, <1>6, <1>11, <1>13, <1>14, <1>16, <1>17, <1>18, <1>19, <1>20, OuterPasses

(***************************************************************************)
(* db_open: with O_TRUNC nobody else has the database open, and there is   *)
(* no record yet.                                                          *)
(***************************************************************************)
LEMMA NotOpen ==
  ASSUME NEW p, where[p] \in {"closed", "create", "idle"}
  PROVE  /\ ~Writer(p) /\ ~Reader(p) /\ ~Freeing(p) /\ ~Scanning(p) /\ ~Holding(p) /\ ~NewData(p)
         /\ \A chain, rank, succ : At(p, chain, rank, succ)
<1>1. ~Writer(p) /\ ~Reader(p) /\ ~Freeing(p) /\ ~Scanning(p) /\ ~Holding(p) /\ ~NewData(p)
  BY DEF Writer, Reader, Freeing, Scanning, Holding, NewData, Chained
<1>2. ASSUME NEW chain, NEW rank, NEW succ PROVE At(p, chain, rank, succ)
  <2>1. Walks(p, chain, rank, succ) /\ Deletes(p, chain, succ) /\ Stores(p, chain, succ)
    BY DEF Walks, Deletes, Stores
  <2>2. Holds(p, chain) /\ Looks(p, chain) /\ Changes(p, chain) /\ Returns(p, chain)
    BY <1>1 DEF Holds, Looks, Changes, Returns
  <2> QED BY <2>1, <2>2 DEF At
<1> QED BY <1>1, <1>2

LEMMA TruncateSafe ==
  ASSUME NEW chain, NEW rank, NEW succ, Good(chain, rank, succ), NEW p \in Procs,
         where[p] = "closed", \A q \in Procs : where[q] \in {"closed", "create"},
         head' = <<>>, idx' = <<>>, dat' = <<>>, Goes(p, "create"),
         UNCHANGED <<locks, req, h, result, before>>
  PROVE  Good(chain, rank, succ)'
<1>1. /\ CallTypes /\ InPlace /\ Base /\ Locked /\ Excluded /\ Created /\ req[p].op \in Ops(where[p])
      /\ DbTypes /\ LockTypes
  BY Basics, CallKnown
<1>2. UNCHANGED files /\ head = <<>>
  BY <1>1 DEF Created, files
<1>3. "create" \in Wheres /\ "create" \in Elsewhere /\ where[p] \in Elsewhere
  BY DEF Wheres, Elsewhere
<1>4. Moves(p, "create") /\ Alone(p)
  <2>1. Moves(p, "create")
    BY <1>1, <1>3, Going
  <2> QED BY <2>1 DEF Moves, Alone
<1>5. LockTypes' /\ Locked' /\ Excluded'
  <2>1. SameRole(where[p], "create")
    BY DEF SameRole, Chained
  <2> QED BY <1>1, <1>4, <2>1, SameLocks
<1>6. DbTypes'
  <2>1. RecordTypes'
    BY <1>1, <1>2 DEF DbTypes, RecordTypes, files
  <2>2. /\ before' \in [Keys -> Data \cup {None}] /\ DOMAIN result' = Procs /\ h' \in [Procs -> Handles]
        /\ req[p].op \in Ops("create")
    BY <1>1 DEF CallTypes, Ops
  <2> QED BY <1>1, <1>3, <1>4, <1>5, <2>1, <2>2, TypesKept
<1>7. where'[p] = "create" /\ \A q \in Procs : where'[q] \in {"closed", "create"}
  BY <1>4 DEF Moves
<1>8. Base'
  BY <1>5, <1>6, <1>7 DEF Base, Created
<1>9. At(p, chain, rank, succ)' /\ ~NewData(p)'
  <2>1. ~Writer(p)' /\ ~NewData(p)'
    BY <1>7 DEF Writer, Chained, NewData
  <2> QED BY <1>7, <2>1 DEF At, Walks, Deletes, Stores, Holds, Holding, Looks, Changes, Returns
<1> QED BY <1>2, <1>3, <1>4, <1>8, <1>9, Local

LEMMA NewTableSafe ==
  ASSUME NEW chain, NEW rank, NEW succ, Good(chain, rank, succ), NEW p \in Procs,
         where[p] = "create", head = <<>>, head' = [b \in 0 .. NHASH |-> 0],
         h' = [h EXCEPT ![p].pos = 1], Goes(p, "idle"),
         UNCHANGED <<idx, dat, locks, req, result, before>>
  PROVE  Good(chain, rank, succ)'
<1>1. /\ CallTypes /\ InPlace /\ Base /\ Locked /\ Excluded /\ Created /\ req[p].op \in Ops(where[p])
      /\ DbTypes /\ RecordTypes /\ LockTypes /\ h[p] \in Handles /\ Ghosts(chain, rank, succ)
      /\ Lists(chain, rank, succ, Len(idx)) /\ Pointers(chain, succ)
      /\ \A i \in Int : chain[i] \in Int /\ rank[i] \in Int /\ succ[i] \in Int
  BY Basics, CallKnown
<1>0. PICK hp : hp = [h[p] EXCEPT !.pos = 1]
  OBVIOUS
<1>3. /\ h' = [h EXCEPT ![p] = hp] /\ hp \in Handles /\ "idle" \in Wheres
      /\ req[p].op \in Ops("idle") /\ SameRole(where[p], "idle")
  BY <1>0, <1>1 DEF Wheres, Ops, SameRole, Chained, Handles
<1>4. Moves(p, "idle") /\ Sets(p, hp)
  BY <1>1, <1>3, Going, Setting
<1>5. idx = <<>> /\ dat = <<>> /\ \A q \in Procs : where'[q] \in {"closed", "create", "idle"}
  BY <1>1, <1>4 DEF Created, Moves
<1>6. head' # <<>> /\ head' \in [0 .. NHASH -> Nat]
  <2>1. 0 \in DOMAIN head'
    BY Zero
  <2>2. DOMAIN <<>> = {}
    OBVIOUS
  <2>3. head' # <<>>
    BY ONLY <2>1, <2>2
  <2> QED BY <2>3
<1>7. LockTypes' /\ Locked' /\ Excluded'
  BY <1>1, <1>3, <1>4, SameLocks
<1>8. DbTypes'
  <2>1. RecordTypes'
    BY <1>1, <1>6 DEF RecordTypes
  <2>2. /\ before' \in [Keys -> Data \cup {None}] /\ DOMAIN result' = Procs /\ h' \in [Procs -> Handles]
    BY <1>1, <1>4 DEF CallTypes, Sets
  <2> QED BY <1>1, <1>3, <1>4, <1>7, <2>1, <2>2, TypesKept
<1>9. Base'
  <2>1. where'[p] = "idle"
    BY <1>4 DEF Moves
  <2> QED BY <1>6, <1>7, <1>8, <2>1 DEF Base, Created
<1>10. \A q \in Procs : ~Holding(q)' /\ ~NewData(q)'
  BY <1>5 DEF Holding, NewData
<1>11. Hands'
  BY <1>10 DEF Hands
<1>12. DOMAIN idx' = {} /\ idx' = idx
  BY <1>5
<1>13. Records(chain)' /\ Distinct(chain)' /\ Lists(chain, rank, succ, Len(idx))'
  BY <1>1, <1>12 DEF Records, Distinct
<1>14. Pointers(chain, succ)'
  <2>1. ASSUME NEW i \in Int, chain[i] >= 0 PROVE ReadPtr(i)' = succ[i]
    <3>1. Len(idx) = 0
      BY <1>5
    <3>2. chain[i] \in 0 .. NHASH /\ (i = -chain[i] \/ i \in 1 .. Len(idx))
      BY <1>1, <2>1 DEF Lists
    <3>3. PICK b \in 0 .. NHASH : b = chain[i] /\ i = -b
      BY <3>1, <3>2
    <3>4. ~(i > 0) /\ -i = b
      BY <3>3, DbAssumption
    <3>5. head'[b] = 0
      OBVIOUS
    <3>6. succ[i] = 0
      BY <1>1, <3>3 DEF Pointers
    <3> QED BY <3>4, <3>5, <3>6 DEF ReadPtr
  <2> QED BY <1>6, <2>1 DEF Pointers
<1>15. ASSUME NEW q \in Procs PROVE At(q, chain, rank, succ)'
  <2>1. where'[q] \in {"closed", "create", "idle"}
    BY <1>5
  <2>2. ~Writer(q)' /\ ~Holding(q)'
    BY <2>1 DEF Writer, Chained, Holding
  <2> QED BY <2>1, <2>2 DEF At, Walks, Deletes, Stores, Holds, Looks, Changes, Returns
<1>16. Linked(chain, rank, succ)'
  BY <1>13, <1>14, <1>15 DEF Linked
<1> QED BY <1>1, <1>9, <1>11, <1>16 DEF Good, Ghosts

(***************************************************************************)
(* The invariant.                                                          *)
(***************************************************************************)
LEMMA SafeIs == Intact <=> \E chain, rank, succ : Good(chain, rank, succ)
BY DEF Intact, Good, Ghosts

LEMMA InitSafe == DbInit => Intact
<1> SUFFICES ASSUME DbInit PROVE Intact
  OBVIOUS
<1>1. /\ head = <<>> /\ idx = <<>> /\ dat = <<>>
      /\ rlock = [b \in 0 .. NHASH |-> {}] /\ wlock = [b \in 0 .. NHASH |-> {}]
      /\ tail = [f \in {"idx", "dat"} |-> {}]
      /\ where = [p \in Procs |-> "closed"] /\ req = [p \in Procs |-> NoCall]
      /\ h = [p \in Procs |-> Handle] /\ result = [p \in Procs |-> None]
      /\ before = [k \in Keys |-> None]
  BY DEF DbInit
<1>2. \A p \in Procs : where[p] = "closed"
  BY <1>1
<1>3. \A p \in Procs : ~Writer(p) /\ ~Reader(p) /\ ~Freeing(p) /\ ~Scanning(p) /\ ~Holding(p) /\ ~NewData(p)
  BY <1>2, NotOpen
<1>4. Base
  <2>1. RecordTypes /\ LockTypes
    BY <1>1 DEF RecordTypes, LockTypes
  <2>2. Handle \in Handles
    BY HandleCleared
  <2>3. where \in [Procs -> Wheres] /\ req \in [Procs -> Calls \cup {NoCall}]
    BY <1>1 DEF Wheres
  <2>4. CallTypes
    BY <1>1, <2>2, <2>3 DEF CallTypes
  <2>5. InPlace
    BY <1>1 DEF InPlace, Ops, NoCall
  <2>6. Locked
    <3>1. \A p \in Procs, b \in 1 .. NHASH : p \notin wlock[b] /\ p \notin rlock[b]
      BY <1>1, Zero
    <3>2. \A p \in Procs : p \notin wlock[0] /\ p \notin rlock[0] /\ p \notin tail["idx"] /\ p \notin tail["dat"]
      BY <1>1, Zero
    <3> QED BY <1>2, <1>3, <3>1, <3>2 DEF Locked
  <2>7. Excluded
    BY <1>2, <1>3 DEF Excluded
  <2>8. Created
    BY <1>1, <1>2 DEF Created
  <2> QED BY <2>1, <2>4, <2>5, <2>6, <2>7, <2>8 DEF Base, DbTypes
<1>5. Hands
  BY <1>3 DEF Hands
<1>6. PICK chain, rank, succ :
        /\ chain = [i \in Int |-> IF i <= 0 /\ -i <= NHASH THEN -i ELSE -1]
        /\ rank = [i \in Int |-> 0] /\ succ = [i \in Int |-> 0]
  OBVIOUS
<1>7. Ghosts(chain, rank, succ)
  BY <1>6 DEF Ghosts
<1>8. NHASH \in Nat
  BY DbAssumption
<1>9. /\ \A b \in 0 .. NHASH : chain[-b] = b
      /\ \A i \in Int : chain[i] >= 0 => chain[i] \in 0 .. NHASH /\ i = -chain[i] /\ i <= 0
      /\ \A i \in Int : succ[i] = 0 /\ rank[i] = 0
  BY <1>6, <1>8
<1>10. Lists(chain, rank, succ, Len(idx))
  <2>1. \A i, j \in Int : chain[i] >= 0 /\ chain[i] = chain[j] => i = j /\ ~(i > 0)
    BY <1>9
  <2> QED BY <1>9, <2>1 DEF Lists
<1>11. Pointers(chain, succ)
  <2>1. \A b \in 0 .. NHASH : -b \in Int
    BY <1>8
  <2> QED BY <1>1, <1>9, <2>1 DEF Pointers
<1>12. DOMAIN idx = {}
  BY <1>1
<1>13. Records(chain) /\ Distinct(chain)
  BY <1>12 DEF Records, Distinct
<1>14. \A p \in Procs : At(p, chain, rank, succ)
  BY <1>2, NotOpen
<1>15. Good(chain, rank, succ)
  BY <1>4, <1>5, <1>7, <1>10, <1>11, <1>13, <1>14 DEF Good, Linked
<1> QED BY <1>15, SafeIs

LEMMA StillSafe ==
  ASSUME NEW chain, NEW rank, NEW succ, Good(chain, rank, succ)'
  PROVE  Intact'
BY DEF Intact, Good, Ghosts

LEMMA PassesSafe ==
  ASSUME NEW p, NEW chain, NEW rank, NEW succ, Passes(p, chain, rank, succ)
  PROVE  Intact'
<1>1. PICK c, r, s : Good(c, r, s)'
  BY DEF Passes
<1> QED BY <1>1, StillSafe

(* The steps with which a process changes the files.                       *)
Rewrites(p) ==
  BlankData(p) \/ BlankIdx(p) \/ Push(p) \/ Unchain(p) \/ TakeFree(p) \/ WriteData(p) \/ WriteIdx(p)
    \/ Link(p)

LEMMA RewriteSafe ==
  ASSUME NEW chain, NEW rank, NEW succ, Good(chain, rank, succ), NEW p \in Procs, Rewrites(p)
  PROVE  Passes(p, chain, rank, succ)
<1>1. CASE BlankData(p)
  BY <1>1, BlankDataSafe
<1>2. CASE BlankIdx(p)
  BY <1>2, BlankIdxSafe
<1>3. CASE Push(p)
  BY <1>3, PushSafe
<1>4. CASE Unchain(p)
  BY <1>4, UnchainSafe
<1>5. CASE TakeFree(p)
  BY <1>5, TakeFreeSafe
<1>6. CASE WriteData(p)
  BY <1>6, WriteDataSafe
<1>7. CASE WriteIdx(p)
  BY <1>7, WriteIdxSafe
<1>8. CASE Link(p)
  BY <1>8, LinkSafe
<1> QED BY <1>1, <1>2, <1>3, <1>4, <1>5, <1>6, <1>7, <1>8 DEF Rewrites

LEMMA DbOpenSafe ==
  ASSUME NEW chain, NEW rank, NEW succ, Good(chain, rank, succ), NEW p \in Procs, DbOpen(p)
  PROVE  Good(chain, rank, succ)'
<1>1. CASE head # <<>> /\ h' = [h EXCEPT ![p].pos = 1] /\ Goes(p, "idle") /\ UNCHANGED files
  <2>1. where[p] \in {"closed", "create"} /\ UNCHANGED <<files, locks, req, result, left, before>>
    BY <1>1 DEF DbOpen
  <2> QED BY <1>1, <2>1, OpenSafe
<1>2. CASE /\ \A q \in Procs : where[q] \in {"closed", "create"}
           /\ head' = <<>> /\ idx' = <<>> /\ dat' = <<>> /\ Goes(p, "create") /\ h' = h
  <2>1. where[p] = "closed" /\ UNCHANGED <<locks, req, h, result, before>>
    BY <1>2 DEF DbOpen
  <2> QED BY <1>2, <2>1, TruncateSafe
<1> QED BY <1>1, <1>2 DEF DbOpen

LEMMA CreateTableSafe ==
  ASSUME NEW chain, NEW rank, NEW succ, Good(chain, rank, succ), NEW p \in Procs, CreateTable(p)
  PROVE  Good(chain, rank, succ)'
<1>1. /\ where[p] = "create" /\ h' = [h EXCEPT ![p].pos = 1] /\ Goes(p, "idle")
      /\ head' = IF head = <<>> THEN [b \in 0 .. NHASH |-> 0] ELSE head
      /\ UNCHANGED <<idx, dat, locks, req, result, left, before>>
  BY DEF CreateTable
<1>2. CASE head = <<>>
  BY <1>1, <1>2, NewTableSafe
<1>3. CASE head # <<>>
  <2>1. where[p] \in {"closed", "create"} /\ UNCHANGED <<files, locks, req, result, left, before>>
    BY <1>1, <1>3 DEF files
  <2> QED BY <1>1, <1>3, <2>1, OpenSafe
<1> QED BY <1>2, <1>3

(* The steps with which it only reads them.                                *)
LEMMA ReadSafe ==
  ASSUME NEW chain, NEW rank, NEW succ, Good(chain, rank, succ), NEW p \in Procs,
         Step(p), ~Rewrites(p)
  PROVE  Good(chain, rank, succ)'
<1>1. CASE DbOpen(p)
  BY <1>1, DbOpenSafe
<1>2. CASE CreateTable(p)
  BY <1>2, CreateTableSafe
<1>3. CASE DbClose(p)
  BY <1>3, DbCloseSafe
<1>4. CASE FindStart(p)
  BY <1>4, FindStartSafe
<1>5. CASE FindNext(p)
  BY <1>5, FindNextSafe
<1>6. CASE Found(p)
  BY <1>6, FoundSafe
<1>7. CASE NotFound(p)
  BY <1>7, NotFoundSafe
<1>8. CASE FetchData(p)
  BY <1>8, FetchDataSafe
<1>9. CASE Return(p)
  BY <1>9, ReturnSafe
<1>10. CASE Reread(p)
  BY <1>10, RereadSafe
<1>11. CASE FindFree(p)
  BY <1>11, FindFreeSafe
<1>12. CASE SearchFree(p)
  BY <1>12, SearchFreeSafe
<1>13. CASE NoneFree(p)
  BY <1>13, NoneFreeSafe
<1>14. CASE AppendData(p)
  BY <1>14, AppendDataSafe
<1>15. CASE AppendIdx(p)
  BY <1>15, AppendIdxSafe
<1>16. CASE NextStart(p)
  BY <1>16, NextStartSafe
<1>17. CASE NextIdx(p)
  BY <1>17, NextIdxSafe
<1>18. CASE NextEnd(p)
  BY <1>18, NextEndSafe
<1>19. CASE NextData(p)
  BY <1>19, NextDataSafe
<1> QED BY <1>1, <1>2, <1>3, <1>4, <1>5, <1>6, <1>7, <1>8, <1>9, <1>10, <1>11, <1>12, <1>13, <1>14,
           <1>15, <1>16, <1>17, <1>18, <1>19 DEF Step, Rewrites

LEMMA StutterSafe ==
  ASSUME Intact, UNCHANGED dbvars
  PROVE  Intact'
<1>1. /\ head' = head /\ idx' = idx /\ dat' = dat /\ rlock' = rlock /\ wlock' = wlock /\ tail' = tail
      /\ where' = where /\ req' = req /\ h' = h /\ result' = result /\ before' = before
  BY DEF dbvars, files, locks
<1>2. PICK chain, rank, succ : Good(chain, rank, succ)
  BY SafeIs
<1>3. Base'
  <2>1. Base
    BY <1>2, Basics
  <2>2. RecordTypes' /\ LockTypes' /\ CallTypes' /\ InPlace'
    BY <1>1, <2>1 DEF Base, DbTypes, RecordTypes, LockTypes, CallTypes, InPlace
  <2>3. Locked'
    BY <1>1, <2>1 DEF Base, Locked, Writer, Reader, Writes, Freeing, Scanning, Chain
  <2>4. Excluded'
    BY <1>1, <2>1 DEF Base, Excluded, Writer, Reader, Writes, Freeing, Scanning, Chain
  <2>5. Created'
    BY <1>1, <2>1 DEF Base, Created
  <2> QED BY <2>2, <2>3, <2>4, <2>5 DEF Base, DbTypes
<1>4. \A p \in Procs : where[p] \in Wheres
  BY <1>2, Basics DEF CallTypes
<1>5. Hands' /\ Pointers(chain, succ)' /\ Records(chain)' /\ Distinct(chain)' /\ Lists(chain, rank, succ, Len(idx))'
  <2>1. \A q \in Procs : Holding(q)' = Holding(q) /\ NewData(q)' = NewData(q)
    BY <1>1 DEF Holding, NewData
  <2>2. \A i : ReadPtr(i)' = ReadPtr(i) /\ Bypassed(i)' = Bypassed(i)
    BY <1>1 DEF ReadPtr, Bypassed
  <2>3. Hands /\ Pointers(chain, succ) /\ Records(chain) /\ Distinct(chain) /\ Lists(chain, rank, succ, Len(idx))
    BY <1>2, Basics
  <2>4. Hands'
    BY <1>1, <2>1, <2>3 DEF Hands
  <2>5. Pointers(chain, succ)'
    BY <1>1, <2>2, <2>3 DEF Pointers
  <2>6. Records(chain)'
    BY <1>1, <2>1, <2>3 DEF Records
  <2>7. Distinct(chain)' /\ Lists(chain, rank, succ, Len(idx))'
    BY <1>1, <2>3 DEF Distinct
  <2> QED BY <2>4, <2>5, <2>6, <2>7
<1>6. ASSUME NEW p \in Procs PROVE At(p, chain, rank, succ)'
  <2>0. At(p, chain, rank, succ)
    BY <1>2, Basics
  <2>1. /\ Writer(p)' = Writer(p) /\ Key(p)' = Key(p) /\ New(p)' = New(p) /\ Chain(p)' = Chain(p)
        /\ Holding(p)' = Holding(p) /\ HasFound(p, chain)' = HasFound(p, chain)
        /\ NoRecord(chain, Key(p))' = NoRecord(chain, Key(p))
    BY <1>1 DEF Writer, Writes, Key, New, Chain, Holding, HasFound, Has, NoRecord
  <2>2. \A k, v : Content(chain, k, v)' = Content(chain, k, v)
    BY <1>1 DEF Content, Has
  <2>3. /\ Content(chain, Key(p), before[Key(p)])' = Content(chain, Key(p), before[Key(p)])
        /\ Content(chain, Key(p), result[p])' = Content(chain, Key(p), result[p])
        /\ Content(chain, Key(p), None)' = Content(chain, Key(p), None)
        /\ Content(chain, Key(p), New(p))' = Content(chain, Key(p), New(p))
        /\ \A k : Content(chain, k, before[k])' = Content(chain, k, before[k])
    BY <1>1 DEF Content, Has, Key, New
  <2>4. Walks(p, chain, rank, succ)' /\ Deletes(p, chain, succ)'
    <3>1. Walks(p, chain, rank, succ) /\ Deletes(p, chain, succ)
      BY <2>0 DEF At
    <3> QED BY <1>1, <2>1, <3>1 DEF Walks, Deletes, ReadPtr
  <2>5. Stores(p, chain, succ)' /\ Holds(p, chain)' /\ Looks(p, chain)'
    <3>1. Stores(p, chain, succ) /\ Holds(p, chain) /\ Looks(p, chain)
      BY <2>0 DEF At
    <3> QED BY <1>1, <2>1, <3>1 DEF Stores, Holds, Looks
  <2>6. Changes(p, chain)'
    <3>1. Changes(p, chain)
      BY <2>0 DEF At
    <3> QED BY <1>1, <2>1, <2>3, <3>1 DEF Changes
  <2>7. Returns(p, chain)'
    <3>1. Returns(p, chain)
      BY <2>0 DEF At
    <3> QED BY <1>1, <2>1, <2>3, <3>1 DEF Returns, Answers
  <2> QED BY <2>4, <2>5, <2>6, <2>7 DEF At
<1>7. Linked(chain, rank, succ)'
  BY <1>5, <1>6 DEF Linked
<1> QED BY <1>2, <1>3, <1>5, <1>7, StillSafe DEF Good, Ghosts

LEMMA NextSafe ==
  ASSUME Intact, [DbNext]_dbvars
  PROVE  Intact'
<1>1. PICK chain, rank, succ : Good(chain, rank, succ)
  BY SafeIs
<1>2. ASSUME NEW p \in Procs, Step(p) PROVE Intact'
  <2>1. CASE Rewrites(p)
    BY <1>1, <2>1, RewriteSafe, PassesSafe
  <2>2. CASE ~Rewrites(p)
    BY <1>1, <1>2, <2>2, ReadSafe, StillSafe
  <2> QED BY <2>1, <2>2
<1>3. ASSUME NEW p \in Procs, NEW r \in Calls, Call(p, r) PROVE Intact'
  BY <1>1, <1>3, CallSafe, StillSafe
<1>4. CASE UNCHANGED dbvars
  BY <1>4, StutterSafe
<1>5. CASE AllGone
  BY <1>5, StutterSafe DEF AllGone
<1> QED BY <1>2, <1>3, <1>4, <1>5 DEF DbNext

(* The invariant of the database library: db_fetch, db_store and db_delete *)
(* keep the lists, and each process knows where it is on them              *)
(* (db.c:277-760).                                                         *)
THEOREM DbSafe == DbSpec => []Intact
<1>1. DbInit => Intact
  BY InitSafe
<1>2. Intact /\ [DbNext]_dbvars => Intact'
  BY NextSafe
<1> QED BY <1>1, <1>2, PTL DEF DbSpec

(***************************************************************************)
(* What the lists are to who looks at them.                                *)
(***************************************************************************)
LEMMA FreeMeans ==
  ASSUME NEW chain, NEW rank, NEW succ, Good(chain, rank, succ), NEW b \in 0 .. NHASH,
         NEW q \in Procs, Free(b)
  PROVE  (Writer(q) => Chain(q) # b) /\ (b = 0 => ~Freeing(q))
<1>1. DbTypes /\ CallTypes /\ InPlace /\ Locked
  BY Basics
<1>2. ASSUME Writer(q) PROVE Chain(q) \in 1 .. NHASH /\ q \in wlock[Chain(q)]
  <2>1. where[q] \in Chained
    BY <1>2 DEF Writer
  <2>2. Chain(q) \in 1 .. NHASH
    BY <2>1, InChain
  <2> QED BY <1>1, <1>2, <2>2 DEF Locked
<1>3. b = 0 => ~Freeing(q)
  BY <1>1 DEF Locked, Free
<1> QED BY <1>2, <1>3 DEF Free

LEMMA TrailFree ==
  ASSUME NEW chain, NEW rank, NEW succ, Good(chain, rank, succ), NEW b \in 0 .. NHASH, Free(b),
         head # <<>>
  PROVE  Trail(b) = {n \in DOMAIN idx : chain[n] = b}
BY FreeMeans, ListIs

(* Before the index file has its pointers it has no records.               *)
LEMMA Unwritten ==
  ASSUME NEW chain, NEW rank, NEW succ, Good(chain, rank, succ), head = <<>>
  PROVE  DOMAIN idx = {} /\ \A b : Trail(b) = {}
<1>1. idx = <<>>
  BY Basics DEF Created
<1>2. \A b : Trail(b) = {}
  BY DEF Trail
<1> QED BY <1>1, <1>2

LEMMA ListSound ==
  ASSUME NEW chain, NEW rank, NEW succ, Good(chain, rank, succ), head # <<>>, NEW c \in 1 .. NHASH,
         Free(c), NEW n \in Trail(c)
  PROVE  /\ idx[n].key \in Keys /\ Hash[idx[n].key] = c /\ KeyLen[idx[n].key] = idx[n].klen
         /\ dat[idx[n].dat].data \in Data /\ DatLen[dat[idx[n].dat].data] = idx[n].len
         /\ \A m \in Trail(c) : idx[m].key = idx[n].key => m = n
<1>0. c \in 0 .. NHASH /\ c > 0
  BY DbAssumption
<1>1. Trail(c) = {m \in DOMAIN idx : chain[m] = c}
  BY <1>0, TrailFree
<1>2. n \in DOMAIN idx /\ chain[n] = c /\ chain[n] > 0
  BY <1>0, <1>1
<1>3. Records(chain) /\ Distinct(chain) /\ CallTypes /\ InPlace
  BY Basics
<1>4. ASSUME NEW q \in Procs, where[q] = "blank_idx", h[q].idxoff = n PROVE FALSE
  <2>1. Writer(q)
    BY <1>3, <1>4, Deleting
  <2>2. At(q, chain, rank, succ)
    BY Basics
  <2>3. Deletes(q, chain, succ)
    BY <2>2 DEF At
  <2>4. HasFound(q, chain)
    BY <1>4, <2>3 DEF Deletes
  <2>5. chain[n] = Hash[Key(q)]
    BY <1>4, <2>4 DEF HasFound, Has
  <2>6. Chain(q) = c
    BY <1>2, <2>5 DEF Chain, Key
  <2> QED BY <1>0, <2>1, <2>6, FreeMeans
<1>5. /\ idx[n].key \in Keys /\ Hash[idx[n].key] = c /\ KeyLen[idx[n].key] = idx[n].klen
      /\ dat[idx[n].dat].data \in Data /\ DatLen[dat[idx[n].dat].data] = idx[n].len
  BY <1>2, <1>3, <1>4 DEF Records
<1>6. ASSUME NEW m \in Trail(c), idx[m].key = idx[n].key PROVE m = n
  BY <1>1, <1>2, <1>3, <1>6 DEF Distinct
<1> QED BY <1>5, <1>6

LEMMA IntactLists == Intact => ListsSound
<1> SUFFICES ASSUME Intact PROVE ListsSound
  OBVIOUS
<1>1. PICK chain, rank, succ : Good(chain, rank, succ)
  BY SafeIs
<1>2. Records(chain) /\ Distinct(chain)
  BY <1>1, Basics
<1>3. \A m, n \in DOMAIN idx : m # n => idx[m].dat # idx[n].dat
  BY <1>2 DEF Distinct
<1>4. CASE head = <<>>
  <2>1. \A b : Trail(b) = {}
    BY <1>1, <1>4, Unwritten
  <2> QED BY <1>3, <2>1 DEF ListsSound
<1>5. CASE head # <<>>
  <2>1. ASSUME NEW c \in 1 .. NHASH, Free(c), NEW n \in Trail(c)
        PROVE  /\ idx[n].key \in Keys /\ Hash[idx[n].key] = c /\ KeyLen[idx[n].key] = idx[n].klen
               /\ dat[idx[n].dat].data \in Data /\ DatLen[dat[idx[n].dat].data] = idx[n].len
               /\ \A m \in Trail(c) : idx[m].key = idx[n].key => m = n
    BY <1>1, <1>5, <2>1, ListSound
  <2>2. ASSUME Free(0), NEW n \in Trail(0) PROVE idx[n].key = Blank
    <3>1. n \in DOMAIN idx /\ chain[n] = 0
      BY <1>1, <1>5, <2>2, TrailFree, Zero
    <3> QED BY <1>2, <3>1 DEF Records
  <2>3. ASSUME NEW a \in 0 .. NHASH, NEW b \in 0 .. NHASH, a # b, Free(a), Free(b)
        PROVE  Trail(a) \cap Trail(b) = {}
    <3>1. Trail(a) = {n \in DOMAIN idx : chain[n] = a} /\ Trail(b) = {n \in DOMAIN idx : chain[n] = b}
      BY <1>1, <1>5, <2>3, TrailFree
    <3> QED BY <2>3, <3>1
  <2> QED BY <1>3, <2>1, <2>2, <2>3 DEF ListsSound
<1> QED BY <1>4, <1>5

LEMMA IntactSpace == Intact => SpaceAccounted
<1> SUFFICES ASSUME Intact, \A b \in 0 .. NHASH : Free(b), NEW n \in DOMAIN idx
             PROVE  \E b \in 0 .. NHASH : n \in Trail(b)
  BY DEF SpaceAccounted
<1>1. PICK chain, rank, succ : Good(chain, rank, succ)
  BY SafeIs
<1>2. head # <<>>
  BY <1>1, Unwritten
<1>3. Records(chain) /\ Lists(chain, rank, succ, Len(idx)) /\ CallTypes /\ InPlace /\ n \in Int /\ chain[n] \in Int
  BY <1>1, Basics, IdxInt
<1>4. ASSUME chain[n] < 0 PROVE FALSE
  <2>1. PICK q \in Procs : Holding(q) /\ h[q].idxoff = n
    BY <1>3, <1>4 DEF Records
  <2>2. where[q] \in {"push", "write_data", "write_idx", "link"}
    BY <2>1 DEF Holding
  <2>3. Writer(q)
    BY <1>3, <2>2, Deleting
  <2>4. where[q] \in Chained
    BY <2>3 DEF Writer
  <2>5. Chain(q) \in 0 .. NHASH
    BY <1>1, <2>4, InChain
  <2> QED BY <1>1, <2>3, <2>5, FreeMeans
<1>5. chain[n] >= 0
  BY <1>3, <1>4
<1>6. chain[n] \in 0 .. NHASH
  BY <1>3, <1>5 DEF Lists
<1>7. Trail(chain[n]) = {m \in DOMAIN idx : chain[m] = chain[n]}
  BY <1>1, <1>2, <1>6, TrailFree
<1> QED BY <1>6, <1>7

(* Every value is where the code keeps one of its kind: the three files,   *)
(* the locks, and each process's DB structure and place in a call of the   *)
(* kind that gets there (db.c:60-100).                                     *)
THEOREM DbTypesHold == DbSpec => []DbTypes
<1>1. Intact => DbTypes
  BY DEF Intact, Base
<1> QED BY <1>1, DbSafe, PTL

(* The lists are what they are taken for whenever nobody has them locked   *)
(* (db.c:478, 698, 782).                                                   *)
THEOREM DbListsSound == DbSpec => []ListsSound
<1>1. Intact => ListsSound
  BY IntactLists
<1> QED BY <1>1, DbSafe, PTL

(* Between calls every index record is on a list.                          *)
THEOREM DbSpaceAccounted == DbSpec => []SpaceAccounted
<1>1. Intact => SpaceAccounted
  BY IntactSpace
<1> QED BY <1>1, DbSafe, PTL

(***************************************************************************)
(* A record keeps its place in the file: its key and its data are written  *)
(* over with others as long.                                               *)
(***************************************************************************)
SizesStay == \A n \in DOMAIN idx : n \in DOMAIN idx' =>
               idx'[n].klen = idx[n].klen /\ idx'[n].len = idx[n].len

LEMMA PointerSizes ==
  ASSUME RecordTypes, NEW i \in Int, NEW v, WritePtr(i, v)
  PROVE  SizesStay
<1>1. \A n \in DOMAIN idx : idx[n] \in IdxRecords
  BY FilesKnown
<1>2. CASE idx' = [idx EXCEPT ![i].ptr = v]
  <2>1. ASSUME NEW n \in DOMAIN idx
        PROVE  idx'[n].klen = idx[n].klen /\ idx'[n].len = idx[n].len
    <3>1. n # i => idx'[n] = idx[n]
      BY <1>2
    <3>2. n = i => idx'[n] = [idx[n] EXCEPT !.ptr = v]
      BY <1>2
    <3> QED BY <1>1, <3>1, <3>2 DEF IdxRecords
  <2> QED BY <2>1 DEF SizesStay
<1>3. CASE idx' = idx
  BY <1>3 DEF SizesStay
<1> QED BY <1>2, <1>3 DEF WritePtr

LEMMA RewriteSizes ==
  ASSUME NEW chain, NEW rank, NEW succ, Good(chain, rank, succ), NEW p \in Procs, Rewrites(p)
  PROVE  SizesStay
<1>0. /\ RecordTypes /\ CallTypes /\ InPlace /\ At(p, chain, rank, succ)
      /\ Len(idx) \in Nat /\ DOMAIN idx = 1 .. Len(idx)
  BY Basics
<1>1. /\ h[p].ptroff \in Int /\ 0 \in Int
      /\ \A n \in DOMAIN idx : idx[n] \in IdxRecords /\ n \in Nat
  BY <1>0, CallKnown, FilesKnown DEF Fields
<1>2. CASE idx' = idx
  BY <1>2 DEF SizesStay
<1>3. CASE BlankIdx(p)
  <2>1. idx' = [idx EXCEPT ![h[p].idxoff] = [@ EXCEPT !.key = Blank, !.ptr = ReadPtr(0)]]
    BY <1>3 DEF BlankIdx
  <2>2. ASSUME NEW n \in DOMAIN idx
        PROVE  idx'[n].klen = idx[n].klen /\ idx'[n].len = idx[n].len
    <3>1. n # h[p].idxoff => idx'[n] = idx[n]
      BY <2>1
    <3>2. n = h[p].idxoff => idx'[n] = [idx[n] EXCEPT !.key = Blank, !.ptr = ReadPtr(0)]
      BY <2>1
    <3> QED BY <1>1, <3>1, <3>2 DEF IdxRecords
  <2> QED BY <2>2 DEF SizesStay
<1>4. CASE Push(p)
  BY <1>0, <1>1, <1>4, PointerSizes DEF Push
<1>5. CASE Unchain(p)
  BY <1>0, <1>1, <1>5, PointerSizes DEF Unchain
<1>6. CASE TakeFree(p)
  BY <1>0, <1>1, <1>6, PointerSizes DEF TakeFree
<1>7. CASE Link(p)
  <2>1. where[p] \in Chained
    BY <1>7 DEF Link, Chained
  <2>2. -Chain(p) \in Int
    BY <2>1, InChain
  <2> QED BY <1>0, <1>7, <2>2, PointerSizes DEF Link
<1>8. CASE WriteIdx(p)
  <2>1. /\ where[p] \in {"write_idx", "write_end_idx"}
        /\ idx' = Put(idx, h[p].idxoff,
                      [ptr |-> h[p].save, key |-> req[p].key, klen |-> KeyLen[req[p].key],
                       dat |-> h[p].datoff, len |-> h[p].datlen])
    BY <1>8 DEF WriteIdx
  <2>2. Stores(p, chain, succ)
    BY <1>0 DEF At
  <2>3. CASE where[p] = "write_end_idx"
    <3>1. h[p].idxoff = Len(idx) + 1
      BY <2>2, <2>3 DEF Stores
    <3>2. idx' = Append(idx, [ptr |-> h[p].save, key |-> req[p].key, klen |-> KeyLen[req[p].key],
                              dat |-> h[p].datoff, len |-> h[p].datlen])
      BY <1>0, <2>1, <3>1 DEF Put
    <3>3. idx \in Seq(IdxRecords)
      BY <1>0 DEF RecordTypes
    <3>4. \A n \in DOMAIN idx : idx'[n] = idx[n]
      BY <1>0, <3>2, <3>3
    <3> QED BY <3>4 DEF SizesStay
  <2>4. CASE where[p] = "write_idx"
    <3>1. /\ idx[h[p].idxoff].klen = KeyLen[Key(p)] /\ idx[h[p].idxoff].len = DatLen[New(p)]
          /\ h[p].datlen = DatLen[New(p)]
      BY <2>2, <2>4 DEF Stores
    <3>2. Holds(p, chain) /\ Holding(p)
      BY <1>0, <2>4 DEF At, Holding
    <3>3. h[p].idxoff \in DOMAIN idx
      BY <3>2 DEF Holds
    <3>4. ~(h[p].idxoff > Len(idx))
      BY <1>0, <3>3
    <3>5. idx' = [idx EXCEPT ![h[p].idxoff] =
                    [ptr |-> h[p].save, key |-> req[p].key, klen |-> KeyLen[req[p].key],
                     dat |-> h[p].datoff, len |-> h[p].datlen]]
      BY <2>1, <3>4 DEF Put
    <3>6. ASSUME NEW n \in DOMAIN idx
          PROVE  idx'[n].klen = idx[n].klen /\ idx'[n].len = idx[n].len
      <4>1. n # h[p].idxoff => idx'[n] = idx[n]
        BY <3>5
      <4>2. n = h[p].idxoff => idx'[n].klen = KeyLen[req[p].key] /\ idx'[n].len = h[p].datlen
        BY <3>5
      <4> QED BY <3>1, <4>1, <4>2 DEF Key
    <3> QED BY <3>6 DEF SizesStay
  <2> QED BY <2>1, <2>3, <2>4
<1>9. CASE BlankData(p)
  BY <1>2, <1>9 DEF BlankData
<1>10. CASE WriteData(p)
  BY <1>2, <1>10 DEF WriteData
<1> QED BY <1>3, <1>4, <1>5, <1>6, <1>7, <1>8, <1>9, <1>10 DEF Rewrites

(* Without those steps the files stay, but for an open that truncates an   *)
(* index that is empty yet, or writes its pointers.                        *)
LEMMA ReadFiles ==
  ASSUME NEW p \in Procs, Step(p), ~Rewrites(p), ~DbOpen(p), ~CreateTable(p)
  PROVE  UNCHANGED files
<1>1. CASE DbClose(p) \/ FindStart(p) \/ FindNext(p) \/ Found(p) \/ NotFound(p) \/ FetchData(p) \/ Return(p)
  BY <1>1 DEF DbClose, FindStart, FindNext, Found, NotFound, FetchData, Return
<1>2. CASE Reread(p) \/ FindFree(p) \/ SearchFree(p) \/ NoneFree(p) \/ AppendData(p) \/ AppendIdx(p)
  BY <1>2 DEF Reread, FindFree, SearchFree, NoneFree, AppendData, AppendIdx, SeekEnd
<1>3. CASE NextStart(p) \/ NextIdx(p) \/ NextEnd(p) \/ NextData(p)
  BY <1>3 DEF NextStart, NextIdx, NextEnd, NextData
<1> QED BY <1>1, <1>2, <1>3 DEF Step, Rewrites

LEMMA ReadSizes ==
  ASSUME NEW chain, NEW rank, NEW succ, Good(chain, rank, succ), NEW p \in Procs,
         Step(p), ~Rewrites(p)
  PROVE  SizesStay
<1>1. CASE DbOpen(p)
  BY <1>1 DEF DbOpen, files, SizesStay
<1>2. CASE CreateTable(p)
  BY <1>2 DEF CreateTable, SizesStay
<1>3. CASE ~DbOpen(p) /\ ~CreateTable(p)
  BY <1>3, ReadFiles DEF files, SizesStay
<1> QED BY <1>1, <1>2, <1>3

LEMMA SizesNext ==
  ASSUME Intact, DbNext
  PROVE  SizesStay
<1>1. PICK chain, rank, succ : Good(chain, rank, succ)
  BY SafeIs
<1>2. ASSUME NEW p \in Procs, Step(p) PROVE SizesStay
  BY <1>1, <1>2, RewriteSizes, ReadSizes
<1>3. ASSUME NEW p \in Procs, NEW r \in Calls, Call(p, r) PROVE SizesStay
  BY <1>3 DEF Call, files, SizesStay
<1>4. CASE AllGone
  BY <1>4 DEF AllGone, dbvars, files, SizesStay
<1> QED BY <1>2, <1>3, <1>4 DEF DbNext

(* A record written over, in place or taken from the free list, fits       *)
(* (db.c:752, "the_correct_sizes").                                        *)
THEOREM DbRecordsKeepSize == DbSpec => RecordsKeepSize
<1>1. Intact /\ [DbNext]_dbvars => [SizesStay]_idx
  BY SizesNext DEF dbvars, files
<1>2. [SizesStay]_idx =>
        [\A n \in DOMAIN idx : n \in DOMAIN idx' =>
           idx'[n].klen = idx[n].klen /\ idx'[n].len = idx[n].len]_idx
  BY DEF SizesStay
<1> QED BY <1>1, <1>2, DbSafe, PTL DEF DbSpec, RecordsKeepSize

(***************************************************************************)
(* A step is one process's.                                                *)
(***************************************************************************)
LEMMA StepAlone ==
  ASSUME CallTypes, NEW p \in Procs, Step(p)
  PROVE  Alone(p)
<1>0. DOMAIN where = Procs /\ DOMAIN h = Procs /\ DOMAIN result = Procs
  BY DEF CallTypes
<1>1. CASE DbOpen(p)
  BY <1>0, <1>1 DEF DbOpen, Goes, Alone
<1>2. CASE CreateTable(p)
  BY <1>0, <1>2 DEF CreateTable, Goes, Alone
<1>3. CASE DbClose(p)
  BY <1>0, <1>3 DEF DbClose, Goes, Alone
<1>4. CASE FindStart(p)
  BY <1>0, <1>4 DEF FindStart, Goes, Alone
<1>5. CASE FindNext(p)
  BY <1>0, <1>5 DEF FindNext, Goes, Alone
<1>6. CASE Found(p)
  BY <1>0, <1>6 DEF Found, Goes, Alone
<1>7. CASE NotFound(p)
  BY <1>0, <1>7 DEF NotFound, Goes, Alone
<1>8. CASE FetchData(p)
  BY <1>0, <1>8 DEF FetchData, Goes, Alone
<1>9. CASE Return(p)
  BY <1>0, <1>9 DEF Return, Goes, Alone
<1>10. CASE BlankData(p)
  BY <1>0, <1>10 DEF BlankData, Goes, Alone
<1>11. CASE BlankIdx(p)
  BY <1>0, <1>11 DEF BlankIdx, Goes, Alone
<1>12. CASE Push(p)
  BY <1>0, <1>12 DEF Push, Goes, Alone
<1>13. CASE Unchain(p)
  BY <1>0, <1>13 DEF Unchain, Goes, Alone
<1>14. CASE Reread(p)
  BY <1>0, <1>14 DEF Reread, Goes, Alone
<1>15. CASE FindFree(p)
  BY <1>0, <1>15 DEF FindFree, Goes, Alone
<1>16. CASE SearchFree(p)
  BY <1>0, <1>16 DEF SearchFree, Goes, Alone
<1>17. CASE TakeFree(p)
  BY <1>0, <1>17 DEF TakeFree, Goes, Alone
<1>18. CASE NoneFree(p)
  BY <1>0, <1>18 DEF NoneFree, Goes, Alone
<1>19. CASE AppendData(p)
  BY <1>0, <1>19 DEF AppendData, SeekEnd, Goes, Alone
<1>20. CASE AppendIdx(p)
  BY <1>0, <1>20 DEF AppendIdx, SeekEnd, Goes, Alone
<1>21. CASE WriteData(p)
  BY <1>0, <1>21 DEF WriteData, Goes, Alone
<1>22. CASE WriteIdx(p)
  BY <1>0, <1>22 DEF WriteIdx, Goes, Alone
<1>23. CASE Link(p)
  BY <1>0, <1>23 DEF Link, Goes, Alone
<1>24. CASE NextStart(p)
  BY <1>0, <1>24 DEF NextStart, Goes, Alone
<1>25. CASE NextIdx(p)
  BY <1>0, <1>25 DEF NextIdx, Goes, Alone
<1>26. CASE NextEnd(p)
  BY <1>0, <1>26 DEF NextEnd, Goes, Alone
<1>27. CASE NextData(p)
  BY <1>0, <1>27 DEF NextData, Goes, Alone
<1> QED BY <1>1, <1>2, <1>3, <1>4, <1>5, <1>6, <1>7, <1>8, <1>9, <1>10, <1>11, <1>12, <1>13,
           <1>14, <1>15, <1>16, <1>17, <1>18, <1>19, <1>20, <1>21, <1>22, <1>23, <1>24, <1>25,
           <1>26, <1>27 DEF Step

LEMMA CallAlone ==
  ASSUME CallTypes, NEW p \in Procs, NEW r, Call(p, r)
  PROVE  Alone(p)
BY DEF Call, Goes, Alone, CallTypes

LEMMA OnlyNextData ==
  ASSUME NEW p \in Procs, Step(p), where[p] = "next_data"
  PROVE  NextData(p)
<1>1. ~DbOpen(p) /\ ~CreateTable(p) /\ ~DbClose(p) /\ ~FindStart(p) /\ ~FindNext(p) /\ ~Found(p)
  BY DEF DbOpen, CreateTable, DbClose, FindStart, FindNext, Found
<1>2. ~NotFound(p) /\ ~FetchData(p) /\ ~Return(p) /\ ~BlankData(p) /\ ~BlankIdx(p) /\ ~Push(p)
  BY DEF NotFound, FetchData, Return, BlankData, BlankIdx, Push
<1>3. ~Unchain(p) /\ ~Reread(p) /\ ~FindFree(p) /\ ~SearchFree(p) /\ ~TakeFree(p) /\ ~NoneFree(p)
  BY DEF Unchain, Reread, FindFree, SearchFree, TakeFree, NoneFree
<1>4. ~AppendData(p) /\ ~AppendIdx(p) /\ ~WriteData(p) /\ ~WriteIdx(p) /\ ~Link(p)
  BY DEF AppendData, AppendIdx, SeekEnd, WriteData, WriteIdx, Link
<1>5. ~NextStart(p) /\ ~NextIdx(p) /\ ~NextEnd(p)
  BY DEF NextStart, NextIdx, NextEnd
<1> QED BY <1>1, <1>2, <1>3, <1>4, <1>5 DEF Step

(***************************************************************************)
(* What db_nextrec finds at a record that is not blank.                    *)
(***************************************************************************)
Current(k, d) == d = IF Free(Hash[k]) THEN Value(k) ELSE before[k]
Storer(q, k, d) == q \in wlock[Hash[k]] /\ req[q].op # "delete" /\ req[q].key = k /\ req[q].data = d

(* A record with the key in a chain that q is writing.                     *)
LEMMA WritersRecord ==
  ASSUME NEW chain, NEW rank, NEW succ, Good(chain, rank, succ), NEW q \in Procs, Writer(q),
         ~Freeing(q), NEW n \in DOMAIN idx, NEW k \in Keys, Hash[k] = Chain(q), Has(chain, k, n)
  PROVE  \/ dat[idx[n].dat].data = before[k]
         \/ req[q].op # "delete" /\ Key(q) = k /\ dat[idx[n].dat].data = New(q)
<1>0. CallTypes /\ InPlace /\ Changes(q, chain) /\ Returns(q, chain)
  BY Basics DEF At
<1>1. \A v : Content(chain, k, v) => dat[idx[n].dat].data = v /\ v # None
  BY DEF Content
<1>2. CASE k # Key(q)
  BY <1>0, <1>1, <1>2 DEF Changes
<1>3. CASE k = Key(q)
  <2>1. ~NoRecord(chain, Key(q))
    BY <1>3 DEF NoRecord
  <2>2. where[q] \in Chained /\ req[q].op # "fetch" /\ req[q].op \in Ops(where[q])
    BY <1>0, CallKnown DEF Writer, Writes
  <2>3. CASE where[q] \in {"walk", "blank_data", "overwrite"}
    BY <1>0, <1>1, <1>3, <2>3 DEF Changes
  <2>4. CASE where[q] = "return"
    BY <1>0, <1>1, <1>3, <2>2, <2>4 DEF Returns, Answers
  <2>5. where[q] # "data"
    BY <2>2 DEF Ops
  <2>6. where[q] \notin {"blank_idx", "push", "unchain", "search"}
    BY DEF Freeing
  <2>7. where[q] \notin {"reread", "find_free", "write_data", "write_idx", "append_data",
                         "write_end_data", "append_idx", "write_end_idx", "link"}
    BY <1>0, <2>1 DEF Changes
  <2> QED BY <2>2, <2>3, <2>4, <2>5, <2>6, <2>7 DEF Chained
<1> QED BY <1>2, <1>3

LEMMA HeldRecord ==
  ASSUME NEW chain, NEW rank, NEW succ, Good(chain, rank, succ), NEW q \in Procs, Holding(q),
         NEW n \in DOMAIN idx, h[q].idxoff = n, NEW k \in Keys, idx[n].key = k
  PROVE  Storer(q, k, dat[idx[n].dat].data)
<1>0. CallTypes /\ InPlace /\ Locked /\ Holds(q, chain)
  BY Basics DEF At
<1>1. where[q] = "link"
  BY <1>0, DbAssumption DEF Holds, Holding
<1>2. idx[n].key = Key(q) /\ dat[idx[n].dat].data = New(q)
  BY <1>0, <1>1 DEF Holds
<1>3. Writer(q) /\ req[q].op \in {"insert", "replace", "store"}
  BY <1>0, <1>1, Deleting, CallKnown DEF Ops
<1>4. where[q] \in Chained
  BY <1>3 DEF Writer
<1>5. Chain(q) \in 1 .. NHASH /\ Chain(q) = Hash[k]
  BY <1>2, <1>4, InChain
<1>6. q \in wlock[Hash[k]]
  BY <1>0, <1>3, <1>5 DEF Locked
<1> QED BY <1>2, <1>3, <1>6 DEF Storer, Key, New

LEMMA ScanFinds ==
  ASSUME NEW chain, NEW rank, NEW succ, Good(chain, rank, succ), NEW p \in Procs, Scanning(p),
         NEW n \in DOMAIN idx, NEW k \in Keys, idx[n].key = k, NEW d, d = dat[idx[n].dat].data
  PROVE  Current(k, d) \/ \E q \in Procs : Storer(q, k, d)
<1>0. /\ Records(chain) /\ Locked /\ Excluded /\ LockTypes /\ n \in Int /\ chain[n] \in Int
      /\ Hash[k] \in 1 .. NHASH /\ Hash[k] \in 0 .. NHASH
  BY Basics, IdxInt, DbAssumption, Zero
<1>1. CASE chain[n] = 0
  BY <1>0, <1>1, DbAssumption DEF Records
<1>2. CASE chain[n] < 0
  <2>1. PICK q \in Procs : Holding(q) /\ h[q].idxoff = n
    BY <1>0, <1>2 DEF Records
  <2> QED BY <2>1, HeldRecord
<1>3. CASE chain[n] > 0
  <2>1. Has(chain, k, n)
    BY <1>0, <1>3 DEF Records, Has
  <2>2. CASE Free(Hash[k])
    <3>1. head # <<>>
      BY Unwritten
    <3>2. Content(chain, k, Value(k))
      BY <1>0, <2>2, <3>1, FreeMeans, ValueIs
    <3> QED BY <2>1, <2>2, <3>2 DEF Content, Current
  <2>3. CASE ~Free(Hash[k])
    <3>1. PICK q \in Procs : q \in wlock[Hash[k]]
      BY <1>0, <2>3 DEF Free, LockTypes
    <3>2. Writer(q) /\ Chain(q) = Hash[k]
      BY <1>0, <3>1 DEF Locked
    <3>3. q # p
      BY <3>2 DEF Writer, Scanning, Chained
    <3>4. ~Freeing(q)
      BY <1>0, <3>3 DEF Excluded
    <3>5. \/ d = before[k]
          \/ req[q].op # "delete" /\ Key(q) = k /\ d = New(q)
      BY <2>1, <3>2, <3>4, WritersRecord
    <3> QED BY <2>3, <3>1, <3>5 DEF Current, Storer, Key, New
  <2> QED BY <2>2, <2>3
<1> QED BY <1>0, <1>1, <1>2, <1>3

WholeRecord(p) ==
  where[p] = "next_data" /\ where'[p] = "idle" =>
    LET k == result'[p][1]
        d == result'[p][2]
    IN  \/ d = IF Free(Hash[k]) THEN Value(k) ELSE before[k]
        \/ \E q \in wlock[Hash[k]] : req[q].op # "delete" /\ req[q].key = k /\ req[q].data = d

LEMMA NextDataWhole ==
  ASSUME NEW chain, NEW rank, NEW succ, Good(chain, rank, succ), NEW p \in Procs, NextData(p)
  PROVE  WholeRecord(p)
<1>0. DOMAIN result = Procs /\ Looks(p, chain)
  BY Basics DEF At, CallTypes
<1>1. /\ where[p] = "next_data"
      /\ result' = [result EXCEPT ![p] = <<h[p].buf, dat[h[p].datoff].data>>]
  BY DEF NextData
<1>2. PICK n : n = h[p].pos - 1
  OBVIOUS
<1>3. PICK k : k = h[p].buf
  OBVIOUS
<1>4. PICK d : d = dat[h[p].datoff].data
  OBVIOUS
<1>5. n \in DOMAIN idx /\ k \in Keys /\ idx[n].key = k /\ d = dat[idx[n].dat].data
  BY <1>0, <1>1, <1>2, <1>3, <1>4 DEF Looks
<1>6. Scanning(p)
  BY <1>1 DEF Scanning
<1>7. Current(k, d) \/ \E q \in Procs : Storer(q, k, d)
  BY <1>5, <1>6, ScanFinds
<1>8. result'[p] = <<k, d>>
  BY <1>0, <1>1, <1>3, <1>4
<1>9. result'[p][1] = k /\ result'[p][2] = d
  BY <1>8
<1> QED BY <1>7, <1>9 DEF WholeRecord, Current, Storer

LEMMA WholeNext ==
  ASSUME Intact, DbNext, NEW p \in Procs
  PROVE  WholeRecord(p)
<1> SUFFICES ASSUME where[p] = "next_data", where'[p] = "idle" PROVE WholeRecord(p)
  BY DEF WholeRecord
<1>1. PICK chain, rank, succ : Good(chain, rank, succ)
  BY SafeIs
<1>2. ASSUME NEW q \in Procs, Alone(q) PROVE q = p
  BY <1>2 DEF Alone
<1>3. ASSUME NEW q \in Procs, Step(q) PROVE WholeRecord(p)
  <2>1. q = p
    BY <1>1, <1>2, <1>3, StepAlone, Basics
  <2> QED BY <1>1, <1>3, <2>1, OnlyNextData, NextDataWhole
<1>4. ASSUME NEW q \in Procs, NEW r \in Calls, Call(q, r) PROVE FALSE
  <2>1. q = p
    BY <1>1, <1>2, <1>4, CallAlone, Basics
  <2> QED BY <1>4, <2>1 DEF Call
<1>5. ~AllGone
  BY DEF AllGone
<1> QED BY <1>3, <1>4, <1>5 DEF DbNext

(* db_nextrec returns a key with data that is, or is being, stored under   *)
(* it, never a record "in the middle of its being deleted" (db.c:845).     *)
THEOREM DbNextrecWhole == DbSpec => NextrecWhole
<1>1. Intact /\ [DbNext]_dbvars => [\A p \in Procs : WholeRecord(p)]_dbvars
  BY WholeNext
<1>2. [\A p \in Procs : WholeRecord(p)]_dbvars =>
        [\A p \in Procs : where[p] = "next_data" /\ where'[p] = "idle" =>
           LET k == result'[p][1]
               d == result'[p][2]
           IN  \/ d = IF Free(Hash[k]) THEN Value(k) ELSE before[k]
               \/ \E q \in wlock[Hash[k]] :
                     req[q].op # "delete" /\ req[q].key = k /\ req[q].data = d]_dbvars
  BY DEF WholeRecord
<1> QED BY <1>1, <1>2, DbSafe, PTL DEF DbSpec, NextrecWhole

(***************************************************************************)
(* The database as a map.                                                  *)
(***************************************************************************)
Mapping(k) == IF Free(Hash[k]) THEN Value(k) ELSE before[k]
Replied(p) == IF InCall(p) THEN Pending
            ELSE IF req[p].op \in {"nextrec", "rewind"} THEN None
            ELSE result[p]

Mapped == [k \in Keys |-> Mapping(k)]
Replies == [p \in Procs |-> Replied(p)]

(* The data of a key is what its one record holds.                         *)
LEMMA ValueFree ==
  \A chain, rank, succ : Good(chain, rank, succ) =>
    \A k \in Keys : Free(Hash[k]) => Content(chain, k, Value(k))
<1> SUFFICES ASSUME NEW chain, NEW rank, NEW succ, Good(chain, rank, succ), NEW k \in Keys,
                    Free(Hash[k])
             PROVE  Content(chain, k, Value(k))
  OBVIOUS
<1>0. Hash[k] \in 0 .. NHASH
  BY DbAssumption, Zero
<1>1. CASE head = <<>>
  <2>1. DOMAIN idx = {} /\ Trail(Hash[k]) = {}
    BY <1>1, Unwritten
  <2>2. Value(k) = None
    BY <2>1 DEF Value
  <2> QED BY <2>1, <2>2 DEF Content
<1>2. CASE head # <<>>
  BY <1>0, <1>2, FreeMeans, ValueIs
<1> QED BY <1>1, <1>2

LEMMA ValueFreeNext ==
  (\A chain, rank, succ : Good(chain, rank, succ) =>
     \A k \in Keys : Free(Hash[k]) => Content(chain, k, Value(k)))'
BY ValueFree, PTL

LEMMA ValueStays ==
  ASSUME UNCHANGED files, NEW k
  PROVE  Value(k)' = Value(k)
<1>1. head' = head /\ idx' = idx /\ dat' = dat
  BY DEF files
<1>2. Trail(Hash[k])' = Trail(Hash[k])
  BY <1>1 DEF Trail
<1> QED BY <1>1, <1>2 DEF Value

LEMMA ContentIs ==
  ASSUME NEW chain, NEW k, NEW v, NEW w, Content(chain, k, v), Content(chain, k, w)
  PROVE  v = w
BY DEF Content

LEMMA ContentIsNext ==
  ASSUME NEW chain, NEW k, NEW v, NEW w, Content(chain, k, v)', Content(chain, k, w)'
  PROVE  v = w
BY DEF Content

(* A chain's lock and what was in it stay.                                 *)
SameLock(b) == Free(b)' = Free(b) /\ \A k \in Keys : Hash[k] = b => before'[k] = before[k]

LEMMA MappingKept ==
  ASSUME NEW k \in Keys, SameLock(Hash[k]), Free(Hash[k]) => Value(k)' = Value(k)
  PROVE  Mapping(k)' = Mapping(k)
BY DEF Mapping, SameLock

(* A step that changes the files changes nothing that another can see.     *)
LEMMA RewriteLocks ==
  ASSUME LockTypes, NEW p \in Procs, Rewrites(p)
  PROVE  /\ UNCHANGED <<req, before>>
         /\ \A b \in 1 .. NHASH : SameLock(b)
<1>0. \A b \in 1 .. NHASH : b # 0 /\ b \in DOMAIN wlock
  BY Zero DEF LockTypes
<1>1. UNCHANGED <<req, before>> /\ (wlock' = wlock \/ WritewLock(0, p) \/ UnLock(0, p))
  BY DEF Rewrites, BlankData, BlankIdx, Push, Unchain, TakeFree, WriteData, WriteIdx, Link, locks
<1>2. ASSUME NEW b \in 1 .. NHASH PROVE wlock'[b] = wlock[b]
  BY <1>0, <1>1 DEF WritewLock, UnLock
<1> QED BY <1>1, <1>2 DEF SameLock, Free

LEMMA RewriteMaps ==
  ASSUME NEW chain, NEW rank, NEW succ, Good(chain, rank, succ), NEW p \in Procs, Rewrites(p),
         NEW k \in Keys
  PROVE  Mapping(k)' = Mapping(k)
<1>0. Hash[k] \in 1 .. NHASH /\ Hash[k] \in 0 .. NHASH /\ Hash[k] \in Int /\ Hash[k] >= 0 /\ Hash[k] # 0
  BY DbAssumption, Zero
<1>1. LockTypes /\ RecordTypes
  BY Basics
<1>2. SameLock(Hash[k])
  BY <1>0, <1>1, RewriteLocks
<1>3. PICK c, r, s : Good(c, r, s)' /\ Frame(p, chain, rank, succ, c, r, s)
  BY RewriteSafe DEF Passes
<1>4. RecordTypes' /\ Ghosts(c, r, s)
  BY <1>3 DEF Good, Base, DbTypes
<1>5. ASSUME Free(Hash[k]) PROVE Value(k)' = Value(k)
  <2>1. Barred(p, Hash[k])
    BY <1>0, <1>5, FreeMeans DEF Barred
  <2>2. Same(Hash[k], chain, rank, succ, c, r, s)
    BY <1>0, <1>3, <1>4, <2>1, ListKept
  <2>3. PICK v : v = Value(k)
    OBVIOUS
  <2>4. Content(chain, k, v)
    BY <1>5, <2>3, ValueFree
  <2>5. Content(c, k, v)'
    BY <1>1, <1>4, <2>2, <2>4, SameContent
  <2>6. PICK w : w = Value(k)'
    OBVIOUS
  <2>7. Free(Hash[k])'
    BY <1>2, <1>5 DEF SameLock
  <2>8. Content(c, k, Value(k))'
    BY <1>3, <2>7, ValueFreeNext
  <2>9. Content(c, k, w)'
    BY <2>6, <2>8 DEF Content
  <2> QED BY <2>3, <2>5, <2>6, <2>9, ContentIsNext
<1> QED BY <1>2, <1>5, MappingKept

(***************************************************************************)
(* Nor does a step that only reads them, but the return of a call.         *)
(***************************************************************************)
LEMMA ReadLocks ==
  ASSUME LockTypes, NEW p \in Procs, Step(p), ~Rewrites(p), ~Return(p), ~FindStart(p)
  PROVE  /\ UNCHANGED <<req, before>>
         /\ \A b \in 1 .. NHASH : SameLock(b)
<1>0. \A b \in 1 .. NHASH : b # 0 /\ b \in DOMAIN wlock
  BY Zero DEF LockTypes
<1>1. UNCHANGED <<req, before>>
      /\ (wlock' = wlock \/ WritewLock(0, p) \/ ReadwLock(0, p) \/ UnLock(0, p))
  <2>1. CASE DbOpen(p) \/ CreateTable(p) \/ DbClose(p)
    BY <2>1 DEF DbOpen, CreateTable, DbClose, locks
  <2>2. CASE FindNext(p) \/ Found(p) \/ NotFound(p) \/ FetchData(p) \/ Reread(p)
    BY <2>2 DEF FindNext, Found, NotFound, FetchData, Reread, locks
  <2>3. CASE FindFree(p) \/ SearchFree(p) \/ NoneFree(p) \/ AppendData(p) \/ AppendIdx(p)
    BY <2>3 DEF FindFree, SearchFree, NoneFree, AppendData, AppendIdx, SeekEnd, locks
  <2>4. CASE NextStart(p) \/ NextIdx(p) \/ NextEnd(p) \/ NextData(p)
    BY <2>4 DEF NextStart, NextIdx, NextEnd, NextData, locks
  <2> QED BY <2>1, <2>2, <2>3, <2>4 DEF Step, Rewrites
<1>2. ASSUME NEW b \in 1 .. NHASH PROVE wlock'[b] = wlock[b]
  BY <1>0, <1>1 DEF WritewLock, ReadwLock, UnLock
<1> QED BY <1>1, <1>2 DEF SameLock, Free

LEMMA ReadValue ==
  ASSUME NEW chain, NEW rank, NEW succ, Good(chain, rank, succ), NEW p \in Procs,
         Step(p), ~Rewrites(p), NEW k \in Keys, Free(Hash[k]), Free(Hash[k])'
  PROVE  Value(k)' = Value(k)
<1>1. CASE UNCHANGED files
  BY <1>1, ValueStays
<1>2. CASE DbOpen(p) /\ ~UNCHANGED files
  <2>1. /\ \A q \in Procs : where[q] \in {"closed", "create"}
        /\ head' = <<>> /\ idx' = <<>> /\ dat' = <<>>
    BY <1>2 DEF DbOpen
  <2>2. head = <<>> /\ idx = <<>> /\ dat = <<>>
    BY <2>1, Basics DEF Created
  <2> QED BY <1>2, <2>1, <2>2 DEF files
<1>3. CASE CreateTable(p)
  <2>1. Good(chain, rank, succ)' /\ idx' = idx /\ dat' = dat
    BY <1>3, CreateTableSafe DEF CreateTable
  <2>2. PICK v : v = Value(k)
    OBVIOUS
  <2>3. PICK w : w = Value(k)'
    OBVIOUS
  <2>4. Content(chain, k, v)
    BY <2>2, ValueFree
  <2>5. Content(chain, k, v)'
    BY <2>1, <2>4 DEF Content, Has
  <2>6. Content(chain, k, Value(k))'
    BY <2>1, ValueFreeNext
  <2>7. Content(chain, k, w)'
    BY <2>3, <2>6 DEF Content
  <2> QED BY <2>2, <2>3, <2>5, <2>7, ContentIsNext
<1> QED BY <1>1, <1>2, <1>3, ReadFiles

LEMMA ReadMaps ==
  ASSUME NEW chain, NEW rank, NEW succ, Good(chain, rank, succ), NEW p \in Procs,
         Step(p), ~Rewrites(p), ~Return(p), ~FindStart(p), NEW k \in Keys
  PROVE  Mapping(k)' = Mapping(k)
<1>0. Hash[k] \in 1 .. NHASH
  BY DbAssumption
<1>1. SameLock(Hash[k])
  BY <1>0, ReadLocks, Basics
<1>2. Free(Hash[k]) => Value(k)' = Value(k)
  BY <1>1, ReadValue DEF SameLock
<1> QED BY <1>1, <1>2, MappingKept

(* Who locks a chain for writing remembers what was in it.                 *)
LEMMA FindMaps ==
  ASSUME NEW chain, NEW rank, NEW succ, Good(chain, rank, succ), NEW p \in Procs, FindStart(p),
         NEW k \in Keys
  PROVE  Mapping(k)' = Mapping(k)
<1>0. Hash[k] \in 1 .. NHASH /\ Hash[k] \in 0 .. NHASH /\ LockTypes /\ Locked
  BY DbAssumption, Zero, Basics
<1>1. /\ where[p] = "find" /\ UNCHANGED files
      /\ before' = [j \in Keys |-> IF Writes(p) /\ Hash[j] = Chain(p) THEN Value(j) ELSE before[j]]
      /\ (Writes(p) /\ WritewLock(Chain(p), p)) \/ (~Writes(p) /\ ReadwLock(Chain(p), p))
  BY DEF FindStart
<1>2. Chain(p) \in 1 .. NHASH /\ Chain(p) \in 0 .. NHASH /\ Chain(p) \in DOMAIN wlock
  BY <1>0, <1>1, InChain DEF LockTypes
<1>3. Value(k)' = Value(k)
  BY <1>1, ValueStays
<1>4. CASE ~Writes(p)
  <2>1. wlock' = wlock
    BY <1>1, <1>4 DEF ReadwLock
  <2>2. before'[k] = before[k]
    BY <1>1, <1>4
  <2> QED BY <1>3, <2>1, <2>2 DEF Mapping, Free
<1>5. CASE Writes(p) /\ Hash[k] = Chain(p)
  <2>1. p \notin wlock[Chain(p)]
    BY <1>0, <1>1, <1>2 DEF Locked, Writer, Chained
  <2>2. wlock[Chain(p)] \ {p} = {} /\ wlock' = [wlock EXCEPT ![Chain(p)] = @ \cup {p}]
    BY <1>1, <1>5 DEF WritewLock
  <2>3. Free(Hash[k])
    BY <1>5, <2>1, <2>2 DEF Free
  <2>4. ~Free(Hash[k])'
    BY <1>2, <1>5, <2>2 DEF Free
  <2>5. before'[k] = Value(k)
    BY <1>1, <1>5
  <2> QED BY <2>3, <2>4, <2>5 DEF Mapping
<1>6. CASE Writes(p) /\ Hash[k] # Chain(p)
  <2>1. wlock' = [wlock EXCEPT ![Chain(p)] = @ \cup {p}]
    BY <1>1, <1>6 DEF WritewLock
  <2>2. wlock'[Hash[k]] = wlock[Hash[k]]
    BY <1>0, <1>6, <2>1 DEF LockTypes
  <2>3. before'[k] = before[k]
    BY <1>1, <1>6
  <2> QED BY <1>3, <2>2, <2>3 DEF Mapping, Free
<1> QED BY <1>4, <1>5, <1>6

LEMMA CallMaps ==
  ASSUME NEW p \in Procs, NEW r, Call(p, r), NEW k \in Keys
  PROVE  Mapping(k)' = Mapping(k)
<1>1. UNCHANGED files /\ wlock' = wlock /\ before' = before
  BY DEF Call, locks
<1>2. Value(k)' = Value(k)
  BY <1>1, ValueStays
<1> QED BY <1>1, <1>2 DEF Mapping, Free

LEMMA StepMaps ==
  ASSUME NEW chain, NEW rank, NEW succ, Good(chain, rank, succ), NEW p \in Procs,
         Step(p), ~Return(p)
  PROVE  Mapped' = Mapped
<1>1. ASSUME NEW k \in Keys PROVE Mapping(k)' = Mapping(k)
  BY RewriteMaps, ReadMaps, FindMaps
<1> QED BY <1>1 DEF Mapped

(***************************************************************************)
(* What the callers have been told.                                        *)
(***************************************************************************)
OutOfCall == {"closed", "create", "idle", "gone"}
Stays(p) == where[p] \notin OutOfCall /\ where'[p] \notin OutOfCall

LEMMA InsideStays ==
  ASSUME CallTypes, NEW p \in Procs, Step(p), ~DbOpen(p), ~CreateTable(p), ~DbClose(p), ~Return(p),
         ~NextEnd(p), ~NextData(p)
  PROVE  Stays(p)
<1>0. p \in DOMAIN where
  BY DEF CallTypes
<1>1. CASE FindStart(p)
  BY <1>0, <1>1 DEF FindStart, Goes, Stays, OutOfCall
<1>2. CASE FindNext(p)
  BY <1>0, <1>2 DEF FindNext, Goes, Stays, OutOfCall
<1>3. CASE Found(p)
  BY <1>0, <1>3 DEF Found, Goes, Stays, OutOfCall
<1>4. CASE NotFound(p)
  BY <1>0, <1>4 DEF NotFound, Goes, Stays, OutOfCall
<1>5. CASE FetchData(p)
  BY <1>0, <1>5 DEF FetchData, Goes, Stays, OutOfCall
<1>6. CASE BlankData(p)
  BY <1>0, <1>6 DEF BlankData, Goes, Stays, OutOfCall
<1>7. CASE BlankIdx(p)
  BY <1>0, <1>7 DEF BlankIdx, Goes, Stays, OutOfCall
<1>8. CASE Push(p)
  BY <1>0, <1>8 DEF Push, Goes, Stays, OutOfCall
<1>9. CASE Unchain(p)
  BY <1>0, <1>9 DEF Unchain, Goes, Stays, OutOfCall
<1>10. CASE Reread(p)
  BY <1>0, <1>10 DEF Reread, Goes, Stays, OutOfCall
<1>11. CASE FindFree(p)
  BY <1>0, <1>11 DEF FindFree, Goes, Stays, OutOfCall
<1>12. CASE SearchFree(p)
  BY <1>0, <1>12 DEF SearchFree, Goes, Stays, OutOfCall
<1>13. CASE TakeFree(p)
  BY <1>0, <1>13 DEF TakeFree, Goes, Stays, OutOfCall
<1>14. CASE NoneFree(p)
  BY <1>0, <1>14 DEF NoneFree, Goes, Stays, OutOfCall
<1>15. CASE AppendData(p)
  BY <1>0, <1>15 DEF AppendData, SeekEnd, Goes, Stays, OutOfCall
<1>16. CASE AppendIdx(p)
  BY <1>0, <1>16 DEF AppendIdx, SeekEnd, Goes, Stays, OutOfCall
<1>17. CASE WriteData(p)
  BY <1>0, <1>17 DEF WriteData, Goes, Stays, OutOfCall
<1>18. CASE WriteIdx(p)
  BY <1>0, <1>18 DEF WriteIdx, Goes, Stays, OutOfCall
<1>19. CASE Link(p)
  BY <1>0, <1>19 DEF Link, Goes, Stays, OutOfCall
<1>20. CASE NextStart(p)
  BY <1>0, <1>20 DEF NextStart, Goes, Stays, OutOfCall
<1>21. CASE NextIdx(p)
  BY <1>0, <1>21 DEF NextIdx, Goes, Stays, OutOfCall
<1> QED BY <1>1, <1>2, <1>3, <1>4, <1>5, <1>6, <1>7, <1>8, <1>9, <1>10, <1>11, <1>12, <1>13,
           <1>14, <1>15, <1>16, <1>17, <1>18, <1>19, <1>20, <1>21 DEF Step

LEMMA ReplyStays ==
  ASSUME NEW chain, NEW rank, NEW succ, Good(chain, rank, succ), NEW p \in Procs,
         Step(p), ~Return(p)
  PROVE  req' = req /\ Replied(p)' = Replied(p)
<1>0. CallTypes /\ InPlace /\ LockTypes /\ p \in DOMAIN where
  BY Basics DEF CallTypes
<1>1. req' = req
  <2>1. CASE Rewrites(p)
    BY <1>0, <2>1, RewriteLocks
  <2>2. CASE FindStart(p)
    BY <2>2 DEF FindStart
  <2>3. CASE ~Rewrites(p) /\ ~FindStart(p)
    BY <1>0, <2>3, ReadLocks
  <2> QED BY <2>1, <2>2, <2>3
<1>2. CASE DbOpen(p) \/ CreateTable(p) \/ DbClose(p)
  <2>1. where[p] \in OutOfCall /\ where'[p] \in OutOfCall /\ result' = result
    BY <1>0, <1>2 DEF DbOpen, CreateTable, DbClose, Goes, OutOfCall
  <2>2. ~InCall(p) /\ ~InCall(p)'
    BY <2>1 DEF InCall, OutOfCall
  <2> QED BY <1>1, <2>1, <2>2 DEF Replied
<1>3. CASE NextEnd(p) \/ NextData(p)
  <2>1. where[p] \in {"next_idx", "next_data"}
    BY <1>3 DEF NextEnd, NextData
  <2>2. req[p].op = "nextrec"
    BY <1>0, <2>1, CallKnown DEF Ops
  <2>3. ~InCall(p) /\ ~InCall(p)'
    BY <1>1, <2>2 DEF InCall
  <2> QED BY <1>1, <2>2, <2>3 DEF Replied
<1>4. CASE ~DbOpen(p) /\ ~CreateTable(p) /\ ~DbClose(p) /\ ~NextEnd(p) /\ ~NextData(p)
  <2>1. Stays(p)
    BY <1>0, <1>4, InsideStays
  <2>2. InCall(p)' = InCall(p) /\ (~InCall(p) => req[p].op = "nextrec")
    BY <1>1, <2>1 DEF InCall, Stays, OutOfCall
  <2> QED BY <1>1, <2>2 DEF Replied
<1> QED BY <1>1, <1>2, <1>3, <1>4

LEMMA OthersReply ==
  ASSUME NEW p \in Procs, Alone(p), NEW q \in Procs, q # p
  PROVE  Replied(q)' = Replied(q)
BY DEF Alone, Replied, InCall

LEMMA OneReplies ==
  ASSUME NEW p \in Procs, Alone(p), NEW a, Replied(p)' = a
  PROVE  Replies' = [Replies EXCEPT ![p] = a]
<1>1. \A q \in Procs : q # p => Replied(q)' = Replied(q)
  BY OthersReply
<1> QED BY <1>1 DEF Replies

LEMMA StepReplies ==
  ASSUME NEW chain, NEW rank, NEW succ, Good(chain, rank, succ), NEW p \in Procs,
         Step(p), ~Return(p)
  PROVE  req' = req /\ Replies' = Replies
<1>1. req' = req /\ Replied(p)' = Replied(p)
  BY ReplyStays
<1>2. \A q \in Procs : q # p => Replied(q)' = Replied(q)
  BY StepAlone, OthersReply, Basics
<1> QED BY <1>1, <1>2 DEF Replies

LEMMA StepResult ==
  ASSUME CallTypes, NEW p \in Procs, Step(p), ~FetchData(p), ~NextData(p)
  PROVE  result'[p] \in {result[p], None, -1, 0, 1}
<1>0. p \in DOMAIN result
  BY DEF CallTypes
<1>1. CASE DbOpen(p) \/ CreateTable(p) \/ DbClose(p) \/ FindStart(p) \/ FindNext(p) \/ Return(p)
  BY <1>1 DEF DbOpen, CreateTable, DbClose, FindStart, FindNext, Return
<1>2. CASE BlankData(p) \/ BlankIdx(p) \/ Push(p) \/ Reread(p) \/ FindFree(p) \/ SearchFree(p)
  BY <1>2 DEF BlankData, BlankIdx, Push, Reread, FindFree, SearchFree
<1>3. CASE TakeFree(p) \/ NoneFree(p) \/ WriteIdx(p) \/ NextStart(p) \/ NextIdx(p) \/ NextEnd(p)
  BY <1>3 DEF TakeFree, NoneFree, WriteIdx, NextStart, NextIdx, NextEnd
<1>4. CASE Found(p)
  BY <1>0, <1>4 DEF Found
<1>5. CASE NotFound(p)
  BY <1>0, <1>5 DEF NotFound
<1>6. CASE Unchain(p)
  BY <1>0, <1>6 DEF Unchain
<1>7. CASE WriteData(p)
  BY <1>0, <1>7 DEF WriteData
<1>8. CASE Link(p)
  BY <1>0, <1>8 DEF Link
<1>9. CASE AppendData(p)
  BY <1>0, <1>9 DEF AppendData, SeekEnd
<1>10. CASE AppendIdx(p)
  BY <1>0, <1>10 DEF AppendIdx, SeekEnd
<1> QED BY <1>1, <1>2, <1>3, <1>4, <1>5, <1>6, <1>7, <1>8, <1>9, <1>10 DEF Step

(* A call that returned has an answer.                                     *)
Settled == \A p \in Procs : req[p].op # "nextrec" => result[p] # Pending

LEMMA StepSettles ==
  ASSUME NEW chain, NEW rank, NEW succ, Good(chain, rank, succ), NEW p \in Procs, Step(p), Settled
  PROVE  Settled'
<1>0. CallTypes /\ InPlace /\ At(p, chain, rank, succ)
  BY Basics
<1>1. ASSUME NEW q \in Procs, q # p, req'[q].op # "nextrec" PROVE result'[q] # Pending
  BY <1>0, <1>1, StepAlone DEF Alone, Settled
<1>2. req' = req
  BY StepReplies DEF Return
<1>3. ASSUME req[p].op # "nextrec" PROVE result'[p] # Pending
  <2>1. CASE NextData(p)
    <3>1. where[p] = "next_data"
      BY <2>1 DEF NextData
    <3>2. req[p].op = "nextrec"
      BY <1>0, <3>1, CallKnown DEF Ops
    <3> QED BY <1>3, <3>2
  <2>2. CASE FetchData(p)
    <3>1. where[p] = "data" /\ result'[p] = dat[h[p].datoff].data
      BY <1>0, <2>2 DEF FetchData, CallTypes
    <3>2. HasFound(p, chain)
      BY <1>0, <3>1 DEF At, Looks
    <3>3. where[p] \in Chained \ {"blank_idx"}
      BY <3>1 DEF Chained
    <3>4. chain[h[p].idxoff] = Chain(p) /\ h[p].idxoff \in DOMAIN idx /\ h[p].datoff = idx[h[p].idxoff].dat
      BY <3>2 DEF HasFound, Has, Chain, Key
    <3>5. dat[idx[h[p].idxoff].dat].data \in Data
      BY <3>3, <3>4, Stored
    <3> QED BY <3>1, <3>4, <3>5, DbAssumption
  <2>3. CASE ~FetchData(p) /\ ~NextData(p)
    <3>1. result'[p] \in {result[p], None, -1, 0, 1}
      BY <1>0, <2>3, StepResult
    <3>2. result[p] # Pending
      BY <1>3 DEF Settled
    <3> QED BY <3>1, <3>2, DbAssumption
  <2> QED BY <2>1, <2>2, <2>3
<1> QED BY <1>1, <1>2, <1>3 DEF Settled

LEMMA SettledNext ==
  ASSUME Intact, Settled, [DbNext]_dbvars
  PROVE  Settled'
<1>1. PICK chain, rank, succ : Good(chain, rank, succ)
  BY SafeIs
<1>2. ASSUME NEW p \in Procs, Step(p) PROVE Settled'
  BY <1>1, <1>2, StepSettles
<1>3. ASSUME NEW p \in Procs, NEW r \in Calls, Call(p, r) PROVE Settled'
  <2>1. CallTypes
    BY <1>1, Basics
  <2>2. Alone(p)
    BY <1>3, <2>1, CallAlone
  <2>3. result'[p] = None
    BY <1>3, <2>1 DEF Call, CallTypes
  <2>4. None # Pending
    BY DbAssumption
  <2> QED BY <2>2, <2>3, <2>4 DEF Settled, Alone
<1>4. CASE UNCHANGED dbvars
  BY <1>4 DEF dbvars, Settled
<1> QED BY <1>2, <1>3, <1>4 DEF DbNext, AllGone

LEMMA CallInvokes ==
  ASSUME NEW chain, NEW rank, NEW succ, Good(chain, rank, succ), NEW p \in Procs, NEW r \in Calls,
         Call(p, r), Settled
  PROVE  Store!Invoke(p)
<1>0. CallTypes /\ p \in DOMAIN where /\ p \in DOMAIN req /\ p \in DOMAIN result
  BY Basics DEF CallTypes
<1>1. /\ where[p] = "idle" /\ req' = [req EXCEPT ![p] = r] /\ result' = [result EXCEPT ![p] = None]
      /\ where'[p] = CASE r.op = "nextrec" -> "next" [] r.op = "rewind" -> "idle" [] OTHER -> "find"
  BY <1>0 DEF Call, Goes
<1>2. Mapped' = Mapped
  BY CallMaps DEF Mapped
<1>3. Replies[p] # Pending
  <2>1. ~InCall(p)
    BY <1>1 DEF InCall
  <2>2. Replied(p) # Pending
    BY <2>1, DbAssumption DEF Replied, Settled
  <2> QED BY <2>2 DEF Replies
<1>4. PICK a : a = Replied(p)'
  OBVIOUS
<1>5. req'[p] = r
  BY <1>0, <1>1
<1>6. a \in {Pending, None}
  <2>1. CASE r.op \in {"nextrec", "rewind"}
    BY <1>1, <1>4, <1>5, <2>1 DEF Replied, InCall
  <2>2. CASE r.op \notin {"nextrec", "rewind"}
    BY <1>1, <1>4, <1>5, <2>2 DEF Replied, InCall
  <2> QED BY <2>1, <2>2
<1>7. Replies' = [Replies EXCEPT ![p] = a]
  BY <1>0, <1>4, CallAlone, OneReplies
<1> HIDE DEF Mapped, Replies
<1>8. r \in Calls \cup {NoCall}
  OBVIOUS
<1> QED BY <1>1, <1>2, <1>3, <1>6, <1>7, <1>8 DEF Store!Invoke, Mapped, Replies, Mapping, Replied

(***************************************************************************)
(* A call takes effect when it gives its chain back.                       *)
(***************************************************************************)
LEMMA ReturnRest ==
  ASSUME NEW chain, NEW rank, NEW succ, Good(chain, rank, succ), NEW p \in Procs, Return(p)
  PROVE  /\ where[p] = "return" /\ UNCHANGED <<files, req, result, before>>
         /\ req[p].op \in Keyed /\ Key(p) \in Keys /\ Hash[Key(p)] = Chain(p)
         /\ Chain(p) \in 1 .. NHASH
         /\ wlock'[Chain(p)] = wlock[Chain(p)] \ {p}
         /\ \A b \in 1 .. NHASH : b # Chain(p) => wlock'[b] = wlock[b]
         /\ \A k : Value(k)' = Value(k)
         /\ Good(chain, rank, succ)'
<1>0. LockTypes
  BY Basics
<1>1. where[p] = "return" /\ UNCHANGED <<files, req, result, before>> /\ UnLock(Chain(p), p)
  BY DEF Return
<1>2. where[p] \in Chained
  BY <1>1 DEF Chained
<1>3. req[p].op \in Keyed /\ Key(p) \in Keys /\ Hash[Key(p)] = Chain(p) /\ Chain(p) \in 1 .. NHASH
  BY <1>2, InChain
<1>4. \A b \in 1 .. NHASH : b \in DOMAIN wlock
  BY <1>0, Zero DEF LockTypes
<1>5. /\ wlock'[Chain(p)] = wlock[Chain(p)] \ {p}
      /\ \A b \in 1 .. NHASH : b # Chain(p) => wlock'[b] = wlock[b]
  BY <1>1, <1>3, <1>4 DEF UnLock
<1>6. \A k : Value(k)' = Value(k)
  BY <1>1, ValueStays
<1> QED BY <1>1, <1>3, <1>5, <1>6, ReturnSafe

LEMMA ReturnFar ==
  ASSUME NEW chain, NEW rank, NEW succ, Good(chain, rank, succ), NEW p \in Procs, Return(p),
         NEW k \in Keys, Hash[k] # Chain(p)
  PROVE  Mapping(k)' = Mapping(k)
<1>1. Hash[k] \in 1 .. NHASH
  BY DbAssumption
<1>2. wlock'[Hash[k]] = wlock[Hash[k]] /\ Value(k)' = Value(k) /\ before' = before
  BY <1>1, ReturnRest
<1> QED BY <1>2 DEF Mapping, Free

(* The chain of a reader is written by nobody.                             *)
LEMMA ReaderMaps ==
  ASSUME NEW chain, NEW rank, NEW succ, Good(chain, rank, succ), NEW p \in Procs, Return(p), ~Writes(p)
  PROVE  /\ \A k \in Keys : Mapping(k)' = Mapping(k)
         /\ Content(chain, Key(p), Mapping(Key(p)))
<1>0. LockTypes /\ Locked /\ Excluded
  BY Basics
<1>1. Reader(p)
  BY ReturnRest DEF Reader, Chained
<1>2. Chain(p) \in 1 .. NHASH
  BY ReturnRest
<1>3. Free(Chain(p))
  <2>1. ASSUME NEW q \in wlock[Chain(p)] PROVE FALSE
    <3>1. q \in Procs
      BY <1>0, <1>2, Zero DEF LockTypes
    <3>2. Writer(q) /\ Chain(q) = Chain(p)
      BY <1>0, <1>2, <2>1, <3>1 DEF Locked
    <3>3. q # p
      BY <1>1, <3>2 DEF Reader, Writer
    <3> QED BY <1>0, <1>1, <3>1, <3>2, <3>3 DEF Excluded
  <2> QED BY <2>1 DEF Free
<1>4. wlock'[Chain(p)] = {}
  BY <1>3, ReturnRest DEF Free
<1>5. ASSUME NEW k \in Keys PROVE Mapping(k)' = Mapping(k)
  <2>1. CASE Hash[k] # Chain(p)
    BY <2>1, ReturnFar
  <2>2. CASE Hash[k] = Chain(p)
    <3>1. Free(Hash[k]) /\ Free(Hash[k])'
      BY <1>3, <1>4, <2>2 DEF Free
    <3>2. Value(k)' = Value(k)
      BY ReturnRest
    <3> QED BY <3>1, <3>2 DEF Mapping
  <2> QED BY <2>1, <2>2
<1>6. Content(chain, Key(p), Mapping(Key(p)))
  <2>1. Key(p) \in Keys /\ Free(Hash[Key(p)])
    BY <1>3, ReturnRest
  <2>2. Content(chain, Key(p), Value(Key(p)))
    BY <2>1, ValueFree
  <2> QED BY <2>1, <2>2 DEF Mapping
<1> QED BY <1>5, <1>6

(* In the chain of a writer the map is what was there before, until now.   *)
LEMMA WriterMaps ==
  ASSUME NEW chain, NEW rank, NEW succ, Good(chain, rank, succ), NEW p \in Procs, Return(p), Writes(p)
  PROVE  /\ \A k \in Keys \ {Key(p)} : Mapping(k)' = Mapping(k)
         /\ Mapping(Key(p)) = before[Key(p)]
         /\ \A v : Content(chain, Key(p), v) => Mapping(Key(p))' = v
<1>0. LockTypes /\ Locked /\ Excluded /\ Changes(p, chain)
  BY Basics DEF At
<1>1. Writer(p)
  BY ReturnRest DEF Writer, Chained
<1>2. Chain(p) \in 1 .. NHASH /\ Chain(p) \in 0 .. NHASH /\ Key(p) \in Keys /\ Hash[Key(p)] = Chain(p)
  BY ReturnRest, Zero
<1>3. p \in wlock[Chain(p)] /\ wlock[Chain(p)] \subseteq Procs
  BY <1>0, <1>1, <1>2 DEF Locked, LockTypes
<1>4. ASSUME NEW q \in wlock[Chain(p)] PROVE q = p
  <2>1. q \in Procs
    BY <1>3
  <2>2. Writer(q) /\ Chain(q) = Chain(p)
    BY <1>0, <1>2, <1>4, <2>1 DEF Locked
  <2> QED BY <1>0, <1>1, <2>1, <2>2 DEF Excluded
<1>5. wlock'[Chain(p)] = {}
  BY <1>4, ReturnRest
<1>6. ASSUME NEW k \in Keys, Hash[k] = Chain(p)
      PROVE  /\ Mapping(k) = before[k]
             /\ \A v : Content(chain, k, v) => Mapping(k)' = v
  <2>1. Mapping(k) = before[k]
    BY <1>3, <1>6 DEF Mapping, Free
  <2>2. Free(Hash[k])'
    BY <1>5, <1>6 DEF Free
  <2>3. Mapping(k)' = Value(k)'
    BY <2>2 DEF Mapping
  <2>4. PICK w : w = Value(k)'
    OBVIOUS
  <2>5. Content(chain, k, Value(k))'
    BY <2>2, ReturnRest, ValueFreeNext
  <2>6. Content(chain, k, w)'
    BY <2>4, <2>5 DEF Content
  <2>7. ASSUME NEW v, Content(chain, k, v) PROVE v = w
    <3>1. idx' = idx /\ dat' = dat
      BY ReturnRest DEF files
    <3>2. Content(chain, k, v)'
      BY <2>7, <3>1 DEF Content, Has
    <3> QED BY <2>6, <3>2, ContentIsNext
  <2> QED BY <2>1, <2>3, <2>4, <2>7
<1>7. ASSUME NEW k \in Keys \ {Key(p)} PROVE Mapping(k)' = Mapping(k)
  <2>1. CASE Hash[k] # Chain(p)
    BY <2>1, ReturnFar
  <2>2. CASE Hash[k] = Chain(p)
    <3>1. Content(chain, k, before[k])
      BY <1>0, <1>1, <2>2 DEF Changes
    <3> QED BY <1>6, <2>2, <3>1
  <2> QED BY <2>1, <2>2
<1>8. ASSUME NEW v, Content(chain, Key(p), v) PROVE Mapping(Key(p))' = v
  <2>1. PICK k : k = Key(p)
    OBVIOUS
  <2>2. Mapping(k)' = v
    BY <1>2, <1>6, <1>8, <2>1
  <2> QED BY <2>1, <2>2, ReturnRest DEF Key
<1> QED BY <1>2, <1>6, <1>7, <1>8

LEMMA ReturnReplies ==
  ASSUME NEW chain, NEW rank, NEW succ, Good(chain, rank, succ), NEW p \in Procs, Return(p)
  PROVE  /\ Replies[p] = Pending /\ req' = req
         /\ Replies' = [Replies EXCEPT ![p] = result[p]]
<1>0. CallTypes /\ p \in DOMAIN where
  BY Basics DEF CallTypes
<1>1. /\ where[p] = "return" /\ req' = req /\ result' = result /\ where'[p] = "idle"
      /\ req[p].op \in Keyed
  BY <1>0, ReturnRest DEF Return, Goes
<1>2. req[p].op # "nextrec" /\ req[p].op # "rewind"
  BY <1>1 DEF Keyed
<1>3. Replied(p) = Pending
  BY <1>1, <1>2 DEF Replied, InCall
<1>4. Replied(p)' = result[p]
  BY <1>1, <1>2 DEF Replied, InCall
<1>5. Step(p)
  BY DEF Step
<1>6. Alone(p)
  BY <1>0, <1>5, StepAlone
<1>7. PICK a : a = result[p]
  OBVIOUS
<1>8. Replies' = [Replies EXCEPT ![p] = a]
  BY <1>4, <1>6, <1>7, OneReplies
<1>9. Replies[p] = Pending
  BY <1>3 DEF Replies
<1> QED BY <1>1, <1>7, <1>8, <1>9

(* The map that a writer leaves.                                           *)
LEMMA Remapped ==
  ASSUME NEW k \in Keys, NEW v, \A j \in Keys \ {k} : Mapping(j)' = Mapping(j), Mapping(k)' = v
  PROVE  /\ Mapped' = [Mapped EXCEPT ![k] = v]
         /\ v = Mapping(k) => Mapped' = Mapped
BY DEF Mapped

LEMMA ReturnAnswers ==
  ASSUME NEW chain, NEW rank, NEW succ, Good(chain, rank, succ), NEW p \in Procs, Return(p)
  PROVE  Store!Fetch(p) \/ Store!Delete(p) \/ Store!Store(p)
<1>0. Key(p) \in Keys /\ Key(p) = req[p].key /\ where[p] = "return" /\ Returns(p, chain)
  BY ReturnRest, Basics DEF Key, At
<1>1. /\ Replies[p] = Pending /\ req' = req
      /\ Replies' = [Replies EXCEPT ![p] = result[p]]
  BY ReturnReplies
<1>2. Mapped[Key(p)] = Mapping(Key(p))
  BY <1>0 DEF Mapped
<1>3. CASE ~Writes(p)
  <2>1. Mapped' = Mapped /\ Content(chain, Key(p), Mapping(Key(p)))
    BY <1>3, ReaderMaps DEF Mapped
  <2>2. req[p].op = "fetch"
    BY <1>3 DEF Writes
  <2>3. Content(chain, Key(p), result[p])
    BY <1>0, <2>2 DEF Returns, Answers
  <2>4. PICK k : k = Key(p)
    OBVIOUS
  <2>5. PICK v : v = result[p]
    OBVIOUS
  <2>6. PICK w : w = Mapping(Key(p))
    OBVIOUS
  <2>7. v = w
    BY <2>1, <2>3, <2>4, <2>5, <2>6, ContentIs
  <2>8. result[p] = Mapped[req[p].key]
    BY <1>0, <1>2, <2>5, <2>6, <2>7
  <2>9. Store!Fetch(p)
    BY <1>1, <2>1, <2>2, <2>8 DEF Store!Fetch, Store!Answer, Mapped, Replies, Mapping, Replied
  <2> QED BY <2>9
<1>4. CASE Writes(p)
  <2>1. /\ \A k \in Keys \ {Key(p)} : Mapping(k)' = Mapping(k)
        /\ Mapped[req[p].key] = before[Key(p)]
        /\ \A v : Content(chain, Key(p), v) => Mapping(Key(p))' = v
    BY <1>0, <1>2, <1>4, WriterMaps
  <2>2. ASSUME NEW v, Content(chain, Key(p), v)
        PROVE  /\ Mapped' = [Mapped EXCEPT ![req[p].key] = v]
               /\ v = before[Key(p)] => Mapped' = Mapped
    <3>1. PICK k : k = Key(p)
      OBVIOUS
    <3>2. Mapping(k)' = v
      BY <2>1, <2>2, <3>1, ReturnRest DEF Key
    <3>3. /\ Mapped' = [Mapped EXCEPT ![k] = v]
          /\ v = Mapping(k) => Mapped' = Mapped
      BY <1>0, <2>1, <3>1, <3>2, Remapped
    <3> QED BY <1>0, <1>2, <2>1, <3>1, <3>3
  <2>3. req[p].op # "fetch"
    BY <1>4 DEF Writes
  <2>4. CASE Answers(p, chain, "delete", -1, None) /\ before[Key(p)] = None
    <3>1. /\ req[p].op = "delete" /\ result[p] = -1
          /\ Mapped' = [Mapped EXCEPT ![req[p].key] = None]
      BY <2>2, <2>4 DEF Answers
    <3>2. Store!Delete(p)
      BY <1>1, <2>1, <2>4, <3>1 DEF Store!Delete, Store!Answer, Mapped, Replies, Mapping, Replied
    <3> QED BY <3>2
  <2>5. CASE Answers(p, chain, "delete", 0, None) /\ before[Key(p)] # None
    <3>1. /\ req[p].op = "delete" /\ result[p] = 0
          /\ Mapped' = [Mapped EXCEPT ![req[p].key] = None]
      BY <2>2, <2>5 DEF Answers
    <3>2. Store!Delete(p)
      BY <1>1, <2>1, <2>5, <3>1 DEF Store!Delete, Store!Answer, Mapped, Replies, Mapping, Replied
    <3> QED BY <3>2
  <2>6. CASE Answers(p, chain, "insert", 0, New(p)) /\ before[Key(p)] = None
    <3>1. /\ req[p].op = "insert" /\ result[p] = 0
          /\ Mapped' = [Mapped EXCEPT ![req[p].key] = req[p].data]
      BY <2>2, <2>6 DEF Answers, New
    <3>2. Store!Store(p)
      BY <1>1, <2>1, <2>6, <3>1 DEF Store!Store, Store!Answer, Mapped, Replies, Mapping, Replied
    <3> QED BY <3>2
  <2>7. CASE Answers(p, chain, "insert", 1, before[Key(p)]) /\ before[Key(p)] # None
    <3>1. req[p].op = "insert" /\ result[p] = 1 /\ Mapped' = Mapped
      BY <2>2, <2>7 DEF Answers
    <3>2. Store!Store(p)
      BY <1>1, <2>1, <2>7, <3>1 DEF Store!Store, Store!Answer, Mapped, Replies, Mapping, Replied
    <3> QED BY <3>2
  <2>8. CASE Answers(p, chain, "replace", -1, None) /\ before[Key(p)] = None
    <3>1. req[p].op = "replace" /\ result[p] = -1 /\ Mapped' = Mapped
      BY <2>2, <2>8 DEF Answers
    <3>2. Store!Store(p)
      BY <1>1, <2>1, <2>8, <3>1 DEF Store!Store, Store!Answer, Mapped, Replies, Mapping, Replied
    <3> QED BY <3>2
  <2>9. CASE Answers(p, chain, "replace", 0, New(p)) /\ before[Key(p)] # None
    <3>1. /\ req[p].op = "replace" /\ result[p] = 0
          /\ Mapped' = [Mapped EXCEPT ![req[p].key] = req[p].data]
      BY <2>2, <2>9 DEF Answers, New
    <3>2. Store!Store(p)
      BY <1>1, <2>1, <2>9, <3>1 DEF Store!Store, Store!Answer, Mapped, Replies, Mapping, Replied
    <3> QED BY <3>2
  <2>10. CASE Answers(p, chain, "store", 0, New(p))
    <3>1. /\ req[p].op = "store" /\ result[p] = 0
          /\ Mapped' = [Mapped EXCEPT ![req[p].key] = req[p].data]
      BY <2>2, <2>10 DEF Answers, New
    <3>2. Store!Store(p)
      BY <1>1, <3>1 DEF Store!Store, Store!Answer, Mapped, Replies, Mapping, Replied
    <3> QED BY <3>2
  <2> QED BY <1>0, <2>3, <2>4, <2>5, <2>6, <2>7, <2>8, <2>9, <2>10 DEF Returns
<1> QED BY <1>3, <1>4

LEMMA DbSteps ==
  ASSUME Intact, Settled, [DbNext]_dbvars
  PROVE  [Store!Next]_(Store!vars)
<1>1. PICK chain, rank, succ : Good(chain, rank, succ)
  BY SafeIs
<1>2. ASSUME Mapped' = Mapped, req' = req, Replies' = Replies
      PROVE  UNCHANGED Store!vars
  BY <1>2 DEF Store!vars, Mapped, Replies, Mapping, Replied
<1>3. ASSUME NEW p \in Procs, Step(p) PROVE [Store!Next]_(Store!vars)
  <2>1. CASE Return(p)
    <3>1. Store!Fetch(p) \/ Store!Delete(p) \/ Store!Store(p)
      BY <1>1, <2>1, ReturnAnswers
    <3> QED BY <3>1 DEF Store!Next
  <2>2. CASE ~Return(p)
    BY <1>1, <1>2, <1>3, <2>2, StepMaps, StepReplies
  <2> QED BY <2>1, <2>2
<1>4. ASSUME NEW p \in Procs, NEW r \in Calls, Call(p, r) PROVE [Store!Next]_(Store!vars)
  <2>1. Store!Invoke(p)
    BY <1>1, <1>4, CallInvokes
  <2> QED BY <2>1 DEF Store!Next
<1>5. CASE UNCHANGED dbvars
  <2>1. /\ UNCHANGED files /\ wlock' = wlock /\ before' = before /\ where' = where /\ req' = req
        /\ result' = result
    BY <1>5 DEF dbvars, locks
  <2>2. \A k : Value(k)' = Value(k)
    BY <2>1, ValueStays
  <2>3. Mapped' = Mapped
    BY <2>1, <2>2 DEF Mapped, Mapping, Free
  <2>4. Replies' = Replies
    BY <2>1 DEF Replies, Replied, InCall
  <2> QED BY <1>2, <2>1, <2>3, <2>4
<1> QED BY <1>3, <1>4, <1>5 DEF DbNext, AllGone

LEMMA StoreInit == DbInit => Store!Init /\ Settled
<1> SUFFICES ASSUME DbInit PROVE Store!Init /\ Settled
  OBVIOUS
<1>1. /\ head = <<>> /\ wlock = [b \in 0 .. NHASH |-> {}]
      /\ where = [p \in Procs |-> "closed"] /\ req = [p \in Procs |-> NoCall]
  BY DEF DbInit
<1>2. ASSUME NEW k \in Keys PROVE Mapping(k) = None
  <2>1. Hash[k] \in 0 .. NHASH
    BY DbAssumption, Zero
  <2>2. Free(Hash[k])
    BY <1>1, <2>1 DEF Free
  <2>3. Trail(Hash[k]) = {}
    BY <1>1 DEF Trail
  <2>4. Value(k) = None
    BY <2>3 DEF Value
  <2> QED BY <2>2, <2>4 DEF Mapping
<1>3. ASSUME NEW p \in Procs PROVE Replied(p) = None
  <2>1. where[p] = "closed" /\ req[p].op = "rewind"
    BY <1>1 DEF NoCall
  <2> QED BY <2>1 DEF Replied, InCall
<1>4. Mapped = [k \in Keys |-> None]
  BY <1>2 DEF Mapped
<1>5. Replies = [p \in Procs |-> None]
  BY <1>3 DEF Replies
<1>6. req \in [Procs -> Calls \cup {NoCall}]
  BY <1>1
<1>7. Store!Init
  BY <1>4, <1>5, <1>6 DEF Store!Init, Mapped, Replies, Mapping, Replied
<1>8. Settled
  BY DbAssumption DEF DbInit, Settled
<1> QED BY <1>7, <1>8

(* To its callers the database is a map: each fetch, store and delete      *)
(* takes effect at the instant its chain is unlocked, and what a process   *)
(* does to the files in the middle of one is seen by nobody                *)
(* (db.c:277-410, 558-760).                                                *)
THEOREM DbImplementsStore == DbSpec => ImplementsStore
<1>1. DbInit => Store!Init /\ Settled
  BY StoreInit
<1>2. Intact /\ Settled /\ [DbNext]_dbvars => Settled'
  BY SettledNext
<1>3. Intact /\ Settled /\ [DbNext]_dbvars => [Store!Next]_(Store!vars)
  BY DbSteps
<1> QED BY <1>1, <1>2, <1>3, DbSafe, PTL DEF DbSpec, ImplementsStore, Store!Spec
=============================================================================

-------------------------------- MODULE Printd --------------------------------
(***************************************************************************)
(* The print spooling daemon of apue.3e/printer/printd.c: a thread for     *)
(* each client spools a file, a printer thread prints the spooled files in *)
(* turn, a signal thread serves SIGHUP and SIGTERM, and main queues at a   *)
(* start what an earlier run left on the spool.                            *)
(*                                                                         *)
(* A step is one system call on the spool, or one critical section.  The   *)
(* daemon may stop at any moment: by a crash, by SIGTERM (which cancels    *)
(* the workers, so some steps they might have made are not made) or by an  *)
(* exit of its own.  The files of the spool are all that is left then.     *)
(***************************************************************************)
EXTENDS Integers, Sequences, FiniteSets

CONSTANTS
  Clients,     \* the clients; each connects once
  Senders,     \* those that send a request before the daemon gives them up
  MaxJob,      \* the largest job number
  MaxStops,    \* bound: how often the daemon is stopped
  NULL

ASSUME PrintdAssumption ==
  /\ IsFiniteSet(Clients) /\ Senders \subseteq Clients /\ NULL \notin Clients
  /\ MaxJob \in Nat \ {0} /\ MaxStops \in Nat

VARIABLES
  data,        \* the data file of each job number: whose it is, and whether
               \* all that the daemon reads of it is there
  reqs,        \* its control file: whose it is, whether it is written
  jobfile,     \* the job file: a number, or 0 when it is empty
  main,        \* what main is at: "down", "start", "signal",
               \* "discard" or "serve"
  names,       \* the names build_qonstart has still to read
  nextjob, queue,
  printer,     \* where the printer thread is
  cur,         \* the job it has picked up
  pc,          \* where each client's thread is
  job,         \* its job number
  workers, next, prev, \* the list of workers: its head and its links
  nodes,       \* the workers whose list entry is allocated
  stuck,       \* a thread walks the list for ever, with workerlock held
  told,        \* history: the clients that were told their job is accepted
  printed,     \* history: the data files the printer has taken
  dropped,     \* history: the jobs this run has given up
  lost,        \* history: the clients whose job a start has deleted
  stops

spool == <<data, reqs, jobfile>>
jobs == <<nextjob, queue>>
thread == <<printer, cur>>
client == <<pc, job, told>>
list == <<workers, next, prev, nodes, stuck>>
history == <<printed, dropped, lost, stops>>
vars == <<spool, main, names, jobs, thread, client, list, history>>

Numbers == 1 .. MaxJob
File(c, how) == [of |-> c, how |-> how]
NoFile == File(NULL, "none")

Init ==
  /\ data = [n \in Numbers |-> NoFile] /\ reqs = [n \in Numbers |-> NoFile]
  /\ jobfile = 0
  /\ main = "down" /\ names = {}
  /\ nextjob = 1 /\ queue = <<>>
  /\ printer = "get" /\ cur = 0
  /\ pc = [c \in Clients |-> "out"] /\ job = [c \in Clients |-> 0]
  /\ workers = NULL /\ nodes = {} /\ stuck = FALSE
  /\ next = [c \in Clients |-> NULL] /\ prev = [c \in Clients |-> NULL]
  /\ told = {}
  /\ printed = {} /\ dropped = {} /\ lost = {} /\ stops = 0

(***************************************************************************)
(* main: init_request, build_qonstart, which runs while the printer thread *)
(* prints, and the loop that accepts connections.                          *)
(***************************************************************************)
Start ==
  /\ main = "down"
  /\ nextjob' = IF jobfile = 0 THEN 1 ELSE jobfile
  /\ names' = {n \in Numbers : reqs[n] # NoFile}
  /\ main' = "start"
  /\ UNCHANGED <<spool, queue, thread, client, list, history>>

ReadName(n) ==
  /\ main = "start" /\ n \in names /\ reqs[n].how = "all"
  /\ names' = names \ {n}
  /\ queue' = Append(queue, n)
  /\ main' = "signal"
  /\ UNCHANGED <<spool, nextjob, thread, client, list, history>>

SkipName(n) ==         \* it cannot be opened, or is not there any more
  /\ main = "start" /\ n \in names
  /\ names' = names \ {n} /\ dropped' = dropped \cup {n}
  /\ UNCHANGED <<spool, main, jobs, thread, client, list, printed, lost, stops>>

SkipNames ==           \* the directory cannot be opened, or be read further
  /\ main = "start" /\ names # {}
  /\ names' = {} /\ dropped' = dropped \cup names
  /\ UNCHANGED <<spool, main, jobs, thread, client, list, printed, lost, stops>>

DiscardName(n) ==      \* it is empty, or cannot be read
  /\ main = "start" /\ n \in names /\ reqs[n] # NoFile
  /\ reqs' = [reqs EXCEPT ![n] = NoFile]
  /\ lost' = lost \cup {c \in Clients : reqs[n] = File(c, "all")}
  /\ main' = "discard"
  /\ UNCHANGED <<data, jobfile, names, jobs, thread, client, list, printed, dropped, stops>>

DiscardData(n) ==
  /\ main = "discard" /\ n \in names /\ reqs[n] = NoFile
  /\ names' = names \ {n} /\ data' = [data EXCEPT ![n] = NoFile]
  /\ main' = "start"
  /\ UNCHANGED <<reqs, jobfile, jobs, thread, client, list, history>>

SignalPrinter ==
  /\ printer' = IF printer = "asleep" THEN "get" ELSE printer
  /\ UNCHANGED cur

SignalName ==
  /\ main = "signal"
  /\ SignalPrinter
  /\ main' = "start"
  /\ UNCHANGED <<spool, names, jobs, client, list, history>>

Serve ==
  /\ main = "start" /\ names = {}
  /\ main' = "serve"
  /\ UNCHANGED <<spool, names, jobs, thread, client, list, history>>

Stop ==
  /\ main # "down" /\ stops < MaxStops
  /\ stops' = stops + 1
  /\ main' = "down" /\ names' = {}
  /\ queue' = <<>> /\ printer' = "get" /\ cur' = 0
  /\ pc' = [c \in Clients |-> IF pc[c] = "out" THEN "out" ELSE "done"]
  /\ workers' = NULL /\ nodes' = {} /\ stuck' = FALSE
  /\ next' = [c \in Clients |-> NULL] /\ prev' = [c \in Clients |-> NULL]
  /\ dropped' = {} /\ nextjob' = 1
  /\ UNCHANGED <<spool, job, told, printed, lost>>

(***************************************************************************)
(* The list of workers.  add_worker does not make a new entry the head of  *)
(* a list that is not empty, so a freed entry may stay the head.  What a   *)
(* thread does with a freed entry is undefined: malloc may have given it   *)
(* to the new worker, and a walk may find nothing or never end.            *)
(***************************************************************************)
Walk[i \in 0 .. Cardinality(Clients)] ==
  IF i = 0 THEN workers ELSE IF Walk[i - 1] \in nodes THEN next[Walk[i - 1]] ELSE Walk[i - 1]

Listed == {Walk[i] : i \in DOMAIN Walk} \cap nodes
WalkEnd == Walk[Cardinality(Clients)]

Accept(c) ==           \* main accepts; the new thread's first act is add_worker
  /\ main = "serve" /\ pc[c] = "out" /\ ~stuck
  /\ nodes' = nodes \cup {c}
  /\ \/ /\ workers \in nodes \cup {NULL}
        /\ workers' = IF workers = NULL THEN c ELSE workers
        /\ prev' = IF workers = NULL THEN prev ELSE [prev EXCEPT ![workers] = c]
        /\ next' = [next EXCEPT ![c] = workers]
     \/ /\ workers \notin nodes \cup {NULL}
        /\ \/ next' = [next EXCEPT ![c] = workers] /\ UNCHANGED <<workers, prev>>
           \/ /\ workers' = c
              /\ next' = [next EXCEPT ![c] = c] /\ prev' = [prev EXCEPT ![c] = c]
  /\ pc' = [pc EXCEPT ![c] = "header"]
  /\ UNCHANGED <<spool, main, names, jobs, thread, job, told, stuck, history>>

Cleanup(c) ==          \* client_cleanup
  /\ pc[c] = "cleanup" /\ ~stuck
  /\ \/ /\ c \in Listed
        /\ prev' = IF next[c] = NULL THEN prev ELSE [prev EXCEPT ![next[c]] = prev[c]]
        /\ next' = IF prev[c] = NULL THEN next ELSE [next EXCEPT ![prev[c]] = next[c]]
        /\ workers' = IF prev[c] = NULL THEN next[c] ELSE workers
        /\ nodes' = nodes \ {c}
        /\ UNCHANGED stuck
     \/ c \notin Listed /\ WalkEnd \notin nodes /\ UNCHANGED list
     \/ c \notin Listed /\ WalkEnd # NULL /\ stuck' = TRUE /\ UNCHANGED <<workers, next, prev, nodes>>
  /\ pc' = [pc EXCEPT ![c] = IF stuck' THEN "cleanup" ELSE "done"]
  /\ UNCHANGED <<spool, main, names, jobs, thread, job, told, history>>

(***************************************************************************)
(* client_thread.  Every step of it may fail: the client is told so, what  *)
(* was put on the spool is taken off it, and the thread ends.              *)
(***************************************************************************)
Go(c, from, to) == pc[c] = from /\ pc' = [pc EXCEPT ![c] = to]

Remove(file, c) == [file EXCEPT ![job[c]] = NoFile]

Finish(file, c) ==        \* a file that was unlinked meanwhile stays so
  [file EXCEPT ![job[c]] = IF @.of = c THEN File(c, "all") ELSE @]

ReadHeader_NoCount(c) ==       \* mutant: two threads read the same number
  \/ /\ c \in Senders /\ Go(c, "header", "create")
     /\ job' = [job EXCEPT ![c] = nextjob]
     /\ UNCHANGED <<spool, main, names, jobs, thread, told, list, history>>
  \/ /\ Go(c, "header", "cleanup")
     /\ UNCHANGED <<spool, main, names, jobs, thread, job, told, list, history>>

ReadHeader(c) ==       \* and get_newjobno
  \/ /\ c \in Senders /\ Go(c, "header", "create")
     /\ job' = [job EXCEPT ![c] = nextjob]
     /\ nextjob' = IF nextjob = MaxJob THEN 1 ELSE nextjob + 1
     /\ UNCHANGED <<spool, main, names, queue, thread, told, list, history>>
  \/ /\ Go(c, "header", "cleanup")
     /\ UNCHANGED <<spool, main, names, jobs, thread, job, told, list, history>>

CreateData(c) ==
  /\ \/ Go(c, "create", "read") /\ data' = [data EXCEPT ![job[c]] = File(c, "part")]
     \/ Go(c, "create", "cleanup") /\ UNCHANGED data
  /\ UNCHANGED <<reqs, jobfile, main, names, jobs, thread, job, told, list, history>>

ReadData(c) ==         \* a client silent for 20 seconds is taken to have ended
  /\ \/ /\ Go(c, "read", "create_request")
        /\ data' = Finish(data, c)
     \/ Go(c, "read", "cleanup") /\ data' = Remove(data, c)
  /\ UNCHANGED <<reqs, jobfile, main, names, jobs, thread, job, told, list, history>>

CreateRequest(c) ==
  /\ \/ /\ Go(c, "create_request", "write_request")
        /\ reqs' = [reqs EXCEPT ![job[c]] = File(c, "empty")]
        /\ UNCHANGED data
     \/ /\ Go(c, "create_request", "cleanup") /\ data' = Remove(data, c)
        /\ UNCHANGED reqs
  /\ UNCHANGED <<jobfile, main, names, jobs, thread, job, told, list, history>>

WriteRequest(c) ==
  /\ \/ Go(c, "write_request", "reply") /\ reqs' = Finish(reqs, c)
     \/ Go(c, "write_request", "unlink") /\ reqs' = Remove(reqs, c)
  /\ UNCHANGED <<data, jobfile, main, names, jobs, thread, job, told, list, history>>

RemoveData(c) ==
  /\ Go(c, "unlink", "cleanup") /\ data' = Remove(data, c)
  /\ UNCHANGED <<reqs, jobfile, main, names, jobs, thread, job, told, list, history>>

Reply(c) ==
  /\ Go(c, "reply", "add")
  /\ told' = told \cup {c}
  /\ UNCHANGED <<spool, main, names, jobs, thread, job, list, history>>

AddJob(c) ==           \* add_job: the job is signalled after joblock is free
  /\ Go(c, "add", "signal")
  /\ queue' = Append(queue, job[c])
  /\ UNCHANGED <<spool, main, names, nextjob, thread, job, told, list, history>>

SignalJob_Silent(c) ==         \* mutant: add_job does not signal
  /\ Go(c, "signal", "cleanup")
  /\ UNCHANGED <<spool, main, names, jobs, thread, job, told, list, history>>

SignalJob(c) ==
  /\ Go(c, "signal", "cleanup")
  /\ SignalPrinter
  /\ UNCHANGED <<spool, main, names, jobs, job, told, list, history>>

(***************************************************************************)
(* printer_thread.  A job the printer does not take goes back to the head  *)
(* of the queue; one whose data file cannot be opened is given up.         *)
(***************************************************************************)
PrinterGoes(from, to) == main # "down" /\ printer = from /\ printer' = to

GetJob ==
  /\ PrinterGoes("get", IF queue = <<>> THEN "asleep" ELSE "number")
  /\ cur' = IF queue = <<>> THEN 0 ELSE Head(queue)
  /\ queue' = IF queue = <<>> THEN queue ELSE Tail(queue)
  /\ UNCHANGED <<spool, main, names, nextjob, client, list, history>>

SpuriousWakeup ==
  /\ PrinterGoes("asleep", "get")
  /\ UNCHANGED <<spool, main, names, jobs, cur, client, list, history>>

UpdateJobno ==
  /\ PrinterGoes("number", "open")
  /\ jobfile' = nextjob
  /\ UNCHANGED <<data, reqs, main, names, jobs, cur, client, list, history>>

OpenData ==
  \/ /\ PrinterGoes("open", "send") /\ data[cur] # NoFile
     /\ UNCHANGED <<spool, main, names, jobs, cur, client, list, history>>
  \/ /\ PrinterGoes("open", "get")
     /\ cur' = 0 /\ dropped' = dropped \cup {cur}
     /\ UNCHANGED <<spool, main, names, jobs, client, list, printed, lost, stops>>

Send_Unconfirmed(to) ==        \* mutant: any answer counts as success
  /\ PrinterGoes("send", to)
  /\ printed' \in {(printed \cup {data[cur]}) \ {NoFile}, printed}
  /\ UNCHANGED <<spool, main, names, jobs, cur, client, list, dropped, lost, stops>>

Send(to) ==            \* taken or not, and the answer that it was, or none
  /\ PrinterGoes("send", to)
  /\ printed' \in {(printed \cup {data[cur]}) \ {NoFile}}
                    \cup IF to = "replace" THEN {printed} ELSE {}
  /\ UNCHANGED <<spool, main, names, jobs, cur, client, list, dropped, lost, stops>>

UnlinkData ==
  /\ PrinterGoes("unlink_data", "unlink_request")
  /\ data' = [data EXCEPT ![cur] = NoFile]
  /\ UNCHANGED <<reqs, jobfile, main, names, jobs, cur, client, list, history>>

UnlinkRequest ==
  /\ PrinterGoes("unlink_request", "get")
  /\ reqs' = [reqs EXCEPT ![cur] = NoFile]
  /\ cur' = 0
  /\ UNCHANGED <<data, jobfile, main, names, jobs, client, list, history>>

ReplaceJob_Frees ==            \* mutant: a deferred job is not put back
  /\ PrinterGoes("replace", "get")
  /\ cur' = 0
  /\ UNCHANGED <<spool, main, names, jobs, client, list, history>>

ReplaceJob ==          \* and sleep for a minute
  /\ PrinterGoes("replace", "get")
  /\ queue' = <<cur>> \o queue
  /\ cur' = 0
  /\ UNCHANGED <<spool, main, names, nextjob, client, list, history>>

(***************************************************************************)
(* The specification.  Clients are bounded in what they make the daemon    *)
(* wait for by its timeouts; the daemon is started again after a stop; and *)
(* a printer that is tried again and again takes the job in the end.       *)
(***************************************************************************)
Main ==
  \/ Start \/ SkipNames \/ SignalName \/ Serve
  \/ \E n \in Numbers : ReadName(n) \/ SkipName(n) \/ DiscardName(n) \/ DiscardData(n)

Client(c) ==
  \/ ReadHeader(c) \/ CreateData(c) \/ ReadData(c)
  \/ CreateRequest(c) \/ WriteRequest(c) \/ RemoveData(c)
  \/ Reply(c) \/ AddJob(c) \/ SignalJob(c) \/ Cleanup(c)

Printer ==
  \/ GetJob \/ UpdateJobno \/ OpenData
  \/ Send("unlink_data") \/ Send("replace")
  \/ UnlinkData \/ UnlinkRequest \/ ReplaceJob

Next ==
  \/ Main \/ Stop \/ SpuriousWakeup \/ Printer
  \/ \E c \in Clients : Accept(c) \/ Client(c)

Spec == Init /\ [][Next]_vars

Fairness ==
  /\ WF_vars(Main \/ \E c \in Clients : Client(c))
  /\ WF_vars(Printer) /\ SF_vars(Send("unlink_data"))

FairSpec == Spec /\ Fairness
-----------------------------------------------------------------------------
(***************************************************************************)
(* Properties.                                                             *)
(***************************************************************************)
Taken(c) == File(c, "all") \in printed

(* The job file is written when a job is picked up, not when its number is *)
(* given (printd.c:696), so a new run may give it again.                   *)
Reissued(c) == stops > 0 /\ \E d \in Clients \ {c} : job[d] = job[c]

TypeOK ==
  /\ {data[n].of : n \in Numbers} \cup {reqs[n].of : n \in Numbers} \subseteq Clients \cup {NULL}
  /\ jobfile \in 0 .. MaxJob /\ nextjob \in Numbers
  /\ queue \in Seq(Numbers) /\ cur \in 0 .. MaxJob
  /\ cur = 0 <=> printer \in {"get", "asleep"}
  /\ main = "down" => queue = <<>> /\ nodes = {} /\ \A c \in Clients : pc[c] \in {"out", "done"}

(* A client that was told its job is accepted can rely on it: whatever     *)
(* fails or stops, its files stay whole on the spool until the printer has *)
(* taken the job.  The code breaks this in two ways only: a start deletes  *)
(* a job whose control file it cannot read (printd.c:366-378), and a new   *)
(* run may give the job's number to another client (Reissued).             *)
AcceptedKept ==
  \A c \in told : Taken(c) \/ Reissued(c) \/ c \in lost
    \/ (data[job[c]] = File(c, "all") /\ reqs[job[c]] = File(c, "all"))

(* No job on the spool is forgotten by a daemon that serves: it is queued, *)
(* or picked up, or about to be queued, and once at most.  A job is in no  *)
(* place only when this run has given it up, because the control directory *)
(* or its control file could not be opened at the start (printd.c:349-350, *)
(* 363-364) or its data file when its turn to print came.                  *)
NothingForgotten ==
  main = "serve" => \A c \in told : Taken(c) \/ Reissued(c) \/ c \in lost
    \/ LET places == Cardinality({i \in DOMAIN queue : queue[i] = job[c]})
                       + (IF cur = job[c] THEN 1 ELSE 0) + (IF pc[c] = "add" THEN 1 ELSE 0)
       IN  places = 1 \/ (places = 0 /\ job[c] \in dropped)

(* What is printed is what one client sent, as far as the daemon read it,  *)
(* never a file that is still being spooled or was abandoned.              *)
PrintsWhole ==
  \A f \in printed : Reissued(f.of) \/ f.how = "all"

(* Every accepted job is printed, unless a file of it could not be opened  *)
(* by this run or read at a start: again and again nothing waits that was  *)
(* accepted.                                                               *)
EventuallyPrinted ==
  []<>(\A c \in told : Taken(c) \/ Reissued(c) \/ c \in lost \/ job[c] \in dropped)

(* "Cancel (kill) all outstanding workers" (printd.c:551): every thread    *)
(* that serves a client can be found on the list.                          *)
WorkersListed ==
  \A c \in Clients : pc[c] \in {"out", "done"} \/ c \in Listed
===============================================================================

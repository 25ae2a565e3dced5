-------------------------------- MODULE Server --------------------------------
(***************************************************************************)
(* server.c: client threads send their terminal input and output to one    *)
(* server thread through a queue of requests.  A read is synchronous: the  *)
(* client waits for it and frees it.  A write is freed by the server.      *)
(*                                                                         *)
(* What a thread does with tty_server.mutex held, up to a wait, is one     *)
(* step; what the server does with a request it has taken is done without  *)
(* the mutex.  The terminal has Lines lines that are not empty, then only  *)
(* empty ones or the end of the file.                                      *)
(***************************************************************************)
EXTENDS Integers, Sequences

CONSTANTS
  CLIENT_THREADS,
  Writes,      \* how often a client writes what it has read: 4 in the code
  Lines        \* bound: the lines that may be typed

ASSUME ServerAssumption ==
  CLIENT_THREADS \in Nat \ {0} /\ Writes \in Nat \ {0} /\ Lines \in Nat

Clients == 0 .. CLIENT_THREADS - 1
Main == CLIENT_THREADS
TtyServer == CLIENT_THREADS + 1
Requesters == Clients \cup {Main}

VARIABLES
  requests,        \* tty_server.first ... tty_server.last
  running,         \* tty_server.running
  heap,            \* the requests that are allocated
  done_flag,       \* those whose done_flag is set
  text,            \* the text of each requester's read; 0 is the empty line
  pc,              \* where each thread is
  serving,         \* the server's request: a set of one at most
  loops, string,   \* the variables of client_routine
  client_threads,
  count,           \* main: the clients it has created
  typed, output    \* history: the lines typed so far, and the writes

server == <<requests, running, heap, done_flag, text, serving>>
clients == <<loops, string, client_threads, count>>
vars == <<server, pc, clients, typed, output>>

Init ==
  /\ requests = <<>> /\ running = FALSE
  /\ heap = {} /\ done_flag = {} /\ serving = {}
  /\ text = [t \in Requesters |-> 0]
  /\ pc = [t \in Requesters \cup {TtyServer} |-> IF t = Main THEN "create" ELSE "none"]
  /\ loops = [c \in Clients |-> 0] /\ string = [c \in Clients |-> 0]
  /\ client_threads = CLIENT_THREADS /\ count = 0
  /\ typed = 0 /\ output = <<>>

Go(t, from, to) == pc[t] = from /\ pc' = [pc EXCEPT ![t] = to]

(***************************************************************************)
(* tty_server_request.                                                     *)
(***************************************************************************)
Sync(r) == r.operation # "write"

Read(t) == [by |-> t, operation |-> "read", loop |-> 0, line |-> 0]
Write(t) == [by |-> t, operation |-> "write", loop |-> loops[t], line |-> string[t]]
Quit(t) == [by |-> t, operation |-> "quit", loop |-> 0, line |-> 0]

(* Thread t queues r and goes on to "to"; the server starts or wakes up.   *)
Request(t, r, to) ==
  /\ requests' = Append(requests, r)
  /\ heap' = heap \cup {r}
  /\ running' = TRUE
  /\ pc' = [pc EXCEPT ![t] = to,
                      ![TtyServer] = IF ~running \/ @ = "wait" THEN "lock" ELSE @]
  /\ UNCHANGED <<done_flag, serving>>

(* Mutant: the wait is not in a loop.                                      *)
Waiting_NoLoop(t, r, to) ==
  /\ Go(t, "woken", to)
  /\ heap' = heap \ {r} /\ done_flag' = done_flag \ {r}
  /\ UNCHANGED <<requests, running, serving, text>>

(* The wait of t for its request r is over, or goes on.                    *)
Waiting(t, r, to) ==
  /\ pc[t] = "woken"
  /\ \/ r \notin done_flag /\ Go(t, "woken", "asleep") /\ UNCHANGED <<heap, done_flag>>
     \/ /\ r \in done_flag /\ Go(t, "woken", to)
        /\ heap' = heap \ {r} /\ done_flag' = done_flag \ {r}
  /\ UNCHANGED <<requests, running, serving, text>>

(***************************************************************************)
(* client_routine.                                                         *)
(***************************************************************************)
ClientReads(c) ==
  /\ c \in Clients /\ pc[c] = "read"
  /\ Request(c, Read(c), "asleep")
  /\ text' = [text EXCEPT ![c] = 0]
  /\ UNCHANGED <<clients, typed, output>>

ClientHasRead(c) ==
  /\ c \in Clients
  /\ Waiting(c, Read(c), IF text[c] = 0 THEN "leave" ELSE "write")
  /\ string' = IF Read(c) \in done_flag THEN [string EXCEPT ![c] = text[c]] ELSE string
  /\ UNCHANGED <<loops, client_threads, count, typed, output>>

ClientWrites(c) ==
  /\ c \in Clients /\ pc[c] = "write"
  /\ Request(c, Write(c), IF loops[c] + 1 < Writes THEN "write" ELSE "read")
  /\ loops' = [loops EXCEPT ![c] = (@ + 1) % Writes]
  /\ UNCHANGED <<text, string, client_threads, count, typed, output>>

(* Mutant: the last client does not know that it is the last.              *)
ClientLeaves_OffByOne(c) ==
  /\ c \in Clients /\ pc[c] = "leave"
  /\ client_threads' = client_threads - 1
  /\ pc' = [pc EXCEPT ![c] = "gone",
                      ![Main] = IF client_threads' < 0 /\ @ = "wait" THEN "join" ELSE @]
  /\ UNCHANGED <<server, loops, string, count, typed, output>>

ClientLeaves(c) ==
  /\ c \in Clients /\ pc[c] = "leave"
  /\ client_threads' = client_threads - 1
  /\ pc' = [pc EXCEPT ![c] = "gone",
                      ![Main] = IF client_threads' <= 0 /\ @ = "wait" THEN "join" ELSE @]
  /\ UNCHANGED <<server, loops, string, count, typed, output>>

(***************************************************************************)
(* tty_server_routine.                                                     *)
(***************************************************************************)
ServerWaits ==
  /\ requests = <<>>
  /\ Go(TtyServer, "lock", "wait")
  /\ UNCHANGED <<server, clients, typed, output>>

(* Mutant: the request that came last is taken.                            *)
ServerTakes_Last ==
  /\ requests # <<>>
  /\ Go(TtyServer, "lock", "serve")
  /\ serving' = {requests[Len(requests)]}
  /\ requests' = SubSeq(requests, 1, Len(requests) - 1)
  /\ UNCHANGED <<running, heap, done_flag, text, clients, typed, output>>

ServerTakes ==
  /\ requests # <<>>
  /\ Go(TtyServer, "lock", "serve")
  /\ serving' = {Head(requests)}
  /\ requests' = Tail(requests)
  /\ UNCHANGED <<running, heap, done_flag, text, clients, typed, output>>

ServerReads ==
  \E r \in serving :
    /\ r.operation = "read"
    /\ Go(TtyServer, "serve", "finish")
    /\ \/ /\ typed < Lines /\ typed' = typed + 1
          /\ text' = [text EXCEPT ![r.by] = typed']
       \/ UNCHANGED <<text, typed>>
    /\ UNCHANGED <<requests, running, heap, done_flag, serving, clients, output>>

ServerWrites ==
  \E r \in serving :
    /\ r.operation = "write"
    /\ Go(TtyServer, "serve", "finish")
    /\ output' = Append(output, r)
    /\ UNCHANGED <<server, clients, typed>>

ServerQuits ==
  \E r \in serving :
    /\ r.operation = "quit"
    /\ Go(TtyServer, "serve", "finish")
    /\ UNCHANGED <<server, clients, typed, output>>

(* Mutant: the client is not told.                                         *)
ServerFinishes_Silent ==
  \E r \in serving :
    /\ Go(TtyServer, "finish", IF r.operation = "quit" THEN "gone" ELSE "lock")
    /\ done_flag' = IF Sync(r) THEN done_flag \cup {r} ELSE done_flag
    /\ heap' = IF Sync(r) THEN heap ELSE heap \ {r}
    /\ serving' = {}
    /\ UNCHANGED <<requests, running, text, clients, typed, output>>

ServerFinishes ==
  \E r \in serving :
    /\ pc[TtyServer] = "finish"
    /\ LET next == IF r.operation = "quit" THEN "gone" ELSE "lock"
       IN  \/ /\ Sync(r)
              /\ done_flag' = done_flag \cup {r}
              /\ pc' = [pc EXCEPT ![TtyServer] = next,
                                  ![r.by] = IF @ = "asleep" THEN "woken" ELSE @]
              /\ UNCHANGED heap
           \/ /\ ~Sync(r)
              /\ heap' = heap \ {r}
              /\ Go(TtyServer, "finish", next)
              /\ UNCHANGED done_flag
    /\ serving' = {}
    /\ UNCHANGED <<requests, running, text, clients, typed, output>>

(***************************************************************************)
(* main.  The loop that creates the clients compares with client_threads,  *)
(* without client_mutex, while the clients created decrement it.           *)
(***************************************************************************)
MainCreates ==
  /\ pc[Main] = "create"
  /\ \/ /\ count < client_threads
        /\ pc' = [pc EXCEPT ![count] = "read"]
        /\ count' = count + 1
     \/ count >= client_threads /\ Go(Main, "create", "join") /\ UNCHANGED count
  /\ UNCHANGED <<server, loops, string, client_threads, typed, output>>

MainJoins ==
  /\ Go(Main, "join", IF client_threads > 0 THEN "wait" ELSE "quit")
  /\ UNCHANGED <<server, clients, typed, output>>

MainQuits ==
  /\ pc[Main] = "quit"
  /\ Request(Main, Quit(Main), "asleep")
  /\ UNCHANGED <<text, clients, typed, output>>

MainReturns ==
  /\ Waiting(Main, Quit(Main), "returned")
  /\ UNCHANGED <<clients, typed, output>>

SpuriousWakeup(t) ==
  /\ \/ Go(t, "asleep", "woken")
     \/ Go(t, "wait", IF t = Main THEN "join" ELSE "lock")
  /\ UNCHANGED <<server, clients, typed, output>>

Returned == pc[Main] = "returned" /\ UNCHANGED vars

(***************************************************************************)
(* The specification.  Every thread runs on, and a line is typed for every *)
(* prompt, if only an empty one.                                           *)
(***************************************************************************)
Client(c) == ClientReads(c) \/ ClientHasRead(c) \/ ClientWrites(c) \/ ClientLeaves(c)

Server_ ==
  ServerWaits \/ ServerTakes \/ ServerReads \/ ServerWrites \/ ServerQuits \/ ServerFinishes

Main_ == MainCreates \/ MainJoins \/ MainQuits \/ MainReturns

Next ==
  \/ pc[Main] # "returned" /\ \/ \E c \in Clients : Client(c)
                              \/ Server_ \/ Main_
                              \/ \E t \in DOMAIN pc : SpuriousWakeup(t)
  \/ Returned

Spec == Init /\ [][Next]_vars

FairSpec ==
  Spec /\ (\A c \in Clients : WF_vars(Client(c))) /\ WF_vars(Server_) /\ WF_vars(Main_)
-----------------------------------------------------------------------------
(* The types of the server's and the clients' variables; the server is in  *)
(* no client's state, nor a client in the server's (server.c:22-60).       *)
Requests ==
  [by : Requesters, operation : {"read", "write", "quit"}, loop : Nat, line : Nat]

PcOK ==
  /\ pc \in [Requesters \cup {TtyServer} ->
             {"none", "read", "asleep", "woken", "write", "leave", "gone", "create", "join",
              "wait", "quit", "returned", "lock", "serve", "finish"}]
  /\ pc[TtyServer] \in {"none", "lock", "wait", "serve", "finish", "gone"}
  /\ pc[Main] \in {"create", "join", "wait", "quit", "asleep", "woken", "returned"}
  /\ \A c \in Clients : pc[c] \in {"none", "read", "asleep", "woken", "write", "leave", "gone"}

TypeOK ==
  /\ requests \in Seq(Requests) /\ running \in BOOLEAN
  /\ heap \subseteq Requests /\ done_flag \subseteq Requests
  /\ serving \subseteq Requests /\ \A r, s \in serving : r = s
  /\ text \in [Requesters -> Nat] /\ typed \in Nat
  /\ PcOK
  /\ loops \in [Clients -> 0 .. Writes - 1] /\ string \in [Clients -> Nat]
  /\ client_threads \in Int /\ client_threads <= CLIENT_THREADS
  /\ count \in 0 .. CLIENT_THREADS

(* The heap holds the requests that somebody will free, and no others: the *)
(* server never works on one that its client has freed, and a client that  *)
(* waits has its request in the queue, at the server or done (server.c:    *)
(* 60-63).                                                                 *)
RequestsAlive ==
  /\ \A n \in DOMAIN requests : requests[n] \in heap
  /\ serving \subseteq heap
  /\ \A t \in Requesters : pc[t] \in {"asleep", "woken"} <=>
       \E own \in heap : {r \in heap : r.by = t /\ Sync(r)} = {own}
  /\ \A r \in heap : r \in done_flag \cup serving \/ \E n \in DOMAIN requests : requests[n] = r

(* Every line that was typed is printed Writes times, in order, by the     *)
(* client that read it and before its next prompt, and all of it is done   *)
(* and freed before main returns (server.c:59, 326).                       *)
WriteOf(c, loop, line) == [by |-> c, operation |-> "write", loop |-> loop, line |-> line]

Echoed(c, line) ==
  \A loop \in 0 .. Writes - 1 : \E n \in DOMAIN output : output[n] = WriteOf(c, loop, line)

LinesEchoed ==
  /\ \A m, n \in DOMAIN output : m < n /\ output[m].line = output[n].line =>
       output[m].by = output[n].by /\ output[m].loop < output[n].loop
  /\ \A n \in DOMAIN output : \A loop \in 0 .. output[n].loop - 1 :
       \E m \in 1 .. n - 1 : output[m] = [output[n] EXCEPT !.loop = loop]
  /\ \A r \in serving :
       r.operation = "read" /\ string[r.by] # 0 => Echoed(r.by, string[r.by])
  /\ pc[Main] = "returned" =>
       heap = {} /\ \A line \in 1 .. typed : \E c \in Clients : Echoed(c, line)

(* When main has created all of the clients, every read returns, every     *)
(* client ends and main returns (server.c:236, 273-284, 314-324).          *)
MainReturnsInTheEnd ==
  <>(pc[Main] = "returned" \/ (pc[Main] # "create" /\ count < CLIENT_THREADS))

(* main creates CLIENT_THREADS clients, as server.c:305 says.              *)
CreatesClients == pc[Main] # "create" => count = CLIENT_THREADS
=============================================================================

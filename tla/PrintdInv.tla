------------------------------- MODULE PrintdInv -------------------------------
(***************************************************************************)
(* The inductive invariant of the print spooler: Safe, by its parts.  It   *)
(* is an invariant for every set of clients and every number of stops if   *)
(* there are no more senders than job numbers; see ApueProof.              *)
(***************************************************************************)
EXTENDS Printd

DataFiles == {NoFile} \cup [of : Clients, how : {"part", "all"}]
Requests == {NoFile} \cup [of : Clients, how : {"empty", "all"}]

SpoolTypes == data \in [Numbers -> DataFiles] /\ reqs \in [Numbers -> Requests] /\ jobfile \in 0 .. MaxJob

DaemonTypes ==
  /\ main \in {"down", "start", "signal", "discard", "serve"} /\ names \in SUBSET Numbers
  /\ nextjob \in Numbers /\ queue \in Seq(Numbers)

PrinterTypes ==
  /\ cur \in 0 .. MaxJob
  /\ printer \in {"get", "asleep", "number", "open", "send", "unlink_data",
                  "unlink_request", "replace"}
  /\ cur = 0 <=> printer \in {"get", "asleep"}

ClientTypes ==
  /\ pc \in [Clients -> {"out", "header", "create", "read", "create_request",
                         "write_request", "unlink", "reply", "add", "signal", "cleanup", "done"}]
  /\ job \in [Clients -> 0 .. MaxJob] /\ told \in SUBSET Clients

HistoryTypes ==
  /\ printed \in SUBSET [of : Clients, how : {"part", "all"}]
  /\ dropped \in SUBSET Numbers /\ lost \in SUBSET Clients /\ stops \in Nat

Types == SpoolTypes /\ DaemonTypes /\ PrinterTypes /\ ClientTypes /\ HistoryTypes

(* Where threads are: clients are served only by a daemon that has read    *)
(* the spool, a client has a number from its header on, and one that was   *)
(* told so does not fail any more.                                         *)
Serving ==
  /\ main = "down" => queue = <<>> /\ cur = 0 /\ names = {} /\ nodes = {}
  /\ main # "serve" => \A c \in Clients : pc[c] \in {"out", "done"}
  /\ main = "serve" => names = {}
  /\ \A c \in Clients :
       /\ pc[c] \in {"out", "header"} => job[c] = 0
       /\ pc[c] \notin {"out", "header", "cleanup", "done"} => job[c] # 0
       /\ c \in told => job[c] # 0 /\ pc[c] \in {"add", "signal", "cleanup", "done"}

(* In the first run the numbers are given in turn, each once.              *)
Numbered == {c \in Clients : job[c] # 0}

Numbering ==
  /\ Numbered \subseteq Senders
  /\ stops = 0 =>
       /\ \A c, d \in Numbered : job[c] = job[d] => c = d
       /\ \A c \in Numbered : job[c] <= Cardinality(Numbered)
       /\ Cardinality(Numbered) < MaxJob => nextjob = Cardinality(Numbered) + 1
       /\ main = "down" => Numbered = {} /\ jobfile = 0

(* Two clients had the same number, in different runs.                     *)
Clash(c) == c \in Numbered /\ \E d \in Numbered \ {c} : job[d] = job[c]

(***************************************************************************)
(* The queue, as a set of numbers without a double.                        *)
(***************************************************************************)
In(n, q) == \E i \in DOMAIN q : q[i] = n
Once(n, q) == \A i, j \in DOMAIN q : q[i] = n /\ q[j] = n => i = j

(* A client whose own files are never half written again.                  *)
Spooled(c) ==
  /\ c \in Numbered /\ pc[c] \in {"signal", "cleanup", "done"}
  /\ data[job[c]] # File(c, "part")

(* A file on the spool has the number of the client it is of; what is      *)
(* half written has no control file; and what is queued or picked up was   *)
(* spooled whole by some client of that number.                            *)
Owned ==
  /\ \A n \in Numbers :
       /\ data[n] # NoFile => job[data[n].of] = n
       /\ reqs[n] # NoFile =>
            /\ job[reqs[n].of] = n
            /\ pc[reqs[n].of] \in
                 {"write_request", "unlink", "reply", "add", "signal", "cleanup", "done"}
       /\ data[n].how = "part" =>
            pc[data[n].of] \in {"read", "done"} /\ reqs[n].of # data[n].of
       /\ n = cur \/ In(n, queue) => \E c \in Clients : Spooled(c) /\ job[c] = n
  /\ \A f \in printed : f.of \in Numbered

Whole(c) == data[job[c]] = File(c, "all") /\ reqs[job[c]] = File(c, "all")

(* What is on the spool for a client as its thread goes on.                *)
SpoolOf(c) ==
  /\ pc[c] = "read" => data[job[c]] = File(c, "part")
  /\ pc[c] \in {"create_request", "write_request"} => data[job[c]] = File(c, "all")
  /\ pc[c] = "write_request" => reqs[job[c]] = File(c, "empty")
  /\ pc[c] = "reply" => Whole(c)
  /\ c \in told => Taken(c) \/ c \in lost \/ Whole(c)
  /\ c \in told /\ job[c] = cur /\ printer \in {"unlink_data", "unlink_request"} =>
       Taken(c) \/ c \in lost

Kept ==
  /\ \A c \in Clients : Clash(c) \/ SpoolOf(c)
  /\ \A f \in printed : Clash(f.of) \/ f.how = "all"

(* An accepted job that is still to be printed is in one place at most,    *)
(* and in none only when it was given up.                                  *)
PlaceOf(c) ==
  LET n == job[c] IN
  /\ Once(n, queue)
  /\ In(n, queue) => cur # n /\ pc[c] # "add" /\ n \notin names
  /\ cur = n => pc[c] # "add" /\ n \notin names
  /\ In(n, queue) \/ cur = n \/ pc[c] = "add" \/ n \in names \/ n \in dropped

Placed == main # "down" => \A c \in told : Taken(c) \/ c \in lost \/ Clash(c) \/ PlaceOf(c)

Safe == Types /\ Serving /\ Numbering /\ Owned /\ Kept /\ Placed
================================================================================

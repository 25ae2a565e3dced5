--------------------------------- MODULE Crew ---------------------------------
(***************************************************************************)
(* The work crew of crew.c: callers of crew_start hand the crew a path;    *)
(* the workers take paths off one list, look at them, and append the       *)
(* entries of every directory they find.  work_count counts what is not    *)
(* finished; the worker that brings it to zero wakes the callers up.       *)
(*                                                                         *)
(* What runs between a pthread_mutex_lock and the next unlock, or sleep in *)
(* a condition wait, is one step.  A thread that returns from a wait tests *)
(* the same condition as one that comes to it: it is in the same place.    *)
(* The search for the string in a file changes nothing and is left out.    *)
(***************************************************************************)
EXTENDS Integers, Sequences, FiniteSets

CONSTANTS
  Workers,     \* the threads crew_create starts (CREW_SIZE of them)
  Callers,     \* the threads that call crew_start, each once
  Paths,       \* the paths of the searched tree
  Dirs,        \* those that are directories
  Entries,     \* the entries of each directory, without "." and ".."
  Root,        \* the path given to crew_start
  CanFail      \* TRUE: lstat, opendir, readdir_r, malloc and so on may fail

(* A path names its directory: no two directories have an entry in common. *)
ASSUME CrewAssumption ==
  /\ IsFiniteSet(Workers) /\ IsFiniteSet(Callers)
  /\ Dirs \subseteq Paths /\ Root \in Paths
  /\ Entries \in [Dirs -> SUBSET (Paths \ {Root})]
  /\ \A d, e \in Dirs : d # e => Entries[d] \cap Entries[e] = {}
  /\ CanFail \in BOOLEAN

VARIABLES
  list,        \* crew->first .. crew->last
  work_count,
  life,        \* "new", "up", or "dead": the process has ended in an error
  pc,          \* where each worker is
  work,        \* the item a worker has taken
  unread,      \* the entries its readdir_r loop has not returned yet
  cpc,         \* where each caller is inside crew_start
  added,       \* history: the items that have been appended
  finished,    \* history: the items whose count has been given back
  dropped      \* history: the items left behind when opendir failed

crew == <<list, work_count, life>>
workers == <<pc, work, unread>>
history == <<added, finished, dropped>>
vars == <<crew, workers, cpc, history>>

Items == Callers \X Paths    \* a path, and the request it belongs to

Init ==
  /\ list = <<>> /\ work_count = 0 /\ life = "new"
  /\ pc = [w \in Workers |-> "none"]
  /\ work = [w \in Workers |-> <<>>]
  /\ unread = [w \in Workers |-> {}]
  /\ cpc = [c \in Callers |-> "idle"]
  /\ added = {} /\ finished = {} /\ dropped = {}

(* crew_create: the workers can do nothing before it returns but sleep.    *)
CrewCreate ==
  /\ life = "new"
  /\ \/ life' = "up" /\ pc' = [w \in Workers |-> "begin"]
     \/ CanFail /\ life' = "dead" /\ UNCHANGED pc
  /\ UNCHANGED <<list, work_count, work, unread, cpc, history>>

(* pthread_cond_signal (&crew->go): wakes one worker, from either wait.    *)
Asleep == {w \in Workers : pc[w] \in {"await start", "await work"}}

Awake(w) == IF pc[w] = "await start" THEN "start" ELSE "top"

SignalGo ==
  \/ Asleep = {} /\ UNCHANGED pc
  \/ \E w \in Asleep : pc' = [pc EXCEPT ![w] = Awake(w)]

Append1(item) ==       \* at the end of the list, and counted
  /\ list' = Append(list, item)
  /\ work_count' = work_count + 1
  /\ added' = added \cup {item}

(***************************************************************************)
(* worker_routine.                                                         *)
(***************************************************************************)
Start(w) ==            \* wait until there is something to do for the crew
  /\ pc[w] \in {"begin", "start"}
  /\ pc' = [pc EXCEPT ![w] = IF work_count = 0 THEN "await start" ELSE "top"]
  /\ UNCHANGED <<crew, work, unread, cpc, history>>

WaitForWork(w) ==
  /\ pc[w] = "top" /\ list = <<>>
  /\ pc' = [pc EXCEPT ![w] = "await work"]
  /\ UNCHANGED <<crew, work, unread, cpc, history>>

(* Mutant: an item is taken but not removed.                               *)
TakeWork_KeepsItem(w) ==
  /\ pc[w] = "top" /\ list # <<>>
  /\ work' = [work EXCEPT ![w] = Head(list)]
  /\ pc' = [pc EXCEPT ![w] = "look"]
  /\ UNCHANGED <<crew, unread, cpc, history>>

TakeWork(w) ==
  /\ pc[w] = "top" /\ list # <<>>
  /\ work' = [work EXCEPT ![w] = Head(list)]
  /\ list' = Tail(list)
  /\ pc' = [pc EXCEPT ![w] = "look"]
  /\ UNCHANGED <<work_count, life, unread, cpc, history>>

(* lstat, whose failure is not noticed: what the item is taken for is then *)
(* whatever the buffer held before.                                        *)
Path(w) == work[w][2]

LookAtFile(w) ==
  /\ pc[w] = "look" /\ (Path(w) \notin Dirs \/ CanFail)
  /\ pc' = [pc EXCEPT ![w] = "finish"]
  /\ UNCHANGED <<crew, work, unread, cpc, history>>

OpenDirectory(w) ==
  /\ pc[w] = "look" /\ Path(w) \in Dirs
  /\ unread' = [unread EXCEPT ![w] = Entries[Path(w)]]
  /\ pc' = [pc EXCEPT ![w] = "read"]
  /\ UNCHANGED <<crew, work, cpc, history>>

OpenFailed(w) ==       \* "continue": work_count keeps the item
  /\ pc[w] = "look" /\ CanFail
  /\ dropped' = dropped \cup {work[w]}
  /\ pc' = [pc EXCEPT ![w] = "top"]
  /\ UNCHANGED <<crew, work, unread, cpc, added, finished>>

(* Mutant: an entry is appended but not counted.                           *)
ReadEntry_Uncounted(w) ==
  /\ pc[w] = "read"
  /\ \E e \in unread[w] :
       LET item == <<work[w][1], e>>
       IN  /\ list' = Append(list, item)
           /\ added' = added \cup {item}
           /\ unread' = [unread EXCEPT ![w] = @ \ {e}]
  /\ SignalGo
  /\ UNCHANGED <<work_count, life, work, cpc, finished, dropped>>

ReadEntry(w) ==
  /\ pc[w] = "read"
  /\ \E e \in unread[w] :
       /\ Append1(<<work[w][1], e>>)
       /\ unread' = [unread EXCEPT ![w] = @ \ {e}]
  /\ SignalGo
  /\ UNCHANGED <<life, work, cpc, finished, dropped>>

OutOfMemory(w) ==      \* errno_abort: no space for a directory entry
  /\ \/ pc[w] = "begin"
     \/ pc[w] = "read" /\ unread[w] # {}
  /\ CanFail /\ life' = "dead"
  /\ UNCHANGED <<list, work_count, workers, cpc, history>>

ReadEnds(w) ==         \* the end of the directory, or an error
  /\ pc[w] = "read" /\ (unread[w] = {} \/ CanFail)
  /\ unread' = [unread EXCEPT ![w] = {}]
  /\ pc' = [pc EXCEPT ![w] = "finish"]
  /\ UNCHANGED <<crew, work, cpc, history>>

BroadcastDone ==
  cpc' = [c \in Callers |-> CASE cpc[c] = "await idle" -> "call"
                              [] cpc[c] = "await done" -> "wait"
                              [] OTHER -> cpc[c]]

(* Mutant: the broadcast when the last item is finished is a signal.       *)
Finish_Signal(w) ==
  /\ pc[w] = "finish"
  /\ work_count' = work_count - 1
  /\ finished' = finished \cup {work[w]}
  /\ \/ /\ work_count - 1 <= 0
        /\ \/ \A c \in Callers : cpc[c] \notin {"await idle", "await done"} /\ UNCHANGED cpc
           \/ \E c \in Callers :
                \/ cpc[c] = "await idle" /\ cpc' = [cpc EXCEPT ![c] = "call"]
                \/ cpc[c] = "await done" /\ cpc' = [cpc EXCEPT ![c] = "wait"]
        /\ pc' = [pc EXCEPT ![w] = "exit"]
     \/ /\ work_count - 1 > 0
        /\ pc' = [pc EXCEPT ![w] = "top"]
        /\ UNCHANGED cpc
  /\ UNCHANGED <<list, life, work, unread, added, dropped>>

Finish(w) ==           \* the worker that finishes the last item leaves
  /\ pc[w] = "finish"
  /\ work_count' = work_count - 1
  /\ finished' = finished \cup {work[w]}
  /\ \/ /\ work_count - 1 <= 0
        /\ BroadcastDone
        /\ pc' = [pc EXCEPT ![w] = "exit"]
     \/ /\ work_count - 1 > 0
        /\ pc' = [pc EXCEPT ![w] = "top"]
        /\ UNCHANGED cpc
  /\ UNCHANGED <<list, life, work, unread, added, dropped>>

SpuriousGo(w) ==
  /\ w \in Asleep
  /\ pc' = [pc EXCEPT ![w] = Awake(w)]
  /\ UNCHANGED <<crew, work, unread, cpc, history>>

(***************************************************************************)
(* crew_start.                                                             *)
(***************************************************************************)
CrewStart(c) ==
  /\ cpc[c] = "idle"
  /\ cpc' = [cpc EXCEPT ![c] = "call"]
  /\ UNCHANGED <<crew, workers, history>>

WaitIdle(c) ==         \* "If the crew is busy, wait for them to finish"
  /\ cpc[c] = "call" /\ work_count > 0
  /\ cpc' = [cpc EXCEPT ![c] = "await idle"]
  /\ UNCHANGED <<crew, workers, history>>

(* Mutant: the request is appended without waiting for the crew.           *)
Request_NoWait(c) ==
  /\ cpc[c] = "call"
  /\ Append1(<<c, Root>>)
  /\ SignalGo
  /\ cpc' = [cpc EXCEPT ![c] = "await done"]
  /\ UNCHANGED <<life, work, unread, finished, dropped>>

Request(c) ==
  /\ cpc[c] = "call" /\ work_count <= 0
  /\ Append1(<<c, Root>>)
  /\ SignalGo
  /\ cpc' = [cpc EXCEPT ![c] = "await done"]
  /\ UNCHANGED <<life, work, unread, finished, dropped>>

RequestAborts(c) ==    \* errno_abort: pathconf or malloc fails
  /\ cpc[c] = "call" /\ work_count <= 0 /\ CanFail
  /\ life' = "dead"
  /\ UNCHANGED <<list, work_count, workers, cpc, history>>

(* Mutant: whoever is woken up returns.                                    *)
WaitDone_NoTest(c) ==
  /\ cpc[c] = "wait"
  /\ cpc' = [cpc EXCEPT ![c] = "returned"]
  /\ UNCHANGED <<crew, workers, history>>

WaitDone(c) ==         \* woken up: sleep again, or return
  /\ cpc[c] = "wait"
  /\ cpc' = [cpc EXCEPT ![c] = IF work_count > 0 THEN "await done" ELSE "returned"]
  /\ UNCHANGED <<crew, workers, history>>

SpuriousDone(c) ==
  /\ cpc[c] \in {"await idle", "await done"}
  /\ cpc' = [cpc EXCEPT ![c] = IF @ = "await idle" THEN "call" ELSE "wait"]
  /\ UNCHANGED <<crew, workers, history>>

(***************************************************************************)
(* The specification.  A thread that can step does, in the end.            *)
(***************************************************************************)
WorkerStep(w) ==
  /\ life = "up"
  /\ \/ Start(w) \/ WaitForWork(w) \/ TakeWork(w)
     \/ LookAtFile(w) \/ OpenDirectory(w) \/ OpenFailed(w)
     \/ ReadEntry(w) \/ OutOfMemory(w) \/ ReadEnds(w) \/ Finish(w)

CallerStep(c) ==
  /\ life = "up"
  /\ WaitIdle(c) \/ Request(c) \/ RequestAborts(c) \/ WaitDone(c)

Stopped ==             \* an error, or all quiet: workers may sleep for ever
  /\ \/ life = "dead"
     \/ life = "up" /\ \A w \in Workers : pc[w] \in {"await start", "await work", "exit"}
  /\ UNCHANGED vars

Next ==
  \/ CrewCreate
  \/ \E w \in Workers : WorkerStep(w) \/ (life = "up" /\ SpuriousGo(w))
  \/ \E c \in Callers : CallerStep(c) \/ (life = "up" /\ (CrewStart(c) \/ SpuriousDone(c)))
  \/ Stopped

Spec == Init /\ [][Next]_vars

Fairness ==
  /\ \A w \in Workers : WF_vars(WorkerStep(w))
  /\ \A c \in Callers : WF_vars(CallerStep(c))

FairSpec == Spec /\ Fairness
-----------------------------------------------------------------------------
(***************************************************************************)
(* Properties.                                                             *)
(***************************************************************************)

(* Every variable of the crew keeps its type.                              *)
TypeOK ==
  /\ list \in Seq(Items) /\ work_count \in Nat /\ life \in {"new", "up", "dead"}
  /\ pc \in [Workers -> {"none", "begin", "start", "await start", "top", "await work",
                         "look", "read", "finish", "exit"}]
  /\ work \in [Workers -> Items \cup {<<>>}]
  /\ unread \in [Workers -> SUBSET Paths]
  /\ cpc \in [Callers -> {"idle", "call", "await idle", "await done", "wait", "returned"}]
  /\ added \subseteq Items /\ finished \subseteq Items /\ dropped \subseteq Items

Busy == {w \in Workers : pc[w] \in {"look", "read", "finish"}}

(* work_count counts the items on the list, in the hands of a worker, or   *)
(* left behind by a failed opendir, so that it does not "go to 0 until     *)
(* we're really done" (crew.c:166, 210, 289-297, 433).                     *)
CountsOutstanding ==
  work_count = Len(list) + Cardinality(Busy) + Cardinality(dropped)

Queued == {list[n] : n \in DOMAIN list}
InHand == {work[w] : w \in Busy}

(* Every appended item is in exactly one place: on the list, with one      *)
(* worker, finished or left behind (crew.c:129-132, 203-210).              *)
ItemsOnce ==
  /\ added = Queued \cup InHand \cup finished \cup dropped
  /\ Cardinality(added) = Len(list) + Cardinality(Busy)
                            + Cardinality(finished) + Cardinality(dropped)

(* When crew_start returns, everything found under its path has been       *)
(* looked at; a crew serves one request at a time (crew.c:386, 442).       *)
ReturnsWhenDone ==
  \A c \in Callers : cpc[c] = "returned" => \A i \in added : i[1] = c => i \in finished

Exited == {w \in Workers : pc[w] = "exit"}

(* Only the worker that finishes the last item of a request leaves, so a   *)
(* crew loses one worker per request (crew.c:300-308).                     *)
OneLeavesPerRequest ==
  Cardinality(Exited) =
    Cardinality({c \in Callers : <<c, Root>> \in added})
      - (IF work_count > 0 THEN 1 ELSE 0)

(* The crew is used up: there is work, and every worker has left.          *)
UsedUp == Exited = Workers /\ work_count > 0

(* Every crew_start returns, with three exceptions: the process dies in an *)
(* error, a directory could not be opened, so that its count is never      *)
(* given back (crew.c:166), or the crew is used up, because a worker       *)
(* leaves with every request (crew.c:300-308) and there were more requests *)
(* than workers.                                                           *)
ReturnsWhileCrewLasts ==
  \A c \in Callers :
    cpc[c] = "call" ~> cpc[c] = "returned" \/ life = "dead" \/ dropped # {} \/ UsedUp
=============================================================================

-------------------------------- MODULE Workq --------------------------------
(***************************************************************************)
(* The work queue package of workq.c: client threads add items, detached   *)
(* server threads that are created on demand take them and call the engine *)
(* and leave after two seconds without work, and one thread initialises    *)
(* and destroys the queue.                                                 *)
(*                                                                         *)
(* What runs between a pthread_mutex_lock and the next unlock, or sleep in *)
(* a condition wait, is one step.  A server identity is used again once    *)
(* its thread has left.  Time is not modelled: a timed wait may end at any *)
(* moment.                                                                 *)
(***************************************************************************)
EXTENDS Integers, Sequences, FiniteSets

CONSTANTS
  Clients,       \* the threads that call workq_add
  Servers,       \* identities for the server threads
  Parallelism,   \* the number of threads given to workq_init
  MaxAdds,       \* bound: items per client
  JoinFirst      \* TRUE: the clients are joined before workq_destroy

ASSUME WorkqAssumption ==
  /\ IsFiniteSet(Servers)
  /\ Parallelism \in Nat \ {0} /\ Parallelism <= Cardinality(Servers)
  /\ MaxAdds \in Nat
  /\ JoinFirst \in BOOLEAN

VARIABLES
  valid, quit, queue, counter,   \* the fields of workq_t
  mtx,       \* its pthread objects: "raw", "live" or "dead"
  pc,        \* where each server is
  timedout,  \* its local variable
  job,       \* the item it has taken last
  cpc,       \* where each client is inside workq_add
  status,    \* the status its last workq_add returned
  adds,      \* the number of its calls, and the name of its current item
  dpc, dstatus,   \* where the destroying thread is, and its status
  mstatus,        \* its local status of pthread_mutex_destroy
  accepted,  \* history: the items for which workq_add returned 0
  finished   \* history: how often the engine has run on each item

wq == <<valid, quit, queue, counter, mtx>>
servers == <<pc, timedout, job>>
clients == <<cpc, status, adds>>
destroyer == <<dpc, dstatus, mstatus>>
history == <<accepted, finished>>
vars == <<wq, servers, clients, destroyer, history>>

WORKQ_VALID == 233576850    \* 0xdec1992

EINVAL == 22
EBUSY  == 16
ENOMEM == 12
EAGAIN == 11

Items == Clients \X (1 .. MaxAdds)
NoItem == <<>>

(* Nothing in the package ever increments wq->idle.                        *)
idle == 0

(***************************************************************************)
(* workq_init: "valid" is set last.                                        *)
(***************************************************************************)
Init ==
  /\ valid = 0 /\ quit = 0 /\ queue = <<>> /\ counter = 0 /\ mtx = "raw"
  /\ pc = [s \in Servers |-> "none"]
  /\ timedout = [s \in Servers |-> 0]
  /\ job = [s \in Servers |-> NoItem]
  /\ cpc = [c \in Clients |-> "idle"]
  /\ status = [c \in Clients |-> 0]
  /\ adds = [c \in Clients |-> 0]
  /\ dpc = "init" /\ dstatus = 0 /\ mstatus = 0
  /\ accepted = {}
  /\ finished = [i \in Items |-> 0]

WorkqInit ==
  /\ dpc = "init"
  /\ dpc' = "up"
  /\ \/ valid' = WORKQ_VALID /\ mtx' = "live" /\ dstatus' = 0
     \/ dstatus' = EAGAIN /\ UNCHANGED <<valid, mtx>>
  /\ UNCHANGED <<quit, queue, counter, servers, clients, mstatus, history>>

(***************************************************************************)
(* workq_add.                                                              *)
(***************************************************************************)
AddReturns(c, s) ==
  /\ cpc' = [cpc EXCEPT ![c] = "idle"]
  /\ status' = [status EXCEPT ![c] = s]

WorkqAdd(c) ==     \* the call, its unlocked test of "valid", and malloc
  /\ cpc[c] = "idle" /\ dpc # "init" /\ adds[c] < MaxAdds
  /\ JoinFirst => dpc = "up"     \* a joined client makes no more calls
  /\ \/ valid # WORKQ_VALID /\ AddReturns(c, EINVAL) /\ UNCHANGED adds
     \/ valid = WORKQ_VALID /\ AddReturns(c, ENOMEM) /\ UNCHANGED adds
     \/ /\ valid = WORKQ_VALID
        /\ cpc' = [cpc EXCEPT ![c] = "lock"]
        /\ adds' = [adds EXCEPT ![c] = @ + 1]
        /\ UNCHANGED status
  /\ UNCHANGED <<wq, servers, destroyer, history>>

AddLockFailed(c) ==
  /\ cpc[c] = "lock" /\ mtx = "dead"
  /\ AddReturns(c, EINVAL)
  /\ UNCHANGED <<wq, servers, adds, destroyer, history>>

Asleep == {s \in Servers : pc[s] = "sleep"}

SignalOne ==
  \/ Asleep = {} /\ UNCHANGED pc
  \/ \E s \in Asleep : pc' = [pc EXCEPT ![s] = "wake"]

CreateServer ==
  /\ \E s \in Servers : pc[s] = "none" /\ pc' = [pc EXCEPT ![s] = "start"]
  /\ counter' = counter + 1

Enqueue(c) ==      \* an idle server is woken up, or a new one is created
  LET item == <<c, adds[c]>>
  IN  /\ cpc[c] = "lock" /\ mtx = "live"
      /\ queue' = Append(queue, item)
      /\ IF idle > 0 THEN SignalOne /\ UNCHANGED counter
         ELSE IF counter < Parallelism THEN CreateServer
         ELSE UNCHANGED <<pc, counter>>
      /\ AddReturns(c, 0)
      /\ accepted' = accepted \cup {item}
      /\ UNCHANGED <<valid, quit, mtx, timedout, job, adds, destroyer, finished>>

EnqueueNoThread(c) ==   \* pthread_create fails: the item stays in the queue
  /\ cpc[c] = "lock" /\ mtx = "live"
  /\ idle = 0 /\ counter < Parallelism
  /\ queue' = Append(queue, <<c, adds[c]>>)
  /\ AddReturns(c, EAGAIN)
  /\ UNCHANGED <<valid, quit, counter, mtx, servers, adds, destroyer, history>>

(***************************************************************************)
(* workq_server.  With the mutex locked, a server does one of four things: *)
(* it takes an item, it sleeps, it shuts down because the queue is being   *)
(* destroyed, or it leaves because it has waited long enough.              *)
(***************************************************************************)
(* Mutant: the item is taken from the end of the queue.                    *)
Take_Last(s) ==
  /\ queue # <<>>
  /\ job' = [job EXCEPT ![s] = queue[Len(queue)]]
  /\ queue' = SubSeq(queue, 1, Len(queue) - 1)
  /\ pc' = [pc EXCEPT ![s] = "work"]
  /\ UNCHANGED <<counter, dpc>>

(* Mutant: the item is left in the queue while the engine works on it.     *)
Take_KeepsItem(s) ==
  /\ queue # <<>>
  /\ job' = [job EXCEPT ![s] = Head(queue)]
  /\ pc' = [pc EXCEPT ![s] = "work"]
  /\ UNCHANGED <<queue, counter, dpc>>

Take(s) ==
  /\ queue # <<>>
  /\ job' = [job EXCEPT ![s] = Head(queue)]
  /\ queue' = Tail(queue)
  /\ pc' = [pc EXCEPT ![s] = "work"]
  /\ UNCHANGED <<counter, dpc>>

Sleep(s) ==
  /\ queue = <<>> /\ quit = 0
  /\ pc' = [pc EXCEPT ![s] = "sleep"]
  /\ UNCHANGED <<queue, counter, job, dpc>>

(* Mutant: the last server shuts down without its broadcast.               *)
ShutDown_Silent(s) ==
  /\ queue = <<>> /\ quit = 1
  /\ counter' = counter - 1
  /\ pc' = [pc EXCEPT ![s] = "none"]
  /\ UNCHANGED <<queue, job, dpc>>

ShutDown(s) ==     \* the last one broadcasts, to the destroying thread too
  /\ queue = <<>> /\ quit = 1
  /\ counter' = counter - 1
  /\ \/ /\ counter = 1
        /\ pc' = [r \in Servers |-> IF r = s THEN "none"
                                    ELSE IF pc[r] = "sleep" THEN "wake" ELSE pc[r]]
        /\ dpc' = IF dpc = "sleep" THEN "wake" ELSE dpc
     \/ /\ counter # 1
        /\ pc' = [pc EXCEPT ![s] = "none"]
        /\ UNCHANGED dpc
  /\ UNCHANGED <<queue, job>>

(* Mutant: a server leaves on its timeout without a look at the queue.     *)
Leave_Early(s) ==
  /\ quit = 0
  /\ counter' = counter - 1
  /\ pc' = [pc EXCEPT ![s] = "none"]
  /\ UNCHANGED <<queue, job, dpc>>

(* Mutant: a server that leaves is still counted.                          *)
Leave_Counted(s) ==
  /\ queue = <<>> /\ quit = 0
  /\ pc' = [pc EXCEPT ![s] = "none"]
  /\ UNCHANGED <<queue, counter, job, dpc>>

Leave(s) ==
  /\ queue = <<>> /\ quit = 0
  /\ counter' = counter - 1
  /\ pc' = [pc EXCEPT ![s] = "none"]
  /\ UNCHANGED <<queue, job, dpc>>

InServer == UNCHANGED <<valid, quit, mtx, clients, dstatus, mstatus, history>>

ClearTimeout(s) == timedout' = [timedout EXCEPT ![s] = 0]

ServerStart(s) ==
  /\ pc[s] = "start" /\ mtx = "live"
  /\ Take(s) \/ Sleep(s) \/ ShutDown(s)
  /\ ClearTimeout(s)
  /\ InServer

ServerWoken(s) ==  \* pthread_cond_timedwait has returned 0 or ETIMEDOUT
  /\ pc[s] = "wake" /\ mtx = "live"
  /\ \/ Take(s) \/ ShutDown(s)
     \/ timedout[s] = 0 /\ Sleep(s)
     \/ timedout[s] = 1 /\ Leave(s)
  /\ UNCHANGED timedout
  /\ InServer

ServerBack(s) ==   \* the engine has returned
  /\ pc[s] = "back" /\ mtx = "live"
  /\ \/ Take(s) /\ ClearTimeout(s)
     \/ ShutDown(s) /\ UNCHANGED timedout
     \/ timedout[s] = 0 /\ Sleep(s) /\ ClearTimeout(s)
     \/ timedout[s] = 1 /\ Leave(s) /\ UNCHANGED timedout
  /\ InServer

Engine(s) ==
  /\ pc[s] = "work"
  /\ finished' = [finished EXCEPT ![job[s]] = @ + 1]
  /\ pc' = [pc EXCEPT ![s] = "back"]
  /\ UNCHANGED <<wq, timedout, job, clients, destroyer, accepted>>

Timeout(s) ==
  /\ pc[s] = "sleep"
  /\ pc' = [pc EXCEPT ![s] = "wake"]
  /\ timedout' = [timedout EXCEPT ![s] = 1]
  /\ UNCHANGED <<wq, job, clients, destroyer, history>>

SpuriousWakeup(s) ==
  /\ pc[s] = "sleep"
  /\ pc' = [pc EXCEPT ![s] = "wake"]
  /\ UNCHANGED <<wq, timedout, job, clients, destroyer, history>>

ServerLockFailed(s) ==  \* the mutex is gone: only a failed wait is uncounted
  /\ pc[s] \in {"start", "wake", "back"} /\ mtx = "dead"
  /\ counter' = IF pc[s] = "wake" THEN counter - 1 ELSE counter
  /\ pc' = [pc EXCEPT ![s] = "none"]
  /\ UNCHANGED <<valid, quit, queue, mtx, timedout, job, clients, destroyer, history>>

(***************************************************************************)
(* workq_destroy.                                                          *)
(***************************************************************************)
Finished(c) == cpc[c] = "idle" /\ (adds[c] = MaxAdds \/ status[c] > 0)

WorkqDestroy ==    \* the call, and its unlocked test of "valid"
  /\ dpc = "up"
  /\ JoinFirst => \A c \in Clients : Finished(c)
  /\ \/ valid = WORKQ_VALID /\ dpc' = "lock" /\ UNCHANGED dstatus
     \/ valid # WORKQ_VALID /\ dpc' = "done" /\ dstatus' = EINVAL
  /\ UNCHANGED <<wq, servers, clients, mstatus, history>>

(* Mutant: the queue is destroyed without waiting for the servers.         *)
DestroyLocked_NoWait ==
  /\ dpc = "lock"
  /\ valid' = 0 /\ quit' = IF counter > 0 THEN 1 ELSE quit
  /\ dpc' = "mutex"
  /\ UNCHANGED <<queue, counter, mtx, servers, clients, dstatus, mstatus, history>>

DestroyLocked ==   \* run the servers down and wait for the last one
  /\ dpc = "lock"
  /\ valid' = 0
  /\ \/ /\ counter > 0
        /\ quit' = 1
        /\ pc' = [s \in Servers |->
                    IF idle > 0 /\ pc[s] = "sleep" THEN "wake" ELSE pc[s]]
        /\ dpc' = "sleep"
     \/ /\ counter <= 0
        /\ dpc' = "mutex"
        /\ UNCHANGED <<quit, pc>>
  /\ UNCHANGED <<queue, counter, mtx, timedout, job, clients, dstatus, mstatus, history>>

DestroyWoken ==
  /\ dpc = "wake"
  /\ dpc' = IF counter > 0 THEN "sleep" ELSE "mutex"
  /\ UNCHANGED <<wq, servers, clients, dstatus, mstatus, history>>

DestroySpurious ==
  /\ dpc = "sleep"
  /\ dpc' = "wake"
  /\ UNCHANGED <<wq, servers, clients, dstatus, mstatus, history>>

Contending ==
  \/ \E s \in Servers : pc[s] \in {"start", "wake", "back"}
  \/ \E c \in Clients : cpc[c] = "lock"

DestroyMutex ==    \* refused when a contending thread holds the mutex
  /\ dpc = "mutex"
  /\ \/ mtx' = "dead" /\ mstatus' = 0
     \/ Contending /\ mstatus' = EBUSY /\ UNCHANGED mtx
  /\ dpc' = "cond"
  /\ UNCHANGED <<valid, quit, queue, counter, servers, clients, dstatus, history>>

DestroyCond ==     \* pthread_cond_destroy waits for sleepers, returns 0
  /\ dpc = "cond"
  /\ Asleep = {}
  /\ dstatus' = mstatus
  /\ dpc' = "done"
  /\ UNCHANGED <<wq, servers, clients, mstatus, history>>

(***************************************************************************)
(* The specification.  Every thread keeps running, engines return, and a   *)
(* timed wait ends: its deadline is absolute, so early wakeups do not move *)
(* it, which is why the timeout is strongly fair.  Nobody has to call      *)
(* workq_destroy, but who has called it goes on.                           *)
(***************************************************************************)
ClientStep(c) == AddLockFailed(c) \/ Enqueue(c) \/ EnqueueNoThread(c)

ServerStep(s) ==
  ServerStart(s) \/ ServerWoken(s) \/ ServerBack(s) \/ Engine(s) \/ ServerLockFailed(s)

MainStep ==
  WorkqInit \/ WorkqDestroy \/ DestroyLocked \/ DestroyWoken \/ DestroyMutex \/ DestroyCond

Terminated ==
  /\ dpc = "done"
  /\ \A s \in Servers : pc[s] = "none"
  /\ \A c \in Clients : cpc[c] = "idle"
  /\ UNCHANGED vars

Next ==
  \/ \E c \in Clients : WorkqAdd(c) \/ ClientStep(c)
  \/ \E s \in Servers : ServerStep(s) \/ Timeout(s) \/ SpuriousWakeup(s)
  \/ MainStep \/ DestroySpurious
  \/ Terminated

Spec == Init /\ [][Next]_vars

Fairness ==
  /\ \A c \in Clients : WF_vars(ClientStep(c))
  /\ \A s \in Servers : WF_vars(ServerStep(s)) /\ SF_vars(Timeout(s))
  /\ WF_vars(dpc # "up" /\ MainStep)

FairSpec == Spec /\ Fairness
-----------------------------------------------------------------------------
(***************************************************************************)
(* Properties.                                                             *)
(***************************************************************************)

(* Every variable of the queue, its servers and its clients keeps its type.*)
TypeOK ==
  /\ valid \in {0, WORKQ_VALID} /\ quit \in {0, 1} /\ mtx \in {"raw", "live", "dead"}
  /\ queue \in Seq(Items) /\ counter \in Nat
  /\ pc \in [Servers -> {"none", "start", "sleep", "wake", "work", "back"}]
  /\ timedout \in [Servers -> {0, 1}]
  /\ job \in [Servers -> Items \cup {NoItem}]
  /\ cpc \in [Clients -> {"idle", "lock"}]
  /\ status \in [Clients -> {0, EINVAL, ENOMEM, EAGAIN}]
  /\ adds \in [Clients -> 0..MaxAdds]
  /\ dpc \in {"init", "up", "lock", "sleep", "wake", "mutex", "cond", "done"}
  /\ dstatus \in {0, EINVAL, EAGAIN, EBUSY} /\ mstatus \in {0, EBUSY}
  /\ accepted \subseteq Items /\ finished \in [Items -> Nat]

Alive == {s \in Servers : pc[s] # "none"}

(* wq->counter is the number of server threads, and never more than the    *)
(* parallelism asked for (workq.c:86, 115, 139, 291, 303).                 *)
CounterCounts ==
  mtx # "dead" => counter = Cardinality(Alive) /\ counter <= Parallelism

Occurrences(i) == Cardinality({n \in DOMAIN queue : queue[n] = i})

(* No item is lost or handed to two servers: an accepted item is queued    *)
(* once, in the hands of one server, or has been through the engine once   *)
(* (workq.c:92-103, 276-280).                                              *)
ItemsOnce ==
  \A i \in accepted :
    Occurrences(i) + Cardinality({s \in Servers : pc[s] = "work" /\ job[s] = i})
      + finished[i] = 1

(* When the queue's objects are destroyed, no server is left to use them   *)
(* (workq.c:42, "we wait for all server threads to terminate before        *)
(* destroying a work queue").                                              *)
QuietDestroy == mtx = "dead" => Alive = {}

(* A queue that is destroyed has served every item it accepted.            *)
DestroyDrains == dpc = "done" /\ mtx = "dead" => \A i \in accepted : finished[i] = 1

(* Servers take the items in the order they were added, each item once,    *)
(* at most Parallelism at a time.                                          *)
Pool == INSTANCE WorkPool WITH
  pending <- queue,
  running <- {<<s, job[s]>> : s \in {r \in Servers : pc[r] = "work"}},
  done <- finished

ImplementsWorkPool == Pool!Spec

(* workq_destroy returns in the end.                                       *)
DestroyReturns == dpc = "lock" ~> dpc = "done"

(* Every item that workq_add has accepted is served, although no sleeping  *)
(* server is ever signalled (workq.c:285) and whether or not anybody adds  *)
(* another one or destroys the queue: a server whose two seconds are over  *)
(* looks at the queue before it leaves (workq.c:64-67, 94, 138).  Only an  *)
(* add that races with a destroy may see its item left.                    *)
AcceptedServed ==
  []<>(mtx = "dead" \/ \A i \in accepted : finished[i] = 1)
=============================================================================

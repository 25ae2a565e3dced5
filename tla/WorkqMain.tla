------------------------------ MODULE WorkqMain ------------------------------
(***************************************************************************)
(* workq_main.c: two threads add ITERATIONS items each to the work queue   *)
(* of module Workq; main joins, destroys the queue and adds up the engine  *)
(* statistics that every server thread keeps in thread-specific data and   *)
(* that the data's destructor puts on a list when the thread ends.         *)
(* MaxAdds is ITERATIONS and Clients the two threads of thread_routine.    *)
(* An engine_t stands for the items its engine was called with: calls, the *)
(* field it has, is how many they are.                                     *)
(***************************************************************************)
EXTENDS Workq, FiniteSetsExt

(* main joins the two threads before it destroys the queue.                *)
ProgramShape == JoinFirst

VARIABLES
  calls,     \* the engine of each server thread, {} while it has no data
  ending,    \* the engines of the threads that have left workq_server, but
             \* whose destructor has not run
  list,      \* engine_list_head: the engines of the threads that have ended
  total,     \* main's sum of the calls on the list, -1 before it has one
  aborted    \* the process died in err_abort

tsd == <<calls, ending, list>>
allvars == <<vars, tsd, total, aborted>>

MainInit ==
  /\ Init
  /\ calls = [s \in Servers |-> {}]
  /\ ending = {} /\ list = {}
  /\ total = -1
  /\ aborted = FALSE

(* thread_routine: any failure aborts the process.                         *)
Add(c) ==
  /\ ~aborted
  /\ WorkqAdd(c) \/ ClientStep(c)
  /\ aborted' = (status'[c] > 0)
  /\ UNCHANGED <<tsd, total>>

(* engine_routine counts the call in the server's thread-specific data.    *)
EngineRoutine(s) ==
  /\ ~aborted
  /\ Engine(s)
  /\ calls' = [calls EXCEPT ![s] = @ \cup {job[s]}]
  /\ UNCHANGED <<ending, list, total, aborted>>

(* The server goes on, or leaves: a thread with data then has its          *)
(* destructor to run.                                                      *)
ServerRuns(s) ==
  /\ ~aborted
  /\ ServerStart(s) \/ ServerWoken(s) \/ ServerBack(s)
  /\ \/ pc'[s] # "none" /\ UNCHANGED <<calls, ending>>
     \/ /\ pc'[s] = "none"
        /\ calls' = [calls EXCEPT ![s] = {}]
        /\ ending' = ending \cup ({calls[s]} \ {{}})
  /\ UNCHANGED <<list, total, aborted>>

ServerWaits(s) ==
  /\ ~aborted
  /\ Timeout(s) \/ SpuriousWakeup(s)
  /\ UNCHANGED <<tsd, total, aborted>>

Destructor ==      \* links the data of an ending thread to the list
  /\ ~aborted
  /\ \E engine \in ending :
       /\ list' = list \cup {engine}
       /\ ending' = ending \ {engine}
  /\ UNCHANGED <<vars, calls, total, aborted>>

Main_ ==           \* workq_init and workq_destroy; a failure aborts
  /\ ~aborted
  /\ MainStep \/ DestroySpurious
  /\ aborted' = (dstatus' > 0)
  /\ UNCHANGED <<tsd, total>>

Summary ==         \* walks the list
  /\ ~aborted /\ dpc = "done" /\ total = -1
  /\ total' = MapThenSumSet(Cardinality, list)
  /\ UNCHANGED <<vars, tsd, aborted>>

Ended ==
  /\ aborted \/ total >= 0
  /\ UNCHANGED allvars

MainNext ==
  \/ \E c \in Clients : Add(c)
  \/ \E s \in Servers : EngineRoutine(s) \/ ServerRuns(s) \/ ServerWaits(s)
  \/ Destructor \/ Main_ \/ Summary
  \/ Ended

(* Every thread runs on, and an idle server's two seconds pass.            *)
MainFairness ==
  /\ WF_allvars(\E c \in Clients : Add(c))
  /\ WF_allvars(Destructor \/ (MainStep /\ Main_) \/ Summary)
  /\ \A s \in Servers :
       WF_allvars(EngineRoutine(s) \/ ServerRuns(s)) /\ SF_allvars(ServerWaits(s) /\ Timeout(s))

MainSpec == MainInit /\ [][MainNext]_allvars /\ MainFairness
-----------------------------------------------------------------------------
(* Every call the engine has completed is counted once: in the data of one *)
(* server that runs, of one thread that has left the queue and is still    *)
(* ending, or of one on the list (workq_main.c:38-41, 55-65).  It is not   *)
(* what the comment at workq_main.c:130-132 says, that by the summary "all *)
(* of the engine_t structures have been placed on the list": a server      *)
(* gives back its place in the queue's counter before its destructor runs, *)
(* so Summary may find data still in ending, and total lacks those calls.  *)
CallsAccounted ==
  \A i \in Items :
    finished[i] = Cardinality({s \in Servers : i \in calls[s]})
                    + Cardinality({e \in ending : i \in e})
                    + Cardinality({e \in list : i \in e})

(* The program ends: every item is served, the queue is destroyed once all *)
(* servers have timed out or left, and main prints its summary, unless a   *)
(* call failed (workq_main.c:125-143).                                     *)
ProgramEnds == <>(aborted \/ total >= 0)
=============================================================================

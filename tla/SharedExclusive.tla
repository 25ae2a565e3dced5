--------------------------- MODULE SharedExclusive ---------------------------
(***************************************************************************)
(* What a read-write lock promises: any number of readers, or one writer.  *)
(***************************************************************************)
CONSTANT Threads

VARIABLES readers, writers    \* the threads that own the lock

vars == <<readers, writers>>

Init == readers = {} /\ writers = {}

Read(t) ==
  /\ writers = {} /\ t \notin readers
  /\ readers' = readers \cup {t}
  /\ UNCHANGED writers

Write(t) ==
  /\ writers = {} /\ readers = {}
  /\ writers' = {t}
  /\ UNCHANGED readers

Leave(t) ==
  /\ t \in readers \cup writers
  /\ readers' = readers \ {t}
  /\ writers' = writers \ {t}

Next == \E t \in Threads : Read(t) \/ Write(t) \/ Leave(t)

Spec == Init /\ [][Next]_vars
=============================================================================

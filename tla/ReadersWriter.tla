--------------------------- MODULE ReadersWriter ---------------------------
(***************************************************************************)
(* What storage/repository.py promises the threads of one server: inside   *)
(* one process a write transaction runs alone, and read connections share. *)
(* Different processes are not coordinated here (SQLite's file locks do    *)
(* that).                                                                  *)
(***************************************************************************)
CONSTANTS
    Threads,    \* every thread of every process that opens the database
    Procs,      \* the operating-system processes
    ProcOf      \* the process a thread runs in

VARIABLES
    readers,    \* threads inside at least one read connection
    writers     \* threads inside a write transaction

vars == <<readers, writers>>

Peers(t) == {u \in Threads : ProcOf[u] = ProcOf[t]}

Init == readers = {} /\ writers = {}

StartRead(t) ==
    /\ t \notin readers
    /\ writers \cap Peers(t) = {}
    /\ readers' = readers \cup {t}
    /\ UNCHANGED writers

EndRead(t) ==
    /\ t \in readers
    /\ readers' = readers \ {t}
    /\ UNCHANGED writers

StartWrite(t) ==
    /\ (readers \cup writers) \cap Peers(t) = {}
    /\ writers' = writers \cup {t}
    /\ UNCHANGED readers

EndWrite(t) ==
    /\ t \in writers
    /\ writers' = writers \ {t}
    /\ UNCHANGED readers

Next == \E t \in Threads : StartRead(t) \/ EndRead(t) \/ StartWrite(t) \/ EndWrite(t)

Spec == Init /\ [][Next]_vars
=============================================================================

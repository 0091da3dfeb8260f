--------------------------- MODULE MCStorageLock ---------------------------
(* Three threads of the server process (a writer can meet a reader and a   *)
(* second waiter) and one thread of another process (hook or CLI).          *)
EXTENDS StorageLock, TLC

CONSTANTS t1, t2, t3, server, hook

MCThreads == {t1, t2, t3}
MCProcs == {server, hook}
MCProcOf == (t1 :> server) @@ (t2 :> server) @@ (t3 :> hook)
=============================================================================

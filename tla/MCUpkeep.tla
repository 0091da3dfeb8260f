------------------------------- MODULE MCUpkeep -------------------------------
(* The parts that keep a file or a table of their own and share nothing else: *)
(* the scan cache, the hook settings, config.toml, the schema, the CI baseline *)
(* and the stored results.  One run explores each of them to the end, with the *)
(* others at their initial state.                                              *)
EXTENDS ScanCacheFile, HookInstall, ConfigFile, Migration, Ratchet, ResultStore, TLC

CONSTANTS scan1, scan2, scan3, short, long,
          c1, c2, a1, a2, a3, b1   \* two clients; items of one file and of another

VARIABLE focus   \* the part that moves

MCWriters == {scan1, scan2, scan3}
MCEntries == {short, long}
MCLength == (short :> 1) @@ (long :> 2)

\* Two places with one key, as the methods of two Go types have, in a file that is not
\* indexed, and one of the rule that the comparison leaves out, in a file that is.
MCSite == {[key |-> "a", file |-> "g", severity |-> "error", transient |-> FALSE, nth |-> 1],
           [key |-> "a", file |-> "g", severity |-> "error", transient |-> FALSE, nth |-> 2],
           [key |-> "c", file |-> "f", severity |-> "info", transient |-> TRUE, nth |-> 1]}

\* A list that is returned whole, and one above what a retrieval returns.
MCFileOf == [i \in {a1, a2, a3, b1} |-> IF i = b1 THEN "b" ELSE "a"]
MCLists == {<<a1>>, <<a1, b1, a2, a3>>}
MCRequests == {[mode |-> "exact", limit |-> 0, file |-> "any"]}

Parts == {"cache", "hooks", "config", "schema", "ratchet", "store"}

UpkeepInit ==
    /\ focus \in Parts
    /\ Init /\ HookInit /\ ConfigInit /\ MigrationInit /\ RatchetInit /\ StoreInit
    /\ focus # "cache" => \A w \in Writers : entry[w] = short
    /\ focus # "schema" => db = Blank

CacheStep == focus = "cache" /\ Next
    /\ UNCHANGED <<hookVars, configVars, migrationVars, ratchetVars, storeVars>>
HooksStep == focus = "hooks" /\ HookNext
    /\ UNCHANGED <<vars, configVars, migrationVars, ratchetVars, storeVars>>
ConfigStep == focus = "config" /\ ConfigNext
    /\ UNCHANGED <<vars, hookVars, migrationVars, ratchetVars, storeVars>>
SchemaStep == focus = "schema" /\ MigrationNext
    /\ UNCHANGED <<vars, hookVars, configVars, ratchetVars, storeVars>>
RatchetStep == focus = "ratchet" /\ RatchetNext
    /\ UNCHANGED <<vars, hookVars, configVars, migrationVars, storeVars>>

StoreStep == focus = "store" /\ StoreNext
    /\ UNCHANGED <<vars, hookVars, configVars, migrationVars, ratchetVars>>

UpkeepNext ==
    /\ UNCHANGED focus
    /\ CacheStep \/ HooksStep \/ ConfigStep \/ SchemaStep \/ RatchetStep \/ StoreStep

UpkeepSpec == UpkeepInit /\ [][UpkeepNext]_<<focus, vars, hookVars, configVars, migrationVars, ratchetVars, storeVars>>
=============================================================================

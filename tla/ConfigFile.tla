----------------------------- MODULE ConfigFile ------------------------------
(* .codescent/config.toml.  Every service call initialises the storage and      *)
(* rewrites the file for its schema version; update_rules rewrites its rule     *)
(* packs.  Both read the file, truncate it and write it, with no lock.          *)
EXTENDS Naturals, FiniteSets

CONSTANTS Openers,       \* callers of initialize_storage
          Savers,        \* callers of update_rules
          Packs, Known,  \* selections of rule packs, and those of known packs only
          DefaultPacks,
          MaxConfigEdits,
          NoConfig

ASSUME PacksAssumption == DefaultPacks \in Packs /\ Known \subseteq Packs
ASSUME NoConfigAssumption ==
    NoConfig \notin [version : {"none", "old", "new"}, auto : BOOLEAN, packs : Packs]

VARIABLES config,    \* the file: [version, auto, packs], Emptied or NoConfig
          held,      \* what each caller has read
          at,        \* where it is
          answered,  \* the packs a load returned to it
          wanted,    \* ghost: what user and update_rules last set
          torn,      \* ghost: two callers overlapped, or one died with the file empty
          configEdits

configVars == <<config, held, at, answered, wanted, torn, configEdits>>

Accessors == Openers \cup Savers
Defaults == [auto |-> TRUE, packs |-> DefaultPacks]
Emptied == [version |-> "none", auto |-> TRUE, packs |-> DefaultPacks]
Settings(text) == IF text = NoConfig THEN Defaults ELSE [auto |-> text.auto, packs |-> text.packs]

ConfigInit ==
    /\ config = NoConfig
    /\ held = [c \in Accessors |-> NoConfig]
    /\ at = [c \in Accessors |-> "idle"]
    /\ answered = [c \in Accessors |-> Defaults]
    /\ wanted = Defaults
    /\ torn = FALSE
    /\ configEdits = 0

Midway == {c \in Accessors : at[c] # "idle"}
Step(c, place) == at' = [at EXCEPT ![c] = place]

\* Someone else is between its read and its write.
Tears(c) == torn' = (torn \/ Midway \ {c} # {})

-----------------------------------------------------------------------------

\* The user saves the file in an editor, with or without a schema version.
EditConfig ==
    /\ configEdits < MaxConfigEdits
    /\ configEdits' = configEdits + 1
    /\ \E auto \in BOOLEAN, packs \in Packs, version \in {"none", "old"} :
          /\ config' = [version |-> version, auto |-> auto, packs |-> packs]
          /\ wanted' = [auto |-> auto, packs |-> packs]
    /\ torn' = (torn \/ Midway # {})
    /\ UNCHANGED <<held, at, answered>>

\* Mutant of ReadConfig: the file is opened for writing before it is read.
ReadConfigTruncated(c) ==
    /\ at[c] = "idle"
    /\ Step(c, "read")
    /\ config' = IF config = NoConfig THEN NoConfig ELSE Emptied
    /\ held' = [held EXCEPT ![c] = config']
    /\ answered' = [answered EXCEPT ![c] = Settings(config)]
    /\ Tears(c)
    /\ UNCHANGED <<wanted, configEdits>>

\* ConfigService.load, and the second read of save_rule_packs and of the version
\* update: a missing file stands for the defaults, and so does an empty one.
ReadConfig(c) ==
    /\ at[c] = "idle"
    /\ Step(c, "read")
    /\ held' = [held EXCEPT ![c] = config]
    /\ answered' = [answered EXCEPT ![c] = Settings(config)]
    /\ Tears(c)
    /\ UNCHANGED <<config, wanted, configEdits>>

\* write_text opens the file, which empties it.
Truncate(c) ==
    /\ at[c] = "read"
    /\ Step(c, "truncated")
    /\ config' = Emptied
    /\ Tears(c)
    /\ UNCHANGED <<held, answered, wanted, configEdits>>

\* _write_config_schema_version: its line is replaced, or appended when there is none.
WriteVersion(c) ==
    /\ c \in Openers /\ at[c] = "truncated"
    /\ Step(c, "idle")
    /\ config' = [version |-> "new", auto |-> Settings(held[c]).auto,
                  packs |-> Settings(held[c]).packs]
    /\ held' = [held EXCEPT ![c] = NoConfig]
    /\ Tears(c)
    /\ UNCHANGED <<answered, wanted, configEdits>>

\* save_rule_packs: the other keys are written back as they were read.
WritePacks(c) ==
    /\ c \in Savers /\ at[c] = "truncated"
    /\ Step(c, "idle")
    /\ \E packs \in Known :
          /\ config' = [version |-> IF held[c] = NoConfig THEN "none" ELSE held[c].version,
                        auto |-> Settings(held[c]).auto, packs |-> packs]
          /\ wanted' = [wanted EXCEPT !.packs = packs]
          /\ answered' = [answered EXCEPT ![c].packs = packs]
    /\ held' = [held EXCEPT ![c] = NoConfig]
    /\ Tears(c)
    /\ UNCHANGED configEdits

\* update_rules refuses a selection with an unknown pack and reports what is set.
RefusePacks(c) ==
    /\ c \in Savers /\ at[c] = "read" /\ Packs # Known
    /\ Step(c, "idle")
    /\ held' = [held EXCEPT ![c] = NoConfig]
    /\ Tears(c)
    /\ UNCHANGED <<config, answered, wanted, configEdits>>

\* The process dies, or the disk is full, with the file empty.
WriteBreaksOff(c) ==
    /\ at[c] = "truncated"
    /\ Step(c, "idle")
    /\ held' = [held EXCEPT ![c] = NoConfig]
    /\ torn' = TRUE
    /\ UNCHANGED <<config, answered, wanted, configEdits>>

ConfigNext ==
    \/ EditConfig
    \/ \E c \in Accessors : ReadConfig(c) \/ Truncate(c) \/ WriteVersion(c) \/ WritePacks(c)
                            \/ RefusePacks(c) \/ WriteBreaksOff(c)

ConfigSpec == ConfigInit /\ [][ConfigNext]_configVars

-----------------------------------------------------------------------------
(* Properties *)

\* However often a service call rewrites the file, it keeps the settings the user
\* and update_rules gave it, and a load returns them, as long as no two callers
\* overlap and none breaks off: the rewrite is neither locked nor a rename
\* (repository.py:146, config.py:39).
SettingsKept ==
    ~torn => /\ Midway = {} => Settings(config) = wanted
             /\ \A c \in Accessors : at[c] = "read" => answered[c] = wanted
=============================================================================

---------------------------- MODULE Upkeep_proofs ----------------------------
(* The parts that keep a file or a table of their own: the scan cache,        *)
(* config.toml, the schema, the CI baseline, the result store and the hook    *)
(* settings, one after the other.                                             *)
EXTENDS ScanCacheFile, HookInstall, ConfigFile, Migration, Ratchet, ResultStore,
        Ordering_proofs

-----------------------------------------------------------------------------
(* The scan cache: a store that overlaps no other has the temporary file to  *)
(* itself, so what it renames is whole, and until stores overlap nothing     *)
(* else reaches the cache.                                                   *)

WholeEntry(e) == [text |-> e, length |-> Length[e]]

\* The temporary file of a store that overlaps no other.
SoloOwnsTmp ==
    \A w \in Writers : (pc[w] # "idle" /\ w \in solo) =>
        /\ \A v \in Writers : pc[v] # "idle" => v = w
        /\ handle[w] = "tmp"
        /\ pc[w] = "opened" => file["tmp"] = Empty
        /\ pc[w] = "written" => file["tmp"] = WholeEntry(entry[w])

BusyAreSolo == ~overlap => \A w \in Writers : pc[w] # "idle" => w \in solo

\* An open file that has a name is there.
HandlesOpen == \A w \in Writers : handle[w] # "unlinked" => file[handle[w]] # NoFile

CacheInv == TypeOK /\ HandlesOpen /\ SoloOwnsTmp /\ BusyAreSolo /\ CrashDoesNotPoison

LEMMA CacheStarts == Init => CacheInv
BY TextAssumption, LengthAssumption
   DEF Init, CacheInv, TypeOK, SoloOwnsTmp, BusyAreSolo, CrashDoesNotPoison, Readable,
       Content, HandlesOpen

LEMMA EmptyTyped == Empty \in Content
BY DEF Empty, Content

LEMMA OverlayTyped ==
    ASSUME NEW old \in Content, NEW text \in Entry \cup {Garbage}, NEW n \in Nat
    PROVE  Overlay(old, text, n) \in Content
BY DEF Overlay, Content

\* A whole entry over an empty file is that entry.
LEMMA OverlayEmpty ==
    ASSUME NEW e \in Entry
    PROVE  Overlay(Empty, e, Length[e]) = WholeEntry(e)
BY LengthAssumption DEF Overlay, Empty, WholeEntry

\* What a write leaves behind: a file has a text, and another file is untouched.
LEMMA PutTyped ==
    ASSUME TypeOK, NEW w \in Writers, NEW text \in Entry \cup {Garbage}, NEW n \in Nat,
           Put(w, text, n), HandlesOpen
    PROVE  /\ file' \in [{"tmp", "cache"} -> Content \cup {NoFile}]
           /\ \A m \in {"tmp", "cache"} :
                  /\ file[m] # NoFile => file'[m] # NoFile
                  /\ m # handle[w] => file'[m] = file[m]
<1>1. CASE handle[w] = "unlinked"
  BY <1>1 DEF Put, TypeOK
<1>2. CASE handle[w] # "unlinked"
  <2>1. file[handle[w]] \in Content
    BY <1>2 DEF TypeOK, HandlesOpen
  <2>2. Overlay(file[handle[w]], text, n) \in Content
    BY <2>1, OverlayTyped
  <2>3. file' = [file EXCEPT ![handle[w]] = Overlay(file[handle[w]], text, n)]
    BY <1>2 DEF Put
  <2> QED BY <1>2, <2>2, <2>3, TextAssumption DEF TypeOK
<1> QED BY <1>1, <1>2

-----------------------------------------------------------------------------
(* One lemma per action *)

LEMMA OpenStep ==
    ASSUME CacheInv, NEW w \in Writers, NEW e \in Entry, Open(w, e)
    PROVE  CacheInv'
<1> USE TextAssumption, LengthAssumption DEF Open, Meets, Busy
<1>1. TypeOK'
  BY EmptyTyped DEF CacheInv, TypeOK
<1>2. HandlesOpen'
  BY EmptyTyped DEF CacheInv, TypeOK, HandlesOpen
<1>3. SoloOwnsTmp'
  BY EmptyTyped DEF CacheInv, TypeOK, SoloOwnsTmp
<1>4. BusyAreSolo'
  BY DEF CacheInv, TypeOK, BusyAreSolo
<1>5. CrashDoesNotPoison'
  BY DEF CacheInv, TypeOK, CrashDoesNotPoison, Readable
<1> QED BY <1>1, <1>2, <1>3, <1>4, <1>5 DEF CacheInv

LEMMA WriteStep ==
    ASSUME CacheInv, NEW w \in Writers, Write(w)
    PROVE  CacheInv'
<1> DEFINE e == entry[w]
<1> USE TextAssumption, LengthAssumption
<1>0. e \in Entry /\ Length[e] \in Nat /\ Put(w, e, Length[e])
  BY DEF CacheInv, TypeOK, Write
<1>a. /\ file' \in [{"tmp", "cache"} -> Content \cup {NoFile}]
      /\ \A m \in {"tmp", "cache"} :
             /\ file[m] # NoFile => file'[m] # NoFile
             /\ m # handle[w] => file'[m] = file[m]
  BY <1>0, PutTyped DEF CacheInv
<1>1. TypeOK'
  BY <1>a DEF CacheInv, TypeOK, Write
<1>2. HandlesOpen'
  BY <1>a DEF CacheInv, TypeOK, HandlesOpen, Write
<1>3. SoloOwnsTmp'
  <2> SUFFICES ASSUME NEW v \in Writers, pc'[v] # "idle", v \in solo'
               PROVE  /\ \A u \in Writers : pc'[u] # "idle" => u = v
                      /\ handle'[v] = "tmp"
                      /\ pc'[v] = "opened" => file'["tmp"] = Empty
                      /\ pc'[v] = "written" => file'["tmp"] = WholeEntry(entry'[v])
    BY DEF SoloOwnsTmp
  <2>1. v \in solo /\ pc[v] # "idle" /\ \A u \in Writers : pc'[u] # "idle" <=> pc[u] # "idle"
    BY DEF Write, CacheInv, TypeOK
  <2>2. v = w /\ handle[w] = "tmp" /\ file["tmp"] = Empty
    BY <2>1 DEF CacheInv, SoloOwnsTmp, Write
  <2>3. file'["tmp"] = Overlay(Empty, e, Length[e])
    BY <1>0, <2>2 DEF Put, CacheInv, TypeOK
  <2>4. file'["tmp"] = WholeEntry(e)
    BY <1>0, <2>3, OverlayEmpty
  <2>5. pc'[v] = "written" /\ entry' = entry /\ handle' = handle
    BY <2>2 DEF Write, CacheInv, TypeOK
  <2> QED BY <2>1, <2>2, <2>4, <2>5 DEF CacheInv, SoloOwnsTmp
<1>4. BusyAreSolo'
  BY DEF CacheInv, TypeOK, BusyAreSolo, Write
<1>5. CrashDoesNotPoison'
  <2>1. ~overlap => handle[w] = "tmp"
    BY DEF CacheInv, BusyAreSolo, SoloOwnsTmp, Write
  <2>2. ~overlap => file'["cache"] = file["cache"]
    BY <2>1, <1>a
  <2> QED BY <2>2 DEF CacheInv, CrashDoesNotPoison, Readable, Write
<1> QED BY <1>1, <1>2, <1>3, <1>4, <1>5 DEF CacheInv

\* A store that ends without renaming touches at most the file it has open.
LEMMA EndStep ==
    ASSUME CacheInv, NEW w \in Writers, pc[w] # "idle", Close(w), End(w),
           file' \in [{"tmp", "cache"} -> Content \cup {NoFile}],
           \A m \in {"tmp", "cache"} :
               /\ file[m] # NoFile => file'[m] # NoFile
               /\ m # handle[w] => file'[m] = file[m]
    PROVE  CacheInv'
<1> USE TextAssumption, LengthAssumption DEF Close, End
<1>1. TypeOK'
  BY DEF CacheInv, TypeOK
<1>2. HandlesOpen'
  BY DEF CacheInv, TypeOK, HandlesOpen
<1>3. SoloOwnsTmp'
  BY DEF CacheInv, TypeOK, SoloOwnsTmp
<1>4. BusyAreSolo'
  BY DEF CacheInv, TypeOK, BusyAreSolo
<1>5. CrashDoesNotPoison'
  <2>1. ~overlap => handle[w] = "tmp"
    BY DEF CacheInv, BusyAreSolo, SoloOwnsTmp
  <2>2. ~overlap => file'["cache"] = file["cache"]
    BY <2>1
  <2> QED BY <2>2 DEF CacheInv, CrashDoesNotPoison, Readable
<1> QED BY <1>1, <1>2, <1>3, <1>4, <1>5 DEF CacheInv

LEMMA BreakStep ==
    ASSUME CacheInv, NEW w \in Writers, WriteBreaks(w)
    PROVE  CacheInv'
<1>1. PICK n \in 0..(Length[entry[w]] - 1) : Put(w, Garbage, n)
  BY DEF WriteBreaks
<1>2. n \in Nat
  BY DEF CacheInv, TypeOK
<1>3. /\ file' \in [{"tmp", "cache"} -> Content \cup {NoFile}]
      /\ \A m \in {"tmp", "cache"} :
             /\ file[m] # NoFile => file'[m] # NoFile
             /\ m # handle[w] => file'[m] = file[m]
  BY <1>1, <1>2, PutTyped DEF CacheInv
<1> QED BY <1>3, EndStep DEF WriteBreaks

LEMMA GiveUpStep ==
    ASSUME CacheInv, NEW w \in Writers, Crash(w) \/ ReplaceFails(w)
    PROVE  CacheInv'
<1>1. pc[w] # "idle" /\ Close(w) /\ End(w) /\ file' = file
  BY DEF Crash, ReplaceFails
<1>2. file \in [{"tmp", "cache"} -> Content \cup {NoFile}]
  BY DEF CacheInv, TypeOK
<1> QED BY <1>1, <1>2, EndStep

\* The step that makes a cache: alone, a writer renames what it wrote.
LEMMA ReplaceStep ==
    ASSUME CacheInv, NEW w \in Writers, Replace(w)
    PROVE  /\ CacheInv'
           /\ w \in solo => file'["cache"] = WholeEntry(entry[w])
<1> USE TextAssumption, LengthAssumption DEF Replace, End
<1>0. w \in solo => file'["cache"] = WholeEntry(entry[w])
  BY DEF CacheInv, TypeOK, SoloOwnsTmp
<1>1. TypeOK'
  BY DEF CacheInv, TypeOK
<1>2. HandlesOpen'
  BY DEF CacheInv, TypeOK, HandlesOpen
<1>3. SoloOwnsTmp'
  BY DEF CacheInv, TypeOK, SoloOwnsTmp
<1>4. BusyAreSolo'
  BY DEF CacheInv, TypeOK, BusyAreSolo
<1>5. CrashDoesNotPoison'
  <2>1. ~overlap => w \in solo
    BY DEF CacheInv, BusyAreSolo
  <2>2. entry[w] # Garbage
    BY DEF CacheInv, TypeOK
  <2> QED BY <1>0, <2>1, <2>2 DEF CrashDoesNotPoison, Readable, WholeEntry
<1> QED BY <1>0, <1>1, <1>2, <1>3, <1>4, <1>5 DEF CacheInv

LEMMA CacheStays == CacheInv /\ [Next]_vars => CacheInv'
<1> SUFFICES ASSUME CacheInv, [Next]_vars PROVE CacheInv'
  OBVIOUS
<1>1. CASE UNCHANGED vars
  BY <1>1 DEF vars, CacheInv, TypeOK, HandlesOpen, SoloOwnsTmp, BusyAreSolo,
              CrashDoesNotPoison, Readable
<1>2. CASE Next
  <2>1. PICK w \in Writers :
            \/ \E e \in Entry : Open(w, e)
            \/ Write(w) \/ WriteBreaks(w) \/ Crash(w) \/ Replace(w) \/ ReplaceFails(w)
    BY <1>2 DEF Next
  <2> QED BY <2>1, OpenStep, WriteStep, BreakStep, GiveUpStep, ReplaceStep
<1> QED BY <1>1, <1>2

LEMMA CacheInvariant == Spec => []CacheInv
BY CacheStarts, CacheStays, PTL DEF Spec

-----------------------------------------------------------------------------
(* Theorems *)

\* The reachable states are well typed, and an ended store has no file open.
THEOREM CacheTyped == Spec => []TypeOK
<1>1. CacheInv => TypeOK
  BY DEF CacheInv
<1> QED BY CacheInvariant, <1>1, PTL

\* Until two stores overlap, breaking off at any point of store leaves the cache
\* whole.
THEOREM CacheNotPoisoned == Spec => []CrashDoesNotPoison
<1>1. CacheInv => CrashDoesNotPoison
  BY DEF CacheInv
<1> QED BY CacheInvariant, <1>1, PTL

\* A store that overlaps no other renames its own whole entry to the cache.
THEOREM SoloStoresLand == Spec => SoloStoreLands
<1> DEFINE A == \A w \in Writers : (Replace(w) /\ w \in solo) =>
                    file'["cache"] = [text |-> entry[w], length |-> Length[entry[w]]]
<1>1. CacheInv /\ [Next]_vars => [A]_vars
  BY ReplaceStep DEF WholeEntry
<1> QED BY CacheInvariant, <1>1, PTL DEF Spec, SoloStoreLands

-----------------------------------------------------------------------------
(* config.toml: SettingsKept for any number of callers, selections and edits. *)

Text == [version : {"none", "old", "new"}, auto : BOOLEAN, packs : Packs]
Chosen == [auto : BOOLEAN, packs : Packs]

ConfigTyped ==
    /\ config \in Text \cup {NoConfig}
    /\ held \in [Accessors -> Text \cup {NoConfig}]
    /\ at \in [Accessors -> {"idle", "read", "truncated"}]
    /\ answered \in [Accessors -> Chosen]
    /\ wanted \in Chosen
    /\ torn \in BOOLEAN

\* Nobody overlaps anybody.
CallerAlone == \A c, d \in Accessors : at[c] # "idle" /\ at[d] # "idle" => c = d

\* The settings are in the file until the one caller empties it, then in what it holds.
SettingsHeld ==
    /\ (\A c \in Accessors : at[c] = "idle") => Settings(config) = wanted
    /\ \A c \in Accessors : at[c] = "read" =>
          /\ held[c] = config /\ Settings(config) = wanted
          /\ answered[c] = wanted
    /\ \A c \in Accessors : at[c] = "truncated" => Settings(held[c]) = wanted

ConfigInv == ConfigTyped /\ (~torn => CallerAlone /\ SettingsHeld)

\* What a file or its absence says, and a record of a file says what it holds.
LEMMA SettingsTyped ==
    /\ Defaults \in Chosen /\ Emptied \in Text
    /\ \A text \in Text \cup {NoConfig} : Settings(text) \in Chosen
    /\ \A text \in Text : Settings(text) = [auto |-> text.auto, packs |-> text.packs]
<1>1. Defaults \in Chosen /\ Emptied \in Text
  BY PacksAssumption DEF Defaults, Chosen, Emptied, Text
<1>2. \A text \in Text : text # NoConfig
  BY NoConfigAssumption DEF Text
<1>3. \A text \in Text : Settings(text) = [auto |-> text.auto, packs |-> text.packs]
  BY <1>2 DEF Settings
<1>4. \A text \in Text : [auto |-> text.auto, packs |-> text.packs] \in Chosen
  BY DEF Text, Chosen
<1>5. Settings(NoConfig) = Defaults
  BY DEF Settings
<1> QED BY <1>1, <1>3, <1>4, <1>5

LEMMA ConfigStarts == ConfigInit => ConfigInv
<1> SUFFICES ASSUME ConfigInit PROVE ConfigInv
  OBVIOUS
<1>1. ConfigTyped
  BY SettingsTyped DEF ConfigInit, ConfigTyped
<1>2. CallerAlone /\ SettingsHeld
  BY DEF ConfigInit, CallerAlone, SettingsHeld, Settings
<1> QED BY <1>1, <1>2 DEF ConfigInv

\* Nobody else is midway in a step that tears nothing.
LEMMA OthersIdle ==
    ASSUME ConfigTyped, NEW c \in Accessors, ~(torn \/ Midway \ {c} # {})
    PROVE  ~torn /\ \A d \in Accessors \ {c} : at[d] = "idle"
  BY DEF Midway, ConfigTyped

LEMMA ConfigStays == ConfigInv /\ [ConfigNext]_configVars => ConfigInv'
<1> SUFFICES ASSUME ConfigInv, [ConfigNext]_configVars PROVE ConfigInv'
  OBVIOUS
<1> USE DEF ConfigInv
<1>1. CASE EditConfig
  <2>1. PICK auto \in BOOLEAN, packs \in Packs, version \in {"none", "old"} :
           /\ config' = [version |-> version, auto |-> auto, packs |-> packs]
           /\ wanted' = [auto |-> auto, packs |-> packs]
    BY <1>1 DEF EditConfig
  <2>2. config' \in Text /\ wanted' \in Chosen /\ Settings(config') = wanted'
    BY <2>1, SettingsTyped DEF Text, Chosen
  <2>3. ConfigTyped'
    BY <1>1, <2>2 DEF EditConfig, ConfigTyped, Midway
  <2>4. ASSUME ~torn' PROVE CallerAlone' /\ SettingsHeld'
    <3>1. \A c \in Accessors : at'[c] = "idle"
      BY <1>1, <2>4 DEF EditConfig, Midway
    <3> QED BY <2>2, <3>1 DEF CallerAlone, SettingsHeld, Settings
  <2> QED BY <2>3, <2>4
<1>2. ASSUME NEW c \in Accessors, ReadConfig(c) PROVE ConfigInv'
  <2>1. ConfigTyped'
    BY <1>2, SettingsTyped DEF ReadConfig, ConfigTyped, Step, Tears
  <2>2. ASSUME ~torn' PROVE CallerAlone' /\ SettingsHeld'
    <3>1. ~torn /\ \A d \in Accessors : at[d] = "idle"
      BY <1>2, <2>2, OthersIdle DEF ReadConfig, Tears
    <3>2. Settings(config) = wanted
      BY <3>1 DEF SettingsHeld
    <3> QED BY <1>2, <3>1, <3>2 DEF ReadConfig, Step, CallerAlone, SettingsHeld, Settings, ConfigTyped
  <2> QED BY <2>1, <2>2
<1>3. ASSUME NEW c \in Accessors, Truncate(c) PROVE ConfigInv'
  <2>1. ConfigTyped'
    BY <1>3, SettingsTyped DEF Truncate, ConfigTyped, Step, Tears
  <2>2. ASSUME ~torn' PROVE CallerAlone' /\ SettingsHeld'
    <3>1. ~torn /\ \A d \in Accessors \ {c} : at[d] = "idle"
      BY <1>3, <2>2, OthersIdle DEF Truncate, Tears
    <3>2. Settings(held[c]) = wanted
      BY <1>3, <3>1 DEF Truncate, SettingsHeld
    <3> QED BY <1>3, <3>1, <3>2 DEF Truncate, Step, CallerAlone, SettingsHeld, Settings, ConfigTyped
  <2> QED BY <2>1, <2>2
<1>4. ASSUME NEW c \in Accessors, WriteVersion(c) PROVE ConfigInv'
  <2>1. Settings(held[c]) \in Chosen
    BY SettingsTyped DEF ConfigTyped
  <2>2. config' \in Text /\ Settings(config') = Settings(held[c])
    BY <1>4, <2>1, SettingsTyped DEF WriteVersion, Text, Chosen
  <2>3. ConfigTyped'
    BY <1>4, <2>2 DEF WriteVersion, ConfigTyped, Step, Tears
  <2>4. ASSUME ~torn' PROVE CallerAlone' /\ SettingsHeld'
    <3>1. ~torn /\ \A d \in Accessors \ {c} : at[d] = "idle"
      BY <1>4, <2>4, OthersIdle DEF WriteVersion, Tears
    <3>2. Settings(held[c]) = wanted
      BY <1>4, <3>1 DEF WriteVersion, SettingsHeld
    <3>3. Settings(config)' = wanted'
      BY <1>4, <2>2, <3>2 DEF WriteVersion, Settings
    <3> QED BY <1>4, <3>1, <3>3 DEF WriteVersion, Step, CallerAlone, SettingsHeld, ConfigTyped
  <2> QED BY <2>3, <2>4
<1>5. ASSUME NEW c \in Accessors, WritePacks(c) PROVE ConfigInv'
  <2>1. Settings(held[c]) \in Chosen
    BY SettingsTyped DEF ConfigTyped
  <2>2. PICK packs \in Known :
           /\ config' = [version |-> IF held[c] = NoConfig THEN "none" ELSE held[c].version,
                         auto |-> Settings(held[c]).auto, packs |-> packs]
           /\ wanted' = [wanted EXCEPT !.packs = packs]
           /\ answered' = [answered EXCEPT ![c].packs = packs]
    BY <1>5 DEF WritePacks
  <2>3. packs \in Packs
    BY PacksAssumption
  <2>4. config' \in Text
    BY <2>1, <2>2, <2>3 DEF Text, Chosen, ConfigTyped
  <2>5. Settings(config') = [auto |-> Settings(held[c]).auto, packs |-> packs]
    BY <2>2, <2>4, SettingsTyped
  <2>6. wanted' \in Chosen /\ answered' \in [Accessors -> Chosen]
    BY <2>2, <2>3 DEF Chosen, ConfigTyped
  <2>7. ConfigTyped'
    BY <1>5, <2>4, <2>6 DEF WritePacks, ConfigTyped, Step, Tears
  <2>8. ASSUME ~torn' PROVE CallerAlone' /\ SettingsHeld'
    <3>1. ~torn /\ \A d \in Accessors \ {c} : at[d] = "idle"
      BY <1>5, <2>8, OthersIdle DEF WritePacks, Tears
    <3>2. Settings(held[c]) = wanted
      BY <1>5, <3>1 DEF WritePacks, SettingsHeld
    <3>3. Settings(config') = wanted'
      BY <2>2, <2>5, <3>2 DEF ConfigTyped, Chosen
    <3>4. Settings(config)' = wanted'
      BY <3>3 DEF Settings
    <3> QED BY <1>5, <3>1, <3>4 DEF WritePacks, Step, CallerAlone, SettingsHeld, ConfigTyped
  <2> QED BY <2>7, <2>8
<1>6. ASSUME NEW c \in Accessors, RefusePacks(c) PROVE ConfigInv'
  <2>1. ConfigTyped'
    BY <1>6 DEF RefusePacks, ConfigTyped, Step, Tears
  <2>2. ASSUME ~torn' PROVE CallerAlone' /\ SettingsHeld'
    <3>1. ~torn /\ \A d \in Accessors \ {c} : at[d] = "idle"
      BY <1>6, <2>2, OthersIdle DEF RefusePacks, Tears
    <3>2. Settings(config) = wanted
      BY <1>6, <3>1 DEF RefusePacks, SettingsHeld
    <3> QED BY <1>6, <3>1, <3>2 DEF RefusePacks, Step, CallerAlone, SettingsHeld, Settings, ConfigTyped
  <2> QED BY <2>1, <2>2
<1>7. ASSUME NEW c \in Accessors, WriteBreaksOff(c) PROVE ConfigInv'
  BY <1>7 DEF WriteBreaksOff, ConfigTyped, Step
<1>8. CASE UNCHANGED configVars
  BY <1>8 DEF configVars, ConfigTyped, CallerAlone, SettingsHeld, Settings
<1> QED BY <1>1, <1>2, <1>3, <1>4, <1>5, <1>6, <1>7, <1>8 DEF ConfigNext

\* The service calls that rewrite config.toml keep what user and update_rules set in
\* it, unless two of them overlap or one breaks off.
THEOREM SettingsSurvive == ConfigSpec => []SettingsKept
<1>1. ConfigInv => SettingsKept
  BY DEF ConfigInv, SettingsHeld, SettingsKept, Midway
<1> QED BY <1>1, ConfigStarts, ConfigStays, PTL DEF ConfigSpec

-----------------------------------------------------------------------------
(* The schema: MigrationIsWhole for any set of engines, any number of        *)
(* transactions and a rollback between any two statements.                   *)

Database == [user : Nat, table : Nat, base : BOOLEAN, steps : SUBSET Nat, column : BOOLEAN,
             finding : [path : {"none", "empty", "set"}, linked : BOOLEAN]]

SchemaTyped ==
    /\ db \in Database
    /\ work \in Database \cup {Closed}
    /\ engine \in Nat
    /\ todo \in {"begin", "base", "steps", "backfill", "stamp", "commit"}
    /\ opens \in Nat
    /\ work = Closed <=> todo = "begin"
    /\ work # Closed => engine \in Engine

Version(d) == IF d.user > 0 THEN d.user ELSE d.table

\* A database has every step up to its version, whichever place states it.
Sound(d) ==
    /\ Whole(d)
    /\ 1..Version(d) \subseteq d.steps
    /\ d.column => d.base

\* What the open transaction has made so far, and what it has left alone.
Underway ==
    /\ db.steps \subseteq work.steps
    /\ db.column => work.column
    /\ db.base => work.base
    /\ db.finding.path = "set" => work.finding.path = "set"
    /\ work.column => work.base
    /\ todo # "base" => work.base
    /\ todo # "commit" => 1..Version(work) \subseteq work.steps
    /\ todo \in {"backfill", "stamp", "commit"} =>
          /\ 1..engine \subseteq work.steps
          /\ engine >= PathSince => work.column
    /\ todo \in {"stamp", "commit"} =>
          (engine >= PathSince /\ work.finding.linked => work.finding.path # "empty")
    /\ todo = "commit" => work.user = engine /\ work.table = engine

SchemaInv == SchemaTyped /\ Sound(db) /\ (work # Closed => Underway)

\* The databases a migration may find are sound.
LEMMA SchemaStarts == MigrationInit => SchemaInv
<1> SUFFICES ASSUME MigrationInit PROVE SchemaInv
  OBVIOUS
<1>1. Blank \in Database /\ Legacy \in Database
  <2>1. NoFinding \in [path : {"none", "empty", "set"}, linked : BOOLEAN]
    BY DEF NoFinding
  <2>2. Blank \in Database
    BY <2>1 DEF Blank, Database
  <2>3. 1..2 \in SUBSET Nat
    OBVIOUS
  <2>4. [path |-> "empty", linked |-> TRUE] \in [path : {"none", "empty", "set"}, linked : BOOLEAN]
    OBVIOUS
  <2>5. \A d \in Database, f \in [path : {"none", "empty", "set"}, linked : BOOLEAN] :
           [d EXCEPT !.table = 2, !.base = TRUE, !.steps = 1..2, !.finding = f] \in Database
    BY <2>3 DEF Database
  <2> QED BY <2>2, <2>4, <2>5 DEF Legacy
<1>2. Sound(Blank)
  BY DEF Sound, Whole, Version, Blank, NoFinding
<1>3. Sound(Legacy)
  <2>1. Legacy.user = 0 /\ Legacy.table = 2 /\ Legacy.base = TRUE /\ Legacy.steps = 1..2
        /\ Legacy.column = FALSE
    BY DEF Legacy, Blank, NoFinding
  <2> QED BY <2>1 DEF Sound, Whole, Version
<1>4. work = Closed /\ engine \in Nat /\ todo = "begin" /\ opens \in Nat /\ db \in {Blank, Legacy}
  BY DEF MigrationInit
<1> QED BY <1>1, <1>2, <1>3, <1>4 DEF SchemaInv, SchemaTyped

\* A closed transaction is no database.
LEMMA OpenIsDatabase == ASSUME SchemaTyped PROVE /\ work # Closed => work \in Database
                                           /\ db # Closed
  BY ClosedAssumption DEF SchemaTyped, Database

LEMMA SchemaStays == SchemaInv /\ [MigrationNext]_migrationVars => SchemaInv'
<1> SUFFICES ASSUME SchemaInv, [MigrationNext]_migrationVars PROVE SchemaInv'
  OBVIOUS
<1>a. SchemaTyped /\ Sound(db) /\ (work # Closed => Underway)
  BY DEF SchemaInv
<1>b. /\ work # Closed => work \in Database
      /\ db # Closed
  BY <1>a, OpenIsDatabase
<1>c. Engine \subseteq Nat /\ PathSince \in Nat
  BY EngineAssumption
<1>1. ASSUME NEW e \in Engine, Begin(e) PROVE SchemaInv'
  <2>1. SchemaTyped'
    BY <1>1, <1>a, <1>b, <1>c DEF SchemaTyped, Begin
  <2>2. Sound(db)' /\ Underway'
    BY <1>1, <1>a DEF Begin, Sound, Underway, Version, Whole
  <2> QED BY <2>1, <2>2 DEF SchemaInv
<1>2. CASE CreateBase
  <2>1. work \in Database /\ Underway /\ todo = "base" /\ todo' = "steps"
        /\ db' = db /\ engine' = engine /\ opens' = opens /\ engine \in Engine
    BY <1>2, <1>a, <1>b DEF CreateBase, Statement, SchemaTyped
  <2>2. /\ work' = [work EXCEPT !.base = TRUE, !.column = work'.column]
        /\ work'.column = IF work.base THEN work.column ELSE engine >= PathSince
    BY <1>2, <2>1 DEF CreateBase, Database
  <2>3. work'.column \in BOOLEAN
    <3>1. CASE work.base
      BY <2>1, <2>2, <3>1 DEF Database
    <3>2. CASE ~work.base
      <4>1. work'.column = (engine >= PathSince)
        BY <2>2, <3>2
      <4> QED BY <4>1
    <3> QED BY <3>1, <3>2
  <2>4. /\ work' \in Database /\ work'.base
        /\ work'.user = work.user /\ work'.table = work.table /\ work'.steps = work.steps
        /\ work'.finding = work.finding
    BY <2>1, <2>2, <2>3 DEF Database
  <2>5. db.column => work'.column
    BY <1>a, <2>1, <2>2 DEF Underway, Sound
  <2>6. SchemaTyped'
    BY <1>a, <2>1, <2>4, ClosedAssumption DEF SchemaTyped, Database
  <2>7. Underway'
    BY <2>1, <2>4, <2>5 DEF Underway, Version
  <2> QED BY <1>a, <2>1, <2>6, <2>7 DEF SchemaInv, Sound, Whole, Version
<1>3. ASSUME NEW v \in 1..Newest, RunStep(v) PROVE SchemaInv'
  <2>1. work \in Database /\ Underway /\ todo = "steps" /\ todo' = "steps"
        /\ db' = db /\ engine' = engine /\ opens' = opens /\ engine \in Engine
    BY <1>3, <1>a, <1>b DEF RunStep, SchemaTyped
  <2>2. v \in DueSteps /\ work' = [work EXCEPT !.steps = work.steps \cup {v}]
    BY <1>3 DEF RunStep
  <2>3. v \in Nat
    BY <2>1, <2>2, <1>c DEF DueSteps, CurrentVersion, Database
  <2>4. /\ work' \in Database /\ work'.base = work.base
        /\ work'.user = work.user /\ work'.table = work.table
        /\ work'.steps = work.steps \cup {v}
        /\ work'.column = work.column /\ work'.finding = work.finding
    BY <2>1, <2>2, <2>3 DEF Database
  <2>5. SchemaTyped'
    BY <1>a, <2>1, <2>4, ClosedAssumption DEF SchemaTyped, Database
  <2>6. Underway'
    BY <2>1, <2>4 DEF Underway, Version
  <2> QED BY <1>a, <2>1, <2>5, <2>6 DEF SchemaInv, Sound, Whole, Version
<1>4. CASE Reconcile
  <2>1. work \in Database /\ Underway /\ todo = "steps" /\ todo' = "backfill"
        /\ db' = db /\ engine' = engine /\ opens' = opens /\ engine \in Engine
    BY <1>4, <1>a, <1>b DEF Reconcile, Statement, SchemaTyped
  <2>2. work' = [work EXCEPT !.column = (work.column \/ engine >= PathSince)]
    BY <1>4 DEF Reconcile
  <2>3. /\ work' \in Database /\ work'.base = work.base
        /\ work'.user = work.user /\ work'.table = work.table /\ work'.steps = work.steps
        /\ work'.column = (work.column \/ engine >= PathSince) /\ work'.finding = work.finding
    BY <2>1, <2>2, <1>c DEF Database
  <2>4. 1..engine \subseteq work.steps
    <3>1. DueSteps \subseteq work.steps /\ 1..Version(work) \subseteq work.steps
      BY <1>4, <2>1 DEF Reconcile, Underway
    <3>2. Version(work) \in Nat /\ DueSteps = Version(work) + 1..engine /\ engine \in Nat
      BY <2>1, <1>c DEF Version, DueSteps, CurrentVersion, Database
    <3> QED BY <3>1, <3>2
  <2>5. SchemaTyped'
    BY <1>a, <2>1, <2>3, ClosedAssumption DEF SchemaTyped, Database
  <2>6. Underway'
    BY <2>1, <2>3, <2>4 DEF Underway, Version
  <2> QED BY <1>a, <2>1, <2>5, <2>6 DEF SchemaInv, Sound, Whole, Version
<1>5. CASE Backfill
  <2>1. work \in Database /\ Underway /\ todo = "backfill" /\ todo' = "stamp"
        /\ db' = db /\ engine' = engine /\ opens' = opens /\ engine \in Engine
    BY <1>5, <1>a, <1>b DEF Backfill, Statement, SchemaTyped
  <2>2. /\ work' \in Database /\ work'.base = work.base
        /\ work'.user = work.user /\ work'.table = work.table /\ work'.steps = work.steps
        /\ work'.column = work.column /\ work'.finding.linked = work.finding.linked
        /\ work'.finding.path = IF work.column /\ engine >= PathSince /\ work.finding.path = "empty"
                                   /\ work.finding.linked
                                THEN "set" ELSE work.finding.path
    BY <1>5, <2>1 DEF Backfill, Database
  <2>3. SchemaTyped'
    BY <1>a, <2>1, <2>2, ClosedAssumption DEF SchemaTyped, Database
  <2>4. Underway'
    BY <2>1, <2>2 DEF Underway, Version
  <2> QED BY <1>a, <2>1, <2>3, <2>4 DEF SchemaInv, Sound, Whole, Version
<1>6. CASE Stamp
  <2>1. work \in Database /\ Underway /\ todo = "stamp" /\ todo' = "commit"
        /\ db' = db /\ engine' = engine /\ opens' = opens /\ engine \in Engine
    BY <1>6, <1>a, <1>b DEF Stamp, Statement, SchemaTyped
  <2>2. /\ work' \in Database /\ work'.base = work.base
        /\ work'.user = engine /\ work'.table = engine /\ work'.steps = work.steps
        /\ work'.column = work.column /\ work'.finding = work.finding
    BY <1>6, <2>1, <1>c DEF Stamp, Database
  <2>3. SchemaTyped'
    BY <1>a, <2>1, <2>2, ClosedAssumption DEF SchemaTyped, Database
  <2>4. Underway'
    BY <2>1, <2>2 DEF Underway, Version
  <2> QED BY <1>a, <2>1, <2>3, <2>4 DEF SchemaInv, Sound, Whole, Version
<1>7. CASE CommitMigration
  <2>1. work \in Database /\ Underway /\ engine \in Engine
    BY <1>7, <1>a, <1>b DEF CommitMigration, SchemaTyped
  <2>2. Sound(work)
    BY <1>7, <2>1 DEF CommitMigration, Underway, Sound, Whole, Version
  <2> QED BY <1>7, <1>a, <2>1, <2>2 DEF CommitMigration, SchemaInv, SchemaTyped, Sound, Whole, Version
<1>8. CASE RollBack
  BY <1>8, <1>a DEF RollBack, SchemaInv, SchemaTyped, Sound, Whole, Version
<1>9. CASE StoreFinding
  <2>1. PICK linked \in BOOLEAN :
          db' = [db EXCEPT !.finding =
                   [path |-> IF db.user >= PathSince \/ db.finding.path = "set" THEN "set" ELSE "empty",
                    linked |-> linked]]
    BY <1>9 DEF StoreFinding
  <2>2. /\ db' \in Database
        /\ db'.user = db.user /\ db'.table = db.table /\ db'.base = db.base
        /\ db'.steps = db.steps /\ db'.column = db.column
    BY <1>a, <2>1 DEF SchemaTyped, Database
  <2>3. work = Closed /\ work' = Closed /\ engine' = engine /\ todo' = todo /\ opens' = opens
    BY <1>9 DEF StoreFinding
  <2> QED BY <1>a, <2>2, <2>3 DEF SchemaInv, SchemaTyped, Sound, Whole, Version
<1>10. CASE UNCHANGED migrationVars
  BY <1>10, <1>a DEF migrationVars, SchemaInv, SchemaTyped, Sound, Whole, Version, Underway
<1> QED
  BY <1>1, <1>2, <1>3, <1>4, <1>5, <1>6, <1>7, <1>8, <1>9, <1>10 DEF MigrationNext, MigrationStep

\* Whichever engines take turns on a database and wherever their processes die, what
\* is committed has all that its version needs, and keeps what others have made.
THEOREM MigrationsAreWhole == MigrationSpec => MigrationIsWhole
<1> DEFINE A == /\ Whole(db')
                /\ db.steps \subseteq db'.steps /\ (db.column => db'.column) /\ (db.base => db'.base)
                /\ db.finding.path = "set" => db'.finding.path = "set"
                /\ work # Closed /\ db' # db =>
                      /\ db'.user = engine
                      /\ engine >= PathSince /\ db'.finding.linked => db'.finding.path # "empty"
<1>1. SchemaInv /\ [MigrationNext]_migrationVars => [A]_migrationVars
  <2> SUFFICES ASSUME SchemaInv, MigrationNext, SchemaInv' PROVE A
    BY SchemaStays
  <2>1. Whole(db')
    BY DEF SchemaInv, Sound, Whole
  <2>2. CASE StoreFinding
    <3>1. PICK linked \in BOOLEAN :
            db' = [db EXCEPT !.finding =
                     [path |-> IF db.user >= PathSince \/ db.finding.path = "set" THEN "set" ELSE "empty",
                      linked |-> linked]]
      BY <2>2 DEF StoreFinding
    <3>2. /\ db'.base = db.base /\ db'.steps = db.steps /\ db'.column = db.column
          /\ db.finding.path = "set" => db'.finding.path = "set"
      BY <3>1 DEF SchemaInv, SchemaTyped, Database
    <3> QED BY <2>1, <2>2, <3>2 DEF StoreFinding
  <2>3. CASE CommitMigration
    <3>1. Underway /\ work # Closed /\ db' = work
      BY <2>3 DEF CommitMigration, SchemaInv, SchemaTyped
    <3> QED BY <2>1, <2>3, <3>1 DEF CommitMigration, Underway
  <2>4. CASE db' = db
    BY <2>1, <2>4
  <2> QED BY <2>2, <2>3, <2>4 DEF MigrationNext, MigrationStep, Begin, CreateBase, RunStep,
               Reconcile, Backfill, Stamp, RollBack, Statement
<1> QED BY <1>1, SchemaStarts, SchemaStays, PTL DEF MigrationSpec, MigrationIsWhole

-----------------------------------------------------------------------------
(* The CI baseline: AcceptedDebtPasses for any finite set of places, any      *)
(* options of the gate and any interleaving of scans, changes and updates.   *)

Gate == [at : {"idle", "begun", "scanned", "counted", "accepted", "read"},
         active : SUBSET Site, counts : SUBSET (File \X Nat),
         accepted : BOOLEAN, health : BOOLEAN, scope : SUBSET File, failOn : {"error", "info"},
         net : BOOLEAN, ratchet : BOOLEAN, settled : BOOLEAN]

RatchetTyped ==
    /\ reported \subseteq Site
    /\ health \in SUBSET (File \X Nat)
    /\ accepted \in BOOLEAN
    /\ gate \in Gate
    /\ update \in [at : {"idle", "scanned", "raised"}, active : SUBSET Site, settled : BOOLEAN]
    /\ settled \in BOOLEAN

\* The three tables are those of a scan that found these sites.
TablesOf(sites) ==
    accepted /\ baseline = Keys(Stable(sites)) /\ health = CountsOf(sites)

\* What has not changed since the scan of the baseline is what a scan finds now.
TablesSettled ==
    /\ settled => TablesOf(Active)
    /\ update.at = "scanned" /\ update.settled => update.active = Active

\* A gate that is settled has read the tables of its own scan.
GateSettled ==
    gate.at \in {"scanned", "counted", "accepted", "read"} /\ gate.settled =>
        /\ TablesOf(gate.active)
        /\ gate.ratchet =>
             /\ gate.at # "scanned" => gate.counts = CountsOf(gate.active)
             /\ gate.at \in {"accepted", "read"} => gate.accepted

RatchetInv == RatchetTyped /\ TablesSettled /\ GateSettled /\ AcceptedDebtPasses

\* A part of the sites is counted by a number up to all of them.
LEMMA PartCounted ==
    ASSUME NEW sites \in SUBSET Site
    PROVE  Cardinality(sites) \in 0..Cardinality(Site)
<1>1. IsFiniteSet(Site) /\ IsFiniteSet(sites)
  BY SiteAssumption, FS_Subset
<1>2. Cardinality(sites) \in Nat /\ Cardinality(Site) \in Nat /\ Cardinality(sites) <= Cardinality(Site)
  BY <1>1, FS_CardinalityType, FS_Subset
<1> QED BY <1>2

LEMMA CountsTyped ==
    ASSUME NEW sites \in SUBSET Site
    PROVE  CountsOf(sites) \in SUBSET (File \X Nat)
<1>1. \A f \in File : {s \in sites : s.file = f} \in SUBSET Site
  OBVIOUS
<1>2. \A f \in File : Cardinality({s \in sites : s.file = f}) \in Nat
  BY <1>1, PartCounted
<1>3. \A f \in File : <<f, Cardinality({s \in sites : s.file = f})>> \in File \X Nat
  BY <1>2
<1> QED BY <1>3, Zenon DEF CountsOf

\* Against the tables of its own scan a gate finds nothing new, resolved or worse.
LEMMA NothingNew ==
    ASSUME RatchetTyped, baseline = Keys(Stable(gate.active))
    PROVE  New(baseline) = {} /\ Resolved(baseline) = {}
<1>1. \A s \in Stable(gate.active) : s.key \in baseline
  BY DEF Keys
<1> QED BY <1>1 DEF New, Resolved

LEMMA NothingWorse ==
    ASSUME RatchetTyped, gate.counts = CountsOf(gate.active)
    PROVE  Regressed \cap Indexed = {}
<1> SUFFICES ASSUME NEW f \in Regressed, f \in Indexed PROVE FALSE
  OBVIOUS
<1> DEFINE here == {s \in gate.active : s.file = f}
<1>1. gate.active \in SUBSET Site
  BY DEF RatchetTyped, Gate
<1>2. f \in File
  BY <1>1 DEF Regressed, File
<1>3. Cardinality(here) \in 0..Cardinality(Site)
  <2>1. here \in SUBSET Site
    BY <1>1
  <2> QED BY <2>1, PartCounted
<1>4. <<f, Cardinality(here)>> \in gate.counts
  BY <1>2 DEF CountsOf
<1>5. Cardinality(here) > Cardinality(here)
  BY <1>3, <1>4 DEF Regressed
<1> QED BY <1>3, <1>5

LEMMA RatchetStarts == RatchetInit => RatchetInv
<1> SUFFICES ASSUME RatchetInit PROVE RatchetInv
  OBVIOUS
<1>1. NoGate \in Gate /\ NoGate.at = "idle"
  BY DEF NoGate, Gate
<1>2. RatchetTyped
  BY <1>1 DEF RatchetInit, RatchetTyped, NoUpdate
<1>3. TablesSettled /\ GateSettled
  BY <1>1 DEF RatchetInit, TablesSettled, GateSettled, NoUpdate
<1>4. AcceptedDebtPasses
  BY DEF RatchetInit, AcceptedDebtPasses
<1> QED BY <1>2, <1>3, <1>4 DEF RatchetInv

LEMMA RatchetStays == RatchetInv /\ [RatchetNext]_ratchetVars => RatchetInv'
<1> SUFFICES ASSUME RatchetInv, [RatchetNext]_ratchetVars PROVE RatchetInv'
  OBVIOUS
<1> USE DEF RatchetInv
<1>a. Active \in SUBSET Site
  BY DEF Active, RatchetTyped
<1>1. CASE Change
  <2>1. reported' \subseteq Site
    BY <1>1 DEF Change, RatchetTyped
  <2>2. /\ gate' \in Gate /\ gate'.at = gate.at
        /\ gate'.at \in {"scanned", "counted", "accepted", "read"} => ~gate'.settled
    BY <1>1 DEF Change, RatchetTyped, Gate
  <2>3. /\ update' \in [at : {"idle", "scanned", "raised"}, active : SUBSET Site, settled : BOOLEAN]
        /\ ~update'.settled
    BY <1>1 DEF Change, RatchetTyped
  <2> QED BY <1>1, <2>1, <2>2, <2>3
      DEF Change, RatchetTyped, TablesSettled, GateSettled, AcceptedDebtPasses
<1>2. CASE AcceptOldRelease
  <2>1. health' \in SUBSET (File \X Nat)
    BY <1>2, <1>a, CountsTyped DEF AcceptOldRelease
  <2>2. ~settled /\ ~(gate.at \in {"scanned", "counted", "accepted", "read"} /\ gate.settled)
    BY <1>2 DEF AcceptOldRelease, TablesSettled, GateSettled, TablesOf
  <2> QED BY <1>2, <2>1, <2>2
      DEF AcceptOldRelease, RatchetTyped, TablesSettled, GateSettled, AcceptedDebtPasses, Active
<1>3. CASE UpdateScans
  <2>1. RatchetTyped'
    BY <1>3, <1>a DEF UpdateScans, RatchetTyped
  <2> QED BY <1>3, <2>1
      DEF UpdateScans, TablesSettled, GateSettled, AcceptedDebtPasses, Active, TablesOf
<1>4. CASE UpdateCommits
  <2>1. update.active \in SUBSET Site
    BY DEF RatchetTyped
  <2>2. health' \in SUBSET (File \X Nat)
    BY <1>4, <2>1, CountsTyped DEF UpdateCommits
  <2>3. gate' \in Gate /\ ~gate'.settled
    BY <1>4 DEF UpdateCommits, RatchetTyped, Gate
  <2>4. RatchetTyped'
    BY <1>4, <2>2, <2>3 DEF UpdateCommits, RatchetTyped, NoUpdate
  <2>5. settled' => TablesOf(Active)'
    BY <1>4 DEF UpdateCommits, TablesSettled, TablesOf, Active
  <2> QED BY <1>4, <2>3, <2>4, <2>5
      DEF UpdateCommits, NoUpdate, TablesSettled, GateSettled, AcceptedDebtPasses
<1>5. CASE UpdateRaises \/ UpdateEnds
  <2>1. /\ update' \in [at : {"idle", "scanned", "raised"}, active : SUBSET Site, settled : BOOLEAN]
        /\ update'.at # "scanned"
    <3>1. NoUpdate \in [at : {"idle", "scanned", "raised"}, active : SUBSET Site, settled : BOOLEAN]
          /\ NoUpdate.at = "idle"
      BY DEF NoUpdate
    <3> QED BY <1>5, <3>1 DEF UpdateRaises, UpdateEnds
  <2>2. UNCHANGED <<reported, silenced, health, accepted, baseline, gate, report, settled>>
    BY <1>5 DEF UpdateRaises, UpdateEnds
  <2> QED BY <2>1, <2>2
      DEF RatchetTyped, TablesSettled, GateSettled, AcceptedDebtPasses, Active, TablesOf
<1>6. CASE GateBegins
  <2>1. PICK ratchet, net \in BOOLEAN, scope \in {File, {}} \cup {{f} : f \in File},
             failOn \in {"error", "info"} :
          GateSteps("idle", [NoGate EXCEPT !.at = "begun", !.ratchet = ratchet, !.net = net,
                                        !.scope = scope, !.failOn = failOn,
                                        !.settled = settled])
    BY <1>6 DEF GateBegins
  <2>2. scope \in SUBSET File
    OBVIOUS
  <2>3. gate' = [at |-> "begun", active |-> {}, counts |-> {}, accepted |-> FALSE,
                 health |-> FALSE, scope |-> scope, failOn |-> failOn, net |-> net,
                 ratchet |-> ratchet, settled |-> settled]
    BY <2>1 DEF GateSteps, NoGate
  <2>4. gate' \in Gate /\ gate'.at = "begun"
    BY <2>2, <2>3 DEF Gate, RatchetTyped
  <2> QED BY <2>1, <2>4
      DEF GateSteps, RatchetTyped, TablesSettled, GateSettled, AcceptedDebtPasses, Active, TablesOf
<1>7. CASE GateScans
  <2>1. gate' \in Gate /\ gate'.active = Active /\ gate'.settled = settled
        /\ gate'.at = (IF gate.ratchet THEN "scanned" ELSE "read") /\ gate'.ratchet = gate.ratchet
    BY <1>7, <1>a DEF GateScans, GateSteps, Gate, RatchetTyped
  <2> QED BY <1>7, <2>1
      DEF GateScans, GateSteps, RatchetTyped, TablesSettled, GateSettled, AcceptedDebtPasses, Active, TablesOf
<1>8. CASE GateReadsCounts
  <2>1. /\ gate.at = "scanned"
        /\ gate' \in Gate /\ gate'.active = gate.active /\ gate'.settled = gate.settled
        /\ gate'.at = "counted" /\ gate'.counts = health
    BY <1>8 DEF GateReadsCounts, GateSteps, Gate, RatchetTyped
  <2> QED BY <1>8, <2>1
      DEF GateReadsCounts, GateSteps, RatchetTyped, TablesSettled, GateSettled, AcceptedDebtPasses,
          Active, TablesOf
<1>9. CASE GateReadsAccepted
  <2>1. /\ gate.at = "counted"
        /\ gate' \in Gate /\ gate'.active = gate.active /\ gate'.settled = gate.settled
        /\ gate'.at = "accepted" /\ gate'.accepted = accepted /\ gate'.counts = gate.counts
        /\ gate'.ratchet = gate.ratchet
    BY <1>9 DEF GateReadsAccepted, GateSteps, Gate, RatchetTyped
  <2> QED BY <1>9, <2>1
      DEF GateReadsAccepted, GateSteps, RatchetTyped, TablesSettled, GateSettled, AcceptedDebtPasses,
          Active, TablesOf
<1>10. CASE GateReadsHealth
  <2>1. /\ gate.at = "accepted"
        /\ gate' \in Gate /\ gate'.active = gate.active /\ gate'.settled = gate.settled
        /\ gate'.at = "read" /\ gate'.accepted = gate.accepted /\ gate'.counts = gate.counts
        /\ gate'.ratchet = gate.ratchet
    BY <1>10 DEF GateReadsHealth, GateSteps, Gate, RatchetTyped
  <2> QED BY <1>10, <2>1
      DEF GateReadsHealth, GateSteps, RatchetTyped, TablesSettled, GateSettled, AcceptedDebtPasses,
          Active, TablesOf
<1>11. CASE Report
  <2>1. gate' = NoGate /\ RatchetTyped' /\ TablesSettled' /\ GateSettled'
    BY <1>11 DEF Report, NoGate, Gate, RatchetTyped, TablesSettled, GateSettled, Active, TablesOf
  <2>2. PICK threshold \in {2, 3} :
        LET new == IF gate.accepted THEN New(baseline) ELSE {}
            resolved == IF gate.accepted THEN Resolved(baseline) ELSE {}
            net == Cardinality(resolved) - Cardinality(new)
        IN  report' =
              [ok |-> IF gate.ratchet THEN ~Blocks(new) /\ ~(gate.net /\ net < 0)
                      ELSE RiskRank(gate.active) < threshold,
               ratchet |-> gate.ratchet, new |-> Cardinality(new),
               resolved |-> Cardinality(resolved),
               regressed |-> IF gate.ratchet THEN Regressed ELSE {},
               exists |-> gate.ratchet => gate.accepted \/ gate.health,
               stale |-> gate.ratchet /\ gate.health /\ ~gate.accepted,
               settled |-> gate.settled]
    BY <1>11 DEF Report
  <2>3. AcceptedDebtPasses'
    <3> SUFFICES ASSUME report'.ratchet, report'.settled
                 PROVE  /\ report'.ok /\ report'.new = 0 /\ report'.resolved = 0
                        /\ report'.regressed \cap Indexed = {} /\ ~report'.stale /\ report'.exists
      BY DEF AcceptedDebtPasses
    <3>1. gate.ratchet /\ gate.settled
      BY <2>2
    <3>2. gate.accepted /\ TablesOf(gate.active) /\ gate.counts = CountsOf(gate.active)
      BY <1>11, <3>1 DEF Report, GateSettled
    <3>3. New(baseline) = {} /\ Resolved(baseline) = {} /\ Regressed \cap Indexed = {}
      BY <3>2, NothingNew, NothingWorse DEF TablesOf
    <3>4. Cardinality({}) = 0
      BY FS_EmptySet
    <3>5. ~Blocks({})
      BY DEF Blocks
    <3>6. /\ report'.ok = (~Blocks({}) /\ ~(gate.net /\ Cardinality({}) - Cardinality({}) < 0))
          /\ report'.new = Cardinality({}) /\ report'.resolved = Cardinality({})
          /\ report'.regressed = Regressed /\ report'.exists = TRUE /\ report'.stale = FALSE
      BY <2>2, <3>1, <3>2, <3>3
    <3>7. ~(Cardinality({}) - Cardinality({}) < 0)
      BY <3>4
    <3>8. report'.ok = TRUE
      BY <3>5, <3>6, <3>7
    <3>9. report'.regressed \cap Indexed = {} /\ ~report'.stale /\ report'.exists
      BY <3>3, <3>6
    <3> QED BY <3>4, <3>6, <3>8, <3>9
  <2> QED BY <2>1, <2>3
<1>12. CASE UNCHANGED ratchetVars
  BY <1>12 DEF ratchetVars, RatchetTyped, TablesSettled, GateSettled, AcceptedDebtPasses, Active, TablesOf
<1> QED BY <1>1, <1>2, <1>3, <1>4, <1>5, <1>6, <1>7, <1>8, <1>9, <1>10, <1>11, <1>12 DEF RatchetNext

\* A gate of accepted debt passes, with nothing new, resolved or stale and no file of
\* the index regressed, if nothing changed between the baseline's scan and the gate's.
THEOREM DebtPasses == RatchetSpec => []AcceptedDebtPasses
<1> QED BY RatchetStarts, RatchetStays, PTL DEF RatchetSpec, RatchetInv

-----------------------------------------------------------------------------
(* The result store: any number of clients, any lists and limits and any       *)
(* interleaving of calls, clean-up, expiry, reset and refused transactions.    *)

Phases == {"idle", "record_call", "insert", "read_back", "record_summary",
           "recheck", "count", "counted", "record_retrieval"}
Types == {"tool_called", "large_result_summarized", "result_retrieved"}
TrailEvent == [type : Types, session : Clients, id : Ids \cup {Nothing}]
HasId == {"read_back", "record_summary", "recheck", "count", "counted", "record_retrieval"}

\* The shape of the tables and of what a call carries at each of its places.
Typed ==
  /\ now \in 0..Horizon
  /\ DOMAIN rows \subseteq Ids /\ removed \subseteq Ids
  /\ \A id \in DOMAIN rows :
       /\ DOMAIN rows[id] = {"summary", "expires", "count"}
       /\ rows[id].expires \in Nat /\ rows[id].count \in Nat /\ id.created <= now
  /\ events \in Seq(TrailEvent)
  /\ phase \in [Clients -> Phases]
  /\ DOMAIN call = Clients /\ DOMAIN reply = Clients
  /\ minted \in [Clients -> Nat] /\ served \in [Clients -> Nat] /\ uncounted \in [Ids -> Nat]
  /\ \A c \in Clients :
       /\ phase[c] \in {"record_call", "insert"} =>
            call[c].list \in Lists /\ call[c].tool \in Tools /\ call[c].expires \in Nat
       /\ phase[c] \in HasId => "id" \in DOMAIN call[c] /\ call[c].id \in Ids

\* A call under way whose row is gone was disturbed; one that rechecks found its
\* row deleted or expired.
Forewarned ==
  \A c \in Clients :
    /\ phase[c] \in HasId \ {"recheck"} => call[c].id \in DOMAIN rows \/ c \in disturbed
    /\ phase[c] = "recheck" =>
         \/ call[c].id \in removed
         \/ call[c].id \in DOMAIN rows /\ rows[call[c].id].expires <= now

\* Nothing was ever counted of an id.
Untouched(id) ==
  /\ \A i \in DOMAIN events : ~(events[i].type = "result_retrieved" /\ events[i].id = id)
  /\ \A c \in Clients : ~(phase[c] \in {"count", "counted", "record_retrieval"} /\ call[c].id = id)
  /\ uncounted[id] = 0

\* What the trail says of a row is what was counted of it; an id that may be given
\* (again) to a row inserted now was never retrieved.
CountsMatch ==
  /\ \A id \in DOMAIN rows : rows[id].count = Retrieved(id) + Counting(id) + uncounted[id]
  /\ \A id \in Ids : id.created >= now /\ ~Live(id) => Untouched(id)

Told(type, c) == Cardinality({i \in DOMAIN events : events[i].type = type /\ events[i].session = c})
Owed(c, places) == IF phase[c] \in places THEN 1 ELSE 0

\* A client's events and its calls between a transaction and its event are covered
\* by the transactions it made.
TrailCovered ==
  \A c \in Clients :
    /\ Told("large_result_summarized", c) + Owed(c, {"read_back", "record_summary"}) <= minted[c]
    /\ Told("result_retrieved", c) + Owed(c, {"counted", "record_retrieval"}) <= served[c]

StoreInv == Typed /\ RepliesAreHonest /\ Forewarned /\ CountsMatch /\ TrailCovered

-----------------------------------------------------------------------------
(* Counting *)

CountIn(s, G) == Cardinality({i \in DOMAIN s : s[i] \in G})

\* One more event adds one to the events of a kind exactly if it is of that kind.
LEMMA AppendCounts ==
  ASSUME NEW E, NEW s \in Seq(E), NEW e \in E, NEW G
  PROVE  /\ CountIn(s, G) \in Nat
         /\ CountIn(Append(s, e), G) = CountIn(s, G) + (IF e \in G THEN 1 ELSE 0)
<1> DEFINE A == {i \in DOMAIN s : s[i] \in G}
           B == {i \in DOMAIN Append(s, e) : Append(s, e)[i] \in G}
           n == Len(s) + 1
<1>1. IsFiniteSet(A)
  <2>1. IsFiniteSet(1..Len(s)) BY FS_Interval
  <2> QED BY <2>1, FS_Subset
<1>2. n \notin A
  OBVIOUS
<1>3. B = IF e \in G THEN A \cup {n} ELSE A
  OBVIOUS
<1> HIDE DEF A, B, n
<1>4. Cardinality(A) \in Nat
  BY <1>1, FS_CardinalityType
<1>5. Cardinality(A \cup {n}) = Cardinality(A) + 1
  BY <1>1, <1>2, FS_AddElement
<1>6. Cardinality(B) = Cardinality(A) + (IF e \in G THEN 1 ELSE 0)
  BY <1>3, <1>4, <1>5
<1> QED BY ONLY <1>4, <1>6 DEF A, B, CountIn

LEMMA RetrievedGrows ==
  ASSUME NEW s \in Seq(TrailEvent), events = s, NEW e \in TrailEvent, events' = Append(s, e)
  PROVE  /\ \A id \in Ids :
              /\ Retrieved(id) \in Nat
              /\ Retrieved(id)' = Retrieved(id)
                                 + (IF e.type = "result_retrieved" /\ e.id = id THEN 1 ELSE 0)
         /\ \A c \in Clients, type \in Types :
              /\ Told(type, c) \in Nat
              /\ Told(type, c)' = Told(type, c) + (IF e.type = type /\ e.session = c THEN 1 ELSE 0)
<1>1. ASSUME NEW id \in Ids
      PROVE  /\ Retrieved(id) \in Nat
             /\ Retrieved(id)' = Retrieved(id)
                                 + (IF e.type = "result_retrieved" /\ e.id = id THEN 1 ELSE 0)
  <2> DEFINE G == {x \in TrailEvent : x.type = "result_retrieved" /\ x.id = id}
  <2>1. /\ Retrieved(id) = CountIn(s, G)
        /\ Retrieved(id)' = CountIn(Append(s, e), G)
        /\ e \in G <=> e.type = "result_retrieved" /\ e.id = id
    <3>1. \A i \in DOMAIN s : s[i] \in TrailEvent
      OBVIOUS
    <3>2. \A i \in DOMAIN Append(s, e) : Append(s, e)[i] \in TrailEvent
      OBVIOUS
    <3>3. /\ {i \in DOMAIN s : s[i].type = "result_retrieved" /\ s[i].id = id}
               = {i \in DOMAIN s : s[i] \in G}
          /\ {i \in DOMAIN Append(s, e) : Append(s, e)[i].type = "result_retrieved" /\ Append(s, e)[i].id = id}
               = {i \in DOMAIN Append(s, e) : Append(s, e)[i] \in G}
      BY <3>1, <3>2
    <3> QED BY <3>3 DEF Retrieved, CountIn
  <2> HIDE DEF G
  <2>2. /\ CountIn(s, G) \in Nat
        /\ CountIn(Append(s, e), G) = CountIn(s, G) + (IF e \in G THEN 1 ELSE 0)
    BY AppendCounts
  <2> QED BY <2>1, <2>2
<1>2. ASSUME NEW c \in Clients, NEW type \in Types
      PROVE  /\ Told(type, c) \in Nat
             /\ Told(type, c)' = Told(type, c) + (IF e.type = type /\ e.session = c THEN 1 ELSE 0)
  <2> DEFINE G == {x \in TrailEvent : x.type = type /\ x.session = c}
  <2>1. /\ Told(type, c) = CountIn(s, G)
        /\ Told(type, c)' = CountIn(Append(s, e), G)
        /\ e \in G <=> e.type = type /\ e.session = c
    <3>1. \A i \in DOMAIN s : s[i] \in TrailEvent
      OBVIOUS
    <3>2. \A i \in DOMAIN Append(s, e) : Append(s, e)[i] \in TrailEvent
      OBVIOUS
    <3>3. /\ {i \in DOMAIN s : s[i].type = type /\ s[i].session = c} = {i \in DOMAIN s : s[i] \in G}
          /\ {i \in DOMAIN Append(s, e) : Append(s, e)[i].type = type /\ Append(s, e)[i].session = c}
               = {i \in DOMAIN Append(s, e) : Append(s, e)[i] \in G}
      BY <3>1, <3>2
    <3> QED BY <3>3 DEF Told, CountIn
  <2> HIDE DEF G
  <2>2. /\ CountIn(s, G) \in Nat
        /\ CountIn(Append(s, e), G) = CountIn(s, G) + (IF e \in G THEN 1 ELSE 0)
    BY AppendCounts
  <2> QED BY <2>1, <2>2
<1> QED BY <1>1, <1>2

\* The events of a kind are counted by a number.
LEMMA CountsAreNumbers ==
  ASSUME Typed
  PROVE  /\ \A id \in Ids : Retrieved(id) \in Nat
         /\ \A c \in Clients, type \in Types : Told(type, c) \in Nat
<1>1. IsFiniteSet(DOMAIN events)
  <2>1. Len(events) \in Nat /\ DOMAIN events = 1..Len(events)
    BY DEF Typed
  <2> QED BY <2>1, FS_Interval
<1>2. \A S \in SUBSET DOMAIN events : Cardinality(S) \in Nat
  BY <1>1, FS_Subset, FS_CardinalityType
<1> QED BY <1>2 DEF Retrieved, Told

MidCall(id) == {c \in Clients : phase[c] \in {"counted", "record_retrieval"} /\ call[c].id = id}

\* A step of one client changes the number of calls that have counted a retrieval
\* of an id by that client alone.
LEMMA CountingMoves ==
  ASSUME NEW c \in Clients, NEW id,
         \A d \in Clients \ {c} : phase'[d] = phase[d] /\ call'[d] = call[d]
  PROVE  /\ Counting(id) \in Nat /\ Counting(id)' \in Nat
         /\ c \notin MidCall(id) /\ c \in MidCall(id)' => Counting(id)' = Counting(id) + 1
         /\ c \in MidCall(id) /\ c \notin MidCall(id)' => Counting(id)' = Counting(id) - 1
         /\ (c \in MidCall(id) <=> c \in MidCall(id)') => Counting(id)' = Counting(id)
<1> DEFINE A == MidCall(id)
           B == MidCall(id)'
<1>1. A \in SUBSET Clients /\ B \in SUBSET Clients /\ A \ {c} = B \ {c}
  BY DEF MidCall
<1>2. Counting(id) = Cardinality(A) /\ Counting(id)' = Cardinality(B)
  BY DEF Counting, MidCall
<1> HIDE DEF A, B
<1>3. IsFiniteSet(A) /\ IsFiniteSet(B)
  BY <1>1, ResultStoreAssumption, FS_Subset
<1>4. Cardinality(A) \in Nat /\ Cardinality(B) \in Nat
  BY <1>3, FS_CardinalityType
<1>5. c \notin A /\ c \in B => Cardinality(B) = Cardinality(A) + 1
  <2>1. c \notin A /\ c \in B => B = A \cup {c}
    BY <1>1
  <2> QED BY <2>1, <1>3, FS_AddElement
<1>6. c \in A /\ c \notin B => Cardinality(B) = Cardinality(A) - 1
  <2>1. c \in A /\ c \notin B => B = A \ {c}
    BY <1>1
  <2> QED BY <2>1, <1>3, FS_RemoveElement
<1>7. (c \in A <=> c \in B) => A = B
  BY <1>1
<1> QED BY <1>2, <1>4, <1>5, <1>6, <1>7 DEF A, B

\* A step of a client that counts nothing, tells nothing and stores nothing.
LEMMA QuietStep ==
  ASSUME StoreInv, NEW c \in Clients,
         UNCHANGED <<rows, events, now, minted, served, uncounted>>,
         \A d \in Clients \ {c} : phase'[d] = phase[d] /\ call'[d] = call[d],
         phase[c] \notin {"counted", "record_retrieval"},
         phase'[c] \notin {"counted", "record_retrieval", "read_back"},
         phase'[c] = "count" => Live(call'[c].id),
         phase'[c] = "record_summary" => phase[c] = "read_back"
  PROVE  CountsMatch' /\ TrailCovered'
<1> USE DEF StoreInv
<1>1. \A id \in Ids : Retrieved(id)' = Retrieved(id) /\ Counting(id)' = Counting(id)
  <2>1. \A id \in Ids : Counting(id)' = Counting(id)
    <3> TAKE id \in Ids
    <3>1. c \notin MidCall(id) /\ c \notin MidCall(id)'
      BY DEF MidCall
    <3> QED BY <3>1, CountingMoves
  <2> QED BY <2>1 DEF Retrieved
<1>2. CountsMatch'
  <2>1. \A id \in DOMAIN rows' : id \in Ids /\ rows'[id].count = (Retrieved(id) + Counting(id) + uncounted[id])'
    BY <1>1 DEF CountsMatch, Typed
  <2>2. ASSUME NEW id \in Ids, id.created >= now', ~Live(id)' PROVE Untouched(id)'
    <3>1. ~Live(id) /\ Untouched(id)
      BY <2>2 DEF Live, CountsMatch
    <3>2. ~(phase'[c] = "count" /\ call'[c].id = id)
      BY <3>1
    <3> QED BY <3>1, <3>2 DEF Untouched
  <2> QED BY <2>1, <2>2 DEF CountsMatch
<1>3. TrailCovered'
  <2> SUFFICES ASSUME NEW d \in Clients
      PROVE /\ (Told("large_result_summarized", d) + Owed(d, {"read_back", "record_summary"}) <= minted[d])'
            /\ (Told("result_retrieved", d) + Owed(d, {"counted", "record_retrieval"}) <= served[d])'
    BY DEF TrailCovered
  <2>1. /\ Told("large_result_summarized", d) \in Nat /\ Told("result_retrieved", d) \in Nat
        /\ minted[d] \in Nat /\ served[d] \in Nat
    BY CountsAreNumbers DEF Typed, Types
  <2>2. /\ Told("large_result_summarized", d)' = Told("large_result_summarized", d)
        /\ Told("result_retrieved", d)' = Told("result_retrieved", d)
    BY DEF Told
  <2>3. /\ Owed(d, {"read_back", "record_summary"})' <= Owed(d, {"read_back", "record_summary"})
        /\ Owed(d, {"counted", "record_retrieval"})' <= Owed(d, {"counted", "record_retrieval"})
        /\ Owed(d, {"read_back", "record_summary"}) \in Nat /\ Owed(d, {"counted", "record_retrieval"}) \in Nat
        /\ Owed(d, {"read_back", "record_summary"})' \in Nat /\ Owed(d, {"counted", "record_retrieval"})' \in Nat
    BY DEF Owed
  <2>4. /\ Told("large_result_summarized", d) + Owed(d, {"read_back", "record_summary"}) <= minted[d]
        /\ Told("result_retrieved", d) + Owed(d, {"counted", "record_retrieval"}) <= served[d]
    BY DEF TrailCovered
  <2>5. minted' = minted /\ served' = served
    OBVIOUS
  <2> HIDE DEF StoreInv
  <2> QED BY <2>1, <2>2, <2>3, <2>4, <2>5
<1> QED BY <1>2, <1>3

-----------------------------------------------------------------------------
(* The invariant, one lemma per kind of step *)

LEMMA StoreStarts == StoreInit => StoreInv
<1> SUFFICES ASSUME StoreInit PROVE StoreInv
  OBVIOUS
<1>1. Typed
  BY ResultStoreAssumption DEF StoreInit, Typed, Nothing, Phases, HasId
<1>2. RepliesAreHonest /\ Forewarned
  BY DEF StoreInit, RepliesAreHonest, Forewarned, Nothing, HasId
<1>3. CountsMatch
  BY DEF StoreInit, CountsMatch, Untouched
<1>4. TrailCovered
  <2>1. \A c \in Clients, type \in Types : Told(type, c) = 0
    <3>1. \A c \in Clients, type \in Types : {i \in DOMAIN events : events[i].type = type /\ events[i].session = c} = {}
      BY DEF StoreInit
    <3> QED BY <3>1, FS_EmptySet DEF Told
  <2> QED BY <2>1 DEF StoreInit, TrailCovered, Owed, Types
<1> QED BY <1>1, <1>2, <1>3, <1>4 DEF StoreInv

LEMMA CallStarts ==
  ASSUME StoreInv, NEW c \in Clients, NEW l \in Lists,
         \/ ListCall(c, l) \/ PlanCall(c, l) \/ SymbolCall(c, l)
         \/ \E t \in now + 1..Horizon : StoreCall(c, l, t)
  PROVE  StoreInv'
<1> USE DEF StoreInv
<1>1. /\ phase[c] = "idle" /\ disturbed' = disturbed \ {c}
      /\ reply' = [reply EXCEPT ![c] = Nothing]
      /\ UNCHANGED <<rows, events, now, minted, served, removed, uncounted>>
  BY DEF ListCall, PlanCall, SymbolCall, StoreCall, BeginCall
<1>2. PICK nextPhase \in {"record_call", "insert"} : phase' = [phase EXCEPT ![c] = nextPhase]
  BY DEF ListCall, PlanCall, SymbolCall, StoreCall, Goto
<1>3. PICK args : /\ call' = [call EXCEPT ![c] = args]
                  /\ args.list \in Lists /\ args.tool \in Tools /\ args.expires \in Nat
  BY ResultStoreAssumption
     DEF ListCall, PlanCall, SymbolCall, StoreCall, BeginCall, Never, Tools, Typed
<1>4. Typed'
  BY <1>1, <1>2, <1>3 DEF Typed, Phases, HasId
<1>5. RepliesAreHonest' /\ Forewarned'
  BY <1>1, <1>2, <1>3 DEF Typed, RepliesAreHonest, Forewarned, Nothing, HasId
<1>6. CountsMatch' /\ TrailCovered'
  <2>1. \A d \in Clients \ {c} : phase'[d] = phase[d] /\ call'[d] = call[d]
    BY <1>2, <1>3
  <2>2. phase'[c] = nextPhase
    BY <1>2 DEF Typed
  <2> HIDE DEF StoreInv
  <2> QED BY <1>1, <2>1, <2>2, QuietStep
<1> QED BY <1>4, <1>5, <1>6

LEMMA RetrieveStarts ==
  ASSUME StoreInv, NEW c \in Clients, NEW id \in DOMAIN rows \cup removed, NEW q \in Requests,
         Retrieve(c, id, q)
  PROVE  StoreInv'
<1> USE DEF StoreInv
<1>1. /\ phase[c] = "idle" /\ disturbed' = disturbed \ {c}
      /\ reply' = [reply EXCEPT ![c] = Nothing]
      /\ UNCHANGED <<rows, events, now, minted, served, removed, uncounted>>
      /\ phase' = [phase EXCEPT ![c] = IF Live(id) THEN "count" ELSE "recheck"]
  BY DEF Retrieve, BeginCall, Goto
<1>2. PICK args : call' = [call EXCEPT ![c] = args] /\ "id" \in DOMAIN args /\ args.id = id
  <2> DEFINE args == [id |-> id, request |-> q, row |-> IF Live(id) THEN rows[id] ELSE Nothing]
  <2>1. call' = [call EXCEPT ![c] = args]
    BY DEF Retrieve, BeginCall
  <2>2. "id" \in DOMAIN args /\ args.id = id
    OBVIOUS
  <2> HIDE DEF args
  <2> QED BY <2>1, <2>2
<1>3. id \in Ids /\ (~Live(id) => id \in removed \/ (id \in DOMAIN rows /\ rows[id].expires <= now))
  BY DEF Typed, Live
<1>4. Typed'
  BY <1>1, <1>2, <1>3 DEF Typed, Phases, HasId
<1>5. RepliesAreHonest'
  BY <1>1 DEF Typed, RepliesAreHonest, Nothing
<1>6. Forewarned'
  BY <1>1, <1>2, <1>3 DEF Typed, Forewarned, HasId, Live
<1>7. CountsMatch' /\ TrailCovered'
  <2>1. \A d \in Clients \ {c} : phase'[d] = phase[d] /\ call'[d] = call[d]
    BY <1>1, <1>2
  <2>2. phase'[c] = IF Live(id) THEN "count" ELSE "recheck"
    BY <1>1 DEF Typed
  <2>3. call'[c].id = id
    BY <1>2 DEF Typed
  <2> HIDE DEF StoreInv
  <2> QED BY <1>1, <2>1, <2>2, <2>3, QuietStep
<1> QED BY <1>4, <1>5, <1>6, <1>7

\* A call that ends, counting, telling and storing nothing.
LEMMA CallEnds ==
  ASSUME StoreInv, NEW c \in Clients, NEW r, Return(c, r),
         UNCHANGED <<rows, events, now, minted, served, removed, uncounted>>,
         phase[c] \notin {"counted", "record_retrieval"},
         \A d \in Clients : d \in disturbed => d \in disturbed',
         r.kind = "missing_result" => r.id \in removed,
         r.kind = "expired_result" =>
            r.id \in removed \/ (r.id \in DOMAIN rows /\ rows[r.id].expires <= now),
         r.kind = "internal" => c \in disturbed'
  PROVE  StoreInv'
<1> USE DEF StoreInv, Return, Goto
<1>4. Typed'
  BY DEF Typed, Phases, HasId
<1>5. RepliesAreHonest'
  BY DEF Typed, RepliesAreHonest
<1>6. Forewarned'
  BY DEF Typed, Forewarned, HasId
<1>7. CountsMatch' /\ TrailCovered'
  <2>1. \A d \in Clients \ {c} : phase'[d] = phase[d] /\ call'[d] = call[d]
    OBVIOUS
  <2>2. phase'[c] = "idle"
    BY DEF Typed
  <2> HIDE DEF StoreInv
  <2> QED BY <2>1, <2>2, QuietStep
<1> QED BY <1>4, <1>5, <1>6, <1>7
\* What a step that appends an event leaves of an id nothing was counted of.
LEMMA UntouchedByEvent ==
  ASSUME StoreInv, NEW c \in Clients, NEW e \in TrailEvent, NEW id \in Ids,
         events' = Append(events, e), uncounted' = uncounted, Untouched(id),
         \A d \in Clients \ {c} : phase'[d] = phase[d] /\ call'[d] = call[d],
         phase'[c] \notin {"count", "counted", "record_retrieval"},
         e.type = "result_retrieved" => e.id # id
  PROVE  Untouched(id)'
<1>1. \A i \in DOMAIN events' : ~(events'[i].type = "result_retrieved" /\ events'[i].id = id)
  <2> TAKE i \in DOMAIN events'
  <2>1. events \in Seq(TrailEvent)
    BY DEF StoreInv, Typed
  <2>2. (i \in DOMAIN events /\ events'[i] = events[i]) \/ events'[i] = e
    BY <2>1
  <2> QED BY <2>2 DEF Untouched
<1> QED BY <1>1 DEF Untouched

LEMMA RecordCallStep ==
  ASSUME StoreInv, NEW c \in Clients, RecordCall(c)
  PROVE  StoreInv'
<1> USE DEF StoreInv
<1> DEFINE e == Recorded("tool_called", c, Nothing)
<1>1. /\ phase[c] = "record_call" /\ events' = Append(events, e)
      /\ UNCHANGED <<rows, now, minted, served, removed, uncounted, disturbed>>
  BY DEF RecordCall, history
<1>2. e \in TrailEvent /\ e.type = "tool_called"
  BY DEF Recorded, TrailEvent, Types
<1>3. \/ /\ phase' = [phase EXCEPT ![c] = "insert"] /\ UNCHANGED <<call, reply>>
      \/ /\ phase' = [phase EXCEPT ![c] = "idle"]
         /\ call' = [call EXCEPT ![c] = Nothing] /\ reply' = [reply EXCEPT ![c] = [kind |-> "inline"]]
  BY DEF RecordCall, Return, Goto
<1>4. \A d \in Clients \ {c} : phase'[d] = phase[d] /\ call'[d] = call[d]
  BY <1>3 DEF Typed
<1>5. phase'[c] \in {"insert", "idle"}
  BY <1>3 DEF Typed
<1>6. Typed'
  <2>1. events' \in Seq(TrailEvent)
    BY <1>1, <1>2 DEF Typed
  <2>2. phase' \in [Clients -> Phases] /\ DOMAIN call' = Clients /\ DOMAIN reply' = Clients
    BY <1>3 DEF Typed, Phases, HasId
  <2>3. /\ phase[c] = "record_call" /\ call[c].list \in Lists /\ call[c].tool \in Tools /\ call[c].expires \in Nat
    BY <1>1 DEF Typed
  <2>4. phase'[c] = "insert" => call'[c] = call[c]
    BY <1>3 DEF Typed
  <2>5. \A d \in Clients :
          /\ phase'[d] \in {"record_call", "insert"} =>
               call'[d].list \in Lists /\ call'[d].tool \in Tools /\ call'[d].expires \in Nat
          /\ phase'[d] \in HasId => "id" \in DOMAIN call'[d] /\ call'[d].id \in Ids
    BY <1>4, <1>5, <2>3, <2>4 DEF Typed, HasId
  <2>6. /\ now' \in 0..Horizon /\ DOMAIN rows' \subseteq Ids /\ removed' \subseteq Ids
        /\ \A id \in DOMAIN rows' :
             /\ DOMAIN rows'[id] = {"summary", "expires", "count"}
             /\ rows'[id].expires \in Nat /\ rows'[id].count \in Nat /\ id.created <= now'
        /\ minted' \in [Clients -> Nat] /\ served' \in [Clients -> Nat] /\ uncounted' \in [Ids -> Nat]
    BY <1>1 DEF Typed
  <2> QED BY <2>1, <2>2, <2>5, <2>6 DEF Typed
<1>7. RepliesAreHonest' /\ Forewarned'
  <2>1. \A d \in Clients : reply'[d] = reply[d] \/ reply'[d].kind = "inline"
    BY <1>3 DEF Typed
  <2>2. RepliesAreHonest'
    BY <1>1, <2>1 DEF RepliesAreHonest
  <2> QED BY <1>1, <1>4, <1>5, <2>2 DEF Forewarned, HasId
<1>8. events \in Seq(TrailEvent)
  BY DEF Typed
<1>9. /\ \A id \in Ids : Retrieved(id) \in Nat /\ Retrieved(id)' = Retrieved(id)
      /\ \A d \in Clients : /\ Told("large_result_summarized", d)' = Told("large_result_summarized", d)
                            /\ Told("result_retrieved", d)' = Told("result_retrieved", d)
  BY <1>1, <1>2, <1>8, RetrievedGrows, CountsAreNumbers DEF Types
<1>10. CountsMatch'
  <2>1. \A id \in Ids : Counting(id)' = Counting(id)
    <3> TAKE id \in Ids
    <3>1. c \notin MidCall(id) /\ c \notin MidCall(id)'
      BY <1>1, <1>5 DEF MidCall
    <3> QED BY <3>1, <1>4, CountingMoves
  <2>2. \A id \in DOMAIN rows' : id \in Ids /\ rows'[id].count = (Retrieved(id) + Counting(id) + uncounted[id])'
    BY <1>1, <1>9, <2>1 DEF CountsMatch, Typed
  <2>3. ASSUME NEW id \in Ids, id.created >= now', ~Live(id)' PROVE Untouched(id)'
    <3>1. Untouched(id)
      BY <1>1, <2>3 DEF Live, CountsMatch
    <3> HIDE DEF e, StoreInv
    <3> QED BY <3>1, <1>1, <1>2, <1>4, <1>5, UntouchedByEvent
  <2> QED BY <2>2, <2>3 DEF CountsMatch
<1>11. TrailCovered'
  BY <1>1, <1>4, <1>5, <1>9 DEF TrailCovered, Owed
<1> QED BY <1>6, <1>7, <1>10, <1>11

LEMMA RecordSummaryStep ==
  ASSUME StoreInv, NEW c \in Clients, RecordSummary(c)
  PROVE  StoreInv'
<1> USE DEF StoreInv
<1> DEFINE e == Recorded("large_result_summarized", c, call[c].id)
<1>1. /\ phase[c] = "record_summary" /\ events' = Append(events, e)
      /\ UNCHANGED <<rows, now, minted, served, removed, uncounted, disturbed>>
      /\ phase' = [phase EXCEPT ![c] = "idle"] /\ call' = [call EXCEPT ![c] = Nothing]
      /\ reply' = [reply EXCEPT ![c] = [kind |-> "stored", id |-> call[c].id]]
  BY DEF RecordSummary, history, Return, Goto
<1>2. e \in TrailEvent /\ e.type = "large_result_summarized" /\ e.session = c
  BY <1>1 DEF Recorded, TrailEvent, Types, Typed, HasId
<1>4. /\ \A d \in Clients \ {c} : phase'[d] = phase[d] /\ call'[d] = call[d]
      /\ phase'[c] = "idle"
  BY <1>1 DEF Typed
<1>6. Typed'
  <2>1. events' \in Seq(TrailEvent)
    BY <1>1, <1>2 DEF Typed
  <2> QED BY <1>1, <2>1 DEF Typed, Phases, HasId
<1>7. RepliesAreHonest' /\ Forewarned'
  BY <1>1 DEF Typed, RepliesAreHonest, Forewarned, HasId
<1>8. events \in Seq(TrailEvent)
  BY DEF Typed
<1>9. /\ \A id \in Ids : Retrieved(id) \in Nat /\ Retrieved(id)' = Retrieved(id)
      /\ \A d \in Clients :
           /\ Told("large_result_summarized", d) \in Nat
           /\ Told("large_result_summarized", d)' = Told("large_result_summarized", d) + (IF c = d THEN 1 ELSE 0)
           /\ Told("result_retrieved", d)' = Told("result_retrieved", d)
  <2> HIDE DEF e
  <2> QED BY <1>1, <1>2, <1>8, RetrievedGrows, CountsAreNumbers DEF Types
<1>10. CountsMatch'
  <2>1. \A id \in Ids : Counting(id)' = Counting(id)
    <3> TAKE id \in Ids
    <3>1. c \notin MidCall(id) /\ c \notin MidCall(id)'
      BY <1>1, <1>4 DEF MidCall
    <3> QED BY <3>1, <1>4, CountingMoves
  <2>2. \A id \in DOMAIN rows' : id \in Ids /\ rows'[id].count = (Retrieved(id) + Counting(id) + uncounted[id])'
    BY <1>1, <1>9, <2>1 DEF CountsMatch, Typed
  <2>3. ASSUME NEW id \in Ids, id.created >= now', ~Live(id)' PROVE Untouched(id)'
    <3>1. Untouched(id)
      BY <1>1, <2>3 DEF Live, CountsMatch
    <3> HIDE DEF e, StoreInv
    <3> QED BY <3>1, <1>1, <1>2, <1>4, UntouchedByEvent
  <2> QED BY <2>2, <2>3 DEF CountsMatch
<1>11. TrailCovered'
  BY <1>1, <1>4, <1>9 DEF TrailCovered, Owed, Typed
<1> QED BY <1>6, <1>7, <1>10, <1>11

LEMMA RecordRetrievalStep ==
  ASSUME StoreInv, NEW c \in Clients, RecordRetrieval(c)
  PROVE  StoreInv'
<1> USE DEF StoreInv
<1> DEFINE e == Recorded("result_retrieved", c, call[c].id)
           r == Response(call[c].id, call[c].row.summary, call[c].request)
<1>1. /\ phase[c] = "record_retrieval" /\ events' = Append(events, e)
      /\ UNCHANGED <<rows, now, minted, served, removed, uncounted, disturbed>>
      /\ phase' = [phase EXCEPT ![c] = "idle"] /\ call' = [call EXCEPT ![c] = Nothing]
      /\ reply' = [reply EXCEPT ![c] = r]
  BY DEF RecordRetrieval, history, Return, Goto
<1>2. e \in TrailEvent /\ e.type = "result_retrieved" /\ e.session = c /\ e.id = call[c].id
  BY <1>1 DEF Recorded, TrailEvent, Types, Typed, HasId
<1>3. r.kind = "found"
  BY DEF Response
<1> HIDE DEF r
<1>4. /\ \A d \in Clients \ {c} : phase'[d] = phase[d] /\ call'[d] = call[d]
      /\ phase'[c] = "idle"
  BY <1>1 DEF Typed
<1>6. Typed'
  <2>1. events' \in Seq(TrailEvent)
    BY <1>1, <1>2 DEF Typed
  <2> QED BY <1>1, <2>1 DEF Typed, Phases, HasId
<1>7. RepliesAreHonest' /\ Forewarned'
  BY <1>1, <1>3 DEF Typed, RepliesAreHonest, Forewarned, HasId
<1>8. events \in Seq(TrailEvent) /\ call[c].id \in Ids
  BY <1>1 DEF Typed, HasId
<1>9. /\ \A id \in Ids : /\ Retrieved(id) \in Nat
                         /\ Retrieved(id)' = Retrieved(id) + (IF call[c].id = id THEN 1 ELSE 0)
      /\ \A d \in Clients :
           /\ Told("result_retrieved", d) \in Nat
           /\ Told("result_retrieved", d)' = Told("result_retrieved", d) + (IF c = d THEN 1 ELSE 0)
           /\ Told("large_result_summarized", d)' = Told("large_result_summarized", d)
  <2> HIDE DEF e
  <2>1. /\ \A id \in Ids :
             /\ Retrieved(id) \in Nat
             /\ Retrieved(id)' = Retrieved(id) + (IF e.type = "result_retrieved" /\ e.id = id THEN 1 ELSE 0)
        /\ \A d \in Clients, type \in Types :
             /\ Told(type, d) \in Nat
             /\ Told(type, d)' = Told(type, d) + (IF e.type = type /\ e.session = d THEN 1 ELSE 0)
    BY <1>1, <1>2, <1>8, RetrievedGrows
  <2>2. "result_retrieved" \in Types /\ "large_result_summarized" \in Types /\ "result_retrieved" # "large_result_summarized"
    BY DEF Types
  <2>3. \A id \in Ids : Retrieved(id)' = Retrieved(id) + (IF call[c].id = id THEN 1 ELSE 0)
    BY <1>2, <2>1
  <2>4. \A d \in Clients : Told("result_retrieved", d)' = Told("result_retrieved", d) + (IF c = d THEN 1 ELSE 0)
    BY <1>2, <2>1, <2>2
  <2>5. \A d \in Clients : Told("large_result_summarized", d)' = Told("large_result_summarized", d)
    <3> TAKE d \in Clients
    <3>1. Told("large_result_summarized", d) \in Nat
          /\ Told("large_result_summarized", d)' = Told("large_result_summarized", d) + 0
      BY <1>2, <2>1, <2>2
    <3> QED BY <3>1
  <2> QED BY <2>1, <2>2, <2>3, <2>4, <2>5
<1>10. CountsMatch'
  <2>1. \A id \in Ids : /\ Counting(id) \in Nat
                        /\ Counting(id)' = Counting(id) - (IF call[c].id = id THEN 1 ELSE 0)
    <3> TAKE id \in Ids
    <3>1. (c \in MidCall(id) <=> call[c].id = id) /\ c \notin MidCall(id)'
      BY <1>1, <1>4 DEF MidCall
    <3> QED BY <3>1, <1>4, CountingMoves
  <2>2. \A id \in DOMAIN rows' : id \in Ids /\ rows'[id].count = (Retrieved(id) + Counting(id) + uncounted[id])'
    <3> TAKE id \in DOMAIN rows'
    <3>1. id \in DOMAIN rows /\ id \in Ids /\ rows'[id] = rows[id] /\ uncounted'[id] = uncounted[id] /\ uncounted[id] \in Nat
      BY <1>1 DEF Typed
    <3>2. rows[id].count = Retrieved(id) + Counting(id) + uncounted[id]
      BY <3>1 DEF CountsMatch
    <3> HIDE DEF StoreInv
    <3> QED BY <1>9, <2>1, <3>1, <3>2
  <2>3. ASSUME NEW id \in Ids, id.created >= now', ~Live(id)' PROVE Untouched(id)'
    <3>1. Untouched(id)
      BY <1>1, <2>3 DEF Live, CountsMatch
    <3>2. call[c].id # id
      BY <3>1, <1>1 DEF Untouched
    <3> HIDE DEF e, StoreInv
    <3> QED BY <3>1, <3>2, <1>1, <1>2, <1>4, UntouchedByEvent
  <2> QED BY <2>2, <2>3 DEF CountsMatch
<1>11. TrailCovered'
  BY <1>1, <1>4, <1>9 DEF TrailCovered, Owed, Typed
<1> QED BY <1>6, <1>7, <1>10, <1>11
LEMMA InsertStep ==
  ASSUME StoreInv, NEW c \in Clients, Insert(c)
  PROVE  StoreInv'
<1> USE DEF StoreInv
<1> DEFINE id == NewId(c)
<1>0. /\ phase[c] = "insert" /\ id \in Ids /\ id.created = now
      /\ UNCHANGED <<events, now, served, removed, uncounted>>
  BY DEF Insert, NewId, Ids, Typed
<1>1. CASE id \in DOMAIN rows
  <2>1. /\ disturbed' = disturbed \cup {c} /\ Return(c, Failed("internal", id))
        /\ UNCHANGED <<rows, minted>>
    BY <1>1 DEF Insert
  <2>2. Failed("internal", id).kind = "internal"
    BY DEF Failed
  <2> HIDE DEF id, StoreInv
  <2> QED BY <1>0, <2>1, <2>2, CallEnds
<1>2. CASE id \notin DOMAIN rows
  <2>1. /\ rows' = [i \in DOMAIN rows \cup {id} |->
                        IF i = id THEN [summary |-> call[c].summary,
                                        expires |-> call[c].expires, count |-> 0]
                        ELSE rows[i]]
        /\ minted' = [minted EXCEPT ![c] = @ + 1]
        /\ call' = [call EXCEPT ![c] = [tool |-> @.tool, id |-> id]]
        /\ phase' = [phase EXCEPT ![c] = "read_back"]
        /\ UNCHANGED <<reply, disturbed>>
    BY <1>2 DEF Insert, Goto
  <2>2. call[c].expires \in Nat
    BY <1>0 DEF Typed
  <2> HIDE DEF id
  <2>3. /\ \A d \in Clients \ {c} : phase'[d] = phase[d] /\ call'[d] = call[d]
        /\ phase'[c] = "read_back" /\ "id" \in DOMAIN call'[c] /\ call'[c].id = id
    BY <2>1 DEF Typed
  <2>4. /\ DOMAIN rows' = DOMAIN rows \cup {id}
        /\ \A i \in DOMAIN rows : rows'[i] = rows[i]
        /\ rows'[id].expires \in Nat /\ rows'[id].count = 0
    BY <1>2, <2>1, <2>2
  <2>5. Typed'
    BY <1>0, <2>1, <2>3, <2>4 DEF Typed, Phases, HasId
  <2>6. RepliesAreHonest'
    BY <1>0, <2>1, <2>4 DEF RepliesAreHonest
  <2>7. Forewarned'
    BY <1>0, <2>1, <2>3, <2>4 DEF Forewarned, HasId
  <2>8. Untouched(id)
    BY <1>0, <1>2 DEF CountsMatch, Live, Typed
  <2>9. \A i \in Ids : Retrieved(i)' = Retrieved(i) /\ Counting(i)' = Counting(i)
    <3> TAKE i \in Ids
    <3>1. c \notin MidCall(i) /\ c \notin MidCall(i)'
      BY <1>0, <2>3 DEF MidCall
    <3>2. Counting(i)' = Counting(i)
      BY <3>1, <2>3, CountingMoves
    <3> QED BY <1>0, <3>2 DEF Retrieved
  <2>10. Retrieved(id) = 0 /\ Counting(id) = 0 /\ uncounted[id] = 0
    <3>1. {i \in DOMAIN events : events[i].type = "result_retrieved" /\ events[i].id = id} = {}
      BY <2>8 DEF Untouched
    <3>2. {d \in Clients : phase[d] \in {"counted", "record_retrieval"} /\ call[d].id = id} = {}
      BY <2>8 DEF Untouched
    <3> QED BY <2>8, <3>1, <3>2, FS_EmptySet DEF Retrieved, Counting, Untouched
  <2>11. CountsMatch'
    <3>1. \A i \in DOMAIN rows' : rows'[i].count = (Retrieved(i) + Counting(i) + uncounted[i])'
      BY <1>0, <2>4, <2>9, <2>10 DEF CountsMatch, Typed
    <3>2. ASSUME NEW i \in Ids, i.created >= now', ~Live(i)' PROVE Untouched(i)'
      <4>1. Untouched(i)
        BY <1>0, <2>4, <2>8, <3>2 DEF CountsMatch, Live
      <4> QED BY <4>1, <1>0, <2>3 DEF Untouched
    <3> QED BY <3>1, <3>2 DEF CountsMatch
  <2>12. TrailCovered'
    <3>1. \A d \in Clients : /\ Told("result_retrieved", d)' = Told("result_retrieved", d)
                             /\ Told("large_result_summarized", d)' = Told("large_result_summarized", d)
                             /\ Told("large_result_summarized", d) \in Nat
      BY <1>0, CountsAreNumbers DEF Told, Types
    <3> QED BY <1>0, <2>1, <2>3, <3>1 DEF TrailCovered, Owed, Typed
  <2> QED BY <2>5, <2>6, <2>7, <2>11, <2>12
<1> QED BY <1>1, <1>2

LEMMA ReadBackStep ==
  ASSUME StoreInv, NEW c \in Clients, ReadBack(c)
  PROVE  StoreInv'
<1>0. /\ phase[c] = "read_back"
      /\ UNCHANGED <<rows, events, now, minted, served, removed, uncounted, disturbed>>
  BY DEF ReadBack, history
<1>1. CASE call[c].id \notin DOMAIN rows
  <2>1. Return(c, Failed("internal", call[c].id))
    BY <1>1 DEF ReadBack
  <2>2. c \in disturbed
    BY <1>0, <1>1 DEF StoreInv, Forewarned, HasId
  <2> QED BY <1>0, <2>1, <2>2, CallEnds DEF Failed
<1>2. CASE call[c].id \in DOMAIN rows /\ call[c].tool = "find_symbol"
  <2>1. phase' = [phase EXCEPT ![c] = "record_summary"] /\ UNCHANGED <<call, reply>>
    BY <1>2 DEF ReadBack, Goto
  <2>2. Typed' /\ RepliesAreHonest' /\ Forewarned'
    BY <1>0, <2>1 DEF StoreInv, Typed, RepliesAreHonest, Forewarned, HasId, Phases
  <2>3. phase'[c] = "record_summary" /\ \A d \in Clients \ {c} : phase'[d] = phase[d] /\ call'[d] = call[d]
    BY <2>1 DEF StoreInv, Typed
  <2> QED BY <1>0, <2>2, <2>3, QuietStep DEF StoreInv
<1>3. CASE call[c].id \in DOMAIN rows /\ call[c].tool # "find_symbol"
  <2>1. Return(c, [kind |-> "stored", id |-> call[c].id])
    BY <1>3 DEF ReadBack
  <2> QED BY <1>0, <2>1, CallEnds
<1> QED BY <1>1, <1>2, <1>3

LEMMA RecheckStep ==
  ASSUME StoreInv, NEW c \in Clients, Recheck(c)
  PROVE  StoreInv'
<1> DEFINE id == call[c].id
           r == IF id \in DOMAIN rows /\ rows[id].expires <= now
                THEN Failed("expired_result", id) ELSE Failed("missing_result", id)
<1>1. /\ phase[c] = "recheck" /\ Return(c, r)
      /\ UNCHANGED <<rows, events, now, minted, served, removed, uncounted, disturbed>>
  BY DEF Recheck, history
<1>2. id \in removed \/ (id \in DOMAIN rows /\ rows[id].expires <= now)
  BY <1>1 DEF StoreInv, Forewarned
<1>3. /\ r.kind = "missing_result" => r.id \in removed
      /\ r.kind = "expired_result" => r.id \in DOMAIN rows /\ rows[r.id].expires <= now
      /\ r.kind # "internal"
  BY <1>2 DEF Failed
<1> HIDE DEF r, id
<1> QED BY <1>1, <1>3, CallEnds

LEMMA CountStep ==
  ASSUME StoreInv, NEW c \in Clients, Count(c)
  PROVE  StoreInv'
<1> DEFINE id == call[c].id
<1>0. /\ phase[c] = "count" /\ id \in Ids
      /\ UNCHANGED <<events, now, minted, removed, uncounted, disturbed>>
  BY DEF Count, StoreInv, Typed, HasId
<1>1. CASE id \notin DOMAIN rows
  <2>1. Return(c, Failed("internal", id)) /\ UNCHANGED <<rows, served>>
    BY <1>1 DEF Count
  <2>2. c \in disturbed
    BY <1>0, <1>1 DEF StoreInv, Forewarned, HasId
  <2> HIDE DEF id
  <2> QED BY <1>0, <2>1, <2>2, CallEnds DEF Failed
<1>2. CASE id \in DOMAIN rows
  <2> USE DEF StoreInv
  <2>1. /\ rows' = [rows EXCEPT ![id].count = @ + 1]
        /\ served' = [served EXCEPT ![c] = @ + 1]
        /\ phase' = [phase EXCEPT ![c] = "counted"] /\ UNCHANGED <<call, reply>>
    BY <1>2 DEF Count, Goto
  <2>2. /\ DOMAIN rows' = DOMAIN rows
        /\ \A i \in DOMAIN rows : i # id => rows'[i] = rows[i]
        /\ rows'[id].expires = rows[id].expires /\ rows'[id].count = rows[id].count + 1
    <3>1. "count" \in DOMAIN rows[id] /\ "expires" \in DOMAIN rows[id]
      BY <1>2 DEF Typed
    <3> QED BY <1>2, <2>1, <3>1
  <2>3. /\ \A d \in Clients \ {c} : phase'[d] = phase[d] /\ call'[d] = call[d]
        /\ phase'[c] = "counted" /\ call'[c] = call[c]
    BY <2>1 DEF Typed
  <2> HIDE DEF id
  <2>4. Typed'
    <3>1. /\ DOMAIN rows' \subseteq Ids /\ removed' \subseteq Ids /\ now' \in 0..Horizon /\ events' \in Seq(TrailEvent)
          /\ DOMAIN call' = Clients /\ DOMAIN reply' = Clients
          /\ minted' \in [Clients -> Nat] /\ uncounted' \in [Ids -> Nat]
      BY <1>0, <2>1, <2>2 DEF Typed
    <3>2. phase' \in [Clients -> Phases]
      BY <2>1 DEF Typed, Phases, HasId
    <3>3. served' \in [Clients -> Nat]
      BY <2>1 DEF Typed
    <3>4. DOMAIN rows'[id] = {"summary", "expires", "count"}
      BY <1>2, <2>1 DEF Typed
    <3>5. rows'[id].expires \in Nat /\ rows'[id].count \in Nat /\ id.created <= now'
      BY <1>0, <1>2, <2>2 DEF Typed
    <3>6. \A i \in DOMAIN rows' :
            /\ DOMAIN rows'[i] = {"summary", "expires", "count"}
            /\ rows'[i].expires \in Nat /\ rows'[i].count \in Nat /\ i.created <= now'
      BY <1>0, <2>2, <3>4, <3>5 DEF Typed
    <3>7. \A d \in Clients :
            /\ phase'[d] \in {"record_call", "insert"} =>
                 call'[d].list \in Lists /\ call'[d].tool \in Tools /\ call'[d].expires \in Nat
            /\ phase'[d] \in HasId => "id" \in DOMAIN call'[d] /\ call'[d].id \in Ids
      BY <1>0, <2>3 DEF Typed, HasId
    <3> QED BY <3>1, <3>2, <3>3, <3>6, <3>7 DEF Typed
  <2>5. RepliesAreHonest'
    BY <1>0, <2>1, <2>2 DEF RepliesAreHonest
  <2>6. Forewarned'
    BY <1>0, <2>2, <2>3 DEF Forewarned, HasId
  <2>7. \A i \in Ids : /\ Retrieved(i)' = Retrieved(i) /\ Retrieved(i) \in Nat /\ Counting(i) \in Nat
                       /\ Counting(i)' = Counting(i) + (IF i = id THEN 1 ELSE 0)
    <3> TAKE i \in Ids
    <3>1. c \notin MidCall(i) /\ (c \in MidCall(i)' <=> i = id)
      BY <1>0, <2>3 DEF MidCall, id
    <3>2. Counting(i) \in Nat /\ Counting(i)' = Counting(i) + (IF i = id THEN 1 ELSE 0)
      BY <3>1, <2>3, CountingMoves
    <3> QED BY <1>0, <3>2, CountsAreNumbers DEF Retrieved
  <2>8. CountsMatch'
    <3>1. ASSUME NEW i \in DOMAIN rows'
          PROVE  rows'[i].count = (Retrieved(i) + Counting(i) + uncounted[i])'
      <4>1. i \in DOMAIN rows /\ i \in Ids /\ uncounted'[i] = uncounted[i] /\ uncounted[i] \in Nat
        BY <1>0, <2>2, <3>1 DEF Typed
      <4>2. rows[i].count = Retrieved(i) + Counting(i) + uncounted[i]
        BY <4>1 DEF CountsMatch
      <4> HIDE DEF StoreInv
      <4> QED BY <2>2, <2>7, <4>1, <4>2
    <3>2. ASSUME NEW i \in Ids, i.created >= now', ~Live(i)' PROVE Untouched(i)'
      <4>1. Untouched(i)
        BY <1>0, <2>2, <3>2 DEF CountsMatch, Live
      <4>2. i # id
        BY <4>1, <1>0 DEF Untouched, id
      <4> QED BY <4>1, <4>2, <1>0, <2>3 DEF Untouched, id
    <3> QED BY <3>1, <3>2 DEF CountsMatch
  <2>9. TrailCovered'
    <3>1. \A d \in Clients : /\ Told("result_retrieved", d)' = Told("result_retrieved", d)
                             /\ Told("large_result_summarized", d)' = Told("large_result_summarized", d)
                             /\ Told("result_retrieved", d) \in Nat
      BY <1>0, CountsAreNumbers DEF Told, Types
    <3> QED BY <1>0, <2>1, <2>3, <3>1 DEF TrailCovered, Owed, Typed
  <2> QED BY <2>4, <2>5, <2>6, <2>8, <2>9
<1> QED BY <1>1, <1>2

\* A call that fails after it counted.
LEMMA MidwayEnds ==
  ASSUME StoreInv, NEW c \in Clients, NEW r, Return(c, r), r.kind = "internal", Miscounted(c),
         phase[c] \in {"counted", "record_retrieval"},
         UNCHANGED <<rows, events, now, minted, served, removed>>,
         \A d \in Clients : d \in disturbed => d \in disturbed', c \in disturbed'
  PROVE  StoreInv'
<1> USE DEF StoreInv, Return, Goto
<1> DEFINE id == call[c].id
<1>1. id \in Ids /\ uncounted' = [uncounted EXCEPT ![id] = @ + 1]
  BY DEF Miscounted, Typed, HasId
<1>2. /\ \A d \in Clients \ {c} : phase'[d] = phase[d] /\ call'[d] = call[d]
      /\ phase'[c] = "idle"
  BY DEF Typed
<1> HIDE DEF id
<1>3. Typed'
  BY <1>1 DEF Typed, Phases, HasId
<1>4. RepliesAreHonest'
  BY DEF Typed, RepliesAreHonest
<1>5. Forewarned'
  BY DEF Typed, Forewarned, HasId
<1>6. \A i \in Ids : /\ Retrieved(i)' = Retrieved(i) /\ Retrieved(i) \in Nat /\ Counting(i) \in Nat
                     /\ Counting(i)' = Counting(i) - (IF i = id THEN 1 ELSE 0)
                     /\ uncounted[i] \in Nat
                     /\ uncounted'[i] = uncounted[i] + (IF i = id THEN 1 ELSE 0)
  <2> TAKE i \in Ids
  <2>1. (c \in MidCall(i) <=> i = id) /\ c \notin MidCall(i)'
    BY <1>2 DEF MidCall, id
  <2>2. Counting(i) \in Nat /\ Counting(i)' = Counting(i) - (IF i = id THEN 1 ELSE 0)
    BY <2>1, <1>2, CountingMoves
  <2>3. uncounted[i] \in Nat /\ uncounted'[i] = uncounted[i] + (IF i = id THEN 1 ELSE 0)
    BY <1>1 DEF Typed
  <2> QED BY <2>2, <2>3, CountsAreNumbers DEF Retrieved
<1>7. CountsMatch'
  <2>1. ASSUME NEW i \in DOMAIN rows'
        PROVE  rows'[i].count = (Retrieved(i) + Counting(i) + uncounted[i])'
    <3>1. i \in DOMAIN rows /\ i \in Ids /\ rows'[i] = rows[i]
      BY <2>1 DEF Typed
    <3>2. rows[i].count = Retrieved(i) + Counting(i) + uncounted[i]
      BY <3>1 DEF CountsMatch
    <3> HIDE DEF StoreInv
    <3> QED BY <1>6, <3>1, <3>2
  <2>2. ASSUME NEW i \in Ids, i.created >= now', ~Live(i)' PROVE Untouched(i)'
    <3>1. Untouched(i)
      BY <2>2 DEF CountsMatch, Live
    <3>2. i # id
      BY <3>1 DEF Untouched, id
    <3>3. uncounted'[i] = 0
      BY <1>6, <3>1, <3>2 DEF Untouched
    <3> QED BY <3>1, <3>3, <1>2 DEF Untouched
  <2> QED BY <2>1, <2>2 DEF CountsMatch
<1>8. TrailCovered'
  <2>1. \A d \in Clients : /\ Told("result_retrieved", d)' = Told("result_retrieved", d)
                           /\ Told("large_result_summarized", d)' = Told("large_result_summarized", d)
                           /\ Told("result_retrieved", d) \in Nat /\ Told("large_result_summarized", d) \in Nat
    BY CountsAreNumbers DEF Told, Types
  <2> QED BY <1>2, <2>1 DEF TrailCovered, Owed, Typed
<1> QED BY <1>3, <1>4, <1>5, <1>7, <1>8
LEMMA ReadCountStep ==
  ASSUME StoreInv, NEW c \in Clients, ReadCount(c)
  PROVE  StoreInv'
<1>0. /\ phase[c] = "counted"
      /\ UNCHANGED <<rows, events, now, minted, served, removed, disturbed>>
  BY DEF ReadCount
<1>1. CASE call[c].id \notin DOMAIN rows
  <2>1. Return(c, Failed("internal", call[c].id)) /\ Miscounted(c)
    BY <1>1 DEF ReadCount
  <2>2. c \in disturbed
    BY <1>0, <1>1 DEF StoreInv, Forewarned, HasId
  <2> QED BY <1>0, <2>1, <2>2, MidwayEnds DEF Failed
<1>2. CASE call[c].id \in DOMAIN rows
  <2> USE DEF StoreInv
  <2>1. phase' = [phase EXCEPT ![c] = "record_retrieval"] /\ UNCHANGED <<call, reply, uncounted>>
    BY <1>2 DEF ReadCount, Goto
  <2>2. Typed' /\ RepliesAreHonest' /\ Forewarned'
    BY <1>0, <2>1 DEF Typed, RepliesAreHonest, Forewarned, HasId, Phases
  <2>3. phase'[c] = "record_retrieval" /\ \A d \in Clients \ {c} : phase'[d] = phase[d] /\ call'[d] = call[d]
    BY <2>1 DEF Typed
  <2>4. \A i \in Ids : Retrieved(i)' = Retrieved(i) /\ Counting(i)' = Counting(i)
    <3> TAKE i \in Ids
    <3>1. c \in MidCall(i) <=> c \in MidCall(i)'
      BY <1>0, <2>1, <2>3 DEF MidCall
    <3> QED BY <1>0, <2>3, <3>1, CountingMoves DEF Retrieved
  <2>5. CountsMatch'
    BY <1>0, <2>1, <2>3, <2>4 DEF CountsMatch, Typed, Untouched, Live
  <2>6. TrailCovered'
    BY <1>0, <2>1, <2>3 DEF TrailCovered, Owed, Told
  <2> QED BY <2>2, <2>5, <2>6
<1> QED BY <1>1, <1>2

LEMMA RefusedStep ==
  ASSUME StoreInv, NEW c \in Clients, Refused(c)
  PROVE  StoreInv'
<1> DEFINE r == Failed("internal", Nothing)
<1>0. /\ Return(c, r) /\ r.kind = "internal" /\ disturbed' = disturbed \cup {c}
      /\ UNCHANGED <<rows, events, now, minted, served, removed>>
      /\ phase[c] # "counted"
  BY DEF Refused, Failed
<1> HIDE DEF r
<1>1. CASE phase[c] = "record_retrieval"
  <2>1. Miscounted(c)
    BY <1>1 DEF Refused
  <2> QED BY <1>0, <1>1, <2>1, MidwayEnds
<1>2. CASE phase[c] # "record_retrieval"
  <2>1. UNCHANGED uncounted
    BY <1>2 DEF Refused
  <2> QED BY <1>0, <1>2, <2>1, CallEnds
<1> QED BY <1>1, <1>2

\* Ids of the time to come have no row and are not live.
LEMMA LaterIsUntouched ==
  ASSUME StoreInv, NEW id \in Ids, id.created > now
  PROVE  id \notin DOMAIN rows /\ Untouched(id)
<1>1. id.created \in Int /\ now \in Int
  BY ResultStoreAssumption DEF Ids, StoreInv, Typed
<1>2. id \notin DOMAIN rows
  BY <1>1 DEF StoreInv, Typed
<1> QED BY <1>1, <1>2 DEF StoreInv, CountsMatch, Live

LEMMA TickStep == StoreInv /\ Tick => StoreInv'
<1> SUFFICES ASSUME StoreInv, Tick PROVE StoreInv'
  OBVIOUS
<1> USE DEF StoreInv
<1>1. /\ now < Horizon /\ now' = now + 1 /\ now \in Nat /\ Horizon \in Nat
      /\ UNCHANGED <<rows, events, phase, call, reply, minted, served, removed, uncounted, disturbed>>
  BY ResultStoreAssumption DEF Tick, history, Typed
<1>2. Typed'
  <2>1. \A id \in DOMAIN rows : id.created \in Int
    BY <1>1 DEF Typed, Ids
  <2> QED BY <1>1, <2>1 DEF Typed
<1>3. RepliesAreHonest' /\ Forewarned'
  BY <1>1 DEF Typed, RepliesAreHonest, Forewarned
<1>4. CountsMatch'
  <2>1. \A id \in DOMAIN rows' : rows'[id].count = (Retrieved(id) + Counting(id) + uncounted[id])'
    BY <1>1 DEF CountsMatch, Retrieved, Counting
  <2>2. ASSUME NEW id \in Ids, id.created >= now' PROVE Untouched(id)'
    <3>1. id.created > now
      BY <1>1, <2>2 DEF Ids
    <3>2. Untouched(id)
      BY <3>1, LaterIsUntouched
    <3> QED BY <1>1, <3>2 DEF Untouched
  <2> QED BY <2>1, <2>2 DEF CountsMatch
<1>5. TrailCovered'
  BY <1>1 DEF TrailCovered, Owed, Told
<1> QED BY <1>2, <1>3, <1>4, <1>5

\* What a drop does to the calls that use what it drops.
LEMMA DropWarns ==
  ASSUME StoreInv, NEW gone \in SUBSET DOMAIN rows, Drop(gone),
         UNCHANGED <<phase, call, reply, minted, served, uncounted>>,
         now' = now \/ (now' = now + 1 /\ now < Horizon),
         events' \in Seq(TrailEvent)
  PROVE  Typed' /\ RepliesAreHonest' /\ Forewarned'
<1> USE DEF StoreInv
<1>1. /\ DOMAIN rows' = DOMAIN rows \ gone /\ \A id \in DOMAIN rows \ gone : rows'[id] = rows[id]
      /\ removed' = removed \cup gone /\ disturbed' = disturbed \cup Using(gone)
  BY DEF Drop
<1>2. now \in Nat /\ Horizon \in Nat /\ now' \in 0..Horizon /\ now' >= now
  BY ResultStoreAssumption DEF Typed
<1>3. Typed'
  <2>1. \A id \in DOMAIN rows : id.created \in Int
    BY <1>2 DEF Typed, Ids
  <2> QED BY <1>1, <1>2, <2>1 DEF Typed
<1>4. RepliesAreHonest'
  BY <1>1, <1>2 DEF Typed, RepliesAreHonest
<1>5. Forewarned'
  <2> SUFFICES ASSUME NEW c \in Clients
      PROVE /\ phase[c] \in HasId \ {"recheck"} => call[c].id \in DOMAIN rows' \/ c \in disturbed'
            /\ phase[c] = "recheck" =>
                 \/ call[c].id \in removed'
                 \/ call[c].id \in DOMAIN rows' /\ rows'[call[c].id].expires <= now'
    BY DEF Forewarned
  <2>1. phase[c] \in HasId => "id" \in DOMAIN call[c]
    BY DEF Typed
  <2>2. phase[c] \in HasId /\ call[c].id \in gone => c \in Using(gone)
    BY <2>1 DEF Using, HasId
  <2> QED BY <1>1, <1>2, <2>2 DEF Forewarned, Typed
<1> QED BY <1>3, <1>4, <1>5

LEMMA CleanUpStep == StoreInv /\ CleanUp => StoreInv'
<1> SUFFICES ASSUME StoreInv, CleanUp PROVE StoreInv'
  OBVIOUS
<1> DEFINE gone == {id \in DOMAIN rows : rows[id].expires <= now}
<1>1. Drop(gone) /\ UNCHANGED <<events, now, phase, call, reply, minted, served, uncounted>>
  BY DEF CleanUp
<1>2. Typed' /\ RepliesAreHonest' /\ Forewarned'
  <2>1. events' \in Seq(TrailEvent)
    BY <1>1 DEF StoreInv, Typed
  <2> HIDE DEF gone
  <2> QED BY <1>1, <2>1, DropWarns DEF gone
<1>3. /\ DOMAIN rows' = DOMAIN rows \ gone /\ \A id \in DOMAIN rows \ gone : rows'[id] = rows[id]
  BY <1>1 DEF Drop
<1>4. CountsMatch'
  <2>1. \A id \in DOMAIN rows' : rows'[id].count = (Retrieved(id) + Counting(id) + uncounted[id])'
    BY <1>1, <1>3 DEF StoreInv, CountsMatch, Retrieved, Counting
  <2>2. ASSUME NEW id \in Ids, id.created >= now', ~Live(id)' PROVE Untouched(id)'
    <3>1. ~Live(id)
      BY <1>1, <1>3, <2>2 DEF Live, StoreInv, Typed
    <3>2. Untouched(id)
      BY <1>1, <2>2, <3>1 DEF StoreInv, CountsMatch
    <3> QED BY <1>1, <3>2 DEF Untouched
  <2> QED BY <2>1, <2>2 DEF CountsMatch
<1>5. TrailCovered'
  BY <1>1 DEF StoreInv, TrailCovered, Owed, Told
<1> QED BY <1>2, <1>4, <1>5 DEF StoreInv

LEMMA ResetStep == StoreInv /\ Reset => StoreInv'
<1> SUFFICES ASSUME StoreInv, Reset PROVE StoreInv'
  OBVIOUS
<1>1. /\ Drop(DOMAIN rows) /\ now < Horizon /\ now' = now + 1 /\ events' = << >>
      /\ UNCHANGED <<phase, call, reply, minted, served, uncounted>>
  BY DEF Reset
<1>2. Typed' /\ RepliesAreHonest' /\ Forewarned'
  BY <1>1, DropWarns
<1>3. DOMAIN rows' = {}
  BY <1>1 DEF Drop
<1>4. CountsMatch'
  <2>1. ASSUME NEW id \in Ids, id.created >= now' PROVE Untouched(id)'
    <3>1. id.created > now
      BY <1>1, <2>1, ResultStoreAssumption DEF Ids, StoreInv, Typed
    <3>2. Untouched(id)
      BY <3>1, LaterIsUntouched
    <3> QED BY <1>1, <3>2 DEF Untouched
  <2> QED BY <1>3, <2>1 DEF CountsMatch
<1>5. TrailCovered'
  <2>1. \A c \in Clients, type \in Types : Told(type, c)' = 0
    <3>1. \A c \in Clients, type \in Types : {i \in DOMAIN events' : events'[i].type = type /\ events'[i].session = c} = {}
      BY <1>1
    <3> QED BY <3>1, FS_EmptySet DEF Told
  <2>2. \A c \in Clients, type \in Types : Told(type, c) \in Nat
    BY CountsAreNumbers DEF StoreInv
  <2> QED BY <1>1, <2>1, <2>2 DEF StoreInv, Typed, TrailCovered, Owed, Types
<1> QED BY <1>2, <1>4, <1>5 DEF StoreInv

LEMMA StoreStays == StoreInv /\ [StoreNext]_storeVars => StoreInv'
<1> SUFFICES ASSUME StoreInv, [StoreNext]_storeVars PROVE StoreInv'
  OBVIOUS
<1>1. CASE UNCHANGED storeVars
  BY <1>1 DEF storeVars, StoreInv, Typed, RepliesAreHonest, Forewarned, CountsMatch, Untouched, Live,
              Retrieved, Counting, TrailCovered, Told, Owed
<1>2. CASE StoreNext
  BY <1>2, CallStarts, RetrieveStarts, RecordCallStep, InsertStep, ReadBackStep, RecordSummaryStep,
     RecheckStep, CountStep, ReadCountStep, RecordRetrievalStep, RefusedStep,
     TickStep, CleanUpStep, ResetStep DEF StoreNext
<1> QED BY <1>1, <1>2

\* The statistics are over a part of a client's events.
LEMMA StatsBounded ==
  ASSUME Typed, NEW c \in Clients
  PROVE  /\ Stats(c).summarized_results <= Told("large_result_summarized", c)
         /\ Stats(c).retrievals <= Told("result_retrieved", c)
<1>1. ASSUME NEW type \in Types
      PROVE  CountOf(type, Trail(c)) <= Told(type, c)
  <2> DEFINE A == {i \in Trail(c) : events[i].type = type}
             B == {i \in DOMAIN events : events[i].type = type /\ events[i].session = c}
  <2>1. A \in SUBSET B /\ B \in SUBSET (1..Len(events)) /\ Len(events) \in Nat
    BY DEF Typed, Trail, OwnEvents
  <2> HIDE DEF A, B
  <2>2. IsFiniteSet(B)
    <3>1. IsFiniteSet(1..Len(events))
      BY <2>1, FS_Interval
    <3> QED BY <2>1, <3>1, FS_Subset
  <2>3. Cardinality(A) <= Cardinality(B)
    BY <2>1, <2>2, FS_Subset
  <2> QED BY <2>3 DEF A, B, CountOf, Told
<1> QED BY <1>1 DEF Stats, Types

-----------------------------------------------------------------------------
(* Theorems *)

\* The counts, the trail and the statistics tell one story, whatever is refused,
\* deleted or reset half way.
THEOREM TrailMatches == StoreSpec => []TrailMatchesStore
<1>1. StoreInv => TrailMatchesStore
  <2> SUFFICES ASSUME StoreInv PROVE TrailMatchesStore
    OBVIOUS
  <2>1. ASSUME NEW c \in Clients
        PROVE  Stats(c).summarized_results <= minted[c] /\ Stats(c).retrievals <= served[c]
    <3>1. /\ Told("large_result_summarized", c) <= minted[c]
          /\ Told("result_retrieved", c) <= served[c]
      <4>1. /\ Told("large_result_summarized", c) \in Nat /\ Told("result_retrieved", c) \in Nat
            /\ minted[c] \in Nat /\ served[c] \in Nat
        BY CountsAreNumbers DEF StoreInv, Typed, Types
      <4>2. /\ Told("large_result_summarized", c) + Owed(c, {"read_back", "record_summary"}) <= minted[c]
            /\ Told("result_retrieved", c) + Owed(c, {"counted", "record_retrieval"}) <= served[c]
        BY DEF StoreInv, TrailCovered
      <4>3. /\ Owed(c, {"read_back", "record_summary"}) \in Nat
            /\ Owed(c, {"counted", "record_retrieval"}) \in Nat
        BY DEF Owed
      <4> QED BY ONLY <4>1, <4>2, <4>3
    <3>2. /\ Stats(c).summarized_results \in Nat /\ Stats(c).retrievals \in Nat
          /\ Told("large_result_summarized", c) \in Nat /\ Told("result_retrieved", c) \in Nat
          /\ minted[c] \in Nat /\ served[c] \in Nat
      <4>1. \A type \in Types : CountOf(type, Trail(c)) \in Nat
        <5>1. Len(events) \in Nat
          BY DEF StoreInv, Typed
        <5>2. \A type \in Types : {i \in Trail(c) : events[i].type = type} \in SUBSET (1..Len(events))
          BY DEF Trail, OwnEvents
        <5>3. IsFiniteSet(1..Len(events))
          BY <5>1, FS_Interval
        <5> QED BY <5>2, <5>3, FS_Subset, FS_CardinalityType DEF CountOf
      <4> QED BY <4>1, CountsAreNumbers DEF StoreInv, Typed, Stats, Types
    <3> QED BY <3>1, <3>2, StatsBounded DEF StoreInv
  <2> QED BY <2>1 DEF StoreInv, CountsMatch, TrailMatchesStore
<1> QED BY <1>1, StoreStarts, StoreStays, PTL DEF StoreSpec
-----------------------------------------------------------------------------
(* What a retrieval selects *)

LEMMA FirstOf ==
  ASSUME NEW T, NEW s \in Seq(T), NEW n \in Nat
  PROVE  /\ Len(First(s, n)) = Shorter(n, s) /\ First(s, n) \in Seq(T)
         /\ Len(s) <= n => First(s, n) = s
BY DEF First, Shorter

LEMMA BoundedInRange ==
  ASSUME NEW limit \in Int
  PROVE  Bounded(limit) \in Nat /\ Bounded(MaxRetrieve) = MaxRetrieve
BY ResultStoreAssumption DEF Bounded

\* The rounded quotient is within a half of the quotient.
LEMMA RoundedIsNear ==
  ASSUME NEW p \in Nat, NEW q \in Nat \ {0}
  PROVE  /\ Rounded(p, q) \in Nat
         /\ 2 * (q * Rounded(p, q)) <= 2 * p + q
         /\ 2 * (q * Rounded(p, q)) >= 2 * p - q
<1> DEFINE down == p \div q
           left == p % q
<1>1. down \in Nat /\ left \in 0..(q - 1) /\ p = q * down + left
  OBVIOUS
<1>2. q * (down + 1) = q * down + q /\ q * down \in Nat
  BY <1>1
<1>3. \/ Rounded(p, q) = down + 1 /\ 2 * left >= q
      \/ Rounded(p, q) = down /\ 2 * left <= q
  BY <1>1 DEF Rounded
<1> HIDE DEF down, left
<1> QED BY <1>1, <1>2, <1>3

\* What is further apart than the divisor is rounded to different numbers.
LEMMA RoundedSpreads ==
  ASSUME NEW p \in Nat, NEW d \in Nat, NEW q \in Nat \ {0}, d > q
  PROVE  Rounded(p, q) < Rounded(p + d, q)
<1> DEFINE a == Rounded(p, q)
           b == Rounded(p + d, q)
<1>1. a \in Nat /\ 2 * (q * a) <= 2 * p + q
  BY RoundedIsNear
<1>2. b \in Nat /\ 2 * (q * b) >= 2 * (p + d) - q
  <2>1. p + d \in Nat
    OBVIOUS
  <2> QED BY <2>1, RoundedIsNear
<1> HIDE DEF a, b
<1>3. q * a \in Nat /\ q * b \in Nat
  BY <1>1, <1>2
<1>4. q * a < q * b
  BY <1>1, <1>2, <1>3
<1>5. b <= a => q * b <= q * a
  BY <1>1, <1>2
<1> QED BY <1>1, <1>2, <1>3, <1>4, <1>5 DEF a, b

LEMMA RoundedWhole ==
  ASSUME NEW m \in Nat, NEW q \in Nat \ {0}
  PROVE  Rounded(q * m, q) = m /\ Rounded(0, q) = 0
<1>1. q * m \in Nat /\ (q * m) \div q = m /\ (q * m) % q = 0
  OBVIOUS
<1>2. 0 \div q = 0 /\ 0 % q = 0
  OBVIOUS
<1> QED BY <1>1, <1>2 DEF Rounded

\* A sample of a longer list takes places that grow from the first to the last.
LEMMA SampleSpreads ==
  ASSUME NEW L \in Nat, NEW k \in Nat, k >= 2, L > k
  PROVE  LET pickAt(i) == 1 + Rounded((i - 1) * (L - 1), k - 1)
         IN  /\ \A i \in 1..k : pickAt(i) \in 1..L
             /\ \A i, j \in 1..k : i < j => pickAt(i) < pickAt(j)
             /\ pickAt(1) = 1 /\ pickAt(k) = L
<1> DEFINE q == k - 1
           m == L - 1
           pickAt(i) == 1 + Rounded((i - 1) * m, q)
<1>1. q \in Nat \ {0} /\ m \in Nat /\ m > q
  OBVIOUS
<1>2. pickAt(1) = 1 /\ pickAt(k) = L
  <2>1. (1 - 1) * m = 0 /\ (k - 1) * m = q * m
    BY <1>1
  <2>2. Rounded(q * m, q) = m /\ Rounded(0, q) = 0
    BY <1>1, RoundedWhole
  <2> QED BY <2>1, <2>2
<1>3. ASSUME NEW i \in 1..k, NEW j \in 1..k, i < j
      PROVE  Rounded((i - 1) * m, q) < Rounded((j - 1) * m, q)
  <2> HIDE DEF q, m
  <2> DEFINE x == i - 1
             y == j - i
  <2>1. x \in Nat /\ y \in Nat /\ y >= 1 /\ j - 1 = x + y
    BY <1>3
  <2> HIDE DEF x, y
  <2>2. x * m \in Nat /\ y * m \in Nat /\ (x + y) * m = x * m + y * m
    BY <1>1, <2>1
  <2>3. y * m >= m
    BY <1>1, <2>1
  <2>4. y * m > q
    BY <1>1, <2>2, <2>3
  <2>5. Rounded(x * m, q) < Rounded(x * m + y * m, q)
    BY <1>1, <2>2, <2>4, RoundedSpreads
  <2> QED BY <2>1, <2>2, <2>5 DEF x
<1>4. \A i \in 1..k : Rounded((i - 1) * m, q) \in Nat
  <2> TAKE i \in 1..k
  <2>1. (i - 1) * m \in Nat
    BY <1>1
  <2> QED BY <1>1, <2>1, RoundedIsNear
<1>5. \A i, j \in 1..k : i < j => pickAt(i) < pickAt(j)
  <2> TAKE i, j \in 1..k
  <2> HAVE i < j
  <2>1. Rounded((i - 1) * m, q) < Rounded((j - 1) * m, q)
    BY <1>3
  <2>2. Rounded((i - 1) * m, q) \in Nat /\ Rounded((j - 1) * m, q) \in Nat
    BY <1>4
  <2> QED BY ONLY <2>1, <2>2
<1>6. \A i \in 1..k : pickAt(i) \in 1..L
  <2> TAKE i \in 1..k
  <2>1. k \in 1..k /\ (i = k \/ i < k)
    OBVIOUS
  <2>2. pickAt(i) \in Nat /\ pickAt(k) \in Nat /\ pickAt(i) >= 1
    <3>1. Rounded((i - 1) * m, q) \in Nat /\ Rounded((k - 1) * m, q) \in Nat
      BY <1>4
    <3> QED BY ONLY <3>1
  <2> HIDE DEF pickAt
  <2>3. pickAt(i) <= pickAt(k)
    BY <1>5, <2>1, <2>2
  <2> QED BY <1>2, <2>2, <2>3
<1> QED BY <1>2, <1>5, <1>6
LEMMA SampleIsWide ==
  ASSUME NEW T, NEW s \in Seq(T), \A i, j \in DOMAIN s : s[i] = s[j] => i = j,
         NEW k \in 2..MaxRetrieve, Len(s) > k
  PROVE  /\ Cardinality(ToSet(Sample(s, k))) = k
         /\ Sample(s, k)[1] = s[1] /\ Sample(s, k)[k] = Last(s)
<1> DEFINE L == Len(s)
           pickAt(i) == 1 + Rounded((i - 1) * (L - 1), k - 1)
           t == Sample(s, k)
<1>1. k \in Nat /\ k >= 2 /\ L \in Nat /\ L > k
  BY ResultStoreAssumption
<1>2. /\ \A i \in 1..k : pickAt(i) \in 1..L
      /\ \A i, j \in 1..k : i < j => pickAt(i) < pickAt(j)
      /\ pickAt(1) = 1 /\ pickAt(k) = L
  BY <1>1, SampleSpreads
<1>3. t = [i \in 1..k |-> s[pickAt(i)]]
  BY <1>1 DEF Sample
<1> HIDE DEF pickAt, t
<1>4. t[1] = s[1] /\ t[k] = s[L]
  BY <1>1, <1>2, <1>3
<1>5. \A i, j \in 1..k : t[i] = t[j] => i = j
  <2> TAKE i, j \in 1..k
  <2> HAVE t[i] = t[j]
  <2>1. pickAt(i) = pickAt(j)
    BY <1>2, <1>3
  <2>2. i \in Int /\ j \in Int /\ pickAt(i) \in Int
    BY <1>1, <1>2
  <2> QED BY <1>2, <2>1, <2>2
<1>6. Cardinality(ToSet(t)) = k
  <2>1. DOMAIN t = 1..k
    BY <1>3
  <2>2. t \in [1..k -> ToSet(t)] /\ \A x \in ToSet(t) : \E i \in 1..k : t[i] = x
    BY <1>3, <2>1 DEF ToSet
  <2>3. t \in Bijection(1..k, ToSet(t))
    BY <1>5, <2>2 DEF Bijection, Injection, Surjection, IsInjective
  <2>4. ExistsBijection(1..k, ToSet(t))
    BY <2>3 DEF ExistsBijection
  <2> QED BY <1>1, <2>4, FS_CountingElements
<1> QED BY <1>4, <1>6 DEF t, Last

\* The hint for the file of an item returns all of a file that is small enough.
LEMMA HintReaches ==
  ASSUME NEW id \in Ids, NEW summary, NEW i \in ToSet(id.list), InFile(id, FileOf[i]) <= MaxRetrieve
  PROVE  i \in ToSet(Response(id, summary, [mode |-> "filtered", limit |-> MaxRetrieve,
                                            file |-> FileOf[i]]).items)
<1> DEFINE q == [mode |-> "filtered", limit |-> MaxRetrieve, file |-> FileOf[i]]
           places == {n \in DOMAIN id.list : FileOf[id.list[n]] = FileOf[i]}
           all == AtPlaces(id.list, places)
<1>1. id.list \in Seq(DOMAIN FileOf)
  BY ResultStoreAssumption DEF Ids
<1>2. PICK p \in DOMAIN id.list : id.list[p] = i
  BY DEF ToSet
<1>3. FileOf[i] # "any"
  BY <1>1, <1>2, ResultStoreAssumption
<1>4. Records(id, summary, q) = all
  BY <1>3 DEF Records, Kept
<1>5. /\ places \in SUBSET DOMAIN id.list /\ p \in places
      /\ Cardinality(places) = InFile(id, FileOf[i])
  BY <1>2 DEF InFile
<1> HIDE DEF places, q
<1>6. /\ Cardinality(places) \in Nat /\ all \in Seq(DOMAIN FileOf) /\ Len(all) = Cardinality(places)
      /\ \E n \in 1..Cardinality(places) : all[n] = id.list[p]
  BY <1>1, <1>5, AtPlacesTyped
<1> HIDE DEF all
<1>7. First(all, MaxRetrieve) = all
  BY <1>5, <1>6, ResultStoreAssumption, FirstOf
<1>8. Bounded(q.limit) = MaxRetrieve
  BY ResultStoreAssumption, BoundedInRange DEF q
<1>9. Response(id, summary, q).items = all
  BY <1>4, <1>7, <1>8 DEF Response
<1>10. i \in ToSet(all)
  <2>1. PICK n \in 1..Cardinality(places) : all[n] = i
    BY <1>2, <1>6
  <2>2. n \in DOMAIN all
    BY <1>6, <2>1
  <2> QED BY <2>1, <2>2 DEF ToSet
<1> QED BY <1>9, <1>10 DEF q

\* What calls itself exact left nothing out.
LEMMA ExactIsWhole ==
  ASSUME NEW id \in Ids, NEW summary, NEW q \in Requests, Response(id, summary, q).mode = "exact"
  PROVE  Response(id, summary, q).items = id.list
<1> DEFINE records == Records(id, summary, q)
           visible == First(records, Bounded(q.limit))
<1>1. q.mode \in {"exact", "summary", "filtered", "sample"} /\ q.limit \in Int
  BY ResultStoreAssumption
<1>2. q.mode = "exact" /\ ~(Len(records) - Len(visible) > 0)
  BY <1>1 DEF Response
<1>3. id.list \in Seq(DOMAIN FileOf) /\ records = id.list
  BY <1>2, ResultStoreAssumption DEF Ids, Records
<1>4. Bounded(q.limit) \in Nat
  BY <1>1, BoundedInRange
<1>5. Len(visible) = Shorter(Bounded(q.limit), id.list)
  BY <1>3, <1>4, FirstOf
<1>6. Len(id.list) <= Bounded(q.limit)
  BY <1>2, <1>3, <1>4, <1>5 DEF Shorter
<1>7. visible = id.list
  BY <1>3, <1>4, <1>6, FirstOf
<1> QED BY <1>7 DEF Response

LEMMA ModesCover ==
  ASSUME DOMAIN rows \subseteq Ids
  PROVE  ModesCoverList
<1> SUFFICES ASSUME NEW id \in DOMAIN rows
    PROVE  /\ \A i \in ToSet(id.list) :
                id.tool # "plan" /\ InFile(id, FileOf[i]) <= MaxRetrieve => i \in Reached(id)
           /\ \A q \in Requests : LET r == Response(id, rows[id].summary, q) IN
                r.mode = "exact" => r.items = id.list
           /\ \A k \in 2..MaxRetrieve : LET s == Sample(id.list, k) IN
                Len(id.list) > k => /\ Cardinality(ToSet(s)) = k
                                    /\ s[1] = id.list[1] /\ s[k] = Last(id.list)
  BY DEF ModesCoverList
<1>1. ASSUME NEW i \in ToSet(id.list), id.tool # "plan", InFile(id, FileOf[i]) <= MaxRetrieve
      PROVE  i \in Reached(id)
  <2> DEFINE q == [mode |-> "filtered", limit |-> MaxRetrieve, file |-> FileOf[i]]
  <2>1. q \in Hints(id)
    BY <1>1 DEF Hints
  <2>2. i \in ToSet(Response(id, rows[id].summary, q).items)
    BY <1>1, HintReaches
  <2> HIDE DEF q
  <2> QED BY <2>1, <2>2 DEF Reached
<1>2. \A q \in Requests : LET r == Response(id, rows[id].summary, q) IN
        r.mode = "exact" => r.items = id.list
  BY ExactIsWhole
<1>3. ASSUME NEW k \in 2..MaxRetrieve, Len(id.list) > k
      PROVE  LET s == Sample(id.list, k) IN
               /\ Cardinality(ToSet(s)) = k /\ s[1] = id.list[1] /\ s[k] = Last(id.list)
  <2>1. id.list \in Lists
    BY DEF Ids
  <2>2. id.list \in Seq(DOMAIN FileOf) /\ \A i, j \in DOMAIN id.list : id.list[i] = id.list[j] => i = j
    BY <2>1, ResultStoreAssumption
  <2> QED BY <1>3, <2>2, SampleIsWide
<1> QED BY <1>1, <1>2, <1>3

\* A retrieval never calls a stored result missing or expired that is not, nor fails
\* unless the call was refused or disturbed; what its hints, its exact answers and
\* its samples promise of the list holds, for any lists and any limits.
THEOREM RetrievalHonest == StoreSpec => []RetrievalIsHonest
<1>1. StoreInv => RetrievalIsHonest
  BY ModesCover DEF StoreInv, Typed, RetrievalIsHonest
<1> QED BY <1>1, StoreStarts, StoreStays, PTL DEF StoreSpec

-----------------------------------------------------------------------------
(* The hook settings: any handlers in any groups, any number of installers.    *)

HookLists == Seq(Seq(Handler))


LEMMA PlacesTyped ==
  ASSUME NEW groups \in HookLists, NEW handlers, NEW p \in PlacesOf(groups, handlers)
  PROVE  /\ p = <<p[1], p[2]>> /\ p[1] \in DOMAIN groups /\ p[2] \in DOMAIN groups[p[1]]
         /\ p[1] \in Int /\ p[2] \in Int /\ groups[p[1]][p[2]] \in handlers
<1>0. PICK k \in DOMAIN groups : \E n \in DOMAIN groups[k] : p = <<k, n>> /\ groups[k][n] \in handlers
  BY DEF PlacesOf
<1>1. PICK n \in DOMAIN groups[k] : p = <<k, n>> /\ groups[k][n] \in handlers
  BY <1>0
<1>2. groups[k] \in Seq(Handler)
  BY DEF HookLists
<1> QED BY <1>1, <1>2 DEF HookLists

LEMMA PlacesAre ==
  ASSUME NEW groups, NEW handlers, NEW k \in DOMAIN groups, NEW n \in DOMAIN groups[k],
         groups[k][n] \in handlers
  PROVE  <<k, n>> \in PlacesOf(groups, handlers)
BY DEF PlacesOf

LEMMA PlacesFinite ==
  ASSUME NEW groups \in HookLists, NEW handlers
  PROVE  /\ IsFiniteSet(PlacesOf(groups, handlers))
         /\ StrictOrder(PlacesOf(groups, handlers), Pairs(PlacesOf(groups, handlers), InOrder))
<1> DEFINE f == [k \in DOMAIN groups |->
                   {<<k, n>> : n \in {m \in DOMAIN groups[k] : groups[k][m] \in handlers}}]
           S == {f[k] : k \in DOMAIN groups}
<1>1. PlacesOf(groups, handlers) = UNION S
  BY DEF PlacesOf
<1>2. IsFiniteSet(DOMAIN groups)
  <2>1. Len(groups) \in Nat /\ DOMAIN groups = 1..Len(groups)
    BY DEF HookLists
  <2> QED BY <2>1, FS_Interval
<1>3. IsFiniteSet(S)
  <2> HIDE DEF f
  <2> QED BY <1>2, ImageIsFinite
<1>4. ASSUME NEW k \in DOMAIN groups PROVE IsFiniteSet(f[k])
  <2> DEFINE D == {m \in DOMAIN groups[k] : groups[k][m] \in handlers}
             g == [n \in D |-> <<k, n>>]
  <2>1. groups[k] \in Seq(Handler)
    BY DEF HookLists
  <2>2. Len(groups[k]) \in Nat /\ DOMAIN groups[k] = 1..Len(groups[k])
    BY <2>1
  <2>3. IsFiniteSet(D)
    <3>1. IsFiniteSet(DOMAIN groups[k])
      BY <2>2, FS_Interval
    <3> QED BY <3>1, FS_Subset
  <2>4. f[k] = {g[n] : n \in D}
    OBVIOUS
  <2>5. IsFiniteSet({g[n] : n \in D})
    <3> HIDE DEF g, D
    <3> QED BY <2>3, ImageIsFinite
  <2> QED BY <2>4, <2>5
<1>5. IsFiniteSet(UNION S)
  <2>1. \A T \in S : IsFiniteSet(T)
    <3> HIDE DEF f
    <3> QED BY <1>4
  <2> HIDE DEF S
  <2> QED BY <1>3, <2>1, FS_UNION
<1>6. StrictOrder(PlacesOf(groups, handlers), Pairs(PlacesOf(groups, handlers), InOrder))
  <2> DEFINE P == PlacesOf(groups, handlers)
  <2>1. \A p \in P : p = <<p[1], p[2]>> /\ p[1] \in Int /\ p[2] \in Int
    BY PlacesTyped
  <2> HIDE DEF P
  <2>2. \A p \in P : ~InOrder(p, p)
    BY <2>1 DEF InOrder
  <2>3. \A p, q, r \in P : InOrder(p, q) /\ InOrder(q, r) => InOrder(p, r)
    BY <2>1 DEF InOrder
  <2>4. \A p, q \in P : p = q \/ InOrder(p, q) \/ InOrder(q, p)
    <3> TAKE p, q \in P
    <3>1. p[1] < q[1] \/ q[1] < p[1] \/ p[1] = q[1]
      BY <2>1
    <3>2. p[2] < q[2] \/ q[2] < p[2] \/ p[2] = q[2]
      BY <2>1
    <3>3. p = <<p[1], p[2]>> /\ q = <<q[1], q[2]>>
      BY <2>1
    <3> QED BY <3>1, <3>2, <3>3 DEF InOrder
  <2>5. \A p, q \in P : <<p, q>> \in Pairs(P, InOrder) <=> InOrder(p, q)
    BY DEF Pairs
  <2>6. StrictOrder(P, Pairs(P, InOrder))
    BY <2>2, <2>3, <2>4, <2>5 DEF StrictOrder
  <2> QED BY <2>6 DEF P
<1> QED BY <1>1, <1>5, <1>6

\* Two lists whose handlers of a kind correspond, place by place in order, hold the
\* same sequence of them.
LEMMA HandlersMatch ==
  ASSUME NEW a \in HookLists, NEW b \in HookLists, NEW handlers,
         NEW f \in Bijection(PlacesOf(a, handlers), PlacesOf(b, handlers)),
         \A p, q \in PlacesOf(a, handlers) : InOrder(p, q) => InOrder(f[p], f[q]),
         \A p \in PlacesOf(a, handlers) : a[p[1]][p[2]] = b[f[p][1]][f[p][2]]
  PROVE  HandlersIn(a, handlers) = HandlersIn(b, handlers)
<1> DEFINE S == PlacesOf(a, handlers)
           T == PlacesOf(b, handlers)
           R == Pairs(S, InOrder)
           Q == Pairs(T, InOrder)
<1>1. IsFiniteSet(S) /\ StrictOrder(S, R) /\ StrictOrder(T, Q)
  BY PlacesFinite
<1>2. f \in Bijection(S, T) /\ f \in [S -> T]
  BY DEF Bijection, Injection
<1>3. \A p, q \in S : <<p, q>> \in R => <<f[p], f[q]>> \in Q
  BY <1>2 DEF Pairs
<1>4. HandlersIn(a, handlers) = [i \in 1..Cardinality(S) |-> a[Ranked(S, R)[i][1]][Ranked(S, R)[i][2]]]
  BY DEF HandlersIn, Sorted
<1>5. HandlersIn(b, handlers) = [i \in 1..Cardinality(T) |-> b[Ranked(T, Q)[i][1]][Ranked(T, Q)[i][2]]]
  BY DEF HandlersIn, Sorted
<1>6. \A p \in S : a[p[1]][p[2]] = b[f[p][1]][f[p][2]]
  OBVIOUS
<1> HIDE DEF S, T, R, Q
<1>7. Cardinality(T) = Cardinality(S)
      /\ \A i \in 1..Cardinality(S) : Ranked(S, R)[i] \in S /\ Ranked(T, Q)[i] = f[Ranked(S, R)[i]]
  BY <1>1, <1>2, <1>3, SortedAlike
<1> QED BY <1>4, <1>5, <1>6, <1>7

LEMMA TrimShape ==
  ASSUME NEW g \in Seq(Handler)
  PROVE  /\ Trim(g) \in Seq(Foreign)
         /\ \E f \in Bijection(DOMAIN Trim(g), {n \in DOMAIN g : g[n] \in Foreign}) :
              /\ \A i, j \in DOMAIN Trim(g) : i < j => f[i] < f[j]
              /\ \A i \in DOMAIN Trim(g) : Trim(g)[i] = g[f[i]]
<1> DEFINE D == {n \in DOMAIN g : g[n] \in Foreign}
<1>1. {n \in DOMAIN g : IsForeign(g[n])} = D
  BY HookAssumption DEF IsForeign, Handler
<1>2. Trim(g) = AtPlaces(g, D)
  BY <1>1 DEF Trim, Kept
<1>3. D \in SUBSET DOMAIN g
  OBVIOUS
<1>4. Cardinality(D) \in Nat
  <2> HIDE DEF D
  <2> QED BY <1>3, AtPlacesTyped
<1>5. PICK f \in Bijection(1..Cardinality(D), D) :
        /\ \A i, j \in 1..Cardinality(D) : i < j => f[i] < f[j]
        /\ AtPlaces(g, D) = [i \in 1..Cardinality(D) |-> g[f[i]]]
  <2> HIDE DEF D
  <2> QED BY <1>3, AtPlacesIncreasing
<1>6. \A i \in 1..Cardinality(D) : f[i] \in D
  <2> HIDE DEF D
  <2> QED BY <1>5 DEF Bijection, Injection
<1>7. \A i \in 1..Cardinality(D) : g[f[i]] \in Foreign
  BY <1>6
<1>8. Trim(g) \in Seq(Foreign)
  <2> HIDE DEF D
  <2> QED BY <1>2, <1>4, <1>5, <1>7
<1>9. DOMAIN Trim(g) = 1..Cardinality(D) /\ \A i \in 1..Cardinality(D) : Trim(g)[i] = g[f[i]]
  <2> HIDE DEF D
  <2> QED BY <1>2, <1>5
<1> HIDE DEF D
<1> QED BY <1>5, <1>8, <1>9 DEF D

LEMMA StripShape ==
  ASSUME NEW groups \in HookLists
  PROVE  /\ StripGroups(groups) \in Seq(Seq(Foreign))
         /\ \E f \in Bijection(DOMAIN StripGroups(groups), {k \in DOMAIN groups : Keeps(groups[k])}) :
              /\ \A i, j \in DOMAIN StripGroups(groups) : i < j => f[i] < f[j]
              /\ \A i \in DOMAIN StripGroups(groups) : StripGroups(groups)[i] = Trim(groups[f[i]])
<1> DEFINE D == {k \in DOMAIN groups : Keeps(groups[k])}
           n == Cardinality(D)
<1>1. groups \in Seq(Seq(Handler)) /\ D \in SUBSET DOMAIN groups
  BY DEF HookLists
<1>2. n \in Nat
  <2> HIDE DEF D
  <2> QED BY <1>1, AtPlacesTyped
<1>3. PICK f \in Bijection(1..n, D) :
        /\ \A i, j \in 1..n : i < j => f[i] < f[j]
        /\ AtPlaces(groups, D) = [i \in 1..n |-> groups[f[i]]]
  <2> HIDE DEF D
  <2> QED BY <1>1, AtPlacesIncreasing
<1>4. StripGroups(groups) = [i \in 1..n |-> Trim(groups[f[i]])]
  <2>1. Kept(groups, Keeps) = AtPlaces(groups, D)
    BY DEF Kept
  <2> HIDE DEF D, n
  <2> QED BY <2>1, <1>3 DEF StripGroups
<1>5. \A i \in 1..n : f[i] \in D
  <2> HIDE DEF D, n
  <2> QED BY <1>3 DEF Bijection, Injection
<1>6. \A i \in 1..n : Trim(groups[f[i]]) \in Seq(Foreign)
  <2> TAKE i \in 1..n
  <2>1. groups[f[i]] \in Seq(Handler)
    BY <1>1, <1>5
  <2> QED BY <2>1, TrimShape
<1>7. StripGroups(groups) \in Seq(Seq(Foreign)) /\ DOMAIN StripGroups(groups) = 1..n
  <2> HIDE DEF D, n
  <2> QED BY <1>2, <1>4, <1>6
<1>8. \A i \in DOMAIN StripGroups(groups) : StripGroups(groups)[i] = Trim(groups[f[i]])
  <2> HIDE DEF D, n
  <2> QED BY <1>4, <1>7
<1>9. /\ f \in Bijection(DOMAIN StripGroups(groups), D)
      /\ \A i, j \in DOMAIN StripGroups(groups) : i < j => f[i] < f[j]
  <2> HIDE DEF D, n
  <2> QED BY <1>3, <1>7
<1> QED BY <1>7, <1>8, <1>9, Zenon

\* _strip_event_groups keeps the other handlers and the empty groups and nothing else.
LEMMA StripKeeps ==
  ASSUME NEW groups \in HookLists
  PROVE  /\ StripGroups(groups) \in Seq(Seq(Foreign)) /\ StripGroups(groups) \in HookLists
         /\ HandlersIn(StripGroups(groups), Foreign) = HandlersIn(groups, Foreign)
         /\ Empties(StripGroups(groups)) = Empties(groups)
<1> DEFINE new == StripGroups(groups)
           Inner(k) == {n \in DOMAIN groups[k] : groups[k][n] \in Foreign}
           Fits(g, f) == /\ \A i, j \in DOMAIN Trim(g) : i < j => f[i] < f[j]
                         /\ \A i \in DOMAIN Trim(g) : Trim(g)[i] = g[f[i]]
<1>1. new \in Seq(Seq(Foreign))
  BY StripShape
<1>2. new \in HookLists
  <2>1. \A k \in DOMAIN new : new[k] \in Seq(Handler)
    <3> HIDE DEF new
    <3> QED BY <1>1 DEF Handler
  <2> HIDE DEF new
  <2> QED BY <1>1, <2>1 DEF HookLists
<1>3. PICK outer \in Bijection(DOMAIN new, {k \in DOMAIN groups : Keeps(groups[k])}) :
        /\ \A i, j \in DOMAIN new : i < j => outer[i] < outer[j]
        /\ \A i \in DOMAIN new : new[i] = Trim(groups[outer[i]])
  BY StripShape
<1> HIDE DEF new
<1>4. /\ \A i \in DOMAIN new : outer[i] \in DOMAIN groups /\ Keeps(groups[outer[i]])
      /\ \A i, j \in DOMAIN new : outer[i] = outer[j] => i = j
      /\ \A k \in DOMAIN groups : Keeps(groups[k]) => \E i \in DOMAIN new : outer[i] = k
  BY <1>3 DEF Bijection, Injection, Surjection, IsInjective
<1>5. \A k \in DOMAIN groups : groups[k] \in Seq(Handler)
  BY DEF HookLists
<1>6. \A k \in DOMAIN groups : Trim(groups[k]) \in Seq(Foreign)
         /\ \E f \in Bijection(DOMAIN Trim(groups[k]), Inner(k)) : Fits(groups[k], f)
  BY <1>5, TrimShape
<1> DEFINE inner == [k \in DOMAIN groups |->
                       CHOOSE f \in Bijection(DOMAIN Trim(groups[k]), Inner(k)) : Fits(groups[k], f)]
<1>7. \A k \in DOMAIN groups : inner[k] \in Bijection(DOMAIN Trim(groups[k]), Inner(k))
                               /\ Fits(groups[k], inner[k])
  <2> HIDE DEF Fits, Inner
  <2> QED BY <1>6
<1> HIDE DEF inner
<1>8. \A k \in DOMAIN groups :
         /\ \A i \in DOMAIN Trim(groups[k]) : inner[k][i] \in Inner(k)
         /\ \A i, j \in DOMAIN Trim(groups[k]) : inner[k][i] = inner[k][j] => i = j
         /\ \A n \in Inner(k) : \E i \in DOMAIN Trim(groups[k]) : inner[k][i] = n
  <2> HIDE DEF Inner
  <2> QED BY <1>7 DEF Bijection, Injection, Surjection, IsInjective
<1>9. \A k \in DOMAIN groups :
         /\ \A i, j \in DOMAIN Trim(groups[k]) : i < j => inner[k][i] < inner[k][j]
         /\ \A i \in DOMAIN Trim(groups[k]) : Trim(groups[k])[i] = groups[k][inner[k][i]]
  BY <1>7
<1> DEFINE S == PlacesOf(new, Foreign)
           T == PlacesOf(groups, Foreign)
           f == [p \in S |-> <<outer[p[1]], inner[outer[p[1]]][p[2]]>>]
<1>10. \A p \in S : /\ p = <<p[1], p[2]>> /\ p[1] \in DOMAIN new /\ p[2] \in DOMAIN new[p[1]]
                    /\ p[1] \in Int /\ p[2] \in Int /\ new[p[1]][p[2]] \in Foreign
  BY <1>2, PlacesTyped
<1>11. \A p \in T : /\ p = <<p[1], p[2]>> /\ p[1] \in DOMAIN groups /\ p[2] \in DOMAIN groups[p[1]]
                    /\ groups[p[1]][p[2]] \in Foreign
  BY PlacesTyped
<1>12. \A k \in DOMAIN groups : \A n \in DOMAIN groups[k] : groups[k][n] \in Foreign => <<k, n>> \in T
  BY PlacesAre
<1>13. \A k \in DOMAIN new : \A n \in DOMAIN new[k] : <<k, n>> \in S
  <2>1. \A k \in DOMAIN new : \A n \in DOMAIN new[k] : new[k][n] \in Foreign
    BY <1>1
  <2> QED BY <2>1, PlacesAre
<1> HIDE DEF S, T
<1>14. \A p \in S : /\ outer[p[1]] \in DOMAIN groups /\ new[p[1]] = Trim(groups[outer[p[1]]])
                    /\ p[2] \in DOMAIN Trim(groups[outer[p[1]]])
  BY <1>3, <1>4, <1>10
<1>15. \A p \in S : f[p] \in T
  <2> TAKE p \in S
  <2>1. inner[outer[p[1]]][p[2]] \in Inner(outer[p[1]])
    BY <1>8, <1>14
  <2> QED BY <1>12, <1>14, <2>1
<1>16. \A p, q \in S : f[p] = f[q] => p = q
  <2> TAKE p, q \in S
  <2> HAVE f[p] = f[q]
  <2>1. outer[p[1]] = outer[q[1]] /\ inner[outer[p[1]]][p[2]] = inner[outer[q[1]]][q[2]]
    OBVIOUS
  <2>2. p[1] = q[1]
    BY <1>4, <1>10, <2>1
  <2>3. p[2] = q[2]
    BY <1>8, <1>14, <2>1, <2>2
  <2> QED BY <1>10, <2>2, <2>3
<1>17. ASSUME NEW t \in T PROVE \E p \in S : f[p] = t
  <2>1. t = <<t[1], t[2]>> /\ t[1] \in DOMAIN groups /\ t[2] \in Inner(t[1])
    BY <1>11
  <2>2. PICK n \in DOMAIN Trim(groups[t[1]]) : inner[t[1]][n] = t[2]
    BY <1>8, <2>1
  <2>3. Trim(groups[t[1]]) # <<>>
    BY <2>2
  <2>4. PICK k \in DOMAIN new : outer[k] = t[1]
    BY <1>4, <2>1, <2>3 DEF Keeps
  <2>5. <<k, n>> \in S
    BY <1>3, <1>13, <2>2, <2>4
  <2>6. f[<<k, n>>] = t
    BY <2>1, <2>2, <2>4, <2>5
  <2> QED BY <2>5, <2>6
<1>18. f \in Bijection(S, T)
  <2>1. f \in [S -> T]
    BY <1>15
  <2> HIDE DEF f
  <2> QED BY <1>16, <1>17, <2>1 DEF Bijection, Injection, Surjection, IsInjective
<1>19. \A p, q \in S : InOrder(p, q) => InOrder(f[p], f[q])
  <2> TAKE p, q \in S
  <2> HAVE InOrder(p, q)
  <2>1. f[p][1] = outer[p[1]] /\ f[q][1] = outer[q[1]]
        /\ f[p][2] = inner[outer[p[1]]][p[2]] /\ f[q][2] = inner[outer[q[1]]][q[2]]
    OBVIOUS
  <2>2. CASE p[1] < q[1]
    BY <1>3, <1>10, <2>1, <2>2 DEF InOrder
  <2>3. CASE p[1] = q[1] /\ p[2] < q[2]
    <3>1. inner[outer[p[1]]][p[2]] < inner[outer[p[1]]][q[2]]
      BY <1>9, <1>14, <2>3
    <3> QED BY <2>1, <2>3, <3>1 DEF InOrder
  <2> QED BY <2>2, <2>3 DEF InOrder
<1>20. \A p \in S : new[p[1]][p[2]] = groups[f[p][1]][f[p][2]]
  BY <1>9, <1>14
<1>21. HandlersIn(new, Foreign) = HandlersIn(groups, Foreign)
  <2> HIDE DEF f
  <2> QED BY <1>2, <1>18, <1>19, <1>20, HandlersMatch DEF S, T
<1>22. Empties(new) = Empties(groups)
  <2> DEFINE A == {k \in DOMAIN new : new[k] = <<>>}
             B == {k \in DOMAIN groups : groups[k] = <<>>}
             h == [k \in A |-> outer[k]]
  <2>1. Trim(<<>>) = <<>>
    <3>1. <<>> \in Seq(Handler) /\ DOMAIN <<>> = {} 
      OBVIOUS
    <3>2. PICK g \in Bijection(DOMAIN Trim(<<>>), {}) : TRUE
      BY <3>1, TrimShape
    <3>3. \A i \in DOMAIN Trim(<<>>) : g[i] \in {}
      BY <3>2 DEF Bijection, Injection
    <3>4. Trim(<<>>) \in Seq(Foreign)
      BY <3>1, TrimShape
    <3> DEFINE t == Trim(<<>>)
    <3>5. t \in Seq(Foreign) /\ DOMAIN t = {}
      BY <3>3, <3>4
    <3>6. t = <<>>
      <4> HIDE DEF t
      <4>1. Len(t) \in Nat /\ DOMAIN t = 1..Len(t)
        BY <3>5
      <4>2. Len(t) = 0
        BY <3>5, <4>1
      <4> QED BY <3>5, <4>2
    <3> QED BY <3>6
  <2>2. \A k \in DOMAIN new : new[k] = <<>> <=> groups[outer[k]] = <<>>
    BY <1>3, <1>4, <2>1 DEF Keeps
  <2>3. h \in [A -> B] /\ \A k, m \in A : h[k] = h[m] => k = m
    BY <1>4, <2>2
  <2>4. ASSUME NEW m \in B PROVE \E k \in A : h[k] = m
    <3>1. PICK k \in DOMAIN new : outer[k] = m
      BY <1>4 DEF Keeps
    <3> QED BY <2>2, <3>1
  <2>5. h \in Bijection(A, B)
    <3> HIDE DEF h, A, B
    <3> QED BY <2>3, <2>4 DEF Bijection, Injection, Surjection, IsInjective
  <2>6. IsFiniteSet(A)
    <3>1. Len(new) \in Nat /\ DOMAIN new = 1..Len(new)
      BY <1>2 DEF HookLists
    <3>2. IsFiniteSet(DOMAIN new)
      BY <3>1, FS_Interval
    <3> QED BY <3>2, FS_Subset
  <2>7. Cardinality(B) = Cardinality(A)
    <3> HIDE DEF h, A, B
    <3> QED BY <2>5, <2>6, SameSize
  <2> QED BY <2>7 DEF Empties
<1> QED BY <1>1, <1>2, <1>21, <1>22 DEF new

\* Appending groups with codescent's handlers only: the others are as they were, and
\* codescent's are those of the appended groups if there were none before.
LEMMA Appended ==
  ASSUME NEW a \in HookLists, NEW r \in Seq(Seq({Ours})), \A k \in DOMAIN r : r[k] # <<>>
  PROVE  /\ a \o r \in HookLists
         /\ HandlersIn(a \o r, Foreign) = HandlersIn(a, Foreign)
         /\ Empties(a \o r) = Empties(a)
         /\ a \in Seq(Seq(Foreign)) => HandlersIn(a \o r, {Ours}) = HandlersIn(r, {Ours})
<1> DEFINE b == a \o r
<1>1. /\ Len(a) \in Nat /\ Len(r) \in Nat /\ DOMAIN a = 1..Len(a) /\ DOMAIN r = 1..Len(r)
      /\ a \in Seq(Seq(Handler))
  BY DEF HookLists
<1>2. r \in Seq(Seq(Handler)) /\ \A k \in DOMAIN r : \A n \in DOMAIN r[k] : r[k][n] = Ours
  <2>1. \A k \in DOMAIN r : r[k] \in Seq(Handler) /\ \A n \in DOMAIN r[k] : r[k][n] = Ours
    <3> TAKE k \in DOMAIN r
    <3>1. r[k] \in Seq({Ours})
      OBVIOUS
    <3> QED BY <3>1 DEF Handler
  <2>2. r \in [1..Len(r) -> Seq(Handler)]
    BY <1>1, <2>1
  <2>3. r \in Seq(Seq(Handler))
    <3>1. Len(r) \in Nat
      BY <1>1
    <3> QED BY <2>2, <3>1, IsASequence, Zenon
  <2> QED BY <2>1, <2>3
<1>3. b \in Seq(Seq(Handler)) /\ DOMAIN b = 1..(Len(a) + Len(r))
      /\ (\A k \in 1..Len(a) : b[k] = a[k]) /\ \A k \in 1..Len(r) : b[Len(a) + k] = r[k]
  BY <1>1, <1>2
<1> HIDE DEF b
<1>4. \A k \in DOMAIN b : k \in 1..Len(a) \/ \E m \in 1..Len(r) : k = Len(a) + m
  <2> TAKE k \in DOMAIN b
  <2>1. k \in Int /\ (k <= Len(a) \/ k - Len(a) \in 1..Len(r))
    BY <1>1, <1>3
  <2>2. k = Len(a) + (k - Len(a))
    BY <1>1, <2>1
  <2> QED BY <1>3, <2>1, <2>2
<1>5. b \in HookLists /\ r \in HookLists /\ a \in HookLists
  BY <1>2, <1>3 DEF HookLists
<1>6. HandlersIn(b, Foreign) = HandlersIn(a, Foreign)
  <2>1. \A p \in PlacesOf(b, Foreign) : p \in PlacesOf(a, Foreign)
    <3> TAKE p \in PlacesOf(b, Foreign)
    <3>1. /\ p = <<p[1], p[2]>> /\ p[1] \in DOMAIN b /\ p[2] \in DOMAIN b[p[1]]
          /\ b[p[1]][p[2]] \in Foreign
      BY <1>5, PlacesTyped
    <3>2. p[1] \in 1..Len(a)
      BY <1>1, <1>2, <1>3, <1>4, <3>1, HookAssumption
    <3>3. <<p[1], p[2]>> \in PlacesOf(a, Foreign)
      BY <1>1, <1>3, <3>1, <3>2, PlacesAre
    <3> QED BY <3>1, <3>3
  <2>2. \A p \in PlacesOf(a, Foreign) :
          p \in PlacesOf(b, Foreign) /\ a[p[1]][p[2]] = b[p[1]][p[2]]
    <3> TAKE p \in PlacesOf(a, Foreign)
    <3>1. /\ p = <<p[1], p[2]>> /\ p[1] \in DOMAIN a /\ p[2] \in DOMAIN a[p[1]]
          /\ a[p[1]][p[2]] \in Foreign
      BY <1>5, PlacesTyped
    <3>2. p[1] \in DOMAIN b /\ b[p[1]] = a[p[1]]
      BY <1>1, <1>3, <3>1
    <3>3. <<p[1], p[2]>> \in PlacesOf(b, Foreign)
      BY <3>1, <3>2, PlacesAre
    <3> QED BY <3>1, <3>2, <3>3
  <2> DEFINE S == PlacesOf(a, Foreign)
             f == [p \in S |-> p]
  <2>3. S = PlacesOf(b, Foreign)
    BY <2>1, <2>2
  <2>4. f \in Bijection(S, S)
    BY DEF Bijection, Injection, Surjection, IsInjective
  <2>5. \A p \in S : a[p[1]][p[2]] = b[f[p][1]][f[p][2]]
    BY <2>2
  <2>6. \A p, q \in S : InOrder(p, q) => InOrder(f[p], f[q])
    OBVIOUS
  <2>7. f \in Bijection(S, PlacesOf(b, Foreign))
    <3> HIDE DEF f, S
    <3> QED BY <2>3, <2>4
  <2> HIDE DEF f
  <2> QED BY <1>5, <2>5, <2>6, <2>7, HandlersMatch
<1>7. Empties(b) = Empties(a)
  <2>1. \A k \in 1..Len(r) : b[Len(a) + k] # <<>>
    BY <1>1, <1>3
  <2>2. \A k \in DOMAIN b : b[k] = <<>> => k \in DOMAIN a
    BY <1>1, <1>4, <2>1
  <2>3. {k \in DOMAIN b : b[k] = <<>>} = {k \in DOMAIN a : a[k] = <<>>}
    BY <1>1, <1>3, <2>2
  <2> QED BY <2>3 DEF Empties
<1>8. ASSUME a \in Seq(Seq(Foreign)) PROVE HandlersIn(b, {Ours}) = HandlersIn(r, {Ours})
  <2> DEFINE S == PlacesOf(r, {Ours})
             T == PlacesOf(b, {Ours})
             f == [p \in S |-> <<Len(a) + p[1], p[2]>>]
  <2>1. \A p \in S : /\ p = <<p[1], p[2]>> /\ p[1] \in DOMAIN r /\ p[2] \in DOMAIN r[p[1]]
                     /\ p[1] \in Int /\ p[2] \in Int /\ r[p[1]][p[2]] \in {Ours}
    BY <1>5, PlacesTyped
  <2>2. \A p \in T : /\ p = <<p[1], p[2]>> /\ p[1] \in DOMAIN b /\ p[2] \in DOMAIN b[p[1]]
                     /\ b[p[1]][p[2]] \in {Ours}
    BY <1>5, PlacesTyped
  <2>3. \A k \in DOMAIN b : \A n \in DOMAIN b[k] : b[k][n] \in {Ours} => <<k, n>> \in T
    BY PlacesAre
  <2>4. \A k \in DOMAIN r : \A n \in DOMAIN r[k] : r[k][n] \in {Ours} => <<k, n>> \in S
    BY PlacesAre
  <2> HIDE DEF S, T
  <2>5. \A p \in S : Len(a) + p[1] \in DOMAIN b /\ b[Len(a) + p[1]] = r[p[1]]
    <3> TAKE p \in S
    <3>1. p[1] \in 1..Len(r)
      BY <1>1, <2>1
    <3>2. Len(a) + p[1] \in 1..(Len(a) + Len(r))
      BY <1>1, <3>1
    <3> QED BY <1>3, <3>1, <3>2
  <2>6. \A p \in S : f[p] \in T
    BY <2>1, <2>3, <2>5
  <2>7. \A p, q \in S : f[p] = f[q] => p = q
    <3> TAKE p, q \in S
    <3> HAVE f[p] = f[q]
    <3>1. Len(a) + p[1] = Len(a) + q[1] /\ p[2] = q[2]
      OBVIOUS
    <3>2. p[1] = q[1]
      BY <1>1, <2>1, <3>1
    <3> QED BY <2>1, <3>1, <3>2
  <2>8. ASSUME NEW t \in T PROVE \E p \in S : f[p] = t
    <3>1. t = <<t[1], t[2]>> /\ t[1] \in DOMAIN b /\ t[2] \in DOMAIN b[t[1]] /\ b[t[1]][t[2]] \in {Ours}
      BY <2>2
    <3>2. t[1] \notin 1..Len(a)
      <4> SUFFICES ASSUME t[1] \in 1..Len(a) PROVE FALSE
        OBVIOUS
      <4>1. a[t[1]] \in Seq(Foreign) /\ b[t[1]] = a[t[1]]
        BY <1>1, <1>3, <1>8
      <4> QED BY <3>1, <4>1, HookAssumption
    <3>3. PICK m \in 1..Len(r) : t[1] = Len(a) + m
      BY <1>4, <3>1, <3>2
    <3>4. <<m, t[2]>> \in S
      BY <1>1, <1>3, <2>4, <3>1, <3>3
    <3>5. f[<<m, t[2]>>] = t
      BY <3>1, <3>3, <3>4
    <3> QED BY <3>4, <3>5
  <2>9. f \in Bijection(S, T)
    <3>1. f \in [S -> T]
      BY <2>6
    <3> HIDE DEF f
    <3> QED BY <2>7, <2>8, <3>1 DEF Bijection, Injection, Surjection, IsInjective
  <2>10. \A p, q \in S : InOrder(p, q) => InOrder(f[p], f[q])
    BY <1>1, <2>1 DEF InOrder
  <2>11. \A p \in S : r[p[1]][p[2]] = b[f[p][1]][f[p][2]]
    BY <2>5
  <2> HIDE DEF f
  <2> QED BY <1>5, <2>9, <2>10, <2>11, HandlersMatch DEF S, T
<1> QED BY <1>5, <1>6, <1>7, <1>8 DEF b

HookSettings == [Event -> EventValue] \cup {NoHooks}

LEMMA RegisteredShape ==
  ASSUME NEW e
  PROVE  /\ Registered(e) \in Seq(Seq({Ours})) /\ Registered(e) # <<>>
         /\ \A k \in DOMAIN Registered(e) : Registered(e)[k] # <<>>
<1> DEFINE one == <<Ours>>
           two == <<Ours, Ours>>
<1>1. one \in Seq({Ours}) /\ two \in Seq({Ours}) /\ one # <<>> /\ two # <<>>
  OBVIOUS
<1>2. Registered(e) = <<one, two>> \/ Registered(e) = <<one>>
  BY DEF Registered
<1> HIDE DEF one, two
<1>3. ASSUME NEW r, r = <<one, two>> \/ r = <<one>>
      PROVE  /\ r \in Seq(Seq({Ours})) /\ r # <<>>
             /\ \A k \in DOMAIN r : r[k] # <<>>
  <2>1. CASE r = <<one, two>>
    <3>1. r \in Seq(Seq({Ours})) /\ r # <<>>
      BY <1>1, <2>1
    <3>2. DOMAIN r = 1..2 /\ r[1] = one /\ r[2] = two
      BY <2>1
    <3> QED BY <1>1, <3>1, <3>2
  <2>2. CASE r = <<one>>
    BY <1>1, <2>2
  <2> QED BY <1>3, <2>1, <2>2
<1> QED BY <1>2, <1>3

LEMMA StripNothing == StripGroups(<<>>) = <<>>
<1>1. <<>> \in HookLists /\ DOMAIN <<>> = {}
  BY DEF HookLists
<1>2. PICK f \in Bijection(DOMAIN StripGroups(<<>>), {k \in DOMAIN <<>> : Keeps(<<>>[k])}) : TRUE
  BY <1>1, StripShape
<1> DEFINE t == StripGroups(<<>>)
<1>3. t \in Seq(Seq(Foreign)) /\ DOMAIN t = {}
  BY <1>1, <1>2, StripShape DEF Bijection, Injection
<1>4. t = <<>>
  <2> HIDE DEF t
  <2>1. Len(t) \in Nat /\ DOMAIN t = 1..Len(t)
    BY <1>3
  <2>2. Len(t) = 0
    BY <1>3, <2>1
  <2> QED BY <1>3, <2>2
<1> QED BY <1>4

LEMMA GroupsTyped ==
  ASSUME NEW s \in HookSettings, NEW e \in Event
  PROVE  /\ EntryOf(s, e) \in EventValue /\ GroupsOf(s, e) \in HookLists
         /\ s # NoHooks => s \in [Event -> EventValue] /\ EntryOf(s, e) = s[e]
<1>1. <<>> \in HookLists
  BY DEF HookLists
<1> QED BY <1>1 DEF HookSettings, EventValue, EntryOf, GroupsOf, IsList, HookLists

\* remove_codescent_hooks, event by event.
LEMMA RemovedIs ==
  ASSUME NEW s \in HookSettings
  PROVE  /\ Removed(s) \in HookSettings
         /\ \A e \in Event :
              /\ GroupsOf(Removed(s), e) = StripGroups(GroupsOf(s, e))
              /\ EntryOf(s, e) = NotList => EntryOf(Removed(s), e) = NotList
<1>1. CASE s = NoHooks
  BY <1>1, HookAssumption, StripNothing
     DEF Removed, HookSettings, EntryOf, GroupsOf, IsList, EventValue
<1>2. CASE s # NoHooks
  <2> DEFINE Bare(e) == IF IsList(s[e])
                        THEN IF StripGroups(s[e]) = <<>> THEN Missing ELSE StripGroups(s[e])
                        ELSE s[e]
             new == [e \in Event |-> Bare(e)]
  <2>1. Removed(s) = IF new = NoEvents THEN NoHooks ELSE new
    BY <1>2 DEF Removed
  <2>2. s \in [Event -> EventValue]
    BY <1>2, GroupsTyped DEF HookSettings
  <2>3. \A e \in Event : IsList(s[e]) => s[e] \in HookLists
    BY <2>2 DEF EventValue, IsList, HookLists
  <2>4. \A e \in Event : IsList(s[e]) => StripGroups(s[e]) \in HookLists
    BY <2>3, StripKeeps
  <2>5. \A e \in Event : new[e] \in EventValue
    BY <2>2, <2>4 DEF EventValue, HookLists
  <2>6. new \in [Event -> EventValue]
    BY <2>5
  <2>7. Removed(s) \in HookSettings
    BY <2>1, <2>6 DEF HookSettings
  <2>8. \A e \in Event : EntryOf(Removed(s), e) = Bare(e)
    <3> TAKE e \in Event
    <3>1. new[e] = Bare(e)
      OBVIOUS
    <3> HIDE DEF new, Bare
    <3>2. CASE new = NoEvents
      BY <2>1, <3>1, <3>2 DEF EntryOf, NoEvents
    <3>3. CASE new # NoEvents
      <4>1. new # NoHooks
        BY <2>6, HookAssumption
      <4> QED BY <2>1, <3>1, <3>3, <4>1 DEF EntryOf
    <3> QED BY <3>2, <3>3
  <2>9. ASSUME NEW e \in Event
        PROVE  /\ GroupsOf(Removed(s), e) = StripGroups(GroupsOf(s, e))
               /\ EntryOf(s, e) = NotList => EntryOf(Removed(s), e) = NotList
    <3>1. EntryOf(s, e) = s[e] /\ EntryOf(Removed(s), e) = Bare(e)
      BY <1>2, <2>8 DEF EntryOf
    <3>2. CASE IsList(s[e])
      <4>1. StripGroups(s[e]) # <<>> => IsList(StripGroups(s[e]))
        BY <2>4, <3>2, HookAssumption DEF IsList, HookLists
      <4>2. ~IsList(Missing)
        BY DEF IsList
      <4>3. GroupsOf(Removed(s), e) = StripGroups(s[e])
        BY <3>1, <3>2, <4>1, <4>2 DEF GroupsOf
      <4> QED BY <3>1, <3>2, <4>3 DEF GroupsOf, IsList
    <3>3. CASE ~IsList(s[e])
      BY <3>1, <3>3, StripNothing DEF GroupsOf
    <3> QED BY <3>2, <3>3
  <2> QED BY <2>7, <2>9
<1> QED BY <1>1, <1>2

\* merge_codescent_hooks: what is removed, then codescent's groups.
LEMMA MergedIs ==
  ASSUME NEW s \in HookSettings
  PROVE  /\ Merged(s) \in HookSettings
         /\ \A e \in Event :
              /\ GroupsOf(Merged(s), e) = StripGroups(GroupsOf(s, e))
                                          \o (IF e \in HookEvent THEN Registered(e) ELSE <<>>)
              /\ e \notin HookEvent /\ EntryOf(s, e) = NotList => EntryOf(Merged(s), e) = NotList
<1> DEFINE gone == Removed(s)
           bare == IF gone = NoHooks THEN NoEvents ELSE gone
           Full(e) == IF e \in HookEvent
                      THEN (IF IsList(bare[e]) THEN bare[e] ELSE <<>>) \o Registered(e)
                      ELSE bare[e]
<1>1. Merged(s) = [e \in Event |-> Full(e)]
  BY DEF Merged
<1>2. gone \in HookSettings
  BY RemovedIs
<1>3. \A e \in Event : bare[e] = EntryOf(gone, e)
  BY DEF EntryOf, NoEvents
<1>4. \A e \in Event : EntryOf(gone, e) \in EventValue /\ GroupsOf(gone, e) \in HookLists
  <2> HIDE DEF gone
  <2> QED BY <1>2, GroupsTyped
<1>5. \A e \in Event : Full(e) = IF e \in HookEvent THEN GroupsOf(gone, e) \o Registered(e)
                                 ELSE EntryOf(gone, e)
  BY <1>3 DEF GroupsOf
<1>6. \A e \in Event : GroupsOf(gone, e) \o Registered(e) \in HookLists
  <2> HIDE DEF gone
  <2> QED BY <1>4, Appended, RegisteredShape
<1> HIDE DEF Full, bare
<1>7. Merged(s) \in [Event -> EventValue]
  <2>1. \A e \in Event : Full(e) \in EventValue
    BY <1>4, <1>5, <1>6 DEF EventValue, HookLists
  <2> QED BY <1>1, <2>1
<1>8. Merged(s) # NoHooks
  BY <1>7, HookAssumption
<1>9. \A e \in Event : EntryOf(Merged(s), e) = Full(e)
  BY <1>1, <1>8 DEF EntryOf
<1>10. ASSUME NEW e \in Event
       PROVE  /\ GroupsOf(Merged(s), e) = StripGroups(GroupsOf(s, e))
                                          \o (IF e \in HookEvent THEN Registered(e) ELSE <<>>)
              /\ e \notin HookEvent /\ EntryOf(s, e) = NotList => EntryOf(Merged(s), e) = NotList
  <2>1. GroupsOf(gone, e) = StripGroups(GroupsOf(s, e))
        /\ (EntryOf(s, e) = NotList => EntryOf(gone, e) = NotList)
    BY RemovedIs
  <2>2. CASE e \in HookEvent
    <3>1. IsList(Full(e))
      BY <1>5, <1>6, <2>2, HookAssumption DEF IsList, HookLists
    <3> QED BY <1>5, <1>9, <2>1, <2>2, <3>1 DEF GroupsOf
  <2>3. CASE e \notin HookEvent
    <3>1. GroupsOf(Merged(s), e) = GroupsOf(gone, e)
      BY <1>5, <1>9, <2>3 DEF GroupsOf
    <3>2. GroupsOf(gone, e) \o <<>> = GroupsOf(gone, e)
      <4> HIDE DEF gone
      <4> QED BY <1>4 DEF HookLists
    <3> QED BY <1>5, <1>9, <2>1, <2>3, <3>1, <3>2
  <2> QED BY <2>2, <2>3
<1> QED BY <1>7, <1>10 DEF HookSettings

\* A copy that is the file's is what its installer read, and what an installer has in
\* the temporary file is what it made of its copy.
Made(i) == IF place[i] = "install" THEN Merged(copy[i]) ELSE Removed(copy[i])
HookInv ==
  /\ settings \in HookSettings /\ copy \in [Installers -> HookSettings]
  /\ place \in [Installers -> {"idle", "loaded", "install", "remove"}]
  /\ spare # NoHooks => spare.text \in HookSettings
  /\ \A i \in current \cap Installers : place[i] # "idle" => copy[i] = settings
  /\ \A i \in Installers : spare # NoHooks /\ spare.by = i /\ place[i] \in {"install", "remove"} =>
                             spare.text = Made(i)

LEMMA GroupsAreLists == Groups \subseteq HookLists
<1>1. \A g \in Group : g \in Seq(Handler)
  <2> TAKE g \in Group
  <2>1. CASE g = <<>>
    BY <2>1
  <2>2. ASSUME NEW h \in Handler, g = <<h>> PROVE g \in Seq(Handler)
    BY <2>2
  <2>3. ASSUME NEW h \in Handler, NEW o \in Handler, g = <<o, h>> PROVE g \in Seq(Handler)
    BY <2>3
  <2>4. Ours \in Handler /\ Foreign \subseteq Handler
    BY DEF Handler
  <2> QED BY <2>1, <2>2, <2>3, <2>4 DEF Group
<1>2. \A h \in Foreign : <<h>> \in Seq(Handler)
  BY DEF Handler
<1>3. ASSUME NEW list \in Groups PROVE list \in Seq(Seq(Handler))
  <2>1. CASE list = <<>>
    BY <2>1
  <2>2. ASSUME NEW g \in Group, list = <<g>> PROVE list \in Seq(Seq(Handler))
    BY <1>1, <2>2
  <2>3. ASSUME NEW g \in Group, NEW h \in Foreign, list = <<g, <<h>>>> PROVE list \in Seq(Seq(Handler))
    BY <1>1, <1>2, <2>3
  <2> QED BY <2>1, <2>2, <2>3 DEF Groups
<1> QED BY <1>3 DEF HookLists

LEMMA HookStep ==
  ASSUME HookInv, [HookNext]_hookVars
  PROVE  HookInv'
<1>1. CASE UNCHANGED hookVars
  <2>1. \A i \in Installers : Made(i)' = Made(i)
    BY <1>1 DEF hookVars, Made
  <2> QED BY <1>1, <2>1 DEF HookInv, hookVars
<1>2. CASE UserEdits
  <2>1. PICK e \in Event, value \in Groups \cup {NotList, Missing} :
          settings' = [(IF settings = NoHooks THEN NoEvents ELSE settings) EXCEPT ![e] = value]
    BY <1>2 DEF UserEdits
  <2>2. value \in EventValue
    BY <2>1, GroupsAreLists DEF EventValue, HookLists
  <2>3. NoEvents \in [Event -> EventValue]
    BY DEF NoEvents, EventValue
  <2>4. (IF settings = NoHooks THEN NoEvents ELSE settings) \in [Event -> EventValue]
    BY <2>3 DEF HookInv, HookSettings
  <2>5. settings' \in HookSettings
    BY <2>1, <2>2, <2>4 DEF HookSettings
  <2>6. spare' = spare /\ copy' = copy /\ place' = place
        /\ current' = {i \in Installers : place[i] = "idle"}
    BY <1>2 DEF UserEdits
  <2> QED BY <2>5, <2>6 DEF HookInv, Made
<1>3. ASSUME NEW i \in Installers, Load(i) PROVE HookInv'
  <2>1. /\ place[i] = "idle" /\ settings' = settings /\ spare' = spare /\ current' = current
        /\ place' = [place EXCEPT ![i] = "loaded"] /\ copy' = [copy EXCEPT ![i] = settings]
    BY <1>3 DEF Load
  <2>2. copy' \in [Installers -> HookSettings] /\ place' \in [Installers -> {"idle", "loaded", "install", "remove"}]
    BY <2>1 DEF HookInv
  <2>3. \A j \in Installers : /\ place'[j] = (IF j = i THEN "loaded" ELSE place[j])
                              /\ copy'[j] = (IF j = i THEN settings ELSE copy[j])
    BY <2>1 DEF HookInv
  <2> QED BY <2>1, <2>2, <2>3 DEF HookInv, Made
<1>4. ASSUME NEW i \in Installers, NEW operation \in {"install", "remove"}, WriteSpare(i, operation)
      PROVE  HookInv'
  <2> DEFINE text == IF operation = "install" THEN Merged(copy[i]) ELSE Removed(copy[i])
  <2>1. /\ place[i] = "loaded" /\ settings' = settings /\ copy' = copy /\ current' = current
        /\ place' = [place EXCEPT ![i] = operation] /\ spare' = [by |-> i, text |-> text]
    BY <1>4 DEF WriteSpare
  <2>2. text \in HookSettings
    BY RemovedIs, MergedIs DEF HookInv
  <2> HIDE DEF text
  <2>3. spare'.by = i /\ spare'.text = text
    BY <2>1
  <2>4. \A j \in Installers : place'[j] = (IF j = i THEN operation ELSE place[j])
    BY <2>1 DEF HookInv
  <2>5. place' \in [Installers -> {"idle", "loaded", "install", "remove"}]
    BY <2>1 DEF HookInv
  <2>6. Made(i)' = text
    BY <2>1, <2>4 DEF Made, text
  <2>7. \A j \in Installers : spare' # NoHooks /\ spare'.by = j /\ place'[j] \in {"install", "remove"} =>
                                spare'.text = Made(j)'
    BY <2>3, <2>6
  <2> QED BY <2>1, <2>2, <2>3, <2>4, <2>5, <2>7 DEF HookInv
<1>5. ASSUME NEW i \in Installers, Swap(i) PROVE HookInv'
  <2>1. /\ place' = [place EXCEPT ![i] = "idle"] /\ copy' = [copy EXCEPT ![i] = NoHooks]
        /\ spare' = NoHooks
    BY <1>5 DEF Swap
  <2>2. /\ \A j \in Installers : /\ place'[j] = (IF j = i THEN "idle" ELSE place[j])
                                 /\ copy'[j] = (IF j = i THEN NoHooks ELSE copy[j])
        /\ place' \in [Installers -> {"idle", "loaded", "install", "remove"}]
        /\ copy' \in [Installers -> HookSettings]
    BY <2>1 DEF HookInv, HookSettings
  <2>3. settings' \in HookSettings
    BY <1>5 DEF Swap, HookInv
  <2>4. \A j \in current' \cap Installers : place'[j] # "idle" => copy'[j] = settings'
    <3>1. CASE spare = NoHooks
      <4>1. settings' = settings /\ current' = current \cup {i}
        BY <1>5, <3>1 DEF Swap
      <4> QED BY <2>2, <4>1 DEF HookInv
    <3>2. CASE spare # NoHooks
      <4>1. current' = {j \in Installers : j = i \/ place[j] = "idle"}
        BY <1>5, <3>2 DEF Swap
      <4> QED BY <2>2, <4>1
    <3> QED BY <3>1, <3>2
  <2> QED BY <2>1, <2>2, <2>3, <2>4 DEF HookInv
<1> QED BY <1>1, <1>2, <1>3, <1>4, <1>5 DEF HookNext

\* Installing and removing the hooks leave the other handlers of every event as they are
\* and in their order (merge_codescent_hooks, remove_codescent_hooks).
LEMMA OthersKept ==
  ASSUME NEW s \in HookSettings, NEW e \in Event, NEW installs \in BOOLEAN
  PROVE  LET old == GroupsOf(s, e)
             text == IF installs THEN Merged(s) ELSE Removed(s)
             new == GroupsOf(text, e)
             due == IF installs /\ e \in HookEvent THEN Registered(e) ELSE <<>>
         IN  /\ HandlersIn(new, Foreign) = HandlersIn(old, Foreign)
             /\ HandlersIn(new, {Ours}) = HandlersIn(due, {Ours})
             /\ Empties(new) = Empties(old)
             /\ EntryOf(s, e) = NotList /\ due = <<>> => EntryOf(text, e) = NotList
<1> DEFINE old == GroupsOf(s, e)
           text == IF installs THEN Merged(s) ELSE Removed(s)
           new == GroupsOf(text, e)
           due == IF installs /\ e \in HookEvent THEN Registered(e) ELSE <<>>
           bare == StripGroups(old)
<1>1. old \in HookLists
  BY GroupsTyped
<1>2. due \in Seq(Seq({Ours})) /\ \A k \in DOMAIN due : due[k] # <<>>
  BY RegisteredShape
<1>3. bare \in Seq(Seq(Foreign)) /\ bare \in HookLists
      /\ HandlersIn(bare, Foreign) = HandlersIn(old, Foreign) /\ Empties(bare) = Empties(old)
  <2> HIDE DEF old
  <2> QED BY <1>1, StripKeeps
<1>4. new = bare \o due
  <2>1. CASE installs
    BY <2>1, MergedIs
  <2>2. CASE ~installs
    <3>1. new = bare /\ due = <<>>
      BY <2>2, RemovedIs
    <3>2. bare \o <<>> = bare
      <4> HIDE DEF bare
      <4> QED BY <1>3
    <3> QED BY <3>1, <3>2
  <2> QED BY <2>1, <2>2
<1>5. /\ HandlersIn(bare \o due, Foreign) = HandlersIn(bare, Foreign)
      /\ Empties(bare \o due) = Empties(bare)
      /\ HandlersIn(bare \o due, {Ours}) = HandlersIn(due, {Ours})
  <2> HIDE DEF bare, due
  <2> QED BY <1>2, <1>3, Appended
<1>6. EntryOf(s, e) = NotList /\ due = <<>> => EntryOf(text, e) = NotList
  BY MergedIs, RemovedIs, RegisteredShape
<1> HIDE DEF old, new, due, bare, text
<1>7. /\ HandlersIn(new, Foreign) = HandlersIn(old, Foreign)
      /\ HandlersIn(new, {Ours}) = HandlersIn(due, {Ours})
      /\ Empties(new) = Empties(old)
  BY <1>3, <1>4, <1>5
<1> QED BY <1>6, <1>7 DEF old, new, due, text

THEOREM InstallsKeepOthers == HookSpec => InstallKeepsOthers
<1>1. HookInit => HookInv
  BY DEF HookInit, HookInv, HookSettings
<1>2. ASSUME HookInv, [HookNext]_hookVars, NEW i \in Installers,
             place[i] # "idle", place'[i] = "idle", i \in current, spare # NoHooks, spare.by = i,
             NEW e \in Event
      PROVE  LET old == GroupsOf(settings, e)
                 new == GroupsOf(settings', e)
                 due == IF place[i] = "install" /\ e \in HookEvent THEN Registered(e) ELSE <<>>
             IN  /\ HandlersIn(new, Foreign) = HandlersIn(old, Foreign)
                 /\ HandlersIn(new, {Ours}) = HandlersIn(due, {Ours})
                 /\ Empties(new) = Empties(old)
                 /\ EntryOf(settings, e) = NotList /\ due = <<>> => EntryOf(settings', e) = NotList
  <2>1. Swap(i)
    <3>1. place' # place
      BY <1>2
    <3>2. ASSUME NEW j \in Installers, Load(j) PROVE FALSE
      BY <1>2, <3>2 DEF Load, HookInv
    <3>3. ASSUME NEW j \in Installers, NEW operation \in {"install", "remove"}, WriteSpare(j, operation)
          PROVE  FALSE
      BY <1>2, <3>3 DEF WriteSpare, HookInv
    <3>4. ASSUME NEW j \in Installers, Swap(j) PROVE j = i
      BY <1>2, <3>4 DEF Swap, HookInv
    <3>5. ~UserEdits
      BY <3>1 DEF UserEdits
    <3> QED BY <1>2, <3>1, <3>2, <3>3, <3>4, <3>5 DEF HookNext, hookVars
  <2>2. settings' = spare.text /\ place[i] \in {"install", "remove"}
    BY <1>2, <2>1 DEF Swap
  <2>3. spare.text = Made(i) /\ copy[i] = settings /\ settings \in HookSettings
    BY <1>2, <2>2 DEF HookInv
  <2>4. settings' = IF place[i] = "install" THEN Merged(settings) ELSE Removed(settings)
    BY <2>2, <2>3 DEF Made
  <2> DEFINE installs == place[i] = "install"
  <2>5. installs \in BOOLEAN
    OBVIOUS
  <2>6. settings' = IF installs THEN Merged(settings) ELSE Removed(settings)
    BY <2>4
  <2> HIDE DEF installs
  <2>7. LET old == GroupsOf(settings, e)
            text == IF installs THEN Merged(settings) ELSE Removed(settings)
            new == GroupsOf(text, e)
            due == IF installs /\ e \in HookEvent THEN Registered(e) ELSE <<>>
        IN  /\ HandlersIn(new, Foreign) = HandlersIn(old, Foreign)
            /\ HandlersIn(new, {Ours}) = HandlersIn(due, {Ours})
            /\ Empties(new) = Empties(old)
            /\ EntryOf(settings, e) = NotList /\ due = <<>> => EntryOf(text, e) = NotList
    BY <2>3, <2>5, OthersKept
  <2> QED BY <2>6, <2>7 DEF installs
<1>3. HookInv /\ [HookNext]_hookVars =>
        [\A i \in Installers :
           /\ place[i] # "idle" /\ place'[i] = "idle"
           /\ i \in current /\ spare # NoHooks /\ spare.by = i
           => \A e \in Event :
                LET old == GroupsOf(settings, e)
                    new == GroupsOf(settings', e)
                    due == IF place[i] = "install" /\ e \in HookEvent THEN Registered(e) ELSE <<>>
                IN  /\ HandlersIn(new, Foreign) = HandlersIn(old, Foreign)
                    /\ HandlersIn(new, {Ours}) = HandlersIn(due, {Ours})
                    /\ Empties(new) = Empties(old)
                    /\ EntryOf(settings, e) = NotList /\ due = <<>> => EntryOf(settings', e) = NotList
        ]_hookVars
  BY <1>2
<1> QED BY <1>1, <1>3, HookStep, PTL DEF HookSpec, InstallKeepsOthers
=============================================================================

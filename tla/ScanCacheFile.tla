----------------------------- MODULE ScanCacheFile -----------------------------
(***************************************************************************)
(* ScanCache.store and ScanCache.load (services/scan_cache.py): every scan *)
(* of a repository writes the same scan_cache.json.tmp and renames it to   *)
(* scan_cache.json, without a lock.  A rename moves the file under its     *)
(* other name while another writer may still have it open.                 *)
(***************************************************************************)
EXTENDS Naturals

CONSTANTS
    Writers,    \* scans that store
    Entry,      \* what they store
    Length,     \* the length of an entry once serialised
    Garbage,    \* the text of a file that json.loads or the type checks reject
    NoFile      \* a name without a file

Content == [text : Entry \cup {Garbage}, length : Nat]

ASSUME LengthAssumption == Length \in [Entry -> Nat \ {0}]
ASSUME TextAssumption == Garbage \notin Entry /\ NoFile \notin Content

VARIABLES
    file,     \* what each name leads to
    pc,       \* where each writer is in store
    entry,    \* what it stores
    handle,   \* the name of the file it has open; "unlinked" for none or a file without
    solo,     \* the writers whose store overlapped no other so far
    overlap   \* whether two stores ever overlapped

vars == <<file, pc, entry, handle, solo, overlap>>

Init ==
    /\ file = [n \in {"tmp", "cache"} |-> NoFile]
    /\ pc = [w \in Writers |-> "idle"]
    /\ entry \in [Writers -> Entry]
    /\ handle = [w \in Writers |-> "unlinked"]
    /\ solo = Writers
    /\ overlap = FALSE

Busy == {w \in Writers : pc[w] # "idle"}

\* For the properties: which stores overlap.
Meets(w) ==
    /\ solo' = IF Busy = {} THEN solo \cup {w} ELSE solo \ (Busy \cup {w})
    /\ overlap' = (overlap \/ Busy # {})

Empty == [text |-> Garbage, length |-> 0]

\* Mutant of Open: the cache itself is opened.
OpenInPlace(w, e) ==
    /\ pc[w] = "idle"
    /\ pc' = [pc EXCEPT ![w] = "opened"]
    /\ entry' = [entry EXCEPT ![w] = e]
    /\ handle' = [handle EXCEPT ![w] = "cache"]
    /\ file' = [file EXCEPT !["cache"] = Empty]
    /\ Meets(w)

\* write_text opens the temporary file, which empties it.  If that fails there
\* is no store.
Open(w, e) ==
    /\ pc[w] = "idle"
    /\ pc' = [pc EXCEPT ![w] = "opened"]
    /\ entry' = [entry EXCEPT ![w] = e]
    /\ handle' = [handle EXCEPT ![w] = "tmp"]
    /\ file' = [file EXCEPT !["tmp"] = Empty]
    /\ Meets(w)

\* A text written from offset 0 leaves what is longer behind it.
Overlay(old, text, length) ==
    IF old.length > length THEN [text |-> Garbage, length |-> old.length]
    ELSE [text |-> text, length |-> length]

Put(w, text, length) ==
    file' = IF handle[w] = "unlinked" THEN file
            ELSE [file EXCEPT ![handle[w]] = Overlay(@, text, length)]

Write(w) ==
    /\ pc[w] = "opened"
    /\ pc' = [pc EXCEPT ![w] = "written"]
    /\ Put(w, entry[w], Length[entry[w]])
    /\ UNCHANGED <<entry, handle, solo, overlap>>

\* The store ends: renamed, failed and logged, or its process gone.
End(w) ==
    /\ pc' = [pc EXCEPT ![w] = "idle"]
    /\ UNCHANGED <<entry, solo, overlap>>

Close(w) == handle' = [handle EXCEPT ![w] = "unlinked"]

\* The disk is full or the process dies while it writes: part of the text is there.
WriteBreaks(w) ==
    /\ pc[w] = "opened"
    /\ \E length \in 0..(Length[entry[w]] - 1) : Put(w, Garbage, length)
    /\ Close(w) /\ End(w)

\* The process dies between write_text and replace.
Crash(w) ==
    /\ pc[w] = "written"
    /\ UNCHANGED file
    /\ Close(w) /\ End(w)

\* tmp.replace(path): whoever had the old file open keeps a file without a name,
\* whoever has the temporary file open now writes to the cache.
Replace(w) ==
    /\ pc[w] = "written"
    /\ file["tmp"] # NoFile
    /\ file' = [file EXCEPT !["cache"] = file["tmp"], !["tmp"] = NoFile]
    /\ handle' = [v \in Writers |->
                    IF v = w \/ handle[v] = "cache" THEN "unlinked"
                    ELSE IF handle[v] = "tmp" THEN "cache" ELSE handle[v]]
    /\ End(w)

\* Another store renamed the temporary file first: OSError, logged.
ReplaceFails(w) ==
    /\ pc[w] = "written"
    /\ file["tmp"] = NoFile
    /\ UNCHANGED file
    /\ Close(w) /\ End(w)

Next ==
    \E w \in Writers :
        \/ \E e \in Entry : Open(w, e)
        \/ Write(w) \/ WriteBreaks(w) \/ Crash(w) \/ Replace(w) \/ ReplaceFails(w)

Spec == Init /\ [][Next]_vars

-----------------------------------------------------------------------------
(* Properties *)

TypeOK ==
    /\ file \in [{"tmp", "cache"} -> Content \cup {NoFile}]
    /\ pc \in [Writers -> {"idle", "opened", "written"}]
    /\ entry \in [Writers -> Entry]
    /\ handle \in [Writers -> {"tmp", "cache", "unlinked"}]
    /\ \A w \in Writers : pc[w] = "idle" => handle[w] = "unlinked"
    /\ solo \subseteq Writers /\ overlap \in BOOLEAN

Readable(n) == file[n] # NoFile => file[n].text # Garbage

\* While no two stores overlap, the next scan finds a whole entry or no file,
\* wherever writers broke off: "a crash mid-write must not poison the next scan".
CrashDoesNotPoison == ~overlap => Readable("cache")

\* A store that overlapped no other leaves its own whole entry, whatever half
\* written files earlier and overlapping stores left behind.
SoloStoreLands ==
    [][\A w \in Writers : (Replace(w) /\ w \in solo) =>
          file'["cache"] = [text |-> entry[w], length |-> Length[entry[w]]]]_vars
=============================================================================

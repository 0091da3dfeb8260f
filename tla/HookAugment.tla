------------------------------ MODULE HookAugment ------------------------------
(* hook-augment, which runs before a search of the agent: it takes the pattern  *)
(* from the call, ranks matches without writing anything, and prints a few      *)
(* lines, or nothing at all when anything goes wrong or takes too long.         *)
EXTENDS Integers, Sequences, FiniteSets, SequencesExt, FiniteSetsExt, Ordering

CONSTANTS
  Commands,    \* sequences of token kinds: "flag", "takes", "pattern", "inline", "tiny", "word"
  Rankings,    \* what the finder may return: sequences of [known, changed, readable, parses, hits],
               \* a hit being [line, symbol, importOnly] in line order, symbol 0 at module level
  HookLimit,   \* limit of build_payload
  HookBudget   \* _MAX_TOKENS, in lines; a health tag counts as one

MatchHit == [line : Nat, symbol : Nat, importOnly : BOOLEAN]
MatchFile ==
  [known : BOOLEAN, changed : BOOLEAN, readable : BOOLEAN, parses : BOOLEAN, hits : Seq(MatchHit)]

ASSUME HookAugmentAssumption ==
  /\ HookLimit \in Nat \ {0} /\ HookBudget \in Nat
  /\ Rankings \subseteq Seq(MatchFile)

VARIABLES
  bashCall,      \* the command of the intercepted call
  ranking,   \* the ranking of the repository
  hook,      \* [at, next, cut, matches]: the file it is at, the one whose parser met the
             \* alarm (0 for none), and what it has
  alarm,     \* the timer of _deadline: armed, fired or off
  printed    \* the lines it printed, <<>> for none
augmentVars == <<bashCall, ranking, hook, alarm, printed>>

AugmentInit ==
  /\ bashCall \in Commands /\ ranking \in Rankings
  /\ hook = [at |-> "start", next |-> 1, cut |-> 0, matches |-> <<>>]
  /\ alarm = "armed" /\ printed = <<>>

-----------------------------------------------------------------------------
(* The pattern *)

\* _extract_bash_pattern: the position of the candidate after the binary, 0 for none.
ExtractPattern(command) ==
  LET from[i \in 1..Len(command) + 2] ==
        IF i > Len(command) THEN 0
        ELSE CASE command[i] = "pattern" -> IF i < Len(command) THEN i + 1 ELSE 0
               [] command[i] = "takes" -> from[i + 2]
               [] command[i] = "flag" -> from[i + 1]
               [] OTHER -> i
  IN from[1]

\* usable_pattern: it holds an identifier of three letters.
Usable(command) == ExtractPattern(command) # 0 /\ command[ExtractPattern(command)] \in {"word", "inline"}

-----------------------------------------------------------------------------
(* The matches of one file *)

\* collapse_file_matches: one match for each symbol that has hits and for each other
\* hit, but no import line beside a symbol; without spans every hit is at module level.
CollapsedHits(file, spans) ==
  LET symbol(hit) == IF spans THEN hit.symbol ELSE 0
      inSymbol == \E hit \in ToSet(file.hits) : symbol(hit) # 0
      keeps(i) ==
        LET hit == file.hits[i] IN
        IF symbol(hit) = 0 THEN ~(inSymbol /\ hit.importOnly)
        ELSE \A j \in 1..i - 1 : symbol(file.hits[j]) # symbol(hit)
      matches == [i \in DOMAIN file.hits |->
                    [line |-> file.hits[i].line, symbol |-> symbol(file.hits[i]), health |-> file.changed]]
  IN AtPlaces(matches, {i \in DOMAIN file.hits : keeps(i)})

\* _render_line: a health tag makes a line longer.
LineCost(lines) == Len(lines) + Cardinality({i \in DOMAIN lines : lines[i].health})

\* build_payload: lines are taken from the end until it fits.
Trimmed(lines) ==
  LET fits == {k \in 1..Len(lines) : LineCost(SubSeq(lines, 1, k)) <= HookBudget}
  IN IF fits = {} THEN <<>> ELSE SubSeq(lines, 1, Max(fits))

-----------------------------------------------------------------------------

Working == hook.at # "done"
\* The end of the hook disarms a timer that has not fired.
Stop == hook' = [hook EXCEPT !.at = "done"]
Disarm == alarm' = IF alarm = "armed" THEN "off" ELSE alarm

\* _run_hook_augment: a call that is malformed or has no usable pattern is left alone.
ReadCall ==
  /\ hook.at = "start"
  /\ \/ Usable(bashCall) /\ hook' = [hook EXCEPT !.at = "scan"] /\ UNCHANGED alarm
     \/ Stop /\ Disarm
  /\ UNCHANGED <<bashCall, ranking, printed>>

\* ranked_matches: the finder may be missing (found = FALSE); no hit ends it.
ScanFiles(works) ==
  /\ hook.at = "scan"
  /\ IF works /\ ranking # <<>> THEN hook' = [hook EXCEPT !.at = "files"] /\ UNCHANGED alarm
     ELSE Stop /\ Disarm
  /\ UNCHANGED <<bashCall, ranking, printed>>

\* Files come best first, so it stops once it holds the limit.
Enough == hook.next > Len(ranking) \/ Len(hook.matches) >= HookLimit

\* _collapse_file: a file of another language has no match; one that cannot be read
\* ends the hook.
ReadMatchFile ==
  /\ hook.at = "files" /\ ~Enough
  /\ LET file == ranking[hook.next] IN
     IF ~file.known THEN hook' = [hook EXCEPT !.next = @ + 1] /\ UNCHANGED alarm
     ELSE IF file.readable THEN hook' = [hook EXCEPT !.at = "parse"] /\ UNCHANGED alarm
     ELSE Stop /\ Disarm
  /\ UNCHANGED <<bashCall, ranking, printed>>

\* symbols_for_file: a file that does not parse has no spans.
TakeFile(spans, cut) ==
  hook' = [hook EXCEPT !.at = "files", !.next = @ + 1, !.cut = cut,
                       !.matches = @ \o CollapsedHits(ranking[hook.next], spans)]
ParseFile ==
  /\ hook.at = "parse"
  /\ TakeFile(ranking[hook.next].parses, hook.cut)
  /\ UNCHANGED <<bashCall, ranking, alarm, printed>>

\* Mutant of PrintLines: the lines are taken as they fit, not the best ones.
PrintLinesFromEnd ==
  /\ hook.at = "files" /\ Enough
  /\ printed' = Reverse(Trimmed(Reverse(SubSeq(hook.matches, 1, IF Len(hook.matches) < HookLimit THEN Len(hook.matches) ELSE HookLimit))))
  /\ Stop /\ Disarm
  /\ UNCHANGED <<bashCall, ranking>>

\* The best HookLimit of them, trimmed and printed at once (_emit_context).
PrintLines ==
  /\ hook.at = "files" /\ Enough
  /\ printed' = Trimmed(SubSeq(hook.matches, 1, IF Len(hook.matches) < HookLimit THEN Len(hook.matches) ELSE HookLimit))
  /\ Stop /\ Disarm
  /\ UNCHANGED <<bashCall, ranking>>

\* The alarm raises a TimeoutError wherever the hook is.  It ends the hook, except in
\* the parser: a TimeoutError is an OSError, which symbols_for_file takes for a file it
\* cannot parse, and the timer does not fire again.
AlarmFires ==
  /\ Working /\ alarm = "armed"
  /\ alarm' = "fired"
  /\ \/ hook.at = "parse" /\ TakeFile(FALSE, hook.next)
     \/ hook.at # "parse" /\ Stop
  /\ UNCHANGED <<bashCall, ranking, printed>>

AugmentNext ==
  \/ ReadCall \/ ReadMatchFile \/ ParseFile \/ PrintLines \/ AlarmFires
  \/ \E works \in BOOLEAN : ScanFiles(works)

AugmentSpec == AugmentInit /\ [][AugmentNext]_augmentVars

-----------------------------------------------------------------------------

\* What is printed is the head of the whole ranking, whenever the alarm fires.  Although
\* the hook stops reading files early, drops lines that do not fit and may be cut off by
\* its deadline, what it prints are the best matches of all the files in order, and it
\* prints as many of them as limit and budget allow.  An alarm leaves its mark on one
\* file at most, the one it fired in the parser of: that file is there with each of its
\* hits at module level, its import lines among them (ranked_matches, build_payload).
EnrichmentIsRanked ==
  LET of(k) == IF ranking[k].known THEN CollapsedHits(ranking[k], ranking[k].parses /\ k # hook.cut) ELSE <<>>
      all == Chained([k \in DOMAIN ranking |-> of(k)])[Len(ranking)]
      n == Len(printed)
  IN printed # <<>> =>
       /\ hook.cut # 0 => alarm = "fired"
       /\ n <= HookLimit /\ IsPrefix(printed, all) /\ LineCost(printed) <= HookBudget
       /\ n < HookLimit /\ n < Len(all) => LineCost(SubSeq(all, 1, n + 1)) > HookBudget

\* "Self-imposed wall-clock deadline so the hook cannot delay a search beyond a small
\* budget" (cli/hooks.py): when the alarm has fired the hook has ended.
DeadlineHolds == alarm = "fired" => ~Working

=============================================================================

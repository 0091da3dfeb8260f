---------------------------- MODULE MCHookAugment ----------------------------
(* Up to two ranked files of every kind: indexed or not, changed, unreadable or  *)
(* beyond the parser, with import lines and several hits in one symbol; and       *)
(* commands with flags, with a short pattern and with none.                       *)
EXTENDS HookAugment

MCHits == {<<[line |-> 1, symbol |-> 0, importOnly |-> TRUE], [line |-> 5, symbol |-> 1, importOnly |-> FALSE]>>,
           <<[line |-> 2, symbol |-> 1, importOnly |-> FALSE], [line |-> 3, symbol |-> 1, importOnly |-> FALSE],
             [line |-> 9, symbol |-> 2, importOnly |-> FALSE]>>}
MCHookFiles == {f \in [known : BOOLEAN, changed : BOOLEAN, readable : BOOLEAN, parses : BOOLEAN, hits : MCHits] :
                  (~f.readable => f.parses /\ f.known /\ ~f.changed) /\ (~f.known => f.parses /\ ~f.changed)}
MCRankings == UNION {[1..n -> MCHookFiles] : n \in 0..2}
MCCommands == {<<"word">>, <<"takes", "word">>, <<"flag", "pattern", "tiny">>, <<"takes", "tiny", "inline">>}
=============================================================================

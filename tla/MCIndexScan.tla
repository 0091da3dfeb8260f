----------------------------- MODULE MCIndexScan -----------------------------
(* A file the inventory maps (Python) and one it does not (Go);              *)
(* two texts and absence are enough for an edit, a deletion and an undone    *)
(* edit.                                                                     *)
EXTENDS IndexScan, TLC

CONSTANTS py, go, v1, v2, hook, cli, scan1, scan2

MCPython == {py}
MCPythonAndGo == {py, go}
MCTexts == {v1, v2}
MCNone == {}
MCRebuilder == {cli}
MCOneHook == {hook}
MCOneScanner == {scan1}
MCTwoScanners == {scan1, scan2}
MCSymmetry == Permutations(MCTexts) \cup Permutations(MCTwoScanners)
===========================================================================

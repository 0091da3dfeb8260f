------------------------ MODULE MCFindingLifecycle ------------------------
(* One finding, which the noise gate drops or not; two bodies and two line   *)
(* positions tell an edit of the body from a shift of the lines.             *)
EXTENDS FindingLifecycle, TLC

CONSTANTS shown, small, large, scan1, scan2, agent1, above, below

MCOne == {shown}
MCTwoScanners == {scan1, scan2}
MCOneScanner == {scan1}
MCOneMarker == {agent1}
MCEveryStatus == FindingStatus \ {"resolved"}
MCTwoBodies == {small, large}
MCLines == {above, below}
MCSymmetry ==
    Permutations(MCTwoScanners) \cup Permutations(MCTwoBodies) \cup Permutations(MCLines)
===========================================================================

------------------------------ MODULE MCReindex ------------------------------
(* One file is enough for an edit that is indexed, dropped or overwritten; two *)
(* hooks can both claim the slot.                                               *)
EXTENDS Reindex, TLC

CONSTANTS f, h1, h2

MCFile == {f}
MCHooks == {h1, h2}
MCCrews == {{h1, h2, "watch"}, {h1, "watch", "call"}}
=============================================================================

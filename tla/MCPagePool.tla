----------------------------- MODULE MCPagePool -----------------------------
(***************************************************************************)
(* Two tasks and a pool of a few pages with a size_t of a few bits:        *)
(* requests of no page, of one and of two, one that no pool can serve; the *)
(* same huge count makes the sum in mm_kfree_pages wrap.                   *)
(***************************************************************************)
EXTENDS PagePool

MCCounts == {0, 1, 2, Size - 1}
=============================================================================

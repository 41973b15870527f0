--------------------------- MODULE MCGeventDeque ---------------------------
(***************************************************************************)
(* Instances of GeventDeque: two or three greenlets that may each call     *)
(* everything, on a deque that two items fill.                             *)
(***************************************************************************)
EXTENDS GeventDeque
=============================================================================

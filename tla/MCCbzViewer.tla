------------------------------ MODULE MCCbzViewer ------------------------------
(***************************************************************************)
(* Two files of different length, so that a page of one may be beyond the  *)
(* end of the other.                                                       *)
(***************************************************************************)
EXTENDS CbzViewer

MCPages == [x \in File |-> IF x = "f" THEN 2 ELSE 1]
=============================================================================

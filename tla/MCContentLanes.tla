--------------------------- MODULE MCContentLanes ---------------------------
(***************************************************************************)
(* Instances of ContentLanes for TLC.                                      *)
(***************************************************************************)
EXTENDS ContentLanes

\* A single slot, and two that both lanes may take.
LaneSettings == {[native |-> 1, ocr |-> 1, total |-> 1],
                 [native |-> 2, ocr |-> 2, total |-> 2]}
=============================================================================

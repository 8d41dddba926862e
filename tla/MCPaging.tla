------------------------------ MODULE MCPaging ------------------------------
(***************************************************************************)
(* Instance of Paging: four rows of two transactions and two clock        *)
(* values, so rows share a created_at and commit out of order; limits      *)
(* below, at and above the bounds.                                         *)
(***************************************************************************)
EXTENDS Paging

CONSTANTS w1, w2

MCIds     == 1 .. 4
MCWriters == {w1, w2}
MCParams  == {0, 1, 3}
=============================================================================

----------------------------- MODULE MCZynqBasic -----------------------------
(* Instances of ZynqBasic for TLC: one or two ports, an image of a few rows.   *)
EXTENDS ZynqBasic
=============================================================================

----------------------------- MODULE MCBufAlloc -----------------------------
(* Instances of BufAlloc for TLC: regions of a few bytes.                      *)
EXTENDS BufAlloc
=============================================================================

----------------------------- MODULE MCAnchoring -----------------------------
(***************************************************************************)
(* Instances of Anchoring for TLC: attestations and runs are model values.  *)
(***************************************************************************)
EXTENDS Anchoring

CONSTANTS a1, a2, r1, r2
=============================================================================

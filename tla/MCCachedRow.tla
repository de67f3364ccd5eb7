----------------------------- MODULE MCCachedRow -----------------------------
(* Instances of CachedRow for TLC. *)
EXTENDS CachedRow
=============================================================================

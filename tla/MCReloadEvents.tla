--------------------------- MODULE MCReloadEvents ---------------------------
(* ReloadEvents for TLC: two reloading threads, two receivers.  No symmetry: *)
(* the run checks a liveness property.                                       *)
EXTENDS ReloadEvents
=============================================================================

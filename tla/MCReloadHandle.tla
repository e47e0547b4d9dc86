--------------------------- MODULE MCReloadHandle ---------------------------
(* ReloadHandle for TLC: a caller of reload() (emit_unchanged) and a thread  *)
(* with the watchers' default options, two files with two possible values;   *)
(* the mixture of a new first file with an old second one is refused.        *)
EXTENDS ReloadHandle

CONSTANTS Old, New

\* The first file can be broken and repaired, the second written once.
MCMaxVersion == [f \in Files |-> IF f = 1 THEN 2 ELSE 1]

MCAcceptable == [Files -> Values] \ {[f \in Files |-> IF f = 1 THEN New ELSE Old]}
=============================================================================

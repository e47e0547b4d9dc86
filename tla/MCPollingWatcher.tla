-------------------------- MODULE MCPollingWatcher --------------------------
(* PollingWatcher for TLC: one watcher, with either policy, over two files.  *)
EXTENDS PollingWatcher

CONSTANTS Old, New

\* The first file can be broken and repaired, the second written once.
MCMaxVersion == [f \in Files |-> IF f = 1 THEN 2 ELSE 1]

MCAcceptable == [Files -> Values] \ {[f \in Files |-> IF f = 1 THEN New ELSE Old]}
=============================================================================

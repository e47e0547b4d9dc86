-------------------------- MODULE MCNativeWatcher --------------------------
(* NativeWatcher for TLC: one watcher, with either policy, over two files.   *)
(* The first one, which a load reads first, is written twice: broken and     *)
(* repaired, or changed again while a reload that has read it is running.    *)
EXTENDS NativeWatcher

CONSTANTS Old, New

MCMaxVersion == [f \in Files |-> IF f = 1 THEN 2 ELSE 0]

MCAcceptable == [Files -> Values]
=============================================================================

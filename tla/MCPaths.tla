------------------------------- MODULE MCPaths -------------------------------
(***************************************************************************)
(* Every text of up to MaxLength characters, read as a path and as the name*)
(* of a variable; an index of two ones does not fit.  The separators are   *)
(* the default, one that is also a character of names, and a letter.       *)
(***************************************************************************)
EXTENDS EnvNames, TLC

MCUpper == "a" :> "A"
MCPrefixSettings == {<<>>, <<"a">>, <<"a", "_">>, <<"a", "_", "_">>}
MCSeparators == {<<"_", "_">>, <<"_">>, <<"a">>}
=============================================================================

---------------------------- MODULE MCMigrations ----------------------------
(* Migrations for TLC: a program that supports version 2, rules of versions  *)
(* 1 to 3, every list of two rules and every list of three of a chain of     *)
(* renames; values of every version, old and new names with scalars and      *)
(* containers in conflict, and an array.                                     *)
EXTENDS Migrations

Rename(from, to, since) == [kind |-> "rename", from |-> from, to |-> to, since |-> since]
Drop(from, since) == [kind |-> "remove", from |-> from, to |-> <<>>, since |-> since]

MCVersionPath == <<"version">>

MCRules ==
    {Rename(<<"old">>, <<"new">>, 1), Rename(<<"old">>, <<"new", "k">>, 2),
     Rename(<<"new">>, <<"list", "0", "k">>, 2), Rename(<<"list", "00", "k">>, <<"list", "2">>, 1),
     Rename(<<"new">>, <<"version">>, 2),
     Rename(<<"old">>, <<"list", "3", "k">>, 2), Drop(<<"old">>, 2),
     Drop(<<"list", "0">>, 2), Drop(<<"new">>, 3)}

MCChain ==
    {Rename(<<"old">>, <<"mid">>, 1), Rename(<<"mid">>, <<"new", "k">>, 2),
     Drop(<<"list", "0", "k">>, 2), Rename(<<"new">>, <<"old">>, 3)}

MCRuleLists == BoundedSeq(MCRules, 2) \cup [1..3 -> MCChain]

Keyed(k, values) == {IF v = Missing THEN <<>> ELSE k :> v : v \in values}

MCDocuments ==
    {Object(a @@ b @@ c @@ d) :
        a \in Keyed("version", {Missing, Null, Text("x"), Number(1), Number(2), Number(3), Number(4)}),
        b \in Keyed("old", {Missing, Text("o"), Object("k" :> Text("ok"))}),
        c \in Keyed("new", {Missing, Text("n"), Object("j" :> Text("nj"))}),
        d \in Keyed("list", {Missing, Array(<<Object("k" :> Text("l0")), Object("k" :> Text("l1"))>>)})}

MCValues ==
    MCDocuments \cup {Null} \cup {Text(s) : s \in {"x", "o", "ok", "n", "nj", "l0", "l1"}}
      \cup {Number(n) : n \in 1..4}
      \cup {Object("k" :> Text("ok")), Object("j" :> Text("nj")), Object("k" :> Text("l0")), Object("k" :> Text("l1"))}
      \cup {Array(<<Object("k" :> Text("l0")), Object("k" :> Text("l1"))>>)}

MCWatched ==
    {<<s>> : s \in {"version", "old", "mid", "new", "list"}}
      \cup {<<s, t>> : s \in {"old", "mid", "new"}, t \in {"j", "k"}}
      \cup {<<"list", i>> : i \in {"0", "1", "2", "3"}}
      \cup {<<"list", i, "k">> : i \in {"0", "1", "2", "3"}}
=============================================================================

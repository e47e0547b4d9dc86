----------------------------- MODULE MCLayering -----------------------------
(* Layering for TLC: a list of containers with a list inside, and a map with *)
(* a list inside; overrides of elements in two spellings, of whole lists and *)
(* maps, and of paths that do not fit together.  Every text is used once, so *)
(* it says which source it comes from.                                       *)
EXTENDS Layering

Sub(v) == Object("sub" :> v)
One(s) == Array(<<Text(s)>>)
Override(p, v) == [path |-> p, value |-> v]

MCDefaults ==
    {Object("list" :> Array(<<Sub(One("d1"))>>)
              @@ "grid" :> Array(<<One("d4"), One("d5")>>)
              @@ "map" :> Object("k" :> Text("d2") @@ "sub" :> One("d3"))),
     Object("list" :> Array(<<>>))}

MCFileValues ==
    {Object("list" :> One("f1")), Object("map" :> Object("k" :> Text("f2") @@ "j" :> Text("f3")))}

MCArgOverrides ==
    {Override(<<"list">>, One("a1")), Override(<<"list">>, Array(<<Object("name" :> Text("a10"))>>)),
     Override(<<"list", "0">>, Text("a2")), Override(<<"list", "00">>, Text("a3")),
     Override(<<"list", "2">>, Text("a4")), Override(<<"list", "1", "sub", "0">>, Text("a9")),
     Override(<<"list", "1", "sub">>, Array(<<>>)), Override(<<"grid", "1", "0">>, Text("a11")),
     Override(<<"list", "0", "sub", "1">>, Text("a5")), Override(<<"list", "00", "sub">>, One("a6")),
     Override(<<"map">>, Object("j" :> Text("a7"))), Override(<<"map", "sub", "1">>, Text("a8"))}

MCEnvOverrides ==
    {Override(<<"list">>, One("e1")), Override(<<"list", "1">>, Text("e2")),
     Override(<<"list", "00", "sub", "1">>, Text("e3")),
     Override(<<"map", "k">>, Text("e4")), Override(<<"map", "0">>, Text("e5"))}

MCFallbacks == {Override(<<"map", "k">>, Text("b1")), Override(<<"list", "0">>, Text("b2"))}

Write(p, explicit, v) == [path |-> p, explicit |-> explicit, value |-> v]

MCPatchWrites ==
    {Write(<<"list", "0">>, {2}, Text("p1")), Write(<<"list", "00">>, {}, Text("p2")),
     Write(<<"list", "1">>, {2}, Null), Write(<<"list">>, {}, One("p3")),
     Write(<<"list", "0", "sub", "1">>, {}, Text("p4")), Write(<<"grid", "1", "0">>, {3}, Text("p5")),
     Write(<<"list", "1", "sub", "0">>, {2, 4}, Text("p6")),
     Write(<<"map", "k">>, {}, Null), Write(<<"map", "0">>, {}, Null),
     Write(<<"map">>, {}, EmptyObject)}

MCMetadata ==
    {[merge |-> <<>>, denied |-> <<"list", "0">> :> {"args"} @@ <<"map", "k">> :> {"env"}],
     [merge |-> <<"list">> :> "Append", denied |-> <<"map", "k">> :> {"file"}],
     [merge |-> <<"list">> :> "Replace" @@ <<"map">> :> "Replace" @@ <<"map", "sub">> :> "Append",
      denied |-> <<>>]}

MCValues ==
    UNION {{GetAt(v, p) : p \in Nodes(v)} :
             v \in MCDefaults \cup MCFileValues
                     \cup {o.value : o \in MCArgOverrides \cup MCEnvOverrides \cup MCFallbacks \cup MCPatchWrites}}
=============================================================================

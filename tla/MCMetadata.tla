----------------------------- MODULE MCMetadata -----------------------------
(* Metadata for TLC: fields that overlap by wildcards, aliases of fields and *)
(* of what they are in, decoders registered for an alias, nested types.      *)
EXTENDS Canonical

\* A field as its builder methods make it.
Field(p, aliases, says) ==
    LET named == FoldLeft(WithAlias, NewField(p), SetToSeq(aliases))
    IN  FoldLeft(LAMBDA f, a : Saying(f, a, says[a]), named, SetToSeq(DOMAIN says))
TypeWith(fields) == [fields |-> Normalized(fields), checks |-> {}]
Check(code, p, paths) == [code |-> code, path |-> p, equals |-> "v", paths |-> paths]

MCOrder == <<"!", "*", "0", "00", "1", "a", "b", "item", "k", "x", "y">>
MCConfigures == "min config" :> "min"

MCFieldPool ==
    {Field(<<"*", "x">>, {}, "min" :> 1 @@ "merge" :> "Append"),
     Field(<<"a", "x">>, {<<"b">>}, "min" :> 2 @@ "secret" :> TRUE),
     Field(<<"a", "x">>, {}, "min config" :> "warning" @@ "merge" :> "Replace"),
     Field(<<"a", "*">>, {}, "min" :> 3 @@ "denied" :> {"env"}),
     Field(<<"a", "*">>, {<<"b", "*">>}, "allowed" :> {"file"}),
     Field(<<"x", "*">>, {<<"a", "*">>}, "min" :> 5 @@ "doc" :> "d"),
     Field(<<"*", "y">>, {<<"*", "b">>}, "deprecated" :> "note"),
     Field(<<"x">>, {<<"y">>}, "env" :> "X"),
     Field(<<"x">>, {}, "env_decode" :> "csv"),
     Field(<<"y">>, {}, "env_decode" :> "whitespace"),
     Field(<<"y", "b">>, {}, "env_decode" :> "csv" @@ "doc" :> "d"),
     Field(<<"a">>, {<<"x">>}, "env" :> "A"),
     Field(<<"x", "a">>, {<<"x", "*">>}, <<>>),
     Field(<<"x", "00">>, {<<"b", "0">>}, "deprecated" :> "old" @@ "env" :> "X0"),
     Field(<<"x", "0">>, {}, "env" :> "X1"),
     Field(<<>>, {}, "secret" :> TRUE),
     Field(<<"a", "!">>, {}, <<>>)}

MCCheckPool ==
    {Check("required_with", <<"x">>, {<<"a", "x">>}), Check("exactly_one_of", <<>>, {<<>>, <<"x">>})}

MCChildren ==
    {[prefix |-> <<"a">>, prefixAliases |-> {<<"b">>},
      metadata |-> TypeWith(<<Field(<<"x">>, {<<"y">>}, "min" :> 4)>>)],
     [prefix |-> <<"a">>, prefixAliases |-> {},
      metadata |-> [ItemMetadata(SecretMetadata) EXCEPT
                      !.checks = {Check("mutually_exclusive", <<>>, {<<"x">>, <<"y">>})}]],
     [prefix |-> <<>>, prefixAliases |-> {}, metadata |-> TypeWith(<<Field(<<"y">>, {}, "env" :> "Y")>>)],
     [prefix |-> <<"b">>, prefixAliases |-> {<<>>}, metadata |-> TypeWith(<<Field(<<"y">>, {}, <<>>)>>)]}

MCProbes == {<<"a">>, <<"b">>, <<"x">>, <<"y">>} \cup {<<s, t>> : s, t \in {"a", "b", "x", "y"}}

T(s) == Text(s)
Two == Array(<<T("1"), T("2")>>)

MCRawLayers ==
    {FromValue("file", Object("a" :> Object("x" :> T("1") @@ "y" :> T("2")))),
     FromValue("file", Object("a" :> Object("x" :> Object("k" :> T("1"))) @@ "b" :> T("2"))),
     FromValue("file", Object("x" :> Two @@ "y" :> Two)),
     FromValue("file", Object("b" :> Object("y" :> T("1") @@ "0" :> T("2")))),
     WithOverride(WithOverride(NewLayer("args"), <<"x", "00">>, T("1")), <<"b">>, Two),
     WithOverride(NewLayer("args"), <<"y", "00", "k">>, T("1"))}

MCSecrets == {<<"b">>, <<"y", "00">>, <<"a", "x">>}

Spec == CanonicalInit /\ [][CanonicalNext]_cvars
=============================================================================

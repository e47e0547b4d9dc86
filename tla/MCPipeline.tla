------------------------------ MODULE MCPipeline ------------------------------
(* The pipeline for TLC: a configuration with a number, a text, a list, a     *)
(* tuple, a secret in an optional struct, and a list of structs; layers with  *)
(* values of the wrong kind, unknown fields, legacy names and plain text; and *)
(* normalizers that change, remove, add and fail.  Texts tell who gave them.  *)
EXTENDS Pipeline

T(s) == Text(s)
N(n) == Number(n)
List(s) == Array(s)

Field(p, aliases, says) ==
    LET named == FoldLeft(WithAlias, NewField(p), SetToSeq(aliases))
    IN  FoldLeft(LAMBDA f, a : Saying(f, a, says[a]), named, SetToSeq(DOMAIN says))
Check(code, p, paths) == [code |-> code, path |-> p, equals |-> N(7), paths |-> paths]

MCOrder == <<"*", "0", "00", "1", "2", "clamp", "db", "gone", "list", "mode", "name", "nick", "old",
             "pair", "port", "pw", "typo", "users", "version">>
MCConfigures == "min config" :> "min"

MCFieldPool ==
    {Field(<<"port">>, {}, "min" :> N(5) @@ "min config" :> "warning" @@ "deprecated" :> "old"),
     Field(<<"port">>, {<<"typo">>}, "max" :> N(6) @@ "denied" :> {"args"}),
     Field(<<"list">>, {}, "merge" :> "Append" @@ "max_items" :> N(2)),
     Field(<<"db">>, {}, "merge" :> "Replace" @@ "max_properties" :> N(1)),
     Field(<<"gone">>, {}, <<>>), Field(<<>>, {}, "min" :> N(1))}
MCCheckPool ==
    {Check("required_with", <<"users", "*", "name">>, {<<"users", "*", "pw">>}),
     Check("exactly_one_of", <<>>, {<<"db", "pw">>, <<"version">>}),
     Check("required_if", <<"port">>, {<<"db", "mode">>})}
MCChildren ==
    {[prefix |-> <<"list">>, prefixAliases |-> {},
      metadata |-> [fields |-> Normalized(<<Field(<<"*">>, {}, "min" :> N(3)),
                                            Field(<<"00">>, {}, "min" :> N(1))>>),
                    checks |-> {}]]}

Num == [type |-> "number", max |-> 9]
Txt == [type |-> "text"]
Loose == [type |-> "loose"]
Opt(t) == [type |-> "option", of |-> t]
Struct(fields) == [type |-> "struct", fields |-> fields]
MCTarget ==
    Struct("version" :> Num @@ "port" :> Num @@ "name" :> Txt
             @@ "list" :> [type |-> "seq", of |-> Num]
             @@ "pair" :> [type |-> "tuple", of |-> <<Num, Num>>]
             @@ "db" :> Opt(Struct("pw" :> Opt(Txt) @@ "mode" :> Loose))
             @@ "users" :> [type |-> "seq", of |-> Struct("name" :> Txt @@ "pw" :> Opt(Txt))])
MCReads == "2" :> N(2) @@ "3" :> N(3) @@ "7" :> N(7) @@ "8" :> N(8) @@ "null" :> Null

User(name, rest) == Object("name" :> T(name) @@ rest)
Dflt ==
    Object("version" :> N(0) @@ "port" :> N(1) @@ "name" :> T("d") @@ "list" :> List(<<N(1)>>)
             @@ "pair" :> List(<<N(1), N(2)>>) @@ "db" :> Object("pw" :> T("p0") @@ "mode" :> N(1))
             @@ "users" :> List(<<User("u0", "pw" :> T("p1"))>>))
File(f) == FromValue("file", Object(f))
Env(l, p, s) == WithText(l, p, T(s))
Arg(l, p, x) == WithOverride(l, p, x)
NewEnv == NewLayer("env")
NewArgs == NewLayer("args")

MCRawLayers ==
    {FromValue("defaults", Dflt),
     File("port" :> T("3")),
     File("typo" :> N(5) @@ "old" :> N(4) @@ "users" :> List(<<User("u1", "nick" :> T("x")), User("u2", "pw" :> T("p6"))>>)),
     File("list" :> List(<<N(2), N(3)>>) @@ "db" :> Object("pw" :> T("p2")) @@ "gone" :> N(1)
            @@ "pair" :> List(<<N(4), N(5), N(6)>>)),
     Env(Env(NewEnv, <<"port">>, "7"), <<"name">>, "7"),
     File("db" :> Object("mode" :> T("p7"))),
     Env(NewEnv, <<"db", "mode">>, "2"),
     Env(Env(Env(NewEnv, <<"db", "mode">>, "2"), <<"name">>, "7"), <<"version">>, "2"),
     WithText(NewEnv, <<"list">>, List(<<T("2"), T("7")>>)),
     Env(Env(NewEnv, <<"old">>, "7"), <<"db">>, "null"),
     Arg(NewArgs, <<"db">>, Object("pw" :> T("p3") @@ "mode" :> N(2))),
     Arg(Arg(NewArgs, <<"list", "00">>, N(4)), <<"list", "2">>, N(6)),
     Arg(Arg(NewArgs, <<"typo">>, N(6)), <<"users", "0", "pw">>, T("p4")),
     Arg(Arg(NewArgs, <<"port">>, T("8")), <<"version">>, N(2))}

MCSecrets == {<<"db">>, <<"users", "*", "pw">>}

MCPolicies == {"Allow", "Warn", "Deny"}
Rename(from, to, since) == [kind |-> "rename", from |-> from, to |-> to, since |-> since]
MCMigrationLists == {<<>>, <<Rename(<<"old">>, <<"port">>, 1)>>}
MCVersionPath == <<"version">>
MCFormats == <<>>

With(v, s, x) == Replace(v, s, x)
MCNormalizers == {"clamp", "clear", "connect", "fail"}
MCNormalize(n, v) ==
    CASE n = "clamp" -> With(v, "port", N(3))
      [] n = "clear" -> With(With(v, "db", Null), "list", List(<<>>))
      [] n = "connect" -> With(v, "db", Object("pw" :> T("p5") @@ "mode" :> N(3)))
      [] OTHER -> Missing

Spec == PipelineInit /\ [][PipelineNext]_pvars
=============================================================================

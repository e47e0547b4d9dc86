-------------------------------- MODULE EnvNames --------------------------------
(***************************************************************************)
(* Which path an environment variable is about (path_for_env_var in        *)
(* loader/env.rs), and which name the generated documents give to the      *)
(* variable of a path (EnvDocOptions in docs/mod.rs).  Both are made with a*)
(* prefix, a separator, and a rule for the case of letters, set twice by   *)
(* the program: for the loader and for the documents.  A name is a sequence*)
(* of characters, and so is a segment of a path.                           *)
(***************************************************************************)
EXTENDS PathSyntax

CONSTANTS
    Upper,           \* the upper case of the letters that have one
    PrefixSettings,  \* the prefixes a program may set, the empty one for none
    Separators       \* the separators it may set

ASSUME NamesAssumption ==
    /\ <<>> \notin Separators
    /\ \A s \in PrefixSettings \cup Separators : s \in Seq(Range(s))
    /\ \A c \in DOMAIN Upper :
          /\ Upper[c] \notin DOMAIN Upper
          /\ {c, Upper[c]} \cap {".", "[", "]", "*"} = {}
          /\ \A d \in DOMAIN Upper : Upper[c] = Upper[d] => c = d

\* What both sides are set to.
Options == [prefix : PrefixSettings, separator : Separators, folded : BOOLEAN]

UpperCase(s) == [i \in DOMAIN s |-> IF s[i] \in DOMAIN Upper THEN Upper[s[i]] ELSE s[i]]
LowerCase(s) ==
    [i \in DOMAIN s |-> IF \E c \in DOMAIN Upper : Upper[c] = s[i]
                          THEN CHOOSE c \in DOMAIN Upper : Upper[c] = s[i] ELSE s[i]]

\* strip_prefix, of an s that begins with it
Beyond(start, s) == SubSeq(s, Len(start) + 1, Len(s))

\* The prefix without the separators it ends with.
Trimmed(prefix, separator) ==
    LET Cut(n) == SubSeq(prefix, 1, Len(prefix) - n * Len(separator))
        IsCut(n) == /\ n * Len(separator) <= Len(prefix)
                    /\ \A k \in 0..(n - 1) : IsSuffix(separator, Cut(k))
    IN  Cut(CHOOSE n \in 0..Len(prefix) : IsCut(n) /\ ~ IsCut(n + 1))

\* normalize_env_prefix, of which there is one on each side: and without underscores,
\* unless they are the separator.
NormalizedPrefix(prefix, separator) ==
    IF separator = <<"_">> THEN Trimmed(prefix, separator)
    ELSE Trimmed(Trimmed(prefix, separator), <<"_">>)

\* str::split, one character further: a separator ends the piece in front of it.
Split(read, c, separator) ==
    LET current == Append(read.current, c)
        piece == SubSeq(current, 1, Len(current) - Len(separator))
    IN  IF current = piece \o separator
          THEN [pieces |-> Append(read.pieces, piece), current |-> <<>>]
          ELSE [read EXCEPT !.current = current]

SplitAt(s, separator) ==
    LET read == FoldLeft(LAMBDA acc, c : Split(acc, c, separator), [pieces |-> <<>>, current |-> <<>>], s)
    IN  Append(read.pieces, read.current)

\* join
JoinedBy(segments, separator) ==
    FoldLeft(LAMBDA acc, s : IF acc = <<>> THEN s ELSE acc \o separator \o s, <<>>, segments)

\* One underscore is enough for two, when the prefix was not set with the separator.
OneUnderscore(rest, o) ==
    /\ o.separator = <<"_", "_">> /\ ~ IsSuffix(o.separator, o.prefix)
    /\ IsPrefix(<<"_">>, rest)

\* Seeded fault: it is tried before the separator.
RemainderOneFirst(rest, o) ==
    IF OneUnderscore(rest, o) THEN Tail(rest)
    ELSE IF IsPrefix(o.separator, rest) THEN Beyond(o.separator, rest) ELSE <<>>

\* parse_prefixed_env_remainder
Remainder(rest, o) ==
    IF IsPrefix(o.separator, rest) THEN Beyond(o.separator, rest)
    ELSE IF OneUnderscore(rest, o) THEN Tail(rest) ELSE <<>>

\* What of a name is about the path, nothing when the variable is not ours.
OwnPart(name, o) ==
    LET prefix == NormalizedPrefix(o.prefix, o.separator)
    IN  CASE prefix = <<>> -> name
          [] prefix # <<>> /\ IsPrefix(prefix, name) -> Remainder(Beyond(prefix, name), o)
          [] OTHER -> <<>>

\* invalid_path_key_message, of a key that is not empty
IsReserved(s) == s = <<"*">> \/ Range(s) \cap {".", "[", "]"} # {}

NotOurs == Path(<<>>, {})

\* path_for_env_var; a name that is ours and has characters paths are written with is
\* an error.
PathForEnvVar(name, o) ==
    LET own == OwnPart(name, o)
        split == SplitAt(own, o.separator)
        segments == [k \in DOMAIN split |-> IF o.folded THEN LowerCase(split[k]) ELSE split[k]]
        bad == {k \in DOMAIN split : IsReserved(split[k])}
        empty == {k \in DOMAIN split : split[k] = <<>>}
    IN  CASE own = <<>> -> NotOurs
          [] own # <<>> /\ bad # {} /\ \A k \in empty : \E b \in bad : b < k -> Error
          [] own # <<>> /\ empty # {} /\ \A b \in bad : \E k \in empty : k < b -> NotOurs
          [] OTHER -> Path(segments, {})

\* EnvDocOptions::env_name, of a path without wildcards
EnvName(segments, o) ==
    LET prefix == NormalizedPrefix(o.prefix, o.separator)
        body == JoinedBy([i \in DOMAIN segments |->
                            IF o.folded THEN UpperCase(segments[i]) ELSE segments[i]], o.separator)
    IN  IF prefix = <<>> \/ body = <<>> THEN prefix \o body ELSE prefix \o o.separator \o body

-----------------------------------------------------------------------------
(* Properties *)

\* The segments survive being joined and, where the case of letters is folded, do
\* not depend on it; none is a wildcard, of which the documents show a template.
Expressible(segments, o) ==
    /\ SplitAt(JoinedBy(segments, o.separator), o.separator) = segments
    /\ o.folded => \A s \in Range(segments) : LowerCase(s) = s
    /\ <<"*">> \notin Range(segments)

\* Where the case of letters is folded the separator has no letters: it would be
\* found in another case, or no more.
KeepsSeparator(o) ==
    o.folded => \A c \in DOMAIN Upper : Range(o.separator) \cap {c, Upper[c]} = {}

\* The documented variable of a path, set, is a variable the loader takes for this
\* path: of every path that a variable may be about, whatever the name of that was;
\* and of every path that is written, as long as its segments do not run together or
\* depend on the case of letters (env_name in docs/mod.rs, path_for_env_var in
\* loader/env.rs).
DocumentedVariablesAreRead ==
    LET written == ExternalPath(text, reader)
    IN  \A o \in {p \in Options : KeepsSeparator(p)} :
          LET named == PathForEnvVar(text, o)
              Reads(segments) == PathForEnvVar(EnvName(segments, o), o) = Path(segments, {})
          IN  /\ named.outcome = "path" => Reads(named.segments)
              /\ written.outcome = "path" /\ Expressible(written.segments, o)
                   => Reads(written.segments)
=============================================================================

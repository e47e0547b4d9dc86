------------------------------ MODULE PathSyntax -----------------------------
(***************************************************************************)
(* How a written path such as servers[0].name becomes a sequence of        *)
(* segments.  The program has the parser four times, one per subsystem:    *)
(* try_normalize_metadata_path (metadata/paths.rs), for registrations and  *)
(* overrides try_normalize_external_path (loader/path.rs), for questions to*)
(* the report parse_external_lookup_path (report.rs) and for typed patches *)
(* parse_patch_path (patch.rs).  Their loops are the same, one character at*)
(* a time; they differ in what they do with an index that does not fit and *)
(* with a wildcard.                                                        *)
(***************************************************************************)
EXTENDS Naturals, Sequences, SequencesExt

CONSTANTS
    Letters,    \* characters without a meaning of their own
    MaxIndex,   \* usize::MAX
    MaxLength   \* bound: how many characters are written

ASSUME SyntaxAssumption == MaxIndex \in Nat /\ MaxLength \in Nat

Digits == {"0", "1"}
Characters == Letters \cup Digits \cup {".", "[", "]", "*"}

Error == [outcome |-> "error", segments |-> <<>>, indices |-> {}]
Panic == [outcome |-> "panic", segments |-> <<>>, indices |-> {}]
Path(segments, indices) == [outcome |-> "path", segments |-> segments, indices |-> indices]

VARIABLES
    text,       \* what has been read
    reader      \* the locals of the loop

vars == <<text, reader>>

\* mode: in a name, between "[" and "]", behind an index, or returned with an error.
\* indices: which segments came from brackets; big: one of them exceeds usize.
Start == [mode |-> "name", segments |-> <<>>, current |-> <<>>, indices |-> {},
          expecting |-> TRUE, big |-> FALSE]

ValueOf(digits) == FoldLeft(LAMBDA n, d : 10 * n + (IF d = "1" THEN 1 ELSE 0), 0, digits)

\* Seeded fault: the leading zeros are cut, and nothing is left of a zero.
RewrittenTrimmed(digits) == SelectSeq(digits, LAMBDA d : d # "0")

\* index.parse::<usize>().to_string(): no leading zeros.
Rewritten(digits) ==
    LET ones == {i \in DOMAIN digits : digits[i] # "0"}
    IN  IF ones = {} THEN <<"0">>
        ELSE SubSeq(digits, CHOOSE i \in ones : \A j \in ones : i <= j, Len(digits))

Refused(r) == [r EXCEPT !.mode = "error"]
PushName(r) == [r EXCEPT !.segments = Append(@, r.current), !.current = <<>>]

\* Seeded fault: a name may follow an index without a dot.
CloseIndexExpecting(r) ==
    IF r.current = <<>> \/ ~ Range(r.current) \subseteq Digits THEN Refused(r)
    ELSE [r EXCEPT !.mode = "name", !.segments = Append(@, Rewritten(r.current)),
                   !.current = <<>>, !.expecting = FALSE,
                   !.indices = @ \cup {Len(r.segments) + 1},
                   !.big = @ \/ ValueOf(r.current) > MaxIndex]

\* parse_metadata_array_index and its copies, at the closing bracket.
CloseIndex(r) ==
    IF r.current = <<>> \/ ~ Range(r.current) \subseteq Digits THEN Refused(r)
    ELSE [r EXCEPT !.mode = "index", !.segments = Append(@, Rewritten(r.current)),
                   !.current = <<>>, !.expecting = FALSE,
                   !.indices = @ \cup {Len(r.segments) + 1},
                   !.big = @ \/ ValueOf(r.current) > MaxIndex]

\* One turn of the loop.
Read(r, c) ==
    CASE r.mode = "error" -> r
      [] r.mode = "bracket" -> IF c = "]" THEN CloseIndex(r) ELSE [r EXCEPT !.current = Append(@, c)]
      [] r.mode = "index" ->
           CASE c = "." -> [r EXCEPT !.mode = "name", !.expecting = TRUE]
             [] c = "[" -> [r EXCEPT !.mode = "bracket"]
             [] OTHER -> Refused(r)
      [] r.mode = "name" ->
           CASE c = "." /\ r.current # <<>> -> [PushName(r) EXCEPT !.expecting = TRUE]
             [] c = "[" /\ r.current # <<>> -> [PushName(r) EXCEPT !.mode = "bracket"]
             [] c = "]" \/ (c \in {".", "["} /\ r.current = <<>>) -> Refused(r)
             [] OTHER -> [r EXCEPT !.current = Append(@, c), !.expecting = FALSE]

Unclosed(r) ==
    \/ r.mode \in {"error", "bracket"}
    \/ r.expecting /\ r.segments # <<>> /\ r.current = <<>>

Segments(r) == IF r.current = <<>> THEN r.segments ELSE Append(r.segments, r.current)
Names(segments) == {s \in Range(segments) : "*" \in Range(s)}

\* What each parser returns when the text ends here.  An index that does not fit is an
\* error where it is parsed with map_err, and a panic where it is parsed with expect,
\* before anything behind it is looked at.
ExternalPath(t, r) ==
    IF t = <<".">> THEN Path(<<>>, {})
    ELSE IF r.big \/ Unclosed(r) THEN Error
    ELSE Path(Segments(r), {})

LookupPath(t, r) ==
    IF t = <<".">> THEN Path(<<>>, {})
    ELSE IF r.big \/ Unclosed(r) THEN Error
    ELSE Path(Segments(r), r.indices)

PatchPath(t, r) ==
    IF t = <<".">> THEN Path(<<>>, {})
    ELSE IF r.big THEN Panic
    ELSE IF Unclosed(r) THEN Error
    ELSE Path(Segments(r), r.indices)

\* Metadata only know the wildcard as a whole segment.
MetadataPath(t, r) ==
    IF t = <<".">> THEN Path(<<>>, {})
    ELSE IF r.big THEN Panic
    ELSE IF Unclosed(r) \/ Names(Segments(r)) \notin {{}, {<<"*">>}} THEN Error
    ELSE Path(Segments(r), {})

Init == text = <<>> /\ reader = Start

\* The next character of a path somebody writes.
Write(c) ==
    /\ Len(text) < MaxLength
    /\ text' = Append(text, c)
    /\ reader' = Read(reader, c)

Next == \E c \in Characters : Write(c)

Spec == Init /\ [][Next]_vars

-----------------------------------------------------------------------------
(* Properties *)

Results == {ExternalPath(text, reader), LookupPath(text, reader),
            PatchPath(text, reader), MetadataPath(text, reader)}

\* The grammar, said without a parser: pieces with dots between them, each a name
\* followed by indices in brackets.
IsPiece(w) ==
    LET opens == {i \in DOMAIN w : w[i] = "["}
        closes == {i \in DOMAIN w : w[i] = "]"}
    IN  /\ w # <<>> /\ w[1] \notin {"[", "]"}
        /\ \A i \in opens : \E j \in closes :
             /\ j > i + 1 /\ (\A k \in (i + 1)..(j - 1) : w[k] \in Digits)
             /\ j = Len(w) \/ j + 1 \in opens
        /\ \A j \in closes : \E i \in opens : i < j /\ \A k \in (i + 1)..(j - 1) : w[k] \in Digits

Pieces(t) ==
    LET ends == {0, Len(t) + 1} \cup {i \in DOMAIN t : t[i] = "."}
        Neighbours == {e \in ends \X ends : e[1] < e[2] /\ ~ \E k \in ends : e[1] < k /\ k < e[2]}
    IN  {SubSeq(t, e[1] + 1, e[2] - 1) : e \in Neighbours}

IsWritten(t) == t \in {<<>>, <<".">>} \/ \A w \in Pieces(t) : IsPiece(w)

Joined(segments) ==
    FoldLeft(LAMBDA acc, s : IF acc = <<>> THEN s ELSE acc \o <<".">> \o s, <<>>, segments)

\* The characters of names and indices, but for zeros: an index loses leading ones.
Keep(kept, c) == IF c \in {".", "[", "]", "0"} THEN kept ELSE Append(kept, c)
Kept(t) == FoldLeft(Keep, <<>>, t)

\* A path is accepted exactly when it is written by the grammar and its indices fit,
\* and no character of a name or an index is lost or moved: without brackets, dots
\* and zeros the text and its segments are the same characters in the same order.
AcceptsTheGrammar ==
    LET result == ExternalPath(text, reader)
    IN  /\ (result.outcome = "path") <=> (IsWritten(text) /\ ~ reader.big)
        /\ result.outcome = "path" => Kept(text) = Kept(Joined(result.segments))

\* The program stores paths in their canonical form and parses them again: that form
\* is accepted by every parser that produced it or reads it, as the same segments.
CanonicalFormIsStable ==
    \A result \in {r \in Results : r.outcome = "path"} :
        LET again == FoldLeft(Read, Start, Joined(result.segments))
        IN  /\ ExternalPath(Joined(result.segments), again).segments = result.segments
            /\ result = MetadataPath(text, reader) =>
                 MetadataPath(Joined(result.segments), again).segments = result.segments
=============================================================================

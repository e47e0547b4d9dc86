----------------------------- MODULE Migrations -----------------------------
(***************************************************************************)
(* apply_config_migrations of crates/tier/src/loader/load.rs: the merged   *)
(* values of all layers are upgraded from the version they carry to the    *)
(* version the loader supports.  The rules apply one after the other, in   *)
(* the order of the version that introduced them and, within a version, of *)
(* their registration; each moves or removes the value at one path.        *)
(***************************************************************************)
EXTENDS JsonTree, FiniteSets, SequencesExt

CONSTANTS
    Documents,    \* the merged values that may be there
    Values,       \* these values and all there is in them
    RuleLists,    \* the rules a program may register, in order of registration
    Watched,      \* paths of which it is observed whether they change
    VersionPath,  \* where the values carry their version
    Supported,    \* current_version: the newest version the program knows
    MaxU32        \* bound: stands for the largest u32

Paths(rules) == {rules[i].from : i \in DOMAIN rules}
                  \cup {rules[i].to : i \in {j \in DOMAIN rules : rules[j].kind = "rename"}}

ASSUME MigrationAssumption ==
    /\ Supported \in 0..MaxU32
    /\ VersionPath \in Seq(STRING) \ {<<>>} /\ Watched \subseteq Seq(STRING)
    /\ \A rules \in RuleLists :
          /\ DOMAIN rules = 1..Len(rules) /\ Len(rules) \in Nat
          /\ \A i \in DOMAIN rules : rules[i].since \in 0..MaxU32
          /\ Paths(rules) \subseteq Seq(STRING) \ {<<>>}
    /\ Documents \subseteq Values /\ Closed(Values)

VARIABLES
    original,   \* the merged values before the upgrade
    rules,      \* the registered rules
    merged,     \* the values being upgraded
    working,    \* working_version
    report,     \* the AppliedMigrations, in order
    outcome     \* "reading", "upgrading", "done", or the error

vars == <<original, rules, merged, working, report, outcome>>

Init ==
    /\ original \in Documents
    /\ rules \in RuleLists
    /\ merged = original
    /\ working = 0
    /\ report = <<>>
    /\ outcome = "reading"

\* as_u64, then u32::try_from
IsU32(v) == v.kind = "number" /\ v.number \in 0..MaxU32

\* read_config_version: values without a version have version 0; null, text and
\* numbers that are no u32 are refused, and so are versions yet to come.
ReadVersion ==
    LET found == GetAt(merged, CanonicalPath(merged, VersionPath))
    IN  /\ outcome = "reading"
        /\ \/ /\ found = Missing
              /\ outcome' = "upgrading"
              /\ UNCHANGED working
           \/ /\ found # Missing
              /\ ~ IsU32(found)
              /\ outcome' = "InvalidConfigVersion"
              /\ UNCHANGED working
           \/ /\ IsU32(found)
              /\ outcome' = IF found.number > Supported
                              THEN "UnsupportedConfigVersion" ELSE "upgrading"
              /\ working' = found.number
        /\ UNCHANGED <<original, rules, merged, report>>

\* The rules that may still apply: introduced after the working version.  A rule
\* the loop skips stays skipped, as the working version only grows.
Due == {i \in DOMAIN rules : working < rules[i].since /\ rules[i].since <= Supported}

\* Seeded fault: the rules are taken in the order of registration.
IsNextUnsorted(i) == i \in Due /\ \A j \in Due : i <= j

\* The stable sort by since_version.
IsNext(i) ==
    /\ i \in Due
    /\ \A j \in Due : \/ rules[i].since < rules[j].since
                      \/ rules[i].since = rules[j].since /\ i <= j

\* Seeded fault: the report names the version the upgrade started from.
AppliedFromOriginal(rule, from, to) ==
    [kind |-> rule.kind, from |-> from, to |-> to, toVersion |-> rule.since,
     fromVersion |-> IF report = <<>> THEN 0 ELSE report[1].fromVersion]

AppliedMigration(rule, from, to) ==
    [kind |-> rule.kind, from |-> from, to |-> to, toVersion |-> rule.since,
     fromVersion |-> working]

\* A rename whose old path is there: the value is taken, then inserted at the new
\* path, over what is there.  Both paths are canonicalized before the value is
\* taken, so they name the elements of the array as it was.  When the insertion
\* fails the load fails, and the values, half changed, are dropped with it.
ApplyRename(i) ==
    LET from == CanonicalPath(merged, rules[i].from)
        to == CanonicalPath(merged, rules[i].to)
        moved == InsertPath(Without(merged, from), to, GetAt(merged, from))
    IN  /\ outcome = "upgrading"
        /\ IsNext(i)
        /\ rules[i].kind = "rename"
        /\ Has(merged, from)
        /\ IF moved = Conflict
             THEN outcome' = "MetadataInvalid" /\ UNCHANGED <<merged, working, report>>
             ELSE /\ merged' = moved
                  /\ report' = Append(report, AppliedMigration(rules[i], from, to))
                  /\ working' = rules[i].since
                  /\ UNCHANGED outcome
        /\ UNCHANGED <<original, rules>>

ApplyRemove(i) ==
    LET from == CanonicalPath(merged, rules[i].from)
    IN  /\ outcome = "upgrading"
        /\ IsNext(i)
        /\ rules[i].kind = "remove"
        /\ Has(merged, from)
        /\ merged' = Without(merged, from)
        /\ report' = Append(report, AppliedMigration(rules[i], from, <<>>))
        /\ working' = rules[i].since
        /\ UNCHANGED <<original, rules, outcome>>

\* Nothing at the old path: no report, but the version moves on.
PassOver(i) ==
    /\ outcome = "upgrading"
    /\ IsNext(i)
    /\ ~ Has(merged, CanonicalPath(merged, rules[i].from))
    /\ working' = rules[i].since
    /\ UNCHANGED <<original, rules, merged, report, outcome>>

\* The loop is over: the values carry the supported version from now on.
Stamp ==
    /\ outcome = "upgrading"
    /\ Due = {}
    /\ LET stamped == InsertPath(merged, CanonicalPath(original, VersionPath), Number(Supported))
       IN  IF stamped = Conflict
             THEN outcome' = "InvalidConfigVersion" /\ UNCHANGED merged
             ELSE outcome' = "done" /\ merged' = stamped
    /\ UNCHANGED <<original, rules, working, report>>

Next ==
    \/ ReadVersion
    \/ \E i \in DOMAIN rules : ApplyRename(i) \/ ApplyRemove(i) \/ PassOver(i)
    \/ Stamp

Spec == Init /\ [][Next]_vars
-----------------------------------------------------------------------------
(***************************************************************************)
(* Properties.                                                             *)
(***************************************************************************)
\* Two paths on one branch, however their indices are written.
Plain(p) == [i \in DOMAIN p |-> IF IsIndex(p[i]) THEN CanonicalIndex(p[i]) ELSE p[i]]
Overlap(p, q) == IsPrefix(Plain(p), Plain(q)) \/ IsPrefix(Plain(q), Plain(p))

\* The version the values carried.
FoundVersion ==
    LET found == GetAt(original, VersionPath)
    IN  IF ~ IsU32(found) THEN 0 ELSE found.number

\* The rules an upgrade from that version has to apply.
Wanted == {i \in DOMAIN rules : FoundVersion < rules[i].since /\ rules[i].since <= Supported}

\* Something may be at the old path of rule i for another reason: the version, the
\* value another rule moves there, or an array element that moves up.
Refilled(i) ==
    \/ Overlap(VersionPath, rules[i].from)
    \/ \E j \in Wanted :
          \/ rules[j].kind = "rename" /\ Overlap(rules[j].to, rules[i].from)
          \/ IsIndex(Last(rules[j].from)) /\ Overlap(Front(rules[j].from), rules[i].from)

\* No legacy path survives an upgrade: "Migration action applied when upgrading
\* older configuration payloads", every one that was introduced since.
LegacyPathsGone ==
    outcome = "done" =>
        \A i \in Wanted : ~ Refilled(i) => ~ Has(merged, rules[i].from)

\* That is what happens, however the rules are registered, if each has a version of
\* its own (the sort, and the skip condition of the loop).
LegacyPathsGoneIfDistinct ==
    (\A i, j \in DOMAIN rules : rules[i].since = rules[j].since => i = j) => LegacyPathsGone

Reported(v, m) ==
    IF m.kind = "remove" THEN Without(v, m.from)
    ELSE InsertPath(Without(v, m.from), m.to, GetAt(v, m.from))

\* What the first i reported steps make of v.
History(v, steps) ==
    LET after[i \in 0..Len(steps)] == IF i = 0 THEN v ELSE Reported(after[i - 1], steps[i])
    IN  after

\* The report is an audit trail (record_migration): the reported steps, done one
\* after the other to the values that were loaded, give the upgraded values, and
\* no step starts at a version older than the one the step before it led to.
ReportTellsHistory ==
    LET replayed == History(original, report)[Len(report)]
    IN  /\ outcome = "upgrading" => merged = replayed
        /\ outcome = "done" =>
              merged = InsertPath(replayed, CanonicalPath(original, VersionPath), Number(Supported))
        /\ \A i \in 1..(Len(report) - 1) : report[i].toVersion <= report[i + 1].fromVersion
        /\ report # <<>> => FoundVersion <= report[1].fromVersion

\* The part of the tree a step at path p may change: with an element its array.
Around(p) == IF IsIndex(Last(p)) THEN Front(p) ELSE p

\* An upgrade leaves alone what no rule names: values beside, above and below the
\* paths of the rules, also in arrays, are what they were (take_value_at_path,
\* insert_path); but where an array has to grow, elements are made up.
OthersUntouched ==
    LET named == Paths(rules) \cup {VersionPath}
        MadeUp(p) ==
            /\ p # <<>> /\ IsIndex(Last(p)) /\ ~ Has(original, p)
            /\ GetAt(merged, p) \in {Null, EmptyObject, Array(<<>>)}
            /\ \E q \in named : IsStrictPrefix(Plain(Front(p)), Plain(q))
    IN  outcome = "done" =>
          \A p \in Watched :
              (\A q \in named : ~ Overlap(p, Around(q))) =>
                  GetAt(merged, p) = GetAt(original, p) \/ MadeUp(p)
=============================================================================

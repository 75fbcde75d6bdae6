------------------------------ MODULE DataTier ------------------------------
(***************************************************************************)
(* scripts-tools/reconcile_datatier.py: what consuming repositories        *)
(* declare in their manifests against the entries of the Helm values, and  *)
(* the stubs that --apply adds for what is missing.                        *)
(*                                                                         *)
(* A declaration is [repo, store, role, db]; an entry is [role, name, dbs, *)
(* enabled], dbs being its database or, for mongo, the databases it        *)
(* grants. For neo4j the role is the instance.                             *)
(***************************************************************************)
EXTENDS Integers, Sequences, SequencesExt

SUPPORTED_STORES == {"postgres", "mariadb", "mongo", "neo4j"}

\* The spellings of a role that are tried, in order.
Spellings(store, role) ==
    IF store = "neo4j" \/ role # "a_svc" THEN <<role>> ELSE <<role, "a">>

\* The keys an entry is indexed by; a later entry replaces an earlier one.
Keys(store, e) == IF store = "neo4j" THEN {e.name} ELSE {e.role, e.name}

Indexed(store, list, key) == {i \in DOMAIN list : key \in Keys(store, list[i])}

\* The entry that a declaration finds, as its index; 0 for none.
Existing(list, d) ==
    LET found == SelectSeq(Spellings(d.store, d.role), LAMBDA k : Indexed(d.store, list, k) # {})
    IN  IF found = <<>> THEN 0 ELSE Max(Indexed(d.store, list, Head(found)))

Disabled(e) == {s \in {"DISABLED"} : ~e.enabled}

_check_postgres(e, d) == Disabled(e) \cup {s \in {"DB_MISMATCH"} : d.db \notin e.dbs}
_check_mariadb(e, d) == Disabled(e) \cup {s \in {"DB_MISMATCH"} : d.db \notin e.dbs}
_check_mongo(e, d) == Disabled(e) \cup {s \in {"GRANT_MISSING"} : d.db \notin e.dbs}
_check_neo4j(e) == Disabled(e)

_check(e, d) ==
    CASE d.store = "postgres" -> _check_postgres(e, d)
      [] d.store = "mariadb" -> _check_mariadb(e, d)
      [] d.store = "mongo" -> _check_mongo(e, d)
      [] d.store = "neo4j" -> _check_neo4j(e)

\* The gaps of one declaration; a store that is not supported is skipped.
detect_gaps(list, d) ==
    IF d.store \notin SUPPORTED_STORES THEN {}
    ELSE IF Existing(list, d) = 0 THEN {"MISSING"}
    ELSE _check(list[Existing(list, d)], d)

\* Mutant: a grant that is missing does not fail the job.
blocking_missing(list, d) == detect_gaps(list, d) \cap {"MISSING"}

blocking(list, d) == detect_gaps(list, d) \cap {"MISSING", "GRANT_MISSING"}

ExitCode(list, ds) == IF \E i \in DOMAIN ds : blocking(list, ds[i]) # {} THEN 1 ELSE 0

\* Mutant: a stub is enabled, before there is a secret for it.
_snippet_enabled(d) == [role |-> d.role, name |-> d.repo, dbs |-> {d.db}, enabled |-> TRUE]

_snippet(d) == [role |-> d.role, name |-> d.repo, dbs |-> {d.db}, enabled |-> FALSE]

\* Mutant: the search for the key is for its inline form only.
Insert_inline(header, list, stubs) == IF header = "inline" THEN stubs \o list ELSE stubs

\* The stubs go after a line that holds the key and nothing else; without one, a second
\* key is written at the end, and the YAML reader keeps the last of two.
Insert(header, list, stubs) == IF header = "bare" THEN stubs \o list ELSE stubs

apply_gaps(header, list, ds) ==
    LET missing == SelectSeq(ds, LAMBDA d : "MISSING" \in blocking(list, d) /\ d.store # "neo4j")
    IN  IF missing = <<>> THEN list
        ELSE Insert(header, list, [i \in DOMAIN missing |-> _snippet(missing[i])])

------------------------------------------------------------------------------
(* Inputs: one store, up to two entries and two declarations               *)

Entries == [role : {"a", "a_svc"}, name : {"a", "r1"}, dbs : {{1}, {2}}, enabled : BOOLEAN]
Decls(store) == [repo : {"r1", "r2"}, store : {store}, role : {"a", "a_svc"}, db : {1, 2}]

\* The key's own line in the chart: entries below it, an empty inline list, or no key.
Inputs ==
    UNION {[header : {"bare"}, list : BoundedSeq(Entries, 1), ds : BoundedSeq(Decls(s), 2)]
           \cup [header : {"bare"}, list : {<<e, f>> : e, f \in Entries}, ds : {<<d>> : d \in Decls(s)}]
           \cup [header : {"inline", "absent"}, list : {<<>>}, ds : BoundedSeq(Decls(s), 2)]
           : s \in SUPPORTED_STORES \cup {"redis"}}

------------------------------------------------------------------------------
(* Properties of an input                                                  *)

\* "All dataTier declarations are provisioned" (exit 0): each has an entry under one of
\* the spellings of its role, and for mongo the grant on its database.
GreenIsProvisioned(x) ==
    ExitCode(x.list, x.ds) = 0 =>
        \A i \in DOMAIN x.ds : LET d == x.ds[i] IN d.store \in SUPPORTED_STORES =>
            \E j \in DOMAIN x.list :
                /\ Keys(d.store, x.list[j]) \cap Range(Spellings(d.store, d.role)) # {}
                /\ d.store = "mongo" => d.db \in x.list[j].dbs

\* After --apply nothing is missing but neo4j instances, and nothing else has become
\* blocking, unless mongo declarations find one another's stubs.
ApplySettles(x) ==
    LET after == apply_gaps(x.header, x.list, x.ds)
    IN  \A i \in DOMAIN x.ds :
            LET d == x.ds[i] IN
            /\ d.store # "neo4j" => "MISSING" \notin blocking(after, d)
            /\ blocking(x.list, d) = {} => blocking(after, d) = {}
            /\ d.store = "mongo" /\ Len(x.ds) = 1 /\ blocking(x.list, d) = {"MISSING"} => blocking(after, d) = {}

\* --apply takes no entry away and enables none: what it adds waits for its secret.
ApplyOnlyAddsStubs(x) ==
    LET after == apply_gaps(x.header, x.list, x.ds)
        n == Len(after) - Len(x.list)
    IN  /\ n >= 0 /\ SubSeq(after, n + 1, Len(after)) = x.list
        /\ \A i \in 1..n : ~after[i].enabled
=============================================================================

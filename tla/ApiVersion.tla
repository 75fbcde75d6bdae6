----------------------------- MODULE ApiVersion -----------------------------
(***************************************************************************)
(* scripts/gate_api_version.py: every HTTP route, and every path a client  *)
(* hard-codes, lies under /api/v{N}/.                                      *)
(*                                                                         *)
(* A route is a shape: <<"versioned", r>>, <<"templated", r>>, <<"plain",  *)
(* r>> (/api/r), <<"bare", "">> (/api/), <<"exempt", r>>.  A tree x is     *)
(* [git, yaml, allow, specs, lines]: whether git lists the files, whether  *)
(* PyYAML is installed, the allowlist ("absent", "unreadable" or a set in  *)
(* a tuple), the spec files and the source lines that hold a path.         *)
(***************************************************************************)
EXTENDS Integers, FiniteSets

EXEMPT_EXACT == {<<"exempt", "health">>}

is_exempt(route) == route \in EXEMPT_EXACT

VERSIONED_RE(route) == route[1] \in {"versioned", "templated"}
BARE_PREFIX_RE(route) == route[1] = "bare"

\* What git tracks, without the build directories; the walk of the tree, taken when git
\* fails or lists nothing, sees the untracked files too.
_tracked_files(x, files) ==
    LET listed == {f \in files : f.tracked}
    IN  {f \in IF x.git /\ listed # {} THEN listed ELSE files : ~f.pruned}

GateError == {<<"error", "">>}

load_allowlist(x) == IF x.allow[1] = "set" THEN x.allow[2] ELSE {}

AllowlistError(x) == x.allow[1] = "unreadable"

\* Mutant: without PyYAML the YAML specifications are skipped.
_load_spec_lenient(x, spec) ==
    IF spec.doc[1] = "unparsable" /\ (spec.json \/ x.yaml) THEN "error"
    ELSE IF ~spec.json /\ ~x.yaml THEN "other" ELSE spec.doc[1]

\* The document of a spec file: "error" where it cannot be read or parsed.
_load_spec(x, spec) ==
    IF spec.doc[1] = "unparsable" \/ (~spec.json /\ ~x.yaml) THEN "error" ELSE spec.doc[1]

\* A document that is no OpenAPI document is skipped; one without a mapping of paths
\* is an error.
check_spec(x, spec) ==
    LET doc == _load_spec(x, spec)
    IN  CASE doc = "error"   -> GateError
          [] doc = "other"   -> {}
          [] doc = "noPaths" -> GateError
          [] doc = "paths"   -> {r \in spec.doc[2] : ~is_exempt(r) /\ r \notin load_allowlist(x) /\ ~VERSIONED_RE(r)}

check_contracts(x) == UNION {check_spec(x, s) : s \in _tracked_files(x, x.specs)}

\* Test sources, by a directory or by the name of the file, are no clients.
is_test_source(line) == line.place \in {"testDir", "testName"}

\* The docstrings of a Python file; none of one that does not parse.
python_docstring_lines(line) == line.place # "brokenPy" /\ line.kind = "docstring"

COMMENT_LINE_RE(line) == line.kind = "comment"

\* Mutant: a file that does not parse has no line to scan.
check_callers_parsed(x) ==
    {l.route : l \in {l \in _tracked_files(x, x.lines) :
        /\ ~is_test_source(l) /\ ~COMMENT_LINE_RE(l) /\ ~python_docstring_lines(l) /\ l.place # "brokenPy"
        /\ ~is_exempt(l.route) /\ l.route \notin load_allowlist(x)
        /\ ~BARE_PREFIX_RE(l.route) /\ ~VERSIONED_RE(l.route)}}

check_callers(x) ==
    {l.route : l \in {l \in _tracked_files(x, x.lines) :
        /\ ~is_test_source(l) /\ ~COMMENT_LINE_RE(l) /\ ~python_docstring_lines(l)
        /\ ~is_exempt(l.route) /\ l.route \notin load_allowlist(x)
        /\ ~BARE_PREFIX_RE(l.route) /\ ~VERSIONED_RE(l.route)}}

\* main, with and without --callers.
ExitCode(x, callers) ==
    IF AllowlistError(x) \/ (IF callers THEN check_callers(x) ELSE check_contracts(x)) # {} THEN 1 ELSE 0

------------------------------------------------------------------------------
(* Inputs                                                                  *)

Accounts == <<"plain", "accounts">>
Routes == {<<"versioned", "accounts">>, Accounts, <<"exempt", "health">>}
Docs == {<<"unparsable">>, <<"other">>, <<"noPaths">>} \cup {<<"paths", r>> : r \in SUBSET Routes \ {{}}}
Specs == {[tracked |-> t, pruned |-> FALSE, json |-> j, doc |-> d] : t \in BOOLEAN, j \in BOOLEAN, d \in Docs}
Lines == {[tracked |-> TRUE, pruned |-> FALSE, place |-> p, kind |-> k, route |-> r] :
            p \in {"py", "brokenPy", "ts", "testDir", "testName"}, k \in {"code", "comment", "docstring"},
            r \in {<<"templated", "accounts">>, <<"bare", "">>, Accounts, <<"exempt", "health">>}}
Generated == [tracked |-> TRUE, pruned |-> TRUE, place |-> "ts", kind |-> "code", route |-> Accounts]
Allows == {<<"absent">>, <<"unreadable">>, <<"set", {Accounts}>>}

Tree(git, yaml, allow, specs, lines) ==
    [git |-> git, yaml |-> yaml, allow |-> allow, specs |-> specs, lines |-> lines]

Inputs ==
    {Tree(g, y, a, {s}, {Generated}) : g \in BOOLEAN, y \in BOOLEAN, a \in Allows, s \in Specs}
    \cup {Tree(TRUE, y, <<"absent">>, {s, t}, {}) : y \in BOOLEAN, s, t \in Specs}
    \cup {Tree(g, TRUE, a, {}, {l, Generated}) : g \in BOOLEAN, a \in Allows, l \in Lines}

------------------------------------------------------------------------------
(* Properties of a tree                                                    *)

\* "Every undecidable state is a failure, never a pass": where the contract check is
\* green, whatever the untracked files are, the routes of every committed specification
\* are known and each is versioned, exempt or excused.
GreenContractsKnown(x) ==
    ExitCode(x, FALSE) = 0 => \A s \in x.specs : s.tracked /\ ~s.pruned =>
        \/ s.doc[1] = "other" /\ (s.json \/ x.yaml)
        \/ /\ s.doc[1] = "paths" /\ (s.json \/ x.yaml)
           /\ \A r \in s.doc[2] : r = Accounts => x.allow = <<"set", {Accounts}>>

\* "A syntax error must not become a way to hide a path": where the caller check is
\* green no line of a shipped client calls an unversioned path that nobody excused,
\* a docstring of a file that parses and a comment being no calls.
GreenCallersVersioned(x) ==
    ExitCode(x, TRUE) = 0 => \A l \in x.lines :
        /\ ~l.pruned /\ l.place \in {"py", "brokenPy", "ts"} /\ l.route = Accounts
        /\ l.kind = "code" \/ (l.kind = "docstring" /\ l.place = "brokenPy")
        => x.allow = <<"set", {Accounts}>>
=============================================================================

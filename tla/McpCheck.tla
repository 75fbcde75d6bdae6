------------------------------- MODULE McpCheck -------------------------------
(***************************************************************************)
(* The deterministic half of mcp-maintain (scripts/mcp_check.py): which    *)
(* operations of a repository's OpenAPI document become tools, whether     *)
(* their number is within the policy's bounds, whether the confirmation    *)
(* guards of the manifest guard anything, and whether the committed tool   *)
(* manifest is the one the document projects to.                           *)
(*                                                                         *)
(* Paths and operation ids are numbers, ordered as their strings are; a    *)
(* tool is reduced to its name and its mutates flag.                       *)
(***************************************************************************)
EXTENDS Naturals, Sequences, FiniteSets, SequencesExt

None == 0

_TOOL_METHODS == {"get", "post", "put", "patch", "delete"}

\* The methods in the order of their names, which breaks ties in a trim.
MethodOrder == <<"delete", "get", "head", "patch", "post", "put">>

MethodRank(op) == CHOOSE i \in DOMAIN MethodOrder : MethodOrder[i] = op.method

tool_name(op) == IF op.id # None THEN op.id ELSE 10 * op.path + 100 * MethodRank(op)

is_safe_read(op) == op.method = "get"

mutates(op) == ~is_safe_read(op) /\ op.method # "head"

iter_operations(spec) == SelectSeq(spec, LAMBDA op : op.method \in _TOOL_METHODS)

is_excluded(op, policy) ==
    \/ policy.deprecated /\ op.deprecated
    \/ op.id # None /\ op.id \in policy.operationIds
    \/ op.tags \cap policy.tags # {}
    \/ op.path \in policy.pathGlobs

eligible_operations(ops, policy) == SelectSeq(ops, LAMBDA op : ~is_excluded(op, policy))

select_tools(eligible) ==
    LET explicit == SelectSeq(eligible, LAMBDA op : op.expose = "true")
    IN  IF explicit # <<>> THEN explicit
        ELSE SelectSeq(eligible, LAMBDA op : is_safe_read(op) /\ op.expose # "false")

\* The floor is min(eligible, minTools).
enforce_bounds(selected, count, policy) ==
    (IF Len(selected) > policy.maxTools THEN {"over"} ELSE {})
      \cup (IF Len(selected) < count /\ Len(selected) < policy.minTools THEN {"under"} ELSE {})

Before(o, p) == \/ o.priority < p.priority
                \/ o.priority = p.priority /\ o.path < p.path
                \/ o.priority = p.priority /\ o.path = p.path /\ MethodRank(o) < MethodRank(p)

\* Mutant: operations of the same rank stay in the order they were met.
apply_ranked_trim_unstable(selected, policy) ==
    LET sorted == SetToSortSeq(DOMAIN selected,
                      LAMBDA i, j : \/ selected[i].priority < selected[j].priority
                                    \/ selected[i].priority = selected[j].priority /\ i < j)
    IN  [i \in 1..policy.maxTools |-> selected[sorted[i]]]

\* The policy's cut of an over-long selection. A missing priority is the largest number there is.
apply_ranked_trim(selected, policy) ==
    SubSeq(SetToSortSeq(ToSet(selected), Before), 1, policy.maxTools)

project_tool(op) == [name |-> tool_name(op), mutates |-> mutates(op)]

\* Mutant: the manifest keeps the order of the specification.
build_tools_json_unsorted(selected) == [i \in DOMAIN selected |-> project_tool(selected[i])]

build_tools_json(selected) ==
    LET order == SetToSortSeq(DOMAIN selected,
                     LAMBDA i, j : \/ tool_name(selected[i]) < tool_name(selected[j])
                                   \/ tool_name(selected[i]) = tool_name(selected[j]) /\ i < j)
    IN  [i \in DOMAIN selected |-> project_tool(selected[order[i]])]

\* Mutant: a declared tool need only be there.
_irreversible_violations_any(declared, selected) ==
    {n \in declared : ~\E i \in DOMAIN selected : tool_name(selected[i]) = n}

\* by_name keeps the last of two selected operations of one name.
_irreversible_violations(declared, selected) ==
    LET named(n) == {i \in DOMAIN selected : tool_name(selected[i]) = n}
    IN  {n \in declared :
            \/ named(n) = {}
            \/ ~mutates(selected[CHOOSE i \in named(n) : \A j \in named(n) : j <= i])}

\* The selection the manifest is built from, after the trim a ranked policy asks for.
Trimmed(selected, policy) ==
    IF Len(selected) > policy.maxTools /\ policy.mode = "ranked"
    THEN apply_ranked_trim(selected, policy) ELSE selected

Result(status, expected, wrote) == [status |-> status, expected |-> expected, wrote |-> wrote]

\* Mutant: the irreversible tools are looked for before the trim.
check_guards_first(x, committed, write) ==
    LET eligible == eligible_operations(iter_operations(x.ops), x.policy)
        all      == select_tools(eligible)
        selected == Trimmed(all, x.policy)
        expected == build_tools_json(selected)
    IN  CASE x.spec = "none" -> Result("no-surface", <<>>, FALSE)
          [] x.spec \in {"missing", "unparsable"} -> Result("violation", <<>>, FALSE)
          [] OTHER ->
               IF eligible = <<>> THEN Result("no-surface", <<>>, FALSE)
               ELSE IF enforce_bounds(selected, Len(eligible), x.policy) # {}
                         \/ _irreversible_violations(x.irreversible, all) # {}
               THEN Result("violation", expected, FALSE)
               ELSE IF committed = {expected} THEN Result("in-sync", expected, FALSE)
               ELSE Result(IF write THEN "reconciled" ELSE "drift", expected, write)

\* "spec" is what the manifest's gateway spec turns out to be; "committed" holds the tool manifest
\* on disk, and is empty when that is absent or not JSON.
check(x, committed, write) ==
    LET eligible == eligible_operations(iter_operations(x.ops), x.policy)
        selected == Trimmed(select_tools(eligible), x.policy)
        expected == build_tools_json(selected)
    IN  CASE x.spec = "none" -> Result("no-surface", <<>>, FALSE)
          [] x.spec \in {"missing", "unparsable"} -> Result("violation", <<>>, FALSE)
          [] OTHER ->
               IF eligible = <<>> THEN Result("no-surface", <<>>, FALSE)
               ELSE IF enforce_bounds(selected, Len(eligible), x.policy) # {}
                         \/ _irreversible_violations(x.irreversible, selected) # {}
               THEN Result("violation", expected, FALSE)
               ELSE IF committed = {expected} THEN Result("in-sync", expected, FALSE)
               ELSE Result(IF write THEN "reconciled" ELSE "drift", expected, write)

ExitCode(x, committed, write) ==
    IF check(x, committed, write).status \in {"drift", "violation"} THEN 1 ELSE 0

-----------------------------------------------------------------------------
(* Documents of three operations on two paths.                             *)

Variants == {[id |-> TRUE, deprecated |-> FALSE, expose |-> e, priority |-> p, tags |-> {}] :
               e \in {"true", "absent"}, p \in {1, 2}}
            \cup {[id |-> FALSE, deprecated |-> FALSE, expose |-> "true", priority |-> 9, tags |-> {}],
                  [id |-> TRUE, deprecated |-> TRUE, expose |-> "true", priority |-> 1, tags |-> {}],
                  [id |-> TRUE, deprecated |-> FALSE, expose |-> "false", priority |-> 9, tags |-> {"t"}]}

Op(path, method, n, v) ==
    [path |-> path, method |-> method, id |-> IF v.id THEN n ELSE None, deprecated |-> v.deprecated,
     expose |-> v.expose, priority |-> v.priority, tags |-> v.tags]

Policies == {[maxTools |-> mx, minTools |-> mn, mode |-> md, deprecated |-> TRUE,
              operationIds |-> e.ids, tags |-> e.tags, pathGlobs |-> e.globs] :
                mx \in {1, 2}, mn \in {1, 2}, md \in {"curated", "ranked"},
                e \in {[ids |-> {}, tags |-> {}, globs |-> {}], [ids |-> {1}, tags |-> {"t"}, globs |-> {}],
                       [ids |-> {}, tags |-> {}, globs |-> {2}]}}

Inputs == {[spec |-> s, ops |-> o, policy |-> p, irreversible |-> r] :
             s \in {"none", "missing", "unparsable"}, o \in {<<>>}, p \in Policies, r \in {{}}}
          \cup
          {[spec |-> "read", ops |-> <<Op(2, "get", 3, v[1]), Op(1, "get", 1, v[2]), Op(1, m[1], 2, v[3])>>,
            policy |-> p, irreversible |-> m[2]] :
             v \in Variants \X Variants \X Variants, m \in {<<"delete", {2}>>, <<"head", {3}>>}, p \in Policies}

\* The document with its paths, and the methods of its last path, written the other way round.
Reordered(x) == IF x.ops = <<>> THEN x ELSE [x EXCEPT !.ops = Reverse(@)]

-----------------------------------------------------------------------------
(* Properties.                                                             *)

\* A tool manifest the check accepts exposes no more tools than the cap and every tool the manifest
\* calls irreversible, as one that mutates: a guard on a tool that the trim dropped, or on a read,
\* protects nothing (check, _irreversible_violations).
GuardsAreExposed(x) ==
    \A write \in BOOLEAN :
      LET r == check(x, {}, write)
      IN  r.status \in {"reconciled", "drift"} =>
            /\ Len(r.expected) <= x.policy.maxTools
            /\ \A n \in x.irreversible :
                 \E i \in DOMAIN r.expected : r.expected[i].name = n /\ r.expected[i].mutates

\* The verdict and the tools depend on what the document says and not on the order it says it in,
\* trimmed or not, so that rewriting a document never makes the committed manifest stale.
OrderIrrelevant(x) == check(x, {}, TRUE) = check(Reordered(x), {}, TRUE)

\* What --write leaves behind is what the next check accepts, also of the reordered document; and
\* without --write nothing passes that would have had to be written.
WriteSettles(x) ==
    LET w == check(x, {}, TRUE)
    IN  /\ w.wrote => /\ ExitCode(x, {w.expected}, FALSE) = 0
                      /\ check(Reordered(x), {w.expected}, FALSE).status = "in-sync"
        /\ w.wrote <=> ExitCode(x, {}, FALSE) = 1 /\ ExitCode(x, {}, TRUE) = 0
===============================================================================

-------------------------- MODULE ExtractionIssues --------------------------
(***************************************************************************)
(* scripts/gate_ds_conformance.py --emit-issues: a run looks for recurring *)
(* patterns, asks GitHub whether there is an issue for each, and opens one *)
(* if not.  Runs of several pull requests overlap, and calls fail.         *)
(***************************************************************************)
EXTENDS Integers, Sequences, FiniteSets

CONSTANTS
    GateRuns, Patterns,
    MaxGhFaults     \* bound: calls to GitHub that fail

VARIABLES
    found,          \* run -> candidates not yet dealt with
    asked,          \* run -> patterns it knows to have no issue
    issues,         \* opened issues, by pattern, in order
    ghFaults,
    pairs           \* history: patterns two runs had asked about at once

issueVars == <<found, asked, issues, ghFaults, pairs>>

\* Candidates: patterns that recur in more than one file, of whatever is checked out.
detect_extraction_candidates == SUBSET Patterns

Init ==
    /\ found \in [GateRuns -> detect_extraction_candidates]
    /\ asked = [r \in GateRuns |-> {}] /\ issues = <<>> /\ ghFaults = 0 /\ pairs = {}

Listed(p) == \E i \in DOMAIN issues : issues[i] = p

\* Mutant: a search that fails counts as no issue.
gh_issue_exists_open(p, failed) == ~failed /\ Listed(p)

\* A search that fails counts as an issue: nothing is opened.
gh_issue_exists(p, failed) == failed \/ Listed(p)

Ask(r, p) ==
    /\ p \in found[r] /\ asked[r] = {}
    /\ found' = [found EXCEPT ![r] = @ \ {p}]
    /\ \E failed \in {f \in BOOLEAN : f => ghFaults < MaxGhFaults} :
         /\ asked' = [asked EXCEPT ![r] = IF gh_issue_exists(p, failed) THEN {} ELSE {p}]
         /\ ghFaults' = IF failed THEN ghFaults + 1 ELSE ghFaults
    /\ pairs' = pairs \cup {q \in asked'[r] : \E s \in GateRuns \ {r} : q \in asked[s]}
    /\ UNCHANGED issues

open_extraction_issue(r, p) ==
    /\ p \in asked[r]
    /\ asked' = [asked EXCEPT ![r] = {}]
    /\ \/ issues' = Append(issues, p) /\ UNCHANGED ghFaults
       \/ ghFaults < MaxGhFaults /\ ghFaults' = ghFaults + 1 /\ UNCHANGED issues
    /\ UNCHANGED <<found, pairs>>

Next == \E r \in GateRuns, p \in Patterns : Ask(r, p) \/ open_extraction_issue(r, p)

------------------------------------------------------------------------------
(* Properties                                                              *)

\* "idempotent": whatever calls fail, a pattern gets one issue, unless two runs asked
\* before either had opened it.
OneIssueEach ==
    \A i, j \in DOMAIN issues : issues[i] = issues[j] /\ issues[i] \notin pairs => i = j
=============================================================================

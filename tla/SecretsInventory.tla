-------------------------- MODULE SecretsInventory --------------------------
(***************************************************************************)
(* scripts/secrets_inventory.py: where a secret exists in the fleet, by    *)
(* the listings of each repository, any of which may fail, against the     *)
(* rule the policy has for it.                                             *)
(*                                                                         *)
(* One secret, S.  A repository is [stores, onboarded, workflow, failed]:  *)
(* the stores that hold S, whether it has a manifest, whether it carries   *)
(* the workflow that needs S, and the reads that fail.  A rule is [exact,  *)
(* propagation, onboardedOnly, scope].                                     *)
(***************************************************************************)
EXTENDS Integers, Sequences, SequencesExt, FiniteSets

Stores == {"actions", "dependabot", "environment"}
Reads == Stores \cup {"manifest", "workflows"}

\* What a listing shows; one that fails shows nothing.
_safe(repo, store) == store \notin repo.failed /\ store \in repo.stores

\* Mutant: a listing that fails leaves no trace.
collect_repo_silent(repo) ==
    [name |-> repo.name,
     stores |-> {s \in Stores : _safe(repo, s)},
     errors |-> {},
     onboarded |-> repo.onboarded /\ "manifest" \notin repo.failed,
     workflow |-> repo.workflow /\ "workflows" \notin repo.failed]

\* What is collected of a repository; errors of two of the reads are not noted.
collect_repo(repo) ==
    [name |-> repo.name,
     stores |-> {s \in Stores : _safe(repo, s)},
     errors |-> repo.failed \ {"manifest", "workflows"},
     onboarded |-> repo.onboarded /\ "manifest" \notin repo.failed,
     workflow |-> repo.workflow /\ "workflows" \notin repo.failed]

\* Mutant: the first rule that matches, whether exact or not.
match_rule_first(policy) == IF policy = <<>> THEN <<>> ELSE <<Head(policy)>>

\* Exact names win over patterns; the first of them.
match_rule(policy) ==
    LET exact == SelectSeq(policy, LAMBDA r : r.exact)
    IN  IF exact # <<>> THEN <<Head(exact)>> ELSE IF policy # <<>> THEN <<Head(policy)>> ELSE <<>>

in_scope(rule, repo) ==
    /\ rule.onboardedOnly => repo.onboarded
    /\ CASE rule.scope = "only r1" -> repo.name = "r1"
         [] rule.scope = "workflow" -> repo.workflow
         [] rule.scope = "all" -> rule.propagation # "conditional"
         [] rule.scope = "except r1" -> rule.propagation # "conditional" /\ repo.name # "r1"

Required(rule) == rule.propagation \in {"fleet", "conditional"}

Gaps(rule, repos) ==
    IF Required(rule) THEN {r.name : r \in {q \in repos : in_scope(rule, q) /\ q.stores = {}}} ELSE {}

\* The rows of S: by the rule that matches it where it exists, else by each rule of its name.
missing_from(policy, repos) ==
    IF \E r \in repos : r.stores # {}
    THEN UNION {Gaps(rule, repos) : rule \in Range(match_rule(policy))}
    ELSE UNION {Gaps(rule, repos) : rule \in {q \in Range(policy) : q.exact}}

Collected(x) == {collect_repo(r) : r \in x.repos}

\* main, with --strict.
ExitCode(x) == IF missing_from(x.policy, Collected(x)) # {} THEN 2 ELSE 0

------------------------------------------------------------------------------
(* Inputs                                                                  *)

Rules == [exact : BOOLEAN, propagation : {"fleet", "conditional", "hub-only", "per-repo"},
          onboardedOnly : BOOLEAN, scope : {"only r1", "workflow", "all", "except r1"}]

\* A pattern for everything else, which the code must look at last.
CatchAll == [exact |-> FALSE, propagation |-> "per-repo", onboardedOnly |-> FALSE, scope |-> "all"]

Repo1 == [name : {"r1"}, stores : SUBSET Stores, onboarded : BOOLEAN, workflow : BOOLEAN,
          failed : {{}} \cup {{f} : f \in Reads}]
Repo2 == [name : {"r2"}, stores : {{}, {"actions"}}, onboarded : {TRUE}, workflow : {TRUE}, failed : {{}}]

Inputs == [policy : {<<r>> : r \in Rules} \cup {<<CatchAll, r>> : r \in {q \in Rules : Required(q)}},
           repos : {{a, b} : a \in Repo1, b \in Repo2}]

------------------------------------------------------------------------------
(* Properties of an input                                                  *)

\* "exit 2 if any required secret is missing": with exit 0 no repository that a required
\* rule is about lacks S in truth, unless its manifest or its workflows could not be
\* read, which nothing reports; S exists nowhere and its rule is a pattern; or the rule
\* is not the one that matches.
StrictFindsGaps(x) ==
    LET rule == IF Last(x.policy).exact THEN Last(x.policy) ELSE Head(x.policy) IN
    ExitCode(x) = 0 /\ Required(rule) /\ (rule.exact \/ \E r \in Collected(x) : r.stores # {}) =>
        \A r \in x.repos : in_scope(rule, r) /\ r.failed \cap {"manifest", "workflows"} = {} => r.stores # {}

\* A gap that is reported is one, or the report shows the read that failed.
GapsAreReal(x) ==
    \A n \in missing_from(x.policy, Collected(x)) : \E r \in x.repos :
        /\ r.name = n
        /\ r.stores = {} \/ collect_repo(r).errors # {}
        /\ \E rule \in Range(x.policy) : Required(rule) /\ in_scope(rule, r)
=============================================================================

--------------------------- MODULE RequiredChecks ---------------------------
(***************************************************************************)
(* scripts/gate_required_checks.py: the audit of the status checks a       *)
(* repository requires, against the jobs of its workflows.                 *)
(*                                                                         *)
(* A job is [file, id, name, pr, runner, vacuous]; pr is "all", "paths" or *)
(* "none".  A runner is a pair: <<"hosted", "">>, a self-hosted pool, an   *)
(* expression with a hosted default, or the output of a chooser job.       *)
(***************************************************************************)
EXTENDS Integers, Sequences, SequencesExt, FiniteSets

\* Contexts are keyed by the job's name; of two the one in the later file is kept.
load_workflows(jobs, name) ==
    LET at == {i \in DOMAIN jobs : jobs[i].name = name}
    IN  IF at = {} THEN {} ELSE {jobs[Max(at)]}

\* Mutant: any expression is taken for one with a hosted default.
runner_finding_expr(x, job) == job.runner[1] = "pool"

\* A runner that can queue for ever: a pool, or a chooser that is missing or runs on a
\* pool that is not allowed.
runner_finding(x, job) ==
    \/ job.runner[1] = "pool"
    \/ /\ job.runner[1] = "chooser"
       /\ LET found == load_workflows(x.jobs, job.runner[2])
          IN  found = {} \/ \E c \in found : c.runner[1] = "pool" /\ c.runner[2] \notin x.allowed

\* Mutant: a trigger with a path filter will do.
NotOnEveryPr_any(job) == job.pr = "none"

NotOnEveryPr(job) == job.pr # "all"

\* C1, C2, C3 and C5 of a required context.
RequiredErrors(x, name) ==
    LET found == load_workflows(x.jobs, name)
    IN  IF found = {} THEN {"C1"}
        ELSE UNION {{e \in {"C2"} : NotOnEveryPr(job)}
                    \cup {e \in {"C3"} : runner_finding(x, job)}
                    \cup {e \in {"C5"} : x.claim = "missing" \/ (x.claim = "true" /\ job.vacuous)} : job \in found}

\* Mutant: what a candidate's job can do is not looked at.
PromotionErrors_listed(x, name) ==
    UNION {{e \in {"C6"} : NotOnEveryPr(job) \/ runner_finding(x, job)} : job \in load_workflows(x.jobs, name)}

\* C6 of a candidate, where its job exists.
PromotionErrors(x, name) ==
    UNION {{e \in {"C6"} : NotOnEveryPr(job) \/ runner_finding(x, job) \/ job.vacuous}
           : job \in load_workflows(x.jobs, name)}

NeverErrors(x) == {e \in {"C4"} : x.never \cap (x.required \cup x.promote) # {}}

audit(x) ==
    NeverErrors(x)
    \cup (UNION {RequiredErrors(x, n) : n \in x.required})
    \cup (UNION {PromotionErrors(x, n) : n \in x.promote \ x.required})

\* main: errors are printed and do not fail the job while the repository is ramping.
ExitCode(x) == IF audit(x) # {} /\ x.enforcing THEN 1 ELSE 0

------------------------------------------------------------------------------
(* Inputs: the job "gate", a chooser, and a second job of the same name    *)

Runners == {<<"hosted", "">>, <<"pool", "arc">>, <<"expr", "">>, <<"chooser", "pick">>}
Job(file, id, name, pr, runner, vacuous) ==
    [file |-> file, id |-> id, name |-> name, pr |-> pr, runner |-> runner, vacuous |-> vacuous]

Gates == {Job("a", "gate", n, pr, r, v) : n \in {"gate", "Gate"}, pr \in {"all", "paths", "none"},
                                          r \in Runners, v \in BOOLEAN}
Choosers == {<<>>} \cup {<<Job(f, i, "pick", "all", r, FALSE)>> :
                         f \in {"a", "b"}, i \in {"pick", "other"}, r \in {<<"hosted", "">>, <<"pool", "arc">>, <<"pool", "x">>}}
Seconds == {<<>>} \cup {<<Job("c", "gate2", "gate", pr, r, FALSE)>> : pr \in {"all", "paths"}, r \in {<<"hosted", "">>, <<"pool", "x">>}}

Policy(jobs, required, promote, never, claim, enforcing) ==
    [jobs |-> jobs, required |-> required, promote |-> promote, never |-> never, claim |-> claim,
     enforcing |-> enforcing, allowed |-> {"arc"}]

Inputs ==
    {Policy(<<g>> \o c \o s, req, {"gate"} \ req, {}, "true", TRUE) :
        g \in Gates, c \in Choosers, s \in Seconds, req \in {{}, {"gate"}}}
    \cup {Policy(<<g>>, req, {"gate"} \ req, nev, claim, enf) :
        g \in Gates, req \in {{}, {"gate"}}, nev \in {{}, {"gate"}}, claim \in {"missing", "true", "false", "partial"}, enf \in BOOLEAN}

------------------------------------------------------------------------------
(* Properties of an input                                                  *)

\* Whether a pull request gets a result of a context: a job of that name is triggered,
\* and runs without a pool that may be down, but for the chooser on an allowed one.
Reports(x, name, touched) ==
    \E i \in DOMAIN x.jobs : LET j == x.jobs[i] IN
        /\ j.name = name
        /\ j.pr = "all" \/ (j.pr = "paths" /\ touched)
        /\ \/ j.runner[1] \in {"hosted", "expr"}
           \/ /\ j.runner[1] = "chooser"
              /\ \E k \in DOMAIN x.jobs : LET c == x.jobs[k] IN
                    /\ c.name = j.runner[2]
                    /\ c.runner[1] = "pool" => c.runner[2] \in x.allowed

\* "blocks every PR at 'Expected'": if the gate passes, every required check reports on
\* every pull request, whether or not it touches certain paths.  (A chooser is looked up
\* by its name in all workflows, not by its id in this one: that much is assumed here.)
PassedChecksReport(x) ==
    ExitCode(x) = 0 /\ x.enforcing => \A n \in x.required, touched \in BOOLEAN : Reports(x, n, touched)

\* "pure listing": to require a candidate the gate found fit, with a claim that it can
\* fail, brings no new error.
PromotionIsListing(x) ==
    \A n \in x.promote : load_workflows(x.jobs, n) # {} /\ audit(x) = {} =>
        audit([x EXCEPT !.required = @ \cup {n}, !.claim = "true"]) = {}
=============================================================================

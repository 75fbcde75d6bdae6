---------------------------- MODULE VacuousCheck ----------------------------
(***************************************************************************)
(* scripts/gate_vacuous_check.py: a check in a workflow that cannot fail.  *)
(*                                                                         *)
(* A workflow x.jobs is a sequence of jobs [coe, steps]; a step is [coe,   *)
(* sarif, lines]; a line is [kind, tool, swallowed], where the kind is     *)
(* "run", "install", "diagnostic" or "subst" (the || true is inside        *)
(* $(...)).                                                                *)
(***************************************************************************)
EXTENDS Integers, Sequences, SequencesExt, FiniteSets

\* The check tool a line runs, if any: naming it to a package manager is not running it.
_tool_token(line) == IF line.kind = "install" THEN "" ELSE line.tool
_is_diagnostic_or_teardown(line) == line.kind = "diagnostic"
TrailingTrue(line) == line.swallowed /\ line.kind # "subst"

_last_effective_line(step) == Last(step.lines)

\* The step of the last line that swallows the failure of a check.
SwallowsLast(step) ==
    LET last == _last_effective_line(step)
    IN  TrailingTrue(last) /\ ~_is_diagnostic_or_teardown(last) /\ _tool_token(last) # ""

\* Mutant: a line that installs the tool counts as running it.
_has_later_bare_invocation_any(steps, i, tool) ==
    \E j \in DOMAIN steps \ {i} : \E n \in DOMAIN steps[j].lines : steps[j].lines[n].tool = tool /\ ~TrailingTrue(steps[j].lines[n])

\* Another step, before or after, runs the tool with nothing to swallow its failure.
_has_later_bare_invocation(steps, i, tool) ==
    \E j \in DOMAIN steps \ {i} : \E n \in DOMAIN steps[j].lines :
        LET l == steps[j].lines[n] IN l.kind # "install" /\ l.tool = tool /\ ~TrailingTrue(l)

\* The first line of a step that runs a check; "" for none.
FirstTool(step) ==
    LET runs == SelectSeq(step.lines, LAMBDA l : ~_is_diagnostic_or_teardown(l) /\ _tool_token(l) # "")
    IN  IF runs = <<>> THEN "" ELSE runs[1].tool

ContinuesOnError(step, coe) == coe /\ FirstTool(step) # "" /\ ~step.sarif

\* With PyYAML: by job.  A step that is excused for its last line is not looked at again.
_analyze_yaml(x) ==
    UNION {LET steps == x.jobs[k].steps
               excused(i) == SwallowsLast(steps[i]) /\ _has_later_bare_invocation(steps, i, _last_effective_line(steps[i]).tool)
           IN  {<<"trailing-or-true", k, i>> : i \in {i \in DOMAIN steps : SwallowsLast(steps[i]) /\ ~excused(i)}}
               \cup {<<"continue-on-error", k, i>> : i \in {i \in DOMAIN steps :
                        ~excused(i) /\ ContinuesOnError(steps[i], steps[i].coe \/ x.jobs[k].coe)}}
           : k \in DOMAIN x.jobs}

\* Mutant: without PyYAML no step excuses another.
other_steps_none(x, k, i) == <<x.jobs[k].steps[i]>>

\* The steps of the whole file, this one first.
other_steps(x, k, i) ==
    LET others == {s \in (DOMAIN x.jobs) \X (1..3) : s[2] \in DOMAIN x.jobs[s[1]].steps /\ s # <<k, i>>}
    IN  <<x.jobs[k].steps[i]>> \o SetToSeq({x.jobs[s[1]].steps[s[2]] : s \in others})

\* Without PyYAML: the steps of the whole file, and no continue-on-error of a job.
_analyze_fallback(x) ==
    UNION {LET steps == x.jobs[k].steps
           IN  {<<"trailing-or-true", k, i>> : i \in {i \in DOMAIN steps :
                   SwallowsLast(steps[i]) /\ ~_has_later_bare_invocation(other_steps(x, k, i), 1, _last_effective_line(steps[i]).tool)}}
               \cup {<<"continue-on-error", k, i>> : i \in {i \in DOMAIN steps : ContinuesOnError(steps[i], steps[i].coe)}}
           : k \in DOMAIN x.jobs}

\* An entry counts in a ramp, with a reason and an owner.
_allowlisted(x) == x.mode = "ramp" /\ x.entry = "explained"

\* main: a workflow that does not parse is reported and not counted.
ExitCode(x) ==
    IF x.parses /\ (IF x.yaml THEN _analyze_yaml(x) ELSE _analyze_fallback(x)) # {} /\ ~_allowlisted(x) THEN 1 ELSE 0

------------------------------------------------------------------------------
(* Inputs                                                                  *)

Line(kind, tool, swallowed) == [kind |-> kind, tool |-> tool, swallowed |-> swallowed]
LineSet == {Line("run", "pytest", s) : s \in BOOLEAN}
           \cup {Line("install", "pytest", FALSE), Line("subst", "pytest", TRUE), Line("diagnostic", "pytest", TRUE), Line("run", "", TRUE), Line("run", "mypy", FALSE)}
Steps == {[coe |-> c, sarif |-> FALSE, lines |-> l] : c \in BOOLEAN, l \in {<<a>> : a \in LineSet} \cup {<<a, b>> : a, b \in LineSet}}
Small == {[coe |-> c, sarif |-> s, lines |-> <<a>>] : c \in BOOLEAN, s \in BOOLEAN, a \in LineSet}
Jobs(steps) == {[coe |-> c, steps |-> <<s, t>>] : c \in BOOLEAN, s, t \in steps}
Flow(jobs, yaml, parses, mode, entry) ==
    [jobs |-> jobs, yaml |-> yaml, parses |-> parses, mode |-> mode, entry |-> entry]

StepInputs == {Flow(<<j>>, TRUE, TRUE, "fail", "explained") : j \in Jobs(Steps)}
AllowlistInputs ==
    {Flow(<<[coe |-> c, steps |-> <<s>>], [coe |-> FALSE, steps |-> <<t>>]>>, y, TRUE, m, e) :
            c \in BOOLEAN, s, t \in Small, y \in BOOLEAN, m \in {"fail", "ramp"}, e \in {"none", "explained", "bare"}}

------------------------------------------------------------------------------
(* Properties of a workflow                                                *)

\* Whether a failure of a tool can fail its job: some line runs it with nothing to
\* swallow it, in a step whose failure counts.
Enforces(job, tool) ==
    ~job.coe /\ \E i \in DOMAIN job.steps : ~job.steps[i].coe
        /\ \E n \in DOMAIN job.steps[i].lines : LET l == job.steps[i].lines[n] IN
              l.kind = "run" /\ l.tool = tool /\ ~l.swallowed

\* "A verification step must be able to fail": where the gate passes with PyYAML and with
\* no allowlist, a tool whose failure the last line of a step swallows can fail the job
\* elsewhere.  (Left out: steps that only report; a run within $(... || true), which the
\* gate takes for one that enforces; a job of which every step continues on error.)
GreenCanFail(x) ==
    ExitCode(x) = 0 /\ x.parses /\ x.yaml /\ ~_allowlisted(x) =>
        \A k \in DOMAIN x.jobs : LET job == x.jobs[k] IN
            \A i \in DOMAIN job.steps :
                LET last == Last(job.steps[i].lines) IN
                /\ last.kind = "run" /\ last.tool # "" /\ last.swallowed
                /\ \A j \in DOMAIN job.steps : ~job.steps[j].sarif /\ \A n \in DOMAIN job.steps[j].lines : job.steps[j].lines[n].kind # "subst"
                /\ ~job.coe /\ \E j \in DOMAIN job.steps : ~job.steps[j].coe
                => Enforces(job, last.tool)

\* "weaker, and we say so": without PyYAML the gate finds no swallowed check that it does
\* not find with it, and the same ones where the file has one job.
FallbackIsWeaker(x) ==
    LET swallowed(found) == {f \in found : f[1] = "trailing-or-true"}
    IN  /\ swallowed(_analyze_fallback(x)) \subseteq swallowed(_analyze_yaml(x))
        /\ Len(x.jobs) = 1 => swallowed(_analyze_fallback(x)) = swallowed(_analyze_yaml(x))
=============================================================================

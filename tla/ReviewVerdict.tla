---------------------------- MODULE ReviewVerdict ----------------------------
(***************************************************************************)
(* scripts/fuze_code_review_verdict.py: the decision of the review gate    *)
(* from the outcome of the review job and the verdict blocks in the        *)
(* reviewer's answer, and the check that a merge depends on.               *)
(*                                                                         *)
(* An input has the environment of the script; the answer is the sequence  *)
(* of blocks that carry the run's nonce, each by its verdict, whether it   *)
(* has findings, and whether it parses and has the required shape.         *)
(***************************************************************************)
EXTENDS Integers, Sequences, SequencesExt

VALID_VERDICTS == {"approve", "request_changes", "comment"}
ALWAYS_PASS == {"approve", "superseded", "outage", "skip"}

Block(shape, verdict, findings) == [shape |-> shape, verdict |-> verdict, findings |-> findings]

Result(decision, downgraded, deferred) ==
    [decision |-> decision, downgraded |-> downgraded, deferred |-> deferred]

\* Mutant: every comment passes.
check_for_comment(r) == IF r.decision \in ALWAYS_PASS \cup {"comment"} THEN "pass" ELSE "fail"

check_for(r) ==
    IF r.decision \in ALWAYS_PASS \/ (r.decision = "comment" /\ (r.downgraded \/ r.deferred))
    THEN "pass" ELSE "fail"

\* The last block decides; "none" when it cannot be used.
extract_verdict_json(blocks) ==
    IF blocks = <<>> THEN "none"
    ELSE LET b == Last(blocks) IN
         IF b.shape /\ b.verdict \in VALID_VERDICTS /\ ~(b.verdict = "approve" /\ b.findings)
         THEN b.verdict ELSE "none"

\* A job that did not succeed: an outage, the guard of the reviewer's own workflow, or
\* nothing.
decide_failed(x) ==
    CASE x.availability = "true" -> Result("outage", FALSE, FALSE)
      [] x.availability # "true" /\ x.mode = "declined" /\ x.sensitive -> Result("comment", FALSE, TRUE)
      [] OTHER -> Result("abstain", FALSE, FALSE)

decide_verdict(x) ==
    LET v == extract_verdict_json(x.blocks)
    IN  CASE v = "none" -> Result("abstain", FALSE, FALSE)
          [] v = "approve" /\ x.sensitive -> Result("comment", TRUE, FALSE)
          [] OTHER -> Result(v, FALSE, FALSE)

\* Mutant: a review that is not known to be ready is skipped.
decide_unready(x) ==
    CASE x.job_result = "cancelled" -> Result("superseded", FALSE, FALSE)
      [] x.job_result # "cancelled" /\ x.ready # "true" -> Result("skip", FALSE, FALSE)
      [] OTHER -> IF x.conclusion = "success" THEN decide_verdict(x) ELSE decide_failed(x)

decide(x) ==
    CASE x.job_result = "cancelled" -> Result("superseded", FALSE, FALSE)
      [] x.job_result # "cancelled" /\ x.ready = "false" -> Result("skip", FALSE, FALSE)
      [] OTHER -> IF x.conclusion = "success" THEN decide_verdict(x) ELSE decide_failed(x)

------------------------------------------------------------------------------
(* Inputs                                                                  *)

Blocks == {Block(TRUE, v, f) : v \in VALID_VERDICTS \cup {"merge"}, f \in BOOLEAN}
          \cup {Block(FALSE, "approve", FALSE)}

\* fuze-code-action reports an outage, or that it declined, only of a job that failed.
Inputs ==
    {x \in [conclusion : {"success", "failure", ""}, blocks : BoundedSeq(Blocks, 2), sensitive : BOOLEAN,
            mode : {"review", "declined", ""}, job_result : {"success", "cancelled", ""},
            ready : {"true", "false", ""}, availability : {"true", "false", ""}] :
        /\ x.conclusion = "success" => x.mode # "declined" /\ x.availability # "true"
        /\ x.conclusion # "success" => Len(x.blocks) <= 1
        /\ x.job_result # "success" => Len(x.blocks) <= 1}

------------------------------------------------------------------------------
(* Properties of an input                                                  *)

\* "A review that COULD NOT RUN impossible to mistake for a clean one": the check passes
\* only if the reviewer's last word is an approval without findings, or for one of the
\* four reasons the workflow's header names.
PassIsEarned(x) ==
    check_for(decide(x)) = "pass" =>
        \/ /\ x.conclusion = "success" /\ x.blocks # <<>>
           /\ Last(x.blocks) = Block(TRUE, "approve", FALSE)
        \/ x.job_result = "cancelled"
        \/ x.ready = "false"
        \/ x.conclusion # "success" /\ x.availability = "true"
        \/ x.conclusion # "success" /\ x.mode = "declined" /\ x.sensitive

\* "Deleting one line from the workflow would silently make this gate vacuous again": a
\* variable that is not set never turns a failed check into a passed one, and only the
\* list of sensitive files can make an approval of what was none.
UnsetFailsClosed(x) ==
    LET unset == {[x EXCEPT !.conclusion = ""], [x EXCEPT !.blocks = <<>>], [x EXCEPT !.mode = ""],
                  [x EXCEPT !.job_result = ""], [x EXCEPT !.ready = ""], [x EXCEPT !.availability = ""]}
    IN  /\ \A y \in unset \cup {[x EXCEPT !.sensitive = FALSE]} :
              check_for(decide(x)) = "fail" => check_for(decide(y)) = "fail"
        /\ \A y \in unset : decide(y).decision = "approve" =>
              decide(x).decision \in {"approve", "superseded", "skip"}
=============================================================================

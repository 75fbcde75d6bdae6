---------------------------- MODULE DsConformance ----------------------------
(***************************************************************************)
(* scripts/gate_ds_conformance.py: raw design values in feature UI, over   *)
(* all lines or, as a ratchet, over the lines a pull request adds.         *)
(*                                                                         *)
(* One file.  base and head are its lines before and after: "raw" for a    *)
(* raw value, "token" for one beside a token, "disabled" for one with a    *)
(* marker or in a comment, "plain" for the rest.  A line of head also says *)
(* whether the diff shows it as added; other lines are lines of base.      *)
(***************************************************************************)
EXTENDS Integers, Sequences, SequencesExt

LineKinds == {"raw", "token", "disabled", "plain"}

\* Paths that are not hand-written feature UI: the design system itself, stubs, tests.
Scanned(path) == path = "feature"

\* Mutant: the last line of a hunk is left out.
changed_lines_short(x) == {i \in DOMAIN x.head : x.head[i].added /\ i < Len(x.head)}

\* The lines of the new side of the diff's hunks.
changed_lines(x) == {i \in DOMAIN x.head : x.head[i].added}

\* Lines with a raw value, among those that are looked at.
scan_violations(path, kinds, looked) ==
    {i \in looked : Scanned(path) /\ kinds[i] = "raw"}

Kinds(lines) == [i \in DOMAIN lines |-> lines[i].kind]

\* main: without a diff the whole file is scanned.
ExitCode(x) ==
    LET looked == IF x.changedOnly /\ x.diffWorks THEN changed_lines(x) ELSE DOMAIN x.head
    IN  IF scan_violations(x.path, Kinds(x.head), looked) # {} THEN 1 ELSE 0

------------------------------------------------------------------------------
(* Inputs                                                                  *)

HeadLines == [kind : LineKinds, added : BOOLEAN]

Inputs ==
    {x \in [base : BoundedSeq(LineKinds, 2), basePath : {"feature", "exempt"}, head : BoundedSeq(HeadLines, 2),
            path : {"feature", "exempt"}, changedOnly : BOOLEAN, diffWorks : BOOLEAN] :
        \A i \in DOMAIN x.head : ~x.head[i].added => x.head[i].kind \in Range(x.base)}

------------------------------------------------------------------------------
(* Properties of an input                                                  *)

\* The ratchet keeps what is clean clean: from a base without violations, a pull request
\* that passes leaves none, whatever it adds, keeps, or takes away, and whether or not
\* the diff could be made, unless it moves the file out of an exempt path (a rename, of
\* which the diff shows no lines).
RatchetHolds(x) ==
    /\ ExitCode(x) = 0 /\ x.basePath = x.path
    /\ scan_violations(x.basePath, x.base, DOMAIN x.base) = {}
    => scan_violations(x.path, Kinds(x.head), DOMAIN x.head) = {}
=============================================================================

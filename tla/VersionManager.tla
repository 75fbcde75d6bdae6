--------------------------- MODULE VersionManager ---------------------------
(***************************************************************************)
(* scripts-tools/version_manager.py: version.json, the bumps of its        *)
(* version and the tags made from it.                                      *)
(*                                                                         *)
(* A version is [n, pre, num]: n holds major, minor and patch, pre may be  *)
(* "none", num is 0 for none.  Build metadata is left out: it is not       *)
(* compared.                                                               *)
(***************************************************************************)
EXTENDS Integers, Sequences, FiniteSets

CONSTANTS
    MaxBumps        \* bound: changes of the version

VARIABLES
    version,        \* version.json: the version as it is written
    components,     \* version.json: the version of the components
    bumps,
    gitTags,
    issued,         \* history: the versions so far, in order
    wentDown        \* history: a pre-release bump went back

versionVars == <<version, components, bumps, gitTags, issued, wentDown>>

Kinds == {"none", "alpha", "beta", "rc"}

\* __str__ writes the number only after a pre-release, and parse reads it back.
Written(v) == IF v.pre = "none" THEN [v EXCEPT !.num = 0] ELSE v

Order(pre) == IF pre = "alpha" THEN 1 ELSE IF pre = "beta" THEN 2 ELSE IF pre = "rc" THEN 3 ELSE 0

Sign(a, b) == IF a < b THEN -1 ELSE IF a > b THEN 1 ELSE 0

\* The first pair that differs decides; a release comes after its pre-releases.
Compared(v, w, numbers) ==
    IF v.n[1] # w.n[1] THEN Sign(v.n[1], w.n[1])
    ELSE IF v.n[2] # w.n[2] THEN Sign(v.n[2], w.n[2])
    ELSE IF v.n[3] # w.n[3] THEN Sign(v.n[3], w.n[3])
    ELSE IF v.pre = w.pre THEN IF v.pre = "none" THEN 0 ELSE numbers
    ELSE IF v.pre = "none" THEN 1
    ELSE IF w.pre = "none" THEN -1
    ELSE Sign(Order(v.pre), Order(w.pre))

\* Mutant: numbers of pre-releases are not compared.
compare_kinds(v, w) == Compared(v, w, 0)

compare(v, w) == Compared(v, w, Sign(v.num, w.num))

Fresh(n, pre) == [n |-> n, pre |-> pre, num |-> IF pre = "none" THEN 0 ELSE 1]

\* Mutant: the numbers below the one that is bumped stay.
bump_version_kept(type, pre) ==
    LET c == version IN
    CASE type = "major" -> Fresh(<<c.n[1] + 1, c.n[2], c.n[3]>>, pre)
      [] type = "minor" -> Fresh(<<c.n[1], c.n[2] + 1, c.n[3]>>, pre)
      [] type = "patch" -> Fresh(<<c.n[1], c.n[2], c.n[3]>>, pre)
      [] type = "pre-release" -> [c EXCEPT !.num = @ + 1]

bump_version(type, pre) ==
    LET c == version IN
    CASE type = "major" -> Fresh(<<c.n[1] + 1, 0, 0>>, pre)
      [] type = "minor" -> Fresh(<<c.n[1], c.n[2] + 1, 0>>, pre)
      [] type = "patch" -> Fresh(<<c.n[1], c.n[2], c.n[3] + 1>>, pre)
      [] type = "pre-release" -> [n |-> c.n, pre |-> IF pre = "none" THEN c.pre ELSE pre,
                                  num |-> IF c.pre = pre THEN c.num + 1 ELSE 1]

Init ==
    /\ version = Fresh(<<0, 1, 0>>, "none") /\ components = <<0, 1, 0>>
    /\ bumps = 0 /\ gitTags = {} /\ issued = <<Fresh(<<0, 1, 0>>, "none")>> /\ wentDown = FALSE

\* bump, update_version and _save_version_data.
update_version(type, pre) ==
    /\ bumps < MaxBumps /\ bumps' = bumps + 1
    /\ version' = Written(bump_version(type, pre))
    /\ components' = bump_version(type, pre).n
    /\ issued' = Append(issued, version')
    /\ wentDown' = (wentDown \/ (type = "pre-release" /\ (version.pre = "none" \/ (pre = "none" /\ version.pre # "none")
                                                            \/ Order(pre) < Order(version.pre))))
    /\ UNCHANGED gitTags

\* git refuses a tag that exists.
create_git_tag ==
    /\ version \notin gitTags
    /\ gitTags' = gitTags \cup {version}
    /\ UNCHANGED <<version, components, bumps, issued, wentDown>>

Next ==
    \/ \E type \in {"major", "minor", "patch", "pre-release"}, pre \in Kinds : update_version(type, pre)
    \/ create_git_tag

------------------------------------------------------------------------------
(* Properties                                                              *)

\* Versions go up, by the tool's own order, and none is issued twice, until a
\* pre-release is made of a release, a later kind is left for an earlier one, or
\* --pre-release is not given: the number of the kind there is then starts again at 1.
VersionsRise ==
    ~wentDown => \A i, j \in DOMAIN issued : i < j => compare(issued[i], issued[j]) = -1
=============================================================================

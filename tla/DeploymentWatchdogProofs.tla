----------------------- MODULE DeploymentWatchdogProofs -----------------------
(***************************************************************************)
(* Proofs about DeploymentWatchdog, for any applications, nodes, workloads *)
(* and volumes, any thresholds and ceilings, and any number of calls that  *)
(* fail.                                                                   *)
(***************************************************************************)
EXTENDS DeploymentWatchdog, TLAPS

\* The local variables of a run; what it counts as open is any number.
Pcs == {"idle", "close", "update", "terminate", "recover", "escalate", "file", "done"}
Findings == [key : Keys, id : Nat, age : Int]
RunsWith(o) == [pc : Pcs, found : SUBSET Findings, unknown : SUBSET Nodes, peers : Int,
                new : SUBSET Findings, open : {o}, todo : SUBSET (Findings \cup Keys), exit : 0..2]

Ladders == [attempts : 0..MaxAttempts, cool : Nat, escalated : BOOLEAN, refused : Int]
IssueRecs == [done : SUBSET Nat, ladder : Ladders, inst : Nat, capped : BOOLEAN]

TypeOK ==
    /\ class \in [Nodes -> Classes]
    /\ op \in [Apps -> [id : Nat, on : BOOLEAN, age : Nat]]
    /\ node \in [Nodes -> Int]
    /\ peers \in Int
    /\ pod \in [Workloads -> [id : Nat, state : {"ready", "backoff", "creating"}, many : BOOLEAN, age : Nat]]
    /\ issues \in [Keys -> Seq(IssueRecs)]
    /\ run \in RunsWith(run.open)
    /\ faults \in Nat
    /\ terms \in [Apps -> [1..MaxOps -> Nat]]
    /\ spell \in [Nodes -> [reboots : Nat, stale : BOOLEAN]]

------------------------------------------------------------------------------
(* The inductive invariant                                                 *)

Filing == {"update", "terminate", "recover", "escalate", "file"}
InRun == run.pc \in Filing \cup {"close"}
Stuck(a) == op[a].on /\ op[a].age > RunningTicks

\* What the run found is still so for the operations, which do not turn meanwhile; a
\* node may, but then its spell is a new one.
FoundHolds ==
    InRun =>
        /\ \A f, g \in run.found : f.key = g.key => f = g
        /\ \A a \in Apps : Stuck(a) <=> \E f \in run.found : f.key = <<ARGO, a>>
        /\ \A f \in run.found : Kind(f) = ARGO => f.id = op[f.key[2]].id
        /\ \A f \in run.found : Kind(f) = DARK => f.key[2] \in run.unknown
        /\ \A n \in Nodes \ run.unknown : node[n] < 0 \/ spell[n].reboots = 0

\* New findings have no issue until they are filed, the others have one; and what the
\* run has still to do is of the right kind.
PhasesHold ==
    /\ run.pc \in Filing =>
         /\ run.new \subseteq run.found
         /\ run.pc # "file" => \A f \in run.new : ~Open(f.key)
         /\ \A f \in Duplicates : Kind(f) \in {ARGO, DARK} => Open(f.key)
    /\ run.pc = "close" => \A k \in run.todo : /\ k \in Keys /\ k[1] \in Churn \cup {ARGO}
                                               /\ \A f \in run.found : f.key # k
    /\ run.pc = "update" => \A f \in run.todo : f \in Duplicates /\ Kind(f) \in Churn /\ Open(f.key)
    /\ run.pc = "terminate" => \A f \in run.todo : f \in Duplicates /\ Kind(f) = ARGO
    /\ run.pc = "recover" => \A k \in run.todo : k \in Keys /\ k[1] = DARK /\ k[2] \notin run.unknown
    /\ run.pc = "escalate" => \A f \in run.todo : f \in Duplicates /\ Kind(f) = DARK
    /\ run.pc = "file" => \A f \in run.todo : f \in run.new /\ ~Open(f.key)

\* Every open issue that a run may close is about something the run found, but for
\* those it is about to close.
IssuesCovered ==
    run.pc \in Filing \cup {"close"} \/ (run.pc = "done" /\ run.exit # 2) =>
        \A k \in Keys : k[1] \in Churn \cup {ARGO} /\ Open(k) =>
            \/ \E f \in run.found : f.key = k
            \/ run.pc = "close" /\ k \in run.todo

\* An operation a terminate was dispatched for is over, or is still stuck and marked.
Over(a, o) == op[a].id > o \/ (op[a].id = o /\ ~op[a].on)
OpsMarked ==
    \A a \in Apps, o \in 1..MaxOps :
        terms[a][o] > 0 /\ <<<<ARGO, a>>, o>> \notin lost =>
            /\ terms[a][o] = 1
            /\ \/ Over(a, o)
               \/ /\ op[a].id = o /\ Stuck(a) /\ Open(<<ARGO, a>>)
                  /\ o \in Tracked(<<ARGO, a>>).done

\* The reboots of a spell are on the ladder of the open issue.  An issue is closed
\* only when the node was back, and then a spell that is under way has no reboot.
RebootsOnLadder ==
    \A n \in Nodes : <<<<DARK, n>>, 0>> \notin lost =>
        \/ Open(<<DARK, n>>) /\ spell[n].reboots <= Tracked(<<DARK, n>>).ladder.attempts
        \/ spell[n].reboots = 0
        \/ /\ node[n] < 0 /\ spell[n].reboots <= MaxAttempts
           /\ InRun => \A f \in run.found : f.key # <<DARK, n>>

\* The attempts on the ladder were made in this spell, unless the issue is older.
LadderEarned ==
    \A n \in Nodes : Open(<<DARK, n>>) =>
        \/ node[n] < 0 \/ spell[n].stale
        \/ Tracked(<<DARK, n>>).ladder.attempts <= spell[n].reboots

IInv == /\ TypeOK /\ FoundHolds /\ PhasesHold /\ IssuesCovered
        /\ OpsMarked /\ RebootsOnLadder /\ LadderEarned

------------------------------------------------------------------------------
(* Keys, sequences of issues, records                                      *)

LEMMA Limits ==
    /\ MaxAttempts \in Nat /\ MaxAttempts >= 1
    /\ RunningTicks \in Nat /\ UnknownTicks \in Nat /\ PodTicks \in Nat
    /\ CooldownTicks \in Nat /\ CooldownTicks >= 1 /\ EscalateTicks \in Nat /\ EscalateTicks >= 1
    /\ MinOther \in Nat /\ MaxOps \in Nat
  BY TicksAssumption, LimitsAssumption, BoundsAssumption

LEMMA KindsDiffer ==
    /\ ARGO # DARK /\ ARGO # PVC /\ DARK # PVC
    /\ ARGO \notin Churn /\ DARK \notin Churn /\ PVC \notin Churn
  BY DEF ARGO, DARK, PVC, Churn, CREATING, CRASHLOOP

LEMMA KeyFacts ==
    /\ \A k \in Keys : /\ k = <<k[1], k[2]>>
                       /\ k[1] = ARGO => k[2] \in Apps
                       /\ k[1] = DARK => k[2] \in Nodes
    /\ \A a \in Apps : <<ARGO, a>> \in Keys /\ <<ARGO, a>>[1] = ARGO /\ <<ARGO, a>>[2] = a
    /\ \A n \in Nodes : <<DARK, n>> \in Keys /\ <<DARK, n>>[1] = DARK /\ <<DARK, n>>[2] = n
  BY KindsDiffer DEF Keys

\* Issues are prepended, closed one by one, and written at the head.
LEMMA HeadUpdates ==
    ASSUME NEW S, NEW s \in Seq(S), NEW x \in S
    PROVE  /\ <<x>> \o s \in Seq(S) /\ <<x>> \o s # <<>> /\ Head(<<x>> \o s) = x
           /\ (<<x>> \o s)[1] = x
           /\ <<>> \in Seq(S)
           /\ s # <<>> => /\ Head(s) = s[1] /\ s[1] \in S /\ Tail(s) \in Seq(S)
                          /\ [s EXCEPT ![1] = x] \in Seq(S)
                          /\ [s EXCEPT ![1] = x] # <<>>
                          /\ Len([s EXCEPT ![1] = x]) = Len(s)
                          /\ Head([s EXCEPT ![1] = x]) = x
                          /\ [s EXCEPT ![1] = x][1] = x
  OBVIOUS

LEMMA IssueTypes ==
    /\ DEFAULT_DARK_STATE \in Ladders
    /\ \A done \in SUBSET Nat, inst \in Nat : Issue(done, inst) \in IssueRecs
    /\ \A x \in IssueRecs : /\ \A done \in SUBSET Nat : [x EXCEPT !.done = done] \in IssueRecs
                            /\ \A inst \in Nat : [x EXCEPT !.inst = inst] \in IssueRecs
                            /\ \A l \in Ladders : [x EXCEPT !.ladder = l] \in IssueRecs
                            /\ [x EXCEPT !.capped = TRUE] \in IssueRecs
  <1>1. DEFAULT_DARK_STATE \in Ladders
    BY Limits DEF DEFAULT_DARK_STATE, Ladders, NoReason
  <1>2. \A done \in SUBSET Nat, inst \in Nat : Issue(done, inst) \in IssueRecs
    BY <1>1 DEF Issue, IssueRecs
  <1> QED
    BY <1>1, <1>2 DEF IssueRecs

------------------------------------------------------------------------------
(* What the steps do to the issues and to the run                          *)

\* Closing the issues of a key, filing one, closing the first, writing on it.
LEMMA CloseIssues ==
    ASSUME TypeOK, NEW k \in Keys
    PROVE  LET is == [issues EXCEPT ![k] = <<>>]
           IN  /\ is \in [Keys -> Seq(IssueRecs)] /\ is[k] = <<>>
               /\ \A j \in Keys \ {k} : is[j] = issues[j]
  <1>1. <<>> \in Seq(IssueRecs)
    OBVIOUS
  <1> QED
    BY <1>1 DEF TypeOK

LEMMA FileIssue ==
    ASSUME TypeOK, NEW k \in Keys, NEW x \in IssueRecs
    PROVE  LET is == [issues EXCEPT ![k] = <<x>> \o @]
           IN  /\ is \in [Keys -> Seq(IssueRecs)]
               /\ is[k] # <<>> /\ Head(is[k]) = x /\ is[k][1] = x
               /\ \A j \in Keys \ {k} : is[j] = issues[j]
  <1>1. issues \in [Keys -> Seq(IssueRecs)] /\ issues[k] \in Seq(IssueRecs)
    BY DEF TypeOK
  <1>2. /\ <<x>> \o issues[k] \in Seq(IssueRecs) /\ <<x>> \o issues[k] # <<>>
        /\ Head(<<x>> \o issues[k]) = x /\ (<<x>> \o issues[k])[1] = x
    BY <1>1, HeadUpdates
  <1> QED
    BY <1>1, <1>2

LEMMA DropIssue ==
    ASSUME TypeOK, NEW k \in Keys, Open(k)
    PROVE  LET is == [issues EXCEPT ![k] = Tail(@)]
           IN  /\ is \in [Keys -> Seq(IssueRecs)]
               /\ \A j \in Keys \ {k} : is[j] = issues[j]
  <1>1. issues \in [Keys -> Seq(IssueRecs)] /\ issues[k] \in Seq(IssueRecs)
    BY DEF TypeOK
  <1>2. Tail(issues[k]) \in Seq(IssueRecs)
    BY <1>1 DEF Open
  <1> QED
    BY <1>1, <1>2

LEMMA WriteIssue ==
    ASSUME NEW is0 \in [Keys -> Seq(IssueRecs)], NEW k \in Keys, is0[k] # <<>>, NEW x \in IssueRecs
    PROVE  LET is == [is0 EXCEPT ![k] = [@ EXCEPT ![1] = x]]
           IN  /\ is \in [Keys -> Seq(IssueRecs)]
               /\ is[k] # <<>> /\ Head(is[k]) = x /\ is[k][1] = x /\ Len(is[k]) = Len(is0[k])
               /\ \A j \in Keys \ {k} : is[j] = is0[j]
  <1>1. is0[k] \in Seq(IssueRecs)
    OBVIOUS
  <1>2. /\ [is0[k] EXCEPT ![1] = x] \in Seq(IssueRecs)
        /\ [is0[k] EXCEPT ![1] = x] # <<>>
        /\ Len([is0[k] EXCEPT ![1] = x]) = Len(is0[k])
        /\ Head([is0[k] EXCEPT ![1] = x]) = x
        /\ [is0[k] EXCEPT ![1] = x][1] = x
    BY <1>1, HeadUpdates
  <1> QED
    BY <1>2

\* The issue the run looks at is the first one of its key.
LEMMA FirstIssue ==
    ASSUME TypeOK, NEW k \in Keys, Open(k)
    PROVE  /\ Tracked(k) = issues[k][1] /\ Tracked(k) \in IssueRecs
           /\ Tracked(k).ladder \in Ladders /\ Tracked(k).done \in SUBSET Nat
  <1>1. issues[k] \in Seq(IssueRecs) /\ issues[k] # <<>>
    BY DEF TypeOK, Open
  <1>2. Tracked(k) = issues[k][1] /\ Tracked(k) \in IssueRecs
    BY <1>1 DEF Tracked
  <1> QED
    BY <1>2 DEF IssueRecs

\* A run that ends with an error has nothing left to conclude.
LEMMA Aborted ==
    ASSUME TypeOK, Abort
    PROVE  /\ run' \in RunsWith(run'.open) /\ faults' \in Nat
           /\ run'.pc = "done" /\ run'.exit = 2
           /\ FoundHolds' /\ PhasesHold' /\ IssuesCovered' /\ ~InRun'
  <1>1. run' = [Idle EXCEPT !.pc = "done", !.exit = 2] /\ faults' \in Nat
    BY DEF Abort, TypeOK
  <1>2. Idle \in RunsWith(0) /\ run' \in RunsWith(0)
    <2>1. Idle \in RunsWith(0)
      BY DEF Idle, RunsWith, Pcs
    <2>2. "done" \in Pcs /\ 2 \in 0..2
      BY DEF Pcs
    <2> QED
      BY <1>1, <2>1, <2>2 DEF RunsWith
  <1>3. run'.pc = "done" /\ run'.exit = 2 /\ run'.open = 0
    BY <1>1, <1>2 DEF RunsWith
  <1> QED
    BY <1>1, <1>2, <1>3 DEF FoundHolds, PhasesHold, IssuesCovered, InRun, Filing

\* The run goes on with one item less.
LEMMA WentOn ==
    ASSUME TypeOK, NEW f, run' = [run EXCEPT !.todo = @ \ {f}]
    PROVE  /\ run' \in RunsWith(run'.open)
           /\ run'.pc = run.pc /\ run'.found = run.found /\ run'.new = run.new
           /\ run'.unknown = run.unknown /\ run'.peers = run.peers /\ run'.exit = run.exit
           /\ run'.todo = run.todo \ {f}
           /\ InRun' <=> InRun
           /\ Duplicates' = Duplicates
  <1>1. run \in RunsWith(run.open)
    BY DEF TypeOK
  <1>2. /\ run'.pc = run.pc /\ run'.found = run.found /\ run'.new = run.new /\ run'.open = run.open
        /\ run'.unknown = run.unknown /\ run'.peers = run.peers /\ run'.exit = run.exit
        /\ run'.todo = run.todo \ {f}
    BY <1>1 DEF RunsWith
  <1>3. run' \in RunsWith(run'.open)
    BY <1>1, <1>2 DEF RunsWith
  <1> QED
    BY <1>2, <1>3 DEF InRun, Duplicates

\* Steps that leave the operations and their issues alone.
LEMMA OpsFrame ==
    ASSUME OpsMarked, op' = op, terms' = terms, lost \subseteq lost',
           \A a \in Apps : issues'[<<ARGO, a>>] = issues[<<ARGO, a>>]
    PROVE  OpsMarked'
  BY DEF OpsMarked, Over, Stuck, Open, Tracked

\* Steps that leave the nodes and their issues alone.
LEMMA NodesFrame ==
    ASSUME RebootsOnLadder, LadderEarned, node' = node, spell' = spell, lost \subseteq lost',
           \A n \in Nodes : issues'[<<DARK, n>>] = issues[<<DARK, n>>],
           InRun' => InRun /\ run'.found = run.found
    PROVE  RebootsOnLadder' /\ LadderEarned'
  BY DEF RebootsOnLadder, LadderEarned, Open, Tracked

------------------------------------------------------------------------------
(* The ladder                                                              *)

\* What the decision on a dark node does to its ladder.
LEMMA DecideFacts ==
    ASSUME TypeOK, NEW n \in Nodes, NEW age \in Int, NEW ready \in Int, NEW s \in Ladders,
           NEW d, d = decide_dark_node_escalation(n, age, ready, s)
    PROVE  /\ d[2] \in Ladders
           /\ d[1] = "none" => d[2] = s
           /\ d[1] = "reboot" => /\ s.attempts < MaxAttempts /\ s.cool >= CooldownTicks
                                 /\ d[2].attempts = s.attempts + 1
           /\ d[1] # "reboot" => d[2].attempts = s.attempts
           /\ d[2].escalated /\ ~s.escalated =>
                /\ s.attempts >= MaxAttempts /\ age >= EscalateTicks
                /\ class[n] = "control-plane" \/ (class[n] = "voter" /\ ready >= MinOther)
           /\ s = DEFAULT_DARK_STATE => d[1] = "reboot"
  <1> USE Limits
  <1>s. /\ s.attempts \in 0..MaxAttempts /\ s.cool \in Nat /\ s.escalated \in BOOLEAN /\ s.refused \in Int
        /\ class[n] \in {"voter", "control-plane", "elastic"}
        /\ Elastic \in Int /\ NoReason \in Int
    <2>1. s.attempts \in 0..MaxAttempts /\ s.cool \in Nat /\ s.escalated \in BOOLEAN /\ s.refused \in Int
      BY DEF Ladders
    <2>2. class[n] \in {"voter", "control-plane", "elastic"}
      BY ClassesAssumption DEF TypeOK
    <2>3. Elastic \in Int /\ NoReason \in Int
      BY DEF Elastic, NoReason
    <2> QED
      BY <2>1, <2>2, <2>3
  <1>d. s = DEFAULT_DARK_STATE => ~s.escalated /\ s.attempts = 0 /\ s.cool = CooldownTicks
    BY DEF DEFAULT_DARK_STATE
  <1> DEFINE up == [s EXCEPT !.attempts = @ + 1, !.cool = 0, !.refused = NoReason]
             over == [s EXCEPT !.escalated = TRUE, !.refused = NoReason]
             refused(r) == [s EXCEPT !.refused = r]
  <1>u. s.attempts < MaxAttempts => up \in Ladders /\ up.attempts = s.attempts + 1 /\ up.escalated = s.escalated
    <2> DEFINE stands(i, c, r) == [s EXCEPT !.attempts = i, !.cool = c, !.refused = r]
    <2>1. ASSUME NEW i \in 0..MaxAttempts, NEW c \in Nat, NEW r \in Int
          PROVE  stands(i, c, r) \in Ladders /\ stands(i, c, r).attempts = i /\ stands(i, c, r).escalated = s.escalated
      BY DEF Ladders
    <2>2. ASSUME s.attempts < MaxAttempts PROVE s.attempts + 1 \in 0..MaxAttempts
      BY <1>s, <2>2
    <2>3. up = stands(s.attempts + 1, 0, NoReason)
      BY DEF Ladders
    <2>4. 0 \in Nat /\ NoReason \in Int
      BY <1>s
    <2> HIDE DEF up, stands
    <2> SUFFICES ASSUME s.attempts < MaxAttempts
                 PROVE  up \in Ladders /\ up.attempts = s.attempts + 1 /\ up.escalated = s.escalated
      OBVIOUS
    <2>5. s.attempts + 1 \in 0..MaxAttempts
      BY <2>2
    <2> QED
      BY <2>1, <2>3, <2>4, <2>5
  <1>o. over \in Ladders /\ over.attempts = s.attempts
    BY <1>s DEF Ladders
  <1>r. \A r \in Int : /\ refused(r) \in Ladders /\ refused(r).attempts = s.attempts
                       /\ refused(r).escalated = s.escalated
    BY <1>s DEF Ladders
  <1>1. CASE s.escalated
    <2>1. d = <<"none", s>>
      BY <1>1 DEF decide_dark_node_escalation
    <2> QED
      BY <1>1, <1>d, <2>1
  <1>2. CASE ~s.escalated /\ s.attempts < MaxAttempts
    <2>1. d = IF s.cool < CooldownTicks THEN <<"none", s>> ELSE <<"reboot", up>>
      BY <1>2 DEF decide_dark_node_escalation
    <2> HIDE DEF up
    <2> QED
      BY <1>2, <1>d, <1>s, <1>u, <2>1
  <1>3. CASE ~s.escalated /\ ~(s.attempts < MaxAttempts)
    <2>1. \/ d = <<"none", s>>
          \/ d = <<"refuse-elastic", refused(Elastic)>>
          \/ d = <<"refuse-quorum", refused(ready)>>
          \/ /\ d = <<"reinstall", over>>
             /\ ~(age < EscalateTicks) /\ class[n] # "elastic"
             /\ ~(class[n] = "voter" /\ ready < MinOther)
      BY <1>3 DEF decide_dark_node_escalation
    <2> HIDE DEF over, refused
    <2>2. CASE d = <<"none", s>>
      BY <1>3, <1>d, <2>2
    <2>3. CASE d = <<"refuse-elastic", refused(Elastic)>>
      BY <1>3, <1>d, <1>r, <1>s, <2>3
    <2>4. CASE d = <<"refuse-quorum", refused(ready)>>
      BY <1>3, <1>d, <1>r, <2>4
    <2>5. CASE /\ d = <<"reinstall", over>>
               /\ ~(age < EscalateTicks) /\ class[n] # "elastic"
               /\ ~(class[n] = "voter" /\ ready < MinOther)
      BY <1>3, <1>d, <1>o, <1>s, <2>5
    <2> QED
      BY <2>1, <2>2, <2>3, <2>4, <2>5
  <1> QED
    BY <1>1, <1>2, <1>3

\* _act_on_dark_node: the run goes on and the decision is on record, or it ends and the
\* record is lost, or nothing was done.
LEMMA ActFacts ==
    ASSUME TypeOK, NEW f \in Findings, Kind(f) = DARK, NEW is \in [Keys -> Seq(IssueRecs)],
           is[f.key] # <<>>, ActOnDarkNode(f, is)
    PROVE  LET n == f.key[2]
               d == decide_dark_node_escalation(n, f.age, run.peers, is[f.key][1].ladder)
           IN  /\ n \in Nodes /\ f.key = <<DARK, n>> /\ f.key \in Keys
               /\ is[f.key][1].ladder \in Ladders
               /\ issues' \in [Keys -> Seq(IssueRecs)] /\ issues'[f.key] # <<>>
               /\ Len(issues'[f.key]) = Len(is[f.key])
               /\ \A j \in Keys \ {f.key} : issues'[j] = is[j]
               /\ spell' \in [Nodes -> [reboots : Nat, stale : BOOLEAN]]
               /\ \A m \in Nodes : spell'[m].stale = spell[m].stale
               /\ \A m \in Nodes \ {n} : spell'[m] = spell[m]
               /\ \/ /\ Did(f) /\ lost' = lost
                     /\ issues'[f.key][1].ladder = d[2] /\ Head(issues'[f.key]).ladder = d[2]
                     /\ spell'[n].reboots = IF d[1] = "reboot" THEN spell[n].reboots + 1 ELSE spell[n].reboots
                  \/ Abort /\ issues' = is /\ lost' = lost \cup {<<f.key, 0>>} /\ spell'[n].reboots >= spell[n].reboots
                  \/ Abort /\ issues' = is /\ lost' = lost /\ spell' = spell
  <1> DEFINE n == f.key[2]
             d == decide_dark_node_escalation(n, f.age, run.peers, is[f.key][1].ladder)
             x == [is[f.key][1] EXCEPT !.ladder = d[2]]
  <1>1. f.key \in Keys /\ n \in Nodes /\ f.key = <<DARK, n>> /\ f.age \in Int /\ run.peers \in Int
    BY KeyFacts DEF Kind, Findings, TypeOK, RunsWith
  <1>2. is[f.key] \in Seq(IssueRecs) /\ is[f.key][1] \in IssueRecs /\ is[f.key][1].ladder \in Ladders
        /\ Head(is[f.key]) = is[f.key][1]
    <2>1. is[f.key] \in Seq(IssueRecs)
      BY <1>1
    <2>2. is[f.key][1] \in IssueRecs /\ Head(is[f.key]) = is[f.key][1]
      BY <2>1
    <2> QED
      BY <2>1, <2>2 DEF IssueRecs
  <1>3. d[2] \in Ladders /\ (d[1] = "none" => d[2] = is[f.key][1].ladder)
    BY <1>1, <1>2, DecideFacts
  <1>4. spell \in [Nodes -> [reboots : Nat, stale : BOOLEAN]]
    BY DEF TypeOK
  <1> HIDE DEF n, d
  <1>5. x \in IssueRecs /\ x.ladder = d[2]
    BY <1>2, <1>3 DEF IssueRecs
  <1>6. \/ d[1] = "none" /\ Did(f) /\ issues' = is /\ spell' = spell /\ lost' = lost
        \/ /\ Did(f) /\ lost' = lost
           /\ issues' = [is EXCEPT ![f.key][1].ladder = d[2]]
           /\ spell' = [spell EXCEPT ![n].reboots = @ + (IF d[1] = "reboot" THEN 1 ELSE 0)]
        \/ /\ Abort /\ issues' = is /\ lost' = lost \cup {<<f.key, 0>>}
           /\ spell' = [spell EXCEPT ![n].reboots = @ + (IF d[1] = "reboot" THEN 1 ELSE 0)]
        \/ Abort /\ issues' = is /\ lost' = lost /\ spell' = spell
    BY DEF ActOnDarkNode, n, d
  <1>7. ASSUME spell' = [spell EXCEPT ![n].reboots = @ + (IF d[1] = "reboot" THEN 1 ELSE 0)]
        PROVE  /\ spell' \in [Nodes -> [reboots : Nat, stale : BOOLEAN]]
               /\ \A m \in Nodes : spell'[m].stale = spell[m].stale
               /\ \A m \in Nodes \ {n} : spell'[m] = spell[m]
               /\ spell'[n].reboots = IF d[1] = "reboot" THEN spell[n].reboots + 1 ELSE spell[n].reboots
               /\ spell'[n].reboots >= spell[n].reboots
    <2>1. spell[n] \in [reboots : Nat, stale : BOOLEAN]
      BY <1>1, <1>4 DEF n
    <2>2. [spell[n] EXCEPT !.reboots = @ + (IF d[1] = "reboot" THEN 1 ELSE 0)] \in [reboots : Nat, stale : BOOLEAN]
      BY <2>1
    <2>3. spell' = [spell EXCEPT ![n] = [spell[n] EXCEPT !.reboots = @ + (IF d[1] = "reboot" THEN 1 ELSE 0)]]
      BY <1>4, <1>7
    <2>4. /\ spell'[n] = [spell[n] EXCEPT !.reboots = @ + (IF d[1] = "reboot" THEN 1 ELSE 0)]
          /\ \A m \in Nodes \ {n} : spell'[m] = spell[m]
          /\ spell' \in [Nodes -> [reboots : Nat, stale : BOOLEAN]]
      BY <1>1, <1>4, <2>2, <2>3 DEF n
    <2>5. /\ spell'[n].stale = spell[n].stale
          /\ spell'[n].reboots = IF d[1] = "reboot" THEN spell[n].reboots + 1 ELSE spell[n].reboots
      BY <2>1, <2>4
    <2>6. spell'[n].reboots >= spell[n].reboots
      BY <2>1, <2>5
    <2> QED
      BY <2>4, <2>5, <2>6
  <1>8. ASSUME issues' = [is EXCEPT ![f.key][1].ladder = d[2]]
        PROVE  /\ issues' \in [Keys -> Seq(IssueRecs)] /\ issues'[f.key] # <<>>
               /\ Len(issues'[f.key]) = Len(is[f.key])
               /\ \A j \in Keys \ {f.key} : issues'[j] = is[j]
               /\ issues'[f.key][1].ladder = d[2] /\ Head(issues'[f.key]).ladder = d[2]
    <2>1. issues' = [is EXCEPT ![f.key] = [@ EXCEPT ![1] = x]]
      BY <1>8
    <2> HIDE DEF x
    <2> QED
      BY <1>1, <1>5, <2>1, WriteIssue
  <1>9. CASE d[1] = "none" /\ Did(f) /\ issues' = is /\ spell' = spell /\ lost' = lost
    BY <1>1, <1>2, <1>3, <1>4, <1>9 DEF n, d
  <1>10. CASE /\ Did(f) /\ lost' = lost
              /\ issues' = [is EXCEPT ![f.key][1].ladder = d[2]]
              /\ spell' = [spell EXCEPT ![n].reboots = @ + (IF d[1] = "reboot" THEN 1 ELSE 0)]
    BY <1>1, <1>2, <1>7, <1>8, <1>10 DEF n, d
  <1>11. CASE /\ Abort /\ issues' = is /\ lost' = lost \cup {<<f.key, 0>>}
              /\ spell' = [spell EXCEPT ![n].reboots = @ + (IF d[1] = "reboot" THEN 1 ELSE 0)]
    BY <1>1, <1>2, <1>7, <1>11 DEF n, d
  <1>12. CASE Abort /\ issues' = is /\ lost' = lost /\ spell' = spell
    BY <1>1, <1>2, <1>4, <1>12 DEF n, d
  <1> QED
    BY <1>6, <1>9, <1>10, <1>11, <1>12

------------------------------------------------------------------------------
(* The steps of a run                                                      *)

\* What is under way is about the findings and the keys of their kinds.
LEMMA FoundAre ==
    ASSUME TypeOK, PhasesHold, InRun
    PROVE  /\ \A f \in run.found : f \in Findings /\ f.key \in Keys /\ Kind(f) = f.key[1]
           /\ run.pc = "update" => \A f \in run.todo : f \in run.found /\ f \in Duplicates
           /\ run.pc \in {"terminate", "escalate"} =>
                \A f \in run.todo : f \in run.found /\ f \in Duplicates /\ Open(f.key)
           /\ run.pc = "file" => \A f \in run.todo : f \in run.found /\ f \in run.new
  <1>1. run.found \subseteq Findings /\ run.new \subseteq Findings
    BY DEF TypeOK, RunsWith
  <1>2. \A f \in Findings : f.key \in Keys /\ Kind(f) = f.key[1]
    BY DEF Findings, Kind
  <1> QED
    BY <1>1, <1>2 DEF PhasesHold, Filing, Duplicates

\* An item of a phase is done: its issue is written, filed or closed as the phase has it.
LEMMA ItemDone ==
    ASSUME TypeOK, FoundHolds, PhasesHold, IssuesCovered, InRun,
           NEW x \in run.todo, run' = [run EXCEPT !.todo = @ \ {x}],
           op' = op, node' = node, \A n \in Nodes \ run.unknown : spell'[n] = spell[n],
           NEW k \in Keys, \A j \in Keys \ {k} : issues'[j] = issues[j],
           IF run.pc \in {"close", "recover"} THEN x = k /\ issues'[k] = <<>>
           ELSE x.key = k /\ (issues'[k] # <<>> \/ run.pc = "update")
    PROVE  FoundHolds' /\ PhasesHold' /\ IssuesCovered'
  <1>1. /\ run'.pc = run.pc /\ run'.found = run.found /\ run'.new = run.new
        /\ run'.unknown = run.unknown /\ run'.exit = run.exit
        /\ run'.todo = run.todo \ {x}
        /\ InRun' <=> InRun
        /\ Duplicates' = Duplicates
    BY WentOn
  <1>2. FoundHolds'
    BY <1>1 DEF FoundHolds, Stuck
  <1>3. \A f \in run.found : f.key \in Keys /\ Kind(f) = f.key[1]
    BY FoundAre
  <1>4. \A f \in Duplicates : f \in run.found
    BY DEF Duplicates
  <1>5. run.pc \in Filing => run.new \subseteq run.found
    BY DEF PhasesHold
  <1>6. \A f, g \in run.found : f.key = g.key => f = g
    BY DEF FoundHolds
  <1>7. CASE run.pc = "close"
    <2>1. PhasesHold'
      BY <1>1, <1>7 DEF PhasesHold, Filing
    <2>2. IssuesCovered'
      BY <1>1, <1>7 DEF IssuesCovered, Open
    <2> QED
      BY <1>2, <2>1, <2>2
  <1>8. CASE run.pc = "recover"
    <2>1. k[1] = DARK /\ k[2] \notin run.unknown
      BY <1>8 DEF PhasesHold
    <2>2. \A f \in run.found : Kind(f) = DARK => f.key # k
      BY <2>1 DEF FoundHolds
    <2>3. \A f \in run.found : Kind(f) \in {ARGO, DARK} => f.key # k
      BY <1>3, <2>1, <2>2, KindsDiffer
    <2>4. PhasesHold'
      BY <1>1, <1>3, <1>4, <1>5, <1>8, <2>3 DEF PhasesHold, Filing, Open
    <2>5. IssuesCovered'
      BY <1>1, <1>8, <2>1, KindsDiffer DEF IssuesCovered, Open, Filing
    <2> QED
      BY <1>2, <2>4, <2>5
  <1>9. CASE run.pc = "update"
    <2>1. x \in Duplicates /\ Kind(x) \in Churn /\ Open(k) /\ x.key = k /\ x \in run.found
      BY <1>4, <1>9 DEF PhasesHold
    <2>2. \A f \in run.new : f.key # k
      BY <1>9, <2>1 DEF PhasesHold, Filing
    <2>3. \A f \in run.found : Kind(f) \in {ARGO, DARK} => f.key # k
      BY <1>3, <2>1, KindsDiffer
    <2>4. \A f \in run.todo \ {x} : f.key # k
      BY <1>4, <1>6, <1>9, <2>1 DEF PhasesHold
    <2>5. PhasesHold'
      BY <1>1, <1>3, <1>4, <1>5, <1>9, <2>2, <2>3, <2>4 DEF PhasesHold, Filing, Open
    <2>6. IssuesCovered'
      BY <1>1, <1>9, <2>1 DEF IssuesCovered, Open, Filing
    <2> QED
      BY <1>2, <2>5, <2>6
  <1>10. CASE run.pc \in {"terminate", "escalate"}
    <2>1. x \in Duplicates /\ x.key = k /\ x \in run.found /\ Open(k) /\ issues'[k] # <<>>
      BY <1>10, FoundAre
    <2>2. \A f \in run.new : f.key # k
      BY <1>10, <2>1 DEF PhasesHold, Filing
    <2>5. PhasesHold'
      BY <1>1, <1>3, <1>4, <1>5, <1>10, <2>1, <2>2 DEF PhasesHold, Filing, Open
    <2>6. IssuesCovered'
      BY <1>1, <1>10, <2>1 DEF IssuesCovered, Open, Filing
    <2> QED
      BY <1>2, <2>5, <2>6
  <1>11. CASE run.pc = "file"
    <2>1. x \in run.new /\ x.key = k /\ x \in run.found /\ issues'[k] # <<>>
      BY <1>11, FoundAre
    <2>4. \A f \in run.todo \ {x} : f.key # k
      BY <1>6, <1>11, <2>1, FoundAre
    <2>5. PhasesHold'
      BY <1>1, <1>3, <1>4, <1>5, <1>11, <2>1, <2>4 DEF PhasesHold, Filing, Open
    <2>6. IssuesCovered'
      BY <1>1, <1>11, <2>1 DEF IssuesCovered, Open, Filing
    <2> QED
      BY <1>2, <2>5, <2>6
  <1> QED
    BY <1>7, <1>8, <1>9, <1>10, <1>11 DEF InRun, Filing

\* A run that ends with an error before it did anything leaves all as it was.
LEMMA AbortKeeps ==
    ASSUME IInv, Abort, Keep, UNCHANGED issues, UNCHANGED history
    PROVE  IInv'
  <1>1. /\ run' \in RunsWith(run'.open) /\ faults' \in Nat /\ ~InRun'
        /\ FoundHolds' /\ PhasesHold' /\ IssuesCovered'
    BY Aborted DEF IInv
  <1>2. TypeOK'
    BY <1>1 DEF IInv, TypeOK, Keep, cluster, history
  <1>3. OpsMarked'
    BY OpsFrame DEF IInv, Keep, cluster, history
  <1>4. RebootsOnLadder' /\ LadderEarned'
    BY <1>1, NodesFrame DEF IInv, Keep, cluster, history
  <1> QED
    BY <1>1, <1>2, <1>3, <1>4 DEF IInv

LEMMA CloseStep ==
    ASSUME IInv, CloseResolved
    PROVE  IInv'
  <1>1. PICK k \in run.todo : \/ Abort /\ UNCHANGED issues
                              \/ Did(k) /\ issues' = [issues EXCEPT ![k] = <<>>]
    BY DEF CloseResolved
  <1>2. run.pc = "close" /\ InRun /\ Keep /\ UNCHANGED history
    BY DEF CloseResolved, InRun
  <1>3. k \in Keys /\ k[1] \in Churn \cup {ARGO} /\ \A f \in run.found : f.key # k
    BY <1>2 DEF IInv, PhasesHold
  <1>4. CASE Abort /\ UNCHANGED issues
    BY <1>2, <1>4, AbortKeeps
  <1>5. CASE Did(k) /\ issues' = [issues EXCEPT ![k] = <<>>]
    <2>1. /\ issues' \in [Keys -> Seq(IssueRecs)] /\ issues'[k] = <<>>
          /\ \A j \in Keys \ {k} : issues'[j] = issues[j]
      BY <1>3, <1>5, CloseIssues DEF IInv
    <2>2. run' = [run EXCEPT !.todo = @ \ {k}] /\ UNCHANGED faults
      BY <1>5 DEF Did
    <2>3. run' \in RunsWith(run'.open) /\ run'.found = run.found /\ (InRun' <=> InRun)
      BY <2>2, WentOn DEF IInv
    <2>4. TypeOK'
      BY <1>2, <2>1, <2>2, <2>3 DEF IInv, TypeOK, Keep, cluster, history
    <2>5. FoundHolds' /\ PhasesHold' /\ IssuesCovered'
      BY <1>2, <1>3, <2>1, <2>2, ItemDone DEF IInv, Keep, cluster, history
    <2>6. \A n \in Nodes : issues'[<<DARK, n>>] = issues[<<DARK, n>>]
      BY <1>3, <2>1, KeyFacts, KindsDiffer
    <2>7. RebootsOnLadder' /\ LadderEarned'
      BY <1>2, <2>3, <2>6, NodesFrame DEF IInv, Keep, cluster, history
    <2>8. OpsMarked'
      <3>1. \A a \in Apps : <<ARGO, a>> = k => ~Stuck(a)
        BY <1>2, <1>3 DEF IInv, FoundHolds
      <3>2. \A a \in Apps : <<ARGO, a>> # k => issues'[<<ARGO, a>>] = issues[<<ARGO, a>>]
        BY <2>1, KeyFacts
      <3>3. op' = op /\ terms' = terms /\ lost' = lost
        BY <1>2 DEF Keep, cluster, history
      <3> QED
        BY <3>1, <3>2, <3>3 DEF IInv, OpsMarked, Over, Stuck, Open, Tracked
    <2> QED
      BY <2>4, <2>5, <2>7, <2>8 DEF IInv
  <1> QED
    BY <1>1, <1>4, <1>5

LEMMA UpdateStep ==
    ASSUME IInv, Update
    PROVE  IInv'
  <1>1. PICK f \in run.todo :
             IF Tracked(f.key).inst = f.id THEN Did(f) /\ UNCHANGED issues
             ELSE \/ Abort /\ UNCHANGED issues
                  \/ /\ ~Tracked(f.key).capped
                     /\ Did(f) /\ issues' = [issues EXCEPT ![f.key][1].inst = f.id]
                  \/ /\ ~Tracked(f.key).capped /\ faults < MaxFaults
                     /\ faults' = faults + 1 /\ run' = [run EXCEPT !.todo = @ \ {f}] /\ UNCHANGED issues
                  \/ /\ Tracked(f.key).capped
                     /\ Did(f) /\ issues' = [issues EXCEPT ![f.key] = Tail(@)]
    BY DEF Update
  <1>2. run.pc = "update" /\ InRun /\ Keep /\ UNCHANGED history
    BY DEF Update, InRun, Filing
  <1> DEFINE k == f.key
  <1>3. /\ f \in run.found /\ f \in Findings /\ f.id \in Nat /\ k \in Keys /\ k[1] \in Churn /\ Open(k)
    <2>1. f \in run.found /\ Kind(f) \in Churn /\ Open(k)
      BY <1>2, FoundAre DEF IInv, PhasesHold
    <2>2. f \in Findings /\ f.key \in Keys /\ Kind(f) = f.key[1]
      BY <1>2, <2>1, FoundAre DEF IInv
    <2> QED
      BY <2>1, <2>2 DEF Findings
  <1>4. \/ Abort /\ UNCHANGED issues
        \/ /\ run' = [run EXCEPT !.todo = @ \ {f}] /\ faults' \in {faults, faults + 1}
           /\ \/ issues' = issues
              \/ issues' = [issues EXCEPT ![k][1].inst = f.id]
              \/ issues' = [issues EXCEPT ![k] = Tail(@)]
    BY <1>1 DEF Did
  <1>5. CASE Abort /\ UNCHANGED issues
    BY <1>2, <1>5, AbortKeeps
  <1>6. CASE /\ run' = [run EXCEPT !.todo = @ \ {f}] /\ faults' \in {faults, faults + 1}
             /\ \/ issues' = issues
                \/ issues' = [issues EXCEPT ![k][1].inst = f.id]
                \/ issues' = [issues EXCEPT ![k] = Tail(@)]
    <2>1. /\ issues' \in [Keys -> Seq(IssueRecs)]
          /\ \A j \in Keys \ {k} : issues'[j] = issues[j]
      <3>1. CASE issues' = issues
        BY <3>1 DEF IInv, TypeOK
      <3>2. CASE issues' = [issues EXCEPT ![k][1].inst = f.id]
        <4> DEFINE x == [issues[k][1] EXCEPT !.inst = f.id]
        <4>1. x \in IssueRecs
          BY <1>3, FirstIssue, IssueTypes DEF IInv
        <4>2. issues \in [Keys -> Seq(IssueRecs)] /\ issues[k] # <<>>
          BY <1>3 DEF IInv, TypeOK, Open
        <4>3. issues' = [issues EXCEPT ![k] = [@ EXCEPT ![1] = x]]
          BY <3>2
        <4> HIDE DEF x, k
        <4> QED
          BY <1>3, <4>1, <4>2, <4>3, WriteIssue
      <3>3. CASE issues' = [issues EXCEPT ![k] = Tail(@)]
        BY <1>3, <3>3, DropIssue DEF IInv
      <3> QED
        BY <1>6, <3>1, <3>2, <3>3
    <2>2. run' \in RunsWith(run'.open) /\ run'.found = run.found /\ (InRun' <=> InRun)
      BY <1>6, WentOn DEF IInv
    <2>3. TypeOK'
      BY <1>2, <1>6, <2>1, <2>2 DEF IInv, TypeOK, Keep, cluster, history
    <2>4. FoundHolds' /\ PhasesHold' /\ IssuesCovered'
      BY <1>2, <1>3, <1>6, <2>1, ItemDone DEF IInv, Keep, cluster, history
    <2>5. /\ \A n \in Nodes : issues'[<<DARK, n>>] = issues[<<DARK, n>>]
          /\ \A a \in Apps : issues'[<<ARGO, a>>] = issues[<<ARGO, a>>]
      BY <1>3, <2>1, KeyFacts, KindsDiffer
    <2>6. RebootsOnLadder' /\ LadderEarned'
      BY <1>2, <2>2, <2>5, NodesFrame DEF IInv, Keep, cluster, history
    <2>7. OpsMarked'
      BY <1>2, <2>5, OpsFrame DEF IInv, Keep, cluster, history
    <2> QED
      BY <2>3, <2>4, <2>6, <2>7 DEF IInv
  <1> QED
    BY <1>4, <1>5, <1>6

\* A terminate counts for the operation the finding names.
LEMMA DispatchFacts ==
    ASSUME TypeOK, NEW f \in Findings, Kind(f) = ARGO, dispatch_terminate_op(f)
    PROVE  /\ f.key[2] \in Apps /\ f.key = <<ARGO, f.key[2]>> /\ f.key \in Keys
           /\ terms' \in [Apps -> [1..MaxOps -> Nat]]
           /\ \A a \in Apps, o \in 1..MaxOps :
                terms'[a][o] = IF a = f.key[2] /\ o = f.id THEN terms[a][o] + 1 ELSE terms[a][o]
  <1> DEFINE b == f.key[2]
  <1>1. b \in Apps /\ f.key = <<ARGO, b>> /\ f.key \in Keys
    BY KeyFacts DEF Kind, Findings
  <1>2. terms \in [Apps -> [1..MaxOps -> Nat]] /\ terms[b] \in [1..MaxOps -> Nat]
    BY <1>1 DEF TypeOK
  <1>3. terms' = [terms EXCEPT ![b] = [terms[b] EXCEPT ![f.id] = @ + 1]]
    BY <1>2 DEF dispatch_terminate_op
  <1> HIDE DEF b
  <1>4. /\ [terms[b] EXCEPT ![f.id] = @ + 1] \in [1..MaxOps -> Nat]
        /\ \A o \in 1..MaxOps : [terms[b] EXCEPT ![f.id] = @ + 1][o] = IF o = f.id THEN terms[b][o] + 1 ELSE terms[b][o]
    <2>1. \A c \in [1..MaxOps -> Nat] : \A i :
            /\ [c EXCEPT ![i] = @ + 1] \in [1..MaxOps -> Nat]
            /\ \A o \in 1..MaxOps : [c EXCEPT ![i] = @ + 1][o] = IF o = i THEN c[o] + 1 ELSE c[o]
      <3> SUFFICES ASSUME NEW c \in [1..MaxOps -> Nat], NEW i
                   PROVE  /\ [c EXCEPT ![i] = @ + 1] \in [1..MaxOps -> Nat]
                          /\ \A o \in 1..MaxOps : [c EXCEPT ![i] = @ + 1][o] = IF o = i THEN c[o] + 1 ELSE c[o]
        OBVIOUS
      <3>1. \A o \in 1..MaxOps : (IF o = i THEN c[o] + 1 ELSE c[o]) \in Nat
        OBVIOUS
      <3> QED
        BY <3>1
    <2> QED
      BY <1>2, <2>1
  <1>5. /\ terms' \in [Apps -> [1..MaxOps -> Nat]]
        /\ terms'[b] = [terms[b] EXCEPT ![f.id] = @ + 1]
        /\ \A a \in Apps \ {b} : terms'[a] = terms[a]
    BY <1>1, <1>2, <1>3, <1>4
  <1>6. \A a \in Apps, o \in 1..MaxOps :
            terms'[a][o] = IF a = b /\ o = f.id THEN terms[a][o] + 1 ELSE terms[a][o]
    BY <1>4, <1>5
  <1> QED
    BY <1>1, <1>5, <1>6 DEF b

\* A terminate of a stuck operation that nothing marks: the first one of the operation.
\* It is on record afterwards, or its record is lost.
LEMMA FirstTerminate ==
    ASSUME TypeOK, OpsMarked, NEW f \in Findings, Kind(f) = ARGO, dispatch_terminate_op(f),
           op' = op, Stuck(f.key[2]), f.id = op[f.key[2]].id,
           Open(f.key) => f.id \notin Tracked(f.key).done,
           \A a \in Apps \ {f.key[2]} : issues'[<<ARGO, a>>] = issues[<<ARGO, a>>],
           lost \subseteq lost',
           \/ <<f.key, f.id>> \in lost'
           \/ issues'[f.key] # <<>> /\ f.id \in Head(issues'[f.key]).done
    PROVE  OpsMarked'
  <1> DEFINE b == f.key[2]
  <1>1. /\ b \in Apps /\ f.key = <<ARGO, b>>
        /\ \A a \in Apps, o \in 1..MaxOps :
             terms'[a][o] = IF a = b /\ o = f.id THEN terms[a][o] + 1 ELSE terms[a][o]
        /\ \A a \in Apps, o \in 1..MaxOps : terms[a][o] \in Nat
    <2>1. \A a \in Apps, o \in 1..MaxOps : terms[a][o] \in Nat
      BY DEF TypeOK
    <2> QED
      BY <2>1, DispatchFacts
  <1>2. ASSUME NEW a \in Apps, NEW o \in 1..MaxOps, terms'[a][o] > 0, <<<<ARGO, a>>, o>> \notin lost', a # b
        PROVE  /\ terms'[a][o] = 1
               /\ \/ Over(a, o)'
                  \/ /\ op'[a].id = o /\ Stuck(a)' /\ Open(<<ARGO, a>>)'
                     /\ o \in Tracked(<<ARGO, a>>)'.done
    BY <1>1, <1>2 DEF OpsMarked, Over, Stuck, Open, Tracked
  <1>3. ASSUME NEW o \in 1..MaxOps, terms'[b][o] > 0, <<<<ARGO, b>>, o>> \notin lost', o # f.id
        PROVE  terms'[b][o] = 1 /\ Over(b, o)'
    BY <1>1, <1>3 DEF OpsMarked, Over, Stuck
  <1>4. ASSUME f.id \in 1..MaxOps, <<<<ARGO, b>>, f.id>> \notin lost'
        PROVE  /\ terms'[b][f.id] = 1
               /\ op'[b].id = f.id /\ Stuck(b)' /\ Open(<<ARGO, b>>)'
               /\ f.id \in Tracked(<<ARGO, b>>)'.done
    <2>1. ~Over(b, f.id)
      <3>1. op[b].id \in Nat /\ op[b].on
        BY <1>1 DEF TypeOK, Stuck
      <3> QED
        BY <3>1 DEF Over
    <2>2. ~(terms[b][f.id] > 0)
      BY <1>1, <1>4, <2>1 DEF OpsMarked
    <2>3. terms'[b][f.id] = 1
      BY <1>1, <1>4, <2>2
    <2> QED
      BY <1>1, <1>4, <2>3 DEF Stuck, Open, Tracked
  <1> QED
    BY <1>1, <1>2, <1>3, <1>4 DEF OpsMarked

\* What is found of an operation is still so; a finding about a node has it unknown.
LEMMA FoundOps ==
    ASSUME IInv, InRun, NEW f \in run.found
    PROVE  /\ Kind(f) = ARGO => Stuck(f.key[2]) /\ f.id = op[f.key[2]].id /\ f.id \in Nat
           /\ Kind(f) = DARK => f.key[2] \in run.unknown /\ f.key[2] \in Nodes /\ f.key = <<DARK, f.key[2]>>
           /\ Kind(f) # ARGO => \A a \in Apps : f.key # <<ARGO, a>>
           /\ Kind(f) # DARK => \A n \in Nodes : f.key # <<DARK, n>>
  <1>1. f \in Findings /\ f.key \in Keys /\ Kind(f) = f.key[1]
    BY FoundAre DEF IInv
  <1>2. ASSUME Kind(f) = ARGO
        PROVE  Stuck(f.key[2]) /\ f.id = op[f.key[2]].id /\ f.id \in Nat
    <2>1. f.key[2] \in Apps /\ f.key = <<ARGO, f.key[2]>>
      BY <1>1, <1>2, KeyFacts
    <2> QED
      BY <1>1, <1>2, <2>1 DEF IInv, FoundHolds, Findings
  <1>3. ASSUME Kind(f) = DARK
        PROVE  f.key[2] \in run.unknown /\ f.key[2] \in Nodes /\ f.key = <<DARK, f.key[2]>>
    <2>1. f.key[2] \in Nodes /\ f.key = <<DARK, f.key[2]>>
      BY <1>1, <1>3, KeyFacts
    <2>2. f.key[2] \in run.unknown
      BY <1>3 DEF IInv, FoundHolds
    <2> QED
      BY <2>1, <2>2
  <1> QED
    BY <1>1, <1>2, <1>3, KeyFacts

LEMMA TerminateStep ==
    ASSUME IInv, Terminate
    PROVE  IInv'
  <1>1. PICK f \in run.todo :
         \/ f.id \in Tracked(f.key).done /\ Did(f) /\ UNCHANGED <<issues, terminating, history>>
         \/ f.id \notin Tracked(f.key).done /\ Abort /\ UNCHANGED <<issues, terminating, history>>
         \/ /\ f.id \notin Tracked(f.key).done
            /\ dispatch_terminate_op(f) /\ UNCHANGED spell
            /\ \/ Abort /\ UNCHANGED issues /\ lost' = lost \cup {<<f.key, f.id>>}
               \/ Did(f) /\ issues' = [issues EXCEPT ![f.key][1].done = @ \cup {f.id}] /\ UNCHANGED lost
    BY DEF Terminate
  <1>2. run.pc = "terminate" /\ InRun /\ UNCHANGED <<fleet, class, cluster>>
    BY DEF Terminate, InRun, Filing
  <1> DEFINE k == f.key
  <1>3. /\ f \in run.found /\ f \in Findings /\ k \in Keys /\ Kind(f) = ARGO /\ Open(k)
        /\ k[2] \in Apps /\ k = <<ARGO, k[2]>> /\ Stuck(k[2]) /\ f.id = op[k[2]].id /\ f.id \in Nat
    <2>1. f \in run.found /\ Kind(f) = ARGO /\ Open(k)
      BY <1>2, FoundAre DEF IInv, PhasesHold
    <2>2. f \in Findings /\ k \in Keys /\ Kind(f) = k[1]
      BY <1>2, <2>1, FoundAre DEF IInv
    <2> QED
      BY <1>2, <2>1, <2>2, FoundOps, KeyFacts
  <1>4. CASE f.id \in Tracked(f.key).done /\ Did(f) /\ UNCHANGED <<issues, terminating, history>>
    <2>1. run' = [run EXCEPT !.todo = @ \ {f}] /\ UNCHANGED faults
      BY <1>4 DEF Did
    <2>2. run' \in RunsWith(run'.open) /\ run'.found = run.found /\ (InRun' <=> InRun)
      BY <2>1, WentOn DEF IInv
    <2>3. TypeOK'
      BY <1>2, <1>4, <2>1, <2>2 DEF IInv, TypeOK, cluster, history
    <2>4. FoundHolds' /\ PhasesHold' /\ IssuesCovered'
      BY <1>2, <1>3, <1>4, <2>1, ItemDone DEF IInv, cluster, history, Open
    <2>5. RebootsOnLadder' /\ LadderEarned'
      BY <1>2, <1>4, <2>2, NodesFrame DEF IInv, cluster, history
    <2>6. OpsMarked'
      BY <1>2, <1>4, OpsFrame DEF IInv, cluster, history
    <2> QED
      BY <2>3, <2>4, <2>5, <2>6 DEF IInv
  <1>5. CASE f.id \notin Tracked(f.key).done /\ Abort /\ UNCHANGED <<issues, terminating, history>>
    BY <1>2, <1>5, AbortKeeps DEF Keep
  <1>6. CASE /\ f.id \notin Tracked(f.key).done
             /\ dispatch_terminate_op(f) /\ UNCHANGED spell
             /\ Abort /\ UNCHANGED issues /\ lost' = lost \cup {<<f.key, f.id>>}
    <2>1. /\ run' \in RunsWith(run'.open) /\ faults' \in Nat /\ ~InRun'
          /\ FoundHolds' /\ PhasesHold' /\ IssuesCovered'
      BY <1>6, Aborted DEF IInv
    <2>2. TypeOK'
      BY <1>2, <1>3, <1>6, <2>1, DispatchFacts DEF IInv, TypeOK, cluster
    <2>3. OpsMarked'
      BY <1>2, <1>3, <1>6, FirstTerminate DEF IInv, cluster
    <2>4. RebootsOnLadder' /\ LadderEarned'
      BY <1>2, <1>6, <2>1, NodesFrame DEF IInv, cluster
    <2> QED
      BY <2>1, <2>2, <2>3, <2>4 DEF IInv
  <1>7. CASE /\ f.id \notin Tracked(f.key).done
             /\ dispatch_terminate_op(f) /\ UNCHANGED spell
             /\ Did(f) /\ issues' = [issues EXCEPT ![f.key][1].done = @ \cup {f.id}] /\ UNCHANGED lost
    <2>1. run' = [run EXCEPT !.todo = @ \ {f}] /\ UNCHANGED faults
      BY <1>7 DEF Did
    <2>2. run' \in RunsWith(run'.open) /\ run'.found = run.found /\ (InRun' <=> InRun)
      BY <2>1, WentOn DEF IInv
    <2>3. /\ issues' \in [Keys -> Seq(IssueRecs)]
          /\ issues'[k] # <<>> /\ f.id \in Head(issues'[k]).done
          /\ \A j \in Keys \ {k} : issues'[j] = issues[j]
      <3> DEFINE x == [issues[k][1] EXCEPT !.done = @ \cup {f.id}]
      <3>1. issues[k][1] \in IssueRecs /\ issues[k][1].done \in SUBSET Nat
        BY <1>3, FirstIssue DEF IInv
      <3>2. x \in IssueRecs /\ f.id \in x.done
        BY <1>3, <3>1 DEF IssueRecs
      <3>3. issues \in [Keys -> Seq(IssueRecs)] /\ issues[k] # <<>>
        BY <1>3 DEF IInv, TypeOK, Open
      <3>4. issues' = [issues EXCEPT ![k] = [@ EXCEPT ![1] = x]]
        BY <1>7
      <3> HIDE DEF x, k
      <3> QED
        BY <1>3, <3>2, <3>3, <3>4, WriteIssue
    <2>4. TypeOK'
      BY <1>2, <1>3, <1>7, <2>1, <2>2, <2>3, DispatchFacts DEF IInv, TypeOK, cluster
    <2>5. FoundHolds' /\ PhasesHold' /\ IssuesCovered'
      BY <1>2, <1>3, <1>7, <2>1, <2>3, ItemDone DEF IInv, cluster
    <2>6. /\ \A n \in Nodes : issues'[<<DARK, n>>] = issues[<<DARK, n>>]
          /\ \A a \in Apps \ {k[2]} : issues'[<<ARGO, a>>] = issues[<<ARGO, a>>]
      BY <1>3, <2>3, KeyFacts, KindsDiffer
    <2>7. OpsMarked'
      BY <1>2, <1>3, <1>7, <2>3, <2>6, FirstTerminate DEF IInv, cluster
    <2>8. RebootsOnLadder' /\ LadderEarned'
      BY <1>2, <1>7, <2>2, <2>6, NodesFrame DEF IInv, cluster
    <2> QED
      BY <2>4, <2>5, <2>7, <2>8 DEF IInv
  <1> QED
    BY <1>1, <1>4, <1>5, <1>6, <1>7

LEMMA RecoverStep ==
    ASSUME IInv, Recover
    PROVE  IInv'
  <1>1. PICK k \in run.todo : \/ Abort /\ UNCHANGED issues
                              \/ Did(k) /\ issues' = [issues EXCEPT ![k] = <<>>]
    BY DEF Recover
  <1>2. run.pc = "recover" /\ InRun /\ Keep /\ UNCHANGED history
    BY DEF Recover, InRun, Filing
  <1> DEFINE n == k[2]
  <1>3. k \in Keys /\ n \in Nodes /\ k = <<DARK, n>> /\ k[1] = DARK /\ n \notin run.unknown
    <2>1. k \in Keys /\ k[1] = DARK /\ n \notin run.unknown
      BY <1>2 DEF IInv, PhasesHold
    <2> QED
      BY <2>1, KeyFacts
  <1>4. CASE Abort /\ UNCHANGED issues
    BY <1>2, <1>4, AbortKeeps
  <1>5. CASE Did(k) /\ issues' = [issues EXCEPT ![k] = <<>>]
    <2>1. /\ issues' \in [Keys -> Seq(IssueRecs)] /\ issues'[k] = <<>>
          /\ \A j \in Keys \ {k} : issues'[j] = issues[j]
      BY <1>3, <1>5, CloseIssues DEF IInv
    <2>2. run' = [run EXCEPT !.todo = @ \ {k}] /\ UNCHANGED faults
      BY <1>5 DEF Did
    <2>3. run' \in RunsWith(run'.open) /\ run'.found = run.found /\ (InRun' <=> InRun)
      BY <2>2, WentOn DEF IInv
    <2>4. TypeOK'
      BY <1>2, <2>1, <2>2, <2>3 DEF IInv, TypeOK, Keep, cluster, history
    <2>5. FoundHolds' /\ PhasesHold' /\ IssuesCovered'
      BY <1>2, <1>3, <2>1, <2>2, ItemDone DEF IInv, Keep, cluster, history
    <2>6. OpsMarked'
      <3>0. \A a \in Apps : <<ARGO, a>> \in Keys /\ <<ARGO, a>> # k
        BY <1>3, KeyFacts, KindsDiffer
      <3>1. \A a \in Apps : issues'[<<ARGO, a>>] = issues[<<ARGO, a>>]
        BY <2>1, <3>0
      <3> QED
        BY <1>2, <3>1, OpsFrame DEF IInv, Keep, cluster, history
    <2>7. \A m \in Nodes \ {n} : <<DARK, m>> # k /\ issues'[<<DARK, m>>] = issues[<<DARK, m>>]
      <3>1. \A m \in Nodes \ {n} : <<DARK, m>> \in Keys /\ <<DARK, m>> # k
        BY <1>3, KeyFacts
      <3> QED
        BY <2>1, <3>1
    <2>8. node' = node /\ spell' = spell /\ lost' = lost
      BY <1>2 DEF Keep, cluster, history
    <2>9. LadderEarned'
      BY <1>3, <2>1, <2>7, <2>8 DEF IInv, LadderEarned, Open, Tracked
    <2>10. ASSUME <<<<DARK, n>>, 0>> \notin lost
           PROVE  \/ spell[n].reboots = 0
                  \/ /\ node[n] < 0 /\ spell[n].reboots <= MaxAttempts
                     /\ \A f \in run.found : f.key # <<DARK, n>>
      <3>1. spell[n].reboots \in Nat
        BY <1>3 DEF IInv, TypeOK
      <3>2. spell[n].reboots <= MaxAttempts
        <4>1. CASE Open(k) /\ spell[n].reboots <= Tracked(k).ladder.attempts
          <5>1. Tracked(k).ladder.attempts \in 0..MaxAttempts
            BY <1>3, <4>1, FirstIssue DEF IInv, Ladders
          <5> QED
            BY <3>1, <4>1, <5>1, Limits
        <4>2. CASE spell[n].reboots = 0
          BY <4>2, Limits
        <4> QED
          BY <1>3, <2>10, <4>1, <4>2 DEF IInv, RebootsOnLadder
      <3>3. \A f \in run.found : f.key # <<DARK, n>>
        <4> SUFFICES ASSUME NEW f \in run.found, f.key = <<DARK, n>>
                     PROVE  FALSE
          OBVIOUS
        <4>1. Kind(f) = DARK /\ f.key[2] = n
          BY <1>3, KeyFacts DEF Kind
        <4> QED
          BY <1>2, <1>3, <4>1, FoundOps
      <3>4. node[n] < 0 \/ spell[n].reboots = 0
        BY <1>2, <1>3 DEF IInv, FoundHolds
      <3> QED
        BY <3>2, <3>3, <3>4
    <2>11. RebootsOnLadder'
      <3>1. ASSUME NEW m \in Nodes \ {n}, <<<<DARK, m>>, 0>> \notin lost'
            PROVE  \/ Open(<<DARK, m>>)' /\ spell'[m].reboots <= Tracked(<<DARK, m>>)'.ladder.attempts
                   \/ spell'[m].reboots = 0
                   \/ /\ node'[m] < 0 /\ spell'[m].reboots <= MaxAttempts
                      /\ InRun' => \A f \in run'.found : f.key # <<DARK, m>>
        BY <2>3, <2>7, <2>8, <3>1 DEF IInv, RebootsOnLadder, Open, Tracked
      <3> QED
        BY <1>3, <2>3, <2>8, <2>10, <3>1 DEF RebootsOnLadder
    <2> QED
      BY <2>4, <2>5, <2>6, <2>9, <2>11 DEF IInv
  <1> QED
    BY <1>1, <1>4, <1>5

\* A step of the ladder of n, on issues in which the ladder covers the reboots of the
\* spell: it does so afterwards.
LEMMA LadderStep ==
    ASSUME TypeOK, RebootsOnLadder, LadderEarned,
           NEW f \in Findings, Kind(f) = DARK, NEW is \in [Keys -> Seq(IssueRecs)],
           is[f.key] # <<>>, ActOnDarkNode(f, is), node' = node,
           \A m \in Nodes : f.key # <<DARK, m>> => is[<<DARK, m>>] = issues[<<DARK, m>>],
           <<f.key, 0>> \notin lost => spell[f.key[2]].reboots <= is[f.key][1].ladder.attempts,
           \/ node[f.key[2]] < 0 \/ spell[f.key[2]].stale
           \/ is[f.key][1].ladder.attempts <= spell[f.key[2]].reboots
    PROVE  RebootsOnLadder' /\ LadderEarned'
  <1> DEFINE n == f.key[2]
             l == is[f.key][1].ladder
             d == decide_dark_node_escalation(n, f.age, run.peers, l)
  <1>1. /\ n \in Nodes /\ f.key = <<DARK, n>> /\ f.key \in Keys /\ l \in Ladders
        /\ issues' \in [Keys -> Seq(IssueRecs)] /\ issues'[f.key] # <<>>
        /\ \A j \in Keys \ {f.key} : issues'[j] = is[j]
        /\ spell' \in [Nodes -> [reboots : Nat, stale : BOOLEAN]]
        /\ \A m \in Nodes : spell'[m].stale = spell[m].stale
        /\ \A m \in Nodes \ {n} : spell'[m] = spell[m]
        /\ \/ /\ Did(f) /\ lost' = lost
              /\ issues'[f.key][1].ladder = d[2] /\ Head(issues'[f.key]).ladder = d[2]
              /\ spell'[n].reboots = IF d[1] = "reboot" THEN spell[n].reboots + 1 ELSE spell[n].reboots
           \/ Abort /\ issues' = is /\ lost' = lost \cup {<<f.key, 0>>} /\ spell'[n].reboots >= spell[n].reboots
           \/ Abort /\ issues' = is /\ lost' = lost /\ spell' = spell
    BY ActFacts
  <1>2. f.age \in Int /\ run.peers \in Int
    BY DEF Findings, TypeOK, RunsWith
  <1>3. d[1] = "reboot" => d[2].attempts = l.attempts + 1
    BY <1>1, <1>2, DecideFacts
  <1>4. d[1] # "reboot" => d[2].attempts = l.attempts
    BY <1>1, <1>2, DecideFacts
  <1>5. l.attempts \in Nat /\ spell[n].reboots \in Nat /\ spell'[n].reboots \in Nat /\ node[n] \in Int
    BY <1>1, SMTT(20) DEF Ladders, TypeOK
  <1>6. Head(is[f.key]) = is[f.key][1]
    BY <1>1
  <1> HIDE DEF n, l, d
  <1>7. \A m \in Nodes \ {n} : issues'[<<DARK, m>>] = issues[<<DARK, m>>]
    BY <1>1, KeyFacts
  <1>8. InRun' => run'.found = run.found /\ InRun
    <2>1. Did(f) => run'.found = run.found /\ (InRun' <=> InRun)
      BY WentOn DEF Did
    <2>2. Abort => ~InRun'
      BY Aborted
    <2> QED
      BY <1>1, <2>1, <2>2
  <1>9. lost \subseteq lost'
    BY <1>1
  <1>10. ASSUME NEW m \in Nodes \ {n}
         PROVE  /\ <<<<DARK, m>>, 0>> \notin lost' =>
                     \/ Open(<<DARK, m>>)' /\ spell'[m].reboots <= Tracked(<<DARK, m>>)'.ladder.attempts
                     \/ spell'[m].reboots = 0
                     \/ /\ node'[m] < 0 /\ spell'[m].reboots <= MaxAttempts
                        /\ InRun' => \A g \in run'.found : g.key # <<DARK, m>>
                /\ Open(<<DARK, m>>)' =>
                     \/ node'[m] < 0 \/ spell'[m].stale
                     \/ Tracked(<<DARK, m>>)'.ladder.attempts <= spell'[m].reboots
    <2>1. /\ issues'[<<DARK, m>>] = issues[<<DARK, m>>] /\ spell'[m] = spell[m]
      BY <1>1, <1>7
    <2> QED
      BY <1>8, <1>9, <2>1 DEF RebootsOnLadder, LadderEarned, Open, Tracked
  <1>11. CASE /\ Did(f) /\ lost' = lost
              /\ issues'[f.key][1].ladder = d[2] /\ Head(issues'[f.key]).ladder = d[2]
              /\ spell'[n].reboots = IF d[1] = "reboot" THEN spell[n].reboots + 1 ELSE spell[n].reboots
    <2>1. /\ <<<<DARK, n>>, 0>> \notin lost' => spell'[n].reboots <= Tracked(<<DARK, n>>)'.ladder.attempts
          /\ \/ node'[n] < 0 \/ spell'[n].stale
             \/ Tracked(<<DARK, n>>)'.ladder.attempts <= spell'[n].reboots
      <3>1. /\ <<<<DARK, n>>, 0>> \notin lost => spell[n].reboots <= l.attempts
            /\ node[n] < 0 \/ spell[n].stale \/ l.attempts <= spell[n].reboots
        BY <1>1 DEF n, l
      <3>2. Tracked(<<DARK, n>>)'.ladder.attempts = d[2].attempts /\ spell'[n].stale = spell[n].stale
        BY <1>1, <1>11 DEF Tracked
      <3>3. CASE d[1] = "reboot"
        BY <1>3, <1>5, <1>11, <3>1, <3>2, <3>3
      <3>4. CASE d[1] # "reboot"
        BY <1>4, <1>5, <1>11, <3>1, <3>2, <3>4
      <3> QED
        BY <3>3, <3>4
    <2> QED
      BY <1>1, <1>10, <2>1 DEF RebootsOnLadder, LadderEarned, Open
  <1>12. CASE Abort /\ issues' = is /\ lost' = lost \cup {<<f.key, 0>>} /\ spell'[n].reboots >= spell[n].reboots
    <2>1. /\ <<<<DARK, n>>, 0>> \in lost'
          /\ \/ node'[n] < 0 \/ spell'[n].stale
             \/ Tracked(<<DARK, n>>)'.ladder.attempts <= spell'[n].reboots
      <3>1. node[n] < 0 \/ spell[n].stale \/ l.attempts <= spell[n].reboots
        BY <1>1 DEF n, l
      <3>2. Tracked(<<DARK, n>>)' = is[f.key][1]
        BY <1>1, <1>6, <1>12 DEF Tracked
      <3>3. Tracked(<<DARK, n>>)'.ladder.attempts = l.attempts /\ spell'[n].stale = spell[n].stale
        BY <1>1, <3>2 DEF l
      <3>4. <<<<DARK, n>>, 0>> \in lost'
        BY <1>1, <1>12
      <3> QED
        BY <1>5, <1>12, <3>1, <3>3, <3>4
    <2> QED
      BY <1>1, <1>10, <2>1 DEF RebootsOnLadder, LadderEarned, Open
  <1>13. CASE Abort /\ issues' = is /\ lost' = lost /\ spell' = spell
    <2>1. /\ <<<<DARK, n>>, 0>> \notin lost' => spell'[n].reboots <= Tracked(<<DARK, n>>)'.ladder.attempts
          /\ \/ node'[n] < 0 \/ spell'[n].stale
             \/ Tracked(<<DARK, n>>)'.ladder.attempts <= spell'[n].reboots
      BY <1>1, <1>5, <1>6, <1>13 DEF Tracked, n, l
    <2> QED
      BY <1>1, <1>10, <2>1 DEF RebootsOnLadder, LadderEarned, Open
  <1> QED
    BY <1>1, <1>11, <1>12, <1>13

\* A step of the ladder leaves the operations alone, and either goes on or ends the run.
LEMMA LadderActs ==
    ASSUME IInv, InRun, NEW f \in run.todo, f \in run.found, Kind(f) = DARK,
           run.pc \in {"escalate", "file"}, op' = op, node' = node,
           NEW is \in [Keys -> Seq(IssueRecs)], is[f.key] # <<>>,
           \A j \in Keys \ {f.key} : is[j] = issues[j],
           ActOnDarkNode(f, is)
    PROVE  /\ run' \in RunsWith(run'.open) /\ faults' \in Nat
           /\ issues' \in [Keys -> Seq(IssueRecs)]
           /\ spell' \in [Nodes -> [reboots : Nat, stale : BOOLEAN]]
           /\ FoundHolds' /\ PhasesHold' /\ IssuesCovered'
           /\ lost \subseteq lost'
           /\ \A a \in Apps : issues'[<<ARGO, a>>] = issues[<<ARGO, a>>]
  <1> DEFINE n == f.key[2]
  <1>1. f \in Findings /\ n \in run.unknown /\ n \in Nodes /\ f.key = <<DARK, n>>
    BY FoundAre, FoundOps DEF IInv
  <1>2. /\ f.key \in Keys
        /\ issues' \in [Keys -> Seq(IssueRecs)] /\ issues'[f.key] # <<>>
        /\ \A j \in Keys \ {f.key} : issues'[j] = is[j]
        /\ spell' \in [Nodes -> [reboots : Nat, stale : BOOLEAN]]
        /\ \A m \in Nodes \ {n} : spell'[m] = spell[m]
        /\ (Did(f) /\ lost' = lost) \/ (Abort /\ lost \subseteq lost')
    BY <1>1, ActFacts DEF IInv
  <1>3. \A a \in Apps : <<ARGO, a>> \in Keys \ {f.key}
    <2>1. f.key[1] = DARK
      BY <1>1
    <2>2. \A a \in Apps : <<ARGO, a>> \in Keys /\ <<ARGO, a>>[1] = ARGO
      BY KeyFacts
    <2> QED
      BY <2>1, <2>2, KindsDiffer
  <1>4. \A a \in Apps : issues'[<<ARGO, a>>] = issues[<<ARGO, a>>]
    BY <1>2, <1>3
  <1>5. CASE Did(f) /\ lost' = lost
    <2>1. run' = [run EXCEPT !.todo = @ \ {f}] /\ UNCHANGED faults
      BY <1>5 DEF Did
    <2>2. run' \in RunsWith(run'.open) /\ faults' \in Nat
      BY <2>1, WentOn DEF IInv, TypeOK
    <2>3. /\ \A m \in Nodes \ run.unknown : spell'[m] = spell[m]
          /\ \A j \in Keys \ {f.key} : issues'[j] = issues[j]
      BY <1>1, <1>2
    <2>4. FoundHolds' /\ PhasesHold' /\ IssuesCovered'
      BY <1>2, <2>1, <2>3, ItemDone DEF IInv
    <2> QED
      BY <1>2, <1>4, <1>5, <2>2, <2>4
  <1>6. CASE Abort /\ lost \subseteq lost'
    BY <1>2, <1>4, <1>6, Aborted DEF IInv
  <1> QED
    BY <1>2, <1>5, <1>6

LEMMA EscalateStep ==
    ASSUME IInv, Escalate
    PROVE  IInv'
  <1>1. PICK f \in run.todo : \/ Abort /\ UNCHANGED <<issues, spell, lost>>
                              \/ ActOnDarkNode(f, issues)
    BY DEF Escalate
  <1>2. run.pc = "escalate" /\ InRun /\ Keep /\ UNCHANGED terms
    BY DEF Escalate, InRun, Filing
  <1>3. CASE Abort /\ UNCHANGED <<issues, spell, lost>>
    BY <1>2, <1>3, AbortKeeps DEF history
  <1>4. CASE ActOnDarkNode(f, issues)
    <2> DEFINE n == f.key[2]
    <2>1. f \in run.found /\ f \in Findings /\ Kind(f) = DARK /\ Open(f.key)
      BY <1>2, FoundAre DEF IInv, PhasesHold
    <2>2. /\ n \in Nodes /\ f.key = <<DARK, n>> /\ f.key \in Keys
      <3>1. n \in Nodes /\ f.key = <<DARK, n>>
        BY <1>2, <2>1, FoundOps
      <3> HIDE DEF n
      <3> QED
        BY <3>1, KeyFacts
    <2>3. op' = op /\ node' = node /\ UNCHANGED <<class, peers, pod>>
      BY <1>2 DEF Keep, cluster
    <2>4. issues \in [Keys -> Seq(IssueRecs)] /\ issues[f.key] # <<>>
      BY <2>1 DEF IInv, TypeOK, Open
    <2>5. /\ run' \in RunsWith(run'.open) /\ faults' \in Nat
          /\ issues' \in [Keys -> Seq(IssueRecs)]
          /\ spell' \in [Nodes -> [reboots : Nat, stale : BOOLEAN]]
          /\ FoundHolds' /\ PhasesHold' /\ IssuesCovered'
          /\ lost \subseteq lost'
          /\ \A a \in Apps : issues'[<<ARGO, a>>] = issues[<<ARGO, a>>]
      BY <1>2, <1>4, <2>1, <2>3, <2>4, LadderActs
    <2>6. TypeOK'
      BY <1>2, <2>3, <2>5 DEF IInv, TypeOK
    <2>7. OpsMarked'
      BY <1>2, <2>3, <2>5, OpsFrame DEF IInv
    <2>8. Tracked(f.key) = issues[f.key][1] /\ Tracked(f.key).ladder.attempts \in Nat
      BY <2>1, <2>2, FirstIssue DEF IInv, Ladders
    <2>9. <<f.key, 0>> \notin lost => spell[n].reboots <= issues[f.key][1].ladder.attempts
      BY <1>2, <2>1, <2>2, <2>8 DEF IInv, RebootsOnLadder
    <2>10. \/ node[n] < 0 \/ spell[n].stale
           \/ issues[f.key][1].ladder.attempts <= spell[n].reboots
      BY <2>1, <2>2, <2>8 DEF IInv, LadderEarned
    <2>11. RebootsOnLadder' /\ LadderEarned'
      BY <1>4, <2>1, <2>3, <2>4, <2>9, <2>10, LadderStep DEF IInv
    <2> QED
      BY <2>5, <2>6, <2>7, <2>11 DEF IInv
  <1> QED
    BY <1>1, <1>3, <1>4

\* A new issue is prepended, with nothing on the ladder.
LEMMA Created ==
    ASSUME TypeOK, NEW f \in Findings
    PROVE  /\ create_issue(f) \in [Keys -> Seq(IssueRecs)]
           /\ create_issue(f)[f.key] # <<>>
           /\ create_issue(f)[f.key][1].ladder = DEFAULT_DARK_STATE
           /\ Head(create_issue(f)[f.key]).ladder = DEFAULT_DARK_STATE
           /\ Kind(f) = ARGO => f.id \in Head(create_issue(f)[f.key]).done
           /\ \A j \in Keys \ {f.key} : create_issue(f)[j] = issues[j]
  <1> DEFINE done == IF Kind(f) = ARGO THEN {f.id} ELSE {}
             inst == IF Kind(f) \in Churn THEN f.id ELSE 0
  <1>1. f.key \in Keys /\ done \in SUBSET Nat /\ inst \in Nat
    BY DEF Findings
  <1>2. Kind(f) = ARGO => f.id \in done
    OBVIOUS
  <1>3. create_issue(f) = [issues EXCEPT ![f.key] = <<Issue(done, inst)>> \o @]
    BY DEF create_issue
  <1> HIDE DEF done, inst
  <1>4. Issue(done, inst) \in IssueRecs
    BY <1>1, IssueTypes
  <1>5. Issue(done, inst).ladder = DEFAULT_DARK_STATE /\ Issue(done, inst).done = done
    BY DEF Issue
  <1> QED
    BY <1>1, <1>2, <1>3, <1>4, <1>5, FileIssue

LEMMA FileStep ==
    ASSUME IInv, File
    PROVE  IInv'
  <1>1. PICK f \in run.todo :
         \/ /\ Kind(f) = ARGO
            /\ dispatch_terminate_op(f) /\ UNCHANGED spell
            /\ \/ Did(f) /\ issues' = create_issue(f) /\ UNCHANGED lost
               \/ Abort /\ issues' = issues /\ lost' = lost \cup {<<f.key, f.id>>}
               \/ Abort /\ issues' = create_issue(f) /\ UNCHANGED lost
         \/ Abort /\ UNCHANGED <<issues, terminating, history>>
         \/ /\ Kind(f) # ARGO /\ UNCHANGED <<terminating, terms>>
            /\ \/ Abort /\ issues' = create_issue(f) /\ UNCHANGED <<spell, lost>>
               \/ Kind(f) # DARK /\ Did(f) /\ issues' = create_issue(f) /\ UNCHANGED <<spell, lost>>
               \/ Kind(f) = DARK /\ ActOnDarkNode(f, create_issue(f))
    BY DEF File
  <1>2. run.pc = "file" /\ InRun /\ UNCHANGED <<fleet, class, cluster>>
    BY DEF File, InRun, Filing
  <1> DEFINE k == f.key
  <1>3. f \in run.found /\ f \in Findings /\ k \in Keys /\ ~Open(k)
    <2>1. f \in run.found /\ ~Open(k)
      BY <1>2, FoundAre DEF IInv, PhasesHold
    <2> QED
      BY <1>2, <2>1, FoundAre DEF IInv
  <1>4. /\ create_issue(f) \in [Keys -> Seq(IssueRecs)]
        /\ create_issue(f)[k] # <<>>
        /\ create_issue(f)[k][1].ladder = DEFAULT_DARK_STATE
        /\ Head(create_issue(f)[k]).ladder = DEFAULT_DARK_STATE
        /\ Kind(f) = ARGO => f.id \in Head(create_issue(f)[k]).done
        /\ \A j \in Keys \ {k} : create_issue(f)[j] = issues[j]
    BY <1>3, Created DEF IInv
  <1>5. op' = op /\ node' = node /\ UNCHANGED <<class, peers, pod>>
    BY <1>2 DEF cluster
  <1>6. Abort => /\ run' \in RunsWith(run'.open) /\ faults' \in Nat /\ ~InRun'
                 /\ FoundHolds' /\ PhasesHold' /\ IssuesCovered'
    BY Aborted DEF IInv
  <1>7. ASSUME Did(f), issues' = create_issue(f), spell' = spell
        PROVE  /\ run' \in RunsWith(run'.open) /\ faults' \in Nat
               /\ run'.found = run.found /\ (InRun' <=> InRun)
               /\ FoundHolds' /\ PhasesHold' /\ IssuesCovered'
    <2>1. run' = [run EXCEPT !.todo = @ \ {f}] /\ UNCHANGED faults
      BY <1>7 DEF Did
    <2>2. /\ run' \in RunsWith(run'.open) /\ faults' \in Nat
          /\ run'.found = run.found /\ (InRun' <=> InRun)
      BY <2>1, WentOn DEF IInv, TypeOK
    <2>3. \A j \in Keys \ {k} : issues'[j] = issues[j]
      BY <1>4, <1>7
    <2>4. FoundHolds' /\ PhasesHold' /\ IssuesCovered'
      BY <1>2, <1>3, <1>4, <1>5, <1>7, <2>1, <2>3, ItemDone DEF IInv
    <2> QED
      BY <2>2, <2>4
  <1>8. ASSUME Kind(f) = ARGO, dispatch_terminate_op(f), UNCHANGED spell,
               \/ Did(f) /\ issues' = create_issue(f) /\ UNCHANGED lost
               \/ Abort /\ issues' = issues /\ lost' = lost \cup {<<k, f.id>>}
               \/ Abort /\ issues' = create_issue(f) /\ UNCHANGED lost
        PROVE  IInv'
    <2>1. /\ Stuck(k[2]) /\ f.id = op[k[2]].id
          /\ k[2] \in Apps /\ k = <<ARGO, k[2]>>
          /\ terms' \in [Apps -> [1..MaxOps -> Nat]]
      BY <1>2, <1>3, <1>8, FoundOps, DispatchFacts DEF IInv
    <2>2. /\ run' \in RunsWith(run'.open) /\ faults' \in Nat
          /\ FoundHolds' /\ PhasesHold' /\ IssuesCovered'
          /\ InRun' => InRun /\ run'.found = run.found
      BY <1>6, <1>7, <1>8
    <2>3. /\ issues' \in [Keys -> Seq(IssueRecs)]
          /\ \A j \in Keys \ {k} : issues'[j] = issues[j]
      BY <1>4, <1>8 DEF IInv, TypeOK
    <2>4. /\ lost \subseteq lost'
          /\ \/ <<k, f.id>> \in lost'
             \/ issues'[k] # <<>> /\ f.id \in Head(issues'[k]).done
      BY <1>4, <1>8
    <2>5. TypeOK'
      BY <1>5, <1>8, <2>1, <2>2, <2>3 DEF IInv, TypeOK
    <2>6. \A a \in Apps \ {k[2]} : issues'[<<ARGO, a>>] = issues[<<ARGO, a>>]
      <3>1. \A a \in Apps \ {k[2]} : <<ARGO, a>> \in Keys \ {k}
        BY KeyFacts
      <3> QED
        BY <2>3, <3>1
    <2>7. OpsMarked'
      BY <1>3, <1>5, <1>8, <2>1, <2>4, <2>6, FirstTerminate DEF IInv
    <2>8. \A n \in Nodes : issues'[<<DARK, n>>] = issues[<<DARK, n>>]
      <3>1. k[1] = ARGO
        BY <2>1
      <3>2. \A n \in Nodes : <<DARK, n>> \in Keys \ {k}
        BY <3>1, KeyFacts, KindsDiffer
      <3> QED
        BY <2>3, <3>2
    <2>9. RebootsOnLadder' /\ LadderEarned'
      BY <1>5, <1>8, <2>2, <2>4, <2>8, NodesFrame DEF IInv
    <2> QED
      BY <2>2, <2>5, <2>7, <2>9 DEF IInv
  <1>9. CASE Abort /\ UNCHANGED <<issues, terminating, history>>
    BY <1>2, <1>9, AbortKeeps DEF Keep
  \* A new issue of a dark node: the spell has no reboot yet.
  <1>10. ASSUME Kind(f) = DARK
         PROVE  /\ k[2] \in Nodes /\ k = <<DARK, k[2]>>
                /\ <<k, 0>> \notin lost => spell[k[2]].reboots = 0
                /\ DEFAULT_DARK_STATE.attempts = 0 /\ spell[k[2]].reboots \in Nat
    <2>1. k[2] \in Nodes /\ k = <<DARK, k[2]>>
      BY <1>2, <1>3, <1>10, FoundOps
    <2>2. <<k, 0>> \notin lost => spell[k[2]].reboots = 0
      BY <1>2, <1>3, <2>1 DEF IInv, RebootsOnLadder
    <2>3. spell[k[2]].reboots \in Nat
      BY <2>1 DEF IInv, TypeOK
    <2> QED
      BY <2>1, <2>2, <2>3 DEF DEFAULT_DARK_STATE
  <1>11. ASSUME Kind(f) # ARGO, UNCHANGED <<terms, spell, lost>>, issues' = create_issue(f),
                Abort \/ (Kind(f) # DARK /\ Did(f))
         PROVE  IInv'
    <2>1. /\ run' \in RunsWith(run'.open) /\ faults' \in Nat
          /\ FoundHolds' /\ PhasesHold' /\ IssuesCovered'
          /\ InRun' => InRun /\ run'.found = run.found
          /\ Kind(f) = DARK => ~InRun'
      BY <1>6, <1>7, <1>11
    <2>2. TypeOK'
      BY <1>4, <1>5, <1>11, <2>1 DEF IInv, TypeOK
    <2>3. \A a \in Apps : issues'[<<ARGO, a>>] = issues[<<ARGO, a>>]
      BY <1>2, <1>3, <1>4, <1>11, FoundOps, KeyFacts
    <2>4. OpsMarked'
      BY <1>5, <1>11, <2>3, OpsFrame DEF IInv
    <2>5. ASSUME NEW n \in Nodes
          PROVE  \/ issues'[<<DARK, n>>] = issues[<<DARK, n>>]
                 \/ /\ Kind(f) = DARK /\ k = <<DARK, n>> /\ n = k[2]
                    /\ Open(<<DARK, n>>)' /\ Tracked(<<DARK, n>>)'.ladder = DEFAULT_DARK_STATE
      <3>1. CASE k = <<DARK, n>>
        BY <1>4, <1>11, <3>1, KeyFacts DEF Kind, Open, Tracked
      <3>2. CASE k # <<DARK, n>>
        BY <1>4, <1>11, <3>2, KeyFacts
      <3> QED
        BY <3>1, <3>2
    <2>6. RebootsOnLadder'
      <3> SUFFICES ASSUME NEW n \in Nodes, <<<<DARK, n>>, 0>> \notin lost'
                   PROVE  \/ Open(<<DARK, n>>)' /\ spell'[n].reboots <= Tracked(<<DARK, n>>)'.ladder.attempts
                          \/ spell'[n].reboots = 0
                          \/ /\ node'[n] < 0 /\ spell'[n].reboots <= MaxAttempts
                             /\ InRun' => \A g \in run'.found : g.key # <<DARK, n>>
        BY DEF RebootsOnLadder
      <3>1. CASE issues'[<<DARK, n>>] = issues[<<DARK, n>>]
        BY <1>5, <1>11, <2>1, <3>1 DEF IInv, RebootsOnLadder, Open, Tracked
      <3>2. CASE Kind(f) = DARK /\ k = <<DARK, n>> /\ n = k[2]
        BY <1>10, <1>11, <3>2
      <3> QED
        BY <2>5, <3>1, <3>2
    <2>7. LadderEarned'
      <3> SUFFICES ASSUME NEW n \in Nodes, Open(<<DARK, n>>)'
                   PROVE  \/ node'[n] < 0 \/ spell'[n].stale
                          \/ Tracked(<<DARK, n>>)'.ladder.attempts <= spell'[n].reboots
        BY DEF LadderEarned
      <3>1. CASE issues'[<<DARK, n>>] = issues[<<DARK, n>>]
        BY <1>5, <1>11, <3>1 DEF IInv, LadderEarned, Open, Tracked
      <3>2. CASE /\ Kind(f) = DARK /\ n = k[2]
                 /\ Tracked(<<DARK, n>>)'.ladder = DEFAULT_DARK_STATE
        BY <1>10, <1>11, <3>2
      <3> QED
        BY <2>5, <3>1, <3>2
    <2> QED
      BY <2>1, <2>2, <2>4, <2>6, <2>7 DEF IInv
  <1>12. ASSUME Kind(f) = DARK, UNCHANGED terms, ActOnDarkNode(f, create_issue(f))
         PROVE  IInv'
    <2>1. /\ run' \in RunsWith(run'.open) /\ faults' \in Nat
          /\ issues' \in [Keys -> Seq(IssueRecs)]
          /\ spell' \in [Nodes -> [reboots : Nat, stale : BOOLEAN]]
          /\ FoundHolds' /\ PhasesHold' /\ IssuesCovered'
          /\ lost \subseteq lost'
          /\ \A a \in Apps : issues'[<<ARGO, a>>] = issues[<<ARGO, a>>]
      BY <1>2, <1>3, <1>4, <1>5, <1>12, LadderActs
    <2>2. TypeOK'
      BY <1>5, <1>12, <2>1 DEF IInv, TypeOK
    <2>3. OpsMarked'
      BY <1>5, <1>12, <2>1, OpsFrame DEF IInv
    <2>4. \A m \in Nodes : k # <<DARK, m>> => create_issue(f)[<<DARK, m>>] = issues[<<DARK, m>>]
      BY <1>4, KeyFacts
    <2>5. /\ <<k, 0>> \notin lost => spell[k[2]].reboots <= create_issue(f)[k][1].ladder.attempts
          /\ create_issue(f)[k][1].ladder.attempts <= spell[k[2]].reboots
      BY <1>4, <1>10, <1>12
    <2>6. RebootsOnLadder' /\ LadderEarned'
      BY <1>3, <1>4, <1>5, <1>12, <2>4, <2>5, LadderStep DEF IInv
    <2> QED
      BY <2>1, <2>2, <2>3, <2>6 DEF IInv
  <1> QED
    BY <1>1, <1>8, <1>9, <1>11, <1>12

\* What there is room to file is new.
LEMMA FilesNew == ToFile \subseteq run.new
  BY DEF ToFile, prioritize

\* The fields of a run that turns to its next phase.
LEMMA TurnFields ==
    ASSUME TypeOK, NEW pc \in Pcs, NEW todo \in SUBSET (Findings \cup Keys),
           run' = [run EXCEPT !.pc = pc, !.todo = todo]
    PROVE  /\ run' \in RunsWith(run'.open)
           /\ run'.pc = pc /\ run'.new = run.new /\ run'.todo = todo
           /\ run'.found = run.found /\ run'.unknown = run.unknown /\ run'.exit = run.exit
  <1>1. run \in RunsWith(run.open)
    BY DEF TypeOK
  <1>2. run' \in RunsWith(run.open)
    BY <1>1 DEF RunsWith
  <1>3. /\ run'.pc = pc /\ run'.new = run.new /\ run'.todo = todo /\ run'.open = run.open
        /\ run'.found = run.found /\ run'.unknown = run.unknown /\ run'.exit = run.exit
    BY <1>1 DEF RunsWith
  <1> QED
    BY <1>2, <1>3

\* The issues and the outside stay as they are when the run turns to its next phase.
LEMMA TurnKeeps ==
    ASSUME IInv, Keep, UNCHANGED <<issues, faults, history>>,
           run' \in RunsWith(run'.open), FoundHolds', PhasesHold', IssuesCovered',
           InRun' => InRun /\ run'.found = run.found
    PROVE  IInv'
  <1>1. TypeOK'
    BY DEF IInv, TypeOK, Keep, cluster, history
  <1>2. OpsMarked'
    BY OpsFrame DEF IInv, Keep, cluster, history
  <1>3. RebootsOnLadder' /\ LadderEarned'
    BY NodesFrame DEF IInv, Keep, cluster, history
  <1> QED
    BY <1>1, <1>2, <1>3 DEF IInv

LEMMA TurnStep ==
    ASSUME IInv, Turn
    PROVE  IInv'
  <1>1. Keep /\ UNCHANGED <<issues, faults, history>>
    BY DEF Turn
  <1>2. op' = op /\ node' = node /\ spell' = spell /\ issues' = issues
    BY <1>1 DEF Keep, cluster, history
  <1>3. TypeOK /\ FoundHolds /\ PhasesHold /\ IssuesCovered
    BY DEF IInv
  <1>4. run.found \in SUBSET Findings /\ run.new \in SUBSET Findings /\ Duplicates \in SUBSET Findings
    BY <1>3 DEF TypeOK, RunsWith, Duplicates
  <1>5. ASSUME run'.found = run.found, run'.unknown = run.unknown, InRun
        PROVE  FoundHolds'
    BY <1>2, <1>3, <1>5 DEF FoundHolds, Stuck
  \* From a phase of the work on issues to another one.
  <1>6. ASSUME run.pc \in Filing, NEW pc \in Filing, NEW todo, run.pc # "file",
               run' = [run EXCEPT !.pc = pc, !.todo = todo], todo \in SUBSET (Findings \cup Keys),
               pc # "update",
               pc = "terminate" => todo = {f \in Duplicates : Kind(f) = ARGO},
               pc = "recover" => todo = {k \in Keys : k[1] = DARK /\ Open(k) /\ k[2] \notin run.unknown},
               pc = "escalate" => todo = {f \in Duplicates : Kind(f) = DARK},
               pc = "file" => todo = ToFile
        PROVE  IInv'
    <2>1. pc \in Pcs
      BY DEF Filing, Pcs
    <2>2. /\ run' \in RunsWith(run'.open)
          /\ run'.pc = pc /\ run'.new = run.new /\ run'.todo = todo
          /\ run'.found = run.found /\ run'.unknown = run.unknown
      BY <1>3, <1>4, <1>6, <2>1, TurnFields
    <2>3. InRun /\ InRun' /\ Duplicates' = Duplicates
      BY <1>6, <2>2 DEF InRun, Duplicates
    <2>4. FoundHolds'
      BY <1>5, <2>2, <2>3
    <2>5. PhasesHold'
      BY <1>2, <1>3, <1>6, <2>2, <2>3, FilesNew DEF PhasesHold, Open, Filing
    <2>6. IssuesCovered'
      BY <1>2, <1>3, <1>6, <2>2 DEF IssuesCovered, Open, Filing
    <2> QED
      BY <1>1, <2>2, <2>3, <2>4, <2>5, <2>6, TurnKeeps
  <1>7. CASE TurnFromClose /\ run.found = {}
    <2>1. run' = [Idle EXCEPT !.pc = "done", !.unknown = run.unknown] /\ run.pc = "close" /\ run.todo = {}
      BY <1>7 DEF TurnFromClose
    <2>2. run \in RunsWith(run.open) /\ run.unknown \in SUBSET Nodes
      BY <1>3 DEF TypeOK, RunsWith
    <2>3. run' \in RunsWith(0)
      <3>1. Idle \in RunsWith(0) /\ "done" \in Pcs
        BY DEF Idle, RunsWith, Pcs
      <3> QED
        BY <2>1, <2>2, <3>1 DEF RunsWith
    <2>4. run'.open = 0 /\ run'.pc = "done"
      BY <2>1, <2>3 DEF RunsWith
    <2>5. ~InRun' /\ FoundHolds' /\ PhasesHold'
      BY <2>4 DEF InRun, Filing, FoundHolds, PhasesHold
    <2>6. \A k \in Keys : k[1] \in Churn \cup {ARGO} => ~Open(k)
      BY <1>3, <1>7, <2>1 DEF IssuesCovered
    <2>7. IssuesCovered'
      BY <1>2, <2>6 DEF IssuesCovered, Open
    <2> QED
      BY <1>1, <2>3, <2>4, <2>5, <2>7, TurnKeeps
  <1>8. CASE TurnFromClose /\ run.found # {}
    <2> DEFINE new == filter_new_findings(run.found)
               todo == {f \in run.found \ new : Kind(f) \in Churn}
    <2>1. run.pc = "close" /\ run.todo = {} /\ InRun
          /\ run' = [run EXCEPT !.pc = "update", !.new = new, !.open = Total, !.todo = todo]
      BY <1>8 DEF TurnFromClose, InRun
    <2>2. new \in SUBSET Findings /\ todo \in SUBSET (Findings \cup Keys) /\ "update" \in Pcs
      BY <1>4 DEF filter_new_findings, Pcs
    <2>3. /\ new \subseteq run.found /\ \A f \in new : ~Open(f.key)
          /\ \A f \in run.found \ new : Open(f.key)
          /\ \A f \in todo : f \in run.found \ new /\ Kind(f) \in Churn
      BY DEF filter_new_findings
    <2> HIDE DEF new, todo
    <2>4. /\ run' \in RunsWith(run'.open)
          /\ run'.pc = "update" /\ run'.new = new /\ run'.todo = todo
          /\ run'.found = run.found /\ run'.unknown = run.unknown
      <3>1. run \in RunsWith(run.open)
        BY <1>3 DEF TypeOK
      <3>2. run' \in RunsWith(Total)
        BY <2>1, <2>2, <3>1 DEF RunsWith
      <3>3. /\ run'.pc = "update" /\ run'.new = new /\ run'.todo = todo /\ run'.open = Total
            /\ run'.found = run.found /\ run'.unknown = run.unknown
        BY <2>1, <3>1 DEF RunsWith
      <3> QED
        BY <3>2, <3>3
    <2>5. Duplicates' = run.found \ new /\ InRun'
      BY <2>4 DEF Duplicates, InRun, Filing
    <2>6. FoundHolds'
      BY <1>5, <2>1, <2>4
    <2>7. PhasesHold'
      BY <1>2, <2>3, <2>4, <2>5 DEF PhasesHold, Open, Filing
    <2>8. IssuesCovered'
      BY <1>2, <1>3, <2>1, <2>4 DEF IssuesCovered, Open, Filing
    <2> QED
      BY <1>1, <2>1, <2>4, <2>6, <2>7, <2>8, TurnKeeps
  <1>9. CASE /\ run.todo = {} /\ run.pc = "update"
             /\ run' = [run EXCEPT !.pc = "terminate", !.todo = {f \in Duplicates : Kind(f) = ARGO}]
    BY <1>4, <1>6, <1>9 DEF Filing
  <1>10. CASE /\ run.todo = {} /\ run.pc = "terminate"
              /\ run' = [run EXCEPT !.pc = "recover",
                              !.todo = {k \in Keys : k[1] = DARK /\ Open(k) /\ k[2] \notin run.unknown}]
    BY <1>4, <1>6, <1>10 DEF Filing
  <1>11. CASE /\ run.todo = {} /\ run.pc = "recover"
              /\ run' = [run EXCEPT !.pc = "escalate", !.todo = {f \in Duplicates : Kind(f) = DARK}]
    BY <1>4, <1>6, <1>11 DEF Filing
  <1>12. CASE run.todo = {} /\ run.pc = "escalate" /\ run' = [run EXCEPT !.pc = "file", !.todo = ToFile]
    <2>1. ToFile \in SUBSET (Findings \cup Keys)
      BY <1>4, FilesNew
    <2> QED
      BY <1>6, <1>12, <2>1 DEF Filing
  <1>13. CASE /\ run.todo = {} /\ run.pc = "file"
              /\ run' = [run EXCEPT !.pc = "done", !.exit = 1, !.new = {}, !.open = 0, !.peers = 0]
    <2>1. run \in RunsWith(run.open)
      BY <1>3 DEF TypeOK
    <2>2. run' \in RunsWith(0)
      <3>1. "done" \in Pcs /\ 1 \in 0..2
        BY DEF Pcs
      <3>2. ASSUME NEW q \in Pcs, NEW e \in 0..2, NEW new \in SUBSET Findings, NEW m \in Int
            PROVE  [run EXCEPT !.pc = q, !.exit = e, !.new = new, !.open = 0, !.peers = m] \in RunsWith(0)
        BY <2>1 DEF RunsWith
      <3>3. {} \in SUBSET Findings /\ 0 \in Int
        OBVIOUS
      <3> QED
        BY <1>13, <3>1, <3>2, <3>3, Zenon
    <2>3. run'.open = 0 /\ run'.pc = "done" /\ run'.found = run.found
      BY <1>13, <2>1, <2>2 DEF RunsWith
    <2>4. ~InRun' /\ FoundHolds' /\ PhasesHold'
      BY <2>3 DEF InRun, Filing, FoundHolds, PhasesHold
    <2>5. IssuesCovered'
      BY <1>2, <1>3, <1>13, <2>3 DEF IssuesCovered, Open, Filing
    <2> QED
      BY <1>1, <2>2, <2>3, <2>4, <2>5, TurnKeeps
  <1> QED
    BY <1>7, <1>8, <1>9, <1>10, <1>11, <1>12, <1>13 DEF Turn

------------------------------------------------------------------------------
(* What a run finds                                                        *)

\* A finding determines what it is about, by its key.
LEMMA FindingIs ==
    \A kind, subject, id, age :
        LET f == Finding(kind, subject, id, age)
        IN  /\ f.key = <<kind, subject>> /\ f.id = id /\ f.age = age
            /\ Kind(f) = kind /\ f.key[1] = kind /\ f.key[2] = subject
  BY DEF Finding, Kind

\* The findings of a look at the volumes that usage tells of.
FoundBy(usage) == detect_stuck_argo_ops \cup detect_dark_nodes
                      \cup detect_chronic_crashloop \cup detect_stuck_container_creating
                      \cup detect_pvc_pressure(usage)

\* An application, a node, a workload or a volume is found at most once for each kind.
LEMMA FoundFacts ==
    ASSUME TypeOK, NEW usage \in SUBSET Claims
    PROVE  /\ FoundBy(usage) \subseteq Findings
           /\ \A f, g \in FoundBy(usage) : f.key = g.key => f = g
           /\ \A a \in Apps : Stuck(a) <=> \E f \in FoundBy(usage) : f.key = <<ARGO, a>>
           /\ \A f \in FoundBy(usage) : Kind(f) = ARGO => f.id = op[f.key[2]].id
           /\ \A f \in FoundBy(usage) : Kind(f) = DARK => f.key[2] \in currently_unknown_node_names
           /\ \A f \in FoundBy(usage), n \in Nodes : f.key = <<DARK, n>> => node[n] >= 0
  <1> DEFINE found == FoundBy(usage)
  <1>1. \A f \in detect_stuck_argo_ops : \E a \in Apps : f = Finding(ARGO, a, op[a].id, 0) /\ Stuck(a)
    BY DEF detect_stuck_argo_ops, Stuck
  <1>2. \A a \in Apps : Stuck(a) => Finding(ARGO, a, op[a].id, 0) \in detect_stuck_argo_ops
    BY DEF detect_stuck_argo_ops, Stuck
  <1>3. \A f \in detect_dark_nodes : \E n \in Nodes : f = Finding(DARK, n, 0, node[n]) /\ node[n] > UnknownTicks
    BY DEF detect_dark_nodes
  <1>4. \A f \in detect_chronic_crashloop : \E w \in Workloads : f = Finding(CRASHLOOP, w, pod[w].id, 0)
    BY DEF detect_chronic_crashloop
  <1>5. \A f \in detect_stuck_container_creating : \E w \in Workloads : f = Finding(CREATING, w, pod[w].id, 0)
    BY DEF detect_stuck_container_creating
  <1>6. \A f \in detect_pvc_pressure(usage) : \E c \in Claims : f = Finding(PVC, c, 0, 0)
    BY DEF detect_pvc_pressure
  <1>7. \A f \in found :
           \/ \E a \in Apps : f = Finding(ARGO, a, op[a].id, 0) /\ Stuck(a)
           \/ \E n \in Nodes : f = Finding(DARK, n, 0, node[n]) /\ node[n] > UnknownTicks
           \/ \E w \in Workloads : f = Finding(CRASHLOOP, w, pod[w].id, 0)
           \/ \E w \in Workloads : f = Finding(CREATING, w, pod[w].id, 0)
           \/ \E c \in Claims : f = Finding(PVC, c, 0, 0)
    BY <1>1, <1>3, <1>4, <1>5, <1>6 DEF FoundBy
  <1>8. detect_stuck_argo_ops \subseteq found
    BY DEF FoundBy
  <1> HIDE DEF found
  <1>k. /\ ARGO # DARK /\ ARGO # CRASHLOOP /\ ARGO # CREATING /\ ARGO # PVC
        /\ DARK # CRASHLOOP /\ DARK # CREATING /\ DARK # PVC
        /\ CRASHLOOP # CREATING /\ CRASHLOOP # PVC /\ CREATING # PVC
    BY DEF ARGO, DARK, PVC, CREATING, CRASHLOOP
  <1>9. ASSUME NEW f \in found
        PROVE  /\ f.key[1] = ARGO => f.key[2] \in Apps /\ f = Finding(ARGO, f.key[2], op[f.key[2]].id, 0) /\ Stuck(f.key[2])
               /\ f.key[1] = DARK => f.key[2] \in Nodes /\ f = Finding(DARK, f.key[2], 0, node[f.key[2]]) /\ node[f.key[2]] > UnknownTicks
               /\ f.key[1] = CRASHLOOP => f.key[2] \in Workloads /\ f = Finding(CRASHLOOP, f.key[2], pod[f.key[2]].id, 0)
               /\ f.key[1] = CREATING => f.key[2] \in Workloads /\ f = Finding(CREATING, f.key[2], pod[f.key[2]].id, 0)
               /\ f.key[1] = PVC => f.key[2] \in Claims /\ f = Finding(PVC, f.key[2], 0, 0)
               /\ f.key[1] \in {ARGO, DARK, CRASHLOOP, CREATING, PVC}
               /\ Kind(f) = f.key[1]
    <2>1. CASE \E a \in Apps : f = Finding(ARGO, a, op[a].id, 0) /\ Stuck(a)
      BY <1>k, <2>1, FindingIs
    <2>2. CASE \E n \in Nodes : f = Finding(DARK, n, 0, node[n]) /\ node[n] > UnknownTicks
      BY <1>k, <2>2, FindingIs
    <2>3. CASE \E w \in Workloads : f = Finding(CRASHLOOP, w, pod[w].id, 0)
      BY <1>k, <2>3, FindingIs
    <2>4. CASE \E w \in Workloads : f = Finding(CREATING, w, pod[w].id, 0)
      BY <1>k, <2>4, FindingIs
    <2>5. CASE \E c \in Claims : f = Finding(PVC, c, 0, 0)
      BY <1>k, <2>5, FindingIs
    <2> QED
      BY <1>7, <1>9, <2>1, <2>2, <2>3, <2>4, <2>5
  <1>10. found \subseteq Findings
    <2> SUFFICES ASSUME NEW f \in found
                 PROVE  f \in Findings
      OBVIOUS
    <2>1. /\ \A a \in Apps : <<ARGO, a>> \in Keys /\ op[a].id \in Nat
          /\ \A n \in Nodes : <<DARK, n>> \in Keys /\ node[n] \in Int
          /\ \A w \in Workloads : <<CRASHLOOP, w>> \in Keys /\ <<CREATING, w>> \in Keys /\ pod[w].id \in Nat
          /\ \A c \in Claims : <<PVC, c>> \in Keys
      BY DEF TypeOK, Keys, Churn
    <2>2. CASE \E a \in Apps : f = Finding(ARGO, a, op[a].id, 0)
      BY <2>1, <2>2 DEF Finding, Findings
    <2>3. CASE \E n \in Nodes : f = Finding(DARK, n, 0, node[n])
      BY <2>1, <2>3 DEF Finding, Findings
    <2>4. CASE \E w \in Workloads : f = Finding(CRASHLOOP, w, pod[w].id, 0)
      <3>1. PICK w \in Workloads : f = Finding(CRASHLOOP, w, pod[w].id, 0)
        BY <2>4
      <3>2. <<CRASHLOOP, w>> \in Keys /\ pod[w].id \in Nat
        BY <2>1
      <3> QED
        BY <3>1, <3>2 DEF Finding, Findings
    <2>5. CASE \E w \in Workloads : f = Finding(CREATING, w, pod[w].id, 0)
      <3>1. PICK w \in Workloads : f = Finding(CREATING, w, pod[w].id, 0)
        BY <2>5
      <3>2. <<CREATING, w>> \in Keys /\ pod[w].id \in Nat
        BY <2>1
      <3> QED
        BY <3>1, <3>2 DEF Finding, Findings
    <2>6. CASE \E c \in Claims : f = Finding(PVC, c, 0, 0)
      BY <2>1, <2>6 DEF Finding, Findings
    <2> QED
      BY <1>7, <2>2, <2>3, <2>4, <2>5, <2>6
  <1>11. \A f, g \in found : f.key = g.key => f = g
    BY <1>9
  <1>12. \A a \in Apps : Stuck(a) <=> \E f \in found : f.key = <<ARGO, a>>
    BY <1>2, <1>8, <1>9, FindingIs, KeyFacts
  <1>13. \A f \in found : Kind(f) = ARGO => f.id = op[f.key[2]].id
    BY <1>9, FindingIs
  <1>14. \A f \in found : Kind(f) = DARK => f.key[2] \in Nodes /\ node[f.key[2]] >= 0
    <2> SUFFICES ASSUME NEW f \in found, Kind(f) = DARK
                 PROVE  f.key[2] \in Nodes /\ node[f.key[2]] >= 0
      OBVIOUS
    <2>1. f.key[2] \in Nodes /\ node[f.key[2]] > UnknownTicks
      BY <1>9
    <2>2. node[f.key[2]] \in Int
      BY <2>1 DEF TypeOK
    <2> QED
      BY <2>1, <2>2, Limits
  <1>15. \A f \in found : Kind(f) = DARK => f.key[2] \in currently_unknown_node_names
    BY <1>14 DEF currently_unknown_node_names
  <1>16. \A f \in found, n \in Nodes : f.key = <<DARK, n>> => node[n] >= 0
    BY <1>9, <1>14, KeyFacts
  <1> QED
    BY <1>10, <1>11, <1>12, <1>13, <1>15, <1>16 DEF found

LEMMA LookStep ==
    ASSUME IInv, Look
    PROVE  IInv'
  <1>1. UNCHANGED <<fleet, class, cluster, issues, terminating, history>>
    BY DEF Look
  <1>2. TypeOK
    BY DEF IInv
  <1>3. CASE Abort
    BY <1>1, <1>3, AbortKeeps DEF Keep
  <1>4. CASE \E usage \in SUBSET Claims :
                /\ faults' \in {faults, faults + 1}
                /\ run' = [Idle EXCEPT
                     !.pc = "close", !.found = FoundBy(usage), !.peers = peers,
                     !.unknown = currently_unknown_node_names,
                     !.todo = {k \in Keys : k[1] \in Churn \cup {ARGO} /\ Open(k)
                                            /\ \A f \in FoundBy(usage) : f.key # k}]
    <2>1. PICK usage \in SUBSET Claims :
                /\ faults' \in {faults, faults + 1}
                /\ run' = [Idle EXCEPT
                     !.pc = "close", !.found = FoundBy(usage), !.peers = peers,
                     !.unknown = currently_unknown_node_names,
                     !.todo = {k \in Keys : k[1] \in Churn \cup {ARGO} /\ Open(k)
                                            /\ \A f \in FoundBy(usage) : f.key # k}]
      BY <1>4
    <2> DEFINE found == FoundBy(usage)
               todo == {k \in Keys : k[1] \in Churn \cup {ARGO} /\ Open(k) /\ \A f \in found : f.key # k}
               us == currently_unknown_node_names
    <2>2. run' = [Idle EXCEPT !.pc = "close", !.found = found, !.peers = peers, !.unknown = us, !.todo = todo]
      BY <2>1
    <2>3. /\ found \subseteq Findings
          /\ \A f, g \in found : f.key = g.key => f = g
          /\ \A a \in Apps : Stuck(a) <=> \E f \in found : f.key = <<ARGO, a>>
          /\ \A f \in found : Kind(f) = ARGO => f.id = op[f.key[2]].id
          /\ \A f \in found : Kind(f) = DARK => f.key[2] \in us
          /\ \A f \in found, n \in Nodes : f.key = <<DARK, n>> => node[n] >= 0
      BY <1>2, FoundFacts
    <2>4. todo \subseteq Keys /\ us \subseteq Nodes /\ peers \in Int /\ faults' \in Nat
      BY <1>2, <2>1 DEF TypeOK, currently_unknown_node_names
    <2>5. /\ \A k \in todo : k \in Keys /\ k[1] \in Churn \cup {ARGO} /\ \A f \in found : f.key # k
          /\ \A k \in Keys \ todo : k[1] \in Churn \cup {ARGO} /\ Open(k) => \E f \in found : f.key = k
      OBVIOUS
    <2>6. \A n \in Nodes \ us : node[n] < 0
      BY <1>2 DEF currently_unknown_node_names, TypeOK
    <2> HIDE DEF found, todo, us
    <2>7. Idle \in RunsWith(0) /\ "close" \in Pcs
      BY DEF Idle, RunsWith, Pcs
    <2>8. run' \in RunsWith(0)
      <3>1. ASSUME NEW i \in RunsWith(0), NEW q \in Pcs, NEW fs \in SUBSET Findings, NEW m \in Int,
                   NEW ns \in SUBSET Nodes, NEW td \in SUBSET (Findings \cup Keys)
            PROVE  [i EXCEPT !.pc = q, !.found = fs, !.peers = m, !.unknown = ns, !.todo = td] \in RunsWith(0)
        BY DEF RunsWith
      <3>2. found \in SUBSET Findings /\ us \in SUBSET Nodes /\ todo \in SUBSET (Findings \cup Keys)
        BY <2>3, <2>4
      <3> QED
        BY <2>2, <2>4, <2>7, <3>1, <3>2, Zenon
    <2>9. /\ run'.pc = "close" /\ run'.found = found /\ run'.unknown = us /\ run'.todo = todo /\ run'.open = 0
      BY <2>2, <2>7, <2>8 DEF RunsWith
    <2>10. /\ op' = op /\ node' = node /\ issues' = issues /\ spell' = spell /\ lost' = lost /\ terms' = terms
           /\ class' = class /\ peers' = peers /\ pod' = pod
      BY <1>1 DEF cluster, history
    <2>11. TypeOK'
      BY <1>2, <2>4, <2>8, <2>9, <2>10 DEF TypeOK
    <2>12. FoundHolds'
      BY <2>3, <2>6, <2>9, <2>10 DEF FoundHolds, Stuck
    <2>13. PhasesHold'
      BY <2>5, <2>9 DEF PhasesHold, Filing
    <2>14. IssuesCovered'
      BY <2>5, <2>9, <2>10 DEF IssuesCovered, Open
    <2>15. OpsMarked'
      BY <2>10, OpsFrame DEF IInv
    <2>16. LadderEarned'
      BY <2>10 DEF IInv, LadderEarned, Open, Tracked
    <2>17. RebootsOnLadder'
      <3>1. \A n \in Nodes : node[n] < 0 => \A f \in run'.found : f.key # <<DARK, n>>
        <4>1. \A n \in Nodes : node[n] \in Int
          BY <1>2 DEF TypeOK
        <4> QED
          BY <2>3, <2>9, <4>1
      <3> QED
        BY <2>10, <3>1 DEF IInv, RebootsOnLadder, Open, Tracked
    <2> QED
      BY <2>11, <2>12, <2>13, <2>14, <2>15, <2>16, <2>17 DEF IInv
  <1>5. Abort \/ \E usage \in SUBSET Claims :
                /\ faults' \in {faults, faults + 1}
                /\ run' = [Idle EXCEPT
                     !.pc = "close", !.found = FoundBy(usage), !.peers = peers,
                     !.unknown = currently_unknown_node_names,
                     !.todo = {k \in Keys : k[1] \in Churn \cup {ARGO} /\ Open(k)
                                            /\ \A f \in FoundBy(usage) : f.key # k}]
    <2>1. \A p \in BOOLEAN, df \in SUBSET Claims : collect_pvc_usage(p, df) \in SUBSET Claims
      BY DEF collect_pvc_usage
    <2> QED
      BY <2>1 DEF Look, FoundBy
  <1> QED
    BY <1>3, <1>4, <1>5

------------------------------------------------------------------------------
(* The outside                                                             *)

\* Older than the last threshold counts as that old, and what is not dark stays so.
LEMMA OlderFacts ==
    ASSUME NEW age \in Int, NEW last \in Nat
    PROVE  /\ Older(age, last) \in Int
           /\ age >= 0 => Older(age, last) >= age
           /\ Older(age, last) < 0 <=> age < 0
  BY DEF Older

\* A tick changes nothing of an issue but the age of the last reboot.
LEMMA TickedIssues ==
    ASSUME TypeOK, Tick, NEW k \in Keys
    PROVE  /\ issues'[k] \in Seq(IssueRecs)
           /\ Open(k)' <=> Open(k)
           /\ Open(k) => /\ Tracked(k)' = issues'[k][1]
                         /\ Tracked(k)'.done = Tracked(k).done
                         /\ Tracked(k)'.ladder.attempts = Tracked(k).ladder.attempts
                         /\ Tracked(k)'.ladder.escalated = Tracked(k).ladder.escalated
  <1>1. issues' = [j \in Keys |-> [i \in DOMAIN issues[j] |->
                        [issues[j][i] EXCEPT !.ladder.cool = Older(@, CooldownTicks - 1)]]]
    BY DEF Tick
  <1>2. CooldownTicks - 1 \in Nat
    BY Limits
  <1>3. \A age \in Nat, last \in Nat : Older(age, last) \in Nat /\ Older(age, last) >= age
    BY DEF Older
  <1>4. ASSUME NEW x \in IssueRecs
        PROVE  LET y == [x EXCEPT !.ladder.cool = Older(@, CooldownTicks - 1)]
               IN  y \in IssueRecs /\ y.done = x.done /\ y.ladder.attempts = x.ladder.attempts
                    /\ y.ladder.escalated = x.ladder.escalated
    <2>1. x.ladder \in Ladders /\ x.ladder.cool \in Nat
      BY DEF IssueRecs, Ladders
    <2> DEFINE l == [x.ladder EXCEPT !.cool = Older(@, CooldownTicks - 1)]
               y == [x EXCEPT !.ladder = l]
    <2>2. Older(x.ladder.cool, CooldownTicks - 1) \in Nat
      BY <1>2, <1>3, <2>1
    <2>3. l \in Ladders /\ l.attempts = x.ladder.attempts /\ l.escalated = x.ladder.escalated
      BY <2>1, <2>2 DEF Ladders
    <2>4. [x EXCEPT !.ladder.cool = Older(@, CooldownTicks - 1)] = y
      BY DEF IssueRecs
    <2> HIDE DEF l
    <2>5. y \in IssueRecs /\ y.done = x.done /\ y.ladder = l
      BY <2>3 DEF IssueRecs
    <2> QED
      BY <2>3, <2>4, <2>5
  <1> DEFINE s == issues[k]
             old(x) == [x EXCEPT !.ladder.cool = Older(@, CooldownTicks - 1)]
             t == [i \in 1..Len(s) |-> old(s[i])]
  <1>5. s \in Seq(IssueRecs) /\ DOMAIN s = 1..Len(s) /\ Len(s) \in Nat /\ \A i \in 1..Len(s) : s[i] \in IssueRecs
    BY DEF TypeOK
  <1>6. issues'[k] = t
    BY <1>1, <1>5
  <1>7. \A i \in 1..Len(s) : /\ old(s[i]) \in IssueRecs /\ old(s[i]).done = s[i].done
                            /\ old(s[i]).ladder.attempts = s[i].ladder.attempts
                            /\ old(s[i]).ladder.escalated = s[i].ladder.escalated
    BY <1>4, <1>5
  <1> HIDE DEF old
  <1>8. \A i \in 1..Len(s) : t[i] = old(s[i])
    OBVIOUS
  <1>9. t \in Seq(IssueRecs) /\ Len(t) = Len(s)
    BY <1>5, <1>7
  <1> HIDE DEF t
  <1>10. (t # <<>> <=> s # <<>>) /\ (s # <<>> => Head(t) = t[1] /\ Head(s) = s[1] /\ 1 \in 1..Len(s))
    BY <1>5, <1>9
  <1> QED
    BY <1>6, <1>7, <1>8, <1>9, <1>10 DEF Open, Tracked

LEMMA TickStep ==
    ASSUME IInv, Tick
    PROVE  IInv'
  <1>1. /\ TypeOK /\ run.pc = "done" /\ run' = Idle
        /\ UNCHANGED <<fleet, class, peers, full, terminating, faults, history>>
    BY DEF IInv, Tick
  <1>2. /\ op' = [a \in Apps |-> [op[a] EXCEPT !.age = IF op[a].on THEN Older(@, RunningTicks) ELSE 0]]
        /\ node' = [n \in Nodes |-> Older(node[n], EscalateTicks - 1)]
        /\ pod' = [w \in Workloads |-> [pod[w] EXCEPT !.age = Older(@, PodTicks)]]
        /\ issues' = [k \in Keys |-> [i \in DOMAIN issues[k] |->
                        [issues[k][i] EXCEPT !.ladder.cool = Older(@, CooldownTicks - 1)]]]
    BY DEF Tick
  <1>3. /\ RunningTicks \in Nat /\ PodTicks \in Nat /\ EscalateTicks - 1 \in Nat /\ CooldownTicks - 1 \in Nat
    BY Limits
  <1>4. \A age \in Nat, last \in Nat : Older(age, last) \in Nat /\ Older(age, last) >= age
    BY DEF Older
  <1>5. /\ op' \in [Apps -> [id : Nat, on : BOOLEAN, age : Nat]]
        /\ \A a \in Apps : op'[a].id = op[a].id /\ op'[a].on = op[a].on /\ (Stuck(a) => Stuck(a)')
    <2> SUFFICES ASSUME NEW a \in Apps
                 PROVE  /\ op'[a] \in [id : Nat, on : BOOLEAN, age : Nat]
                        /\ op'[a].id = op[a].id /\ op'[a].on = op[a].on /\ (Stuck(a) => Stuck(a)')
      BY <1>2
    <2> DEFINE age == IF op[a].on THEN Older(op[a].age, RunningTicks) ELSE 0
    <2>1. op[a] \in [id : Nat, on : BOOLEAN, age : Nat]
      BY <1>1 DEF TypeOK
    <2>2. age \in Nat /\ (Stuck(a) => age > RunningTicks)
      <3>1. op[a].age \in Nat /\ Older(op[a].age, RunningTicks) \in Nat /\ Older(op[a].age, RunningTicks) >= op[a].age
        BY <1>3, <1>4, <2>1
      <3>2. CASE op[a].on
        BY <1>3, <3>1, <3>2 DEF Stuck
      <3>3. CASE ~op[a].on
        BY <3>3 DEF Stuck
      <3> QED
        BY <3>2, <3>3
    <2>3. op'[a] = [op[a] EXCEPT !.age = age]
      BY <1>2, <2>1
    <2> HIDE DEF age
    <2>4. op'[a] \in [id : Nat, on : BOOLEAN, age : Nat] /\ op'[a].age = age
          /\ op'[a].id = op[a].id /\ op'[a].on = op[a].on
      BY <2>1, <2>2, <2>3
    <2> QED
      BY <2>2, <2>4 DEF Stuck
  <1>6. node' \in [Nodes -> Int] /\ \A n \in Nodes : node'[n] < 0 <=> node[n] < 0
    BY <1>1, <1>2, <1>3, OlderFacts DEF TypeOK
  <1>7. pod' \in [Workloads -> [id : Nat, state : {"ready", "backoff", "creating"}, many : BOOLEAN, age : Nat]]
    <2> SUFFICES ASSUME NEW w \in Workloads
                 PROVE  pod'[w] \in [id : Nat, state : {"ready", "backoff", "creating"}, many : BOOLEAN, age : Nat]
      BY <1>2
    <2>1. pod[w] \in [id : Nat, state : {"ready", "backoff", "creating"}, many : BOOLEAN, age : Nat]
      BY <1>1 DEF TypeOK
    <2>2. Older(pod[w].age, PodTicks) \in Nat
      BY <1>3, <1>4, <2>1
    <2>3. pod'[w] = [pod[w] EXCEPT !.age = Older(pod[w].age, PodTicks)]
      BY <1>2, <2>1
    <2> QED
      BY <2>1, <2>2, <2>3
  <1>8. ASSUME NEW k \in Keys
        PROVE  /\ issues'[k] \in Seq(IssueRecs)
               /\ Open(k)' <=> Open(k)
               /\ Open(k) => /\ Tracked(k)'.done = Tracked(k).done
                             /\ Tracked(k)'.ladder.attempts = Tracked(k).ladder.attempts
    BY <1>1, TickedIssues
  <1>9. issues' \in [Keys -> Seq(IssueRecs)]
    BY <1>2, <1>8
  <1>10. run' \in RunsWith(0) /\ run'.open = 0 /\ run'.pc = "idle"
    BY <1>1 DEF Idle, RunsWith, Pcs
  <1>11. FoundHolds' /\ PhasesHold' /\ IssuesCovered' /\ ~InRun'
    BY <1>10 DEF FoundHolds, PhasesHold, IssuesCovered, InRun, Filing
  <1>12. TypeOK'
    BY <1>1, <1>5, <1>6, <1>7, <1>9, <1>10 DEF TypeOK, history
  <1>13. terms' = terms /\ lost' = lost /\ spell' = spell
    BY <1>1 DEF history
  <1>14. OpsMarked'
    BY <1>5, <1>8, <1>13, KeyFacts DEF IInv, OpsMarked, Over
  <1>15. RebootsOnLadder'
    BY <1>6, <1>8, <1>11, <1>13, KeyFacts DEF IInv, RebootsOnLadder
  <1>16. LadderEarned'
    BY <1>6, <1>8, <1>13, KeyFacts DEF IInv, LadderEarned
  <1> QED
    BY <1>11, <1>12, <1>14, <1>15, <1>16 DEF IInv

\* Between runs: what is not about issues turns freely.
LEMMA BetweenRuns ==
    ASSUME IInv, run.pc = "done", run' = run, faults' = faults,
           \A k \in Keys : Open(k)' /\ k[1] \in Churn \cup {ARGO} => Open(k)
    PROVE  FoundHolds' /\ PhasesHold' /\ IssuesCovered' /\ ~InRun'
  BY DEF IInv, FoundHolds, PhasesHold, IssuesCovered, InRun, Filing

\* An operation ends, or the next one starts: what a terminate was for is over.
LEMMA OpsTurn ==
    ASSUME OpsMarked, UNCHANGED <<issues, terms, lost>>,
           \A a \in Apps : /\ op[a].id \in Nat /\ op'[a].id \in Nat
                           /\ \/ op'[a] = op[a]
                              \/ op'[a].id = op[a].id /\ ~op'[a].on
                              \/ op'[a].id > op[a].id
    PROVE  OpsMarked'
  <1>1. ASSUME NEW a \in Apps, NEW o \in 1..MaxOps, op'[a] # op[a],
               Over(a, o) \/ op[a].id = o
        PROVE  Over(a, o)'
    BY <1>1, Limits DEF Over
  <1> QED
    BY <1>1 DEF OpsMarked, Over, Stuck, Open, Tracked

LEMMA ArgoStep ==
    ASSUME IInv, NEW a \in Apps, ArgoSync(a) \/ TerminateOp(a)
    PROVE  IInv'
  <1>1. run.pc = "done" /\ UNCHANGED <<fleet, class, node, peers, pod, full, issues, run, faults, history>>
    BY DEF ArgoSync, TerminateOp
  <1>2. \/ op' = op
        \/ op' = [op EXCEPT ![a].on = FALSE]
        \/ op' = [op EXCEPT ![a] = [id |-> op[a].id + 1, on |-> TRUE, age |-> 0]]
    BY DEF ArgoSync, TerminateOp
  <1>3. op \in [Apps -> [id : Nat, on : BOOLEAN, age : Nat]]
    BY DEF IInv, TypeOK
  <1>4. /\ op' \in [Apps -> [id : Nat, on : BOOLEAN, age : Nat]]
        /\ \A b \in Apps : \/ op'[b] = op[b]
                           \/ op'[b].id = op[b].id /\ ~op'[b].on
                           \/ op'[b].id > op[b].id
    <2>1. CASE op' = op
      BY <1>3, <2>1
    <2>2. CASE op' = [op EXCEPT ![a].on = FALSE]
      <3>1. op[a] \in [id : Nat, on : BOOLEAN, age : Nat]
        BY <1>3
      <3>2. /\ [op[a] EXCEPT !.on = FALSE] \in [id : Nat, on : BOOLEAN, age : Nat]
            /\ [op[a] EXCEPT !.on = FALSE].id = op[a].id /\ ~[op[a] EXCEPT !.on = FALSE].on
        BY <3>1
      <3>3. op' = [op EXCEPT ![a] = [op[a] EXCEPT !.on = FALSE]]
        BY <1>3, <2>2
      <3> QED
        BY <1>3, <3>2, <3>3
    <2>3. CASE op' = [op EXCEPT ![a] = [id |-> op[a].id + 1, on |-> TRUE, age |-> 0]]
      BY <1>3, <2>3
    <2> QED
      BY <1>2, <2>1, <2>2, <2>3
  <1>5. TypeOK'
    BY <1>1, <1>4 DEF IInv, TypeOK, history
  <1>6. FoundHolds' /\ PhasesHold' /\ IssuesCovered' /\ ~InRun'
    BY <1>1, BetweenRuns DEF Open
  <1>7. OpsMarked'
    BY <1>1, <1>3, <1>4, OpsTurn DEF IInv, history
  <1>8. RebootsOnLadder' /\ LadderEarned'
    BY <1>1, <1>6, NodesFrame DEF IInv, history
  <1> QED
    BY <1>5, <1>6, <1>7, <1>8 DEF IInv

\* A spell begins or ends, also in the middle of a run.
LEMMA NodeStep ==
    ASSUME IInv, NEW n \in Nodes, NodeTurns(n)
    PROVE  IInv'
  <1> DEFINE back == IF node[n] < 0 THEN 0 ELSE -1
             next == [reboots |-> 0, stale |-> node[n] < 0 /\ Open(<<DARK, n>>)]
  <1>1. /\ node' = [node EXCEPT ![n] = back] /\ spell' = [spell EXCEPT ![n] = next]
        /\ lost' = {l \in lost : l[1] # <<DARK, n>>}
        /\ UNCHANGED <<fleet, class, op, peers, pod, full, issues, terminating, run, faults, terms>>
    BY DEF NodeTurns
  <1>2. node \in [Nodes -> Int] /\ spell \in [Nodes -> [reboots : Nat, stale : BOOLEAN]] /\ TypeOK
    BY DEF IInv, TypeOK
  <1>3. next \in [reboots : Nat, stale : BOOLEAN] /\ next.reboots = 0
        /\ next.stale = (node[n] < 0 /\ Open(<<DARK, n>>)) /\ back \in Int
    OBVIOUS
  <1>a. back < 0 \/ node[n] < 0
    OBVIOUS
  <1> HIDE DEF next, back
  <1>4. /\ node'[n] = back /\ spell'[n] = next
        /\ \A m \in Nodes \ {n} : node'[m] = node[m] /\ spell'[m] = spell[m]
        /\ node' \in [Nodes -> Int] /\ spell' \in [Nodes -> [reboots : Nat, stale : BOOLEAN]]
    BY <1>1, <1>2, <1>3
  <1>5. TypeOK'
    BY <1>1, <1>2, <1>4 DEF TypeOK
  <1>6. FoundHolds'
    BY <1>1, <1>3, <1>4 DEF IInv, FoundHolds, InRun, Stuck
  <1>7. PhasesHold' /\ IssuesCovered'
    BY <1>1 DEF IInv, PhasesHold, IssuesCovered, Duplicates, Open
  <1>8. \A l \in lost : l[1] # <<DARK, n>> => l \in lost'
    BY <1>1
  <1>9. OpsMarked'
    <2>1. \A a \in Apps, o \in 1..MaxOps : <<<<ARGO, a>>, o>> \in lost => <<<<ARGO, a>>, o>> \in lost'
      BY <1>8, KindsDiffer
    <2> QED
      BY <1>1, <2>1 DEF IInv, OpsMarked, Over, Stuck, Open, Tracked
  <1>10. \A m \in Nodes \ {n} : <<<<DARK, m>>, 0>> \in lost => <<<<DARK, m>>, 0>> \in lost'
    BY <1>8
  <1>11. RebootsOnLadder'
    BY <1>1, <1>3, <1>4, <1>10 DEF IInv, RebootsOnLadder, Open, Tracked, InRun
  <1>12. LadderEarned'
    BY <1>1, <1>3, <1>4, <1>a DEF IInv, LadderEarned, Open, Tracked
  <1> QED
    BY <1>5, <1>6, <1>7, <1>9, <1>11, <1>12 DEF IInv

\* Ready peers, pods and volumes.
LEMMA ClusterStep ==
    ASSUME IInv, \/ PeerTurns
                 \/ \E w \in Workloads : PodTurns(w)
                 \/ \E c \in Claims : VolumeTurns(c)
    PROVE  IInv'
  <1>1. run.pc = "done" /\ UNCHANGED <<class, op, node, issues, run, faults, history>>
    BY DEF PeerTurns, PodTurns, VolumeTurns
  <1>2. peers' \in Int
    BY Limits DEF PeerTurns, PodTurns, VolumeTurns, IInv, TypeOK
  <1>3. pod' \in [Workloads -> [id : Nat, state : {"ready", "backoff", "creating"}, many : BOOLEAN, age : Nat]]
    <2> DEFINE Pods == [id : Nat, state : {"ready", "backoff", "creating"}, many : BOOLEAN, age : Nat]
    <2>1. pod \in [Workloads -> Pods]
      BY DEF IInv, TypeOK
    <2>2. ASSUME UNCHANGED pod PROVE pod' \in [Workloads -> Pods]
      BY <2>1, <2>2
    <2>3. ASSUME NEW w \in Workloads, PodTurns(w)
          PROVE  pod' \in [Workloads -> Pods]
      <3>1. pod[w] \in Pods
        BY <2>1
      <3>2. PICK p \in Pods : pod' = [pod EXCEPT ![w] = p]
        <4>1. \A s \in {"ready", "backoff"} : /\ [pod[w] EXCEPT !.state = s] \in Pods
                                              /\ [pod EXCEPT ![w].state = s] = [pod EXCEPT ![w] = [pod[w] EXCEPT !.state = s]]
          BY <2>1, <3>1
        <4>2. /\ [pod[w] EXCEPT !.many = TRUE] \in Pods
              /\ [pod EXCEPT ![w].many = TRUE] = [pod EXCEPT ![w] = [pod[w] EXCEPT !.many = TRUE]]
          BY <2>1, <3>1
        <4>3. [id |-> pod[w].id + 1, state |-> "creating", many |-> FALSE, age |-> 0] \in Pods
          BY <3>1
        <4> HIDE DEF Pods
        <4> QED
          BY <2>3, <4>1, <4>2, <4>3 DEF PodTurns
      <3> HIDE DEF Pods
      <3> QED
        BY <2>1, <3>2
    <2> HIDE DEF Pods
    <2>4. (PeerTurns \/ \E c \in Claims : VolumeTurns(c)) => UNCHANGED pod
      BY DEF PeerTurns, VolumeTurns
    <2>5. pod' \in [Workloads -> Pods]
      <3>1. CASE PeerTurns \/ \E c \in Claims : VolumeTurns(c)
        BY <2>2, <2>4, <3>1
      <3>2. CASE \E w \in Workloads : PodTurns(w)
        BY <2>3, <3>2, Zenon
      <3> QED
        BY <3>1, <3>2
    <2> QED
      BY <2>5 DEF Pods
  <1>4. TypeOK'
    BY <1>1, <1>2, <1>3 DEF IInv, TypeOK, history
  <1>5. FoundHolds' /\ PhasesHold' /\ IssuesCovered' /\ ~InRun'
    BY <1>1, BetweenRuns DEF Open
  <1>6. OpsMarked'
    BY <1>1, OpsFrame DEF IInv, history
  <1>7. RebootsOnLadder' /\ LadderEarned'
    BY <1>1, <1>5, NodesFrame DEF IInv, history
  <1> QED
    BY <1>4, <1>5, <1>6, <1>7 DEF IInv

LEMMA IssueStep ==
    ASSUME IInv, NEW k \in Keys, IssueTurns(k)
    PROVE  IInv'
  <1>1. run.pc = "done" /\ Open(k) /\ Keep /\ UNCHANGED <<run, faults, history>>
    BY DEF IssueTurns
  <1>2. /\ issues' \in [Keys -> Seq(IssueRecs)]
        /\ \A j \in Keys \ {k} : issues'[j] = issues[j]
        /\ k[1] \in Churn \cup {PVC}
    <2>1. CASE k[1] = PVC /\ issues' = [issues EXCEPT ![k] = Tail(@)]
      BY <1>1, <2>1, DropIssue DEF IInv
    <2>2. CASE k[1] \in Churn /\ issues' = [issues EXCEPT ![k][1].capped = TRUE]
      <3> DEFINE x == [issues[k][1] EXCEPT !.capped = TRUE]
      <3>1. x \in IssueRecs
        BY <1>1, FirstIssue, IssueTypes DEF IInv
      <3>2. issues \in [Keys -> Seq(IssueRecs)] /\ issues[k] # <<>>
        BY <1>1 DEF IInv, TypeOK, Open
      <3>3. issues' = [issues EXCEPT ![k] = [@ EXCEPT ![1] = x]]
        BY <2>2
      <3> HIDE DEF x
      <3>4. issues' \in [Keys -> Seq(IssueRecs)] /\ \A j \in Keys \ {k} : issues'[j] = issues[j]
        BY <3>1, <3>2, <3>3, WriteIssue
      <3> QED
        BY <2>2, <3>4
    <2> QED
      BY <2>1, <2>2 DEF IssueTurns
  <1>3. TypeOK'
    BY <1>1, <1>2 DEF IInv, TypeOK, Keep, cluster, history
  <1>4. FoundHolds' /\ PhasesHold' /\ IssuesCovered' /\ ~InRun'
    BY <1>1, <1>2, BetweenRuns DEF Open
  <1>5. /\ \A a \in Apps : issues'[<<ARGO, a>>] = issues[<<ARGO, a>>]
        /\ \A n \in Nodes : issues'[<<DARK, n>>] = issues[<<DARK, n>>]
    BY <1>2, KeyFacts, KindsDiffer
  <1>6. OpsMarked'
    BY <1>1, <1>5, OpsFrame DEF IInv, Keep, cluster, history
  <1>7. RebootsOnLadder' /\ LadderEarned'
    BY <1>1, <1>4, <1>5, NodesFrame DEF IInv, Keep, cluster, history
  <1> QED
    BY <1>3, <1>4, <1>6, <1>7 DEF IInv

------------------------------------------------------------------------------
(* The theorems                                                            *)

LEMMA InitHolds ==
    ASSUME Init
    PROVE  IInv
  <1> USE DEF Init
  <1>1. run \in RunsWith(run.open) /\ run.pc = "idle" /\ ~InRun
    <2>1. run = Idle
      OBVIOUS
    <2>2. Idle \in RunsWith(0) /\ Idle.open = 0 /\ Idle.pc = "idle"
      BY DEF Idle, RunsWith, Pcs
    <2> QED
      BY <2>1, <2>2 DEF InRun, Filing
  <1>2. FoundHolds /\ PhasesHold /\ IssuesCovered
    BY <1>1 DEF FoundHolds, PhasesHold, IssuesCovered, Filing, InRun
  <1>3. TypeOK
    <2>1. issues \in [Keys -> Seq(IssueRecs)]
      OBVIOUS
    <2>2. peers \in Int /\ -1 \in Int
      BY Limits
    <2> QED
      BY <1>1, <2>1, <2>2 DEF TypeOK
  <1>4. OpsMarked
    BY DEF OpsMarked
  <1>5. RebootsOnLadder /\ LadderEarned
    <2>1. \A n \in Nodes : issues[<<DARK, n>>] = <<>> /\ spell[n].reboots = 0
      BY KeyFacts
    <2> QED
      BY <2>1 DEF RebootsOnLadder, LadderEarned, Open
  <1> QED
    BY <1>2, <1>3, <1>4, <1>5 DEF IInv

LEMMA NextHolds ==
    ASSUME IInv, [Next]_vars
    PROVE  IInv'
  <1>1. CASE Run
    BY <1>1, LookStep, CloseStep, UpdateStep, TerminateStep, RecoverStep, EscalateStep, FileStep, TurnStep DEF Run
  <1>2. CASE Tick
    BY <1>2, TickStep
  <1>3. CASE Outside
    BY <1>3, ArgoStep, NodeStep, ClusterStep, IssueStep DEF Outside
  <1>4. CASE UNCHANGED vars
    <2>1. UNCHANGED <<fleet, class, op, node, peers, pod, full, issues, terminating, run, faults, terms, lost, spell>>
      BY <1>4 DEF vars, cluster, history
    <2>2. TypeOK'
      BY <2>1 DEF IInv, TypeOK
    <2>3. FoundHolds' /\ PhasesHold' /\ IssuesCovered'
      BY <2>1 DEF IInv, FoundHolds, PhasesHold, IssuesCovered, InRun, Stuck, Duplicates, Open
    <2>4. OpsMarked'
      BY <2>1, OpsFrame DEF IInv
    <2>5. RebootsOnLadder' /\ LadderEarned'
      BY <2>1, NodesFrame DEF IInv, InRun
    <2> QED
      BY <2>2, <2>3, <2>4, <2>5 DEF IInv
  <1> QED
    BY <1>1, <1>2, <1>3, <1>4 DEF Next

LEMMA Invariant == Spec => []IInv
  BY InitHolds, NextHolds, PTL DEF Spec

\* The state keeps its types, with attempts that never pass max_reboot_attempts.
THEOREM TypeCorrect == Spec => []TypeOK
  <1>1. IInv => TypeOK
    BY DEF IInv
  <1> QED
    BY <1>1, Invariant, PTL

\* A second terminate of an operation (main, "never a re-dispatch loop against the same
\* op") needs a record that was lost: whatever fails, closes or is filed anew meanwhile.
THEOREM OneTerminate == Spec => []TerminatedOnce
  <1>1. ASSUME IInv PROVE TerminatedOnce
    <2>1. \A a \in Apps, o \in 1..MaxOps : terms[a][o] \in Nat
      BY <1>1 DEF IInv, TypeOK
    <2> QED
      BY <1>1, <2>1 DEF IInv, OpsMarked, TerminatedOnce
  <1> QED
    BY <1>1, Invariant, PTL

\* close_resolved_argo_issues and close_resolved_findings come before anything that may
\* end the run early, and what is filed or written later is about something found.
THEOREM NothingStaleOpen == Spec => []ResolvedClosed
  <1>1. ASSUME IInv PROVE ResolvedClosed
    BY <1>1 DEF IInv, IssuesCovered, ResolvedClosed, Filing
  <1> QED
    BY <1>1, Invariant, PTL

\* What a step writes on the ladder of a node with an issue: what the ladder decided for
\* what the run found of the node.
LEMMA LadderWrites ==
    ASSUME IInv, [Next]_vars, NEW n \in Nodes, Open(<<DARK, n>>), issues'[<<DARK, n>>] # <<>>
    PROVE  LET k == <<DARK, n>>
           IN  \/ /\ issues'[k][1].ladder.attempts = Tracked(k).ladder.attempts
                  /\ issues'[k][1].ladder.escalated = Tracked(k).ladder.escalated
               \/ \E f \in run.found :
                    /\ f \in Findings /\ f.key = k
                    /\ issues'[k][1].ladder = decide_dark_node_escalation(n, f.age, run.peers, Tracked(k).ladder)[2]
  <1> DEFINE k == <<DARK, n>>
             same == issues'[k] = issues[k]
             ticked == /\ issues'[k][1].ladder.attempts = Tracked(k).ladder.attempts
                       /\ issues'[k][1].ladder.escalated = Tracked(k).ladder.escalated
             decided == \E f \in run.found :
                          /\ f \in Findings /\ f.key = k
                          /\ issues'[k][1].ladder =
                               decide_dark_node_escalation(n, f.age, run.peers, Tracked(k).ladder)[2]
  <1>1. k \in Keys /\ k[1] = DARK /\ k[2] = n
    BY KeyFacts
  <1>2. TypeOK /\ issues \in [Keys -> Seq(IssueRecs)] /\ Tracked(k) = issues[k][1]
    BY <1>1, FirstIssue DEF IInv, TypeOK
  <1>3. \A j \in Keys : j[1] # DARK => j # k
    BY <1>1
  <1> HIDE DEF k, decided
  <1>4. CASE CloseResolved
    <2>1. PICK j \in run.todo : issues' = issues \/ issues' = [issues EXCEPT ![j] = <<>>]
      BY <1>4 DEF CloseResolved
    <2>2. j \in Keys /\ j # k
      BY <1>3, <1>4, <2>1, KindsDiffer DEF CloseResolved, IInv, PhasesHold
    <2>3. same
      BY <1>1, <1>2, <2>1, <2>2
    <2> QED
      BY <1>2, <2>3 DEF k
  <1>5. CASE Update
    <2>1. PICK f \in run.todo : \/ issues' = issues
                                \/ issues' = [issues EXCEPT ![f.key][1].inst = f.id]
                                \/ issues' = [issues EXCEPT ![f.key] = Tail(@)]
      BY <1>5 DEF Update
    <2>2. f.key \in Keys /\ f.key # k
      <3>1. run.pc = "update" /\ InRun
        BY <1>5 DEF Update, InRun, Filing
      <3>2. f \in run.found /\ Kind(f) \in Churn
        BY <3>1, FoundAre DEF IInv, PhasesHold
      <3> QED
        BY <1>1, <3>1, <3>2, FoundAre, KindsDiffer DEF IInv
    <2>3. same
      BY <1>1, <1>2, <2>1, <2>2
    <2> QED
      BY <1>2, <2>3 DEF k
  <1>6. CASE Terminate
    <2>1. PICK f \in run.todo : issues' = issues \/ issues' = [issues EXCEPT ![f.key][1].done = @ \cup {f.id}]
      BY <1>6 DEF Terminate
    <2>2. f.key \in Keys /\ f.key # k
      <3>1. run.pc = "terminate" /\ InRun
        BY <1>6 DEF Terminate, InRun, Filing
      <3>2. f \in run.found /\ Kind(f) = ARGO
        BY <3>1, FoundAre DEF IInv, PhasesHold
      <3> QED
        BY <1>1, <3>1, <3>2, FoundAre, KindsDiffer DEF IInv
    <2>3. same
      BY <1>1, <1>2, <2>1, <2>2
    <2> QED
      BY <1>2, <2>3 DEF k
  <1>7. CASE Recover
    <2>1. PICK j \in run.todo : issues' = issues \/ issues' = [issues EXCEPT ![j] = <<>>]
      BY <1>7 DEF Recover
    <2>2. j \in Keys
      BY <1>7, <2>1 DEF Recover, IInv, PhasesHold
    <2>3. same
      BY <1>1, <1>2, <2>1, <2>2 DEF k
    <2> QED
      BY <1>2, <2>3 DEF k
  <1>8. CASE Escalate
    <2>1. PICK f \in run.todo : issues' = issues \/ ActOnDarkNode(f, issues)
      BY <1>8 DEF Escalate
    <2>2. run.pc = "escalate" /\ InRun
      BY <1>8 DEF Escalate, InRun, Filing
    <2>3. f \in run.found /\ f \in Findings /\ Kind(f) = DARK /\ Open(f.key)
      BY <2>2, FoundAre DEF IInv, PhasesHold
    <2>4. CASE ActOnDarkNode(f, issues)
      <3>1. issues[f.key] # <<>>
        BY <2>3 DEF Open
      <3>2. /\ f.key = <<DARK, f.key[2]>> /\ f.key \in Keys
            /\ \A j \in Keys \ {f.key} : issues'[j] = issues[j]
            /\ \/ issues'[f.key][1].ladder =
                    decide_dark_node_escalation(f.key[2], f.age, run.peers, issues[f.key][1].ladder)[2]
               \/ issues' = issues
        BY <1>2, <2>3, <2>4, <3>1, ActFacts
      <3>3. CASE f.key = k /\ issues' # issues
        BY <1>1, <1>2, <2>3, <3>2, <3>3 DEF decided, k
      <3>4. CASE f.key # k \/ issues' = issues
        BY <1>1, <1>2, <3>2, <3>4 DEF k
      <3> QED
        BY <3>3, <3>4
    <2> QED
      BY <1>2, <2>1, <2>4 DEF k
  <1>9. CASE File
    <2>1. run.pc = "file" /\ InRun
      BY <1>9 DEF File, InRun, Filing
    <2>2. PICK f \in run.todo : \/ issues' = issues
                                \/ issues' = create_issue(f)
                                \/ Kind(f) = DARK /\ ActOnDarkNode(f, create_issue(f))
      BY <1>9 DEF File, history
    <2>3. f \in run.found /\ f \in Findings /\ f.key \in Keys /\ ~Open(f.key)
      BY <2>1, FoundAre DEF IInv, PhasesHold
    <2>4. f.key # k
      BY <2>3 DEF k
    <2>5. /\ create_issue(f) \in [Keys -> Seq(IssueRecs)] /\ create_issue(f)[f.key] # <<>>
          /\ create_issue(f)[k] = issues[k]
      BY <1>1, <1>2, <2>3, <2>4, Created
    <2>6. CASE Kind(f) = DARK /\ ActOnDarkNode(f, create_issue(f))
      <3>1. \A j \in Keys \ {f.key} : issues'[j] = create_issue(f)[j]
        BY <1>2, <2>3, <2>5, <2>6, ActFacts
      <3> QED
        BY <1>1, <1>2, <2>4, <2>5, <3>1 DEF k
    <2> QED
      BY <1>2, <2>2, <2>5, <2>6 DEF k
  <1>10. CASE Tick
    BY <1>1, <1>2, <1>10, TickedIssues DEF k
  <1>11. CASE \E j \in Keys : IssueTurns(j)
    <2>1. PICK j \in Keys : IssueTurns(j)
      BY <1>11
    <2>2. j[1] # DARK /\ (issues' = [issues EXCEPT ![j] = Tail(@)] \/ issues' = [issues EXCEPT ![j][1].capped = TRUE])
      BY <2>1, KindsDiffer DEF IssueTurns
    <2>3. same
      BY <1>1, <1>2, <1>3, <2>2
    <2> QED
      BY <1>2, <2>3 DEF k
  <1>12. CASE \/ Look \/ Turn \/ PeerTurns \/ UNCHANGED vars
              \/ \E a \in Apps : ArgoSync(a) \/ TerminateOp(a)
              \/ \E m \in Nodes : NodeTurns(m)
              \/ \E w \in Workloads : PodTurns(w)
              \/ \E c \in Claims : VolumeTurns(c)
    <2>1. issues' = issues
      BY <1>12 DEF Look, Turn, PeerTurns, ArgoSync, TerminateOp, NodeTurns, PodTurns, VolumeTurns, vars
    <2> QED
      BY <1>2, <2>1 DEF k
  <1> QED
    BY <1>4, <1>5, <1>6, <1>7, <1>8, <1>9, <1>10, <1>11, <1>12 DEF Next, Run, Outside

\* "Reboot is capped at max_reboot_attempts" (decide_dark_node_escalation), in a spell and
\* not only on the ladder of one issue; and no reboot within a cooldown of the last one on
\* record.
THEOREM RebootsAreRationed == Spec => RebootsRationed
  <1>1. ASSUME IInv, NEW n \in Nodes, spell[n].reboots > MaxAttempts
        PROVE  <<<<DARK, n>>, 0>> \in lost
    <2>1. spell[n].reboots \in Nat
      BY <1>1 DEF IInv, TypeOK
    <2>2. Open(<<DARK, n>>) => Tracked(<<DARK, n>>).ladder.attempts \in 0..MaxAttempts
      BY <1>1, FirstIssue, KeyFacts DEF IInv, Ladders
    <2> QED
      BY <1>1, <2>1, <2>2, Limits DEF IInv, RebootsOnLadder
  <1>2. ASSUME IInv, [Next]_vars, NEW n \in Nodes, Open(<<DARK, n>>), issues'[<<DARK, n>>] # <<>>,
               issues'[<<DARK, n>>][1].ladder.attempts > Tracked(<<DARK, n>>).ladder.attempts
        PROVE  Tracked(<<DARK, n>>).ladder.cool >= CooldownTicks
    <2> DEFINE s == Tracked(<<DARK, n>>).ladder
    <2>1. s \in Ladders /\ s.attempts \in Nat
      BY <1>2, FirstIssue, KeyFacts DEF IInv, Ladders
    <2>2. PICK f \in Findings :
             issues'[<<DARK, n>>][1].ladder = decide_dark_node_escalation(n, f.age, run.peers, s)[2]
      BY <1>2, <2>1, LadderWrites
    <2>3. TypeOK /\ f.age \in Int /\ run.peers \in Int
      BY <1>2 DEF IInv, TypeOK, Findings, RunsWith
    <2> HIDE DEF s
    <2>4. \/ decide_dark_node_escalation(n, f.age, run.peers, s)[2].attempts = s.attempts
          \/ s.cool >= CooldownTicks
      <3>1. PICK d : d = decide_dark_node_escalation(n, f.age, run.peers, s)
        OBVIOUS
      <3>2. n \in Nodes
        BY <1>2
      <3>3. d[1] = "reboot" => s.cool >= CooldownTicks
        BY <2>1, <2>3, <3>1, <3>2, DecideFacts
      <3>4. d[1] # "reboot" => d[2].attempts = s.attempts
        BY <2>1, <2>3, <3>1, <3>2, DecideFacts
      <3> QED
        BY <3>1, <3>3, <3>4
    <2> QED
      BY <1>2, <2>1, <2>2, <2>4 DEF s
  <1>3. IInv => \A n \in Nodes : spell[n].reboots > MaxAttempts => <<<<DARK, n>>, 0>> \in lost
    BY <1>1
  <1>4. IInv /\ [Next]_vars =>
          [\A n \in Nodes :
             LET k == <<DARK, n>>
             IN  (Open(k) /\ issues'[k] # <<>> /\ issues'[k][1].ladder.attempts > Tracked(k).ladder.attempts)
                   => Tracked(k).ladder.cool >= CooldownTicks]_vars
    BY <1>2
  <1> QED
    BY <1>3, <1>4, Invariant, PTL DEF Spec, RebootsRationed

\* "Reinstall only fires after attempts are exhausted AND the node has been dark for
\* escalate_after_minutes" (decide_dark_node_escalation): the attempts are reboots of this
\* spell, whatever runs broke off and whatever issues were closed and filed meanwhile.
THEOREM ReinstallIsEarned == Spec => ReinstallEarned
  <1>1. ASSUME IInv, [Next]_vars, NEW n \in Nodes,
               Open(<<DARK, n>>), Len(issues'[<<DARK, n>>]) = Len(issues[<<DARK, n>>]),
               issues'[<<DARK, n>>][1].ladder.escalated, ~Tracked(<<DARK, n>>).ladder.escalated
        PROVE  /\ spell[n].stale \/ spell[n].reboots >= MaxAttempts \/ node[n] < EscalateTicks
               /\ \E f \in run.found : f.key = <<DARK, n>> /\ f.age >= EscalateTicks
               /\ class[n] = "control-plane" \/ (class[n] = "voter" /\ run.peers >= MinOther)
    <2> DEFINE s == Tracked(<<DARK, n>>).ladder
    <2>1. s \in Ladders /\ s.attempts \in Nat /\ TypeOK
      BY <1>1, FirstIssue, KeyFacts DEF IInv, Ladders
    <2>2. issues'[<<DARK, n>>] # <<>>
      <3>1. issues[<<DARK, n>>] \in Seq(IssueRecs) /\ issues[<<DARK, n>>] # <<>>
        BY <1>1, KeyFacts DEF IInv, TypeOK, Open
      <3>2. Len(issues[<<DARK, n>>]) # 0
        BY <3>1
      <3>3. Len(<<>>) = 0
        OBVIOUS
      <3> QED
        BY <1>1, <3>2, <3>3
    <2>3. PICK f \in run.found :
             /\ f \in Findings /\ f.key = <<DARK, n>>
             /\ issues'[<<DARK, n>>][1].ladder = decide_dark_node_escalation(n, f.age, run.peers, s)[2]
      BY <1>1, <2>2, LadderWrites
    <2>4. f.age \in Int /\ run.peers \in Int /\ node[n] \in Int /\ spell[n].reboots \in Nat
      BY <2>1, <2>3 DEF TypeOK, Findings, RunsWith
    <2> HIDE DEF s
    <2>5. /\ s.attempts >= MaxAttempts /\ f.age >= EscalateTicks
          /\ class[n] = "control-plane" \/ (class[n] = "voter" /\ run.peers >= MinOther)
      <3>1. decide_dark_node_escalation(n, f.age, run.peers, s)[2].escalated /\ ~s.escalated
        BY <1>1, <2>3 DEF s
      <3> QED
        BY <2>1, <2>4, <3>1, DecideFacts
    <2>6. node[n] < 0 \/ spell[n].stale \/ s.attempts <= spell[n].reboots
      BY <1>1 DEF IInv, LadderEarned, s
    <2>7. spell[n].stale \/ spell[n].reboots >= MaxAttempts \/ node[n] < EscalateTicks
      BY <2>1, <2>4, <2>5, <2>6, Limits
    <2> QED
      BY <2>3, <2>5, <2>7
  <1>2. IInv /\ [Next]_vars =>
          [\A n \in Nodes :
             LET k == <<DARK, n>>
             IN  (/\ Open(k) /\ Len(issues'[k]) = Len(issues[k])
                  /\ issues'[k][1].ladder.escalated /\ ~Tracked(k).ladder.escalated) =>
                   /\ spell[n].stale \/ spell[n].reboots >= MaxAttempts \/ node[n] < EscalateTicks
                   /\ \E f \in run.found : f.key = k /\ f.age >= EscalateTicks
                   /\ class[n] = "control-plane" \/ (class[n] = "voter" /\ run.peers >= MinOther)]_vars
    BY <1>1
  <1> QED
    BY <1>2, Invariant, PTL DEF Spec, ReinstallEarned
===============================================================================

------------------------- MODULE DeploymentWatchdog -------------------------
(***************************************************************************)
(* The deployment-freeze watchdog: scripts-tools/deployment_watchdog.py. A *)
(* scheduled run looks at the cluster, closes the issues of what is over,  *)
(* files issues for what is new and acts through other workflows: it has a *)
(* wedged Argo operation terminated, and a dark node rebooted and at last  *)
(* reinstalled.  It keeps no state of its own: what it did is recorded in  *)
(* the issues, by comments posted after the act, and any call may fail.    *)
(*                                                                         *)
(* Time passes in ticks, one per scheduled run; ages saturate above the    *)
(* last threshold that looks at them.  The workflow's concurrency group    *)
(* keeps runs apart.  Ignore lists, disabled detections, the dry run and   *)
(* timestamps that do not parse are left out.                              *)
(***************************************************************************)
EXTENDS Integers, Sequences, FiniteSets

CONSTANTS
    Apps, Nodes, Workloads, Claims, \* numbered subjects, in the order of their names
    Fleets,          \* the sets of kinds of subjects that can go wrong together
    Classes,         \* the classes of nodes to look at
    RunningTicks, UnknownTicks, PodTicks, CooldownTicks, EscalateTicks,
    MaxAttempts,     \* dark_node.max_reboot_attempts
    MinOther,        \* dark_node.reinstall_min_other_ready_control_plane
    MaxPerRun, MaxOpen,
    MaxOps, MaxPods, \* bounds: operations of an application, pods of a workload
    MaxFaults        \* bound: calls that fail

ASSUME TicksAssumption ==
    {RunningTicks, UnknownTicks, PodTicks, CooldownTicks, EscalateTicks} \subseteq Nat \ {0}
ASSUME LimitsAssumption == {MaxAttempts, MinOther, MaxPerRun, MaxOpen} \subseteq Nat \ {0}
ASSUME BoundsAssumption == {MaxOps, MaxPods, MaxFaults} \subseteq Nat
ASSUME ClassesAssumption == Classes \subseteq {"voter", "control-plane", "elastic"}

VARIABLES
    fleet, class,    \* what can go wrong here, and the class of each node
    op,              \* Argo: application -> its running operation and its age
    node,            \* node -> ticks its Ready condition has been Unknown, or -1
    peers,           \* other control-plane nodes that are Ready
    pod,             \* workload -> the pod it has
    full,            \* claims above used_ratio
    issues,          \* GitHub: key -> the open issues that carry it
    terminating,     \* applications whose argo-terminate-op run is under way
    run,             \* the local variables of the run
    faults,
    terms, lost,     \* history: terminates dispatched for each operation, and the
                     \* operations and nodes whose record of an act was not written
    spell            \* history: node -> its reboots since it went dark, and whether
                     \* an issue of an earlier spell was open when it did

cluster == <<op, node, peers, pod, full>>
history == <<terms, lost, spell>>
vars == <<fleet, class, cluster, issues, terminating, run, faults, history>>

ARGO == "stuck-argo-op"
DARK == "dark-node"
PVC == "pvc-nearing-full"
CREATING == "stuck-containercreating"
CRASHLOOP == "chronic-crashloop"
Kinds == <<ARGO, DARK, PVC, CREATING, CRASHLOOP>>
Churn == {CREATING, CRASHLOOP}

Keys == ({ARGO} \X Apps) \cup ({DARK} \X Nodes) \cup ({PVC} \X Claims) \cup (Churn \X Workloads)

\* A finding: its key, the operation or pod it is about, and how long it lasts.
Finding(kind, subject, id, age) == [key |-> <<kind, subject>>, id |-> id, age |-> age]
Kind(f) == f.key[1]

\* The reasons of a refusal that the ladder remembers; one about the quorum says
\* how many peers were Ready.
NoReason == -2
Elastic == -1

DEFAULT_DARK_STATE == [attempts |-> 0, cool |-> CooldownTicks, escalated |-> FALSE, refused |-> NoReason]

\* An issue: the operations its markers say were terminated, the last state of the
\* ladder among its comments, the last pod named, whether GitHub takes comments.
Issue(done, inst) == [done |-> done, ladder |-> DEFAULT_DARK_STATE, inst |-> inst, capped |-> FALSE]

Idle == [pc |-> "idle", found |-> {}, unknown |-> {}, peers |-> 0, new |-> {}, open |-> 0, todo |-> {}, exit |-> 0]

Init ==
    /\ fleet \in Fleets
    /\ class \in [Nodes -> Classes]
    /\ DARK \notin fleet => class = [n \in Nodes |-> CHOOSE c \in Classes : TRUE]
    /\ op = [a \in Apps |-> [id |-> 0, on |-> FALSE, age |-> 0]]
    /\ node = [n \in Nodes |-> -1]
    /\ peers = MinOther
    /\ pod = [w \in Workloads |-> [id |-> 1, state |-> "ready", many |-> FALSE, age |-> 0]]
    /\ full = {}
    /\ issues = [k \in Keys |-> <<>>]
    /\ terminating = {}
    /\ run = Idle
    /\ faults = 0
    /\ terms = [a \in Apps |-> [o \in 1..MaxOps |-> 0]]
    /\ lost = {}
    /\ spell = [n \in Nodes |-> [reboots |-> 0, stale |-> FALSE]]

------------------------------------------------------------------------------
(* Detections, on the cluster as the run sees it                           *)

detect_stuck_argo_ops ==
    {Finding(ARGO, a, op[a].id, 0) : a \in {b \in Apps : op[b].on /\ op[b].age > RunningTicks}}

detect_dark_nodes ==
    {Finding(DARK, n, 0, node[n]) : n \in {m \in Nodes : node[m] > UnknownTicks}}

currently_unknown_node_names == {n \in Nodes : node[n] >= 0}

\* Many restarts are enough, also for a container that is ready again.
detect_chronic_crashloop ==
    {Finding(CRASHLOOP, w, pod[w].id, 0) : w \in {v \in Workloads :
        pod[v].many \/ (pod[v].state = "backoff" /\ pod[v].age > PodTicks)}}

detect_stuck_container_creating ==
    {Finding(CREATING, w, pod[w].id, 0) : w \in {v \in Workloads :
        pod[v].state = "creating" /\ pod[v].age > PodTicks}}

\* The volumes in Prometheus' answer, or when it gives none those a running pod
\* answers df for; nothing at all is blindness.
collect_pvc_usage(prometheus, df) == IF prometheus THEN Claims ELSE df
Blind(prometheus, df) == ~prometheus /\ df = {}

detect_pvc_pressure(usage) == {Finding(PVC, c, 0, 0) : c \in full \cap usage}

------------------------------------------------------------------------------
(* The run                                                                 *)

Open(k) == issues[k] # <<>>
Tracked(k) == Head(issues[k])
Total == Cardinality({p \in Keys \X (1..10) : p[2] <= Len(issues[p[1]])})

\* Split on the key, which names the workload and not the pod.
filter_new_findings(found) == {f \in found : ~Open(f.key)}

Duplicates == run.found \ run.new
Rank(f) == 100 * (CHOOSE i \in 1..Len(Kinds) : Kinds[i] = Kind(f)) + f.key[2]

\* The n worst of a set of findings.
prioritize(fs, n) == {f \in fs : Cardinality({g \in fs : Rank(g) < Rank(f)}) < n}

\* A stuck operation is exempt from the ceiling on open issues.
ToFile ==
    LET argo == prioritize({f \in run.new : Kind(f) = ARGO}, MaxPerRun)
        room == MaxPerRun - Cardinality(argo)
        slots == IF room < MaxOpen - run.open THEN room ELSE MaxOpen - run.open
    IN  argo \cup prioritize({f \in run.new : Kind(f) # ARGO}, slots)

Keep == UNCHANGED <<fleet, class, cluster, terminating>>

\* A call fails and the run ends with an error.
Abort ==
    /\ faults < MaxFaults /\ faults' = faults + 1
    /\ run' = [Idle EXCEPT !.pc = "done", !.exit = 2]

\* The run goes on to its next item.
Did(f) == run' = [run EXCEPT !.todo = @ \ {f}] /\ UNCHANGED faults

\* Any of the reads fails: the run does not conclude from what it could not see.
Look ==
    /\ run.pc = "idle"
    /\ \/ Abort
       \/ \E prometheus \in BOOLEAN, df \in SUBSET Claims :
            LET found == detect_stuck_argo_ops \cup detect_dark_nodes
                            \cup detect_chronic_crashloop \cup detect_stuck_container_creating
                            \cup detect_pvc_pressure(collect_pvc_usage(prometheus, df))
            IN  /\ (prometheus => df = {}) /\ ~Blind(prometheus, df)
                /\ (~prometheus => faults < MaxFaults)
                /\ faults' = IF prometheus THEN faults ELSE faults + 1
                /\ run' = [Idle EXCEPT
                     !.pc = "close", !.found = found, !.peers = peers,
                     !.unknown = currently_unknown_node_names,
                     !.todo = {k \in Keys : k[1] \in Churn \cup {ARGO} /\ Open(k)
                                            /\ \A f \in found : f.key # k}]
    /\ UNCHANGED <<fleet, class, cluster, issues, terminating, history>>

\* close_resolved_argo_issues, close_resolved_findings: the comment may fail, the
\* close must not.
CloseResolved ==
    /\ run.pc = "close"
    /\ \E k \in run.todo :
         \/ Abort /\ UNCHANGED issues
         \/ Did(k) /\ issues' = [issues EXCEPT ![k] = <<>>]
    /\ Keep /\ UNCHANGED history

\* Mutant: a comment that fails ends the run.
UpdateStrict ==
    /\ run.pc = "update"
    /\ \E f \in run.todo :
         IF Tracked(f.key).inst = f.id THEN Did(f) /\ UNCHANGED issues
         ELSE \/ Abort /\ UNCHANGED issues
              \/ /\ ~Tracked(f.key).capped
                 /\ Did(f) /\ issues' = [issues EXCEPT ![f.key][1].inst = f.id]
              \/ /\ Tracked(f.key).capped
                 /\ run' = [Idle EXCEPT !.pc = "done", !.exit = 2] /\ UNCHANGED <<faults, issues>>
    /\ Keep /\ UNCHANGED history

\* A churning workload on another pod: an informational comment, whose failure
\* does not end the run.  An issue that takes no more comments is closed, so that
\* the next run files another.  Reading the comments may fail.
Update ==
    /\ run.pc = "update"
    /\ \E f \in run.todo :
         IF Tracked(f.key).inst = f.id THEN Did(f) /\ UNCHANGED issues
         ELSE \/ Abort /\ UNCHANGED issues
              \/ /\ ~Tracked(f.key).capped
                 /\ Did(f) /\ issues' = [issues EXCEPT ![f.key][1].inst = f.id]
              \/ /\ ~Tracked(f.key).capped /\ faults < MaxFaults
                 /\ faults' = faults + 1 /\ run' = [run EXCEPT !.todo = @ \ {f}] /\ UNCHANGED issues
              \/ /\ Tracked(f.key).capped
                 /\ Did(f) /\ issues' = [issues EXCEPT ![f.key] = Tail(@)]
    /\ Keep /\ UNCHANGED history

\* dispatch_terminate_op, which names the application and not the operation.
dispatch_terminate_op(f) ==
    /\ terminating' = terminating \cup {f.key[2]}
    /\ terms' = [terms EXCEPT ![f.key[2]][f.id] = @ + 1]

\* Mutant: the marker in the issue is not looked for.
TerminateAgain ==
    /\ run.pc = "terminate"
    /\ \E f \in run.todo :
            /\ dispatch_terminate_op(f) /\ UNCHANGED <<spell, lost>>
            /\ Did(f) /\ issues' = [issues EXCEPT ![f.key][1].done = @ \cup {f.id}]
    /\ UNCHANGED <<fleet, class, cluster>>

\* A stuck operation whose issue is open: one terminate per operation, by the
\* marker that the comment after the dispatch leaves.
Terminate ==
    /\ run.pc = "terminate"
    /\ \E f \in run.todo :
         \/ f.id \in Tracked(f.key).done /\ Did(f) /\ UNCHANGED <<issues, terminating, history>>
         \/ f.id \notin Tracked(f.key).done /\ Abort /\ UNCHANGED <<issues, terminating, history>>
         \/ /\ f.id \notin Tracked(f.key).done
            /\ dispatch_terminate_op(f) /\ UNCHANGED spell
            /\ \/ Abort /\ UNCHANGED issues /\ lost' = lost \cup {<<f.key, f.id>>}
               \/ Did(f) /\ issues' = [issues EXCEPT ![f.key][1].done = @ \cup {f.id}] /\ UNCHANGED lost
    /\ UNCHANGED <<fleet, class, cluster>>

\* The issue of a node that is not Unknown any more is closed.
Recover ==
    /\ run.pc = "recover"
    /\ \E k \in run.todo :
         \/ Abort /\ UNCHANGED issues
         \/ Did(k) /\ issues' = [issues EXCEPT ![k] = <<>>]
    /\ Keep /\ UNCHANGED history

------------------------------------------------------------------------------
(* The ladder of a dark node                                               *)

\* Mutant: the ladder does not wait between two reboots.
decide_without_cooldown(n, age, ready, s) ==
    CASE s.escalated -> <<"none", s>>
      [] ~s.escalated /\ s.attempts < MaxAttempts ->
           <<"reboot", [s EXCEPT !.attempts = @ + 1, !.cool = 0, !.refused = NoReason]>>
      [] OTHER -> <<"none", s>>

\* Mutant: the attempt is not counted.
decide_uncounted(n, age, ready, s) ==
    IF s.escalated \/ s.cool < CooldownTicks THEN <<"none", s>>
    ELSE <<"reboot", [s EXCEPT !.cool = 0, !.refused = NoReason]>>

\* Mutant: either gate is enough for a reinstall.
decide_either_gate(n, age, ready, s) ==
    CASE s.escalated -> <<"none", s>>
      [] ~s.escalated /\ s.attempts < MaxAttempts /\ age < EscalateTicks ->
           IF s.cool < CooldownTicks THEN <<"none", s>>
           ELSE <<"reboot", [s EXCEPT !.attempts = @ + 1, !.cool = 0, !.refused = NoReason]>>
      [] OTHER -> <<"reinstall", [s EXCEPT !.escalated = TRUE, !.refused = NoReason]>>

\* What to do about node n, dark for age ticks beside ready other control-plane
\* nodes, when the ladder stands at s; and where it stands then.
decide_dark_node_escalation(n, age, ready, s) ==
    LET Refuse(action, reason) ==
            IF s.refused = reason THEN <<"none", s>> ELSE <<action, [s EXCEPT !.refused = reason]>>
    IN  CASE s.escalated -> <<"none", s>>
          [] ~s.escalated /\ s.attempts < MaxAttempts ->
               IF s.cool < CooldownTicks THEN <<"none", s>>
               ELSE <<"reboot", [s EXCEPT !.attempts = @ + 1, !.cool = 0, !.refused = NoReason]>>
          [] OTHER ->
               IF age < EscalateTicks THEN <<"none", s>>
               ELSE IF class[n] = "elastic" THEN Refuse("refuse-elastic", Elastic)
               ELSE IF class[n] = "voter" /\ ready < MinOther THEN Refuse("refuse-quorum", ready)
               ELSE <<"reinstall", [s EXCEPT !.escalated = TRUE, !.refused = NoReason]>>

\* _act_on_dark_node, on the issues is: dispatch, then record.
ActOnDarkNode(f, is) ==
    LET n == f.key[2]
        decided == decide_dark_node_escalation(n, f.age, run.peers, is[f.key][1].ladder)
        recorded == [is EXCEPT ![f.key][1].ladder = decided[2]]
        acted == spell' = [spell EXCEPT ![n].reboots = @ + (IF decided[1] = "reboot" THEN 1 ELSE 0)]
    IN  IF decided[1] = "none" THEN Did(f) /\ issues' = is /\ UNCHANGED <<spell, lost>>
        ELSE \/ Did(f) /\ issues' = recorded /\ acted /\ UNCHANGED lost
             \/ Abort /\ issues' = is /\ acted /\ lost' = lost \cup {<<f.key, 0>>}
             \/ Abort /\ issues' = is /\ UNCHANGED <<spell, lost>>

\* Mutant: the ladder is climbed only by the run that files the issue.
EscalateNot ==
    /\ run.pc = "escalate"
    /\ \E f \in run.todo : Did(f)
    /\ Keep /\ UNCHANGED <<issues, history>>

Escalate ==
    /\ run.pc = "escalate"
    /\ \E f \in run.todo :
         \/ Abort /\ UNCHANGED <<issues, spell, lost>>
         \/ ActOnDarkNode(f, issues)
    /\ Keep /\ UNCHANGED terms

------------------------------------------------------------------------------
(* Filing                                                                  *)

\* create_issue, with the body that build_issue_body gives it.
create_issue(f) ==
    [issues EXCEPT ![f.key] =
        <<Issue(IF Kind(f) = ARGO THEN {f.id} ELSE {}, IF Kind(f) \in Churn THEN f.id ELSE 0)>> \o @]

\* A stuck operation is terminated before its issue says so; the issue of a dark
\* node is followed by the first step of the ladder.
File ==
    /\ run.pc = "file"
    /\ \E f \in run.todo :
         \/ /\ Kind(f) = ARGO
            /\ dispatch_terminate_op(f) /\ UNCHANGED spell
            /\ \/ Did(f) /\ issues' = create_issue(f) /\ UNCHANGED lost
               \/ Abort /\ issues' = issues /\ lost' = lost \cup {<<f.key, f.id>>}
               \/ Abort /\ issues' = create_issue(f) /\ UNCHANGED lost
         \/ Abort /\ UNCHANGED <<issues, terminating, history>>
         \/ /\ Kind(f) # ARGO /\ UNCHANGED <<terminating, terms>>
            /\ \/ Abort /\ issues' = create_issue(f) /\ UNCHANGED <<spell, lost>>
               \/ Kind(f) # DARK /\ Did(f) /\ issues' = create_issue(f) /\ UNCHANGED <<spell, lost>>
               \/ Kind(f) = DARK /\ ActOnDarkNode(f, create_issue(f))
    /\ UNCHANGED <<fleet, class, cluster>>

------------------------------------------------------------------------------
(* The order of the run                                                    *)

\* Mutant: resolved issues are closed only by a run that has findings.
TurnToUpdate == /\ run.pc = "close" /\ (run.todo = {} \/ run.found = {})
                /\ run' = IF run.found = {} THEN [Idle EXCEPT !.pc = "done", !.unknown = run.unknown]
                          ELSE LET new == filter_new_findings(run.found)
                               IN  [run EXCEPT !.pc = "update", !.new = new, !.open = Total,
                                               !.todo = {f \in run.found \ new : Kind(f) \in Churn}]

\* main up to the duplicates: a run without findings ends here.
TurnFromClose ==
    /\ run.pc = "close" /\ run.todo = {}
    /\ run' = IF run.found = {} THEN [Idle EXCEPT !.pc = "done", !.unknown = run.unknown]
              ELSE LET new == filter_new_findings(run.found)
                   IN  [run EXCEPT !.pc = "update", !.new = new, !.open = Total,
                                   !.todo = {f \in run.found \ new : Kind(f) \in Churn}]

\* main from there on.
Turn ==
    /\ \/ TurnFromClose
       \/ /\ run.todo = {} /\ run.pc = "update"
          /\ run' = [run EXCEPT !.pc = "terminate", !.todo = {f \in Duplicates : Kind(f) = ARGO}]
       \/ /\ run.todo = {} /\ run.pc = "terminate"
          /\ run' = [run EXCEPT !.pc = "recover",
                                !.todo = {k \in Keys : k[1] = DARK /\ Open(k) /\ k[2] \notin run.unknown}]
       \/ /\ run.todo = {} /\ run.pc = "recover"
          /\ run' = [run EXCEPT !.pc = "escalate", !.todo = {f \in Duplicates : Kind(f) = DARK}]
       \/ run.todo = {} /\ run.pc = "escalate" /\ run' = [run EXCEPT !.pc = "file", !.todo = ToFile]
       \/ /\ run.todo = {} /\ run.pc = "file"
          /\ run' = [run EXCEPT !.pc = "done", !.exit = 1, !.new = {}, !.open = 0, !.peers = 0]
    /\ Keep /\ UNCHANGED <<issues, faults, history>>

Run == Look \/ CloseResolved \/ Update \/ Terminate \/ Recover \/ Escalate \/ File \/ Turn

------------------------------------------------------------------------------
(* The outside.  After Look the run does not read the cluster any more, so *)
(* that a change during the run is as good as one after it; only a node,   *)
(* whose spells the history counts, turns at any time.                     *)

Older(age, last) == IF age < 0 \/ age > last THEN age ELSE age + 1

\* The next run is due; meanwhile everything has grown older.
Tick ==
    /\ run.pc = "done"
    /\ run' = Idle
    /\ op' = [a \in Apps |-> [op[a] EXCEPT !.age = IF op[a].on THEN Older(@, RunningTicks) ELSE 0]]
    /\ node' = [n \in Nodes |-> Older(node[n], EscalateTicks - 1)]
    /\ pod' = [w \in Workloads |-> [pod[w] EXCEPT !.age = Older(@, PodTicks)]]
    /\ issues' = [k \in Keys |-> [i \in DOMAIN issues[k] |->
                    [issues[k][i] EXCEPT !.ladder.cool = Older(@, CooldownTicks - 1)]]]
    /\ UNCHANGED <<fleet, class, peers, full, terminating, faults, history>>

\* Argo starts an operation, or ends one.
ArgoSync(a) ==
    /\ run.pc = "done" /\ ARGO \in fleet
    /\ \/ op[a].on /\ op' = [op EXCEPT ![a].on = FALSE]
       \/ /\ ~op[a].on /\ op[a].id < MaxOps
          /\ op' = [op EXCEPT ![a] = [id |-> op[a].id + 1, on |-> TRUE, age |-> 0]]
    /\ UNCHANGED <<fleet, class, node, peers, pod, full, issues, terminating, run, faults, history>>

\* argo-terminate-op ends whatever operation runs by then, or fails.
TerminateOp(a) ==
    /\ run.pc = "done" /\ a \in terminating
    /\ terminating' = terminating \ {a}
    /\ op' \in {op, [op EXCEPT ![a].on = FALSE]}
    /\ UNCHANGED <<fleet, class, node, peers, pod, full, issues, run, faults, history>>

\* A kubelet stops posting, or is back, by itself or by what was dispatched.
NodeTurns(n) ==
    /\ DARK \in fleet
    /\ node' = [node EXCEPT ![n] = IF @ < 0 THEN 0 ELSE -1]
    /\ spell' = [spell EXCEPT ![n] = [reboots |-> 0, stale |-> node[n] < 0 /\ Open(<<DARK, n>>)]]
    /\ lost' = {l \in lost : l[1] # <<DARK, n>>}
    /\ UNCHANGED <<fleet, class, op, peers, pod, full, issues, terminating, run, faults, terms>>

PeerTurns ==
    /\ run.pc = "done" /\ \E n \in Nodes : class[n] = "voter"
    /\ peers' \in {MinOther - 1, MinOther} \ {peers}
    /\ UNCHANGED <<fleet, class, op, node, pod, full, issues, terminating, run, faults, history>>

\* A pod gets stuck, restarts too often, recovers, or is replaced.
PodTurns(w) ==
    /\ run.pc = "done" /\ CREATING \in fleet
    /\ \/ pod' \in {[pod EXCEPT ![w].state = s] : s \in {"ready", "backoff"} \ {pod[w].state}}
       \/ pod[w].state = "backoff" /\ ~pod[w].many /\ pod' = [pod EXCEPT ![w].many = TRUE]
       \/ /\ pod[w].id < MaxPods
          /\ pod' = [pod EXCEPT ![w] = [id |-> pod[w].id + 1, state |-> "creating", many |-> FALSE, age |-> 0]]
    /\ UNCHANGED <<fleet, class, op, node, peers, full, issues, terminating, run, faults, history>>

VolumeTurns(c) ==
    /\ run.pc = "done" /\ PVC \in fleet
    /\ full' = IF c \in full THEN full \ {c} ELSE full \cup {c}
    /\ UNCHANGED <<fleet, class, op, node, peers, pod, issues, terminating, run, faults, history>>

\* Between runs a human closes the issue of a volume that has room again, and
\* the comments on an issue of a churning workload reach GitHub's limit.
IssueTurns(k) ==
    /\ run.pc = "done" /\ Open(k)
    /\ \/ k[1] = PVC /\ k[2] \notin full /\ issues' = [issues EXCEPT ![k] = Tail(@)]
       \/ k[1] \in Churn /\ ~Tracked(k).capped /\ issues' = [issues EXCEPT ![k][1].capped = TRUE]
    /\ Keep /\ UNCHANGED <<run, faults, history>>

Outside ==
    \/ \E a \in Apps : ArgoSync(a) \/ TerminateOp(a)
    \/ \E n \in Nodes : NodeTurns(n)
    \/ PeerTurns
    \/ \E w \in Workloads : PodTurns(w)
    \/ \E c \in Claims : VolumeTurns(c)
    \/ \E k \in Keys : IssueTurns(k)

Next == Run \/ Tick \/ Outside

\* Runs are scheduled, and a run goes on until it ends.
Spec == Init /\ [][Next]_vars /\ WF_vars(Run) /\ WF_vars(Tick)

------------------------------------------------------------------------------
(* Properties                                                              *)

\* "One terminate per distinct operation, never a re-dispatch loop against the
\* same op" (main): also over failed terminates, closed and reopened issues and
\* runs that ended half way, unless the record of a dispatch itself was lost.
TerminatedOnce ==
    \A a \in Apps, o \in 1..MaxOps : terms[a][o] > 1 => <<<<ARGO, a>>, o>> \in lost

\* "Reinstall only fires after attempts are exhausted AND the node has been dark
\* for escalate_after_minutes": with an issue of this spell, not an older one, the
\* disk is wiped only after that many reboots in the spell, and never of a node
\* whose loss would cost the quorum as the run saw it.
ReinstallEarned ==
    [][\A n \in Nodes :
         LET k == <<DARK, n>>
         IN  (/\ Open(k) /\ Len(issues'[k]) = Len(issues[k])
              /\ issues'[k][1].ladder.escalated /\ ~Tracked(k).ladder.escalated) =>
               /\ spell[n].stale \/ spell[n].reboots >= MaxAttempts \/ node[n] < EscalateTicks
               /\ \E f \in run.found : f.key = k /\ f.age >= EscalateTicks
               /\ class[n] = "control-plane" \/ (class[n] = "voter" /\ run.peers >= MinOther)]_vars

\* "Reboot is capped at max_reboot_attempts" (decide_dark_node_escalation): so are
\* the reboots of one dark spell, unless the record of one was lost; and two reboots
\* that are both on record are a cooldown apart.
RebootsRationed ==
    /\ [](\A n \in Nodes : spell[n].reboots > MaxAttempts => <<<<DARK, n>>, 0>> \in lost)
    /\ [][\A n \in Nodes :
             LET k == <<DARK, n>>
             IN  (Open(k) /\ issues'[k] # <<>> /\ issues'[k][1].ladder.attempts > Tracked(k).ladder.attempts)
                   => Tracked(k).ladder.cool >= CooldownTicks]_vars

\* A run that ends without an error leaves no issue open of an application or
\* workload it did not find in trouble, so that "the next wedge of this app files
\* and acts as a fresh incident" (close_resolved_argo_issues).
ResolvedClosed ==
    run.pc = "done" /\ run.exit # 2 =>
        \A k \in Keys : k[1] \in Churn \cup {ARGO} /\ Open(k) =>
            (\E f \in run.found : f.key = k)

\* A wedged operation is acted on, however many issues are open and whatever
\* becomes of the comments on others: it ends, or a terminate is dispatched for it.
StuckOpActedOn ==
    \A a \in Apps, o \in 1..MaxOps :
        (op[a].id = o /\ op[a].on /\ op[a].age > RunningTicks) ~> (terms[a][o] > 0 \/ op[a].id # o \/ ~op[a].on)

\* A node that stays dark gets to the end of the ladder: a reinstall, or a refusal
\* that is on record.
LadderClimbed ==
    \A n \in Nodes :
        (node[n] >= 0) ~>
            \/ node[n] < 0
            \/ Open(<<DARK, n>>) /\ (Tracked(<<DARK, n>>).ladder.escalated
                                       \/ Tracked(<<DARK, n>>).ladder.refused # NoReason)

\* "Once the node is no longer Ready=Unknown at all, the next run closes the
\* tracked issue automatically" (docs/runbooks/dark-node-reboot.md).
RecoveredClosed ==
    run.pc = "done" /\ run.exit # 2 =>
        \A n \in Nodes : Open(<<DARK, n>>) => n \in run.unknown
=============================================================================

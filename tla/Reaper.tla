------------------------------- MODULE Reaper -------------------------------
(***************************************************************************)
(* The billing-aware reaper: cluster-autoscaler/contabo-externalgrpc,      *)
(* internal/reaper and cmd/reaper.  A CronJob runs one pass at a time      *)
(* (concurrencyPolicy Forbid).  A pass lists the elastic instances once,   *)
(* then takes them one by one: near their renewal and idle, their node is  *)
(* cordoned, drained and the instance cancelled; then it sweeps Node       *)
(* objects whose instance is gone.  Each API call is a step of its own:    *)
(* the scheduler, the provider, the kubelets and Contabo run between any   *)
(* two.                                                                    *)
(***************************************************************************)
EXTENDS Integers, FiniteSets

CONSTANTS
    Names,       \* instances; the node of an instance has its name
    Pods,        \* pods that can be bound to a node
    Kind,        \* Pods -> "work", "balloon" (overprovisioning), "mirror", "daemon"
    CancelForms, \* how a cancelDate comes back: "parsed", or "raw" (unparsable)
    MaxFaults    \* bound on failed or lost API calls and killed passes

ASSUME KindAssumption == Kind \in [Pods -> {"work", "balloon", "mirror", "daemon"}]
ASSUME FormsAssumption == CancelForms \subseteq {"parsed", "raw"}
ASSUME FaultsAssumption == MaxFaults \in Nat

VARIABLES
    inst,    \* Contabo's instances: status, createdDate parses, elastic tag, cancelDate
    node,    \* the cluster's Node objects: readiness, spec.unschedulable
    bound,   \* Pods -> the node a pod is bound to, or Unbound
    near,    \* now is within the release window of the next renewal
    pass,    \* the local variables of the running pass
    faults,  \* faults that may still happen
    racers,  \* history: pods bound between a node's idle check and its cordon
    fresh    \* history: instances tagged since the running sweep listed them

vars == <<inst, node, bound, near, pass, faults, racers, fresh>>
world == <<inst, node, bound, near>>
history == <<racers, fresh>>

\* A pod not yet bound has an empty spec.nodeName, which names no node.
Unbound == "unbound"
ASSUME UnboundAssumption == Unbound \notin Names

NoInstance == [st |-> "none", dated |-> FALSE, tagged |-> FALSE, cancel |-> "none"]
NoNode == [st |-> "none", cordoned |-> FALSE]

\* One pass: what it has listed, the node in hand, and the sweep's two lists.
IdlePass == [pc |-> "idle", todo |-> {}, keep |-> {}, near |-> FALSE, cur |-> {},
             wasCordoned |-> FALSE, evict |-> {}, known |-> {}, zombies |-> {}]

Up(n) == inst[n].st = "up"
On(n) == {p \in Pods : bound[p] = n}
Work(n) == {p \in On(n) : Kind[p] = "work"}
InHand(n) == pass.cur = {n}

ListByTag == {n \in Names : Up(n) /\ inst[n].tagged}

isDaemonSetPod(p) == Kind[p] = "daemon"
isIdleIgnorable(p) == Kind[p] \in {"daemon", "mirror", "balloon"}
isNodeIdle(n) == \A p \in On(n) : isIdleIgnorable(p)

\* What Run and decideByRenewal keep whatever the date: the listing shows a
\* parsed cancelDate, or no createdDate.
keepAnyway(n) == inst[n].cancel = "parsed" \/ ~inst[n].dated
Decide(n) == n \notin pass.keep /\ pass.near

Init ==
    /\ inst = [n \in Names |-> NoInstance]
    /\ node = [n \in Names |-> NoNode]
    /\ bound = [p \in Pods |-> Unbound]
    /\ near = FALSE
    /\ pass = IdlePass
    /\ faults = MaxFaults
    /\ racers = {} /\ fresh = {}

------------------------------------------------------------------------------
(* Run: the listing and the decision on each instance                      *)

\* A failed call, an answer that is lost, a killed pod: at most MaxFaults.
Fault == faults > 0 /\ faults' = faults - 1
NoFault == UNCHANGED faults

GoTo(pc) == [pass EXCEPT !.pc = pc]

\* The instance in hand is dealt with (continue).
NextInstance == [pass EXCEPT !.pc = "next", !.cur = {}, !.wasCordoned = FALSE, !.evict = {}]

\* The elastic instances are listed and the clock is read, once for the pass.
StartPass ==
    /\ pass.pc = "idle"
    /\ pass' = [IdlePass EXCEPT !.pc = "next", !.todo = ListByTag, !.near = near,
                              !.keep = {n \in ListByTag : keepAnyway(n)}]
    /\ NoFault /\ UNCHANGED <<world, history>>

\* Already cancelled, or not near its renewal, or of unknown age: kept.
Keep(n) ==
    /\ pass.pc = "next" /\ n \in pass.todo
    /\ ~Decide(n)
    /\ pass' = [pass EXCEPT !.todo = @ \ {n}]
    /\ NoFault /\ UNCHANGED <<world, history>>

\* The node is read: missing or not Ready, the instance is kept.
GetNode(n) ==
    /\ pass.pc = "next" /\ n \in pass.todo
    /\ Decide(n)
    /\ pass' = IF node[n].st # "ready" THEN [pass EXCEPT !.todo = @ \ {n}]
               ELSE [pass EXCEPT !.todo = @ \ {n}, !.pc = "idlecheck", !.cur = {n},
                                 !.wasCordoned = node[n].cordoned]
    /\ NoFault /\ UNCHANGED <<world, history>>

GetNodeFails(n) ==
    /\ pass.pc = "next" /\ n \in pass.todo
    /\ Decide(n)
    /\ pass' = [pass EXCEPT !.todo = @ \ {n}]
    /\ Fault /\ UNCHANGED <<world, history>>

\* The pods of the node are listed: a busy node is kept.
CheckIdle ==
    /\ pass.pc = "idlecheck"
    /\ \E n \in pass.cur : pass' = IF isNodeIdle(n) THEN GoTo("cordon") ELSE NextInstance
    /\ NoFault /\ UNCHANGED <<world, history>>

CheckIdleFails ==
    /\ pass.pc = "idlecheck"
    /\ pass' = NextInstance
    /\ Fault /\ UNCHANGED <<world, history>>

------------------------------------------------------------------------------
(* release: cordon, evictAll, Delete                                       *)

\* Mutant: a failed cordon does not stop the release.
CordonFailsQuietly ==
    /\ pass.pc = "cordon" /\ ~pass.wasCordoned
    /\ pass' = GoTo("list")
    /\ Fault /\ UNCHANGED <<world, history>>

\* Mutant: a node that is cordoned already is left alone, not drained again.
CordonOnce ==
    /\ pass.pc = "cordon"
    /\ \E n \in pass.cur :
         /\ node' = [node EXCEPT ![n].cordoned = node[n].st # "none"]
         /\ pass' = IF pass.wasCordoned \/ node[n].st = "none" THEN NextInstance
                    ELSE GoTo("list")
    /\ NoFault /\ UNCHANGED <<inst, bound, near, history>>

\* The node is patched unschedulable, unless it was when it was read.  It can
\* be gone by now (NotFound), which is an error.
cordon ==
    /\ pass.pc = "cordon"
    /\ \E n \in pass.cur :
         /\ node' = [node EXCEPT ![n].cordoned = node[n].st # "none"]
         /\ pass' = IF node[n].st = "none" /\ ~pass.wasCordoned THEN NextInstance
                    ELSE GoTo("list")
    /\ NoFault /\ UNCHANGED <<inst, bound, near, history>>

cordonFails ==
    /\ pass.pc = "cordon" /\ ~pass.wasCordoned
    /\ pass' = NextInstance
    /\ Fault /\ UNCHANGED <<world, history>>

\* evictAll lists the pods again, after the cordon ...
evictAll ==
    /\ pass.pc = "list"
    /\ \E n \in pass.cur :
         pass' = [pass EXCEPT !.pc = "evict", !.evict = {p \in On(n) : ~isDaemonSetPod(p)}]
    /\ NoFault /\ UNCHANGED <<world, history>>

\* ... and a failure to list them is only logged.
evictAllFails ==
    /\ pass.pc = "list"
    /\ pass' = GoTo("cancel")
    /\ Fault /\ UNCHANGED <<world, history>>

\* One eviction: done; or refused by a disruption budget, or timed out, which
\* is remembered and logged (the pod stays and the release goes on).
Evict(p) ==
    /\ pass.pc = "evict" /\ p \in pass.evict
    /\ pass' = [pass EXCEPT !.evict = @ \ {p}]
    /\ \/ \E n \in pass.cur :
            bound' = IF bound[p] = n THEN [bound EXCEPT ![p] = Unbound] ELSE bound
       \/ UNCHANGED bound
    /\ NoFault /\ UNCHANGED <<inst, node, near, history>>

EvictionsDone ==
    /\ pass.pc = "evict" /\ pass.evict = {}
    /\ pass' = GoTo("cancel")
    /\ NoFault /\ UNCHANGED <<world, history>>

Cancelling(n) ==
    \E form \in CancelForms :
        inst' = [inst EXCEPT ![n].cancel = IF @ = "none" THEN form ELSE @]

\* The instance is cancelled.  Contabo has it end with its billing period.
Delete ==
    /\ pass.pc = "cancel"
    /\ \E n \in pass.cur : Up(n) /\ Cancelling(n)
    /\ pass' = NextInstance
    /\ NoFault /\ UNCHANGED <<node, bound, near, history>>

\* Mutant: the attempts are not counted; an instance that is gone is retried.
DeleteRetries ==
    /\ pass.pc = "cancel"
    /\ \E n \in pass.cur : Up(n) /\ Fault /\ pass' = NextInstance /\ UNCHANGED inst
    /\ UNCHANGED <<node, bound, near, history>>

\* Every attempt failed, or the answer of one that took effect was lost; an
\* instance that is gone answers 404 until the attempts are used up.
DeleteFails ==
    /\ pass.pc = "cancel"
    /\ \E n \in pass.cur :
         \/ Fault /\ UNCHANGED inst
         \/ Fault /\ Up(n) /\ Cancelling(n)
         \/ NoFault /\ ~Up(n) /\ UNCHANGED inst
    /\ pass' = NextInstance
    /\ UNCHANGED <<node, bound, near, history>>

------------------------------------------------------------------------------
(* SweepOrphans                                                            *)

LoopEnds ==
    /\ pass.pc = "next" /\ pass.todo = {}
    /\ pass' = GoTo("sweep")
    /\ NoFault /\ UNCHANGED <<world, history>>

SweepOrphans ==
    /\ pass.pc = "sweep"
    /\ pass' = [pass EXCEPT !.pc = "nodes", !.known = ListByTag]
    /\ fresh' = {}
    /\ NoFault /\ UNCHANGED <<world, racers>>

\* Mutant: a node that is not Ready counts as a zombie whatever Contabo lists.
ListZombiesByReadiness ==
    /\ pass.pc = "nodes"
    /\ pass' = [pass EXCEPT !.pc = "delete", !.zombies = {n \in Names : node[n].st = "notready"}]
    /\ NoFault /\ UNCHANGED <<world, history>>

\* The nodes are listed after the instances.
ListZombies ==
    /\ pass.pc = "nodes"
    /\ pass' = [pass EXCEPT !.pc = "delete",
                            !.zombies = {n \in Names \ pass.known : node[n].st = "notready"}]
    /\ NoFault /\ UNCHANGED <<world, history>>

\* Either listing fails: the sweep is given up, which is only logged.
SweepFails ==
    /\ pass.pc \in {"sweep", "nodes"}
    /\ pass' = IdlePass
    /\ Fault /\ UNCHANGED <<world, history>>

\* The node object is deleted, and the pods bound to it with it.
DeleteNode(n) ==
    /\ pass.pc = "delete" /\ n \in pass.zombies
    /\ pass' = [pass EXCEPT !.zombies = @ \ {n}]
    /\ \/ NoFault /\ node' = [node EXCEPT ![n] = NoNode]
                  /\ bound' = [p \in Pods |-> IF bound[p] = n THEN Unbound ELSE bound[p]]
       \/ Fault /\ UNCHANGED <<node, bound>>
    /\ UNCHANGED <<inst, near, history>>

PassEnds ==
    /\ pass.pc = "delete" /\ pass.zombies = {}
    /\ pass' = IdlePass
    /\ NoFault /\ UNCHANGED <<world, history>>

\* activeDeadlineSeconds, the ten-minute context or an eviction ends the pass.
Killed ==
    /\ pass.pc # "idle"
    /\ pass' = IdlePass
    /\ Fault /\ UNCHANGED <<world, history>>

------------------------------------------------------------------------------
(* The provider, the kubelets, the scheduler, Contabo and the calendar     *)

\* The provider orders an instance and tags it; tagging can come much later.
Ordered(n) ==
    /\ inst[n].st = "none"
    /\ \E dated \in BOOLEAN : inst' = [inst EXCEPT ![n].st = "up", ![n].dated = dated]
    /\ UNCHANGED <<node, bound, near, pass, faults, history>>

Tagged(n) ==
    /\ Up(n) /\ ~inst[n].tagged
    /\ inst' = [inst EXCEPT ![n].tagged = TRUE]
    /\ fresh' = fresh \cup {n}
    /\ UNCHANGED <<node, bound, near, pass, faults, racers>>

\* The provider (NodeGroupDeleteNodes) or an operator cancels the instance.
CancelledElsewhere(n) ==
    /\ Up(n) /\ inst[n].cancel = "none"
    /\ Cancelling(n)
    /\ UNCHANGED <<node, bound, near, pass, faults, history>>

\* A cancelled instance ends with its billing period; its node stays behind.
Terminated(n) ==
    /\ Up(n) /\ inst[n].cancel # "none"
    /\ inst' = [inst EXCEPT ![n].st = "gone"]
    /\ UNCHANGED <<node, bound, near, pass, faults, history>>

\* A node registers not Ready, becomes Ready, and may lose it: a reboot, or
\* the end of its instance.
Kubelet(n) ==
    /\ Up(n) \/ node[n].st = "ready"
    /\ node' = [node EXCEPT ![n].st =
          CASE @ = "none" -> "notready" [] @ = "notready" -> "ready" [] OTHER -> "notready"]
    /\ UNCHANGED <<inst, bound, near, pass, faults, history>>

Schedule(p, n) ==
    /\ bound[p] = Unbound
    /\ node[n].st = "ready" /\ (isDaemonSetPod(p) \/ ~node[n].cordoned)
    /\ bound' = [bound EXCEPT ![p] = n]
    /\ racers' = IF InHand(n) /\ pass.pc = "cordon" THEN racers \cup {p} ELSE racers \ {p}
    /\ UNCHANGED <<inst, node, near, pass, faults, fresh>>

Finished(p) ==
    /\ bound[p] # Unbound
    /\ bound' = [bound EXCEPT ![p] = Unbound]
    /\ UNCHANGED <<inst, node, near, pass, faults, history>>

\* The release window opens, and ends with the renewal.  A pass is bounded by
\* ten minutes and starts on the hour: it does not outlast a renewal.
Calendar ==
    /\ near => pass.pc = "idle"
    /\ near' = ~near
    /\ UNCHANGED <<inst, node, bound, pass, faults, history>>

------------------------------------------------------------------------------

PassStep ==
    \/ \E n \in Names : Keep(n) \/ GetNode(n) \/ GetNodeFails(n)
    \/ CheckIdle \/ CheckIdleFails \/ cordon \/ cordonFails
    \/ evictAll \/ evictAllFails \/ (\E p \in Pods : Evict(p)) \/ EvictionsDone
    \/ Delete \/ DeleteFails
    \/ LoopEnds \/ SweepOrphans \/ ListZombies \/ SweepFails
    \/ (\E n \in Names : DeleteNode(n)) \/ PassEnds \/ Killed

EnvStep ==
    \/ \E n \in Names :
         \/ Ordered(n) \/ Tagged(n) \/ CancelledElsewhere(n)
         \/ Terminated(n) \/ Kubelet(n)
    \/ \E p \in Pods : Finished(p) \/ \E n \in Names : Schedule(p, n)
    \/ Calendar

Next == StartPass \/ PassStep \/ EnvStep

Spec == Init /\ [][Next]_vars

\* The CronJob starts passes for ever, and a pass goes on: every call it makes
\* is bounded by the context of the pass.
FairSpec == Spec /\ WF_vars(StartPass) /\ WF_vars(PassStep)

------------------------------------------------------------------------------
(* Properties                                                              *)

\* A pod that a release has to evict, or that goes down with the instance,
\* came in between the idle check and the cordon: no workload that was on the
\* node when the pass looked at it is ever disturbed.
OnlyRacersDisturbed ==
    \A n \in Names : InHand(n) /\ pass.pc \in {"cordon", "list", "evict", "cancel"} =>
        Work(n) \subseteq racers

\* The sweep deletes the node of no instance that was up and tagged when the
\* sweep listed the instances, whatever reboots or joins meanwhile.
ZombiesAreGone ==
    \A n \in pass.zombies : n \in ListByTag => n \in fresh

Releasable(n) ==
    /\ near /\ n \in ListByTag /\ inst[n].dated /\ inst[n].cancel = "none"
    /\ node[n].st = "ready" /\ isNodeIdle(n)

\* A release that a fault cut short, the node cordoned and the instance not
\* cancelled, is taken up again (Run, release): no instance stays near its
\* renewal, Ready and idle, with its tag, and uncancelled.
IdleReleased == \A n \in Names : ~<>[]Releasable(n)

\* Every pass of Run comes to its end, whatever fails in it.
PassesEnd == (pass.pc # "idle") ~> (pass.pc = "idle")
=============================================================================

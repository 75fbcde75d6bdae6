----------------------------- MODULE ReaperProofs -----------------------------
(***************************************************************************)
(* Proofs about Reaper, for any instances and pods and any number of       *)
(* failed calls and killed passes.                                         *)
(***************************************************************************)
EXTENDS Reaper, TLAPS

Instances == [st : {"none", "up", "gone"}, dated : BOOLEAN, tagged : BOOLEAN,
              cancel : {"none"} \cup CancelForms]
NodeObjects == [st : {"none", "notready", "ready"}, cordoned : BOOLEAN]
Pcs == {"idle", "next", "idlecheck", "cordon", "list", "evict", "cancel", "sweep", "nodes", "delete"}
Passes == [pc : Pcs, todo : SUBSET Names, keep : SUBSET Names, near : BOOLEAN, cur : SUBSET Names,
           wasCordoned : BOOLEAN, evict : SUBSET Pods, known : SUBSET Names, zombies : SUBSET Names]

TypeOK ==
    /\ inst \in [Names -> Instances]
    /\ node \in [Names -> NodeObjects]
    /\ bound \in [Pods -> Names \cup {Unbound}]
    /\ near \in BOOLEAN
    /\ pass \in Passes
    /\ faults \in Nat
    /\ racers \subseteq Pods /\ fresh \subseteq Names

------------------------------------------------------------------------------
(* The inductive invariant                                                 *)

Releasing == {"cordon", "list", "evict", "cancel"}

\* A pass that looks at a node has one in hand, whose object stays; from the second
\* listing of its pods on it is cordoned, so that nothing but daemons comes in.
HandHeld ==
    pass.pc \in Releasing \cup {"idlecheck"} =>
        \E n \in Names : /\ pass.cur = {n} /\ node[n].st # "none"
                         /\ pass.pc \in {"list", "evict", "cancel"} => node[n].cordoned

\* What the sweep does not know of has been tagged since it listed the instances, or is
\* not there; and an instance that was not ordered has no tag.
SweepKnows ==
    /\ \A n \in Names : inst[n].tagged => inst[n].st # "none"
    /\ pass.pc \in {"nodes", "delete"} => \A n \in ListByTag \ pass.known : n \in fresh
    /\ pass.pc = "delete" => pass.zombies \cap pass.known = {}
    /\ pass.pc # "delete" => pass.zombies = {}

IInv == TypeOK /\ HandHeld /\ OnlyRacersDisturbed /\ SweepKnows

------------------------------------------------------------------------------
(* The records                                                             *)

LEMMA Records ==
    /\ IdlePass \in Passes /\ NoInstance \in Instances /\ NoNode \in NodeObjects
    /\ IdlePass.pc = "idle" /\ IdlePass.zombies = {}
    /\ NoInstance.st = "none" /\ NoInstance.tagged = FALSE
    /\ NoNode.st = "none" /\ NoNode.cordoned = FALSE
  BY DEF IdlePass, Passes, Pcs, NoInstance, Instances, NoNode, NodeObjects

Held == Releasing \cup {"idlecheck"}
Sweeping == {"nodes", "delete"}

\* A step that changes the pass alone, and comes no nearer to a release.
LEMMA PassMoves ==
    ASSUME IInv, UNCHANGED <<world, history>>, pass' \in Passes, faults' \in Nat,
           pass'.pc \in Held => /\ pass.pc \in Held /\ pass'.cur = pass.cur
                                /\ pass'.pc \in Releasing => pass.pc \in Releasing
                                /\ pass'.pc \in {"list", "evict", "cancel"} => pass.pc \in {"list", "evict", "cancel"},
           pass'.pc \in Sweeping => pass.pc \in Sweeping /\ pass'.known = pass.known,
           pass'.pc = "delete" => pass.pc = "delete" /\ pass'.zombies \subseteq pass.zombies,
           pass'.pc # "delete" => pass'.zombies = {}
    PROVE  IInv'
  <1>1. TypeOK'
    BY DEF IInv, TypeOK, world, history
  <1>2. HandHeld'
    BY DEF IInv, HandHeld, Held, Releasing, world
  <1>3. OnlyRacersDisturbed'
    BY DEF IInv, OnlyRacersDisturbed, InHand, Work, On, Held, Releasing, world, history
  <1>4. SweepKnows'
    BY DEF IInv, SweepKnows, ListByTag, Up, Sweeping, world, history
  <1> QED
    BY <1>1, <1>2, <1>3, <1>4 DEF IInv

\* The records a step of the pass writes.
LEMMA PassFields ==
    ASSUME pass \in Passes
    PROVE  /\ \A pc \in Pcs : /\ GoTo(pc) \in Passes /\ GoTo(pc).pc = pc /\ GoTo(pc).cur = pass.cur
                              /\ GoTo(pc).known = pass.known /\ GoTo(pc).zombies = pass.zombies
           /\ NextInstance \in Passes /\ NextInstance.pc = "next" /\ NextInstance.zombies = pass.zombies
           /\ \A n \in Names : LET w == [pass EXCEPT !.todo = @ \ {n}]
                               IN  w \in Passes /\ w.pc = pass.pc /\ w.zombies = pass.zombies
  <1>1. ASSUME NEW pc \in Pcs
        PROVE  /\ GoTo(pc) \in Passes /\ GoTo(pc).pc = pc /\ GoTo(pc).cur = pass.cur
               /\ GoTo(pc).known = pass.known /\ GoTo(pc).zombies = pass.zombies
    BY DEF GoTo, Passes
  <1>2. NextInstance \in Passes /\ NextInstance.pc = "next" /\ NextInstance.zombies = pass.zombies
    BY DEF NextInstance, Passes, Pcs
  <1>3. ASSUME NEW n \in Names
        PROVE  LET w == [pass EXCEPT !.todo = @ \ {n}]
               IN  w \in Passes /\ w.pc = pass.pc /\ w.zombies = pass.zombies
    BY DEF Passes
  <1> QED
    BY <1>1, <1>2, <1>3

\* Faults are counted down to zero.
LEMMA FaultCounts ==
    ASSUME IInv, Fault \/ NoFault
    PROVE  faults \in Nat /\ faults' \in Nat
  BY DEF IInv, TypeOK, Fault, NoFault

\* The phases, for the case distinctions.
LEMMA Phases ==
    /\ Pcs = {"idle", "next", "idlecheck", "cordon", "list", "evict", "cancel", "sweep", "nodes", "delete"}
    /\ Held = {"idlecheck", "cordon", "list", "evict", "cancel"}
    /\ Releasing = {"cordon", "list", "evict", "cancel"}
    /\ Sweeping = {"nodes", "delete"}
  BY DEF Pcs, Held, Releasing, Sweeping

------------------------------------------------------------------------------
(* The steps of a pass                                                     *)

LEMMA QuietSteps ==
    ASSUME IInv,
           \/ StartPass \/ CheckIdleFails \/ cordonFails \/ evictAll \/ evictAllFails \/ EvictionsDone
           \/ LoopEnds \/ SweepFails \/ PassEnds \/ Killed
           \/ \E n \in Names : Keep(n) \/ GetNodeFails(n)
    PROVE  IInv'
  <1>1. pass \in Passes /\ pass.zombies \in SUBSET Names /\ (pass.pc # "delete" => pass.zombies = {}) /\ faults \in Nat
    BY DEF IInv, TypeOK, SweepKnows, Passes
  <1>2. UNCHANGED <<world, history>> /\ faults' \in Nat
    <2>1. UNCHANGED <<world, history>> /\ (Fault \/ NoFault)
      BY DEF StartPass, CheckIdleFails, cordonFails, evictAll, evictAllFails, EvictionsDone,
             LoopEnds, SweepFails, PassEnds, Killed, Keep, GetNodeFails
    <2> QED
      BY <2>1, FaultCounts
  <1>3. CASE StartPass
    <2>1. ListByTag \in SUBSET Names /\ {n \in ListByTag : keepAnyway(n)} \in SUBSET Names /\ near \in BOOLEAN
      BY DEF ListByTag, IInv, TypeOK
    <2>2. ASSUME NEW w \in Passes, NEW S \in SUBSET Names, NEW K \in SUBSET Names, w.zombies = {}
          PROVE  LET v == [w EXCEPT !.pc = "next", !.todo = S, !.near = near, !.keep = K]
                 IN  v \in Passes /\ v.pc = "next" /\ v.zombies = {}
      BY <2>1, <2>2 DEF Passes, Pcs
    <2>3. pass' \in Passes /\ pass'.pc = "next" /\ pass'.zombies = {}
      BY <1>3, <2>1, <2>2, Records DEF StartPass
    <2> QED
      BY <1>2, <2>3, PassMoves, Phases
  <1>4. CASE CheckIdleFails \/ cordonFails
    <2>1. pass' = NextInstance /\ pass.pc # "delete"
      BY <1>4 DEF CheckIdleFails, cordonFails
    <2> QED
      BY <1>1, <1>2, <2>1, PassFields, PassMoves, Phases
  <1>5. CASE evictAll
    <2>1. PICK n \in pass.cur : pass' = [pass EXCEPT !.pc = "evict", !.evict = {p \in On(n) : ~isDaemonSetPod(p)}]
      BY <1>5 DEF evictAll
    <2>2. pass.pc = "list" /\ {p \in On(n) : ~isDaemonSetPod(p)} \in SUBSET Pods
      BY <1>5 DEF evictAll, On
    <2>3. pass' \in Passes /\ pass'.pc = "evict" /\ pass'.zombies = pass.zombies /\ pass'.cur = pass.cur
      BY <1>1, <2>1, <2>2 DEF Passes, Pcs
    <2> QED
      BY <1>1, <1>2, <2>2, <2>3, PassMoves, Phases
  <1>6. CASE evictAllFails \/ EvictionsDone
    <2>1. pass' = GoTo("cancel") /\ pass.pc \in {"list", "evict"}
      BY <1>6 DEF evictAllFails, EvictionsDone
    <2> QED
      BY <1>1, <1>2, <2>1, PassFields, PassMoves, Phases
  <1>7. CASE LoopEnds
    <2>1. pass' = GoTo("sweep") /\ pass.pc = "next"
      BY <1>7 DEF LoopEnds
    <2> QED
      BY <1>1, <1>2, <2>1, PassFields, PassMoves, Phases
  <1>8. CASE SweepFails \/ PassEnds \/ Killed
    <2>1. pass' = IdlePass
      BY <1>8 DEF SweepFails, PassEnds, Killed
    <2> QED
      BY <1>1, <1>2, <2>1, Records, PassMoves, Phases
  <1>9. CASE \E n \in Names : Keep(n) \/ GetNodeFails(n)
    <2>1. PICK n \in Names : pass' = [pass EXCEPT !.todo = @ \ {n}] /\ pass.pc = "next"
      BY <1>9 DEF Keep, GetNodeFails
    <2> QED
      BY <1>1, <1>2, <2>1, PassFields, PassMoves, Phases
  <1> QED
    BY <1>3, <1>4, <1>5, <1>6, <1>7, <1>8, <1>9

\* A Ready node is taken in hand.
LEMMA GetNodeStep ==
    ASSUME IInv, NEW n \in Names, GetNode(n)
    PROVE  IInv'
  <1>1. pass \in Passes /\ pass.pc = "next" /\ pass.zombies = {} /\ UNCHANGED <<world, history, faults>>
    BY DEF GetNode, IInv, TypeOK, SweepKnows, NoFault
  <1>2. faults' \in Nat
    BY <1>1 DEF IInv, TypeOK
  <1>3. CASE node[n].st # "ready"
    <2>1. pass' = [pass EXCEPT !.todo = @ \ {n}]
      BY <1>3 DEF GetNode
    <2> QED
      BY <1>1, <1>2, <2>1, PassFields, PassMoves, Phases
  <1>4. CASE node[n].st = "ready"
    <2>1. pass' = [pass EXCEPT !.todo = @ \ {n}, !.pc = "idlecheck", !.cur = {n}, !.wasCordoned = node[n].cordoned]
      BY <1>4 DEF GetNode
    <2>2. node[n].cordoned \in BOOLEAN
      BY DEF IInv, TypeOK, NodeObjects
    <2>3. pass' \in Passes /\ pass'.pc = "idlecheck" /\ pass'.cur = {n} /\ pass'.zombies = {}
      <3>1. ASSUME NEW b \in BOOLEAN
            PROVE  LET w == [pass EXCEPT !.todo = @ \ {n}, !.pc = "idlecheck", !.cur = {n}, !.wasCordoned = b]
                   IN  w \in Passes /\ w.pc = "idlecheck" /\ w.cur = {n} /\ w.zombies = {}
        BY <1>1 DEF Passes, Pcs
      <3> QED
        BY <2>1, <2>2, <3>1
    <2>4. TypeOK'
      BY <1>1, <2>3 DEF IInv, TypeOK, world, history
    <2>5. HandHeld'
      BY <1>1, <1>4, <2>3 DEF HandHeld, world
    <2>6. OnlyRacersDisturbed'
      BY <2>3 DEF OnlyRacersDisturbed
    <2>7. SweepKnows'
      BY <1>1, <2>3 DEF IInv, SweepKnows, ListByTag, Up, world, history
    <2> QED
      BY <2>4, <2>5, <2>6, <2>7 DEF IInv
  <1> QED
    BY <1>3, <1>4

\* An idle node has no workload, so that nothing but a racer is there afterwards.
LEMMA CheckIdleStep ==
    ASSUME IInv, CheckIdle
    PROVE  IInv'
  <1>1. pass \in Passes /\ pass.pc = "idlecheck" /\ pass.zombies = {} /\ UNCHANGED <<world, history, faults>>
    BY DEF CheckIdle, IInv, TypeOK, SweepKnows, NoFault
  <1>2. faults' \in Nat
    BY <1>1 DEF IInv, TypeOK
  <1>3. PICK n \in pass.cur : pass' = IF isNodeIdle(n) THEN GoTo("cordon") ELSE NextInstance
    BY DEF CheckIdle
  <1>4. CASE ~isNodeIdle(n)
    BY <1>1, <1>2, <1>3, <1>4, PassFields, PassMoves, Phases
  <1>5. CASE isNodeIdle(n)
    <2>1. pass' \in Passes /\ pass'.pc = "cordon" /\ pass'.cur = pass.cur /\ pass'.zombies = {}
      BY <1>1, <1>3, <1>5, PassFields, Phases
    <2>2. pass.cur = {n} /\ n \in Names /\ node[n].st # "none"
      BY <1>1, <1>3 DEF IInv, HandHeld
    <2>3. Work(n) = {}
      BY <1>5 DEF Work, isNodeIdle, isIdleIgnorable
    <2>4. TypeOK'
      BY <1>1, <2>1 DEF IInv, TypeOK, world, history
    <2>5. HandHeld'
      BY <1>1, <2>1, <2>2 DEF HandHeld, world
    <2>6. OnlyRacersDisturbed'
      BY <1>1, <2>1, <2>2, <2>3 DEF OnlyRacersDisturbed, InHand, Work, On, world
    <2>7. SweepKnows'
      BY <1>1, <2>1 DEF IInv, SweepKnows, ListByTag, Up, world, history
    <2> QED
      BY <2>4, <2>5, <2>6, <2>7 DEF IInv
  <1> QED
    BY <1>4, <1>5

\* From the cordon on the scheduler sends no workload to the node in hand.
LEMMA CordonStep ==
    ASSUME IInv, cordon
    PROVE  IInv'
  <1>1. pass \in Passes /\ pass.pc = "cordon" /\ pass.zombies = {} /\ UNCHANGED <<inst, bound, near, history, faults>>
    BY DEF cordon, IInv, TypeOK, SweepKnows, NoFault
  <1>2. PICK n \in pass.cur :
          /\ node' = [node EXCEPT ![n].cordoned = node[n].st # "none"]
          /\ pass' = IF node[n].st = "none" /\ ~pass.wasCordoned THEN NextInstance ELSE GoTo("list")
    BY DEF cordon
  <1>3. pass.cur = {n} /\ n \in Names /\ node[n].st # "none"
    BY <1>1, <1>2 DEF IInv, HandHeld, Releasing
  <1>4. pass' \in Passes /\ pass'.pc = "list" /\ pass'.cur = {n} /\ pass'.zombies = {}
    BY <1>1, <1>2, <1>3, PassFields, Phases
  <1>5. node' \in [Names -> NodeObjects] /\ node'[n].cordoned /\ node'[n].st # "none"
    <2>1. node \in [Names -> NodeObjects] /\ node[n] \in NodeObjects
      BY <1>3 DEF IInv, TypeOK
    <2>2. /\ [node[n] EXCEPT !.cordoned = TRUE] \in NodeObjects
          /\ [node[n] EXCEPT !.cordoned = TRUE].cordoned
          /\ [node[n] EXCEPT !.cordoned = TRUE].st = node[n].st
      BY <2>1 DEF NodeObjects
    <2>3. node' = [node EXCEPT ![n] = [node[n] EXCEPT !.cordoned = TRUE]]
      BY <1>2, <1>3, <2>1
    <2> QED
      BY <1>3, <2>1, <2>2, <2>3
  <1>6. TypeOK'
    BY <1>1, <1>4, <1>5 DEF IInv, TypeOK, history
  <1>7. HandHeld'
    BY <1>3, <1>4, <1>5 DEF HandHeld
  <1>8. OnlyRacersDisturbed'
    BY <1>1, <1>3, <1>4 DEF IInv, OnlyRacersDisturbed, InHand, Work, On, history
  <1>9. SweepKnows'
    BY <1>1, <1>4 DEF IInv, SweepKnows, ListByTag, Up, history
  <1> QED
    BY <1>6, <1>7, <1>8, <1>9 DEF IInv

\* A pod that is bound to no instance is on no node.
LEMMA StillBound ==
    ASSUME NEW q, NEW n \in Names, bound'[q] = bound[q] \/ bound'[q] = Unbound, bound'[q] = n
    PROVE  bound[q] = n
  BY UnboundAssumption

\* A pod leaves, or stays.
LEMMA EvictStep ==
    ASSUME IInv, NEW p \in Pods, Evict(p)
    PROVE  IInv'
  <1>1. /\ pass \in Passes /\ pass.pc = "evict" /\ UNCHANGED <<inst, node, near, history, faults>>
        /\ pass' = [pass EXCEPT !.evict = @ \ {p}] /\ bound \in [Pods -> Names \cup {Unbound}]
    BY DEF Evict, IInv, TypeOK, NoFault
  <1>2. /\ pass' \in Passes /\ pass'.pc = "evict" /\ pass'.cur = pass.cur
        /\ pass'.zombies = pass.zombies /\ pass'.known = pass.known
    BY <1>1 DEF Passes
  <1>3. /\ bound' \in [Pods -> Names \cup {Unbound}]
        /\ \A q \in Pods : bound'[q] = bound[q] \/ bound'[q] = Unbound
    <2>1. bound' = bound \/ bound' = [bound EXCEPT ![p] = Unbound]
      BY DEF Evict
    <2> QED
      BY <1>1, <2>1
  <1>4. TypeOK'
    BY <1>1, <1>2, <1>3 DEF IInv, TypeOK, history
  <1>5. HandHeld'
    BY <1>1, <1>2 DEF IInv, HandHeld
  <1>9. \A n \in Names : Work(n)' \subseteq Work(n)
    BY <1>3, StillBound DEF Work, On
  <1>6. OnlyRacersDisturbed'
    BY <1>1, <1>2, <1>9 DEF IInv, OnlyRacersDisturbed, InHand, history
  <1>7. SweepKnows'
    BY <1>1, <1>2 DEF IInv, SweepKnows, ListByTag, Up, history
  <1> QED
    BY <1>4, <1>5, <1>6, <1>7 DEF IInv

\* A cancellation writes nothing but the date.
LEMMA CancelWrites ==
    ASSUME IInv, NEW n \in Names, Cancelling(n)
    PROVE  /\ inst' \in [Names -> Instances]
           /\ \A m \in Names : inst'[m].st = inst[m].st /\ inst'[m].tagged = inst[m].tagged
           /\ ListByTag' = ListByTag
  <1>1. inst \in [Names -> Instances] /\ inst[n] \in Instances
    BY DEF IInv, TypeOK
  <1>2. PICK form \in CancelForms : inst' = [inst EXCEPT ![n].cancel = IF @ = "none" THEN form ELSE @]
    BY DEF Cancelling
  <1> DEFINE x == [inst[n] EXCEPT !.cancel = IF @ = "none" THEN form ELSE @]
  <1>3. x \in Instances /\ x.st = inst[n].st /\ x.tagged = inst[n].tagged
    BY <1>1 DEF Instances
  <1>4. inst' = [inst EXCEPT ![n] = x]
    BY <1>1, <1>2
  <1> HIDE DEF x
  <1>5. /\ inst' \in [Names -> Instances]
        /\ \A m \in Names : inst'[m].st = inst[m].st /\ inst'[m].tagged = inst[m].tagged
    BY <1>1, <1>3, <1>4
  <1>6. ListByTag' = ListByTag
    BY <1>5 DEF ListByTag, Up
  <1> QED
    BY <1>5, <1>6

LEMMA DeleteStep ==
    ASSUME IInv, Delete \/ DeleteFails
    PROVE  IInv'
  <1>1. /\ pass \in Passes /\ pass.pc = "cancel" /\ pass.zombies = {} /\ UNCHANGED <<node, bound, near, history>>
        /\ pass' = NextInstance
    BY DEF Delete, DeleteFails, IInv, TypeOK, SweepKnows
  <1>2. pass' \in Passes /\ pass'.pc = "next" /\ pass'.zombies = {}
    BY <1>1, PassFields
  <1>3. PICK n \in pass.cur : Cancelling(n) \/ UNCHANGED inst
    BY DEF Delete, DeleteFails
  <1>4. n \in Names
    BY <1>1, <1>3 DEF IInv, HandHeld, Releasing
  <1>5. /\ inst' \in [Names -> Instances]
        /\ \A m \in Names : inst'[m].st = inst[m].st /\ inst'[m].tagged = inst[m].tagged
    BY <1>3, <1>4, CancelWrites DEF IInv, TypeOK
  <1>6. faults' \in Nat
    BY FaultCounts DEF Delete, DeleteFails
  <1>7. TypeOK'
    BY <1>1, <1>2, <1>5, <1>6 DEF IInv, TypeOK, history
  <1>8. HandHeld' /\ OnlyRacersDisturbed'
    BY <1>2 DEF HandHeld, OnlyRacersDisturbed, Releasing
  <1>9. SweepKnows'
    BY <1>2, <1>5 DEF IInv, SweepKnows
  <1> QED
    BY <1>7, <1>8, <1>9 DEF IInv

\* What the sweep knows of, and what it will delete.
LEMMA SweepStep ==
    ASSUME IInv, SweepOrphans \/ ListZombies
    PROVE  IInv'
  <1>1. pass \in Passes /\ pass.pc \in {"sweep", "nodes"} /\ pass.zombies = {} /\ UNCHANGED <<world, racers, faults>>
    BY DEF SweepOrphans, ListZombies, IInv, TypeOK, SweepKnows, NoFault, history
  <1>2. ListByTag \in SUBSET Names
    BY DEF ListByTag
  <1>3. CASE SweepOrphans
    <2>1. pass' = [pass EXCEPT !.pc = "nodes", !.known = ListByTag] /\ fresh' = {}
      BY <1>3 DEF SweepOrphans
    <2>2. pass' \in Passes /\ pass'.pc = "nodes" /\ pass'.known = ListByTag /\ pass'.zombies = {}
      BY <1>1, <1>2, <2>1 DEF Passes, Pcs
    <2>3. TypeOK'
      BY <1>1, <2>1, <2>2 DEF IInv, TypeOK, world
    <2>4. HandHeld' /\ OnlyRacersDisturbed'
      BY <2>2 DEF HandHeld, OnlyRacersDisturbed, Releasing
    <2>5. SweepKnows'
      BY <1>1, <2>2 DEF IInv, SweepKnows, ListByTag, Up, world
    <2> QED
      BY <2>3, <2>4, <2>5 DEF IInv
  <1>4. CASE ListZombies
    <2> DEFINE zs == {n \in Names \ pass.known : node[n].st = "notready"}
    <2>1. pass' = [pass EXCEPT !.pc = "delete", !.zombies = zs] /\ fresh' = fresh /\ pass.pc = "nodes"
      BY <1>4 DEF ListZombies, history
    <2>2. zs \in SUBSET Names /\ zs \cap pass.known = {}
      OBVIOUS
    <2> HIDE DEF zs
    <2>3. pass' \in Passes /\ pass'.pc = "delete" /\ pass'.known = pass.known /\ pass'.zombies = zs
      BY <1>1, <2>1, <2>2 DEF Passes, Pcs
    <2>4. TypeOK'
      BY <1>1, <2>1, <2>3 DEF IInv, TypeOK, world
    <2>5. HandHeld' /\ OnlyRacersDisturbed'
      BY <2>3 DEF HandHeld, OnlyRacersDisturbed, Releasing
    <2>6. SweepKnows'
      BY <1>1, <2>1, <2>2, <2>3 DEF IInv, SweepKnows, ListByTag, Up, world
    <2> QED
      BY <2>4, <2>5, <2>6 DEF IInv
  <1> QED
    BY <1>3, <1>4

LEMMA DeleteNodeStep ==
    ASSUME IInv, NEW n \in Names, DeleteNode(n)
    PROVE  IInv'
  <1>1. /\ pass \in Passes /\ pass.pc = "delete" /\ UNCHANGED <<inst, near, history>>
        /\ pass' = [pass EXCEPT !.zombies = @ \ {n}]
    BY DEF DeleteNode, IInv, TypeOK
  <1>2. /\ pass' \in Passes /\ pass'.pc = "delete"
        /\ pass'.zombies = pass.zombies \ {n} /\ pass'.known = pass.known
    BY <1>1 DEF Passes
  <1>3. faults' \in Nat
    BY FaultCounts DEF DeleteNode
  <1>4. node' \in [Names -> NodeObjects] /\ bound' \in [Pods -> Names \cup {Unbound}]
    <2>1. \/ node' = [node EXCEPT ![n] = NoNode]
             /\ bound' = [p \in Pods |-> IF bound[p] = n THEN Unbound ELSE bound[p]]
          \/ UNCHANGED <<node, bound>>
      BY DEF DeleteNode
    <2> QED
      BY <2>1, Records DEF IInv, TypeOK
  <1>5. TypeOK'
    BY <1>1, <1>2, <1>3, <1>4 DEF IInv, TypeOK, history
  <1>6. HandHeld' /\ OnlyRacersDisturbed'
    BY <1>2 DEF HandHeld, OnlyRacersDisturbed, Releasing
  <1>7. SweepKnows'
    BY <1>1, <1>2 DEF IInv, SweepKnows, ListByTag, Up, history
  <1> QED
    BY <1>5, <1>6, <1>7 DEF IInv

------------------------------------------------------------------------------
(* The others                                                              *)

\* Contabo's instances change under a pass.
LEMMA InstanceStep ==
    ASSUME IInv, NEW n \in Names,
           Ordered(n) \/ Tagged(n) \/ CancelledElsewhere(n) \/ Terminated(n)
    PROVE  IInv'
  <1>1. UNCHANGED <<node, bound, near, pass, faults, racers>> /\ inst[n] \in Instances /\ inst \in [Names -> Instances]
    BY DEF Ordered, Tagged, CancelledElsewhere, Terminated, history, IInv, TypeOK
  <1>2. HandHeld' /\ OnlyRacersDisturbed'
    BY <1>1 DEF IInv, HandHeld, OnlyRacersDisturbed, InHand, Work, On
  <1>3. CASE Ordered(n)
    <2>1. PICK dated \in BOOLEAN : inst' = [inst EXCEPT ![n].st = "up", ![n].dated = dated]
      BY <1>3 DEF Ordered
    <2>2. inst[n].st = "none" /\ fresh' = fresh /\ ~inst[n].tagged
      BY <1>1, <1>3 DEF Ordered, history, IInv, SweepKnows, Instances
    <2> DEFINE x == [inst[n] EXCEPT !.st = "up", !.dated = dated]
    <2>3. x \in Instances /\ x.st = "up" /\ ~x.tagged
      BY <1>1, <2>2 DEF Instances
    <2>4. inst' = [inst EXCEPT ![n] = x]
      BY <1>1, <2>1
    <2> HIDE DEF x
    <2>5. inst' \in [Names -> Instances] /\ inst'[n] = x /\ \A m \in Names \ {n} : inst'[m] = inst[m]
      BY <1>1, <2>3, <2>4
    <2>6. TypeOK'
      BY <1>1, <2>2, <2>5 DEF IInv, TypeOK
    <2>7. SweepKnows'
      BY <1>1, <2>2, <2>3, <2>5 DEF IInv, SweepKnows, ListByTag, Up
    <2> QED
      BY <1>2, <2>6, <2>7 DEF IInv
  <1>4. CASE Tagged(n)
    <2>1. inst' = [inst EXCEPT ![n].tagged = TRUE] /\ inst[n].st = "up" /\ fresh' = fresh \cup {n}
      BY <1>4 DEF Tagged, Up
    <2> DEFINE x == [inst[n] EXCEPT !.tagged = TRUE]
    <2>2. x \in Instances /\ x.st = "up"
      BY <1>1, <2>1 DEF Instances
    <2>3. inst' = [inst EXCEPT ![n] = x]
      BY <1>1, <2>1
    <2> HIDE DEF x
    <2>4. inst' \in [Names -> Instances] /\ inst'[n] = x /\ \A m \in Names \ {n} : inst'[m] = inst[m]
      BY <1>1, <2>2, <2>3
    <2>5. TypeOK'
      BY <1>1, <2>1, <2>4 DEF IInv, TypeOK
    <2>6. SweepKnows'
      BY <1>1, <2>1, <2>2, <2>4 DEF IInv, SweepKnows, ListByTag, Up
    <2> QED
      BY <1>2, <2>5, <2>6 DEF IInv
  <1>5. CASE CancelledElsewhere(n)
    <2>1. /\ inst' \in [Names -> Instances] /\ fresh' = fresh
          /\ \A m \in Names : inst'[m].st = inst[m].st /\ inst'[m].tagged = inst[m].tagged
          /\ ListByTag' = ListByTag
      BY <1>5, CancelWrites DEF CancelledElsewhere, history
    <2>2. TypeOK'
      BY <1>1, <2>1 DEF IInv, TypeOK
    <2>3. SweepKnows'
      BY <1>1, <2>1 DEF IInv, SweepKnows
    <2> QED
      BY <1>2, <2>2, <2>3 DEF IInv
  <1>6. CASE Terminated(n)
    <2>1. inst' = [inst EXCEPT ![n].st = "gone"] /\ fresh' = fresh
      BY <1>6 DEF Terminated, history
    <2> DEFINE x == [inst[n] EXCEPT !.st = "gone"]
    <2>2. x \in Instances /\ x.st = "gone"
      BY <1>1 DEF Instances
    <2>3. inst' = [inst EXCEPT ![n] = x]
      BY <1>1, <2>1
    <2> HIDE DEF x
    <2>4. inst' \in [Names -> Instances] /\ inst'[n] = x /\ \A m \in Names \ {n} : inst'[m] = inst[m]
      BY <1>1, <2>2, <2>3
    <2>5. TypeOK'
      BY <1>1, <2>1, <2>4 DEF IInv, TypeOK
    <2>6. SweepKnows'
      BY <1>1, <2>1, <2>2, <2>4 DEF IInv, SweepKnows, ListByTag, Up
    <2> QED
      BY <1>2, <2>5, <2>6 DEF IInv
  <1> QED
    BY <1>3, <1>4, <1>5, <1>6

\* A node registers or changes its readiness; a cordon stays.
LEMMA KubeletStep ==
    ASSUME IInv, NEW n \in Names, Kubelet(n)
    PROVE  IInv'
  <1>1. UNCHANGED <<inst, bound, near, pass, faults, history>> /\ node \in [Names -> NodeObjects] /\ node[n] \in NodeObjects
    BY DEF Kubelet, IInv, TypeOK
  <1>2. PICK st \in {"notready", "ready"} : node' = [node EXCEPT ![n].st = st]
    BY DEF Kubelet
  <1> DEFINE x == [node[n] EXCEPT !.st = st]
  <1>3. x \in NodeObjects /\ x.st # "none" /\ x.cordoned = node[n].cordoned
    BY <1>1 DEF NodeObjects
  <1>4. node' = [node EXCEPT ![n] = x]
    BY <1>1, <1>2
  <1> HIDE DEF x
  <1>5. node' \in [Names -> NodeObjects] /\ node'[n] = x /\ \A m \in Names \ {n} : node'[m] = node[m]
    BY <1>1, <1>3, <1>4
  <1>6. TypeOK'
    BY <1>1, <1>5 DEF IInv, TypeOK, history
  <1>7. HandHeld'
    BY <1>1, <1>3, <1>5 DEF IInv, HandHeld
  <1>8. OnlyRacersDisturbed' /\ SweepKnows'
    BY <1>1 DEF IInv, OnlyRacersDisturbed, InHand, Work, On, SweepKnows, ListByTag, Up, history
  <1> QED
    BY <1>6, <1>7, <1>8 DEF IInv

\* A workload comes to the node in hand only while it is not cordoned yet, as a racer.
LEMMA ScheduleStep ==
    ASSUME IInv, NEW p \in Pods, NEW n \in Names, Schedule(p, n)
    PROVE  IInv'
  <1>1. /\ UNCHANGED <<inst, node, near, pass, faults, fresh>>
        /\ bound \in [Pods -> Names \cup {Unbound}] /\ bound[p] = Unbound
        /\ bound' = [bound EXCEPT ![p] = n]
        /\ isDaemonSetPod(p) \/ ~node[n].cordoned
        /\ racers' = IF InHand(n) /\ pass.pc = "cordon" THEN racers \cup {p} ELSE racers \ {p}
    BY DEF Schedule, IInv, TypeOK
  <1>2. bound' \in [Pods -> Names \cup {Unbound}] /\ bound'[p] = n /\ \A q \in Pods \ {p} : bound'[q] = bound[q]
    BY <1>1
  <1>3. TypeOK'
    BY <1>1, <1>2 DEF IInv, TypeOK
  <1>4. HandHeld' /\ SweepKnows'
    BY <1>1 DEF IInv, HandHeld, SweepKnows, ListByTag, Up
  <1>5. OnlyRacersDisturbed'
    <2> SUFFICES ASSUME NEW m \in Names, InHand(m)', pass'.pc \in Releasing, NEW q \in Pods,
                        bound'[q] = m, Kind[q] = "work"
                 PROVE  q \in racers'
      BY DEF OnlyRacersDisturbed, Releasing, Work, On
    <2>1. InHand(m) /\ pass.pc \in Releasing
      BY <1>1 DEF InHand
    <2>2. CASE q # p
      <3>1. q \in racers
        BY <1>2, <2>1, <2>2 DEF IInv, OnlyRacersDisturbed, Releasing, Work, On
      <3> QED
        BY <1>1, <2>2, <3>1
    <2>3. CASE q = p
      <3>1. m = n /\ ~node[n].cordoned
        BY <1>1, <1>2, <2>3 DEF isDaemonSetPod
      <3>2. pass.pc = "cordon"
        BY <2>1, <3>1 DEF IInv, HandHeld, InHand, Releasing
      <3> QED
        BY <1>1, <2>1, <2>3, <3>1, <3>2
    <2> QED
      BY <2>2, <2>3
  <1> QED
    BY <1>3, <1>4, <1>5 DEF IInv

LEMMA FinishedStep ==
    ASSUME IInv, NEW p \in Pods, Finished(p)
    PROVE  IInv'
  <1>1. /\ UNCHANGED <<inst, node, near, pass, faults, history>>
        /\ bound \in [Pods -> Names \cup {Unbound}] /\ bound' = [bound EXCEPT ![p] = Unbound]
    BY DEF Finished, IInv, TypeOK
  <1>2. /\ bound' \in [Pods -> Names \cup {Unbound}]
        /\ \A q \in Pods : bound'[q] = bound[q] \/ bound'[q] = Unbound
    BY <1>1
  <1>3. TypeOK'
    BY <1>1, <1>2 DEF IInv, TypeOK, history
  <1>4. HandHeld' /\ SweepKnows'
    BY <1>1 DEF IInv, HandHeld, SweepKnows, ListByTag, Up, history
  <1>6. \A n \in Names : Work(n)' \subseteq Work(n)
    BY <1>2, StillBound DEF Work, On
  <1>5. OnlyRacersDisturbed'
    BY <1>1, <1>6 DEF IInv, OnlyRacersDisturbed, InHand, history
  <1> QED
    BY <1>3, <1>4, <1>5 DEF IInv

------------------------------------------------------------------------------
(* The theorems                                                            *)

LEMMA Invariant == Spec => []IInv
  <1>1. ASSUME Init PROVE IInv
    <2>1. inst = [n \in Names |-> NoInstance] /\ pass = IdlePass
      BY <1>1 DEF Init
    <2>2. TypeOK
      BY <1>1, Records, FaultsAssumption DEF Init, TypeOK
    <2>3. HandHeld /\ OnlyRacersDisturbed /\ SweepKnows
      BY <2>1, Records DEF HandHeld, OnlyRacersDisturbed, SweepKnows, Releasing
    <2> QED
      BY <2>2, <2>3 DEF IInv
  <1>2. ASSUME IInv, [Next]_vars PROVE IInv'
    <2>1. CASE StartPass \/ PassStep
      BY <1>2, <2>1, QuietSteps, GetNodeStep, CheckIdleStep, CordonStep, EvictStep, DeleteStep,
         SweepStep, DeleteNodeStep DEF PassStep
    <2>2. CASE EnvStep
      <3>1. CASE Calendar
        <4>1. UNCHANGED <<inst, node, bound, pass, faults, history>> /\ near' \in BOOLEAN
          BY <3>1 DEF Calendar
        <4>2. TypeOK'
          BY <1>2, <4>1 DEF IInv, TypeOK, history
        <4>3. HandHeld' /\ OnlyRacersDisturbed' /\ SweepKnows'
          BY <1>2, <4>1 DEF IInv, HandHeld, OnlyRacersDisturbed, InHand, Work, On, SweepKnows, ListByTag, Up, history
        <4> QED
          BY <4>2, <4>3 DEF IInv
      <3> QED
        BY <1>2, <2>2, <3>1, InstanceStep, KubeletStep, ScheduleStep, FinishedStep DEF EnvStep
    <2>3. CASE UNCHANGED vars
      <3>1. UNCHANGED <<inst, node, bound, near, pass, faults, racers, fresh>>
        BY <2>3 DEF vars
      <3> QED
        BY <1>2, <3>1 DEF IInv, TypeOK, HandHeld, OnlyRacersDisturbed, InHand, Work, On, SweepKnows, ListByTag, Up
    <2> QED
      BY <1>2, <2>1, <2>2, <2>3 DEF Next
  <1> QED
    BY <1>1, <1>2, PTL DEF Spec

\* The state keeps its types.
THEOREM TypeCorrect == Spec => []TypeOK
  <1>1. IInv => TypeOK
    BY DEF IInv
  <1> QED
    BY <1>1, Invariant, PTL

\* release evicts, and takes down with the instance, no workload that was on the node when
\* isNodeIdle looked at it: from the cordon on none comes in.
THEOREM OnlyRacers == Spec => []OnlyRacersDisturbed
  <1>1. IInv => OnlyRacersDisturbed
    BY DEF IInv
  <1> QED
    BY <1>1, Invariant, PTL

\* SweepOrphans lists the instances before the nodes, so that the node it deletes is of no
\* instance it could have listed.
THEOREM OnlyZombies == Spec => []ZombiesAreGone
  <1>1. ASSUME IInv PROVE ZombiesAreGone
    <2>1. pass.zombies \in SUBSET Names
      BY <1>1 DEF IInv, TypeOK, Passes
    <2> QED
      BY <1>1, <2>1 DEF IInv, SweepKnows, ZombiesAreGone, ListByTag
  <1> QED
    BY <1>1, Invariant, PTL
=============================================================================

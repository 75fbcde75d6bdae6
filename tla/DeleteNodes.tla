----------------------------- MODULE DeleteNodes -----------------------------
(***************************************************************************)
(* NodeGroupDeleteNodes of the Contabo provider: cluster-autoscaler/       *)
(* contabo-externalgrpc/internal/provider/scale.go.  CA sends the same     *)
(* nodes again on every loop until they are gone, and its calls can        *)
(* overlap.  A request lists the instances once, validates every node, and *)
(* then cancels them one by one on what the listing said, while Contabo    *)
(* goes on billing, starting and stopping them.                            *)
(***************************************************************************)
EXTENDS FiniteSets

CONSTANTS
    Names,       \* instances of the elastic name prefix
    Foreign,     \* a node that is none of them, or whose ProviderID is malformed
    Dels,        \* goroutines serving NodeGroupDeleteNodes
    CancelForms  \* how a cancelDate comes back: "parsed", or "raw" (unparsable)

VARIABLES
    inst,  \* Contabo: name -> status and cancelDate
    del    \* the local variables of each request

vars == <<inst, del>>

\* "other" is a paid instance that is neither: provisioning, stopping, unknown.
Statuses == {"pending_payment", "other", "running"}

\* The request's nodes still to do; what the listing said of each; the nodes it
\* has cancelled.  History: the nodes that were running, and the ones that had
\* a cancelDate, ever since the request arrived.
IdleDel == [pc |-> "idle", asked |-> {}, todo |-> {}, dated |-> {}, running |-> {},
            sent |-> {}, ran |-> {}, was |-> {}]

ListByNamePrefix == {n \in Names : inst[n].st \in Statuses}
instanceRunning(st) == st = "running"
Running == {n \in ListByNamePrefix : instanceRunning(inst[n].st)}

Init ==
    /\ inst = [n \in Names |-> [st |-> "none", cancel |-> "none"]]
    /\ del = [d \in Dels |-> IdleDel]

------------------------------------------------------------------------------

NodeGroupDeleteNodes(d) ==
    /\ del[d].pc = "idle"
    /\ \E nodes \in SUBSET (Names \cup {Foreign}) \ {{}} :
         del' = [del EXCEPT ![d] =
            [IdleDel EXCEPT !.pc = "list", !.asked = nodes, !.todo = nodes, !.ran = Running,
                            !.was = {n \in ListByNamePrefix : inst[n].cancel # "none"}]]
    /\ UNCHANGED inst

\* Mutant: nodes are validated as the loop comes to them.
ListUnchecked(d) ==
    /\ del[d].pc = "list"
    /\ del' = [del EXCEPT ![d] =
         [del[d] EXCEPT !.pc = "loop", !.todo = @ \cap Names, !.running = Running,
                        !.dated = {n \in ListByNamePrefix : inst[n].cancel # "none"}]]
    /\ UNCHANGED inst

\* Mutant: the cancelDate counts only if it parses.
ListParsed(d) ==
    /\ del[d].pc = "list"
    /\ del' = [del EXCEPT ![d] =
         IF del[d].todo \subseteq ListByNamePrefix
         THEN [del[d] EXCEPT !.pc = "loop", !.running = Running,
                             !.dated = {n \in ListByNamePrefix : inst[n].cancel = "parsed"}]
         ELSE IdleDel]
    /\ UNCHANGED inst

\* The listing resolves every node before any is cancelled: one that is not
\* listed, or does not parse, rejects the whole request.
Validate(d) ==
    /\ del[d].pc = "list"
    /\ del' = [del EXCEPT ![d] =
         IF del[d].todo \subseteq ListByNamePrefix
         THEN [del[d] EXCEPT !.pc = "loop", !.running = Running,
                             !.dated = {n \in ListByNamePrefix : inst[n].cancel # "none"}]
         ELSE IdleDel]
    /\ UNCHANGED inst

\* The listing fails: Unavailable.
ListFails(d) ==
    /\ del[d].pc = "list"
    /\ del' = [del EXCEPT ![d] = IdleDel]
    /\ UNCHANGED inst

\* Mutant: no Guard 3.
SkippedWithoutGuard(d, n) == n \in del[d].dated

\* What the loop passes over: a RawCancelDate, or Guard 3.
Skipped(d, n) == n \in del[d].dated \/ n \in del[d].running

Skip(d, n) ==
    /\ del[d].pc = "loop" /\ n \in del[d].todo
    /\ Skipped(d, n)
    /\ del' = [del EXCEPT ![d].todo = @ \ {n}]
    /\ UNCHANGED inst

\* Mutant: a cancel that fails is tried until it is done.
DeleteRetries(d, n) ==
    /\ del[d].pc = "loop" /\ n \in del[d].todo
    /\ ~Skipped(d, n)
    /\ inst[n].st \in Statuses
    /\ \E form \in CancelForms :
         inst' = [inst EXCEPT ![n].cancel = IF @ = "none" THEN form ELSE @]
    /\ del' = [del EXCEPT ![d].todo = @ \ {n}, ![d].sent = @ \cup {n}]

\* The node is cancelled, and the loop goes on; or Delete fails, whether or not
\* the cancel took effect, and the request ends with the rest not done.
Delete(d, n) ==
    /\ del[d].pc = "loop" /\ n \in del[d].todo
    /\ ~Skipped(d, n)
    /\ \/ /\ inst[n].st \in Statuses
          /\ \E form \in CancelForms :
               inst' = [inst EXCEPT ![n].cancel = IF @ = "none" THEN form ELSE @]
          /\ \/ del' = [del EXCEPT ![d].todo = @ \ {n}, ![d].sent = @ \cup {n}]
             \/ del' = [del EXCEPT ![d] = IdleDel]
       \/ inst' = inst /\ del' = [del EXCEPT ![d] = IdleDel]

Return(d) ==
    /\ del[d].pc = "loop" /\ del[d].todo = {}
    /\ del' = [del EXCEPT ![d] = IdleDel]
    /\ UNCHANGED inst

------------------------------------------------------------------------------
(* Contabo: an order is placed, paid, started, stopped; a cancelled one ends *)

Moves == {<<"none", "pending_payment">>, <<"none", "other">>,
          <<"pending_payment", "other">>, <<"pending_payment", "running">>,
          <<"other", "running">>, <<"running", "other">>}

Progress(n) ==
    /\ \E m \in Moves :
         /\ inst[n].st = m[1] /\ inst' = [inst EXCEPT ![n].st = m[2]]
         /\ del' = [d \in Dels |->
              [del[d] EXCEPT !.ran = IF m[1] = "running" THEN @ \ {n} ELSE @]]

Terminated(n) ==
    /\ inst[n].st \in Statuses /\ inst[n].cancel # "none"
    /\ inst' = [inst EXCEPT ![n].st = "gone"]
    /\ del' = [d \in Dels |-> [del[d] EXCEPT !.ran = @ \ {n}]]

\* The reaper or an operator cancels the instance.
CancelledElsewhere(n) ==
    /\ inst[n].st \in Statuses /\ inst[n].cancel = "none"
    /\ \E form \in CancelForms : inst' = [inst EXCEPT ![n].cancel = form]
    /\ UNCHANGED del

RequestStep(d) ==
    \/ Validate(d) \/ ListFails(d) \/ Return(d)
    \/ \E n \in Names : Skip(d, n) \/ Delete(d, n)

Next ==
    \/ \E d \in Dels : NodeGroupDeleteNodes(d) \/ RequestStep(d)
    \/ \E n \in Names : Progress(n) \/ Terminated(n) \/ CancelledElsewhere(n)

Spec == Init /\ [][Next]_vars

\* A request that runs goes on: its calls are bounded by the client's timeout.
FairSpec == Spec /\ \A d \in Dels : WF_vars(RequestStep(d))

------------------------------------------------------------------------------
(* Properties                                                              *)

\* A request that names one node the provider does not manage cancels nothing.
RejectedWhole == \A d \in Dels : del[d].sent # {} => Foreign \notin del[d].asked

\* Guard 3: an instance that has been running ever since the request arrived is
\* never cancelled by it, whatever the other instances of the request are.
RunningKept == \A d \in Dels : del[d].sent \cap del[d].ran = {}

\* An instance that already had a cancelDate when the request arrived is not
\* cancelled again by it, in whichever form Contabo returns the date.
CancelledOnce == \A d \in Dels : del[d].sent \cap del[d].was = {}

\* Every request is answered, a node that is gone or a failed cancel included.
RequestsAnswered == \A d \in Dels : (del[d].pc # "idle") ~> (del[d].pc = "idle")
=============================================================================

--------------------------- MODULE ServicesProofs ---------------------------
(***************************************************************************)
(* Proofs about the parts that MCServices composes, for any names,         *)
(* requests, sessions, frames and calls and any number of faults: the      *)
(* guards of NodeGroupDeleteNodes, the contract of the client's Create,    *)
(* the routing of the relay, the turns of the agents and the calendar by   *)
(* which the reaper releases.                                              *)
(***************************************************************************)
EXTENDS MCServices, TLAPS

------------------------------------------------------------------------------
(* NodeGroupDeleteNodes                                                    *)

Instances == [st : Remove!Statuses \cup {"none", "gone"}, cancel : {"none"} \cup CancelForms]
Requests == [pc : {"idle", "list", "loop"}, asked : SUBSET (Names \cup {Foreign}),
             todo : SUBSET (Names \cup {Foreign}), dated : SUBSET Names, running : SUBSET Names,
             sent : SUBSET Names, ran : SUBSET Names, was : SUBSET Names]

DeleteTypes == inst \in [Names -> Instances] /\ del \in [Dels -> Requests]

\* A request in its loop has validated what it was asked; what it knows of the nodes
\* was so at its listing, and what was so ever since it arrived is part of that.
Guarded(d) ==
    /\ del[d].pc # "loop" => del[d].sent = {}
    /\ del[d].pc = "list" => del[d].todo = del[d].asked
    /\ del[d].pc = "loop" => /\ Foreign \notin del[d].asked /\ del[d].todo \subseteq Names
                             /\ del[d].ran \subseteq del[d].running
                             /\ del[d].was \cap del[d].todo \subseteq del[d].dated
    /\ del[d].ran \subseteq Remove!Running
    /\ \A n \in del[d].was : inst[n].cancel # "none"
    /\ del[d].sent \cap del[d].ran = {} /\ del[d].sent \cap del[d].was = {}

DeleteInv == DeleteTypes /\ \A d \in Dels : Guarded(d)

LEMMA DeleteInit == Init => DeleteInv
<1> SUFFICES ASSUME Init PROVE DeleteInv
  OBVIOUS
<1>1. /\ inst = [n \in Names |-> [st |-> "none", cancel |-> "none"]]
      /\ del = [d \in Dels |-> Remove!IdleDel]
  BY DEF Init, Remove!Init
<1>2. DeleteTypes
  BY <1>1 DEF DeleteTypes, Instances, Requests, Remove!IdleDel
<1>3. ASSUME NEW d \in Dels PROVE Guarded(d)
  BY <1>1 DEF Guarded, Remove!IdleDel
<1> QED
  BY <1>2, <1>3 DEF DeleteInv

\* A step that leaves a request alone, stops no instance and takes no cancelDate back.
LEMMA LeftAlone ==
    ASSUME NEW x, Guarded(x), del'[x] = del[x], Remove!Running \subseteq Remove!Running',
           \A n : inst[n].cancel # "none" => inst'[n].cancel # "none"
    PROVE  Guarded(x)'
  BY DEF Guarded

\* What a request is told by its listing.
LEMMA Listing == DeleteTypes => Remove!Running \subseteq Names /\ Remove!ListByNamePrefix \subseteq Names
  BY DEF Remove!Running, Remove!ListByNamePrefix

\* A step of a request that changes nothing at Contabo.
LEMMA OwnStep ==
    ASSUME DeleteInv, UNCHANGED inst, NEW d \in Dels, NEW r \in Requests,
           del' = [del EXCEPT ![d] = r], Guarded(d)'
    PROVE  DeleteInv'
<1>1. DeleteTypes'
  BY DEF DeleteInv, DeleteTypes
<1>2. ASSUME NEW x \in Dels PROVE Guarded(x)'
  <2>1. CASE x = d
    BY <2>1
  <2>2. CASE x # d
    <3>1. del'[x] = del[x] /\ Guarded(x)
      BY <2>2 DEF DeleteInv, DeleteTypes
    <3> QED
      BY <3>1, LeftAlone DEF Remove!Running, Remove!ListByNamePrefix
  <2> QED
    BY <2>1, <2>2
<1> QED
  BY <1>1, <1>2 DEF DeleteInv

LEMMA IdleRequest ==
    ASSUME DeleteInv, UNCHANGED inst, NEW d \in Dels, del' = [del EXCEPT ![d] = Remove!IdleDel]
    PROVE  DeleteInv'
<1>1. Remove!IdleDel \in Requests
  BY DEF Requests, Remove!IdleDel
<1>2. del'[d] = Remove!IdleDel
  BY DEF DeleteInv, DeleteTypes
<1>3. Guarded(d)'
  BY <1>2 DEF Guarded, Remove!IdleDel
<1> QED
  BY <1>1, <1>3, OwnStep

\* Contabo's steps: requests stay as they are, or forget that n has always been running.
LEMMA SameRequests ==
    ASSUME DeleteInv, inst' \in [Names -> Instances], del' = [d \in Dels |-> del[d]],
           \A k \in Names : inst[k].cancel # "none" => inst'[k].cancel # "none",
           Remove!Running \subseteq Remove!Running'
    PROVE  DeleteInv'
<1>1. DeleteTypes'
  BY DEF DeleteInv, DeleteTypes
<1>2. ASSUME NEW d \in Dels PROVE Guarded(d)'
  <2>1. Guarded(d) /\ del[d].was \subseteq Names /\ del'[d] = del[d]
    BY DEF DeleteInv, DeleteTypes, Requests
  <2> QED
    BY <2>1 DEF Guarded
<1> QED
  BY <1>1, <1>2 DEF DeleteInv

LEMMA NoMore ==
    ASSUME DeleteInv, NEW n \in Names, inst' \in [Names -> Instances],
           del' = [d \in Dels |-> [del[d] EXCEPT !.ran = @ \ {n}]],
           \A k \in Names : inst'[k].cancel = inst[k].cancel,
           Remove!Running \ {n} \subseteq Remove!Running'
    PROVE  DeleteInv'
<1>1. ASSUME NEW d \in Dels PROVE del'[d] \in Requests /\ Guarded(d)'
  <2>1. Guarded(d) /\ del[d].was \subseteq Names /\ del[d] \in Requests
    BY DEF DeleteInv, DeleteTypes, Requests
  <2>2. del'[d] = [del[d] EXCEPT !.ran = @ \ {n}]
    OBVIOUS
  <2>3. /\ del'[d] \in Requests /\ del'[d].ran = del[d].ran \ {n}
        /\ del'[d].pc = del[d].pc /\ del'[d].asked = del[d].asked /\ del'[d].todo = del[d].todo
        /\ del'[d].dated = del[d].dated /\ del'[d].running = del[d].running
        /\ del'[d].sent = del[d].sent /\ del'[d].was = del[d].was
    BY <2>1, <2>2 DEF Requests
  <2> QED
    BY <2>1, <2>3 DEF Guarded
<1>2. DeleteTypes'
  BY <1>1 DEF DeleteInv, DeleteTypes
<1> QED
  BY <1>1, <1>2 DEF DeleteInv

LEMMA DeleteStep == DeleteInv /\ Remove!Next => DeleteInv'
<1> SUFFICES ASSUME DeleteInv, Remove!Next PROVE DeleteInv'
  OBVIOUS
<1> USE DeleteAssumption
<1>0. DeleteTypes /\ inst \in [Names -> Instances] /\ del \in [Dels -> Requests]
  BY DEF DeleteInv, DeleteTypes
<1>1. ASSUME NEW d \in Dels, Remove!NodeGroupDeleteNodes(d) PROVE DeleteInv'
  <2>1. PICK nodes \in SUBSET (Names \cup {Foreign}) \ {{}} :
          del' = [del EXCEPT ![d] = [Remove!IdleDel EXCEPT !.pc = "list", !.asked = nodes,
                    !.todo = nodes, !.ran = Remove!Running,
                    !.was = {n \in Remove!ListByNamePrefix : inst[n].cancel # "none"}]]
    BY <1>1 DEF Remove!NodeGroupDeleteNodes
  <2> DEFINE r == [Remove!IdleDel EXCEPT !.pc = "list", !.asked = nodes, !.todo = nodes,
                     !.ran = Remove!Running,
                     !.was = {n \in Remove!ListByNamePrefix : inst[n].cancel # "none"}]
  <2>2. /\ r \in Requests
        /\ r.pc = "list" /\ r.sent = {} /\ r.todo = r.asked /\ r.ran = Remove!Running
        /\ r.was = {n \in Remove!ListByNamePrefix : inst[n].cancel # "none"}
    BY <1>0, Listing DEF Requests, Remove!IdleDel
  <2>3. del' = [del EXCEPT ![d] = r] /\ UNCHANGED inst /\ del'[d] = r
    BY <1>0, <1>1, <2>1 DEF Remove!NodeGroupDeleteNodes
  <2> HIDE DEF r
  <2>4. Guarded(d)'
    BY <2>2, <2>3 DEF Guarded, Remove!Running, Remove!ListByNamePrefix
  <2> QED
    BY <2>2, <2>3, <2>4, OwnStep
<1>2. ASSUME NEW d \in Dels, Remove!Validate(d) PROVE DeleteInv'
  <2>1. CASE ~(del[d].todo \subseteq Remove!ListByNamePrefix)
    BY <1>2, <2>1, IdleRequest DEF Remove!Validate
  <2>2. CASE del[d].todo \subseteq Remove!ListByNamePrefix
    <3> DEFINE r == [del[d] EXCEPT !.pc = "loop", !.running = Remove!Running,
                       !.dated = {n \in Remove!ListByNamePrefix : inst[n].cancel # "none"}]
    <3>1. del' = [del EXCEPT ![d] = r] /\ UNCHANGED inst /\ del'[d] = r /\ del[d].pc = "list"
      BY <1>0, <1>2, <2>2 DEF Remove!Validate
    <3>2. /\ r \in Requests
          /\ r.pc = "loop" /\ r.sent = del[d].sent /\ r.todo = del[d].todo /\ r.asked = del[d].asked
          /\ r.ran = del[d].ran /\ r.was = del[d].was /\ r.running = Remove!Running
          /\ r.dated = {n \in Remove!ListByNamePrefix : inst[n].cancel # "none"}
      BY <1>0, Listing, ZenonT(30) DEF Requests
    <3> HIDE DEF r
    <3>3. Guarded(d) /\ Foreign \notin Remove!ListByNamePrefix
      BY <1>0, Listing DEF DeleteInv
    <3>4. Guarded(d)'
      <4>1. del[d].was \cap del[d].todo \subseteq r.dated
        BY <2>2, <3>2, <3>3 DEF Guarded
      <4>2. Foreign \notin r.asked /\ r.todo \subseteq Names
        BY <2>2, <3>1, <3>2, <3>3, <1>0, Listing DEF Guarded
      <4>3. r.sent = {} /\ r.ran \subseteq Remove!Running
        BY <3>1, <3>2, <3>3 DEF Guarded
      <4> QED
        BY <3>1, <3>2, <3>3, <4>1, <4>2, <4>3 DEF Guarded, Remove!Running, Remove!ListByNamePrefix
    <3> QED
      BY <3>1, <3>2, <3>4, OwnStep
  <2> QED
    BY <2>1, <2>2
<1>3. ASSUME NEW d \in Dels, Remove!ListFails(d) \/ Remove!Return(d) PROVE DeleteInv'
  BY <1>3, IdleRequest DEF Remove!ListFails, Remove!Return
<1>4. ASSUME NEW d \in Dels, NEW n \in Names, Remove!Skip(d, n) PROVE DeleteInv'
  <2> DEFINE r == [del[d] EXCEPT !.todo = @ \ {n}]
  <2>1. del' = [del EXCEPT ![d] = r] /\ UNCHANGED inst /\ del'[d] = r
    BY <1>0, <1>4 DEF Remove!Skip
  <2>2. /\ r \in Requests
        /\ r.pc = del[d].pc /\ r.sent = del[d].sent /\ r.todo = del[d].todo \ {n} /\ r.asked = del[d].asked
        /\ r.ran = del[d].ran /\ r.was = del[d].was /\ r.running = del[d].running /\ r.dated = del[d].dated
    BY <1>0 DEF Requests
  <2>3. Guarded(d) /\ del[d].pc = "loop"
    BY <1>4 DEF DeleteInv, Remove!Skip
  <2> HIDE DEF r
  <2>4. Guarded(d)'
    BY <2>1, <2>2, <2>3 DEF Guarded, Remove!Running, Remove!ListByNamePrefix
  <2> QED
    BY <2>1, <2>2, <2>4, OwnStep
<1>5. ASSUME NEW d \in Dels, NEW n \in Names, Remove!Delete(d, n) PROVE DeleteInv'
  <2>1. /\ del[d].pc = "loop" /\ n \in del[d].todo
        /\ n \notin del[d].dated /\ n \notin del[d].running
    BY <1>5 DEF Remove!Delete, Remove!Skipped
  <2>2. \/ inst' = inst
        \/ \E form \in CancelForms :
              inst' = [inst EXCEPT ![n].cancel = IF @ = "none" THEN form ELSE @]
    BY <1>5 DEF Remove!Delete
  <2>3. /\ inst' \in [Names -> Instances]
        /\ \A k \in Names : /\ inst'[k].st = inst[k].st
                            /\ inst[k].cancel # "none" => inst'[k].cancel = inst[k].cancel
    <3>1. CASE inst' = inst
      BY <1>0, <3>1
    <3>2. ASSUME NEW form \in CancelForms,
                 inst' = [inst EXCEPT ![n].cancel = IF @ = "none" THEN form ELSE @]
          PROVE  <2>3!1 /\ <2>3!2
      BY <1>0, <3>2 DEF Instances
    <3> QED
      BY <2>2, <3>1, <3>2
  <2>4. Remove!Running' = Remove!Running
    BY <2>3 DEF Remove!Running, Remove!ListByNamePrefix
  <2>5. \/ del' = [del EXCEPT ![d] = Remove!IdleDel]
        \/ del' = [del EXCEPT ![d] = [del[d] EXCEPT !.todo = @ \ {n}, !.sent = @ \cup {n}]]
    BY <1>0, <1>5 DEF Remove!Delete
  <2>6. PICK r : /\ del' = [del EXCEPT ![d] = r]
                 /\ r \in {Remove!IdleDel, [del[d] EXCEPT !.todo = @ \ {n}, !.sent = @ \cup {n}]}
    BY <2>5
  <2>7. Guarded(d)
    BY DEF DeleteInv
  <2>8. r \in Requests /\ del'[d] = r
    <3>1. Remove!IdleDel \in Requests
      BY DEF Requests, Remove!IdleDel
    <3>2. [del[d] EXCEPT !.todo = @ \ {n}, !.sent = @ \cup {n}] \in Requests
      BY <1>0 DEF Requests
    <3> QED
      BY <1>0, <2>6, <3>1, <3>2
  <2>9. Guarded(d)'
    <3>1. CASE r = Remove!IdleDel
      BY <2>8, <3>1 DEF Guarded, Remove!IdleDel
    <3>2. CASE r = [del[d] EXCEPT !.todo = @ \ {n}, !.sent = @ \cup {n}]
      <4>1. /\ r.pc = "loop" /\ r.sent = del[d].sent \cup {n} /\ r.todo = del[d].todo \ {n}
            /\ r.asked = del[d].asked /\ r.ran = del[d].ran /\ r.was = del[d].was
            /\ r.running = del[d].running /\ r.dated = del[d].dated
        BY <1>0, <2>1, <3>2 DEF Requests
      <4>2. n \notin del[d].ran /\ n \notin del[d].was
        BY <2>1, <2>7 DEF Guarded
      <4>3. \A k \in r.was : inst'[k].cancel # "none"
        BY <1>0, <2>3, <2>7, <4>1 DEF Guarded, Requests
      <4> QED
        BY <2>1, <2>4, <2>7, <2>8, <4>1, <4>2, <4>3 DEF Guarded
    <3> QED
      BY <2>6, <3>1, <3>2
  <2>10. ASSUME NEW x \in Dels, x # d PROVE Guarded(x)'
    <3>1. del'[x] = del[x] /\ Guarded(x) /\ del[x].was \subseteq Names
      BY <1>0, <2>6, <2>10 DEF DeleteInv, Requests
    <3> QED
      BY <2>3, <2>4, <3>1 DEF Guarded
  <2>11. DeleteTypes'
    BY <1>0, <2>3, <2>6, <2>8 DEF DeleteTypes
  <2> QED
    BY <2>9, <2>10, <2>11 DEF DeleteInv
<1>6. ASSUME NEW n \in Names, Remove!Progress(n) PROVE DeleteInv'
  <2>1. PICK m \in Remove!Moves :
          /\ inst[n].st = m[1] /\ inst' = [inst EXCEPT ![n].st = m[2]]
          /\ del' = [d \in Dels |-> [del[d] EXCEPT !.ran = IF m[1] = "running" THEN @ \ {n} ELSE @]]
    BY <1>6 DEF Remove!Progress
  <2>2. m[1] \in Remove!Statuses \cup {"none"} /\ m[2] \in Remove!Statuses
    BY DEF Remove!Moves, Remove!Statuses
  <2>3. /\ inst' \in [Names -> Instances] /\ inst'[n].st = m[2]
        /\ \A k \in Names : inst'[k].cancel = inst[k].cancel /\ (k # n => inst'[k] = inst[k])
    BY <1>0, <2>1, <2>2 DEF Instances
  <2>4. CASE m[1] = "running"
    <3>1. del' = [d \in Dels |-> [del[d] EXCEPT !.ran = @ \ {n}]]
      BY <2>1, <2>4
    <3>2. Remove!Running \ {n} \subseteq Remove!Running'
      BY <2>3 DEF Remove!Running, Remove!ListByNamePrefix
    <3> QED
      BY <2>3, <3>1, <3>2, NoMore
  <2>5. CASE m[1] # "running"
    <3>1. del' = [d \in Dels |-> del[d]]
      BY <1>0, <2>1, <2>5 DEF Requests
    <3>2. n \notin Remove!Running
      BY <2>1, <2>5 DEF Remove!Running, Remove!instanceRunning
    <3>3. Remove!Running \subseteq Remove!Running'
      BY <2>3, <3>2 DEF Remove!Running, Remove!ListByNamePrefix
    <3> QED
      BY <1>0, <2>3, <3>1, <3>3, SameRequests
  <2> QED
    BY <2>4, <2>5
<1>7. ASSUME NEW n \in Names, Remove!Terminated(n) PROVE DeleteInv'
  <2>1. inst' = [inst EXCEPT ![n].st = "gone"] /\ del' = [d \in Dels |-> [del[d] EXCEPT !.ran = @ \ {n}]]
    BY <1>7 DEF Remove!Terminated
  <2>2. /\ inst' \in [Names -> Instances]
        /\ \A k \in Names : inst'[k].cancel = inst[k].cancel /\ (k # n => inst'[k] = inst[k])
    BY <1>0, <2>1 DEF Instances
  <2>3. Remove!Running \ {n} \subseteq Remove!Running'
    BY <2>2 DEF Remove!Running, Remove!ListByNamePrefix
  <2> QED
    BY <2>1, <2>2, <2>3, NoMore
<1>8. ASSUME NEW n \in Names, Remove!CancelledElsewhere(n) PROVE DeleteInv'
  <2>1. PICK form \in CancelForms : inst' = [inst EXCEPT ![n].cancel = form]
    BY <1>8 DEF Remove!CancelledElsewhere
  <2>2. /\ inst' \in [Names -> Instances] /\ UNCHANGED del
        /\ \A k \in Names : inst'[k].st = inst[k].st
        /\ \A k \in Names : inst[k].cancel # "none" => inst'[k].cancel # "none"
    BY <1>0, <1>8, <2>1 DEF Instances, Remove!CancelledElsewhere
  <2>3. Remove!Running \subseteq Remove!Running'
    BY <2>2 DEF Remove!Running, Remove!ListByNamePrefix
  <2> QED
    BY <1>0, <2>2, <2>3, SameRequests
<1> QED
  BY <1>1, <1>2, <1>3, <1>4, <1>5, <1>6, <1>7, <1>8 DEF Remove!Next, Remove!RequestStep

\* A step of another part leaves this one as it is.
LEMMA DeleteNext == DeleteInv /\ [Next]_vars => DeleteInv'
<1> SUFFICES ASSUME DeleteInv, [Next]_vars PROVE DeleteInv'
  OBVIOUS
<1>1. Remove!Next \/ UNCHANGED deleteVars
  BY DEF Next, Only, vars
<1>2. CASE UNCHANGED deleteVars
  BY <1>2 DEF deleteVars, DeleteInv, DeleteTypes, Guarded, Remove!Running, Remove!ListByNamePrefix
<1> QED
  BY <1>1, <1>2, DeleteStep

\* The guards of NodeGroupDeleteNodes hold for any number of overlapping requests: one
\* that names a foreign node cancels nothing, and none cancels an instance that has been
\* running, or had a cancelDate, ever since the request arrived.
THEOREM DeletesGuarded == Spec => []DeletesAreGuarded
<1>1. DeleteInv => DeletesAreGuarded
  BY DEF DeleteInv, Guarded, DeletesAreGuarded, Remove!RejectedWhole, Remove!RunningKept, Remove!CancelledOnce
<1> QED
  BY <1>1, DeleteInit, DeleteNext, PTL DEF Spec

------------------------------------------------------------------------------
(* The client's Create                                                     *)

Phases == {"idle", "token", "post", "invalidate", "retoken", "repost", "poll", "resolve", "lookup",
           "createTag", "relookup", "assign", "attach", "rollback", "ok", "failed"}
Orders == [st : {"none", "hidden", "shown"}, tagged : BOOLEAN, attached : BOOLEAN, cancelled : BOOLEAN]
Creates == [pc : Phases, tok : {"none", "good", "revoked"}, tries : Nat, tag : {"none", "id", "zero"},
            expired : BOOLEAN, hit : BOOLEAN]

CreateTypes ==
    /\ cloud \in [Names -> Orders] /\ call \in [Names -> Creates]
    /\ tok \in {"none", "good", "revoked"} /\ tagCache \in {"none", "id", "zero"}

\* How far a create has come, and what Contabo holds under its name by then.
Stage(pc, o) ==
    /\ pc \in {"idle", "token", "post", "invalidate", "retoken", "repost"} => o.st = "none"
    /\ pc \in {"resolve", "lookup", "createTag", "relookup", "assign", "attach", "ok"} => o.st = "shown"
    /\ pc \in {"poll", "rollback"} => o.st # "none"
    /\ o.cancelled => pc = "failed"
    /\ pc \in {"attach", "ok"} => o.tagged
    /\ pc = "ok" /\ Private => o.attached

Ordered(n) == Stage(call[n].pc, cloud[n])

CreateInv == CreateTypes /\ \A n \in Names : Ordered(n)

LEMMA CreateInit == Init => CreateInv /\ Create!Contract!Init
<1> SUFFICES ASSUME Init PROVE CreateInv /\ Create!Contract!Init
  OBVIOUS
<1>1. Create!Init
  BY DEF Init
<1>2. /\ cloud = [n \in Names |-> [st |-> "none", tagged |-> FALSE, attached |-> FALSE, cancelled |-> FALSE]]
      /\ call = [n \in Names |-> Create!IdleCall] /\ tok = "none" /\ tagCache = "none"
  BY <1>1 DEF Create!Init
<1>3. CreateTypes
  BY <1>2 DEF CreateTypes, Orders, Creates, Phases, Create!IdleCall
<1>4. \A n \in Names : Ordered(n)
  BY <1>2 DEF Ordered, Stage, Create!IdleCall
<1>5. Create!Contract!Init
  BY <1>2 DEF Create!Contract!Init, Create!IdleCall, Create!Outcomes
<1> QED
  BY <1>3, <1>4, <1>5 DEF CreateInv

\* What the contract sees of an order and its create, and how one create moves in it.
Seen(o, r) ==
    [order |-> o.st, cancelled |-> o.cancelled, broken |-> r.expired \/ r.hit,
     result |-> IF r.pc \in {"ok", "failed", "idle"} THEN r.pc ELSE "running"]

ContractStep(a, b) ==
    \/ /\ b.order = a.order /\ b.cancelled = a.cancelled /\ b.result = a.result       \* Break, or none
       /\ b.broken = a.broken \/ (b.broken = TRUE /\ a.result = "running")
    \/ /\ a.result = "idle" /\ b.result = "running"                                 \* Begin
       /\ b.order = a.order /\ b.cancelled = a.cancelled /\ b.broken = a.broken
    \/ /\ a.order = "hidden" /\ b.order = "shown"                                   \* Show
       /\ b.cancelled = a.cancelled /\ b.broken = a.broken /\ b.result = a.result
    \/ /\ a.result = "running" /\ a.order = "none" /\ b.order = "hidden"             \* Accept
       /\ b.cancelled = a.cancelled
       /\ \/ b.broken = a.broken /\ b.result = "running"
          \/ b.broken = TRUE /\ b.result = "failed"
    \/ /\ a.result = "running" /\ a.order # "none" /\ b.order = a.order             \* Cancel
       /\ b.cancelled = TRUE /\ b.result = "failed"
       /\ b.broken = a.broken \/ b.broken = TRUE
    \/ /\ a.result = "running" /\ a.order = "shown" /\ ~a.cancelled                 \* Succeed
       /\ b.order = a.order /\ b.cancelled = a.cancelled /\ b.broken = a.broken /\ b.result = "ok"
    \/ /\ a.result = "running" /\ b.result = "failed"                               \* Fail
       /\ b.order = a.order /\ b.cancelled = a.cancelled
       /\ \/ b.broken = a.broken /\ a.order \in {"none", "hidden"}
          \/ b.broken = TRUE

\* A step of one create is a step of the contract, or none.
LEMMA OneOfContract ==
    ASSUME CreateTypes, NEW n \in Names, NEW o \in Orders, NEW r \in Creates,
           cloud' = [cloud EXCEPT ![n] = o], call' = [call EXCEPT ![n] = r],
           ContractStep(Seen(cloud[n], call[n]), Seen(o, r))
    PROVE  [Create!Contract!Next]_(Create!Contract!vars)
<1> DEFINE order == [k \in Names |-> cloud[k].st]
           cancelled == {k \in Names : cloud[k].cancelled}
           broken == {k \in Names : call[k].expired \/ call[k].hit}
           result == [k \in Names |-> IF call[k].pc \in Create!Outcomes \cup {"idle"}
                                      THEN call[k].pc ELSE "running"]
           a == Seen(cloud[n], call[n])
           b == Seen(o, r)
<1>1. /\ cloud \in [Names -> Orders] /\ call \in [Names -> Creates]
      /\ cloud'[n] = o /\ call'[n] = r
      /\ \A k \in Names \ {n} : cloud'[k] = cloud[k] /\ call'[k] = call[k]
  BY DEF CreateTypes
<1>2. /\ order[n] = a.order /\ (n \in cancelled <=> a.cancelled) /\ (n \in broken <=> a.broken)
      /\ result[n] = a.result
  BY <1>1 DEF Seen, Create!Outcomes
<1>3. /\ order' = [order EXCEPT ![n] = b.order]
      /\ result' = [result EXCEPT ![n] = b.result]
  BY <1>1 DEF Seen, Create!Outcomes
<1>4. /\ cancelled' = IF b.cancelled THEN cancelled \cup {n} ELSE cancelled \ {n}
      /\ broken' = IF b.broken THEN broken \cup {n} ELSE broken \ {n}
  BY <1>1 DEF Seen
<1>5. /\ a.order \in {"none", "hidden", "shown"} /\ a.cancelled \in BOOLEAN /\ a.broken \in BOOLEAN
      /\ a = [order |-> a.order, cancelled |-> a.cancelled, broken |-> a.broken, result |-> a.result]
      /\ order = [order EXCEPT ![n] = order[n]] /\ result = [result EXCEPT ![n] = result[n]]
  BY <1>1 DEF Seen, Orders, Creates
<1> HIDE DEF a, b
<1>6. CASE /\ b.order = a.order /\ b.cancelled = a.cancelled /\ b.result = a.result
           /\ b.broken = a.broken \/ (b.broken = TRUE /\ a.result = "running")
  <2>1. UNCHANGED <<order, cancelled, result>>
    BY <1>2, <1>3, <1>4, <1>5, <1>6
  <2>2. CASE b.broken = a.broken
    <3>1. UNCHANGED broken
      BY <1>2, <1>4, <2>2
    <3> QED
      BY <2>1, <3>1 DEF Create!Contract!vars
  <2>3. CASE b.broken = TRUE /\ a.result = "running"
    <3>1. result[n] = "running" /\ broken' = broken \cup {n}
      BY <1>2, <1>4, <2>3
    <3> QED
      BY <2>1, <3>1 DEF Create!Contract!Next, Create!Contract!Break
  <2> QED
    BY <1>6, <2>2, <2>3
<1>7. CASE /\ a.result = "idle" /\ b.result = "running"
           /\ b.order = a.order /\ b.cancelled = a.cancelled /\ b.broken = a.broken
  <2>1. /\ result[n] = "idle" /\ result' = [result EXCEPT ![n] = "running"]
        /\ UNCHANGED <<order, cancelled, broken>>
    BY <1>2, <1>3, <1>4, <1>5, <1>7
  <2> QED
    BY <2>1 DEF Create!Contract!Next, Create!Contract!Begin
<1>8. CASE /\ a.order = "hidden" /\ b.order = "shown"
           /\ b.cancelled = a.cancelled /\ b.broken = a.broken /\ b.result = a.result
  <2>1. /\ order[n] = "hidden" /\ order' = [order EXCEPT ![n] = "shown"]
        /\ UNCHANGED <<cancelled, broken, result>>
    BY <1>2, <1>3, <1>4, <1>5, <1>8
  <2> QED
    BY <2>1 DEF Create!Contract!Next, Create!Contract!Show
<1>9. CASE /\ a.result = "running" /\ a.order = "none" /\ b.order = "hidden"
           /\ b.cancelled = a.cancelled
           /\ \/ b.broken = a.broken /\ b.result = "running"
              \/ b.broken = TRUE /\ b.result = "failed"
  <2>1. /\ result[n] = "running" /\ order[n] = "none" /\ order' = [order EXCEPT ![n] = "hidden"]
        /\ UNCHANGED cancelled
    BY <1>2, <1>3, <1>4, <1>5, <1>9
  <2>2. CASE b.broken = a.broken /\ b.result = "running"
    <3>1. UNCHANGED <<broken, result>>
      BY <1>2, <1>3, <1>4, <1>5, <1>9, <2>2
    <3> QED
      BY <2>1, <3>1 DEF Create!Contract!Next, Create!Contract!Accept
  <2>3. CASE b.broken = TRUE /\ b.result = "failed"
    <3>1. broken' = broken \cup {n} /\ result' = [result EXCEPT ![n] = "failed"]
      BY <1>3, <1>4, <2>3
    <3> QED
      BY <2>1, <3>1 DEF Create!Contract!Next, Create!Contract!Accept
  <2> QED
    BY <1>9, <2>2, <2>3
<1>10. CASE /\ a.result = "running" /\ a.order # "none" /\ b.order = a.order
            /\ b.cancelled = TRUE /\ b.result = "failed"
            /\ b.broken = a.broken \/ b.broken = TRUE
  <2>1. /\ result[n] = "running" /\ order[n] # "none" /\ cancelled' = cancelled \cup {n}
        /\ result' = [result EXCEPT ![n] = "failed"] /\ UNCHANGED order
    BY <1>2, <1>3, <1>4, <1>5, <1>10
  <2>2. UNCHANGED broken \/ broken' = broken \cup {n}
    BY <1>2, <1>4, <1>10
  <2> QED
    BY <2>1, <2>2 DEF Create!Contract!Next, Create!Contract!Cancel
<1>11. CASE /\ a.result = "running" /\ a.order = "shown" /\ ~a.cancelled
            /\ b.order = a.order /\ b.cancelled = a.cancelled /\ b.broken = a.broken /\ b.result = "ok"
  <2>1. /\ result[n] = "running" /\ order[n] = "shown" /\ n \notin cancelled
        /\ result' = [result EXCEPT ![n] = "ok"] /\ UNCHANGED <<order, cancelled, broken>>
    BY <1>2, <1>3, <1>4, <1>5, <1>11
  <2> QED
    BY <2>1 DEF Create!Contract!Next, Create!Contract!Succeed
<1>12. CASE /\ a.result = "running" /\ b.result = "failed"
            /\ b.order = a.order /\ b.cancelled = a.cancelled
            /\ \/ b.broken = a.broken /\ a.order \in {"none", "hidden"}
               \/ b.broken = TRUE
  <2>1. result[n] = "running" /\ result' = [result EXCEPT ![n] = "failed"] /\ UNCHANGED <<order, cancelled>>
    BY <1>2, <1>3, <1>4, <1>5, <1>12
  <2>2. /\ UNCHANGED broken \/ broken' = broken \cup {n}
        /\ order[n] = "none" \/ order[n] = "hidden" \/ n \in broken'
    BY <1>2, <1>4, <1>12
  <2> QED
    BY <2>1, <2>2 DEF Create!Contract!Next, Create!Contract!Fail
<1>13. ContractStep(a, b)
  BY DEF a, b
<1> QED
  BY <1>6, <1>7, <1>8, <1>9, <1>10, <1>11, <1>12, <1>13 DEF ContractStep

LEMMA CreateMoves ==
    ASSUME CreateInv, NEW n \in Names, NEW o \in Orders, NEW r \in Creates,
           cloud' = [cloud EXCEPT ![n] = o], call' = [call EXCEPT ![n] = r],
           tok' \in {"none", "good", "revoked"}, tagCache' \in {"none", "id", "zero"},
           ContractStep(Seen(cloud[n], call[n]), Seen(o, r)), Stage(r.pc, o)
    PROVE  CreateInv' /\ [Create!Contract!Next]_(Create!Contract!vars)
<1>1. [Create!Contract!Next]_(Create!Contract!vars)
  BY OneOfContract DEF CreateInv
<1>2. CreateTypes'
  BY DEF CreateInv, CreateTypes
<1>3. ASSUME NEW k \in Names PROVE Ordered(k)'
  <2>1. CASE k = n
    BY <2>1 DEF CreateInv, CreateTypes, Ordered
  <2>2. CASE k # n
    <3>1. cloud'[k] = cloud[k] /\ call'[k] = call[k] /\ Ordered(k)
      BY <2>2 DEF CreateInv, CreateTypes
    <3> QED
      BY <3>1 DEF Ordered
  <2> QED
    BY <2>1, <2>2
<1> QED
  BY <1>1, <1>2, <1>3 DEF CreateInv

\* A create goes on: only its place, the flags of its order and what is broken change.
\* From here on, the new place is one of a set, and hit says whether a call failed.
Goes(n, places, hit) ==
    \E r \in Creates :
        /\ call' = [call EXCEPT ![n] = r]
        /\ r.pc \in places /\ r.expired = call[n].expired /\ (call[n].hit \/ hit => r.hit)

SharedTypes == tok' \in {"none", "good", "revoked"} /\ tagCache' \in {"none", "id", "zero"}

UnderWay == Phases \ {"idle", "ok", "failed"}

LEMMA CreateGoesOn ==
    ASSUME CreateInv, NEW n \in Names, NEW o \in Orders, NEW places \in SUBSET UnderWay, NEW hit,
           cloud' = [cloud EXCEPT ![n] = o], Goes(n, places, hit), SharedTypes,
           o.st = cloud[n].st, o.cancelled = cloud[n].cancelled,
           call[n].pc \in UnderWay, \A pc \in places : Stage(pc, o)
    PROVE  CreateInv' /\ [Create!Contract!Next]_(Create!Contract!vars)
<1>1. PICK r \in Creates :
        /\ call' = [call EXCEPT ![n] = r]
        /\ r.pc \in places /\ r.expired = call[n].expired /\ (call[n].hit \/ hit => r.hit)
  BY DEF Goes
<1>2. /\ Seen(o, r).order = Seen(cloud[n], call[n]).order
      /\ Seen(o, r).cancelled = Seen(cloud[n], call[n]).cancelled
      /\ Seen(o, r).result = "running" /\ Seen(cloud[n], call[n]).result = "running"
      /\ \/ Seen(o, r).broken = Seen(cloud[n], call[n]).broken
         \/ Seen(o, r).broken = TRUE
  BY <1>1 DEF Seen, CreateInv, CreateTypes, Creates, UnderWay
<1>3. ContractStep(Seen(cloud[n], call[n]), Seen(o, r))
  BY <1>2 DEF ContractStep
<1> QED
  BY <1>1, <1>3, CreateMoves DEF SharedTypes

LEMMA CreateWaits ==
    ASSUME CreateInv, NEW n \in Names, NEW places \in SUBSET UnderWay, NEW hit,
           UNCHANGED cloud, Goes(n, places, hit), SharedTypes,
           call[n].pc \in UnderWay, \A pc \in places : Stage(pc, cloud[n])
    PROVE  CreateInv' /\ [Create!Contract!Next]_(Create!Contract!vars)
<1>1. cloud[n] \in Orders /\ cloud' = [cloud EXCEPT ![n] = cloud[n]]
  BY DEF CreateInv, CreateTypes
<1> QED
  BY <1>1, CreateGoesOn

LEMMA BadEnd ==
    ASSUME NEW a, NEW b, a.result = "running", b.result = "failed",
           b.broken = a.broken \/ b.broken = TRUE,
           \/ /\ b.order = a.order /\ b.cancelled = a.cancelled
              /\ b.broken = TRUE \/ a.order \in {"none", "hidden"}
           \/ a.order = "none" /\ b.order = "hidden" /\ b.cancelled = a.cancelled /\ b.broken = TRUE
           \/ a.order # "none" /\ b.order = a.order /\ b.cancelled = TRUE
    PROVE  ContractStep(a, b)
  BY DEF ContractStep

\* A create ends badly: without an order, with one that no GET has shown, with a
\* cancellation, or broken.
LEMMA CreateFails ==
    ASSUME CreateInv, NEW n \in Names, NEW o \in Orders, NEW hit \in BOOLEAN,
           cloud' = [cloud EXCEPT ![n] = o], Goes(n, {"failed"}, hit), SharedTypes,
           call[n].pc \notin {"idle", "ok", "failed"},
           \/ o = cloud[n] /\ (o.st # "shown" \/ hit \/ call[n].expired)
           \/ o = [cloud[n] EXCEPT !.st = "hidden"] /\ cloud[n].st = "none" /\ hit
           \/ o = [cloud[n] EXCEPT !.cancelled = TRUE] /\ cloud[n].st # "none"
    PROVE  CreateInv' /\ [Create!Contract!Next]_(Create!Contract!vars)
<1>0. PICK r \in Creates :
        /\ call' = [call EXCEPT ![n] = r]
        /\ r.pc = "failed" /\ r.expired = call[n].expired /\ (call[n].hit \/ hit => r.hit)
  BY DEF Goes
<1> DEFINE a == Seen(cloud[n], call[n])
           b == Seen(o, r)
<1>1. /\ cloud[n] \in Orders /\ call[n] \in Creates /\ Ordered(n)
      /\ cloud'[n] = o /\ call'[n] = r
  BY <1>0 DEF CreateInv, CreateTypes
<1>2. /\ a.result = "running" /\ b.result = "failed"
      /\ b.broken = a.broken \/ b.broken = TRUE
      /\ a.order = cloud[n].st /\ a.cancelled = cloud[n].cancelled
      /\ b.order = o.st /\ b.cancelled = o.cancelled /\ b.broken = (r.expired \/ r.hit)
  BY <1>0, <1>1 DEF Seen, Creates
<1>3. Stage(r.pc, o)
  BY <1>0, <1>1 DEF Ordered, Stage, Orders
<1> HIDE DEF a, b
<1>4. \/ /\ b.order = a.order /\ b.cancelled = a.cancelled
         /\ b.broken = TRUE \/ a.order \in {"none", "hidden"}
      \/ a.order = "none" /\ b.order = "hidden" /\ b.cancelled = a.cancelled /\ b.broken = TRUE
      \/ a.order # "none" /\ b.order = a.order /\ b.cancelled = TRUE
  <2>1. CASE o = cloud[n] /\ (o.st # "shown" \/ hit \/ call[n].expired)
    <3>1. b.order = a.order /\ b.cancelled = a.cancelled
      BY <1>2, <2>1
    <3>2. b.broken = TRUE \/ a.order \in {"none", "hidden"}
      BY <1>0, <1>1, <1>2, <2>1 DEF Orders
    <3> QED
      BY <3>1, <3>2
  <2>2. CASE o = [cloud[n] EXCEPT !.st = "hidden"] /\ cloud[n].st = "none" /\ hit
    BY <1>0, <1>1, <1>2, <2>2 DEF Orders
  <2>3. CASE o = [cloud[n] EXCEPT !.cancelled = TRUE] /\ cloud[n].st # "none"
    BY <1>0, <1>1, <1>2, <2>3 DEF Orders
  <2>4. \/ o = cloud[n] /\ (o.st # "shown" \/ hit \/ call[n].expired)
        \/ o = [cloud[n] EXCEPT !.st = "hidden"] /\ cloud[n].st = "none" /\ hit
        \/ o = [cloud[n] EXCEPT !.cancelled = TRUE] /\ cloud[n].st # "none"
    OBVIOUS
  <2> QED
    BY <2>1, <2>2, <2>3, <2>4
<1>5. ContractStep(a, b)
  BY <1>2, <1>4, BadEnd
<1> QED
  BY <1>0, <1>3, <1>5, CreateMoves DEF a, b, SharedTypes

\* How the client's steps change a create's local variables.
LEMMA Places ==
    ASSUME CreateTypes, NEW n \in Names, NEW pc \in Phases, NEW hit \in BOOLEAN
    PROVE  /\ call' = Create!GoTo(n, pc) => Goes(n, {pc}, FALSE)
           /\ call' = Create!HitAt(n, pc) => Goes(n, {pc}, TRUE)
           /\ call' = Create!Retry(n, hit, pc) => Goes(n, {call[n].pc, pc}, hit)
<1>0. call[n] \in Creates
  BY DEF CreateTypes
<1>1. ASSUME call' = Create!GoTo(n, pc) PROVE Goes(n, {pc}, FALSE)
  <2>1. [call[n] EXCEPT !.pc = pc, !.tries = 0] \in Creates
    BY <1>0 DEF Creates
  <2> QED
    BY <1>0, <1>1, <2>1 DEF Goes, Create!GoTo, Creates
<1>2. ASSUME call' = Create!HitAt(n, pc) PROVE Goes(n, {pc}, TRUE)
  <2>1. [call[n] EXCEPT !.pc = pc, !.tries = 0, !.hit = TRUE] \in Creates
    BY <1>0 DEF Creates
  <2> QED
    BY <1>0, <1>2, <2>1 DEF Goes, Create!HitAt, Creates
<1>3. ASSUME call' = Create!Retry(n, hit, pc) PROVE Goes(n, {call[n].pc, pc}, hit)
  <2> DEFINE again == [call[n] EXCEPT !.tries = @ + 1, !.hit = @ \/ hit]
             after == [call[n] EXCEPT !.tries = 0, !.hit = @ \/ hit, !.pc = pc]
  <2>1. again \in Creates /\ again.pc = call[n].pc /\ again.expired = call[n].expired /\ again.hit = (call[n].hit \/ hit)
    <3>1. call[n].tries + 1 \in Nat /\ (call[n].hit \/ hit) \in BOOLEAN
      BY <1>0 DEF Creates
    <3> QED
      BY <1>0, <3>1 DEF Creates
  <2>2. after \in Creates /\ after.pc = pc /\ after.expired = call[n].expired /\ after.hit = (call[n].hit \/ hit)
    BY <1>0 DEF Creates
  <2>3. call' = [call EXCEPT ![n] = again] \/ call' = [call EXCEPT ![n] = after]
    BY <1>3 DEF Create!Retry
  <2> HIDE DEF again, after
  <2> QED
    BY <2>1, <2>2, <2>3 DEF Goes
<1> QED
  BY <1>1, <1>2, <1>3

LEMMA SameCloud ==
    ASSUME CreateTypes, NEW n \in Names
    PROVE  /\ cloud[n] \in Orders /\ call[n] \in Creates
           /\ cloud' = cloud => cloud' = [cloud EXCEPT ![n] = cloud[n]]
  BY DEF CreateTypes

\* The steps up to the order.
LEMMA OrderSteps ==
    ASSUME CreateInv, NEW n \in Names,
           Create!token(n) \/ Create!invalidateToken(n) \/ Create!Post(n)
    PROVE  CreateInv' /\ [Create!Contract!Next]_(Create!Contract!vars)
<1>0. /\ CreateTypes /\ Ordered(n) /\ cloud[n] \in Orders /\ call[n] \in Creates
      /\ Stage(call[n].pc, cloud[n])
      /\ cloud' = cloud => cloud' = [cloud EXCEPT ![n] = cloud[n]]
  BY SameCloud DEF CreateInv, Ordered
<1>1. CASE Create!token(n)
  <2>1. call[n].pc \in {"token", "retoken"} /\ cloud' = cloud /\ cloud[n].st = "none" /\ SharedTypes
    BY <1>0, <1>1 DEF Create!token, Stage, CreateTypes, SharedTypes
  <2>2. CASE Create!Fails(n) /\ call' = Create!HitAt(n, "failed")
    BY <1>0, <2>1, <2>2, Places, CreateFails DEF Phases
  <2>3. CASE \E t \in {"none", "good", "revoked"} :
               call' = [call EXCEPT ![n] = [call[n] EXCEPT !.tok = t, !.pc = IF @ = "token" THEN "post" ELSE "repost"]]
    <3>1. PICK t \in {"none", "good", "revoked"} :
            call' = [call EXCEPT ![n] = [call[n] EXCEPT !.tok = t, !.pc = IF @ = "token" THEN "post" ELSE "repost"]]
      BY <2>3
    <3> DEFINE r == [call[n] EXCEPT !.tok = t, !.pc = IF @ = "token" THEN "post" ELSE "repost"]
    <3>2. r \in Creates /\ r.pc \in {"post", "repost"} /\ r.expired = call[n].expired /\ r.hit = call[n].hit
      BY <1>0 DEF Creates, Phases
    <3>3. Goes(n, {"post", "repost"}, FALSE)
      BY <3>1, <3>2 DEF Goes
    <3>4. \A pc \in {"post", "repost"} : Stage(pc, cloud[n])
      BY <1>0, <2>1 DEF Stage
    <3>5. {"post", "repost"} \in SUBSET UnderWay /\ call[n].pc \in UnderWay
      BY <2>1 DEF UnderWay, Phases
    <3> QED
      BY <2>1, <3>3, <3>4, <3>5, CreateWaits
  <2> QED
    BY <1>0, <1>1, <2>2, <2>3 DEF Create!token, CreateTypes
<1>2. CASE Create!invalidateToken(n)
  <2>1. call[n].pc = "invalidate" /\ cloud' = cloud /\ SharedTypes /\ Goes(n, {"retoken"}, FALSE)
    BY <1>0, <1>2, Places DEF Create!invalidateToken, Create!At, CreateTypes, SharedTypes, Phases
  <2>2. \A pc \in {"retoken"} : Stage(pc, cloud[n])
    BY <1>0, <2>1 DEF Stage
  <2>3. {"retoken"} \in SUBSET UnderWay /\ call[n].pc \in UnderWay
    BY <2>1 DEF UnderWay, Phases
  <2> QED
    BY <2>1, <2>2, <2>3, CreateWaits
<1>3. CASE Create!Post(n)
  <2>1. call[n].pc \in {"post", "repost"} /\ cloud[n].st = "none" /\ SharedTypes
    BY <1>0, <1>3 DEF Create!Post, Stage, CreateTypes, SharedTypes
  <2> DEFINE o == [cloud[n] EXCEPT !.st = "hidden"]
  <2>2. o \in Orders /\ o.st = "hidden" /\ o.cancelled = cloud[n].cancelled
    BY <1>0 DEF Orders
  <2>3. [cloud EXCEPT ![n].st = "hidden"] = [cloud EXCEPT ![n] = o]
    BY <1>0 DEF CreateTypes
  <2> HIDE DEF o
  <2>4. CASE cloud' = [cloud EXCEPT ![n].st = "hidden"] /\ call' = Create!GoTo(n, "poll")
    <3>1. PICK r \in Creates : /\ call' = [call EXCEPT ![n] = r] /\ r.pc = "poll"
                               /\ r.expired = call[n].expired /\ r.hit = call[n].hit
      <4> DEFINE g == [call[n] EXCEPT !.pc = "poll", !.tries = 0]
      <4>1. g \in Creates /\ g.pc = "poll" /\ g.expired = call[n].expired /\ g.hit = call[n].hit
        BY <1>0 DEF Creates, Phases
      <4>2. call' = [call EXCEPT ![n] = g]
        BY <2>4 DEF Create!GoTo
      <4> QED
        BY <4>1, <4>2
    <3>2. Stage("poll", o)
      BY <1>0, <2>1, <2>2 DEF Stage
    <3>3. /\ Seen(o, r).order = "hidden" /\ Seen(cloud[n], call[n]).order = "none"
          /\ Seen(o, r).cancelled = Seen(cloud[n], call[n]).cancelled
          /\ Seen(o, r).broken = Seen(cloud[n], call[n]).broken
          /\ Seen(o, r).result = "running" /\ Seen(cloud[n], call[n]).result = "running"
      BY <2>1, <2>2, <3>1 DEF Seen
    <3>4. ContractStep(Seen(cloud[n], call[n]), Seen(o, r))
      BY <3>3 DEF ContractStep
    <3>5. cloud' = [cloud EXCEPT ![n] = o] /\ Stage(r.pc, o)
      BY <2>3, <2>4, <3>1, <3>2
    <3> QED
      BY <2>1, <2>2, <3>1, <3>4, <3>5, CreateMoves DEF SharedTypes
  <2>5. CASE cloud' = cloud /\ (call' = Create!GoTo(n, "failed") \/ call' = Create!HitAt(n, "failed"))
    <3>1. Goes(n, {"failed"}, FALSE) \/ Goes(n, {"failed"}, TRUE)
      BY <1>0, <2>5, Places DEF Phases
    <3> QED
      BY <1>0, <2>1, <2>5, <3>1, CreateFails
  <2>6. CASE cloud' = cloud /\ call' = Create!GoTo(n, "invalidate")
    <3>1. Goes(n, {"invalidate"}, FALSE) /\ \A pc \in {"invalidate"} : Stage(pc, cloud[n])
      BY <1>0, <2>1, <2>6, Places DEF Phases, Stage
    <3>2. {"invalidate"} \in SUBSET UnderWay /\ call[n].pc \in UnderWay
      BY <2>1 DEF UnderWay, Phases
    <3> QED
      BY <2>1, <2>6, <3>1, <3>2, CreateWaits
  <2>7. CASE cloud' = [cloud EXCEPT ![n].st = "hidden"] /\ call' = Create!HitAt(n, "failed")
    <3>1. Goes(n, {"failed"}, TRUE)
      BY <1>0, <2>7, Places DEF Phases
    <3> QED
      BY <2>1, <2>2, <2>3, <2>7, <3>1, CreateFails DEF o
  <2> QED
    BY <1>3, <2>4, <2>5, <2>6, <2>7 DEF Create!Post
<1> QED
  BY <1>1, <1>2, <1>3

\* Waiting for the instance, and the tags.
LEMMA TagSteps ==
    ASSUME CreateInv, NEW n \in Names,
           Create!Poll(n) \/ Create!resolveTagID(n) \/ Create!lookupTagID(n) \/ Create!createTag(n)
    PROVE  CreateInv' /\ [Create!Contract!Next]_(Create!Contract!vars)
<1>0. /\ CreateTypes /\ Ordered(n) /\ cloud[n] \in Orders /\ call[n] \in Creates
      /\ Stage(call[n].pc, cloud[n])
  BY SameCloud DEF CreateInv, Ordered
<1> DEFINE tagging == {"lookup", "relookup", "createTag", "assign", "rollback"}
<1>1. call[n].pc \in UnderWay /\ tagging \in SUBSET UnderWay /\ UNCHANGED cloud /\ SharedTypes
  BY <1>0 DEF Create!Poll, Create!resolveTagID, Create!lookupTagID, Create!createTag, Create!Resolved,
       Create!At, UnderWay, Phases, CreateTypes, SharedTypes
<1>2. CASE Create!Poll(n)
  <2>1. call[n].pc = "poll" /\ cloud[n].st # "none" /\ ~cloud[n].cancelled
    BY <1>0, <1>2 DEF Create!Poll, Create!At, Stage
  <2>2. CASE cloud[n].st = "shown" /\ call' = Create!GoTo(n, "resolve")
    <3>1. Goes(n, {"resolve"}, FALSE)
      BY <1>0, <2>2, Places DEF Phases
    <3>2. {"resolve"} \in SUBSET UnderWay /\ \A pc \in {"resolve"} : Stage(pc, cloud[n])
      BY <2>1, <2>2 DEF Stage, UnderWay, Phases
    <3> QED
      BY <1>1, <3>1, <3>2, CreateWaits
  <2>3. ASSUME NEW hit \in BOOLEAN, call' = Create!Retry(n, hit, "rollback")
        PROVE  CreateInv' /\ [Create!Contract!Next]_(Create!Contract!vars)
    <3>1. Goes(n, {"poll", "rollback"}, hit)
      BY <1>0, <2>1, <2>3, Places DEF Phases
    <3>2. {"poll", "rollback"} \in SUBSET UnderWay /\ \A pc \in {"poll", "rollback"} : Stage(pc, cloud[n])
      BY <2>1 DEF Stage, UnderWay, Phases
    <3> QED
      BY <1>1, <3>1, <3>2, CreateWaits
  <2>4. \/ cloud[n].st = "shown" /\ call' = Create!GoTo(n, "resolve")
        \/ call' = Create!Retry(n, call[n].tok # "good", "rollback")
        \/ call' = Create!Retry(n, TRUE, "rollback")
    BY <1>2 DEF Create!Poll
  <2> QED
    BY <2>2, <2>3, <2>4
<1>3. CASE ~Create!Poll(n)
  <2>1. cloud[n].st = "shown" /\ ~cloud[n].cancelled
    BY <1>0, <1>3 DEF Create!resolveTagID, Create!lookupTagID, Create!createTag, Create!At, Stage
  <2>2. \A pc \in tagging : Stage(pc, cloud[n])
    BY <2>1 DEF Stage
  <2>3. ASSUME NEW tag \in {"none", "id", "zero"},
               call' = [call EXCEPT ![n] = [call[n] EXCEPT !.pc = "assign", !.tag = tag]]
        PROVE  Goes(n, tagging, FALSE)
    <3> DEFINE r == [call[n] EXCEPT !.pc = "assign", !.tag = tag]
    <3>1. r \in Creates /\ r.pc = "assign" /\ r.expired = call[n].expired /\ r.hit = call[n].hit
      BY <1>0 DEF Creates, Phases
    <3> QED
      BY <2>3, <3>1 DEF Goes
  <2>4. ASSUME NEW pc \in tagging, call' = Create!GoTo(n, pc) \/ call' = Create!HitAt(n, pc)
        PROVE  Goes(n, tagging, FALSE)
    <3>1. Goes(n, {pc}, FALSE) \/ Goes(n, {pc}, TRUE)
      BY <1>0, <2>4, Places DEF Phases
    <3> QED
      BY <3>1 DEF Goes
  <2>5. \/ \E pc \in tagging : call' = Create!GoTo(n, pc) \/ call' = Create!HitAt(n, pc)
        \/ \E tag \in {"none", "id", "zero"} :
              call' = [call EXCEPT ![n] = [call[n] EXCEPT !.pc = "assign", !.tag = tag]]
    <3>1. CASE Create!resolveTagID(n)
      BY <1>0, <3>1 DEF Create!resolveTagID, CreateTypes
    <3>2. CASE Create!lookupTagID(n)
      BY <3>2 DEF Create!lookupTagID, Create!Resolved
    <3>3. CASE Create!createTag(n)
      BY <3>3 DEF Create!createTag, Create!Resolved
    <3> QED
      BY <1>3, <3>1, <3>2, <3>3
  <2>6. Goes(n, tagging, FALSE)
    BY <2>3, <2>4, <2>5
  <2> QED
    BY <1>1, <2>2, <2>6, CreateWaits
<1> QED
  BY <1>2, <1>3

\* A create ends well, for an order that is shown and stays.
LEMMA CreateSucceeds ==
    ASSUME CreateInv, NEW n \in Names, NEW o \in Orders,
           cloud' = [cloud EXCEPT ![n] = o], call' = Create!GoTo(n, "ok"), SharedTypes,
           call[n].pc \in UnderWay, o.st = "shown", ~o.cancelled,
           o.st = cloud[n].st, o.cancelled = cloud[n].cancelled, Stage("ok", o)
    PROVE  CreateInv' /\ [Create!Contract!Next]_(Create!Contract!vars)
<1> DEFINE r == [call[n] EXCEPT !.pc = "ok", !.tries = 0]
<1>1. r \in Creates /\ r.pc = "ok" /\ r.expired = call[n].expired /\ r.hit = call[n].hit
  <2>1. call[n] \in Creates
    BY DEF CreateInv, CreateTypes
  <2> QED
    BY <2>1 DEF Creates, Phases
<1>2. call' = [call EXCEPT ![n] = r]
  BY DEF Create!GoTo
<1> HIDE DEF r
<1>3. /\ Seen(o, r).order = Seen(cloud[n], call[n]).order
      /\ Seen(o, r).cancelled = Seen(cloud[n], call[n]).cancelled
      /\ Seen(o, r).broken = Seen(cloud[n], call[n]).broken
      /\ Seen(o, r).result = "ok" /\ Seen(cloud[n], call[n]).result = "running"
      /\ Seen(cloud[n], call[n]).order = "shown" /\ ~Seen(cloud[n], call[n]).cancelled
  BY <1>1 DEF Seen, UnderWay
<1>4. ContractStep(Seen(cloud[n], call[n]), Seen(o, r))
  BY <1>3 DEF ContractStep
<1> QED
  BY <1>1, <1>2, <1>4, CreateMoves, ZenonT(30) DEF SharedTypes

\* One attempt to have a flag of the instance set, o being the order with the flag.
LEMMA AssignSteps ==
    ASSUME CreateInv, NEW n \in Names, NEW o \in Orders, NEW known \in BOOLEAN, NEW then \in {"attach", "ok"},
           Create!Assign(n, known, [cloud EXCEPT ![n] = o], then), SharedTypes,
           call[n].pc \in {"assign", "attach"}, o.st = cloud[n].st, o.cancelled = cloud[n].cancelled, Stage(then, o)
    PROVE  CreateInv' /\ [Create!Contract!Next]_(Create!Contract!vars)
<1>0. /\ CreateTypes /\ cloud[n] \in Orders /\ call[n] \in Creates
      /\ Stage(call[n].pc, cloud[n]) /\ call[n].pc \in UnderWay
      /\ cloud[n].st = "shown" /\ ~cloud[n].cancelled
  BY SameCloud DEF CreateInv, Ordered, Stage, UnderWay, Phases
<1> DEFINE again == {call[n].pc, "rollback"}
<1>1. again \in SUBSET UnderWay /\ \A pc \in again : Stage(pc, cloud[n])
  BY <1>0 DEF Stage, UnderWay, Phases
<1>2. Stage("rollback", o) /\ {"rollback"} \in SUBSET UnderWay
  BY <1>0 DEF Stage, UnderWay, Phases
<1>3. CASE cloud' = [cloud EXCEPT ![n] = o] /\ call' = Create!GoTo(n, then)
  <2>1. CASE then = "ok"
    BY <1>0, <1>3, <2>1, CreateSucceeds
  <2>2. CASE then = "attach"
    <3>1. Goes(n, {"attach"}, FALSE)
      BY <1>0, <1>3, <2>2, Places DEF Phases
    <3>2. {"attach"} \in SUBSET UnderWay /\ \A pc \in {"attach"} : Stage(pc, o)
      BY <2>2 DEF UnderWay, Phases
    <3> QED
      BY <1>0, <1>3, <3>1, <3>2, CreateGoesOn
  <2> QED
    BY <2>1, <2>2
<1>4. ASSUME NEW hit \in BOOLEAN, cloud' = cloud,
             call' = Create!Retry(n, hit, "rollback") \/ call' = Create!HitAt(n, "rollback")
      PROVE  CreateInv' /\ [Create!Contract!Next]_(Create!Contract!vars)
  <2>1. Goes(n, again, hit) \/ Goes(n, {"rollback"}, TRUE)
    BY <1>0, <1>4, Places DEF Phases
  <2>2. Goes(n, again, FALSE)
    BY <2>1 DEF Goes
  <2> QED
    BY <1>0, <1>1, <1>4, <2>2, CreateWaits
<1>5. CASE cloud' = [cloud EXCEPT ![n] = o] /\ call' = Create!HitAt(n, "rollback")
  <2>1. Goes(n, {"rollback"}, TRUE)
    BY <1>0, <1>5, Places DEF Phases
  <2>2. \A pc \in {"rollback"} : Stage(pc, o)
    BY <1>2
  <2> QED
    BY <1>0, <1>2, <1>5, <2>1, <2>2, CreateGoesOn
<1>6. \/ cloud' = [cloud EXCEPT ![n] = o] /\ call' = Create!GoTo(n, then)
      \/ cloud' = cloud /\ call' = Create!Retry(n, FALSE, "rollback")
      \/ cloud' = cloud /\ call' = Create!Retry(n, TRUE, "rollback")
      \/ cloud' = cloud /\ call' = Create!HitAt(n, "rollback")
      \/ cloud' = [cloud EXCEPT ![n] = o] /\ call' = Create!HitAt(n, "rollback")
  BY DEF Create!Assign
<1> QED
  BY <1>3, <1>4, <1>5, <1>6

LEMMA FlagSteps ==
    ASSUME CreateInv, NEW n \in Names,
           Create!assignTagWithRetry(n) \/ Create!assignPrivateNetworkWithRetry(n)
    PROVE  CreateInv' /\ [Create!Contract!Next]_(Create!Contract!vars)
<1>0. /\ CreateTypes /\ cloud[n] \in Orders /\ call[n] \in Creates /\ Stage(call[n].pc, cloud[n])
      /\ cloud \in [Names -> Orders]
  BY SameCloud DEF CreateInv, Ordered, CreateTypes
<1>1. CASE Create!assignTagWithRetry(n)
  <2> DEFINE o == [cloud[n] EXCEPT !.tagged = TRUE]
  <2>1. /\ o \in Orders /\ o.st = cloud[n].st /\ o.cancelled = cloud[n].cancelled /\ o.tagged
        /\ [cloud EXCEPT ![n].tagged = TRUE] = [cloud EXCEPT ![n] = o]
    BY <1>0 DEF Orders
  <2> HIDE DEF o
  <2>2. /\ call[n].pc = "assign" /\ SharedTypes
        /\ Create!Assign(n, call[n].tag = "id", [cloud EXCEPT ![n] = o], Create!AfterTags)
    BY <1>0, <1>1, <2>1 DEF Create!assignTagWithRetry, Create!At, SharedTypes, CreateTypes
  <2>3. Create!AfterTags \in {"attach", "ok"} /\ Stage(Create!AfterTags, o)
    BY <1>0, <2>1, <2>2 DEF Create!AfterTags, Stage
  <2>4. PICK hit \in BOOLEAN : hit = (call[n].tag = "id")
    OBVIOUS
  <2>5. PICK after \in {"attach", "ok"} : after = Create!AfterTags
    BY <2>3
  <2>6. Create!Assign(n, hit, [cloud EXCEPT ![n] = o], after) /\ Stage(after, o)
    BY <2>2, <2>3, <2>4, <2>5
  <2> QED
    BY <2>1, <2>2, <2>6, AssignSteps
<1>2. CASE Create!assignPrivateNetworkWithRetry(n)
  <2> DEFINE o == [cloud[n] EXCEPT !.attached = TRUE]
  <2>1. /\ o \in Orders /\ o.st = cloud[n].st /\ o.cancelled = cloud[n].cancelled
        /\ o.attached /\ o.tagged = cloud[n].tagged
        /\ [cloud EXCEPT ![n].attached = TRUE] = [cloud EXCEPT ![n] = o]
    BY <1>0 DEF Orders
  <2> HIDE DEF o
  <2>2. /\ call[n].pc = "attach" /\ SharedTypes
        /\ Create!Assign(n, TRUE, [cloud EXCEPT ![n] = o], "ok")
    BY <1>0, <1>2, <2>1 DEF Create!assignPrivateNetworkWithRetry, Create!At, SharedTypes, CreateTypes
  <2>3. Stage("ok", o)
    BY <1>0, <2>1, <2>2 DEF Stage
  <2> QED
    BY <2>1, <2>2, <2>3, AssignSteps
<1> QED
  BY <1>1, <1>2

\* The rollback.
LEMMA RollbackSteps ==
    ASSUME CreateInv, NEW n \in Names, Create!Delete(n)
    PROVE  CreateInv' /\ [Create!Contract!Next]_(Create!Contract!vars)
<1>0. /\ CreateTypes /\ cloud[n] \in Orders /\ call[n] \in Creates /\ cloud \in [Names -> Orders]
      /\ call[n].pc = "rollback" /\ cloud[n].st # "none" /\ ~cloud[n].cancelled /\ call[n].pc \in UnderWay
      /\ SharedTypes /\ (cloud' = cloud => cloud' = [cloud EXCEPT ![n] = cloud[n]])
  BY SameCloud DEF CreateInv, Ordered, Stage, Create!Delete, Create!At, CreateTypes, SharedTypes, UnderWay, Phases
<1> DEFINE o == [cloud[n] EXCEPT !.cancelled = TRUE]
<1>1. o \in Orders /\ [cloud EXCEPT ![n].cancelled = TRUE] = [cloud EXCEPT ![n] = o]
  BY <1>0 DEF Orders
<1>2. ASSUME NEW hit \in BOOLEAN, cloud' = cloud, call' = Create!Retry(n, hit, "failed"),
             hit \/ call[n].expired \/ cloud[n].st = "hidden"
      PROVE  CreateInv' /\ [Create!Contract!Next]_(Create!Contract!vars)
  <2>1. Goes(n, {"rollback", "failed"}, hit)
    BY <1>0, <1>2, Places DEF Phases
  <2>2. CASE Goes(n, {"rollback"}, hit)
    <3>1. {"rollback"} \in SUBSET UnderWay /\ \A pc \in {"rollback"} : Stage(pc, cloud[n])
      BY <1>0 DEF Stage, UnderWay, Phases
    <3> QED
      BY <1>0, <1>2, <2>2, <3>1, CreateWaits
  <2>3. CASE Goes(n, {"failed"}, hit)
    BY <1>0, <1>2, <2>3, CreateFails
  <2> QED
    BY <2>1, <2>2, <2>3 DEF Goes
<1>3. CASE /\ cloud' = [cloud EXCEPT ![n].cancelled = TRUE]
           /\ call' = Create!GoTo(n, "failed") \/ call' = Create!HitAt(n, "failed")
  <2>1. Goes(n, {"failed"}, FALSE) \/ Goes(n, {"failed"}, TRUE)
    BY <1>0, <1>3, Places DEF Phases
  <2>2. Goes(n, {"failed"}, FALSE)
    BY <2>1 DEF Goes
  <2>3. cloud' = [cloud EXCEPT ![n] = o]
    BY <1>1, <1>3
  <2> QED
    BY <1>0, <1>1, <2>2, <2>3, CreateFails
<1>4. CASE cloud' = cloud /\ call' = Create!HitAt(n, "failed")
  <2>1. Goes(n, {"failed"}, TRUE)
    BY <1>0, <1>4, Places DEF Phases
  <2> QED
    BY <1>0, <1>4, <2>1, CreateFails
<1>5. \/ cloud' = cloud /\ call' = Create!HitAt(n, "failed")
      \/ cloud' = cloud /\ call' = Create!Retry(n, TRUE, "failed")
      \/ cloud' = cloud /\ call' = Create!Retry(n, FALSE, "failed") /\ cloud[n].st = "hidden"
      \/ cloud' = [cloud EXCEPT ![n].cancelled = TRUE] /\ call' = Create!GoTo(n, "failed")
      \/ cloud' = [cloud EXCEPT ![n].cancelled = TRUE] /\ call' = Create!HitAt(n, "failed")
  BY DEF Create!Delete
<1> QED
  BY <1>2, <1>3, <1>4, <1>5

\* Steps that concern no create's order.
LEMMA CreateLeftAlone ==
    ASSUME CreateInv, UNCHANGED cloud, SharedTypes, call' \in [Names -> Creates],
           \A n \in Names : /\ call'[n].pc = call[n].pc /\ call'[n].hit = call[n].hit
                            /\ call'[n].expired = call[n].expired
    PROVE  CreateInv' /\ UNCHANGED Create!Contract!vars
<1>1. CreateTypes'
  BY DEF CreateInv, CreateTypes, SharedTypes
<1>2. \A n \in Names : Ordered(n)'
  BY DEF CreateInv, Ordered
<1>3. UNCHANGED Create!Contract!vars
  BY DEF Create!Contract!vars
<1> QED
  BY <1>1, <1>2, <1>3 DEF CreateInv

LEMMA OutsideSteps ==
    ASSUME CreateInv, NEW n \in Names, Create!Create(n) \/ Create!Show(n) \/ Create!Expire(n)
    PROVE  CreateInv' /\ [Create!Contract!Next]_(Create!Contract!vars)
<1>0. /\ CreateTypes /\ cloud[n] \in Orders /\ call[n] \in Creates
      /\ Stage(call[n].pc, cloud[n]) /\ SharedTypes
      /\ cloud' = cloud => cloud' = [cloud EXCEPT ![n] = cloud[n]]
      /\ call' = call => call' = [call EXCEPT ![n] = call[n]]
  BY SameCloud DEF CreateInv, Ordered, CreateTypes, SharedTypes, Create!Create, Create!Show, Create!Expire
<1>1. CASE Create!Create(n)
  <2> DEFINE r == [call[n] EXCEPT !.pc = "token", !.tries = 0]
  <2>1. r \in Creates /\ r.pc = "token" /\ r.expired = call[n].expired /\ r.hit = call[n].hit
    BY <1>0 DEF Creates, Phases
  <2>2. call[n].pc = "idle" /\ call' = [call EXCEPT ![n] = r] /\ cloud' = cloud
    BY <1>1 DEF Create!Create, Create!At, Create!GoTo
  <2> HIDE DEF r
  <2>3. /\ Seen(cloud[n], r).order = Seen(cloud[n], call[n]).order
        /\ Seen(cloud[n], r).cancelled = Seen(cloud[n], call[n]).cancelled
        /\ Seen(cloud[n], r).broken = Seen(cloud[n], call[n]).broken
        /\ Seen(cloud[n], r).result = "running" /\ Seen(cloud[n], call[n]).result = "idle"
    BY <2>1, <2>2 DEF Seen
  <2>4. ContractStep(Seen(cloud[n], call[n]), Seen(cloud[n], r)) /\ Stage(r.pc, cloud[n])
    BY <1>0, <2>1, <2>2, <2>3 DEF ContractStep, Stage
  <2> QED
    BY <1>0, <2>1, <2>2, <2>4, CreateMoves DEF SharedTypes
<1>2. CASE Create!Show(n)
  <2> DEFINE o == [cloud[n] EXCEPT !.st = "shown"]
  <2>1. /\ o \in Orders /\ o.st = "shown" /\ o.cancelled = cloud[n].cancelled
        /\ o.tagged = cloud[n].tagged /\ o.attached = cloud[n].attached
    BY <1>0 DEF Orders
  <2>2. cloud[n].st = "hidden" /\ cloud' = [cloud EXCEPT ![n] = o] /\ call' = call
    BY <1>0, <1>2 DEF Create!Show, CreateTypes
  <2> HIDE DEF o
  <2>3. /\ Seen(cloud[n], call[n]).order = "hidden" /\ Seen(o, call[n]).order = "shown"
        /\ Seen(o, call[n]).cancelled = Seen(cloud[n], call[n]).cancelled
        /\ Seen(o, call[n]).broken = Seen(cloud[n], call[n]).broken
        /\ Seen(o, call[n]).result = Seen(cloud[n], call[n]).result
    BY <2>1, <2>2 DEF Seen
  <2>4. ContractStep(Seen(cloud[n], call[n]), Seen(o, call[n])) /\ Stage(call[n].pc, o)
    BY <1>0, <2>1, <2>2, <2>3 DEF ContractStep, Stage
  <2> QED
    BY <1>0, <2>1, <2>2, <2>4, CreateMoves DEF SharedTypes
<1>3. CASE Create!Expire(n)
  <2> DEFINE r == [call[n] EXCEPT !.expired = TRUE]
  <2>1. r \in Creates /\ r.pc = call[n].pc /\ r.expired = TRUE
    BY <1>0 DEF Creates, Phases
  <2>2. /\ call[n].pc \notin {"ok", "failed", "idle"} /\ cloud' = cloud
        /\ call' = [call EXCEPT ![n] = r]
    BY <1>0, <1>3 DEF Create!Expire, Create!Outcomes, CreateTypes
  <2> HIDE DEF r
  <2>3. /\ Seen(cloud[n], r).order = Seen(cloud[n], call[n]).order
        /\ Seen(cloud[n], r).cancelled = Seen(cloud[n], call[n]).cancelled
        /\ Seen(cloud[n], r).broken = TRUE
        /\ Seen(cloud[n], r).result = "running" /\ Seen(cloud[n], call[n]).result = "running"
    BY <2>1, <2>2 DEF Seen
  <2>4. ContractStep(Seen(cloud[n], call[n]), Seen(cloud[n], r)) /\ Stage(r.pc, cloud[n])
    BY <1>0, <2>1, <2>2, <2>3 DEF ContractStep
  <2> QED
    BY <1>0, <2>1, <2>2, <2>4, CreateMoves DEF SharedTypes
<1> QED
  BY <1>1, <1>2, <1>3

LEMMA CreateNext == CreateInv /\ [Next]_vars => CreateInv' /\ [Create!Contract!Next]_(Create!Contract!vars)
<1> SUFFICES ASSUME CreateInv, [Next]_vars
             PROVE  CreateInv' /\ [Create!Contract!Next]_(Create!Contract!vars)
  OBVIOUS
<1>0. CreateTypes
  BY DEF CreateInv
<1>1. Create!Next \/ UNCHANGED createVars
  BY DEF Next, Only, vars
<1>2. CASE UNCHANGED createVars
  BY <1>0, <1>2, CreateLeftAlone DEF createVars, SharedTypes, CreateTypes
<1>3. CASE Create!Next
  <2>1. CASE \E n \in Names : Create!Create(n) \/ Create!CreateStep(n) \/ Create!Show(n) \/ Create!Expire(n)
    BY <2>1, OrderSteps, TagSteps, FlagSteps, RollbackSteps, OutsideSteps DEF Create!CreateStep
  <2>2. CASE Create!ShowTag \/ Create!Lapse
    BY <1>0, <2>2, CreateLeftAlone DEF Create!ShowTag, Create!Lapse, SharedTypes, CreateTypes
  <2>3. CASE Create!Revoke
    <3>1. call' = [n \in Names |-> [call[n] EXCEPT !.tok = IF @ = "none" THEN "none" ELSE "revoked"]]
      BY <2>3 DEF Create!Revoke
    <3>2. ASSUME NEW n \in Names
          PROVE  /\ call'[n] \in Creates /\ call'[n].pc = call[n].pc /\ call'[n].hit = call[n].hit
                 /\ call'[n].expired = call[n].expired
      BY <1>0, <3>1 DEF CreateTypes, Creates
    <3>3. call' \in [Names -> Creates] /\ UNCHANGED cloud /\ SharedTypes
      BY <1>0, <2>3, <3>1, <3>2 DEF Create!Revoke, SharedTypes, CreateTypes
    <3> QED
      BY <3>2, <3>3, CreateLeftAlone
  <2>4. CASE UNCHANGED Create!vars
    BY <1>0, <2>4, CreateLeftAlone DEF Create!vars, SharedTypes, CreateTypes
  <2> QED
    BY <1>3, <2>1, <2>2, <2>3, <2>4 DEF Create!Next
<1> QED
  BY <1>1, <1>2, <1>3

\* Create and Delete of the client implement the contract the provider is built on, for
\* any number of creates that share the token and the tag cache, any number of attempts,
\* failed calls and contexts that end; and a create that ends well left a machine that is
\* shown, tagged, attached and not cancelled.
THEOREM CreatesKept == Spec => CreatesKeepTheirContract
<1>1. CreateInv => Create!OkIsComplete
  BY DEF CreateInv, Ordered, Stage, Create!OkIsComplete, Create!At
<1> QED
  BY <1>1, CreateInit, CreateNext, PTL
     DEF Spec, CreatesKeepTheirContract, Create!ImplementsContract, Create!Contract!Spec

------------------------------------------------------------------------------
(* The turns of agents                                                     *)

Steps == Turns!ChainCalls
AllCalls == Turns!Calls
Events == {"text", "ask", "idle", "end", "error"} \X (AllCalls \cup {"none", "shared"})
TurnRecords == [pc : {"new", "send", "wait", "archive", "done"}, stream : {"off", "opening", "open"},
                q : Seq(Events), got : SUBSET (AllCalls \cup {"none", "shared"}),
                status : {"none", "idle", "blocked", "error"}]
AgentRecords == [st : {"idle", "running", "blocked", "archived", "cut"}, inbox : Seq(AllCalls),
                 cur : AllCalls \cup {"none"}, asked : BOOLEAN]

TurnTypes ==
    /\ calls \in [AllCalls -> TurnRecords]
    /\ agents \in [Steps \cup {"shared"} -> AgentRecords]
    /\ excuses \in [AllCalls -> SUBSET {"late", "shared", "closed"}]

\* The events of a turn of call c on the shared session.
Text(c) == <<"text", c>>
AskFor(c) == <<"ask", c>>
IdleNow == <<"idle", "shared">>

\* What a question whose turn nothing disturbs has seen: its message waits, its turn
\* goes on, perhaps with a tool asked for, or the turn is over and the rest is queued.
Waiting(c, a) ==
    /\ a.st = "idle" /\ a.inbox = <<c>> /\ ~a.asked
    /\ calls[c].q = <<>> /\ calls[c].got = {}
Working(c, a) ==
    /\ a.st \in {"running", "blocked"} /\ a.inbox = <<>> /\ a.cur = c /\ calls[c].got = {}
    /\ calls[c].q = IF a.asked THEN <<AskFor(c)>> ELSE <<>>
Answered(c, a) ==
    /\ a.st = "idle" /\ a.inbox = <<>>
    /\ \/ calls[c].q \in {<<Text(c), IdleNow>>, <<AskFor(c), Text(c), IdleNow>>} /\ calls[c].got = {}
       \/ calls[c].q = <<IdleNow>> /\ calls[c].got = {c}

OwnTurn(c) ==
    /\ calls[c].pc = "new" =>
          /\ calls[c].q = <<>> /\ calls[c].got = {} /\ calls[c].stream = "off" /\ calls[c].status = "none"
    /\ calls[c].status # "none" => calls[c].pc = "done"
    /\ calls[c].pc # "archive"
    /\ excuses[c] = {} =>
          /\ calls[c].pc \in {"send", "wait"} => calls[c].stream \in {"opening", "open"}
          /\ calls[c].pc = "send" =>
                /\ agents["shared"] = Turns!NewAgent /\ calls[c].q = <<>> /\ calls[c].got = {}
          /\ calls[c].pc = "wait" =>
                \/ Waiting(c, agents["shared"]) \/ Working(c, agents["shared"])
                \/ Answered(c, agents["shared"])
          /\ calls[c].status = "idle" => calls[c].got = {c}

\* A step of the chain has its session to itself.
StepTurn(c) ==
    /\ calls[c].pc \in {"new", "send"} => agents[c] = Turns!NewAgent
    /\ calls[c].pc = "new" => calls[c].q = <<>> /\ calls[c].stream = "off"
    /\ agents[c].st \in {"running", "blocked"} => agents[c].inbox = <<>>
    /\ agents[c].inbox # <<>> => Tail(agents[c].inbox) = <<>>
    /\ excuses[c] = {} =>
          /\ calls[c].pc \in {"send", "wait"} => calls[c].stream \in {"opening", "open"}
          /\ calls[c].pc = "send" => calls[c].q = <<>>
          /\ calls[c].pc = "wait" =>
                \A i \in DOMAIN calls[c].q :
                    /\ calls[c].q[i][1] \in {"text", "ask", "idle"}
                    /\ calls[c].q[i][1] = "idle" => agents[c].st = "idle" /\ agents[c].inbox = <<>>
          /\ calls[c].pc = "archive" => agents[c].st = "idle" /\ agents[c].inbox = <<>>
          /\ agents[c].st # "cut"

TurnInv ==
    /\ TurnTypes /\ ran \subseteq granted
    /\ \A c \in Asks : OwnTurn(c)
    /\ \A c \in Steps : StepTurn(c)
    /\ \A c \in Notes : calls[c].pc \in {"new", "done"}

LEMMA WhoseSession ==
    /\ Steps = {c1, c2} /\ AllCalls = Steps \cup Asks \cup Notes
    /\ Turns!AgentSet = Steps \cup {"shared"}
    /\ "shared" \notin AllCalls
    /\ \A c \in Steps : Turns!On(c) = c /\ c \notin Asks \cup Notes
    /\ \A c \in Asks \cup Notes : Turns!On(c) = "shared" /\ c \notin Steps
    /\ Asks \cap Notes = {}
<1>1. Steps = {c1, c2}
  BY DEF Steps, Turns!ChainCalls, Chain
<1> QED
  BY <1>1, SessionsAssumption DEF Steps, AllCalls, Turns!Calls, Turns!AgentSet, Turns!On

LEMMA TurnInit == Init => TurnInv
<1> SUFFICES ASSUME Init PROVE TurnInv
  OBVIOUS
<1>1. PICK live \in {Turns!ChainCalls, Asks \cup Notes} :
        calls = [c \in AllCalls |-> [Turns!NewCall EXCEPT !.pc = IF c \in live THEN "new" ELSE "done"]]
  BY DEF Init, Turns!Init, AllCalls
<1>2. /\ agents = [s \in Steps \cup {"shared"} |-> Turns!NewAgent] /\ ran = {} /\ granted = {}
      /\ excuses = [c \in AllCalls |-> {}]
  BY WhoseSession DEF Init, Turns!Init, AllCalls
<1>3. ASSUME NEW c \in AllCalls
      PROVE  /\ calls[c] \in TurnRecords
             /\ calls[c].pc \in {"new", "done"} /\ calls[c].q = <<>> /\ calls[c].got = {}
             /\ calls[c].stream = "off" /\ calls[c].status = "none"
  <2>1. calls[c] = [pc |-> IF c \in live THEN "new" ELSE "done", stream |-> "off", q |-> <<>>,
                    got |-> {}, status |-> "none"]
    BY <1>1 DEF Turns!NewCall
  <2>2. <<>> \in Seq(Events)
    OBVIOUS
  <2> QED
    BY <2>1, <2>2 DEF TurnRecords
<1>4. TurnTypes
  <2>1. calls \in [AllCalls -> TurnRecords]
    BY <1>1, <1>3
  <2>2. Turns!NewAgent \in AgentRecords
    BY DEF Turns!NewAgent, AgentRecords
  <2> QED
    BY <1>2, <2>1, <2>2 DEF TurnTypes
<1>5. \A c \in Asks : OwnTurn(c)
  BY <1>2, <1>3, WhoseSession DEF OwnTurn
<1>6. \A c \in Steps : StepTurn(c)
  BY <1>2, <1>3, WhoseSession DEF StepTurn, Turns!NewAgent
<1> QED
  BY <1>2, <1>3, <1>4, <1>5, <1>6, WhoseSession DEF TurnInv

\* A step that leaves a call alone, and its session as far as it is undisturbed.
LEMMA OwnKept ==
    ASSUME NEW c, OwnTurn(c), calls'[c] = calls[c], excuses[c] \subseteq excuses'[c],
           excuses'[c] = {} /\ calls[c].pc \in {"send", "wait"} => agents'["shared"] = agents["shared"]
    PROVE  OwnTurn(c)'
  BY DEF OwnTurn, Waiting, Working, Answered, Turns!NewAgent

LEMMA StepKept ==
    ASSUME NEW c, StepTurn(c), calls'[c] = calls[c], excuses[c] \subseteq excuses'[c], agents'[c] = agents[c]
    PROVE  StepTurn(c)'
  BY DEF StepTurn, Turns!NewAgent

\* A step of one call that does not touch the sessions.
LEMMA OneCall ==
    ASSUME TurnInv, NEW c \in Asks \cup Steps, NEW r \in TurnRecords, NEW x \in SUBSET {"late", "shared", "closed"},
           calls' = [calls EXCEPT ![c] = r], excuses' = [excuses EXCEPT ![c] = x],
           UNCHANGED <<agents, ran, granted>>,
           c \in Asks => OwnTurn(c)', c \in Steps => StepTurn(c)'
    PROVE  TurnInv'
<1>0. TurnTypes /\ c \in AllCalls
  BY WhoseSession DEF TurnInv
<1>1. \A k \in AllCalls : k # c => calls'[k] = calls[k] /\ excuses'[k] = excuses[k]
  BY <1>0 DEF TurnTypes
<1>2. TurnTypes'
  BY <1>0 DEF TurnTypes
<1>3. ASSUME NEW k \in Asks, k # c PROVE OwnTurn(k)'
  BY <1>1, <1>3, WhoseSession, OwnKept DEF TurnInv
<1>4. ASSUME NEW k \in Steps, k # c PROVE StepTurn(k)'
  BY <1>1, <1>4, WhoseSession, StepKept DEF TurnInv
<1>5. \A k \in Notes : calls'[k].pc \in {"new", "done"}
  BY <1>1, WhoseSession DEF TurnInv
<1>6. ran' \subseteq granted'
  BY DEF TurnInv
<1> QED
  BY <1>2, <1>3, <1>4, <1>5, <1>6 DEF TurnInv

\* A step of one chain step's session leaves the others alone.
LEMMA OneStep ==
    ASSUME TurnInv, TurnTypes', NEW c \in Steps, StepTurn(c)', ran' \subseteq granted',
           \A k \in AllCalls \ {c} : calls'[k] = calls[k] /\ excuses[k] \subseteq excuses'[k],
           \A s \in (Steps \cup {"shared"}) \ {c} : agents'[s] = agents[s]
    PROVE  TurnInv'
<1>1. ASSUME NEW k \in Asks PROVE OwnTurn(k)'
  BY WhoseSession, OwnKept DEF TurnInv
<1>2. ASSUME NEW k \in Steps, k # c PROVE StepTurn(k)'
  BY <1>2, WhoseSession, StepKept DEF TurnInv
<1>3. \A k \in Notes : calls'[k].pc \in {"new", "done"}
  BY WhoseSession DEF TurnInv
<1> QED
  BY <1>1, <1>2, <1>3 DEF TurnInv

\* A step of the shared session leaves the chain alone.
LEMMA SharedStep ==
    ASSUME TurnInv, TurnTypes', ran' \subseteq granted',
           \A k \in Steps : calls'[k] = calls[k] /\ excuses'[k] = excuses[k] /\ agents'[k] = agents[k],
           \A k \in Asks : OwnTurn(k)',
           \A k \in Notes : calls'[k].pc \in {"new", "done"}
    PROVE  TurnInv'
<1>1. ASSUME NEW k \in Steps PROVE StepTurn(k)'
  BY StepKept DEF TurnInv
<1> QED
  BY <1>1 DEF TurnInv

\* What is known of a record of a call.
LEMMA TurnFields ==
    ASSUME NEW r \in TurnRecords
    PROVE  /\ r.pc \in {"new", "send", "wait", "archive", "done"} /\ r.stream \in {"off", "opening", "open"}
           /\ r.q \in Seq(Events) /\ r.got \in SUBSET (AllCalls \cup {"none", "shared"})
           /\ r.status \in {"none", "idle", "blocked", "error"}
           /\ r = [pc |-> r.pc, stream |-> r.stream, q |-> r.q, got |-> r.got, status |-> r.status]
  BY DEF TurnRecords

LEMMA StartStep ==
    ASSUME TurnInv, NEW c \in AllCalls, Turns!ask_agent(c) \/ Turns!relay_step(c)
    PROVE  TurnInv'
<1>0. c \in Asks \cup Steps /\ Turns!Start(c)
  BY DEF Turns!ask_agent, Turns!relay_step, Steps
<1> DEFINE r == [calls[c] EXCEPT !.pc = "send", !.stream = "opening"]
           x == IF agents[Turns!On(c)] = Turns!NewAgent THEN {} ELSE {"shared"}
<1>1. /\ calls[c].pc = "new" /\ calls' = [calls EXCEPT ![c] = r] /\ excuses' = [excuses EXCEPT ![c] = x]
      /\ UNCHANGED <<agents, breaks, ran, granted>>
  BY <1>0 DEF Turns!Start
<1>2. calls[c] \in TurnRecords /\ calls'[c] = r /\ excuses'[c] = x
  BY <1>1 DEF TurnInv, TurnTypes
<1>3. /\ r \in TurnRecords /\ r.pc = "send" /\ r.stream = "opening" /\ r.q = calls[c].q /\ r.got = calls[c].got
      /\ r.status = calls[c].status
  BY <1>2, TurnFields DEF TurnRecords
<1> HIDE DEF r
<1>4. ASSUME c \in Asks PROVE OwnTurn(c)'
  BY <1>1, <1>2, <1>3, <1>4, WhoseSession DEF OwnTurn, TurnInv
<1>5. ASSUME c \in Steps PROVE StepTurn(c)'
  BY <1>1, <1>2, <1>3, <1>5, WhoseSession DEF StepTurn, TurnInv, Turns!NewAgent
<1> QED
  BY <1>0, <1>1, <1>3, <1>4, <1>5, OneCall

LEMMA OpenStep ==
    ASSUME TurnInv, NEW c \in AllCalls, Turns!StreamOpens(c)
    PROVE  TurnInv'
<1> DEFINE r == [calls[c] EXCEPT !.stream = "open"]
<1>1. /\ calls[c].stream = "opening" /\ calls' = [calls EXCEPT ![c] = r]
      /\ UNCHANGED <<agents, breaks, ran, granted, excuses>>
  BY DEF Turns!StreamOpens
<1>2. calls[c] \in TurnRecords /\ calls'[c] = r /\ excuses' = [excuses EXCEPT ![c] = excuses[c]]
  BY <1>1 DEF TurnInv, TurnTypes
<1>3. /\ r \in TurnRecords /\ r.pc = calls[c].pc /\ r.stream = "open" /\ r.q = calls[c].q /\ r.got = calls[c].got
      /\ r.status = calls[c].status
  BY <1>2, TurnFields DEF TurnRecords
<1>4. \A k \in AllCalls \ {c} : calls'[k] = calls[k]
  BY <1>1 DEF TurnInv, TurnTypes
<1>5. TurnTypes'
  BY <1>1, <1>3 DEF TurnInv, TurnTypes
<1> HIDE DEF r
<1>6. CASE c \in Steps
  <2>1. StepTurn(c)'
    BY <1>1, <1>2, <1>3, <1>6, WhoseSession DEF StepTurn, TurnInv, Turns!NewAgent
  <2> QED
    BY <1>1, <1>4, <1>5, <1>6, <2>1, OneStep DEF TurnInv
<1>7. CASE c \notin Steps
  <2>1. ASSUME NEW k \in Asks PROVE OwnTurn(k)'
    <3>1. CASE k = c
      BY <1>1, <1>2, <1>3, <3>1, <2>1 DEF OwnTurn, TurnInv, Waiting, Working, Answered, Turns!NewAgent
    <3> QED
      BY <1>1, <1>4, <2>1, <3>1, OwnKept, WhoseSession DEF TurnInv
  <2>2. \A k \in Notes : calls'[k].pc \in {"new", "done"}
    BY <1>2, <1>3, <1>4, WhoseSession DEF TurnInv
  <2> QED
    BY <1>1, <1>4, <1>5, <1>7, <2>1, <2>2, SharedStep, WhoseSession DEF TurnInv
<1> QED
  BY <1>6, <1>7

LEMMA ShortLists ==
    ASSUME NEW S, NEW a \in S, NEW b \in S
    PROVE  <<a>> \in Seq(S) /\ <<a, b>> \in Seq(S)
  OBVIOUS

\* A call whose stream ended is excused.
LEMMA BreakStep ==
    ASSUME TurnInv, NEW c \in AllCalls, Turns!StreamEnds(c)
    PROVE  TurnInv'
<1>1. PICK last \in {<<<<"error", c>>, <<"end", c>>>>, <<<<"end", c>>>>} :
        calls' = [calls EXCEPT ![c].stream = "off", ![c].q = @ \o last]
  BY DEF Turns!StreamEnds
<1> DEFINE r == [calls[c] EXCEPT !.stream = "off", !.q = @ \o last]
           x == excuses[c] \cup {"closed"}
<1>2. /\ calls[c].stream = "open" /\ calls' = [calls EXCEPT ![c] = r] /\ excuses' = [excuses EXCEPT ![c] = x]
      /\ UNCHANGED <<agents, ran, granted>>
  BY <1>1 DEF Turns!StreamEnds
<1>3. calls[c] \in TurnRecords /\ calls'[c] = r /\ excuses'[c] = x /\ x \in SUBSET {"late", "shared", "closed"}
  BY <1>2 DEF TurnInv, TurnTypes
<1>4. last \in Seq(Events)
  <2>1. <<"error", c>> \in Events /\ <<"end", c>> \in Events
    BY DEF Events
  <2> QED
    BY <2>1, ShortLists
<1>5. calls[c].q \o last \in Seq(Events)
  BY <1>3, <1>4, TurnFields
<1>6. /\ r \in TurnRecords /\ r.pc = calls[c].pc /\ r.stream = "off" /\ r.got = calls[c].got
      /\ r.status = calls[c].status
  BY <1>3, <1>5, TurnFields DEF TurnRecords
<1> HIDE DEF r
<1>7. \A k \in AllCalls \ {c} : calls'[k] = calls[k] /\ excuses'[k] = excuses[k]
  BY <1>2 DEF TurnInv, TurnTypes
<1>8. TurnTypes' /\ x # {}
  BY <1>2, <1>3, <1>6 DEF TurnInv, TurnTypes
<1> HIDE DEF x
<1>9. CASE c \in Steps
  <2>1. StepTurn(c)'
    BY <1>2, <1>3, <1>6, <1>8, <1>9, WhoseSession DEF StepTurn, TurnInv, Turns!NewAgent
  <2> QED
    BY <1>2, <1>7, <1>8, <1>9, <2>1, OneStep DEF TurnInv
<1>10. CASE c \notin Steps
  <2>1. ASSUME NEW k \in Asks PROVE OwnTurn(k)'
    <3>1. CASE k = c
      BY <1>2, <1>3, <1>6, <1>8, <3>1, <2>1 DEF OwnTurn, TurnInv
    <3> QED
      BY <1>2, <1>7, <2>1, <3>1, OwnKept, WhoseSession DEF TurnInv
  <2>2. \A k \in Notes : calls'[k].pc \in {"new", "done"}
    BY <1>3, <1>6, <1>7, WhoseSession DEF TurnInv
  <2> QED
    BY <1>2, <1>7, <1>8, <1>10, <2>1, <2>2, SharedStep, WhoseSession DEF TurnInv
<1> QED
  BY <1>9, <1>10

\* A message that others share a session with excuses them all.
LEMMA SendStep ==
    ASSUME TurnInv, NEW c \in AllCalls, Turns!send_message(c) \/ Turns!resume_session(c)
    PROVE  TurnInv'
<1>1. PICK pc \in {"wait", "done"} :
        /\ calls' = [calls EXCEPT ![c].pc = pc]
        /\ pc = "wait" => calls[c].pc = "send"
        /\ pc = "done" => c \in Notes
  BY DEF Turns!send_message, Turns!resume_session
<1>2. Turns!Deliver(c) /\ UNCHANGED <<ran, granted>>
  BY DEF Turns!send_message, Turns!resume_session, Turns!Deliver
<1> DEFINE r == [calls[c] EXCEPT !.pc = pc]
           busy == {d \in AllCalls \ {c} : Turns!On(d) = Turns!On(c) /\ calls[d].pc \in {"send", "wait"}}
           s == Turns!On(c)
<1>3. /\ agents' = [agents EXCEPT ![s].inbox = Append(@, c)]
      /\ excuses' = [d \in AllCalls |-> IF d \in busy \/ (d = c /\ busy # {})
                                        THEN excuses[d] \cup {"shared"} ELSE excuses[d]]
  BY <1>2 DEF Turns!Deliver, AllCalls
<1>4. /\ calls[c] \in TurnRecords /\ calls'[c] = r /\ s \in Steps \cup {"shared"} /\ agents[s] \in AgentRecords
      /\ \A k \in AllCalls \ {c} : calls'[k] = calls[k] /\ excuses[k] \subseteq excuses'[k]
      /\ excuses[c] \subseteq excuses'[c]
      /\ \A t \in (Steps \cup {"shared"}) \ {s} : agents'[t] = agents[t]
  BY <1>1, <1>3, WhoseSession DEF TurnInv, TurnTypes
<1>5. /\ r \in TurnRecords /\ r.pc = pc /\ r.stream = calls[c].stream /\ r.q = calls[c].q /\ r.got = calls[c].got
      /\ r.status = calls[c].status
  BY <1>4, TurnFields DEF TurnRecords
<1> HIDE DEF r
<1>6. /\ agents'[s] = [agents[s] EXCEPT !.inbox = Append(@, c)]
      /\ agents[s].inbox \in Seq(AllCalls)
      /\ Append(agents[s].inbox, c) \in Seq(AllCalls)
  <2>1. agents'[s] = [agents[s] EXCEPT !.inbox = Append(@, c)]
    BY <1>3, <1>4 DEF TurnInv, TurnTypes
  <2>2. agents[s].inbox \in Seq(AllCalls)
    BY <1>4 DEF AgentRecords
  <2> QED
    BY <2>1, <2>2
<1>7. agents'[s] \in AgentRecords /\ agents'[s].inbox = Append(agents[s].inbox, c)
      /\ agents'[s].st = agents[s].st /\ agents'[s].asked = agents[s].asked
  BY <1>4, <1>6 DEF AgentRecords
<1>8. TurnTypes'
  <2>1. calls' = [calls EXCEPT ![c] = r]
    BY <1>1 DEF r
  <2>2. calls' \in [AllCalls -> TurnRecords]
    BY <2>1, <1>5 DEF TurnInv, TurnTypes
  <2>3. agents' = [agents EXCEPT ![s] = agents'[s]]
    BY <1>3 DEF TurnInv, TurnTypes
  <2>4. agents' \in [Steps \cup {"shared"} -> AgentRecords]
    BY <2>3, <1>7 DEF TurnInv, TurnTypes
  <2>5. excuses' \in [AllCalls -> SUBSET {"late", "shared", "closed"}]
    BY <1>3 DEF TurnInv, TurnTypes
  <2> QED
    BY <2>2, <2>4, <2>5 DEF TurnTypes
<1>9. CASE c \in Steps
  <2>1. s = c /\ calls[c].pc = "send" /\ pc = "wait"
    BY <1>1, <1>9, WhoseSession
  <2>2. agents[c] = Turns!NewAgent
    BY <1>9, <2>1 DEF TurnInv, StepTurn
  <2>3. agents'[c].inbox = <<c>> /\ agents'[c].st = "idle"
    BY <1>7, <2>1, <2>2 DEF Turns!NewAgent
  <2>4. StepTurn(c)'
    BY <1>4, <1>5, <1>9, <2>1, <2>3 DEF StepTurn, TurnInv
  <2> QED
    BY <1>2, <1>4, <1>8, <1>9, <2>1, <2>4, OneStep DEF TurnInv
<1>10. CASE c \notin Steps
  <2>0. s = "shared"
    BY <1>10, WhoseSession
  <2>1. ASSUME NEW k \in Asks, k # c PROVE OwnTurn(k)'
    <3>1. calls'[k] = calls[k] /\ excuses[k] \subseteq excuses'[k]
      BY <1>4, <2>1, WhoseSession
    <3>2. excuses'[k] = {} => calls[k].pc \notin {"send", "wait"}
      BY <1>3, <2>0, <2>1, WhoseSession
    <3> QED
      BY <2>1, <3>1, <3>2, OwnKept DEF TurnInv
  <2>2. ASSUME c \in Asks PROVE OwnTurn(c)'
    <3>1. calls[c].pc = "send" /\ pc = "wait" /\ OwnTurn(c)
      BY <1>1, <2>2, WhoseSession DEF TurnInv
    <3>2. ASSUME excuses'[c] = {} PROVE Waiting(c, agents["shared"])' /\ calls[c].stream \in {"opening", "open"}
      <4>1. excuses[c] = {}
        BY <1>4, <3>2
      <4>2. /\ agents["shared"] = Turns!NewAgent /\ calls[c].q = <<>> /\ calls[c].got = {}
            /\ calls[c].stream \in {"opening", "open"}
        BY <3>1, <4>1 DEF OwnTurn
      <4>3. agents'["shared"].inbox = <<c>> /\ agents'["shared"].st = "idle" /\ ~agents'["shared"].asked
        <5>1. agents["shared"].inbox = <<>> /\ agents["shared"].st = "idle" /\ ~agents["shared"].asked
          BY <4>2 DEF Turns!NewAgent
        <5>2. Append(<<>>, c) = <<c>>
          OBVIOUS
        <5> QED
          BY <1>7, <2>0, <5>1, <5>2
      <4> QED
        BY <1>4, <1>5, <4>2, <4>3 DEF Waiting
    <3> QED
      BY <1>4, <1>5, <3>1, <3>2 DEF OwnTurn
  <2>3. \A k \in Notes : calls'[k].pc \in {"new", "done"}
    BY <1>1, <1>4, <1>5, WhoseSession DEF TurnInv
  <2>4. \A k \in Steps : calls'[k] = calls[k] /\ excuses'[k] = excuses[k] /\ agents'[k] = agents[k]
    BY <1>3, <1>4, <1>10, <2>0, WhoseSession DEF TurnInv, TurnTypes
  <2> QED
    BY <1>2, <1>8, <2>1, <2>2, <2>3, <2>4, SharedStep DEF TurnInv
<1> QED
  BY <1>9, <1>10

\* The session of a chain step is archived when the turn is over, or the call is excused.
LEMMA ArchiveStep ==
    ASSUME TurnInv, NEW c \in AllCalls, Turns!archive_session(c)
    PROVE  TurnInv'
<1>1. /\ calls[c].pc = "archive" /\ calls' = [calls EXCEPT ![c].pc = "done"]
      /\ UNCHANGED <<breaks, ran, granted, excuses>>
  BY DEF Turns!archive_session
<1>2. c \in Steps
  BY <1>1, WhoseSession DEF TurnInv, OwnTurn
<1> DEFINE r == [calls[c] EXCEPT !.pc = "done"]
           st == IF agents[c].st = "running" THEN "cut" ELSE "archived"
<1>3. calls[c] \in TurnRecords /\ calls'[c] = r /\ agents[c] \in AgentRecords
  BY <1>1, <1>2 DEF TurnInv, TurnTypes
<1>4. /\ r \in TurnRecords /\ r.pc = "done"
  BY <1>3, TurnFields DEF TurnRecords
<1> HIDE DEF r
<1>5. PICK a \in AgentRecords :
        /\ a.st \in {st, agents[c].st} /\ a.inbox = agents[c].inbox
        /\ agents' = [agents EXCEPT ![c] = a]
  <2>1. CASE agents' = agents
    BY <1>2, <1>3, <2>1 DEF TurnInv, TurnTypes
  <2>2. CASE agents' = [agents EXCEPT ![c].st = IF @ = "running" THEN "cut" ELSE "archived"]
    <3>1. agents' = [agents EXCEPT ![c] = [agents[c] EXCEPT !.st = st]]
      BY <2>2
    <3>2. [agents[c] EXCEPT !.st = st] \in AgentRecords
      BY <1>3 DEF AgentRecords
    <3>3. [agents[c] EXCEPT !.st = st].st = st /\ [agents[c] EXCEPT !.st = st].inbox = agents[c].inbox
      BY <1>3 DEF AgentRecords
    <3> QED
      BY <3>1, <3>2, <3>3
  <2> QED
    BY <2>1, <2>2 DEF Turns!archive_session
<1>6. agents'[c] = a /\ (\A s \in (Steps \cup {"shared"}) \ {c} : agents'[s] = agents[s])
  BY <1>2, <1>5 DEF TurnInv, TurnTypes
<1>7. TurnTypes'
  <2>1. calls' = [calls EXCEPT ![c] = r]
    BY <1>1 DEF r
  <2> QED
    BY <1>1, <1>4, <1>5, <2>1 DEF TurnInv, TurnTypes
<1>8. StepTurn(c)'
  BY <1>1, <1>2, <1>3, <1>4, <1>5, <1>6 DEF StepTurn, TurnInv
<1>9. \A k \in AllCalls \ {c} : calls'[k] = calls[k]
  BY <1>1 DEF TurnInv, TurnTypes
<1> QED
  BY <1>1, <1>2, <1>6, <1>7, <1>8, <1>9, OneStep DEF TurnInv

LEMMA FirstEvent ==
    ASSUME NEW q \in Seq(Events), q # <<>>
    PROVE  /\ Head(q) \in Events /\ Tail(q) \in Seq(Events) /\ Head(q) = q[1] /\ 1 \in DOMAIN q
           /\ Head(q)[1] \in {"text", "ask", "idle", "end", "error"}
           /\ Head(q)[2] \in AllCalls \cup {"none", "shared"}
           /\ \A i \in DOMAIN Tail(q) : i + 1 \in DOMAIN q /\ Tail(q)[i] = q[i + 1]
<1>1. Head(q) \in Events /\ Tail(q) \in Seq(Events) /\ Head(q) = q[1] /\ 1 \in DOMAIN q
  OBVIOUS
<1>2. \A i \in DOMAIN Tail(q) : i + 1 \in DOMAIN q /\ Tail(q)[i] = q[i + 1]
  OBVIOUS
<1>3. /\ Head(q)[1] \in {"text", "ask", "idle", "end", "error"}
      /\ Head(q)[2] \in AllCalls \cup {"none", "shared"}
  BY <1>1 DEF Events
<1> QED
  BY <1>1, <1>2, <1>3

LEMMA AnyEvent ==
    ASSUME TurnInv, NEW c \in AllCalls, Turns!GetEvent(c)
    PROVE  /\ c \in Asks \cup Steps /\ c \notin Asks \cap Steps
           /\ calls[c] \in TurnRecords /\ calls[c].pc = "wait" /\ calls[c].q \in Seq(Events) /\ calls[c].q # <<>>
           /\ UNCHANGED <<breaks, excuses>>
           /\ \A k \in AllCalls \ {c} : calls'[k] = calls[k]
<1>1. calls[c].pc = "wait" /\ calls[c].q # <<>> /\ UNCHANGED <<breaks, excuses>>
  BY DEF Turns!GetEvent
<1>2. calls[c] \in TurnRecords /\ \A k \in AllCalls \ {c} : calls'[k] = calls[k]
  BY DEF Turns!GetEvent, TurnInv, TurnTypes
<1>3. c \in Asks \cup Steps /\ c \notin Asks \cap Steps
  BY <1>1, WhoseSession DEF TurnInv
<1> QED
  BY <1>1, <1>2, <1>3, TurnFields

LEMMA BackRecord ==
    ASSUME NEW c, calls[c] \in TurnRecords, NEW status \in {"idle", "blocked", "error"}
    PROVE  /\ Turns!Back(c, status) \in TurnRecords /\ Turns!Back(c, status).pc = "done"
           /\ Turns!Back(c, status).got = calls[c].got /\ Turns!Back(c, status).status = status
<1> DEFINE r == calls[c]
           b == [r EXCEPT !.pc = "done", !.status = status, !.stream = "off", !.q = <<>>]
<1>1. <<>> \in Seq(Events)
  OBVIOUS
<1>2. b \in TurnRecords /\ b.pc = "done" /\ b.got = r.got /\ b.status = status
  BY <1>1, TurnFields DEF TurnRecords
<1> QED
  BY <1>2 DEF Turns!Back

LEMMA AskEvent ==
    ASSUME TurnInv, NEW c \in Asks, Turns!GetEvent(c)
    PROVE  TurnInv'
<1> DEFINE e == Head(calls[c].q)
           r == Turns!run_until_block(c, e)
<1>0. /\ c \in AllCalls /\ c \notin Steps
      /\ calls[c] \in TurnRecords /\ calls[c].pc = "wait" /\ calls[c].q \in Seq(Events) /\ calls[c].q # <<>>
      /\ UNCHANGED <<breaks, excuses>>
  BY AnyEvent, WhoseSession
<1>1. calls' = [calls EXCEPT ![c] = r] /\ UNCHANGED <<agents, granted, ran>>
  BY <1>0 DEF Turns!GetEvent, Steps
<1>2. e \in Events /\ e[1] \in {"text", "ask", "idle", "end", "error"} /\ e[2] \in AllCalls \cup {"none", "shared"}
  BY <1>0, FirstEvent
<1>3. /\ r \in TurnRecords
      /\ e[1] = "text" => /\ r.pc = "wait" /\ r.stream = calls[c].stream /\ r.q = Tail(calls[c].q)
                          /\ r.got = calls[c].got \cup {e[2]} /\ r.status = calls[c].status
      /\ e[1] # "text" => r.pc = "done" /\ r.got = calls[c].got /\ r.status \in {"idle", "blocked", "error"}
      /\ e[1] = "ask" => r.status = "blocked"
  <2>1. ASSUME NEW status \in {"idle", "blocked", "error"}
        PROVE  LET b == Turns!Back(c, status) IN
                 b \in TurnRecords /\ b.pc = "done" /\ b.got = calls[c].got /\ b.status = status
    BY <1>0, BackRecord
  <2>2. CASE e[1] = "text"
    <3>1. r = [calls[c] EXCEPT !.got = @ \cup {e[2]}, !.q = Tail(@)]
      BY <2>2 DEF Turns!run_until_block
    <3>2. PICK x \in TurnRecords : x = calls[c]
      BY <1>0
    <3>3. PICK line \in Seq(Events) : line = Tail(x.q)
      BY <1>0, <3>2, FirstEvent
    <3>4. PICK told \in SUBSET (AllCalls \cup {"none", "shared"}) : told = x.got \cup {e[2]}
      BY <1>2, <3>2, TurnFields
    <3>5. r = [x EXCEPT !.got = told, !.q = line]
      BY <3>1, <3>2, <3>3, <3>4
    <3> HIDE DEF r, e
    <3>6. /\ r \in TurnRecords /\ r.pc = x.pc /\ r.stream = x.stream /\ r.q = line /\ r.got = told
          /\ r.status = x.status
      BY <3>5 DEF TurnRecords
    <3> QED
      BY <1>0, <1>2, <2>2, <3>2, <3>3, <3>4, <3>6
  <2>3. CASE e[1] = "ask"
    <3>1. r = Turns!Back(c, "blocked")
      BY <2>3 DEF Turns!run_until_block
    <3> QED
      BY <2>1, <2>3, <3>1
  <2>4. CASE e[1] = "error"
    <3>1. r = Turns!Back(c, "error")
      BY <2>4 DEF Turns!run_until_block
    <3> QED
      BY <2>1, <2>4, <3>1
  <2>5. CASE e[1] \in {"idle", "end"}
    <3>1. r = Turns!Back(c, "idle")
      BY <2>5 DEF Turns!run_until_block
    <3> QED
      BY <2>1, <2>5, <3>1
  <2> QED
    BY <1>2, <2>2, <2>3, <2>4, <2>5
<1> HIDE DEF r
<1>4. calls'[c] = r /\ OwnTurn(c)
  BY <1>0, <1>1 DEF TurnInv, TurnTypes
<1>5. ASSUME excuses[c] = {}, r.pc = "wait" PROVE Answered(c, agents["shared"])' /\ r.stream \in {"opening", "open"}
  <2>1. e[1] = "text" /\ calls[c].stream \in {"opening", "open"}
    BY <1>0, <1>3, <1>4, <1>5 DEF OwnTurn
  <2>2. /\ agents["shared"].st = "idle" /\ agents["shared"].inbox = <<>>
        /\ calls[c].q = <<Text(c), IdleNow>> /\ calls[c].got = {}
    BY <1>0, <1>4, <1>5, <2>1 DEF OwnTurn, Waiting, Working, Answered, Text, AskFor, IdleNow
  <2>3. Tail(calls[c].q) = <<IdleNow>> /\ e[2] = c
    BY <2>2 DEF Text
  <2> QED
    BY <1>1, <1>3, <1>4, <2>1, <2>2, <2>3 DEF Answered
<1>6. ASSUME excuses[c] = {}, r.status = "idle" PROVE r.got = {c}
  <2>1. e[1] \in {"idle", "end", "error"}
    BY <1>0, <1>2, <1>3, <1>4, <1>6 DEF OwnTurn
  <2>2. calls[c].q = <<IdleNow>> /\ calls[c].got = {c}
    BY <1>0, <1>4, <1>6, <2>1 DEF OwnTurn, Waiting, Working, Answered, Text, AskFor, IdleNow
  <2> QED
    BY <1>3, <2>1, <2>2
<1>7. OwnTurn(c)'
  <2>1. r.pc \in {"wait", "done"} /\ (r.status # "none" => r.pc = "done")
    BY <1>0, <1>2, <1>3, <1>4 DEF OwnTurn
  <2> QED
    BY <1>0, <1>4, <1>5, <1>6, <2>1 DEF OwnTurn
<1>8. excuses' = [excuses EXCEPT ![c] = excuses[c]] /\ excuses[c] \in SUBSET {"late", "shared", "closed"}
  BY <1>0 DEF TurnInv, TurnTypes
<1> QED
  BY <1>0, <1>1, <1>3, <1>7, <1>8, OneCall

LEMMA ConfirmedAgents ==
    ASSUME TurnTypes, NEW s \in Steps \cup {"shared"}, agents' = Turns!Confirmed(s)
    PROVE  /\ agents' \in [Steps \cup {"shared"} -> AgentRecords]
           /\ \A t \in (Steps \cup {"shared"}) \ {s} : agents'[t] = agents[t]
           /\ agents'[s].inbox = agents[s].inbox /\ agents'[s].cur = agents[s].cur
           /\ agents'[s].asked = agents[s].asked
           /\ IF agents[s].st = "blocked" THEN agents'[s].st = "running" ELSE agents'[s] = agents[s]
<1>1. CASE agents[s].st = "blocked"
  <2> DEFINE a == [agents[s] EXCEPT !.st = "running"]
  <2>1. agents' = [agents EXCEPT ![s] = a]
    BY <1>1 DEF Turns!Confirmed
  <2>2. agents[s] \in AgentRecords
    BY DEF TurnTypes
  <2>3. a \in AgentRecords /\ a.st = "running" /\ a.inbox = agents[s].inbox /\ a.cur = agents[s].cur /\ a.asked = agents[s].asked
    BY <2>2 DEF AgentRecords
  <2> HIDE DEF a
  <2> QED
    BY <1>1, <2>1, <2>3 DEF TurnTypes
<1>2. CASE agents[s].st # "blocked"
  BY <1>2 DEF Turns!Confirmed, TurnTypes
<1> QED
  BY <1>1, <1>2

LEMMA StepEvent ==
    ASSUME TurnInv, NEW c \in Steps, Turns!GetEvent(c)
    PROVE  TurnInv'
<1> DEFINE e == Head(calls[c].q)
           r == Turns!run_turn(c, e)
<1>0. /\ c \in AllCalls /\ c \notin Asks /\ Turns!On(c) = c
      /\ calls[c] \in TurnRecords /\ calls[c].pc = "wait" /\ calls[c].q \in Seq(Events) /\ calls[c].q # <<>>
      /\ UNCHANGED <<breaks, excuses>>
      /\ \A k \in AllCalls \ {c} : calls'[k] = calls[k]
  BY AnyEvent, WhoseSession
<1>1. /\ calls' = [calls EXCEPT ![c] = r]
      /\ \/ agents' = Turns!Confirmed(c) /\ e[1] = "ask"
         \/ agents' = agents
      /\ ran' \subseteq granted'
  BY <1>0 DEF Turns!GetEvent, Steps, TurnInv
<1>2. /\ e[1] \in {"text", "ask", "idle", "end", "error"} /\ e[2] \in AllCalls \cup {"none", "shared"}
      /\ Tail(calls[c].q) \in Seq(Events) /\ e = calls[c].q[1] /\ 1 \in DOMAIN calls[c].q
      /\ \A i \in DOMAIN Tail(calls[c].q) : i + 1 \in DOMAIN calls[c].q /\ Tail(calls[c].q)[i] = calls[c].q[i + 1]
  BY <1>0, FirstEvent
<1>3. /\ r \in TurnRecords
      /\ e[1] \in {"text", "ask"} => r.pc = "wait" /\ r.stream = calls[c].stream /\ r.q = Tail(calls[c].q)
      /\ e[1] \in {"idle", "end", "error"} => r.pc = "archive"
  <2>1. CASE e[1] = "text"
    <3>1. r = [calls[c] EXCEPT !.got = @ \cup {e[2]}, !.q = Tail(@)]
      BY <2>1 DEF Turns!run_turn
    <3>2. PICK x \in TurnRecords : x = calls[c]
      BY <1>0
    <3>3. PICK line \in Seq(Events) : line = Tail(x.q)
      BY <1>0, <3>2, FirstEvent
    <3>4. PICK told \in SUBSET (AllCalls \cup {"none", "shared"}) : told = x.got \cup {e[2]}
      BY <1>2, <3>2, TurnFields
    <3>5. r = [x EXCEPT !.got = told, !.q = line]
      BY <3>1, <3>2, <3>3, <3>4
    <3> HIDE DEF r, e
    <3>6. /\ r \in TurnRecords /\ r.pc = x.pc /\ r.stream = x.stream /\ r.q = line /\ r.got = told
          /\ r.status = x.status
      BY <3>5 DEF TurnRecords
    <3> QED
      BY <1>0, <1>2, <2>1, <3>2, <3>3, <3>4, <3>6
  <2>2. CASE e[1] = "ask"
    <3>1. r = [calls[c] EXCEPT !.q = Tail(@)]
      BY <2>2 DEF Turns!run_turn
    <3>2. PICK x \in TurnRecords : x = calls[c]
      BY <1>0
    <3>3. PICK line \in Seq(Events) : line = Tail(x.q)
      BY <1>2, <3>2
    <3>4. r = [x EXCEPT !.q = line]
      BY <3>1, <3>2, <3>3
    <3> HIDE DEF r, e
    <3>5. r \in TurnRecords /\ r.pc = x.pc /\ r.stream = x.stream /\ r.q = line
      BY <3>4 DEF TurnRecords
    <3> QED
      BY <1>0, <2>2, <3>2, <3>3, <3>5
  <2>3. CASE e[1] \in {"idle", "end", "error"}
    <3>1. r = [calls[c] EXCEPT !.pc = "archive", !.stream = "off", !.q = <<>>]
      BY <2>3 DEF Turns!run_turn
    <3>2. PICK x \in TurnRecords : x = calls[c]
      BY <1>0
    <3>3. <<>> \in Seq(Events)
      OBVIOUS
    <3>4. r = [x EXCEPT !.pc = "archive", !.stream = "off", !.q = <<>>]
      BY <3>1, <3>2
    <3> HIDE DEF r, e
    <3>5. r \in TurnRecords /\ r.pc = "archive"
      BY <3>3, <3>4 DEF TurnRecords
    <3> QED
      BY <2>3, <3>5
  <2> QED
    BY <1>2, <2>1, <2>2, <2>3
<1> HIDE DEF r
<1>4. calls'[c] = r /\ StepTurn(c)
  BY <1>0, <1>1 DEF TurnInv, TurnTypes
<1>5. /\ agents' \in [Steps \cup {"shared"} -> AgentRecords]
      /\ \A t \in (Steps \cup {"shared"}) \ {c} : agents'[t] = agents[t]
      /\ agents'[c].inbox = agents[c].inbox
      /\ IF agents[c].st = "blocked" THEN agents'[c].st \in {"running", "blocked"} ELSE agents'[c].st = agents[c].st
  BY <1>1, ConfirmedAgents DEF TurnInv, TurnTypes
<1>6. TurnTypes'
  BY <1>0, <1>1, <1>3, <1>5 DEF TurnInv, TurnTypes
<1>7. ASSUME excuses[c] = {}
      PROVE  /\ r.pc = "wait" => \A i \in DOMAIN r.q :
                    /\ r.q[i][1] \in {"text", "ask", "idle"}
                    /\ r.q[i][1] = "idle" => agents'[c].st = "idle" /\ agents'[c].inbox = <<>>
             /\ r.pc = "wait" => r.stream \in {"opening", "open"}
             /\ r.pc = "archive" => agents'[c].st = "idle" /\ agents'[c].inbox = <<>>
             /\ agents'[c].st # "cut"
  <2>1. /\ \A i \in DOMAIN calls[c].q :
               /\ calls[c].q[i][1] \in {"text", "ask", "idle"}
               /\ calls[c].q[i][1] = "idle" => agents[c].st = "idle" /\ agents[c].inbox = <<>>
        /\ calls[c].stream \in {"opening", "open"} /\ agents[c].st # "cut"
    BY <1>0, <1>4, <1>7 DEF StepTurn
  <2>2. e[1] \in {"text", "ask", "idle"} /\ (e[1] = "idle" => agents[c].st = "idle" /\ agents[c].inbox = <<>>)
    BY <1>2, <2>1
  <2>3. r.pc = "wait" => e[1] \in {"text", "ask"} /\ r.q = Tail(calls[c].q) /\ r.stream = calls[c].stream
    BY <1>2, <1>3
  <2>4. r.pc = "archive" => e[1] = "idle"
    BY <1>2, <1>3, <2>2
  <2> HIDE DEF e
  <2>5. ASSUME r.pc = "wait", NEW i \in DOMAIN r.q
        PROVE  /\ r.q[i][1] \in {"text", "ask", "idle"}
               /\ r.q[i][1] = "idle" => agents'[c].st = "idle" /\ agents'[c].inbox = <<>>
    <3>1. i \in DOMAIN Tail(calls[c].q) /\ r.q[i] = Tail(calls[c].q)[i]
      BY <2>3, <2>5
    <3>2. i + 1 \in DOMAIN calls[c].q /\ r.q[i] = calls[c].q[i + 1]
      BY <1>2, <3>1
    <3>3. /\ r.q[i][1] \in {"text", "ask", "idle"}
          /\ r.q[i][1] = "idle" => agents[c].st = "idle" /\ agents[c].inbox = <<>>
      BY <2>1, <3>2
    <3>4. agents[c].st = "idle" => agents'[c].st = "idle"
      BY <1>5
    <3> QED
      BY <1>5, <3>3, <3>4
  <2> QED
    BY <1>5, <2>1, <2>2, <2>3, <2>4, <2>5
<1>8. StepTurn(c)'
  <2>1. r.pc \in {"wait", "archive"} /\ calls[c].pc = "wait"
    BY <1>0, <1>2, <1>3
  <2>2. /\ agents'[c].st \in {"running", "blocked"} => agents'[c].inbox = <<>>
        /\ agents'[c].inbox # <<>> => Tail(agents'[c].inbox) = <<>>
    BY <1>4, <1>5 DEF StepTurn
  <2> QED
    BY <1>0, <1>4, <1>7, <2>1, <2>2 DEF StepTurn
<1> QED
  BY <1>0, <1>1, <1>5, <1>6, <1>8, OneStep

\* An answer of an operator lets the turn go on; a tool runs only if it was granted.
LEMMA ApproveStep ==
    ASSUME TurnInv, NEW c \in Asks, Turns!approve(c)
    PROVE  TurnInv'
<1>1. /\ agents["shared"].st = "blocked" /\ agents' = Turns!Confirmed("shared")
      /\ UNCHANGED <<calls, breaks, excuses>> /\ ran' \subseteq granted'
  BY DEF Turns!approve, TurnInv
<1>2. /\ agents' \in [Steps \cup {"shared"} -> AgentRecords]
      /\ \A t \in Steps : agents'[t] = agents[t]
      /\ agents'["shared"].inbox = agents["shared"].inbox /\ agents'["shared"].cur = agents["shared"].cur
      /\ agents'["shared"].asked = agents["shared"].asked /\ agents'["shared"].st = "running"
  <2>1. "shared" \notin Steps
    BY WhoseSession
  <2> QED
    BY <1>1, <2>1, ConfirmedAgents DEF TurnInv
<1>3. ASSUME NEW k \in Asks PROVE OwnTurn(k)'
  <2>1. OwnTurn(k) /\ calls'[k] = calls[k] /\ excuses'[k] = excuses[k]
    BY <1>1 DEF TurnInv
  <2>2. ASSUME excuses[k] = {} PROVE calls[k].pc # "send"
    BY <1>1, <2>1, <2>2 DEF OwnTurn, Turns!NewAgent
  <2>3. ASSUME excuses[k] = {}, calls[k].pc = "wait" PROVE Working(k, agents["shared"])'
    BY <1>1, <1>2, <2>1, <2>3 DEF OwnTurn, Waiting, Working, Answered
  <2> QED
    BY <2>1, <2>2, <2>3 DEF OwnTurn
<1>4. TurnTypes'
  BY <1>1, <1>2 DEF TurnInv, TurnTypes
<1> QED
  BY <1>1, <1>2, <1>3, <1>4, SharedStep DEF TurnInv

LEMMA WorkStep ==
    ASSUME TurnInv, NEW s \in Steps \cup {"shared"}, Turns!Work(s)
    PROVE  TurnInv'
<1> DEFINE a == [st |-> "running", inbox |-> Tail(agents[s].inbox), cur |-> Head(agents[s].inbox), asked |-> FALSE]
<1>1. /\ agents[s].st = "idle" /\ agents[s].inbox # <<>>
      /\ agents' = [agents EXCEPT ![s] = a]
      /\ UNCHANGED <<calls, breaks, ran, granted, excuses>>
  BY DEF Turns!Work
<1>2. agents[s] \in AgentRecords /\ agents[s].inbox \in Seq(AllCalls)
  BY DEF TurnInv, TurnTypes, AgentRecords
<1>3. Tail(agents[s].inbox) \in Seq(AllCalls) /\ Head(agents[s].inbox) \in AllCalls
  BY <1>1, <1>2
<1>4. /\ a \in AgentRecords /\ a.st = "running" /\ a.inbox = Tail(agents[s].inbox)
      /\ a.cur = Head(agents[s].inbox) /\ ~a.asked
  BY <1>3 DEF AgentRecords
<1> HIDE DEF a
<1>5. agents'[s] = a /\ (\A t \in (Steps \cup {"shared"}) \ {s} : agents'[t] = agents[t]) /\ TurnTypes'
  BY <1>1, <1>4 DEF TurnInv, TurnTypes
<1>6. CASE s \in Steps
  <2>1. StepTurn(s)
    BY <1>6 DEF TurnInv
  <2>2. calls[s].pc \notin {"new", "send"} /\ a.inbox = <<>>
    BY <1>1, <1>4, <2>1 DEF StepTurn, Turns!NewAgent
  <2>3. excuses[s] = {} => /\ calls[s].pc # "archive"
                           /\ calls[s].pc = "wait" =>
                                \A i \in DOMAIN calls[s].q : calls[s].q[i][1] # "idle"
    BY <1>1, <2>1 DEF StepTurn
  <2>4. StepTurn(s)'
    BY <1>1, <1>4, <1>5, <2>1, <2>2, <2>3 DEF StepTurn
  <2> QED
    BY <1>1, <1>5, <1>6, <2>4, OneStep DEF TurnInv
<1>7. CASE s = "shared"
  <2>1. ASSUME NEW k \in Asks PROVE OwnTurn(k)'
    <3>1. OwnTurn(k) /\ calls'[k] = calls[k] /\ excuses'[k] = excuses[k]
      BY <1>1, <2>1 DEF TurnInv
    <3>2. ASSUME excuses[k] = {} PROVE calls[k].pc # "send"
      BY <1>1, <1>7, <3>1, <3>2 DEF OwnTurn, Turns!NewAgent
    <3>3. ASSUME excuses[k] = {}, calls[k].pc = "wait" PROVE Working(k, agents["shared"])'
      <4>1. Waiting(k, agents["shared"])
        BY <1>1, <1>7, <3>1, <3>3 DEF OwnTurn, Working, Answered
      <4>2. agents["shared"].inbox = <<k>> /\ calls[k].q = <<>> /\ calls[k].got = {}
        BY <4>1 DEF Waiting
      <4>3. a.inbox = <<>> /\ a.cur = k
        BY <1>4, <1>7, <4>2
      <4> QED
        BY <1>4, <1>5, <1>7, <3>1, <4>2, <4>3 DEF Working
    <3> QED
      BY <3>1, <3>2, <3>3 DEF OwnTurn
  <2>2. \A t \in Steps : agents'[t] = agents[t]
    BY <1>5, <1>7, WhoseSession
  <2> QED
    BY <1>1, <1>5, <2>1, <2>2, SharedStep DEF TurnInv
<1> QED
  BY <1>6, <1>7

\* What the streams show of session s, when it emits events.
LEMMA Emitted ==
    ASSUME TurnTypes, NEW s \in Steps \cup {"shared"}, NEW events \in Seq(Events),
           calls' = Turns!Emit(s, events), excuses' = Turns!Missing(s)
    PROVE  /\ calls' \in [AllCalls -> TurnRecords] /\ excuses' \in [AllCalls -> SUBSET {"late", "shared", "closed"}]
           /\ \A k \in AllCalls :
                /\ excuses[k] \subseteq excuses'[k]
                /\ Turns!On(k) # s => calls'[k] = calls[k] /\ excuses'[k] = excuses[k]
                /\ Turns!On(k) = s /\ calls[k].pc = "wait" /\ excuses'[k] = {} => calls[k].stream # "opening"
                /\ calls'[k].pc = calls[k].pc /\ calls'[k].stream = calls[k].stream
                /\ calls'[k].got = calls[k].got /\ calls'[k].status = calls[k].status
                /\ calls'[k].q = IF Turns!On(k) = s /\ calls[k].stream = "open"
                                 THEN calls[k].q \o events ELSE calls[k].q
<1>1. ASSUME NEW k \in AllCalls
      PROVE  /\ calls'[k] \in TurnRecords
             /\ calls'[k].pc = calls[k].pc /\ calls'[k].stream = calls[k].stream
             /\ calls'[k].got = calls[k].got /\ calls'[k].status = calls[k].status
             /\ calls'[k].q = IF Turns!On(k) = s /\ calls[k].stream = "open"
                              THEN calls[k].q \o events ELSE calls[k].q
             /\ Turns!On(k) # s => calls'[k] = calls[k]
  <2>1. calls[k] \in TurnRecords /\ calls[k].q \in Seq(Events)
    BY TurnFields DEF TurnTypes
  <2>2. CASE Turns!On(k) = s /\ calls[k].stream = "open"
    <3>1. calls'[k] = [calls[k] EXCEPT !.q = @ \o events]
      BY <2>2 DEF Turns!Emit, AllCalls
    <3>2. calls[k].q \o events \in Seq(Events)
      BY <2>1
    <3> QED
      BY <2>1, <2>2, <3>1, <3>2, TurnFields DEF TurnRecords
  <2>3. CASE ~(Turns!On(k) = s /\ calls[k].stream = "open")
    <3>1. calls'[k] = calls[k]
      BY <2>3 DEF Turns!Emit, AllCalls
    <3> QED
      BY <2>1, <2>3, <3>1
  <2> QED
    BY <2>2, <2>3
<1>2. calls' \in [AllCalls -> TurnRecords]
  BY <1>1 DEF Turns!Emit, AllCalls
<1>3. /\ excuses' \in [AllCalls -> SUBSET {"late", "shared", "closed"}]
      /\ \A k \in AllCalls :
           /\ excuses[k] \subseteq excuses'[k]
           /\ Turns!On(k) # s => excuses'[k] = excuses[k]
           /\ Turns!On(k) = s /\ calls[k].pc = "wait" /\ excuses'[k] = {} => calls[k].stream # "opening"
  BY DEF Turns!Missing, AllCalls, TurnTypes
<1> QED
  BY <1>1, <1>2, <1>3

LEMMA InBoth ==
    ASSUME NEW q \in Seq(Events), NEW r \in Seq(Events), NEW i \in DOMAIN (q \o r)
    PROVE  \/ i \in DOMAIN q /\ (q \o r)[i] = q[i]
           \/ i - Len(q) \in DOMAIN r /\ (q \o r)[i] = r[i - Len(q)]
<1>1. i \in 1..(Len(q) + Len(r)) /\ DOMAIN q = 1..Len(q) /\ DOMAIN r = 1..Len(r)
  OBVIOUS
<1>2. CASE i <= Len(q)
  BY <1>1, <1>2
<1>3. CASE i > Len(q)
  BY <1>1, <1>3
<1> QED
  BY <1>1, <1>2, <1>3

\* Events of a session that worked, where its state afterwards fits them.
LEMMA EmitStep ==
    ASSUME TurnInv, NEW s \in Steps \cup {"shared"}, NEW events \in Seq(Events), NEW a \in AgentRecords,
           agents[s].st = "running", agents' = [agents EXCEPT ![s] = a], a.inbox = agents[s].inbox,
           calls' = Turns!Emit(s, events), excuses' = Turns!Missing(s), UNCHANGED <<ran, granted>>,
           a.st \in {"idle", "blocked"},
           \A i \in DOMAIN events : events[i][1] \in {"text", "ask", "idle"} /\ (events[i][1] = "idle" => a.st = "idle"),
           s = "shared" => \A k \in Asks : /\ calls[k].pc = "wait" /\ excuses'[k] = {}
                                           /\ Working(k, agents[s]) /\ calls'[k].q = calls[k].q \o events
                                           => Working(k, a)' \/ Answered(k, a)'
    PROVE  TurnInv'
<1>1. /\ calls' \in [AllCalls -> TurnRecords] /\ excuses' \in [AllCalls -> SUBSET {"late", "shared", "closed"}]
      /\ \A k \in AllCalls :
           /\ excuses[k] \subseteq excuses'[k]
           /\ Turns!On(k) # s => calls'[k] = calls[k] /\ excuses'[k] = excuses[k]
           /\ Turns!On(k) = s /\ calls[k].pc = "wait" /\ excuses'[k] = {} => calls[k].stream # "opening"
           /\ calls'[k].pc = calls[k].pc /\ calls'[k].stream = calls[k].stream
           /\ calls'[k].got = calls[k].got /\ calls'[k].status = calls[k].status
           /\ calls'[k].q = IF Turns!On(k) = s /\ calls[k].stream = "open"
                            THEN calls[k].q \o events ELSE calls[k].q
  BY Emitted DEF TurnInv
<1>2. agents'[s] = a /\ (\A t \in (Steps \cup {"shared"}) \ {s} : agents'[t] = agents[t])
  BY DEF TurnInv, TurnTypes
<1>3. TurnTypes'
  BY <1>1 DEF TurnInv, TurnTypes
<1>4. CASE s \in Steps
  <2>0. Turns!On(s) = s /\ s \in AllCalls /\ StepTurn(s)
    BY <1>4, WhoseSession DEF TurnInv
  <2>1. calls[s].pc \notin {"new", "send"} /\ agents[s].inbox = <<>>
    BY <2>0 DEF StepTurn, Turns!NewAgent
  <2>2. ASSUME excuses'[s] = {}
        PROVE  /\ calls[s].pc # "archive"
               /\ calls[s].pc = "wait" =>
                    /\ calls'[s].stream \in {"opening", "open"}
                    /\ \A i \in DOMAIN calls'[s].q :
                         /\ calls'[s].q[i][1] \in {"text", "ask", "idle"}
                         /\ calls'[s].q[i][1] = "idle" => a.st = "idle"
    <3>1. excuses[s] = {}
      BY <1>1, <2>0, <2>2
    <3>2. /\ calls[s].pc # "archive"
          /\ calls[s].pc = "wait" => calls[s].stream \in {"opening", "open"}
      BY <2>0, <3>1 DEF StepTurn
    <3>3. ASSUME calls[s].pc = "wait", NEW i \in DOMAIN calls'[s].q
          PROVE  /\ calls'[s].q[i][1] \in {"text", "ask", "idle"}
                 /\ calls'[s].q[i][1] = "idle" => a.st = "idle"
      <4>1. \A j \in DOMAIN calls[s].q : calls[s].q[j][1] \in {"text", "ask"}
        BY <2>0, <3>1, <3>3 DEF StepTurn
      <4>2. calls[s].q \in Seq(Events)
        BY <2>0, TurnFields DEF TurnInv, TurnTypes
      <4>3. calls'[s].q = calls[s].q \o events \/ calls'[s].q = calls[s].q
        BY <1>1, <2>0
      <4>4. \/ i \in DOMAIN calls[s].q /\ calls'[s].q[i] = calls[s].q[i]
            \/ i - Len(calls[s].q) \in DOMAIN events /\ calls'[s].q[i] = events[i - Len(calls[s].q)]
        <5>1. CASE calls'[s].q = calls[s].q
          BY <3>3, <5>1
        <5>2. CASE calls'[s].q = calls[s].q \o events
          <6>1. i \in DOMAIN (calls[s].q \o events)
            BY <3>3, <5>2
          <6> QED
            BY <4>2, <5>2, <6>1, InBoth
        <5> QED
          BY <4>3, <5>1, <5>2
      <4> QED
        BY <4>1, <4>4
    <3> QED
      BY <1>1, <2>0, <3>2, <3>3
  <2>3. StepTurn(s)'
    BY <1>1, <1>2, <2>0, <2>1, <2>2 DEF StepTurn
  <2>4. \A k \in AllCalls \ {s} : calls'[k] = calls[k] /\ excuses[k] \subseteq excuses'[k]
    BY <1>1, <1>4, WhoseSession
  <2> QED
    BY <1>2, <1>3, <1>4, <2>3, <2>4, OneStep DEF TurnInv
<1>5. CASE s = "shared"
  <2>1. ASSUME NEW k \in Asks PROVE OwnTurn(k)'
    <3>0. Turns!On(k) = s /\ k \in AllCalls /\ OwnTurn(k)
      BY <1>5, <2>1, WhoseSession DEF TurnInv
    <3>1. calls[k].pc = "new" => calls'[k].q = calls[k].q
      BY <1>1, <3>0 DEF OwnTurn
    <3>2. ASSUME excuses'[k] = {}
          PROVE  /\ calls[k].pc # "send"
                 /\ calls[k].pc = "wait" => /\ calls'[k].stream \in {"opening", "open"}
                                            /\ Working(k, agents["shared"])' \/ Answered(k, agents["shared"])'
      <4>1. excuses[k] = {}
        BY <1>1, <3>0, <3>2
      <4>2. calls[k].pc # "send"
        BY <1>5, <3>0, <4>1 DEF OwnTurn, Turns!NewAgent
      <4>3. ASSUME calls[k].pc = "wait"
            PROVE  /\ calls'[k].stream \in {"opening", "open"} /\ calls'[k].q = calls[k].q \o events
                   /\ Working(k, agents[s])
        <5>1. calls[k].stream = "open"
          BY <1>1, <3>0, <3>2, <4>1, <4>3 DEF OwnTurn
        <5>2. Working(k, agents[s])
          BY <1>5, <3>0, <4>1, <4>3 DEF OwnTurn, Waiting, Answered
        <5> QED
          BY <1>1, <3>0, <5>1, <5>2
      <4>4. calls[k].pc = "wait" => Working(k, a)' \/ Answered(k, a)'
        BY <1>5, <2>1, <3>2, <4>3
      <4>5. agents'["shared"] = a
        BY <1>2, <1>5
      <4>6. calls[k].pc = "wait" => Working(k, agents["shared"])' \/ Answered(k, agents["shared"])'
        BY <4>4, <4>5 DEF Working, Answered
      <4> QED
        BY <4>2, <4>3, <4>6
    <3> QED
      BY <1>1, <3>0, <3>1, <3>2 DEF OwnTurn
  <2>2. \A k \in Notes : calls'[k].pc \in {"new", "done"}
    BY <1>1, WhoseSession DEF TurnInv
  <2>3. \A k \in Steps : calls'[k] = calls[k] /\ excuses'[k] = excuses[k] /\ agents'[k] = agents[k]
    BY <1>1, <1>2, <1>5, WhoseSession
  <2> QED
    BY <1>3, <2>1, <2>2, <2>3, SharedStep DEF TurnInv
<1> QED
  BY <1>4, <1>5

LEMMA Joined ==
    ASSUME NEW S, NEW a \in S, NEW b \in S
    PROVE  <<>> \o <<a, b>> = <<a, b>> /\ \A e \in S : <<e>> \o <<a, b>> = <<e, a, b>>
<1>1. <<a, b>> \in Seq(S) /\ Len(<<a, b>>) = 2 /\ <<>> \in Seq(S)
  OBVIOUS
<1>2. <<>> \o <<a, b>> = <<a, b>>
  BY <1>1
<1>3. ASSUME NEW e \in S PROVE <<e>> \o <<a, b>> = <<e, a, b>>
  <2> DEFINE q == <<e>> \o <<a, b>>
             r == <<e, a, b>>
  <2>1. q \in Seq(S) /\ Len(q) = 3
    OBVIOUS
  <2>2. q[1] = e /\ q[2] = a /\ q[3] = b
    OBVIOUS
  <2>3. r \in Seq(S) /\ Len(r) = 3 /\ r[1] = e /\ r[2] = a /\ r[3] = b
    OBVIOUS
  <2> HIDE DEF q, r
  <2>4. \A i \in 1..3 : q[i] = r[i]
    BY <2>2, <2>3
  <2>5. q = r
    BY <2>1, <2>3, <2>4
  <2> QED
    BY <2>5 DEF q, r
<1> QED
  BY <1>2, <1>3

LEMMA AskingStep ==
    ASSUME TurnInv, NEW s \in Steps \cup {"shared"}, Turns!AskApproval(s)
    PROVE  TurnInv'
<1> DEFINE events == <<<<"ask", agents[s].cur>>>>
<1>1. /\ agents[s].st = "running" /\ ~agents[s].asked
      /\ agents' = [agents EXCEPT ![s] = [agents[s] EXCEPT !.st = "blocked", !.asked = TRUE]]
      /\ calls' = Turns!Emit(s, events) /\ excuses' = Turns!Missing(s) /\ UNCHANGED <<ran, granted>>
  BY DEF Turns!AskApproval
<1>2. agents[s] \in AgentRecords
  BY DEF TurnInv, TurnTypes
<1>3. PICK a \in AgentRecords :
        /\ agents' = [agents EXCEPT ![s] = a]
        /\ a.st = "blocked" /\ a.inbox = agents[s].inbox /\ a.cur = agents[s].cur /\ a.asked = TRUE
  <2> DEFINE b == [agents[s] EXCEPT !.st = "blocked", !.asked = TRUE]
  <2>1. /\ b \in AgentRecords
        /\ b.st = "blocked" /\ b.inbox = agents[s].inbox /\ b.cur = agents[s].cur /\ b.asked = TRUE
    BY <1>2 DEF AgentRecords
  <2> QED
    BY <1>1, <2>1
<1>4. <<"ask", agents[s].cur>> \in Events
  BY <1>2 DEF Events, AgentRecords
<1>5. events \in Seq(Events) /\ (\A i \in DOMAIN events : events[i][1] = "ask")
  BY <1>4
<1>6. \A q : q = <<>> => q \o events = <<<<"ask", agents[s].cur>>>>
  BY <1>5
<1> HIDE DEF events
<1>7. \A k \in AllCalls : calls'[k].got = calls[k].got
  BY <1>1, <1>5, Emitted DEF TurnInv
<1>8. ASSUME s = "shared", NEW k \in Asks, Working(k, agents[s]), calls'[k].q = calls[k].q \o events
      PROVE  Working(k, a)'
  <2>1. calls[k].q = <<>> /\ agents[s].cur = k /\ calls[k].got = {} /\ agents[s].inbox = <<>>
    BY <1>1, <1>8 DEF Working
  <2>2. calls'[k].q = <<AskFor(k)>>
    BY <1>6, <1>8, <2>1 DEF AskFor
  <2>3. calls'[k].got = {}
    BY <1>7, <2>1, WhoseSession
  <2> QED
    BY <1>3, <2>1, <2>2, <2>3 DEF Working, AskFor
<1>9. /\ agents[s].st = "running" /\ a.inbox = agents[s].inbox /\ a.st \in {"idle", "blocked"}
      /\ calls' = Turns!Emit(s, events) /\ excuses' = Turns!Missing(s) /\ UNCHANGED <<ran, granted>>
      /\ \A i \in DOMAIN events :
           events[i][1] \in {"text", "ask", "idle"} /\ (events[i][1] = "idle" => a.st = "idle")
  BY <1>1, <1>3, <1>5
<1> QED
  BY <1>3, <1>5, <1>8, <1>9, EmitStep

LEMMA EndingStep ==
    ASSUME TurnInv, NEW s \in Steps \cup {"shared"}, Turns!EndTurn(s)
    PROVE  TurnInv'
<1> DEFINE events == <<<<"text", agents[s].cur>>, <<"idle", s>>>>
<1>1. /\ agents[s].st = "running"
      /\ agents' = [agents EXCEPT ![s] = [agents[s] EXCEPT !.st = "idle", !.cur = "none", !.asked = FALSE]]
      /\ calls' = Turns!Emit(s, events) /\ excuses' = Turns!Missing(s) /\ UNCHANGED <<ran, granted>>
  BY DEF Turns!EndTurn
<1>2. agents[s] \in AgentRecords
  BY DEF TurnInv, TurnTypes
<1>3. PICK a \in AgentRecords :
        agents' = [agents EXCEPT ![s] = a] /\ a.st = "idle" /\ a.inbox = agents[s].inbox
  <2> DEFINE b == [agents[s] EXCEPT !.st = "idle", !.cur = "none", !.asked = FALSE]
  <2>1. b \in AgentRecords /\ b.st = "idle" /\ b.inbox = agents[s].inbox
    BY <1>2 DEF AgentRecords
  <2> QED
    BY <1>1, <2>1
<1>4. <<"text", agents[s].cur>> \in Events /\ <<"idle", s>> \in Events
  BY <1>2, WhoseSession DEF Events, AgentRecords
<1>5. events \in Seq(Events) /\ (\A i \in DOMAIN events : events[i][1] \in {"text", "idle"})
  BY <1>4, ShortLists
<1>6. /\ <<>> \o events = <<<<"text", agents[s].cur>>, <<"idle", s>>>>
      /\ \A e \in Events : <<e>> \o events = <<e, <<"text", agents[s].cur>>, <<"idle", s>>>>
  BY <1>4, Joined
<1> HIDE DEF events
<1>7. \A k \in AllCalls : calls'[k].got = calls[k].got
  BY <1>1, <1>5, Emitted DEF TurnInv
<1>8. ASSUME s = "shared", NEW k \in Asks, Working(k, agents[s]), calls'[k].q = calls[k].q \o events
      PROVE  Answered(k, a)'
  <2>0. AskFor(k) \in Events
    BY WhoseSession DEF AskFor, Events
  <2>1. /\ calls[k].q = <<>> \/ calls[k].q = <<AskFor(k)>>
        /\ agents[s].cur = k /\ calls[k].got = {} /\ agents[s].inbox = <<>>
    BY <1>1, <1>8 DEF Working
  <2>2. calls'[k].q \in {<<Text(k), IdleNow>>, <<AskFor(k), Text(k), IdleNow>>}
    BY <1>6, <1>8, <2>0, <2>1 DEF Text, IdleNow
  <2>3. calls'[k].got = {}
    BY <1>7, <2>1, WhoseSession
  <2> QED
    BY <1>3, <2>1, <2>2, <2>3 DEF Answered, AskFor, Text, IdleNow
<1>9. /\ a.st \in {"idle", "blocked"}
      /\ \A i \in DOMAIN events : events[i][1] \in {"text", "ask", "idle"} /\ (events[i][1] = "idle" => a.st = "idle")
  BY <1>3, <1>5
<1>10. s = "shared" => \A k \in Asks : /\ calls[k].pc = "wait" /\ excuses'[k] = {}
                                       /\ Working(k, agents[s]) /\ calls'[k].q = calls[k].q \o events
                                       => Working(k, a)' \/ Answered(k, a)'
  BY <1>8
<1> QED
  BY <1>1, <1>3, <1>5, <1>9, <1>10, EmitStep

LEMMA TurnNext == TurnInv /\ [Next]_vars => TurnInv'
<1> SUFFICES ASSUME TurnInv, [Next]_vars PROVE TurnInv'
  OBVIOUS
<1>1. CASE UNCHANGED sessionVars
  BY <1>1 DEF sessionVars, TurnInv, TurnTypes, OwnTurn, StepTurn, Waiting, Working, Answered
<1>2. CASE Turns!Next
  <2>1. ASSUME NEW c \in AllCalls, Turns!ask_agent(c) \/ Turns!relay_step(c) PROVE TurnInv'
    BY <2>1, StartStep
  <2>2. ASSUME NEW c \in AllCalls, Turns!resume_session(c) \/ Turns!send_message(c) PROVE TurnInv'
    BY <2>2, SendStep
  <2>3. ASSUME NEW c \in AllCalls, Turns!StreamOpens(c) PROVE TurnInv'
    BY <2>3, OpenStep
  <2>4. ASSUME NEW c \in AllCalls, Turns!StreamEnds(c) PROVE TurnInv'
    BY <2>4, BreakStep
  <2>5. ASSUME NEW c \in AllCalls, Turns!GetEvent(c) PROVE TurnInv'
    BY <2>5, AnyEvent, AskEvent, StepEvent
  <2>6. ASSUME NEW c \in AllCalls, Turns!archive_session(c) PROVE TurnInv'
    BY <2>6, ArchiveStep
  <2>7. ASSUME NEW c \in Asks, Turns!approve(c) PROVE TurnInv'
    BY <2>7, ApproveStep
  <2>8. ASSUME NEW s \in Steps \cup {"shared"}, Turns!Work(s) PROVE TurnInv'
    BY <2>8, WorkStep
  <2>9. ASSUME NEW s \in Steps \cup {"shared"}, Turns!AskApproval(s) PROVE TurnInv'
    BY <2>9, AskingStep
  <2>10. ASSUME NEW s \in Steps \cup {"shared"}, Turns!EndTurn(s) PROVE TurnInv'
    BY <2>10, EndingStep
  <2> QED
    BY <1>2, <2>1, <2>2, <2>3, <2>4, <2>5, <2>6, <2>7, <2>8, <2>9, <2>10, WhoseSession
    DEF Turns!Next, Turns!Driving, Turns!Serving, AllCalls
<1> QED
  BY <1>1, <1>2 DEF Next, Only, vars

\* What a caller of an agent may rely on, for any number of questions, messages and
\* broken streams: an undisturbed "idle" answers the question that was asked, a tool runs
\* only when an operator granted it, and the chain archives a session at rest.
THEOREM TurnsOwn == Spec => []TurnsAreTheCallers
<1>1. TurnInv => TurnsAreTheCallers
  BY WhoseSession
  DEF TurnInv, OwnTurn, StepTurn, TurnsAreTheCallers, Turns!OwnAnswer, Turns!OnlyGrantedRuns,
      Turns!ArchivedAtRest, Steps
<1> QED
  BY <1>1, TurnInit, TurnNext, PTL DEF Spec

------------------------------------------------------------------------------
(* The relay                                                               *)

Links == Relay!Conns
Notices == {"frame", "error"} \X Frames
LinkRecords == [owner : Sessions \cup {"none"}, cli : {"up", "lost", "closed"},
                srv : {"open", "closing", "ended"}, up : Seq(Frames), down : Seq(Notices)]
BridgeRecords == [conn : Nat, connected : BOOLEAN, out : Seq(Frames), held : Seq(Frames)]

RelayTypes ==
    /\ peers \in [Sessions -> Nat] /\ conns \in [Links -> LinkRecords]
    /\ bridges \in [Sessions -> BridgeRecords] /\ inbox \in [Sessions -> Seq(Frames)]
    /\ posts \in [Frames -> {"new", "checked", "refused", "accepted"}]
    /\ errors \subseteq Frames /\ dialled \in 0..MaxConns /\ drops \in Nat

\* Who is at which end of a connection.
Wired ==
    /\ \A c \in Links : IF c <= dialled THEN conns[c].owner \in Sessions /\ conns[c].cli # "closed"
                        ELSE conns[c] = Relay!NoConn
    /\ \A s \in Sessions : /\ peers[s] # 0 => peers[s] <= dialled /\ conns[peers[s]].owner = s
                           /\ bridges[s].connected =>
                                /\ bridges[s].conn \in 1..dialled /\ conns[bridges[s].conn].owner = s
                           /\ bridges[s].held # <<>> => \E f \in Frames : bridges[s].held = <<f>>
    /\ \A c \in Links : conns[c].srv = "open" => peers[conns[c].owner] = c

\* The lines a frame waits in, and the frames of each.
Slots == ({"out", "held", "inbox"} \X Sessions) \cup ({"up", "down"} \X Links)
Tags(q) == [i \in 1..Len(q) |-> q[i][2]]
Line(p) ==
    CASE p[1] = "out" -> bridges[p[2]].out
      [] p[1] = "held" -> bridges[p[2]].held
      [] p[1] = "inbox" -> inbox[p[2]]
      [] p[1] = "up" -> conns[p[2]].up
      [] p[1] = "down" -> Tags(conns[p[2]].down)

Elems(q) == {q[i] : i \in DOMAIN q}
Once(q) == \A i, j \in DOMAIN q : q[i] = q[j] => i = j

\* A frame is at one place of one line.
OnePlace ==
    /\ \A p \in Slots : Line(p) \in Seq(Frames) /\ Once(Line(p))
    /\ \A p, q \in Slots : p # q => Elems(Line(p)) \cap Elems(Line(q)) = {}

Nowhere(f) == \A p \in Slots : f \notin Elems(Line(p))

\* What reaches a bridge, and its inbox, is for its session.
Addressed ==
    /\ \A s \in Sessions : \A f \in Elems(inbox[s]) : To[f] = s
    /\ \A c \in Links : \A i \in DOMAIN conns[c].down :
         conns[c].down[i][1] = "frame" => To[conns[c].down[i][2]] = conns[c].owner

\* As long as nothing was lost, connections are in use and no accepted frame is missing.
Lossless ==
    drops = 0 =>
        /\ \A c \in Links : c <= dialled => conns[c].cli = "up" /\ conns[c].srv = "open"
        /\ \A s \in Sessions : peers[s] # 0 => bridges[s].connected
        /\ \A f \in Frames : posts[f] = "accepted" => f \in errors \/ ~Nowhere(f)

RelayInv ==
    /\ RelayTypes /\ Wired /\ OnePlace /\ Addressed /\ Lossless
    /\ \A f \in Frames : posts[f] # "accepted" => Nowhere(f)

\* Lines.
LEMMA TailOnce ==
    ASSUME NEW q \in Seq(Frames), q # <<>>, Once(q)
    PROVE  /\ Head(q) \in Frames /\ Head(q) \in Elems(q) /\ Tail(q) \in Seq(Frames) /\ Once(Tail(q))
           /\ Elems(Tail(q)) = Elems(q) \ {Head(q)}
<1>1. /\ Len(q) \in Nat /\ Len(q) >= 1 /\ DOMAIN q = 1..Len(q) /\ Head(q) = q[1] /\ q[1] \in Frames
      /\ Tail(q) \in Seq(Frames) /\ DOMAIN Tail(q) = 1..(Len(q) - 1)
  OBVIOUS
<1>2. \A i \in DOMAIN Tail(q) : i + 1 \in DOMAIN q /\ Tail(q)[i] = q[i + 1]
  OBVIOUS
<1>3. Once(Tail(q))
  BY <1>1, <1>2 DEF Once
<1>4. ASSUME NEW i \in DOMAIN q, i # 1 PROVE i - 1 \in DOMAIN Tail(q) /\ q[i] = Tail(q)[i - 1]
  BY <1>1, <1>2, <1>4
<1>5. Elems(Tail(q)) \subseteq Elems(q) \ {Head(q)}
  BY <1>1, <1>2 DEF Once, Elems
<1>6. Elems(q) \ {Head(q)} \subseteq Elems(Tail(q))
  BY <1>1, <1>4 DEF Elems
<1>7. 1 \in DOMAIN q /\ q[1] \in Elems(q)
  BY <1>1 DEF Elems
<1> QED
  BY <1>1, <1>3, <1>5, <1>6, <1>7

LEMMA AppendOnce ==
    ASSUME NEW q \in Seq(Frames), Once(q), NEW f \in Frames, f \notin Elems(q)
    PROVE  Append(q, f) \in Seq(Frames) /\ Once(Append(q, f)) /\ Elems(Append(q, f)) = Elems(q) \cup {f}
<1>1. /\ Len(q) \in Nat /\ DOMAIN q = 1..Len(q) /\ Append(q, f) \in Seq(Frames)
      /\ DOMAIN Append(q, f) = 1..(Len(q) + 1) /\ Append(q, f)[Len(q) + 1] = f
      /\ \A i \in 1..Len(q) : Append(q, f)[i] = q[i]
  OBVIOUS
<1>2. \A i \in DOMAIN Append(q, f) : i \in 1..Len(q) \/ i = Len(q) + 1
  BY <1>1
<1>3. Once(Append(q, f))
  BY <1>1, <1>2 DEF Once, Elems
<1>4. Elems(Append(q, f)) \subseteq Elems(q) \cup {f}
  BY <1>1, <1>2 DEF Elems
<1>5. Elems(q) \cup {f} \subseteq Elems(Append(q, f))
  BY <1>1 DEF Elems
<1> QED
  BY <1>1, <1>3, <1>4, <1>5

LEMMA StartOnce ==
    ASSUME NEW q \in Seq(Frames), Once(q), NEW n \in 0..Len(q)
    PROVE  SubSeq(q, 1, n) \in Seq(Frames) /\ Once(SubSeq(q, 1, n)) /\ Elems(SubSeq(q, 1, n)) \subseteq Elems(q)
<1>1. /\ SubSeq(q, 1, n) \in Seq(Frames) /\ DOMAIN SubSeq(q, 1, n) = 1..n /\ DOMAIN q = 1..Len(q)
      /\ \A i \in 1..n : i \in 1..Len(q) /\ SubSeq(q, 1, n)[i] = q[i]
  OBVIOUS
<1> QED
  BY <1>1 DEF Once, Elems

LEMMA SameLine ==
    ASSUME NEW q \in Seq(Frames), NEW r \in Seq(Frames), Len(q) = Len(r), \A i \in 1..Len(q) : q[i] = r[i]
    PROVE  q = r
  OBVIOUS

LEMMA TagLine ==
    ASSUME NEW q \in Seq(Notices)
    PROVE  /\ Len(q) \in Nat /\ DOMAIN q = 1..Len(q) /\ \A i \in 1..Len(q) : q[i] \in Notices /\ q[i][2] \in Frames
           /\ Tags(q) \in Seq(Frames) /\ Len(Tags(q)) = Len(q) /\ DOMAIN Tags(q) = DOMAIN q
           /\ \A i \in 1..Len(q) : Tags(q)[i] = q[i][2]
<1>1. /\ Len(q) \in Nat /\ DOMAIN q = 1..Len(q)
      /\ \A i \in 1..Len(q) : q[i] \in Notices /\ q[i][2] \in Frames
  BY DEF Notices
<1>2. /\ Tags(q) \in Seq(Frames) /\ Len(Tags(q)) = Len(q) /\ DOMAIN Tags(q) = DOMAIN q
      /\ \A i \in DOMAIN q : Tags(q)[i] = q[i][2]
  BY <1>1 DEF Tags
<1> QED
  BY <1>1, <1>2

LEMMA TagAppend ==
    ASSUME NEW q \in Seq(Notices), NEW f \in Frames, NEW kind \in {"frame", "error"}
    PROVE  Append(q, <<kind, f>>) \in Seq(Notices) /\ Tags(Append(q, <<kind, f>>)) = Append(Tags(q), f)
<1> DEFINE m == <<kind, f>>
<1>1. m \in Notices /\ m[2] = f
  BY DEF Notices
<1> HIDE DEF m
<1>2. /\ Append(q, m) \in Seq(Notices) /\ Len(Append(q, m)) = Len(q) + 1
      /\ Append(q, m)[Len(q) + 1] = m /\ \A i \in 1..Len(q) : Append(q, m)[i] = q[i]
  BY <1>1
<1>3. /\ Append(Tags(q), f) \in Seq(Frames) /\ Len(Append(Tags(q), f)) = Len(q) + 1
      /\ Append(Tags(q), f)[Len(q) + 1] = f /\ \A i \in 1..Len(q) : Append(Tags(q), f)[i] = Tags(q)[i]
  BY TagLine
<1>4. \A i \in 1..(Len(q) + 1) : Append(q, m)[i][2] = Append(Tags(q), f)[i]
  <2> TAKE i \in 1..(Len(q) + 1)
  <2>1. i \in 1..Len(q) \/ i = Len(q) + 1
    BY TagLine
  <2> QED
    BY <1>1, <1>2, <1>3, <2>1, TagLine
<1>5. /\ Tags(Append(q, m)) \in Seq(Frames) /\ Len(Tags(Append(q, m))) = Len(q) + 1
      /\ \A i \in 1..(Len(q) + 1) : Tags(Append(q, m))[i] = Append(q, m)[i][2]
  BY <1>2, TagLine
<1>6. Tags(Append(q, m)) = Append(Tags(q), f)
  BY <1>3, <1>4, <1>5, SameLine
<1> QED
  BY <1>2, <1>6 DEF m

LEMMA TagTail ==
    ASSUME NEW q \in Seq(Notices), q # <<>>
    PROVE  /\ Tags(q) # <<>> /\ Head(q) \in Notices /\ Head(q) = q[1] /\ Head(q)[2] = Head(Tags(q))
           /\ Tail(q) \in Seq(Notices) /\ Tags(Tail(q)) = Tail(Tags(q))
           /\ Len(Tail(q)) = Len(q) - 1 /\ \A i \in 1..(Len(q) - 1) : Tail(q)[i] = q[i + 1]
<1>1. Len(q) >= 1 /\ Head(q) = q[1] /\ Tail(q) \in Seq(Notices) /\ Len(Tail(q)) = Len(q) - 1
      /\ \A i \in 1..(Len(q) - 1) : Tail(q)[i] = q[i + 1]
  OBVIOUS
<1>2. /\ Tags(q) # <<>> /\ Head(Tags(q)) = Tags(q)[1] /\ Tail(Tags(q)) \in Seq(Frames)
      /\ Len(Tail(Tags(q))) = Len(q) - 1 /\ \A i \in 1..(Len(q) - 1) : Tail(Tags(q))[i] = Tags(q)[i + 1]
  BY <1>1, TagLine
<1>3. \A i \in 1..(Len(q) - 1) : i + 1 \in 1..Len(q) /\ Tail(q)[i][2] = Tail(Tags(q))[i]
  BY <1>1, <1>2, TagLine
<1>4. /\ Tags(Tail(q)) \in Seq(Frames) /\ Len(Tags(Tail(q))) = Len(q) - 1
      /\ \A i \in 1..(Len(q) - 1) : Tags(Tail(q))[i] = Tail(q)[i][2]
  BY <1>1, TagLine
<1>5. Tags(Tail(q)) = Tail(Tags(q))
  BY <1>2, <1>3, <1>4, SameLine
<1>6. 1 \in 1..Len(q)
  BY <1>1, TagLine
<1> QED
  BY <1>1, <1>2, <1>5, <1>6, TagLine

LEMMA AtSlots ==
    /\ \A k \in Sessions, x \in {"out", "held", "inbox"} : <<x, k>> \in Slots
    /\ \A c \in Links, x \in {"up", "down"} : <<x, c>> \in Slots
    /\ \A p \in Slots : \/ \E k \in Sessions : p = <<"out", k>> \/ p = <<"held", k>> \/ p = <<"inbox", k>>
                        \/ \E c \in Links : p = <<"up", c>> \/ p = <<"down", c>>
    /\ \A k : /\ Line(<<"out", k>>) = bridges[k].out /\ Line(<<"held", k>>) = bridges[k].held
              /\ Line(<<"inbox", k>>) = inbox[k] /\ Line(<<"up", k>>) = conns[k].up
              /\ Line(<<"down", k>>) = Tags(conns[k].down)
<1>1. \A p \in Slots : \/ \E k \in Sessions : p = <<"out", k>> \/ p = <<"held", k>> \/ p = <<"inbox", k>>
                       \/ \E c \in Links : p = <<"up", c>> \/ p = <<"down", c>>
  BY DEF Slots
<1>2. /\ \A k \in Sessions, x \in {"out", "held", "inbox"} : <<x, k>> \in Slots
      /\ \A c \in Links, x \in {"up", "down"} : <<x, c>> \in Slots
  BY DEF Slots
<1>3. \A k : /\ Line(<<"out", k>>) = bridges[k].out /\ Line(<<"held", k>>) = bridges[k].held
             /\ Line(<<"inbox", k>>) = inbox[k] /\ Line(<<"up", k>>) = conns[k].up
             /\ Line(<<"down", k>>) = Tags(conns[k].down)
  BY DEF Line
<1> QED
  BY <1>1, <1>2, <1>3

LEMMA NextLines ==
    \A k : /\ Line(<<"out", k>>)' = bridges'[k].out /\ Line(<<"held", k>>)' = bridges'[k].held
           /\ Line(<<"inbox", k>>)' = inbox'[k] /\ Line(<<"up", k>>)' = conns'[k].up
           /\ Line(<<"down", k>>)' = Tags(conns'[k].down)
  BY DEF Line

LEMMA LinesKept ==
    ASSUME NEW D,
           \A k \in Sessions : /\ <<"out", k>> \notin D => bridges'[k].out = bridges[k].out
                               /\ <<"held", k>> \notin D => bridges'[k].held = bridges[k].held
                               /\ <<"inbox", k>> \notin D => inbox'[k] = inbox[k],
           \A c \in Links : /\ <<"up", c>> \notin D => conns'[c].up = conns[c].up
                            /\ <<"down", c>> \notin D => conns'[c].down = conns[c].down
    PROVE  \A p \in Slots \ D : Line(p)' = Line(p)
<1> SUFFICES ASSUME NEW p \in Slots, p \notin D PROVE Line(p)' = Line(p)
  OBVIOUS
<1>1. CASE \E k \in Sessions : p = <<"out", k>> \/ p = <<"held", k>> \/ p = <<"inbox", k>>
  <2>1. PICK k \in Sessions : p = <<"out", k>> \/ p = <<"held", k>> \/ p = <<"inbox", k>>
    BY <1>1
  <2>2. CASE p = <<"out", k>>
    <3>1. p[1] = "out" /\ p[2] = k
      BY <2>2
    <3>2. <<"out", k>> \notin D
      BY <2>2
    <3> QED
      BY <3>1, <3>2 DEF Line
  <2>3. CASE p = <<"held", k>>
    <3>1. p[1] = "held" /\ p[2] = k
      BY <2>3
    <3>2. <<"held", k>> \notin D
      BY <2>3
    <3> QED
      BY <3>1, <3>2 DEF Line
  <2>4. CASE p = <<"inbox", k>>
    <3>1. p[1] = "inbox" /\ p[2] = k
      BY <2>4
    <3>2. <<"inbox", k>> \notin D
      BY <2>4
    <3> QED
      BY <3>1, <3>2 DEF Line
  <2> QED
    BY <2>1, <2>2, <2>3, <2>4
<1>2. CASE \E c \in Links : p = <<"up", c>> \/ p = <<"down", c>>
  <2>1. PICK c \in Links : p = <<"up", c>> \/ p = <<"down", c>>
    BY <1>2
  <2>2. CASE p = <<"up", c>>
    <3>1. p[1] = "up" /\ p[2] = c
      BY <2>2
    <3>2. <<"up", c>> \notin D
      BY <2>2
    <3> QED
      BY <3>1, <3>2 DEF Line
  <2>3. CASE p = <<"down", c>>
    <3>1. p[1] = "down" /\ p[2] = c
      BY <2>3
    <3>2. <<"down", c>> \notin D
      BY <2>3
    <3> QED
      BY <3>1, <3>2 DEF Line
  <2> QED
    BY <2>1, <2>2, <2>3
<1> QED
  BY <1>1, <1>2, AtSlots

\* What a step does to the lines: a new frame at the end of one, a frame that moves from
\* one to another, frames that are gone.
LEMMA Put ==
    ASSUME OnePlace, NEW f \in Frames, Nowhere(f), NEW r \in Slots, Line(r)' = Append(Line(r), f),
           \A p \in Slots \ {r} : Line(p)' = Line(p)
    PROVE  OnePlace' /\ ~Nowhere(f)' /\ \A g \in Frames : g # f => (Nowhere(g)' <=> Nowhere(g))
<1>1. /\ Line(r)' \in Seq(Frames) /\ Once(Line(r)') /\ Elems(Line(r)') = Elems(Line(r)) \cup {f}
  BY AppendOnce DEF OnePlace, Nowhere
<1>2. \A p \in Slots : Line(p)' \in Seq(Frames) /\ Once(Line(p)')
  BY <1>1 DEF OnePlace
<1>3. \A p, q \in Slots : p # q => Elems(Line(p)') \cap Elems(Line(q)') = {}
  <2>1. \A p \in Slots : f \notin Elems(Line(p)) /\ Elems(Line(p)') = Elems(Line(p)) \cup (IF p = r THEN {f} ELSE {})
    BY <1>1 DEF Nowhere
  <2> QED
    BY <2>1 DEF OnePlace
<1>4. ~Nowhere(f)' /\ \A g \in Frames : g # f => (Nowhere(g)' <=> Nowhere(g))
  BY <1>1 DEF Nowhere
<1> QED
  BY <1>2, <1>3, <1>4 DEF OnePlace, Once, Elems

LEMMA Taken ==
    ASSUME OnePlace, NEW p \in Slots, Line(p) # <<>>, Line(p)' = Tail(Line(p)),
           \A q \in Slots \ {p} : Line(q)' = Line(q)
    PROVE  /\ OnePlace' /\ Head(Line(p)) \in Frames /\ ~Nowhere(Head(Line(p)))
           /\ \A g \in Frames : /\ Nowhere(g) => Nowhere(g)'
                                /\ g # Head(Line(p)) => (Nowhere(g)' <=> Nowhere(g))
<1>1. /\ Head(Line(p)) \in Frames /\ Head(Line(p)) \in Elems(Line(p))
      /\ Line(p)' \in Seq(Frames) /\ Once(Line(p)') /\ Elems(Line(p)') = Elems(Line(p)) \ {Head(Line(p))}
  BY TailOnce DEF OnePlace
<1>2. \A q \in Slots : Line(q)' \in Seq(Frames) /\ Once(Line(q)') /\ Elems(Line(q)') \subseteq Elems(Line(q))
  BY <1>1 DEF OnePlace
<1>3. \A q, r \in Slots : q # r => Elems(Line(q)') \cap Elems(Line(r)') = {}
  BY <1>2 DEF OnePlace
<1>4. \A g \in Frames : /\ Nowhere(g) => Nowhere(g)'
                        /\ g # Head(Line(p)) => (Nowhere(g)' <=> Nowhere(g))
  BY <1>1, <1>2 DEF Nowhere
<1> QED
  BY <1>1, <1>2, <1>3, <1>4 DEF OnePlace, Once, Elems, Nowhere

LEMMA MovedOn ==
    ASSUME OnePlace, NEW p \in Slots, NEW r \in Slots, p # r, Line(p) # <<>>, Line(p)' = Tail(Line(p)),
           Line(r)' = Append(Line(r), Head(Line(p))),
           \A q \in Slots \ {p, r} : Line(q)' = Line(q)
    PROVE  OnePlace' /\ Head(Line(p)) \in Frames /\ \A g \in Frames : Nowhere(g)' <=> Nowhere(g)
<1> DEFINE f == Head(Line(p))
<1>1. /\ f \in Frames /\ f \in Elems(Line(p))
      /\ Line(p)' \in Seq(Frames) /\ Once(Line(p)') /\ Elems(Line(p)') = Elems(Line(p)) \ {f}
  BY TailOnce DEF OnePlace
<1>2. \A q \in Slots : q # p => f \notin Elems(Line(q))
  BY <1>1 DEF OnePlace
<1>3. Line(r)' \in Seq(Frames) /\ Once(Line(r)') /\ Elems(Line(r)') = Elems(Line(r)) \cup {f}
  BY <1>1, <1>2, AppendOnce DEF OnePlace
<1> HIDE DEF f
<1>4. \A q \in Slots : Line(q)' \in Seq(Frames) /\ Once(Line(q)')
  <2>1. \A q \in Slots \ {p, r} : Line(q)' \in Seq(Frames) /\ Once(Line(q)')
    BY DEF OnePlace
  <2> QED
    BY <1>1, <1>3, <2>1
<1>5. \A q \in Slots : Elems(Line(q)') = IF q = p THEN Elems(Line(p)) \ {f}
                                         ELSE IF q = r THEN Elems(Line(r)) \cup {f} ELSE Elems(Line(q))
  BY <1>1, <1>3
<1>6. \A q, q2 \in Slots : q # q2 => Elems(Line(q)') \cap Elems(Line(q2)') = {}
  BY <1>2, <1>5 DEF OnePlace
<1>7. \A g \in Frames : Nowhere(g)' <=> Nowhere(g)
  BY <1>1, <1>5 DEF Nowhere
<1> QED
  BY <1>1, <1>4, <1>6, <1>7 DEF OnePlace, Once, Elems, f

LEMMA Gone ==
    ASSUME OnePlace, \A q \in Slots : Line(q)' \in Seq(Frames) /\ Once(Line(q)') /\ Elems(Line(q)') \subseteq Elems(Line(q))
    PROVE  OnePlace' /\ \A g : Nowhere(g) => Nowhere(g)'
<1>1. \A q, r \in Slots : q # r => Elems(Line(q)') \cap Elems(Line(r)') = {}
  BY DEF OnePlace
<1>2. \A g : Nowhere(g) => Nowhere(g)'
  BY DEF Nowhere
<1> QED
  BY <1>1, <1>2 DEF OnePlace, Once, Elems

LEMMA Same ==
    ASSUME OnePlace, \A q \in Slots : Line(q)' = Line(q)
    PROVE  OnePlace' /\ \A g : Nowhere(g)' <=> Nowhere(g)
<1>1. \A q \in Slots : Line(q)' \in Seq(Frames) /\ Once(Line(q)') /\ Elems(Line(q)') = Elems(Line(q))
  BY DEF OnePlace
<1>2. \A g : Nowhere(g)' <=> Nowhere(g)
  BY <1>1 DEF Nowhere
<1> QED
  BY <1>1, <1>2, Gone

\* What Wired says of the connections that are named.
LEMMA Named ==
    ASSUME RelayTypes, Wired
    PROVE  /\ \A k \in Sessions : /\ peers[k] # 0 => peers[k] \in Links
                                  /\ bridges[k].connected => bridges[k].conn \in Links
           /\ \A c \in Links : c \in Nat /\ c # 0
           /\ dialled \in Nat /\ drops \in Nat
<1>1. Links = 1..MaxConns /\ MaxConns \in Nat
  BY RelayAssumption DEF Links, Relay!Conns
<1>2. dialled \in Nat /\ drops \in Nat /\ dialled <= MaxConns
  BY <1>1 DEF RelayTypes
<1>3. ASSUME NEW k \in Sessions
      PROVE  /\ peers[k] # 0 => peers[k] \in Links
             /\ bridges[k].connected => bridges[k].conn \in Links
  <2>1. peers[k] \in Nat
    BY DEF RelayTypes
  <2>2. /\ peers[k] # 0 => peers[k] <= dialled
        /\ bridges[k].connected => bridges[k].conn \in 1..dialled
    BY DEF Wired
  <2> QED
    BY <1>1, <1>2, <2>1, <2>2
<1> QED
  BY <1>1, <1>2, <1>3

\* A step that changes no end of a connection that is in use.
LEMMA StillWired ==
    ASSUME RelayTypes, Wired, dialled' = dialled, peers' = peers,
           \A c \in Links : /\ conns'[c].owner = conns[c].owner /\ conns'[c].srv = conns[c].srv
                            /\ conns'[c].cli # conns[c].cli => conns[c].cli = "up" /\ conns'[c].cli = "lost"
                            /\ conns[c] = Relay!NoConn => conns'[c] = conns[c],
           \A s \in Sessions : /\ bridges'[s].connected => bridges[s].connected /\ bridges'[s].conn = bridges[s].conn
                               /\ bridges'[s].held # <<>> => bridges'[s].held = bridges[s].held
    PROVE  Wired'
<1>1. \A c \in Links : IF c <= dialled THEN conns'[c].owner \in Sessions /\ conns'[c].cli # "closed"
                       ELSE conns'[c] = Relay!NoConn
  BY DEF Wired
<1>2. \A s \in Sessions : /\ peers[s] # 0 => peers[s] <= dialled /\ conns'[peers[s]].owner = s
                          /\ bridges'[s].connected =>
                               bridges'[s].conn \in 1..dialled /\ conns'[bridges'[s].conn].owner = s
                          /\ bridges'[s].held # <<>> => \E f \in Frames : bridges'[s].held = <<f>>
  BY Named DEF Wired
<1>3. \A c \in Links : conns'[c].srv = "open" => peers[conns'[c].owner] = c
  BY DEF Wired
<1> QED
  BY <1>1, <1>2, <1>3 DEF Wired

LEMMA RelayInit == Init => RelayInv
<1> SUFFICES ASSUME Init PROVE RelayInv
  OBVIOUS
<1>1. /\ peers = [s \in Sessions |-> 0] /\ conns = [c \in Links |-> Relay!NoConn]
      /\ bridges = [s \in Sessions |-> Relay!NoBridge] /\ posts = [f \in Frames |-> "new"]
      /\ inbox = [s \in Sessions |-> <<>>] /\ errors = {} /\ dialled = 0 /\ drops = 0
  BY DEF Init, Relay!Init, Links
<1>2. <<>> \in Seq(Frames) /\ <<>> \in Seq(Notices)
  OBVIOUS
<1>3. Relay!NoConn \in LinkRecords /\ Relay!NoBridge \in BridgeRecords
  BY <1>2 DEF Relay!NoConn, Relay!NoBridge, LinkRecords, BridgeRecords
<1>4. RelayTypes
  BY <1>1, <1>2, <1>3, RelayAssumption DEF RelayTypes
<1>5. /\ \A c \in Links : /\ conns[c] = Relay!NoConn /\ c > 0 /\ conns[c].srv = "ended"
                          /\ conns[c].up = <<>> /\ conns[c].down = <<>>
      /\ \A s \in Sessions : /\ bridges[s].out = <<>> /\ bridges[s].held = <<>> /\ ~bridges[s].connected
                             /\ peers[s] = 0 /\ inbox[s] = <<>>
  BY <1>1 DEF Relay!NoConn, Relay!NoBridge, Links, Relay!Conns
<1>6. Wired
  <2>1. \A c \in Links : c \in Nat /\ ~(c <= dialled)
    BY <1>1, RelayAssumption DEF Links, Relay!Conns
  <2> QED
    BY <1>5, <2>1 DEF Wired
<1>7. \A p \in Slots : Line(p) = <<>>
  <2>1. Tags(<<>>) = <<>>
    <3>1. Tags(<<>>) \in Seq(Frames) /\ Len(Tags(<<>>)) = Len(<<>>)
      BY <1>2, TagLine
    <3>2. Len(<<>>) = 0 /\ \A q \in Seq(Frames) : Len(q) = 0 => q = <<>>
      OBVIOUS
    <3> QED
      BY <3>1, <3>2
  <2> TAKE p \in Slots
  <2>2. CASE \E k \in Sessions : p = <<"out", k>> \/ p = <<"held", k>> \/ p = <<"inbox", k>>
    BY <1>5, <2>2 DEF Line
  <2>3. CASE \E c \in Links : p = <<"up", c>> \/ p = <<"down", c>>
    BY <1>5, <2>1, <2>3 DEF Line
  <2> QED
    BY <2>2, <2>3, AtSlots
<1>8. Elems(<<>>) = {} /\ Once(<<>>)
  BY DEF Elems, Once
<1>9. OnePlace /\ \A f : Nowhere(f)
  BY <1>2, <1>7, <1>8 DEF OnePlace, Nowhere
<1>10. Addressed
  BY <1>5, <1>8 DEF Addressed
<1>11. Lossless
  BY <1>1, <1>5 DEF Lossless, Links, Relay!Conns
<1> QED
  BY <1>4, <1>6, <1>9, <1>10, <1>11 DEF RelayInv

LEMMA CheckedStep ==
    ASSUME RelayInv, NEW f \in Frames, Relay!PostChecked(f)
    PROVE  RelayInv'
<1>1. PICK st \in {"checked", "refused"} :
        /\ posts' = [posts EXCEPT ![f] = st] /\ posts[f] = "new"
        /\ UNCHANGED <<peers, conns, bridges, inbox, errors, dialled, drops>>
  BY DEF Relay!PostChecked
<1>2. posts' \in [Frames -> {"new", "checked", "refused", "accepted"}]
      /\ \A g \in Frames : posts'[g] = "accepted" <=> posts[g] = "accepted"
  BY <1>1 DEF RelayInv, RelayTypes
<1>3. \A q \in Slots : Line(q)' = Line(q)
  BY <1>1, LinesKept
<1>4. OnePlace' /\ \A g : Nowhere(g)' <=> Nowhere(g)
  BY <1>3, Same DEF RelayInv
<1>5. RelayTypes' /\ Wired' /\ Addressed'
  BY <1>1, <1>2 DEF RelayInv, RelayTypes, Wired, Addressed, Elems
<1>6. Lossless'
  BY <1>1, <1>2, <1>4 DEF RelayInv, Lossless
<1> QED
  BY <1>2, <1>4, <1>5, <1>6 DEF RelayInv

LEMMA QueuedStep ==
    ASSUME RelayInv, NEW f \in Frames, Relay!PostQueued(f)
    PROVE  RelayInv'
<1>0. From[f] = sa /\ sa \in Sessions
  BY RelayAssumption DEF From
<1>1. /\ posts[f] = "checked" /\ posts' = [posts EXCEPT ![f] = "accepted"]
      /\ bridges' = [bridges EXCEPT ![sa].out = Append(@, f)]
      /\ UNCHANGED <<peers, conns, inbox, errors, dialled, drops>>
  BY <1>0 DEF Relay!PostQueued
<1>2. /\ posts' \in [Frames -> {"new", "checked", "refused", "accepted"}]
      /\ \A g \in Frames : g # f => posts'[g] = posts[g]
  BY <1>1 DEF RelayInv, RelayTypes
<1>3. /\ bridges' \in [Sessions -> BridgeRecords]
      /\ \A s \in Sessions : /\ bridges'[s].conn = bridges[s].conn /\ bridges'[s].connected = bridges[s].connected
                             /\ bridges'[s].held = bridges[s].held
                             /\ bridges'[s].out = IF s = sa THEN Append(bridges[s].out, f) ELSE bridges[s].out
  <2>1. bridges[sa] \in BridgeRecords /\ bridges[sa].out \in Seq(Frames)
    BY <1>0 DEF RelayInv, RelayTypes, BridgeRecords
  <2>2. Append(bridges[sa].out, f) \in Seq(Frames)
    BY <2>1
  <2> QED
    BY <1>0, <1>1, <2>1, <2>2 DEF RelayInv, RelayTypes, BridgeRecords
<1>4. <<"out", sa>> \in Slots /\ Line(<<"out", sa>>)' = Append(Line(<<"out", sa>>), f)
  BY <1>0, <1>3, AtSlots, NextLines
<1>5. \A q \in Slots \ {<<"out", sa>>} : Line(q)' = Line(q)
  BY <1>1, <1>3, LinesKept
<1>6. Nowhere(f)
  BY <1>1 DEF RelayInv
<1>7. OnePlace' /\ ~Nowhere(f)' /\ \A g \in Frames : g # f => (Nowhere(g)' <=> Nowhere(g))
  BY <1>4, <1>5, <1>6, Put DEF RelayInv
<1>8. RelayTypes' /\ Wired' /\ Addressed'
  BY <1>1, <1>2, <1>3 DEF RelayInv, RelayTypes, Wired, Addressed, Elems
<1>9. Lossless'
  BY <1>1, <1>2, <1>3, <1>7 DEF RelayInv, Lossless
<1>10. \A g \in Frames : posts'[g] # "accepted" => Nowhere(g)'
  BY <1>1, <1>2, <1>7 DEF RelayInv, RelayTypes
<1> QED
  BY <1>7, <1>8, <1>9, <1>10 DEF RelayInv

LEMMA TakeStep ==
    ASSUME RelayInv, NEW s \in Sessions, Relay!SenderTakes(s)
    PROVE  RelayInv'
<1> DEFINE f == Head(bridges[s].out)
<1>1. /\ bridges[s].connected /\ bridges[s].out # <<>> /\ bridges[s].held = <<>>
      /\ bridges' = [bridges EXCEPT ![s].held = <<f>>, ![s].out = Tail(@)]
      /\ UNCHANGED <<peers, conns, posts, inbox, errors, dialled, drops>>
  BY DEF Relay!SenderTakes
<1>2. bridges[s] \in BridgeRecords /\ bridges[s].out \in Seq(Frames)
  BY DEF RelayInv, RelayTypes, BridgeRecords
<1>3. f \in Frames /\ <<f>> \in Seq(Frames) /\ Tail(bridges[s].out) \in Seq(Frames) /\ Append(<<>>, f) = <<f>>
  BY <1>1, <1>2
<1> HIDE DEF f
<1>4. /\ bridges' \in [Sessions -> BridgeRecords]
      /\ \A k \in Sessions : /\ bridges'[k].conn = bridges[k].conn /\ bridges'[k].connected = bridges[k].connected
                             /\ k # s => bridges'[k] = bridges[k]
      /\ bridges'[s].held = <<f>> /\ bridges'[s].out = Tail(bridges[s].out)
  BY <1>1, <1>2, <1>3 DEF RelayInv, RelayTypes, BridgeRecords
<1>5. /\ <<"out", s>> \in Slots /\ <<"held", s>> \in Slots /\ <<"out", s>> # <<"held", s>>
      /\ Line(<<"out", s>>) = bridges[s].out /\ Line(<<"out", s>>)' = Tail(Line(<<"out", s>>))
      /\ Line(<<"held", s>>)' = Append(Line(<<"held", s>>), f)
  BY <1>1, <1>3, <1>4, AtSlots, NextLines
<1>6. \A q \in Slots \ {<<"out", s>>, <<"held", s>>} : Line(q)' = Line(q)
  BY <1>1, <1>4, LinesKept
<1>7. OnePlace' /\ \A g \in Frames : Nowhere(g)' <=> Nowhere(g)
  BY <1>1, <1>5, <1>6, MovedOn DEF RelayInv, f
<1>8. RelayTypes' /\ Wired' /\ Addressed'
  BY <1>1, <1>3, <1>4 DEF RelayInv, RelayTypes, Wired, Addressed, Elems
<1>9. Lossless'
  BY <1>1, <1>4, <1>7 DEF RelayInv, Lossless
<1>10. \A g \in Frames : posts'[g] # "accepted" => Nowhere(g)'
  BY <1>1, <1>7 DEF RelayInv
<1> QED
  BY <1>7, <1>8, <1>9, <1>10 DEF RelayInv

LEMMA SentStep ==
    ASSUME RelayInv, NEW s \in Sessions, Relay!SenderSends(s)
    PROVE  RelayInv'
<1>1. /\ bridges[s].connected /\ bridges[s].held # <<>>
      /\ conns' = [conns EXCEPT ![bridges[s].conn].up = @ \o bridges[s].held]
      /\ bridges' = [bridges EXCEPT ![s].held = <<>>]
      /\ UNCHANGED <<peers, posts, inbox, errors, dialled, drops>>
  BY DEF Relay!SenderSends
<1>2. PICK f \in Frames : bridges[s].held = <<f>>
  BY <1>1 DEF RelayInv, Wired
<1>3. bridges[s].conn \in Links /\ dialled \in Nat /\ bridges[s].conn <= dialled
  BY <1>1, Named DEF RelayInv, Wired
<1>4. PICK c \in Links : c = bridges[s].conn
  BY <1>3
<1>5. conns[c] \in LinkRecords /\ conns[c].up \in Seq(Frames) /\ bridges[s] \in BridgeRecords
  BY DEF RelayInv, RelayTypes, LinkRecords
<1>6. conns[c].up \o bridges[s].held = Append(conns[c].up, f) /\ Append(conns[c].up, f) \in Seq(Frames)
  BY <1>2, <1>5
<1>7. /\ conns' \in [Links -> LinkRecords]
      /\ \A k \in Links : /\ conns'[k].owner = conns[k].owner /\ conns'[k].cli = conns[k].cli
                          /\ conns'[k].srv = conns[k].srv /\ conns'[k].down = conns[k].down
                          /\ k # c => conns'[k] = conns[k]
      /\ conns'[c].up = Append(conns[c].up, f)
  BY <1>1, <1>4, <1>5, <1>6 DEF RelayInv, RelayTypes, LinkRecords
<1>8. /\ bridges' \in [Sessions -> BridgeRecords]
      /\ \A k \in Sessions : /\ bridges'[k].conn = bridges[k].conn /\ bridges'[k].connected = bridges[k].connected
                             /\ bridges'[k].out = bridges[k].out
                             /\ k # s => bridges'[k] = bridges[k]
      /\ bridges'[s].held = <<>>
  <2>1. <<>> \in Seq(Frames)
    OBVIOUS
  <2> QED
    BY <1>1, <1>5, <2>1 DEF RelayInv, RelayTypes, BridgeRecords
<1>9. Tail(<<f>>) = <<>> /\ Head(<<f>>) = f
  OBVIOUS
<1>10. /\ <<"held", s>> \in Slots /\ <<"up", c>> \in Slots /\ <<"held", s>> # <<"up", c>>
       /\ Line(<<"held", s>>) = <<f>> /\ Line(<<"held", s>>)' = Tail(Line(<<"held", s>>))
       /\ Line(<<"up", c>>)' = Append(Line(<<"up", c>>), f)
  BY <1>2, <1>7, <1>8, <1>9, AtSlots, NextLines
<1>11. \A q \in Slots \ {<<"held", s>>, <<"up", c>>} : Line(q)' = Line(q)
  BY <1>1, <1>7, <1>8, LinesKept
<1>12. OnePlace' /\ \A g \in Frames : Nowhere(g)' <=> Nowhere(g)
  BY <1>1, <1>2, <1>9, <1>10, <1>11, MovedOn DEF RelayInv
<1>13. RelayTypes' /\ Addressed'
  <2>1. RelayTypes'
    BY <1>1, <1>7, <1>8 DEF RelayInv, RelayTypes
  <2>2. \A k \in Links : conns'[k].down = conns[k].down /\ conns'[k].owner = conns[k].owner
    BY <1>7
  <2>3. Addressed'
    BY <1>1, <2>2, SMTT(20) DEF RelayInv, Addressed
  <2> QED
    BY <2>1, <2>3
<1>14. Wired'
  <2>1. conns[c] # Relay!NoConn
    BY <1>3, <1>4, Named DEF RelayInv, Wired, Relay!NoConn
  <2> QED
    BY <1>1, <1>7, <1>8, <2>1, StillWired DEF RelayInv
<1>15. Lossless'
  <2>1. /\ \A k \in Links : conns'[k].cli = conns[k].cli /\ conns'[k].srv = conns[k].srv
        /\ \A k \in Sessions : bridges'[k].connected = bridges[k].connected
        /\ \A g \in Frames : Nowhere(g)' <=> Nowhere(g)
        /\ UNCHANGED <<peers, posts, errors, dialled, drops>>
    BY <1>1, <1>7, <1>8, <1>12
  <2> QED
    BY <2>1 DEF RelayInv, Lossless
<1>16. \A g \in Frames : posts'[g] # "accepted" => Nowhere(g)'
  BY <1>1, <1>12 DEF RelayInv
<1> QED
  BY <1>12, <1>13, <1>14, <1>15, <1>16 DEF RelayInv

LEMMA LoseStep ==
    ASSUME RelayInv, NEW s \in Sessions, Relay!BridgeLoses(s)
    PROVE  RelayInv'
<1>1. /\ bridges[s].connected /\ conns[bridges[s].conn].cli = "lost"
      /\ bridges' = [bridges EXCEPT ![s].connected = FALSE, ![s].held = <<>>, ![s].conn = 0]
      /\ UNCHANGED <<peers, conns, posts, inbox, errors, dialled, drops>>
  BY DEF Relay!BridgeLoses
<1>2. /\ bridges' \in [Sessions -> BridgeRecords]
      /\ \A k \in Sessions : bridges'[k].out = bridges[k].out /\ (k # s => bridges'[k] = bridges[k])
      /\ bridges'[s].held = <<>> /\ ~bridges'[s].connected
  <2>1. <<>> \in Seq(Frames) /\ bridges[s] \in BridgeRecords
    BY DEF RelayInv, RelayTypes
  <2> QED
    BY <1>1, <2>1 DEF RelayInv, RelayTypes, BridgeRecords
<1>3. drops' # 0
  <2>1. bridges[s].conn \in Links /\ bridges[s].conn <= dialled
    BY <1>1, Named DEF RelayInv, Wired
  <2> QED
    BY <1>1, <2>1 DEF RelayInv, Lossless
<1>4. \A q \in Slots \ {<<"held", s>>} : Line(q)' = Line(q)
  BY <1>1, <1>2, LinesKept
<1>5. OnePlace' /\ \A g : Nowhere(g) => Nowhere(g)'
  <2>1. Line(<<"held", s>>)' = <<>> /\ <<>> \in Seq(Frames) /\ Once(<<>>) /\ Elems(<<>>) = {}
    BY <1>2, NextLines DEF Once, Elems
  <2>2. \A q \in Slots : Line(q)' \in Seq(Frames) /\ Once(Line(q)') /\ Elems(Line(q)') \subseteq Elems(Line(q))
    BY <1>4, <2>1 DEF RelayInv, OnePlace
  <2> QED
    BY <2>2, Gone DEF RelayInv
<1>6. RelayTypes' /\ Addressed'
  BY <1>1, <1>2 DEF RelayInv, RelayTypes, Addressed, Elems
<1>7. Wired'
  BY <1>1, <1>2, StillWired DEF RelayInv
<1> QED
  BY <1>1, <1>3, <1>5, <1>6, <1>7 DEF RelayInv, Lossless

LEMMA DropStep ==
    ASSUME RelayInv, NEW c \in Links, Relay!Drop(c)
    PROVE  RelayInv'
<1>1. PICK n \in 0..Len(conns[c].up) :
        /\ conns[c].cli = "up" /\ drops' = drops + 1
        /\ conns' = [conns EXCEPT ![c].cli = "lost", ![c].up = SubSeq(@, 1, n)]
        /\ UNCHANGED <<peers, bridges, posts, inbox, errors, dialled>>
  BY DEF Relay!Drop
<1>2. conns[c] \in LinkRecords /\ conns[c].up \in Seq(Frames) /\ Once(conns[c].up)
  <2>1. conns[c] \in LinkRecords /\ conns[c].up \in Seq(Frames)
    BY DEF RelayInv, RelayTypes, LinkRecords
  <2>2. <<"up", c>> \in Slots /\ Line(<<"up", c>>) = conns[c].up
    BY AtSlots
  <2> QED
    BY <2>1, <2>2 DEF RelayInv, OnePlace
<1>3. /\ SubSeq(conns[c].up, 1, n) \in Seq(Frames) /\ Once(SubSeq(conns[c].up, 1, n))
      /\ Elems(SubSeq(conns[c].up, 1, n)) \subseteq Elems(conns[c].up)
  BY <1>2, StartOnce
<1>4. /\ conns' \in [Links -> LinkRecords]
      /\ \A k \in Links : /\ conns'[k].owner = conns[k].owner /\ conns'[k].srv = conns[k].srv
                          /\ conns'[k].down = conns[k].down
                          /\ k # c => conns'[k] = conns[k]
      /\ conns'[c].cli = "lost" /\ conns'[c].up = SubSeq(conns[c].up, 1, n)
  BY <1>1, <1>2, <1>3 DEF RelayInv, RelayTypes, LinkRecords
<1>5. drops' # 0 /\ drops' \in Nat
  BY <1>1, Named DEF RelayInv
<1>6. \A q \in Slots \ {<<"up", c>>} : Line(q)' = Line(q)
  BY <1>1, <1>4, LinesKept
<1>7. OnePlace' /\ \A g : Nowhere(g) => Nowhere(g)'
  <2>1. \A q \in Slots : Line(q)' \in Seq(Frames) /\ Once(Line(q)') /\ Elems(Line(q)') \subseteq Elems(Line(q))
    <3>1. Line(<<"up", c>>)' = SubSeq(conns[c].up, 1, n) /\ Line(<<"up", c>>) = conns[c].up
      BY <1>4, AtSlots, NextLines
    <3> QED
      BY <1>3, <1>6, <3>1 DEF RelayInv, OnePlace
  <2> QED
    BY <2>1, Gone DEF RelayInv
<1>8. RelayTypes' /\ Addressed'
  BY <1>1, <1>4, <1>5, SMTT(20) DEF RelayInv, RelayTypes, Addressed, Elems
<1>9. conns[c] # Relay!NoConn
  BY <1>1 DEF Relay!NoConn
<1>10. Wired'
  BY <1>1, <1>4, <1>9, StillWired DEF RelayInv
<1> QED
  BY <1>1, <1>5, <1>7, <1>8, <1>10 DEF RelayInv, Lossless

LEMMA ReceiveStep ==
    ASSUME RelayInv, NEW s \in Sessions, Relay!Receive(s)
    PROVE  RelayInv'
<1>0. /\ RelayTypes /\ Wired /\ OnePlace /\ Addressed /\ Lossless
      /\ \A f \in Frames : posts[f] # "accepted" => Nowhere(f)
  BY DEF RelayInv
<1>1. bridges[s].connected
  BY DEF Relay!Receive
<1>2. PICK c \in Links : c = bridges[s].conn
  BY <1>0, <1>1, Named
<1> DEFINE m == Head(conns[c].down)
<1>3. /\ conns[c].cli = "up" /\ conns[c].down # <<>> /\ conns' = [conns EXCEPT ![c].down = Tail(@)]
      /\ IF m[1] = "error" THEN errors' = errors \cup {m[2]} /\ UNCHANGED inbox
         ELSE UNCHANGED errors /\ (inbox' = [inbox EXCEPT ![s] = Append(@, m[2])] \/ UNCHANGED inbox)
      /\ drops' = IF errors' = errors /\ inbox' = inbox THEN drops + 1 ELSE drops
      /\ UNCHANGED <<peers, bridges, posts, dialled>>
  BY <1>2 DEF Relay!Receive
<1>4. conns[c] \in LinkRecords /\ conns[c].down \in Seq(Notices)
  BY <1>0 DEF RelayTypes, LinkRecords
<1>5. /\ m \in Notices /\ m = conns[c].down[1] /\ m[2] = Head(Tags(conns[c].down)) /\ Tags(conns[c].down) # <<>>
      /\ Tail(conns[c].down) \in Seq(Notices) /\ Tags(Tail(conns[c].down)) = Tail(Tags(conns[c].down))
      /\ Len(Tail(conns[c].down)) = Len(conns[c].down) - 1
      /\ \A i \in 1..(Len(conns[c].down) - 1) : Tail(conns[c].down)[i] = conns[c].down[i + 1]
  BY <1>3, <1>4, TagTail
<1>6. /\ Len(conns[c].down) \in Nat /\ Len(conns[c].down) >= 1
      /\ DOMAIN conns[c].down = 1..Len(conns[c].down)
      /\ DOMAIN Tail(conns[c].down) = 1..(Len(conns[c].down) - 1)
  BY <1>3, <1>4
<1>7. PICK f \in Frames, kind \in {"frame", "error"} : m = <<kind, f>>
  <2>1. \A x \in Notices : \E f \in Frames, kind \in {"frame", "error"} : x = <<kind, f>>
    BY DEF Notices
  <2> QED
    BY <1>5, <2>1
<1>8. m[1] = kind /\ m[2] = f
  BY <1>7
<1> HIDE DEF m
<1>9. /\ conns' \in [Links -> LinkRecords]
      /\ \A k \in Links : /\ conns'[k].owner = conns[k].owner /\ conns'[k].srv = conns[k].srv
                          /\ conns'[k].cli = conns[k].cli /\ conns'[k].up = conns[k].up
                          /\ k # c => conns'[k] = conns[k]
      /\ conns'[c].down = Tail(conns[c].down)
  BY <1>0, <1>3, <1>4, <1>5 DEF RelayTypes, LinkRecords
<1>10. drops' \in Nat /\ (drops' = 0 => drops = 0) /\ (errors' = errors /\ inbox' = inbox => drops' # 0)
  BY <1>0, <1>3, Named
<1>11. conns[c].owner = s /\ (kind = "frame" => To[f] = s)
  <2>1. conns[c].owner = s
    BY <1>0, <1>1, <1>2 DEF Wired
  <2>2. 1 \in DOMAIN conns[c].down /\ conns[c].down[1][1] = kind /\ conns[c].down[1][2] = f
    BY <1>5, <1>6, <1>8
  <2>3. conns[c].down[1][1] = "frame" => To[conns[c].down[1][2]] = conns[c].owner
    BY <1>0, <2>2 DEF Addressed
  <2> QED
    BY <2>1, <2>2, <2>3
<1>12. \A k \in Links : \A i \in DOMAIN conns'[k].down :
         conns'[k].down[i][1] = "frame" => To[conns'[k].down[i][2]] = conns'[k].owner
  <2> TAKE k \in Links
  <2>1. CASE k # c
    BY <1>0, <1>9, <2>1 DEF Addressed
  <2>2. CASE k = c
    <3> TAKE i \in DOMAIN conns'[k].down
    <3>1. i \in 1..(Len(conns[c].down) - 1)
      BY <1>6, <1>9, <2>2
    <3>2. i + 1 \in DOMAIN conns[c].down
      BY <1>6, <3>1
    <3>3. conns'[k].down[i] = conns[c].down[i + 1]
      BY <1>5, <1>9, <2>2, <3>1
    <3> QED
      BY <1>0, <1>9, <2>2, <3>2, <3>3 DEF Addressed
  <2> QED
    BY <2>1, <2>2
<1>13. Wired'
  <2>1. conns[c] # Relay!NoConn
    BY <1>3 DEF Relay!NoConn
  <2> QED
    BY <1>0, <1>3, <1>9, <2>1, StillWired
<1>14. /\ <<"down", c>> \in Slots /\ Line(<<"down", c>>) = Tags(conns[c].down) /\ Line(<<"down", c>>) # <<>>
       /\ Line(<<"down", c>>)' = Tail(Line(<<"down", c>>)) /\ Head(Line(<<"down", c>>)) = f
  BY <1>5, <1>8, <1>9, AtSlots, NextLines
<1>15. CASE inbox' = inbox
  <2>1. \A q \in Slots \ {<<"down", c>>} : Line(q)' = Line(q)
    BY <1>3, <1>9, <1>15, LinesKept
  <2>2. /\ OnePlace'
        /\ \A g \in Frames : (Nowhere(g) => Nowhere(g)') /\ (g # f => (Nowhere(g)' <=> Nowhere(g)))
    BY <1>0, <1>14, <2>1, Taken
  <2>3. errors' \subseteq Frames /\ (drops' = 0 => f \in errors') /\ errors \subseteq errors'
    BY <1>0, <1>3, <1>8, <1>10, <1>15 DEF RelayTypes
  <2>4. RelayTypes' /\ Addressed'
    BY <1>0, <1>3, <1>9, <1>10, <1>12, <1>15, <2>3, SMTT(20) DEF RelayTypes, Addressed, Elems
  <2>5. Lossless'
    BY <1>0, <1>3, <1>9, <1>10, <2>2, <2>3 DEF Lossless
  <2> QED
    BY <1>0, <1>3, <1>13, <2>2, <2>4, <2>5 DEF RelayInv
<1>16. CASE inbox' # inbox
  <2>1. /\ kind = "frame" /\ inbox' = [inbox EXCEPT ![s] = Append(@, f)] /\ errors' = errors
    BY <1>3, <1>8, <1>16
  <2>2. inbox[s] \in Seq(Frames) /\ Append(inbox[s], f) \in Seq(Frames)
    BY <1>0 DEF RelayTypes
  <2>3. /\ inbox' \in [Sessions -> Seq(Frames)] /\ inbox'[s] = Append(inbox[s], f)
        /\ \A k \in Sessions : k # s => inbox'[k] = inbox[k]
    BY <1>0, <2>1, <2>2 DEF RelayTypes
  <2>4. /\ <<"inbox", s>> \in Slots /\ <<"inbox", s>> # <<"down", c>>
        /\ Line(<<"inbox", s>>)' = Append(Line(<<"inbox", s>>), f)
    BY <2>3, AtSlots, NextLines
  <2>5. \A q \in Slots \ {<<"down", c>>, <<"inbox", s>>} : Line(q)' = Line(q)
    BY <1>3, <1>9, <2>3, LinesKept
  <2>6. OnePlace' /\ \A g \in Frames : Nowhere(g)' <=> Nowhere(g)
    BY <1>0, <1>14, <2>4, <2>5, MovedOn
  <2>7. Elems(inbox'[s]) \subseteq Elems(inbox[s]) \cup {f}
    BY <2>2, <2>3 DEF Elems
  <2>8. \A k \in Sessions : \A g \in Elems(inbox'[k]) : To[g] = k
    BY <1>0, <1>11, <2>1, <2>3, <2>7 DEF Addressed
  <2>9. Addressed'
    BY <1>12, <2>8 DEF Addressed, Elems
  <2>10. RelayTypes'
    BY <1>0, <1>3, <1>9, <1>10, <2>1, <2>3 DEF RelayTypes
  <2>11. Lossless'
    BY <1>0, <1>3, <1>9, <1>10, <2>1, <2>6 DEF Lossless
  <2> QED
    BY <1>0, <1>3, <1>13, <2>6, <2>9, <2>10, <2>11 DEF RelayInv
<1> QED
  BY <1>15, <1>16

LEMMA ConnectStep ==
    ASSUME RelayInv, NEW s \in Sessions, Relay!Connect(s)
    PROVE  RelayInv'
<1>0. /\ RelayTypes /\ Wired /\ OnePlace /\ Addressed /\ Lossless
      /\ \A f \in Frames : posts[f] # "accepted" => Nowhere(f)
  BY DEF RelayInv
<1>1. PICK c \in Links : c = dialled + 1
  BY <1>0, RelayAssumption DEF Relay!Connect, RelayTypes, Links, Relay!Conns
<1>2. /\ ~bridges[s].connected /\ dialled' = c
      /\ conns' = [k \in Links |->
                     IF k = c THEN [Relay!NoConn EXCEPT !.owner = s, !.cli = "up", !.srv = "open"]
                     ELSE IF k = peers[s] THEN [conns[k] EXCEPT !.srv = "closing"] ELSE conns[k]]
      /\ peers' = [peers EXCEPT ![s] = c]
      /\ bridges' = [bridges EXCEPT ![s].conn = c, ![s].connected = TRUE]
      /\ UNCHANGED <<posts, inbox, errors, drops>>
  BY <1>1 DEF Relay!Connect, Links
<1>3. conns[c] = Relay!NoConn /\ dialled \in Nat /\ c \in Nat
  BY <1>0, <1>1, Named DEF Wired
<1>4. /\ conns'[c] \in LinkRecords /\ conns'[c].owner = s /\ conns'[c].cli = "up" /\ conns'[c].srv = "open"
      /\ conns'[c].up = conns[c].up /\ conns'[c].down = conns[c].down /\ conns[c].srv = "ended"
      /\ conns[c].down = <<>>
  <2>1. conns'[c] = [owner |-> s, cli |-> "up", srv |-> "open", up |-> <<>>, down |-> <<>>]
    BY <1>2 DEF Relay!NoConn
  <2>2. <<>> \in Seq(Frames) /\ <<>> \in Seq(Notices)
    OBVIOUS
  <2> QED
    BY <1>3, <2>1, <2>2 DEF LinkRecords, Relay!NoConn
<1>5. \A k \in Links : k # c =>
         /\ conns'[k] \in LinkRecords /\ conns'[k].owner = conns[k].owner /\ conns'[k].cli = conns[k].cli
         /\ conns'[k].up = conns[k].up /\ conns'[k].down = conns[k].down
         /\ conns'[k].srv = IF k = peers[s] THEN "closing" ELSE conns[k].srv
         /\ k # peers[s] => conns'[k] = conns[k]
  <2>1. \A x \in LinkRecords : LET y == [x EXCEPT !.srv = "closing"] IN
           /\ y \in LinkRecords /\ y.owner = x.owner /\ y.cli = x.cli
           /\ y.up = x.up /\ y.down = x.down /\ y.srv = "closing"
    BY DEF LinkRecords
  <2>2. \A k \in Links : conns[k] \in LinkRecords
    BY <1>0 DEF RelayTypes
  <2>3. \A k \in Links \ {c} :
           conns'[k] = IF k = peers[s] THEN [conns[k] EXCEPT !.srv = "closing"] ELSE conns[k]
    BY <1>2
  <2> TAKE k \in Links
  <2>4. CASE k = peers[s]
    <3>1. k # c => conns'[k] = [conns[k] EXCEPT !.srv = "closing"]
      BY <2>3, <2>4
    <3> QED
      <4>1. PICK x \in LinkRecords : x = conns[k]
        BY <2>2
      <4>2. k # c => conns'[k] = [x EXCEPT !.srv = "closing"]
        BY <3>1, <4>1
      <4> QED
        BY <2>1, <2>4, <4>1, <4>2
  <2>5. CASE k # peers[s]
    BY <2>2, <2>3, <2>5
  <2> QED
    BY <2>4, <2>5
<1>6. conns' \in [Links -> LinkRecords]
  BY <1>2, <1>4, <1>5
<1>7. /\ bridges' \in [Sessions -> BridgeRecords]
      /\ \A k \in Sessions : /\ bridges'[k].out = bridges[k].out /\ bridges'[k].held = bridges[k].held
                             /\ k # s => bridges'[k] = bridges[k]
      /\ bridges'[s].conn = c /\ bridges'[s].connected = TRUE
  <2>1. bridges[s] \in BridgeRecords
    BY <1>0 DEF RelayTypes
  <2> QED
    BY <1>0, <1>2, <1>3, <2>1 DEF RelayTypes, BridgeRecords
<1>8. /\ peers' \in [Sessions -> Nat] /\ peers'[s] = c /\ \A k \in Sessions : k # s => peers'[k] = peers[k]
  BY <1>0, <1>2, <1>3 DEF RelayTypes
<1>9. \A q \in Slots : Line(q)' = Line(q)
  <2>1. /\ \A k \in Sessions : /\ bridges'[k].out = bridges[k].out /\ bridges'[k].held = bridges[k].held
                               /\ inbox'[k] = inbox[k]
        /\ \A k \in Links : conns'[k].up = conns[k].up /\ conns'[k].down = conns[k].down
    BY <1>2, <1>4, <1>5, <1>7
  <2>2. \A q \in Slots \ {} : Line(q)' = Line(q)
    BY <2>1, LinesKept
  <2> QED
    BY <2>2
<1>10. OnePlace' /\ \A g : Nowhere(g)' <=> Nowhere(g)
  BY <1>0, <1>9, Same
<1>11. RelayTypes'
  BY <1>0, <1>1, <1>2, <1>3, <1>6, <1>7, <1>8, RelayAssumption DEF RelayTypes, Links, Relay!Conns
<1>12. Addressed'
  <2>1. \A k \in Links : conns'[k].down = conns[k].down /\ (k # c => conns'[k].owner = conns[k].owner)
    BY <1>4, <1>5
  <2> QED
    BY <1>0, <1>2, <1>4, <2>1 DEF Addressed, Elems
<1>13. Wired'
  <2>1. \A k \in Links : IF k <= dialled' THEN conns'[k].owner \in Sessions /\ conns'[k].cli # "closed"
                         ELSE conns'[k] = Relay!NoConn
    <3> TAKE k \in Links
    <3>1. k \in Nat /\ dialled \in Nat
      BY <1>0, Named
    <3>2. CASE k = c
      BY <1>2, <1>3, <1>4, <3>2
    <3>3. CASE k < c
      <4>1. k <= dialled /\ k <= dialled' /\ k # c
        BY <1>1, <1>2, <1>3, <3>1, <3>3
      <4> QED
        BY <1>0, <1>5, <4>1 DEF Wired
    <3>4. CASE k > c
      <4>1. ~(k <= dialled) /\ ~(k <= dialled') /\ k # c
        BY <1>1, <1>2, <1>3, <3>1, <3>4
      <4>2. k # peers[s]
        BY <1>0, <3>1, <4>1, Named DEF Wired
      <4> QED
        BY <1>0, <1>5, <4>1, <4>2 DEF Wired
    <3> QED
      BY <1>3, <3>1, <3>2, <3>3, <3>4
  <2>2. ASSUME NEW k \in Sessions
        PROVE  /\ peers'[k] # 0 => peers'[k] <= dialled' /\ conns'[peers'[k]].owner = k
               /\ bridges'[k].connected => bridges'[k].conn \in 1..dialled' /\ conns'[bridges'[k].conn].owner = k
               /\ bridges'[k].held # <<>> => \E f \in Frames : bridges'[k].held = <<f>>
    <3>1. bridges'[k].held # <<>> => \E f \in Frames : bridges'[k].held = <<f>>
      BY <1>0, <1>7 DEF Wired
    <3>2. CASE k = s
      BY <1>1, <1>2, <1>3, <1>4, <1>7, <1>8, <3>1, <3>2
    <3>3. CASE k # s
      <4>1. ASSUME peers'[k] # 0 PROVE peers'[k] <= dialled' /\ conns'[peers'[k]].owner = k
        <5>1. peers[k] # 0 /\ peers[k] <= dialled /\ peers[k] \in Links /\ peers[k] \in Nat /\ conns[peers[k]].owner = k
          BY <1>0, <1>8, <3>3, <4>1, Named DEF Wired
        <5>2. peers[k] # c
          BY <1>1, <1>3, <5>1
        <5> QED
          BY <1>1, <1>2, <1>3, <1>5, <1>8, <3>3, <5>1, <5>2
      <4>2. ASSUME bridges'[k].connected
            PROVE  bridges'[k].conn \in 1..dialled' /\ conns'[bridges'[k].conn].owner = k
        <5>1. /\ bridges'[k].conn = bridges[k].conn /\ bridges[k].conn \in 1..dialled /\ bridges[k].conn \in Links
              /\ conns[bridges[k].conn].owner = k
          BY <1>0, <1>7, <3>3, <4>2, Named DEF Wired
        <5>2. bridges[k].conn # c /\ bridges[k].conn \in 1..dialled'
          BY <1>1, <1>2, <1>3, <5>1
        <5> QED
          BY <1>5, <5>1, <5>2
      <4> QED
        BY <3>1, <4>1, <4>2
    <3> QED
      BY <3>2, <3>3
  <2>3. \A k \in Links : conns'[k].srv = "open" => peers'[conns'[k].owner] = k
    <3> SUFFICES ASSUME NEW k \in Links, conns'[k].srv = "open" PROVE peers'[conns'[k].owner] = k
      OBVIOUS
    <3>1. CASE k = c
      BY <1>4, <1>8, <3>1
    <3>2. CASE k # c
      <4>1. k # peers[s] /\ conns[k].srv = "open" /\ conns'[k].owner = conns[k].owner
        BY <1>5, <3>2
      <4>2. conns[k].owner \in Sessions /\ peers[conns[k].owner] = k
        BY <1>0, <4>1 DEF Wired, Relay!NoConn
      <4> QED
        BY <1>8, <4>1, <4>2
    <3> QED
      BY <3>1, <3>2
  <2> QED
    BY <2>1, <2>2, <2>3 DEF Wired
<1>14. Lossless'
  <2> SUFFICES ASSUME drops' = 0 PROVE Lossless'
    BY DEF Lossless
  <2>1. drops = 0 /\ peers[s] = 0
    BY <1>0, <1>2 DEF Lossless
  <2>2. \A k \in Links : k <= dialled' => conns'[k].cli = "up" /\ conns'[k].srv = "open"
    <3> TAKE k \in Links
    <3>1. CASE k = c
      BY <1>4, <3>1
    <3>2. CASE k # c
      <4>1. k \in Nat /\ k # peers[s] /\ (k <= dialled' => k <= dialled)
        BY <1>0, <1>1, <1>2, <1>3, <2>1, <3>2, Named
      <4> QED
        BY <1>0, <1>5, <2>1, <3>2, <4>1 DEF Lossless
    <3> QED
      BY <3>1, <3>2
  <2>3. \A k \in Sessions : peers'[k] # 0 => bridges'[k].connected
    BY <1>0, <1>7, <1>8, <2>1 DEF Lossless
  <2>4. \A f \in Frames : posts'[f] = "accepted" => f \in errors' \/ ~Nowhere(f)'
    BY <1>0, <1>2, <1>10, <2>1 DEF Lossless
  <2> QED
    BY <2>2, <2>3, <2>4 DEF Lossless
<1> QED
  BY <1>0, <1>2, <1>10, <1>11, <1>12, <1>13, <1>14 DEF RelayInv

LEMMA RoutedStep ==
    ASSUME RelayInv, NEW c \in Links, Relay!Route(c)
    PROVE  RelayInv'
<1>0. /\ RelayTypes /\ Wired /\ OnePlace /\ Addressed /\ Lossless
      /\ \A f \in Frames : posts[f] # "accepted" => Nowhere(f)
  BY DEF RelayInv
<1> DEFINE h == Head(conns[c].up)
           read == [conns EXCEPT ![c].up = Tail(@)]
<1>1. /\ conns[c].srv \in {"open", "closing"} /\ conns[c].up # <<>>
      /\ conns' = IF peers[To[h]] # 0 THEN Relay!Send(read, peers[To[h]], <<"frame", h>>)
                  ELSE Relay!Send(read, peers[conns[c].owner], <<"error", h>>)
      /\ UNCHANGED <<peers, bridges, posts, inbox, errors, dialled, drops>>
  BY DEF Relay!Route
<1>2. conns[c] \in LinkRecords /\ conns[c].up \in Seq(Frames)
  BY <1>0 DEF RelayTypes, LinkRecords
<1>3. h \in Frames /\ Tail(conns[c].up) \in Seq(Frames)
  BY <1>1, <1>2
<1>4. PICK f \in Frames : f = h
  BY <1>3
<1>5. To[f] = sb /\ sb \in Sessions
  BY RelayAssumption DEF To
<1>6. conns[c].owner \in Sessions /\ c <= dialled
  BY <1>0, <1>1 DEF Wired, Relay!NoConn
<1>7. PICK d \in Nat, kind \in {"frame", "error"} :
        /\ conns' = Relay!Send(read, d, <<kind, f>>)
        /\ d # 0 => d \in Links /\ d <= dialled
        /\ kind = "frame" => d # 0 /\ conns[d].owner = To[f]
        /\ d = 0 => peers[conns[c].owner] = 0
  <2>1. CASE peers[To[f]] # 0
    BY <1>0, <1>1, <1>4, <1>5, <2>1, Named DEF RelayTypes, Wired
  <2>2. CASE peers[To[f]] = 0
    <3>1. /\ conns' = Relay!Send(read, peers[conns[c].owner], <<"error", f>>)
          /\ peers[conns[c].owner] \in Nat
          /\ peers[conns[c].owner] # 0 => peers[conns[c].owner] \in Links /\ peers[conns[c].owner] <= dialled
      BY <1>0, <1>1, <1>4, <1>6, <2>2, Named DEF RelayTypes, Wired
    <3> QED
      BY <3>1
  <2> QED
    BY <2>1, <2>2
<1>8. /\ read \in [Links -> LinkRecords]
      /\ \A k \in Links : /\ read[k].owner = conns[k].owner /\ read[k].cli = conns[k].cli
                          /\ read[k].srv = conns[k].srv /\ read[k].down = conns[k].down
                          /\ k # c => read[k] = conns[k]
      /\ read[c].up = Tail(conns[c].up)
  BY <1>0, <1>2, <1>3 DEF RelayTypes, LinkRecords
<1> HIDE DEF read
<1>9. /\ conns' \in [Links -> LinkRecords]
      /\ \A k \in Links : /\ conns'[k].owner = conns[k].owner /\ conns'[k].cli = conns[k].cli
                          /\ conns'[k].srv = conns[k].srv
                          /\ conns'[k].up = IF k = c THEN Tail(conns[k].up) ELSE conns[k].up
                          /\ conns'[k].down = IF k = d THEN Append(conns[k].down, <<kind, f>>) ELSE conns[k].down
                          /\ k \notin {c, d} => conns'[k] = conns[k]
  <2>0. \A k \in Links : k # 0
    BY <1>0, Named
  <2>1. CASE d = 0
    BY <1>7, <1>8, <2>0, <2>1 DEF Relay!Send
  <2>2. CASE d # 0
    <3>1. d \in Links /\ conns' = [read EXCEPT ![d].down = Append(@, <<kind, f>>)]
      BY <1>7, <2>2 DEF Relay!Send
    <3>2. read[d] \in LinkRecords /\ read[d].down \in Seq(Notices)
      BY <1>8, <3>1 DEF LinkRecords
    <3>3. Append(read[d].down, <<kind, f>>) \in Seq(Notices)
      BY <3>2, TagAppend
    <3>4. /\ conns' \in [Links -> LinkRecords]
          /\ \A k \in Links : /\ conns'[k].owner = read[k].owner /\ conns'[k].cli = read[k].cli
                              /\ conns'[k].srv = read[k].srv /\ conns'[k].up = read[k].up
                              /\ k # d => conns'[k] = read[k]
          /\ conns'[d].down = Append(read[d].down, <<kind, f>>)
      BY <1>8, <3>1, <3>2, <3>3 DEF LinkRecords
    <3> QED
      BY <1>8, <3>1, <3>4
  <2> QED
    BY <2>1, <2>2
<1>10. /\ <<"up", c>> \in Slots /\ Line(<<"up", c>>) = conns[c].up /\ Line(<<"up", c>>) # <<>>
       /\ Line(<<"up", c>>)' = Tail(Line(<<"up", c>>)) /\ Head(Line(<<"up", c>>)) = f
  <2>1. <<"up", c>> \in Slots /\ Line(<<"up", c>>) = conns[c].up
    BY AtSlots
  <2>2. Line(<<"up", c>>)' = conns'[c].up
    BY NextLines
  <2>3. conns'[c].up = Tail(conns[c].up)
    BY <1>9
  <2>4. conns[c].up # <<>> /\ Head(conns[c].up) = f
    BY <1>1, <1>4
  <2> QED
    BY <2>1, <2>2, <2>3, <2>4
<1>11. RelayTypes'
  BY <1>0, <1>1, <1>9 DEF RelayTypes
<1>12. Wired'
  <2>1. ASSUME NEW k \in Links, conns[k] = Relay!NoConn PROVE conns'[k] = conns[k]
    <3>1. k # c
      BY <1>1, <2>1 DEF Relay!NoConn
    <3>2. k # d
      BY <1>0, <1>7, <2>1, Named DEF Wired, Relay!NoConn
    <3> QED
      BY <1>9, <2>1, <3>1, <3>2
  <2> QED
    BY <1>0, <1>1, <1>9, <2>1, StillWired
<1>13. Addressed'
  <2>1. \A k \in Links : \A i \in DOMAIN conns'[k].down :
          conns'[k].down[i][1] = "frame" => To[conns'[k].down[i][2]] = conns'[k].owner
    <3> TAKE k \in Links
    <3>1. CASE k # d
      BY <1>0, <1>9, <3>1 DEF Addressed
    <3>2. CASE k = d
      <4> TAKE i \in DOMAIN conns'[k].down
      <4>1. conns[d].down \in Seq(Notices) /\ conns'[k].down = Append(conns[d].down, <<kind, f>>)
        BY <1>0, <1>9, <3>2 DEF RelayTypes, LinkRecords
      <4>2. \/ i \in DOMAIN conns[d].down /\ conns'[k].down[i] = conns[d].down[i]
            \/ conns'[k].down[i] = <<kind, f>>
        BY <4>1
      <4>3. CASE conns'[k].down[i] = <<kind, f>>
        BY <1>7, <1>9, <3>2, <4>3
      <4>4. CASE i \in DOMAIN conns[d].down /\ conns'[k].down[i] = conns[d].down[i]
        BY <1>0, <1>9, <3>2, <4>4 DEF Addressed
      <4> QED
        BY <4>2, <4>3, <4>4
    <3> QED
      BY <3>1, <3>2
  <2>2. \A s \in Sessions : \A g \in Elems(inbox'[s]) : To[g] = s
    BY <1>0, <1>1 DEF Addressed
  <2> QED
    BY <2>1, <2>2 DEF Addressed, Elems
<1>14. CASE d = 0
  <2>1. \A q \in Slots \ {<<"up", c>>} : Line(q)' = Line(q)
    <3>1. \A k \in Links : conns'[k].down = conns[k].down /\ (k # c => conns'[k].up = conns[k].up)
      BY <1>0, <1>9, <1>14, Named
    <3> QED
      BY <1>1, <3>1, LinesKept
  <2>2. OnePlace' /\ \A g \in Frames : Nowhere(g) => Nowhere(g)'
    BY <1>0, <1>10, <2>1, Taken
  <2>3. drops # 0
    BY <1>0, <1>1, <1>6, <1>7, <1>14, Named DEF Wired, Lossless
  <2> QED
    BY <1>0, <1>1, <1>11, <1>12, <1>13, <2>2, <2>3 DEF RelayInv, Lossless
<1>15. CASE d # 0
  <2>1. d \in Links /\ conns[d].down \in Seq(Notices) /\ conns'[d].down = Append(conns[d].down, <<kind, f>>)
    BY <1>0, <1>7, <1>9, <1>15 DEF RelayTypes, LinkRecords
  <2>2. Tags(conns'[d].down) = Append(Tags(conns[d].down), f)
    BY <2>1, TagAppend
  <2>3. /\ <<"down", d>> \in Slots /\ <<"down", d>> # <<"up", c>>
        /\ Line(<<"down", d>>)' = Append(Line(<<"down", d>>), f)
    BY <2>1, <2>2, AtSlots, NextLines
  <2>4. \A q \in Slots \ {<<"up", c>>, <<"down", d>>} : Line(q)' = Line(q)
    <3>1. \A k \in Links : (k # d => conns'[k].down = conns[k].down) /\ (k # c => conns'[k].up = conns[k].up)
      BY <1>9
    <3> QED
      BY <1>1, <3>1, LinesKept
  <2>5. OnePlace' /\ \A g \in Frames : Nowhere(g)' <=> Nowhere(g)
    BY <1>0, <1>10, <2>3, <2>4, MovedOn
  <2>6. Lossless'
    <3>1. \A k \in Links : conns'[k].cli = conns[k].cli /\ conns'[k].srv = conns[k].srv
      BY <1>9
    <3>2. \A g \in Frames : posts'[g] = "accepted" => posts[g] = "accepted" /\ (~Nowhere(g) => ~Nowhere(g)')
      BY <1>1, <2>5
    <3> HIDE DEF h
    <3>3. UNCHANGED <<peers, bridges, errors, dialled, drops>>
      BY <1>1
    <3> QED
      BY <1>0, <3>1, <3>2, <3>3 DEF Lossless
  <2> QED
    BY <1>0, <1>1, <1>11, <1>12, <1>13, <2>5, <2>6 DEF RelayInv
<1> QED
  BY <1>14, <1>15

LEMMA EndedStep ==
    ASSUME RelayInv, NEW c \in Links, Relay!End(c) \/ Relay!Noticed(c)
    PROVE  RelayInv'
<1>0. /\ RelayTypes /\ Wired /\ OnePlace /\ Addressed /\ Lossless
      /\ \A f \in Frames : posts[f] # "accepted" => Nowhere(f)
  BY DEF RelayInv
<1>1. PICK srv \in {"closing", "ended"} :
        /\ conns' = [conns EXCEPT ![c].srv = srv]
        /\ conns[c].srv # "ended"
        /\ conns[c].srv = "closing" \/ conns[c].cli = "lost"
        /\ UNCHANGED <<bridges, posts, inbox, errors, dialled, drops>>
  BY DEF Relay!End, Relay!Noticed
<1>2. \/ peers' = peers
      \/ peers' = [s \in Sessions |-> IF peers[s] = c THEN 0 ELSE peers[s]]
  BY DEF Relay!End, Relay!Noticed
<1>3. /\ peers' \in [Sessions -> Nat] /\ \A s \in Sessions : peers'[s] = peers[s] \/ (peers'[s] = 0 /\ peers[s] = c)
  BY <1>0, <1>2 DEF RelayTypes
<1>4. conns[c] \in LinkRecords
  BY <1>0 DEF RelayTypes
<1>5. /\ conns' \in [Links -> LinkRecords]
      /\ \A k \in Links : /\ conns'[k].owner = conns[k].owner /\ conns'[k].cli = conns[k].cli
                          /\ conns'[k].up = conns[k].up /\ conns'[k].down = conns[k].down
                          /\ k # c => conns'[k] = conns[k]
      /\ conns'[c].srv = srv
  BY <1>0, <1>1, <1>4 DEF RelayTypes, LinkRecords
<1>6. c <= dialled /\ drops # 0
  BY <1>0, <1>1 DEF Wired, Lossless, Relay!NoConn
<1>7. OnePlace' /\ \A g : Nowhere(g)' <=> Nowhere(g)
  <2>1. \A q \in Slots \ {} : Line(q)' = Line(q)
    BY <1>1, <1>5, LinesKept
  <2> QED
    BY <1>0, <2>1, Same
<1>8. RelayTypes' /\ Addressed' /\ Lossless'
  BY <1>0, <1>1, <1>3, <1>5, <1>6 DEF RelayTypes, Addressed, Lossless, Elems
<1>9. Wired'
  <2>1. \A k \in Links : IF k <= dialled THEN conns'[k].owner \in Sessions /\ conns'[k].cli # "closed"
                         ELSE conns'[k] = Relay!NoConn
    BY <1>0, <1>5, <1>6 DEF Wired
  <2>2. \A s \in Sessions : /\ peers'[s] # 0 => peers'[s] <= dialled /\ conns'[peers'[s]].owner = s
                            /\ bridges[s].connected =>
                                 /\ bridges[s].conn \in 1..dialled /\ conns'[bridges[s].conn].owner = s
                            /\ bridges[s].held # <<>> => \E f \in Frames : bridges[s].held = <<f>>
    BY <1>0, <1>3, <1>5, Named DEF Wired
  <2>3. ASSUME NEW k \in Links, conns'[k].srv = "open" PROVE peers'[conns'[k].owner] = k
    <3>1. k # c /\ conns[k].srv = "open" /\ conns'[k].owner = conns[k].owner
      BY <1>5, <2>3
    <3>2. conns[k].owner \in Sessions /\ peers[conns[k].owner] = k
      BY <1>0, <3>1 DEF Wired, Relay!NoConn
    <3> QED
      BY <1>3, <3>1, <3>2
  <2> QED
    BY <1>1, <2>1, <2>2, <2>3 DEF Wired
<1> QED
  BY <1>0, <1>1, <1>7, <1>8, <1>9 DEF RelayInv

LEMMA RelayNext == RelayInv /\ [Next]_vars => RelayInv'
<1> SUFFICES ASSUME RelayInv, [Next]_vars PROVE RelayInv'
  OBVIOUS
<1>1. CASE UNCHANGED relayVars
  <2>1. \A q \in Slots \ {} : Line(q)' = Line(q)
    BY <1>1, LinesKept DEF relayVars
  <2>2. OnePlace' /\ \A g : Nowhere(g)' <=> Nowhere(g)
    BY <2>1, Same DEF RelayInv
  <2> QED
    BY <1>1, <2>2 DEF relayVars, RelayInv, RelayTypes, Wired, Addressed, Lossless, Elems
<1>2. CASE Relay!Next
  <2>1. ASSUME NEW f \in Frames, Relay!PostChecked(f) \/ Relay!PostQueued(f) PROVE RelayInv'
    BY <2>1, CheckedStep, QueuedStep
  <2>2. ASSUME NEW s \in Sessions, Relay!OfSession(s) PROVE RelayInv'
    BY <2>2, TakeStep, SentStep, ReceiveStep, LoseStep, ConnectStep DEF Relay!OfSession
  <2>3. ASSUME NEW c \in Links, Relay!OfConn(c) \/ Relay!Drop(c) PROVE RelayInv'
    BY <2>3, RoutedStep, EndedStep, DropStep DEF Relay!OfConn
  <2> QED
    BY <1>2, <2>1, <2>2, <2>3 DEF Relay!Next, Links
<1> QED
  BY <1>1, <1>2 DEF Next, Only, vars

LEMMA InEither ==
    ASSUME NEW q \in Seq(Frames), NEW r \in Seq(Frames)
    PROVE  /\ \A i \in 1..Len(q) : i \in 1..Len(q \o r) /\ (q \o r)[i] = q[i]
           /\ \A i \in 1..Len(r) : Len(q) + i \in 1..Len(q \o r) /\ (q \o r)[Len(q) + i] = r[i]
<1>1. Len(q) \in Nat /\ Len(r) \in Nat /\ Len(q \o r) = Len(q) + Len(r)
  OBVIOUS
<1>2. \A i \in 1..Len(q) : i \in 1..Len(q \o r) /\ (q \o r)[i] = q[i]
  BY <1>1
<1>3. \A i \in 1..Len(r) : Len(q) + i \in 1..Len(q \o r) /\ (q \o r)[Len(q) + i] = r[i]
  BY <1>1
<1> QED
  BY <1>2, <1>3

\* What the relay and its bridges promise for any number of sessions, frames, connections
\* and losses: a connection whose handler runs is the registered one, a frame reaches at
\* most one inbox, once, that of its session, and an accepted frame is on its way, arrived
\* or answered with an error unless a connection or an inbox write failed.
THEOREM MessagesRouted == Spec => []MessagesAreRouted
<1>1. RelayInv => MessagesAreRouted
  <2> SUFFICES ASSUME RelayInv PROVE MessagesAreRouted
    OBVIOUS
  <2>1. Relay!OpenIsRegistered
    BY DEF RelayInv, Wired, Relay!OpenIsRegistered, Links
  <2>2. Relay!DeliveredOnce
    <3>1. \A s \in Sessions : Once(inbox[s]) /\ \A f \in Elems(inbox[s]) : To[f] = s
      BY AtSlots DEF RelayInv, OnePlace, Addressed
    <3> QED
      BY <3>1 DEF Relay!DeliveredOnce, Once, Elems
  <2>3. Relay!LossNeedsDrop
    <3> SUFFICES ASSUME NEW f \in Frames, posts[f] = "accepted", f \notin errors, drops = 0
                 PROVE  Relay!InTransit(f) \/ Relay!Contains(inbox[To[f]], f)
      BY DEF Relay!LossNeedsDrop, RelayInv, RelayTypes
    <3>1. PICK p \in Slots : f \in Elems(Line(p))
      BY DEF RelayInv, Lossless, Nowhere
    <3>2. Line(p) \in Seq(Frames)
      BY DEF RelayInv, OnePlace
    <3>3. PICK i \in 1..Len(Line(p)) : Line(p)[i] = f
      BY <3>1, <3>2 DEF Elems
    <3>4. CASE \E k \in Sessions : p = <<"out", k>> \/ p = <<"held", k>>
      <4>1. PICK k \in Sessions : p = <<"out", k>> \/ p = <<"held", k>>
        BY <3>4
      <4>2. bridges[k].out \in Seq(Frames) /\ bridges[k].held \in Seq(Frames)
        BY DEF RelayInv, RelayTypes, BridgeRecords
      <4>3. Line(p) = bridges[k].out \/ Line(p) = bridges[k].held
        BY <4>1 DEF Line
      <4> DEFINE both == bridges[k].out \o bridges[k].held
      <4>4. /\ \A j \in 1..Len(bridges[k].out) : j \in 1..Len(both) /\ both[j] = bridges[k].out[j]
            /\ \A j \in 1..Len(bridges[k].held) :
                 /\ Len(bridges[k].out) + j \in 1..Len(both)
                 /\ both[Len(bridges[k].out) + j] = bridges[k].held[j]
        BY <4>2, InEither
      <4> HIDE DEF both
      <4>5. \E j \in 1..Len(both) : both[j] = f
        BY <3>3, <4>3, <4>4
      <4> QED
        BY <4>5 DEF both, Relay!InTransit, Relay!Contains
    <3>5. CASE \E k \in Sessions : p = <<"inbox", k>>
      <4>1. PICK k \in Sessions : p = <<"inbox", k>>
        BY <3>5
      <4>2. Line(p) = inbox[k]
        BY <4>1 DEF Line
      <4>3. To[f] = k
        BY <3>1, <4>2 DEF RelayInv, Addressed
      <4> QED
        BY <3>3, <4>2, <4>3 DEF Relay!Contains
    <3>6. CASE \E c \in Links : p = <<"up", c>> \/ p = <<"down", c>>
      <4>1. PICK c \in Links : p = <<"up", c>> \/ p = <<"down", c>>
        BY <3>6
      <4>2. Line(p) = conns[c].up \/ Line(p) = Tags(conns[c].down)
        BY <4>1 DEF Line
      <4>3. conns[c].down \in Seq(Notices)
        BY DEF RelayInv, RelayTypes, LinkRecords
      <4>4. CASE c <= dialled
        <5>1. conns[c].cli = "up" /\ conns[c].srv = "open"
          BY <4>4 DEF RelayInv, Lossless
        <5>2. CASE Line(p) = conns[c].up
          BY <3>3, <5>1, <5>2 DEF Relay!InTransit, Relay!Contains, Links
        <5>3. CASE Line(p) = Tags(conns[c].down)
          <6>1. i \in DOMAIN conns[c].down /\ conns[c].down[i][2] = f
            BY <3>3, <4>3, <5>3, TagLine
          <6> QED
            BY <5>1, <6>1 DEF Relay!InTransit, Links
        <5> QED
          BY <4>2, <5>2, <5>3
      <4>5. CASE ~(c <= dialled)
        <5>1. conns[c].up = <<>> /\ conns[c].down = <<>>
          BY <4>5 DEF RelayInv, Wired, Relay!NoConn
        <5>2. Len(Line(p)) = 0
          BY <4>2, <4>3, <5>1, TagLine
        <5> QED
          BY <3>3, <5>2
      <4> QED
        BY <4>4, <4>5
    <3> QED
      BY <3>4, <3>5, <3>6, AtSlots
  <2> QED
    BY <2>1, <2>2, <2>3 DEF MessagesAreRouted
<1> QED
  BY <1>1, RelayInit, RelayNext, PTL DEF Spec

------------------------------------------------------------------------------
(* RenewalCalendar                                                         *)

\* The days before year y, and the days of year y before month m.
DaysBeforeYear(y) == 365 * y + (y + 3) \div 4

DaysBeforeIn(y, m) == Calendar!DaysBefore[m] + (IF Calendar!Leap(y) /\ m > 2 THEN 1 ELSE 0)

LEMMA DayNumbers ==
    ASSUME NEW y \in Nat, NEW m \in 1..12, NEW d \in Int
    PROVE  /\ Calendar!DayNumber(y, m, d) = DaysBeforeYear(y) + DaysBeforeIn(y, m) + d
           /\ DaysBeforeYear(y) \in Int /\ DaysBeforeIn(y, m) \in Int /\ Calendar!DayNumber(y, m, d) \in Int
<1>1. Calendar!DaysBefore[m] \in Int
  BY DEF Calendar!DaysBefore
<1>2. (y + 3) \div 4 \in Int
  OBVIOUS
<1> QED
  BY <1>1, <1>2 DEF DaysBeforeYear, DaysBeforeIn, Calendar!DayNumber

LEMMA MonthLengths ==
    ASSUME NEW y \in Nat, NEW m \in 1..12
    PROVE  Calendar!DaysIn(y, m) \in 28..31
BY DEF Calendar!DaysIn

\* A month begins when the one before it is over.
LEMMA MonthByMonth ==
    ASSUME NEW y \in Nat, NEW m \in 1..11
    PROVE  DaysBeforeIn(y, m + 1) = DaysBeforeIn(y, m) + Calendar!DaysIn(y, m)
BY DEF DaysBeforeIn, Calendar!DaysIn, Calendar!DaysBefore

LEMMA YearByYear ==
    ASSUME NEW y \in Nat
    PROVE  DaysBeforeYear(y + 1) = DaysBeforeYear(y) + DaysBeforeIn(y, 12) + Calendar!DaysIn(y, 12)
<1>1. DaysBeforeIn(y, 12) = 334 + (IF Calendar!Leap(y) THEN 1 ELSE 0)
  BY DEF DaysBeforeIn, Calendar!DaysBefore
<1>2. Calendar!DaysIn(y, 12) = 31
  BY DEF Calendar!DaysIn
<1>3. (y + 1 + 3) \div 4 = (y + 3) \div 4 + (IF Calendar!Leap(y) THEN 1 ELSE 0)
  BY DEF Calendar!Leap
<1> QED
  BY <1>1, <1>2, <1>3 DEF DaysBeforeYear

\* The months of one year come one after the other.
LEMMA MonthsAscend ==
    ASSUME NEW y \in Nat, NEW m \in 1..12, NEW k \in 1..12, m < k
    PROVE  DaysBeforeIn(y, m) + Calendar!DaysIn(y, m) <= DaysBeforeIn(y, k)
<1>1. \A i, j \in 1..12 : i <= j => DaysBeforeIn(y, i) <= DaysBeforeIn(y, j)
  BY DEF DaysBeforeIn, Calendar!DaysBefore
<1>2. m \in 1..11 /\ m + 1 \in 1..12 /\ m + 1 <= k
  OBVIOUS
<1>3. DaysBeforeIn(y, m + 1) <= DaysBeforeIn(y, k)
  BY <1>1, <1>2
<1> QED
  BY <1>2, <1>3, MonthByMonth

\* Of two days, the first is in an earlier month of the same year, or in the year before.
LEMMA EarlierMonth ==
    ASSUME NEW y \in Nat, NEW z \in Nat, NEW m \in 1..12, NEW k \in 1..12,
           NEW d \in Int, d <= Calendar!DaysIn(y, m), NEW e \in Nat \ {0},
           z = y + 1 \/ (z = y /\ m < k)
    PROVE  Calendar!DayNumber(y, m, d) < Calendar!DayNumber(z, k, e)
<1>0. Calendar!DaysIn(y, m) \in Int /\ Calendar!DaysIn(y, 12) \in Int
  BY MonthLengths
<1>1. /\ Calendar!DayNumber(y, m, d) = DaysBeforeYear(y) + DaysBeforeIn(y, m) + d
      /\ Calendar!DayNumber(z, k, e) = DaysBeforeYear(z) + DaysBeforeIn(z, k) + e
      /\ DaysBeforeIn(y, m) \in Int /\ DaysBeforeIn(z, k) \in Int /\ DaysBeforeIn(y, 12) \in Int
      /\ DaysBeforeYear(y) \in Int /\ DaysBeforeYear(z) \in Int
  <2>1. 12 \in 1..12 /\ e \in Int /\ 0 \in Int
    OBVIOUS
  <2>2. /\ Calendar!DayNumber(y, m, d) = DaysBeforeYear(y) + DaysBeforeIn(y, m) + d
        /\ DaysBeforeYear(y) \in Int /\ DaysBeforeIn(y, m) \in Int
    BY DayNumbers
  <2>3. /\ Calendar!DayNumber(z, k, e) = DaysBeforeYear(z) + DaysBeforeIn(z, k) + e
        /\ DaysBeforeYear(z) \in Int /\ DaysBeforeIn(z, k) \in Int
    BY <2>1, DayNumbers
  <2>4. DaysBeforeIn(y, 12) \in Int
    BY <2>1, DayNumbers
  <2> QED
    BY <2>2, <2>3, <2>4
<1>2. CASE z = y /\ m < k
  <2>1. DaysBeforeIn(y, m) + Calendar!DaysIn(y, m) <= DaysBeforeIn(y, k)
    BY <1>2, MonthsAscend
  <2> QED
    BY <1>0, <1>1, <1>2, <2>1
<1>3. CASE z = y + 1
  <2>1. DaysBeforeIn(y, m) + Calendar!DaysIn(y, m) <= DaysBeforeIn(y, 12) + Calendar!DaysIn(y, 12)
    <3>1. CASE m = 12
      BY <1>0, <1>1, <3>1
    <3>2. CASE m < 12
      <4>1. DaysBeforeIn(y, m) + Calendar!DaysIn(y, m) <= DaysBeforeIn(y, 12)
        BY <3>2, MonthsAscend
      <4>2. Calendar!DaysIn(y, 12) >= 0
        BY MonthLengths
      <4> QED
        BY <1>0, <1>1, <4>1, <4>2
    <3> QED
      BY <3>1, <3>2
  <2>2. DaysBeforeIn(z, k) >= 0
    BY DEF DaysBeforeIn, Calendar!DaysBefore
  <2>3. DaysBeforeYear(z) = DaysBeforeYear(y) + DaysBeforeIn(y, 12) + Calendar!DaysIn(y, 12)
    BY <1>3, YearByYear
  <2> QED
    BY <1>0, <1>1, <2>1, <2>2, <2>3
<1> QED
  BY <1>2, <1>3

\* The first of the next month is the day after the last of this one.
LEMMA FirstOfNext ==
    ASSUME NEW y \in Nat, NEW m \in 1..12
    PROVE  LET next == Calendar!NextMonth(y, m)
           IN  /\ next[1] \in Nat /\ next[2] \in 1..12
               /\ next[1] = y + 1 \/ (next[1] = y /\ m < next[2])
               /\ Calendar!DayNumber(next[1], next[2], 1) = Calendar!DayNumber(y, m, Calendar!DaysIn(y, m)) + 1
<1>0. Calendar!DaysIn(y, m) \in Int
  BY MonthLengths
<1>1. CASE m = 12
  <2>1. Calendar!NextMonth(y, m) = <<y + 1, 1>>
    BY <1>1 DEF Calendar!NextMonth
  <2>2. DaysBeforeIn(y + 1, 1) = 0
    BY DEF DaysBeforeIn, Calendar!DaysBefore
  <2>3. Calendar!DayNumber(y + 1, 1, 1) = DaysBeforeYear(y + 1) + DaysBeforeIn(y + 1, 1) + 1
    <3>1. y + 1 \in Nat /\ 1 \in 1..12 /\ 1 \in Int
      OBVIOUS
    <3> QED
      BY <3>1, DayNumbers
  <2>4. Calendar!DayNumber(y, 12, Calendar!DaysIn(y, 12))
            = DaysBeforeYear(y) + DaysBeforeIn(y, 12) + Calendar!DaysIn(y, 12)
    BY <1>0, <1>1, DayNumbers
  <2>5. DaysBeforeYear(y) \in Int /\ DaysBeforeIn(y, 12) \in Int /\ Calendar!DaysIn(y, 12) \in Int
    BY <1>0, <1>1, DayNumbers
  <2>6. Calendar!DayNumber(y + 1, 1, 1) = Calendar!DayNumber(y, 12, Calendar!DaysIn(y, 12)) + 1
    BY <2>2, <2>3, <2>4, <2>5, YearByYear
  <2> QED
    BY <1>1, <2>1, <2>6
<1>2. CASE m < 12
  <2>1. Calendar!NextMonth(y, m) = <<y, m + 1>>
    BY <1>2 DEF Calendar!NextMonth
  <2>2. m \in 1..11 /\ m + 1 \in 1..12
    BY <1>2
  <2>3. Calendar!DayNumber(y, m + 1, 1) = DaysBeforeYear(y) + DaysBeforeIn(y, m + 1) + 1
    <3>1. m + 1 \in 1..12 /\ 1 \in Int
      BY <2>2
    <3> QED
      BY <3>1, DayNumbers
  <2>4. /\ Calendar!DayNumber(y, m, Calendar!DaysIn(y, m))
               = DaysBeforeYear(y) + DaysBeforeIn(y, m) + Calendar!DaysIn(y, m)
        /\ DaysBeforeYear(y) \in Int /\ DaysBeforeIn(y, m) \in Int
    BY <1>0, DayNumbers
  <2>5. Calendar!DayNumber(y, m + 1, 1) = Calendar!DayNumber(y, m, Calendar!DaysIn(y, m)) + 1
    BY <1>0, <2>2, <2>3, <2>4, MonthByMonth
  <2> QED
    BY <2>1, <2>2, <2>5
<1> QED
  BY <1>1, <1>2

\* Midnights are a day apart, and the ticks of a day lie between two.
LEMMA DaysToTicks ==
    ASSUME NEW a \in Int, NEW b \in Int, NEW t \in 0..(TicksPerDay - 1)
    PROVE  /\ a * TicksPerDay \in Int
           /\ a <= b => a * TicksPerDay <= b * TicksPerDay /\ a * TicksPerDay <= b * TicksPerDay + t
           /\ a > b => a * TicksPerDay > b * TicksPerDay + t
           /\ (a + 1) * TicksPerDay = a * TicksPerDay + TicksPerDay
<1> PICK T \in Nat : T = TicksPerDay /\ T > 0
  BY CalendarAssumption
<1>1. \A i \in Int, j \in Nat : j * T >= 0 /\ (i + j) * T = i * T + j * T /\ i * T \in Int
  OBVIOUS
<1>2. ASSUME a <= b PROVE a * T <= b * T
  <2>1. b - a \in Nat /\ b = a + (b - a)
    BY <1>2
  <2>2. b * T = a * T + (b - a) * T /\ (b - a) * T >= 0 /\ (b - a) * T \in Int
    BY <1>1, <2>1
  <2> QED
    BY <1>1, <2>2
<1>3. (a + 1) * T = a * T + T /\ (b + 1) * T = b * T + T
  OBVIOUS
<1>4. ASSUME a > b PROVE a * T > b * T + t
  <2>1. a - (b + 1) \in Nat /\ a = (b + 1) + (a - (b + 1))
    BY <1>4
  <2>2. a * T = (b + 1) * T + (a - (b + 1)) * T /\ (a - (b + 1)) * T >= 0 /\ (a - (b + 1)) * T \in Int
    BY <1>1, <2>1
  <2>3. t < T /\ t \in Int /\ b * T \in Int
    BY <1>1
  <2> QED
    BY <1>3, <2>2, <2>3
<1>5. a * T \in Int /\ b * T \in Int
  BY <1>1
<1>6. a <= b => a * T <= b * T + t
  BY <1>2, <1>5
<1> QED
  BY <1>2, <1>3, <1>4, <1>5, <1>6

CalendarInv ==
    /\ now \in [y : Nat, m : 1..12, d : 1..31, tick : 0..(TicksPerDay - 1)]
    /\ now.d <= Calendar!DaysIn(now.y, now.m)
    /\ renewalDay \in 1..31 /\ releaseWindow \in Nat \ {0}

LEMMA CalendarInit == Init => CalendarInv
<1> SUFFICES ASSUME Init PROVE CalendarInv
  OBVIOUS
<1>1. /\ now = [y |-> 0, m |-> 1, d |-> 1, tick |-> 0]
      /\ renewalDay \in RenewalDays /\ releaseWindow \in Windows
  BY DEF Init, Calendar!Init
<1>2. now.d <= Calendar!DaysIn(now.y, now.m)
  BY <1>1, MonthLengths
<1> QED
  BY <1>1, <1>2, CalendarAssumption DEF CalendarInv

\* The day the clock is at, and the day after.
Today == Calendar!DayNumber(now.y, now.m, now.d)

LEMMA ClockFacts ==
    ASSUME CalendarInv
    PROVE  /\ now.y \in Nat /\ now.m \in 1..12 /\ now.d \in 1..31 /\ now.tick \in 0..(TicksPerDay - 1)
           /\ now.d <= Calendar!DaysIn(now.y, now.m) /\ Calendar!DaysIn(now.y, now.m) \in 28..31
           /\ Today \in Int /\ Calendar!Ticks(now) = Today * TicksPerDay + now.tick
<1>1. /\ now.y \in Nat /\ now.m \in 1..12 /\ now.d \in 1..31 /\ now.tick \in 0..(TicksPerDay - 1)
      /\ now.d <= Calendar!DaysIn(now.y, now.m)
  BY DEF CalendarInv
<1>2. Calendar!DaysIn(now.y, now.m) \in 28..31
  BY <1>1, MonthLengths
<1>3. Today \in Int
  <2>1. now.d \in Int
    BY <1>1
  <2>2. Calendar!DayNumber(now.y, now.m, now.d) \in Int
    BY <1>1, <2>1, DayNumbers
  <2> QED
    BY <2>2 DEF Today
<1> QED
  BY <1>1, <1>2, <1>3 DEF Today, Calendar!Ticks

\* A day of a month, or the days by which it is too short of the next one.
LEMMA Dates ==
    ASSUME NEW y \in Nat, NEW m \in 1..12, NEW d \in 1..32
    PROVE  LET date == Calendar!Date(y, m, d)
               next == Calendar!NextMonth(y, m)
           IN  /\ d <= Calendar!DaysIn(y, m) => date = [y |-> y, m |-> m, d |-> d]
               /\ d > Calendar!DaysIn(y, m) =>
                      date = [y |-> next[1], m |-> next[2], d |-> d - Calendar!DaysIn(y, m)]
BY MonthLengths DEF Calendar!Date

LEMMA TodayTomorrow ==
    ASSUME CalendarInv
    PROVE  LET next == Calendar!Date(now.y, now.m, now.d + 1)
           IN  /\ next \in [y : Nat, m : 1..12, d : 1..31] /\ next.d <= Calendar!DaysIn(next.y, next.m)
               /\ Calendar!DayNumber(next.y, next.m, next.d) = Today + 1
               /\ IF now.d < Calendar!DaysIn(now.y, now.m)
                  THEN next.y = now.y /\ next.m = now.m /\ next.d = now.d + 1
                  ELSE /\ next.d = 1 /\ now.d = Calendar!DaysIn(now.y, now.m)
                       /\ next.y = Calendar!NextMonth(now.y, now.m)[1] /\ next.m = Calendar!NextMonth(now.y, now.m)[2]
<1> PICK y, m, d, n, next :
        /\ y = now.y /\ m = now.m /\ d = now.d /\ n = Calendar!DaysIn(y, m) /\ next = Calendar!NextMonth(y, m)
  OBVIOUS
<1>1. y \in Nat /\ m \in 1..12 /\ d \in 1..31 /\ d <= n /\ n \in 28..31
  BY ClockFacts
<1>2. CASE d < n
  <2>1. Calendar!Date(y, m, d + 1) = [y |-> y, m |-> m, d |-> d + 1]
    <3>1. d + 1 \in 1..32 /\ d + 1 <= n
      BY <1>1, <1>2
    <3> QED
      BY <1>1, <3>1, Dates
  <2>2. Calendar!DayNumber(y, m, d + 1) = Calendar!DayNumber(y, m, d) + 1
    <3>1. d \in Int /\ d + 1 \in Int
      BY <1>1
    <3>2. /\ Calendar!DayNumber(y, m, d) = DaysBeforeYear(y) + DaysBeforeIn(y, m) + d
          /\ DaysBeforeYear(y) \in Int /\ DaysBeforeIn(y, m) \in Int
      BY <1>1, <3>1, DayNumbers
    <3>3. Calendar!DayNumber(y, m, d + 1) = DaysBeforeYear(y) + DaysBeforeIn(y, m) + (d + 1)
      BY <1>1, <3>1, DayNumbers
    <3> QED
      BY <3>1, <3>2, <3>3
  <2>3. d + 1 \in 1..31 /\ d + 1 <= n
    BY <1>1, <1>2
  <2> QED
    BY <1>1, <1>2, <2>1, <2>2, <2>3 DEF Today
<1>3. CASE d = n
  <2>1. Calendar!Date(y, m, d + 1) = [y |-> next[1], m |-> next[2], d |-> 1]
    <3> PICK e \in 1..32 : e = d + 1 /\ e > n /\ e - n = 1
      BY <1>1, <1>3
    <3>1. Calendar!Date(y, m, e) = [y |-> next[1], m |-> next[2], d |-> e - n]
      BY <1>1, Dates
    <3> QED
      BY <3>1
  <2>2. /\ next[1] \in Nat /\ next[2] \in 1..12
        /\ Calendar!DayNumber(next[1], next[2], 1) = Calendar!DayNumber(y, m, n) + 1
    BY <1>1, FirstOfNext
  <2>3. Calendar!DaysIn(next[1], next[2]) \in 28..31
    BY <2>2, MonthLengths
  <2> QED
    BY <1>1, <1>3, <2>1, <2>2, <2>3 DEF Today
<1> QED
  BY <1>1, <1>2, <1>3

LEMMA CalendarNext == CalendarInv /\ [Next]_vars => CalendarInv'
<1> SUFFICES ASSUME CalendarInv, [Next]_vars PROVE CalendarInv'
  OBVIOUS
<1>1. CASE UNCHANGED calendarVars
  BY <1>1 DEF CalendarInv, calendarVars
<1>2. CASE Calendar!Tick
  <2>1. UNCHANGED <<renewalDay, releaseWindow>>
    BY <1>2 DEF Calendar!Tick
  <2>2. CASE now.tick + 1 < TicksPerDay
    <3>1. now' = [now EXCEPT !.tick = @ + 1]
      BY <1>2, <2>2 DEF Calendar!Tick
    <3>2. /\ now \in [y : Nat, m : 1..12, d : 1..31, tick : 0..(TicksPerDay - 1)]
          /\ now.tick + 1 \in 0..(TicksPerDay - 1)
      BY <2>2, CalendarAssumption DEF CalendarInv
    <3>3. /\ now' \in [y : Nat, m : 1..12, d : 1..31, tick : 0..(TicksPerDay - 1)]
          /\ now'.y = now.y /\ now'.m = now.m /\ now'.d = now.d
      BY <3>1, <3>2
    <3> QED
      BY <2>1, <3>3 DEF CalendarInv
  <2>3. CASE ~(now.tick + 1 < TicksPerDay)
    <3> PICK next : next = Calendar!Date(now.y, now.m, now.d + 1)
      OBVIOUS
    <3>1. now' = [y |-> next.y, m |-> next.m, d |-> next.d, tick |-> 0]
      BY <1>2, <2>3 DEF Calendar!Tick
    <3>2. next \in [y : Nat, m : 1..12, d : 1..31] /\ next.d <= Calendar!DaysIn(next.y, next.m)
      BY TodayTomorrow
    <3>3. 0 \in 0..(TicksPerDay - 1)
      BY CalendarAssumption
    <3>4. /\ now' \in [y : Nat, m : 1..12, d : 1..31, tick : 0..(TicksPerDay - 1)]
          /\ now'.y = next.y /\ now'.m = next.m /\ now'.d = next.d
      BY <3>1, <3>2, <3>3
    <3> QED
      BY <2>1, <3>2, <3>4 DEF CalendarInv
  <2> QED
    BY <2>2, <2>3
<1>3. CASE Calendar!Next
  BY <1>1, <1>2, <1>3 DEF Calendar!Next, Calendar!vars, calendarVars
<1>4. Calendar!Next \/ UNCHANGED calendarVars
  BY DEF Next, Only, vars
<1> QED
  BY <1>1, <1>3, <1>4

\* A day that every month has comes after all of the months before.
LEMMA LaterMonth ==
    ASSUME NEW y \in Nat, NEW z \in Nat, NEW m \in 1..12, NEW k \in 1..12, NEW d \in 1..28,
           z = y + 1 \/ (z = y /\ m < k)
    PROVE  /\ Calendar!DayNumber(y, m, d) < Calendar!DayNumber(z, k, d)
           /\ Calendar!DayNumber(y, m, d) \in Int /\ Calendar!DayNumber(z, k, d) \in Int
<1>1. d \in Int /\ d \in Nat \ {0} /\ d <= Calendar!DaysIn(y, m)
  BY MonthLengths
<1> QED
  BY <1>1, EarlierMonth, DayNumbers

\* With two months between which there is none, the day of a third is not between.
LEMMA NoneBetween ==
    ASSUME NEW y \in Nat, NEW m \in 1..12, NEW d \in 1..28,
           NEW z \in {y, y + 1}, NEW k \in 1..12
    PROVE  LET next == Calendar!NextMonth(y, m)
           IN  \/ Calendar!DayNumber(z, k, d) < Calendar!DayNumber(y, m, d)
               \/ z = y /\ k = m
               \/ Calendar!DayNumber(z, k, d) >= Calendar!DayNumber(next[1], next[2], d)
<1> PICK ny, nm : <<ny, nm>> = Calendar!NextMonth(y, m)
  BY DEF Calendar!NextMonth
<1>1. ny \in Nat /\ nm \in 1..12 /\ IF m = 12 THEN ny = y + 1 /\ nm = 1 ELSE ny = y /\ nm = m + 1
  BY DEF Calendar!NextMonth
<1>0. z \in Nat
  OBVIOUS
<1>2. CASE z = y /\ k < m
  <2>1. Calendar!DayNumber(z, k, d) < Calendar!DayNumber(y, m, d)
    BY <1>0, <1>2, LaterMonth
  <2> QED
    BY <2>1
<1>3. CASE z = ny /\ k = nm
  <2>1. d \in Int
    OBVIOUS
  <2>2. Calendar!DayNumber(z, k, d) \in Int
    BY <1>0, <2>1, DayNumbers
  <2> QED
    BY <1>3, <2>2
<1>4. CASE z = ny + 1 \/ (z = ny /\ nm < k)
  <2>1. Calendar!DayNumber(ny, nm, d) < Calendar!DayNumber(z, k, d)
        /\ Calendar!DayNumber(ny, nm, d) \in Int /\ Calendar!DayNumber(z, k, d) \in Int
    BY <1>0, <1>1, <1>4, LaterMonth
  <2> QED
    BY <2>1
<1>5. \/ z = y /\ (k < m \/ k = m)
      \/ z = ny /\ (k = nm \/ nm < k)
      \/ z = ny + 1
  BY <1>1
<1> QED
  BY <1>2, <1>3, <1>4, <1>5

\* A renewal day that every month has: the next renewal is this month's, while that is
\* ahead, and then the next month's.
LEMMA TheNext ==
    ASSUME CalendarInv, renewalDay \in 1..28
    PROVE  LET r == Calendar!nextRenewal(now, renewalDay)
           IN  /\ r.y \in {now.y, now.y + 1} /\ r.m \in 1..12 /\ r.d = renewalDay
               /\ Calendar!DayNumber(r.y, r.m, renewalDay) \in Int
               /\ Calendar!DayNumber(r.y, r.m, renewalDay) > Today
               /\ \A y \in {now.y, now.y + 1}, m \in 1..12 :
                    \/ Calendar!DayNumber(y, m, renewalDay) <= Today
                    \/ Calendar!DayNumber(y, m, renewalDay) >= Calendar!DayNumber(r.y, r.m, renewalDay)
<1> PICK y, m, d, t, day, r, ny, nm :
        /\ y = now.y /\ m = now.m /\ d = now.d /\ t = now.tick
        /\ day = renewalDay /\ r = Calendar!nextRenewal(now, renewalDay)
        /\ <<ny, nm>> = Calendar!NextMonth(y, m)
  BY DEF Calendar!NextMonth
<1>1. /\ y \in Nat /\ m \in 1..12 /\ d \in 1..31 /\ t \in 0..(TicksPerDay - 1)
      /\ d <= Calendar!DaysIn(y, m) /\ Calendar!DaysIn(y, m) \in 28..31
      /\ Today \in Int /\ Calendar!Ticks(now) = Today * TicksPerDay + t
  BY ClockFacts
<1>2. day \in 1..28 /\ day \in 1..32 /\ day \in Int /\ d \in Int /\ day <= Calendar!DaysIn(y, m)
  BY <1>1
<1>3. ny \in Nat /\ nm \in 1..12 /\ (ny = y + 1 \/ (ny = y /\ m < nm))
  BY <1>1 DEF Calendar!NextMonth
<1>4. Calendar!Date(y, m, day) = [y |-> y, m |-> m, d |-> day]
  BY <1>1, <1>2, Dates
<1>5. Calendar!Date(ny, nm, day) = [y |-> ny, m |-> nm, d |-> day]
  <2>1. day <= Calendar!DaysIn(ny, nm)
    BY <1>2, <1>3, MonthLengths
  <2> QED
    BY <1>2, <1>3, <2>1, Dates
<1> PICK this, following : /\ this = Calendar!DayNumber(y, m, day)
                           /\ following = Calendar!DayNumber(ny, nm, day)
  OBVIOUS
<1>6. this \in Int /\ following \in Int
  BY <1>1, <1>2, <1>3, DayNumbers
<1>7. this = Today + (day - d)
  <2>1. /\ this = DaysBeforeYear(y) + DaysBeforeIn(y, m) + day
        /\ DaysBeforeYear(y) \in Int /\ DaysBeforeIn(y, m) \in Int
    BY <1>1, <1>2, DayNumbers
  <2>2. Today = DaysBeforeYear(y) + DaysBeforeIn(y, m) + d
    BY <1>1, <1>2, DayNumbers DEF Today
  <2> QED
    BY <1>2, <2>1, <2>2
<1>8. following > Today
  <2>1. day \in Nat \ {0}
    BY <1>2
  <2> QED
    BY <1>1, <1>2, <1>3, <2>1, EarlierMonth DEF Today
<1>9. Calendar!Midnight([y |-> y, m |-> m, d |-> day]) = this * TicksPerDay
  BY DEF Calendar!Midnight
<1>10. \A z \in {y, y + 1}, k \in 1..12 :
           \/ Calendar!DayNumber(z, k, day) < this
           \/ z = y /\ k = m
           \/ Calendar!DayNumber(z, k, day) >= following
  <2> TAKE z \in {y, y + 1}, k \in 1..12
  <2>1. Calendar!NextMonth(y, m)[1] = ny /\ Calendar!NextMonth(y, m)[2] = nm
    BY DEF Calendar!NextMonth
  <2> QED
    BY <1>1, <1>2, <2>1, NoneBetween
<1>11. \A z \in {y, y + 1}, k \in 1..12 : Calendar!DayNumber(z, k, day) \in Int
  <2>1. \A z \in {y, y + 1} : z \in Nat
    BY <1>1
  <2> QED
    BY <1>2, <2>1, DayNumbers
<1>12. CASE d < day
  <2>1. this > Today
    BY <1>1, <1>2, <1>6, <1>7, <1>12
  <2>2. this * TicksPerDay > Today * TicksPerDay + t
    BY <1>1, <1>6, <2>1, DaysToTicks
  <2>3. r = [y |-> y, m |-> m, d |-> day]
    <3>1. ~(this * TicksPerDay <= Today * TicksPerDay + t)
      <4>1. this * TicksPerDay \in Int /\ Today * TicksPerDay \in Int /\ t \in Int
        BY <1>1, <1>6, DaysToTicks
      <4> QED
        BY <2>2, <4>1
    <3> QED
      BY <1>1, <1>4, <1>9, <3>1 DEF Calendar!nextRenewal
  <2>4. \A z \in {y, y + 1}, k \in 1..12 :
            Calendar!DayNumber(z, k, day) <= Today \/ Calendar!DayNumber(z, k, day) >= this
    <3> TAKE z \in {y, y + 1}, k \in 1..12
    <3>1. CASE Calendar!DayNumber(z, k, day) < this
      <4>1. z = y /\ k < m
        <5>0. z \in Nat
          BY <1>1
        <5>1. z = y + 1 \/ (z = y /\ m < k) => this < Calendar!DayNumber(z, k, day)
          BY <1>1, <1>2, <5>0, LaterMonth
        <5>2. ~(this < Calendar!DayNumber(z, k, day)) /\ ~(z = y /\ k = m)
          BY <1>6, <1>11, <3>1
        <5> QED
          BY <1>1, <5>1, <5>2
      <4>2. day \in Nat \ {0} /\ d \in Nat \ {0} /\ day <= Calendar!DaysIn(y, k)
        BY <1>1, <1>2, MonthLengths
      <4>3. Calendar!DayNumber(z, k, day) < Today
        BY <1>1, <1>2, <4>1, <4>2, EarlierMonth DEF Today
      <4> QED
        BY <1>1, <1>11, <4>3
    <3>2. CASE ~(Calendar!DayNumber(z, k, day) < this)
      BY <1>6, <1>11, <3>2
    <3> QED
      BY <3>1, <3>2
  <2> QED
    BY <1>1, <1>6, <2>1, <2>3, <2>4
<1>13. CASE day <= d
  <2>1. this <= Today
    BY <1>1, <1>2, <1>6, <1>7, <1>13
  <2>2. this * TicksPerDay <= Today * TicksPerDay + t
    BY <1>1, <1>6, <2>1, DaysToTicks
  <2>3. r = [y |-> ny, m |-> nm, d |-> day]
    <3>1. Calendar!AddMonth([y |-> y, m |-> m, d |-> day]) = Calendar!Date(ny, nm, day)
      BY DEF Calendar!AddMonth
    <3> QED
      BY <1>1, <1>4, <1>5, <1>9, <2>2, <3>1 DEF Calendar!nextRenewal
  <2>4. \A z \in {y, y + 1}, k \in 1..12 :
            Calendar!DayNumber(z, k, day) <= Today \/ Calendar!DayNumber(z, k, day) >= following
    BY <1>1, <1>6, <1>10, <1>11, <2>1
  <2> QED
    BY <1>3, <1>6, <1>8, <2>3, <2>4
<1> QED
  BY <1>1, <1>2, <1>12, <1>13

LEMMA FirstRenewal == CalendarInv => Calendar!NextRenewalIsFirst /\ Calendar!ReleasedOnlyNear
<1> SUFFICES ASSUME CalendarInv, Calendar!EveryMonth
             PROVE  Calendar!NextRenewalIsFirst /\ Calendar!ReleasedOnlyNear
  BY DEF Calendar!NextRenewalIsFirst, Calendar!ReleasedOnlyNear
<1> PICK r : r = Calendar!nextRenewal(now, renewalDay)
  OBVIOUS
<1> PICK next, t : next = Calendar!DayNumber(r.y, r.m, renewalDay) /\ t = now.tick
  OBVIOUS
<1>1. renewalDay \in 1..28 /\ releaseWindow \in Nat \ {0}
  BY DEF CalendarInv, Calendar!EveryMonth
<1>2. /\ r.y \in {now.y, now.y + 1} /\ r.m \in 1..12 /\ r.d = renewalDay
      /\ next \in Int /\ next > Today
      /\ \A y \in {now.y, now.y + 1}, m \in 1..12 :
           Calendar!DayNumber(y, m, renewalDay) <= Today \/ Calendar!DayNumber(y, m, renewalDay) >= next
  BY <1>1, TheNext
<1>3. t \in 0..(TicksPerDay - 1) /\ Today \in Int /\ Calendar!Ticks(now) = Today * TicksPerDay + t
  BY ClockFacts
<1>4. \A y, m : Calendar!Midnight([y |-> y, m |-> m, d |-> renewalDay])
                    = Calendar!DayNumber(y, m, renewalDay) * TicksPerDay
  BY DEF Calendar!Midnight
<1>5. Calendar!Midnight(r) = next * TicksPerDay
  BY <1>2 DEF Calendar!Midnight
<1>6. next * TicksPerDay > Today * TicksPerDay + t
  BY <1>2, <1>3, DaysToTicks
<1>7. ASSUME NEW y \in {now.y, now.y + 1}, NEW m \in 1..12
      PROVE  LET other == Calendar!Midnight([y |-> y, m |-> m, d |-> renewalDay])
             IN  other <= Calendar!Ticks(now) \/ other >= Calendar!Midnight(r)
  <2> PICK day : day = Calendar!DayNumber(y, m, renewalDay)
    OBVIOUS
  <2>1. day \in Int
    <3>1. y \in Nat /\ renewalDay \in Int
      BY <1>1, ClockFacts
    <3> QED
      BY <3>1, DayNumbers
  <2>2. Calendar!Midnight([y |-> y, m |-> m, d |-> renewalDay]) = day * TicksPerDay
    BY <1>4
  <2>3. CASE day <= Today
    <3>1. day * TicksPerDay <= Today * TicksPerDay + t
      BY <1>3, <2>1, <2>3, DaysToTicks
    <3> QED
      BY <1>3, <2>2, <3>1
  <2>4. CASE day >= next
    <3>1. next * TicksPerDay <= day * TicksPerDay
      BY <1>2, <1>3, <2>1, <2>4, DaysToTicks
    <3>2. next * TicksPerDay \in Int /\ day * TicksPerDay \in Int
      BY <1>2, <1>3, <2>1, DaysToTicks
    <3> QED
      BY <1>5, <2>2, <3>1, <3>2
  <2> QED
    BY <1>2, <2>3, <2>4
<1>8. Calendar!NextRenewalIsFirst
  BY <1>2, <1>3, <1>5, <1>6, <1>7 DEF Calendar!NextRenewalIsFirst
<1>9. ASSUME Calendar!decideByRenewal(now, releaseWindow, renewalDay)
      PROVE  \E y \in {now.y, now.y + 1}, m \in 1..12 :
                 Calendar!Midnight([y |-> y, m |-> m, d |-> renewalDay]) - Calendar!Ticks(now)
                     \in 1..releaseWindow
  <2>1. Calendar!Midnight([y |-> r.y, m |-> r.m, d |-> renewalDay]) = next * TicksPerDay
    BY <1>4
  <2>2. next * TicksPerDay \in Int /\ Today * TicksPerDay \in Int /\ t \in Int
    BY <1>2, <1>3, DaysToTicks
  <2>3. ~(Calendar!Ticks(now) < next * TicksPerDay - releaseWindow)
    BY <1>5, <1>9 DEF Calendar!decideByRenewal
  <2>4. next * TicksPerDay - Calendar!Ticks(now) \in 1..releaseWindow
    BY <1>1, <1>3, <1>6, <2>2, <2>3
  <2> QED
    BY <1>2, <2>1, <2>4
<1> QED
  BY <1>8, <1>9 DEF Calendar!ReleasedOnlyNear

\* The last tick before a renewal: it is the midnight of tomorrow, and the next renewal
\* that the code computes is that one.
LEMMA RenewalTomorrow ==
    ASSUME CalendarInv, Calendar!Tick, Calendar!RenewsAt(now')
    PROVE  Calendar!decideByRenewal(now, releaseWindow, renewalDay)
<1> PICK y, m, d, t, n, next, day :
        /\ y = now.y /\ m = now.m /\ d = now.d /\ t = now.tick
        /\ n = Calendar!DaysIn(y, m) /\ next = Calendar!Date(y, m, d + 1) /\ day = renewalDay
  OBVIOUS
<1> PICK ny, nm : <<ny, nm>> = Calendar!NextMonth(y, m)
  BY DEF Calendar!NextMonth
<1>1. /\ y \in Nat /\ m \in 1..12 /\ d \in 1..31 /\ t \in 0..(TicksPerDay - 1)
      /\ d <= n /\ n \in 28..31
      /\ Today \in Int /\ Calendar!Ticks(now) = Today * TicksPerDay + t
  BY ClockFacts
<1>2. t + 1 = TicksPerDay /\ now'.d = next.d /\ now'.tick = 0
  <2>1. CASE t + 1 < TicksPerDay
    <3>1. now' = [now EXCEPT !.tick = t + 1] /\ now \in [y : Nat, m : 1..12, d : 1..31, tick : 0..(TicksPerDay - 1)]
      BY <2>1 DEF Calendar!Tick, CalendarInv
    <3>2. now'.tick = t + 1
      BY <3>1
    <3> QED
      BY <1>1, <3>2 DEF Calendar!RenewsAt
  <2>2. CASE ~(t + 1 < TicksPerDay)
    <3>1. now' = [y |-> next.y, m |-> next.m, d |-> next.d, tick |-> 0]
      BY <2>2 DEF Calendar!Tick
    <3>2. t + 1 = TicksPerDay
      BY <1>1, <2>2, CalendarAssumption
    <3> QED
      BY <3>1, <3>2
  <2> QED
    BY <2>1, <2>2
<1>3. day = next.d
  <2>1. renewalDay' = renewalDay
    BY DEF Calendar!Tick
  <2> QED
    BY <1>2, <2>1 DEF Calendar!RenewsAt
<1>4. /\ next \in [y : Nat, m : 1..12, d : 1..31]
      /\ Calendar!DayNumber(next.y, next.m, next.d) = Today + 1
      /\ IF d < n THEN next.y = y /\ next.m = m /\ next.d = d + 1
                  ELSE next.d = 1 /\ d = n /\ next.y = ny /\ next.m = nm
  <2>1. Calendar!NextMonth(y, m)[1] = ny /\ Calendar!NextMonth(y, m)[2] = nm
    BY DEF Calendar!NextMonth
  <2> QED
    BY <2>1, TodayTomorrow
<1>5. Calendar!nextRenewal(now, day) = next
  <2>1. CASE d < n
    <3> PICK e \in 1..32 : e = d + 1 /\ e <= n
      BY <1>1, <2>1
    <3>1. Calendar!Date(y, m, day) = next
      BY <1>3, <1>4, <2>1
    <3>2. Calendar!Midnight(next) = (Today + 1) * TicksPerDay
      BY <1>4 DEF Calendar!Midnight
    <3>3. (Today + 1) * TicksPerDay > Today * TicksPerDay + t
      <4>1. Today + 1 \in Int /\ Today + 1 > Today
        BY <1>1
      <4> QED
        BY <1>1, <4>1, DaysToTicks
    <3>4. ~((Today + 1) * TicksPerDay <= Today * TicksPerDay + t)
      <4>1. (Today + 1) * TicksPerDay \in Int /\ Today * TicksPerDay \in Int /\ t \in Int
        <5>1. Today + 1 \in Int
          BY <1>1
        <5> QED
          BY <1>1, <5>1, DaysToTicks
      <4> QED
        BY <3>3, <4>1
    <3> QED
      BY <1>1, <3>1, <3>2, <3>4 DEF Calendar!nextRenewal
  <2>2. CASE ~(d < n)
    <3>1. day = 1 /\ next.y = ny /\ next.m = nm /\ next.d = 1
      BY <1>3, <1>4, <2>2
    <3>2. next = [y |-> ny, m |-> nm, d |-> 1]
      BY <1>4, <3>1
    <3>3. ny \in Nat /\ nm \in 1..12
      BY <1>4, <3>1
    <3>4. 1 \in 1..32 /\ 1 <= n /\ 1 <= Calendar!DaysIn(ny, nm)
      BY <1>1, <3>3, MonthLengths
    <3>5. Calendar!Date(y, m, 1) = [y |-> y, m |-> m, d |-> 1] /\ Calendar!Date(ny, nm, 1) = next
      BY <1>1, <3>2, <3>3, <3>4, Dates
    <3>6. Calendar!AddMonth([y |-> y, m |-> m, d |-> 1]) = Calendar!Date(ny, nm, 1)
      BY DEF Calendar!AddMonth
    <3> PICK first : first = Calendar!DayNumber(y, m, 1)
      OBVIOUS
    <3>7. first \in Int /\ first <= Today
      <4>1. 1 \in Int /\ d \in Int
        BY <1>1
      <4>2. /\ first = DaysBeforeYear(y) + DaysBeforeIn(y, m) + 1
            /\ DaysBeforeYear(y) \in Int /\ DaysBeforeIn(y, m) \in Int
        BY <1>1, <4>1, DayNumbers
      <4>3. Today = DaysBeforeYear(y) + DaysBeforeIn(y, m) + d
        BY <1>1, <4>1, DayNumbers DEF Today
      <4> QED
        BY <1>1, <4>2, <4>3
    <3>8. first * TicksPerDay <= Today * TicksPerDay + t
      BY <1>1, <3>7, DaysToTicks
    <3>9. Calendar!Midnight([y |-> y, m |-> m, d |-> 1]) = first * TicksPerDay
      BY DEF Calendar!Midnight
    <3> QED
      BY <1>1, <3>1, <3>5, <3>6, <3>8, <3>9 DEF Calendar!nextRenewal
  <2> QED
    BY <2>1, <2>2
<1>6. Calendar!Midnight(next) = (Today + 1) * TicksPerDay
  BY <1>4 DEF Calendar!Midnight
<1>7. (Today + 1) * TicksPerDay = Today * TicksPerDay + TicksPerDay /\ Today * TicksPerDay \in Int
  BY <1>1, DaysToTicks
<1>8. releaseWindow \in Nat /\ releaseWindow >= 1
  BY DEF CalendarInv
<1>9. ~(Calendar!Ticks(now) < Calendar!Midnight(next) - releaseWindow)
  BY <1>1, <1>2, <1>6, <1>7, <1>8
<1> QED
  BY <1>5, <1>9 DEF Calendar!decideByRenewal

\* The calendar by which the reaper releases (nextRenewal, decideByRenewal), at any
\* resolution of the clock and over any number of years of the model's calendar, which has
\* a leap year in every four as from 1901 to 2099: for a day that every month has,
\* the renewal it computes is the first one ahead and nothing is released outside the
\* window; for all of the days 1 to 31 that RENEWAL_DAY may be, no renewal comes without
\* the moment before it deciding to release.
THEOREM RenewalsCome == Spec => RenewalsAreSeen
<1>1. CalendarInv /\ [Next]_vars => [Calendar!RenewsAt(now') => Calendar!decideByRenewal(now, releaseWindow, renewalDay)]_calendarVars
  <2> SUFFICES ASSUME CalendarInv, [Next]_vars, ~UNCHANGED calendarVars, Calendar!RenewsAt(now')
               PROVE  Calendar!decideByRenewal(now, releaseWindow, renewalDay)
    OBVIOUS
  <2>1. Calendar!Next
    BY DEF Next, Only, vars
  <2>2. Calendar!Tick
    BY <2>1 DEF Calendar!Next, Calendar!vars, calendarVars
  <2> QED
    BY <2>2, RenewalTomorrow
<1>2. Calendar!vars = calendarVars
  BY DEF Calendar!vars, calendarVars
<1> QED
  BY <1>1, CalendarInit, CalendarNext, FirstRenewal, PTL
     DEF Spec, RenewalsAreSeen, Calendar!NoRenewalMissed, Calendar!vars, calendarVars
=============================================================================

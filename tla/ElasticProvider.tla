--------------------------- MODULE ElasticProvider ---------------------------
(***************************************************************************)
(* The gRPC server that cluster-autoscaler (CA) drives to grow the elastic *)
(* node group on Contabo (NodeGroupIncreaseSize):                          *)
(*   cluster-autoscaler/contabo-externalgrpc/internal/provider.            *)
(*                                                                         *)
(* Every request runs in a goroutine of its own.  They share the counter   *)
(* inFlight (under a mutex) and Contabo's fleet, which they see only       *)
(* through listings.  A NodeGroupIncreaseSize request is split where other *)
(* goroutines can run: arrival, listing, reading inFlight, reserving,      *)
(* and each turn of its loop.  A Contabo create is a job of its own: it is *)
(* run inside the request, or detached from it when CA's deadline is short. *)
(* Contabo (accepting, showing, billing and terminating instances) and     *)
(* whoever cancels an instance (module DeleteNodes, the billing-period     *)
(* reaper, an operator) are the environment.                               *)
(***************************************************************************)
EXTENDS Integers, FiniteSets, TLC

CONSTANTS
    Names,       \* display names an instance can be given, never reused
    NoName,      \* the name of a create that is not running
    Rpcs,        \* goroutines serving NodeGroupIncreaseSize
    MaxSize,     \* Config.MaxSize, the hard cap
    MaxDelta,    \* bound on the Delta of a request
    Deadlines,   \* how far the deadline of a request is: "short", "far"
    CancelForms, \* how a cancelDate comes back: "parsed", or "raw" (unparsable)
    Env          \* which of "parallel", "lossy", "restart" the environment does

ASSUME NamesAssumption == IsFiniteSet(Names) /\ NoName \notin Names
ASSUME RpcsAssumption == IsFiniteSet(Rpcs)
ASSUME SizeAssumption == MaxSize \in Nat \ {0} /\ MaxDelta \in Nat \ {0}
ASSUME EnvAssumption ==
    /\ Deadlines \subseteq {"short", "far"} /\ Deadlines # {}
    /\ CancelForms \subseteq {"parsed", "raw"}
    /\ Env \subseteq {"parallel", "lossy", "restart"}

VARIABLES
    inst,      \* Contabo's fleet: name -> what Contabo holds under it
    inFlight,  \* Server.inFlight
    rpc,       \* the local variables of each NodeGroupIncreaseSize
    job,       \* the create call made by the k-th turn of request r's loop
    excuses    \* history: which unguarded windows have been hit so far

vars == <<inst, inFlight, rpc, job, excuses>>

------------------------------------------------------------------------------
(* Contabo's instances.  "unused" has not been ordered yet; "hidden" is    *)
(* ordered but not propagated to any GET; "gone" is terminated; "paid" is  *)
(* every other status Contabo lists (provisioning, running, stopping, ...). *)

Statuses == {"pending_payment", "paid"}
Instances == [st : Statuses \cup {"unused", "hidden", "gone"},
              cancel : {"none", "parsed", "raw"}]

Ordered(n) == inst[n].st \notin {"unused", "gone"}
Cancelled(n) == inst[n].cancel # "none"

\* The machines that hold a slot of the pool, listed or not.
Live == {n \in Names : Ordered(n) /\ ~Cancelled(n)}
Hidden == {n \in Live : inst[n].st = "hidden"}

ListByNamePrefix == {n \in Names : inst[n].st \in Statuses}

\* liveElasticInstances keys on the parsed CancelDate only.
liveElasticInstances(L) == {n \in L : inst[n].cancel # "parsed"}

isPendingPayment(st) == st = "pending_payment"
pendingPaymentInstances(L) == {n \in L : isPendingPayment(inst[n].st)}

------------------------------------------------------------------------------
(* Requests and their create jobs.                                         *)

Slots == Rpcs \X (1..MaxDelta)

IdleRpc == [pc |-> "idle", delta |-> 0, cur |-> 0,
            remaining |-> 0, deadline |-> "far", used |-> {}, unpaid |-> {}]
NoJob == [pc |-> "none", name |-> NoName, mode |-> "inline"]

InWindow(r) == rpc[r].pc \in {"check", "reserve"}
InLoop(r) == rpc[r].pc \in {"loop", "creating", "unwind"}

\* The slot the next turn of r's loop (or the one being served) works on.
Turn(r) == <<r, rpc[r].delta - rpc[r].remaining + 1>>

\* The reservations r still has to give back itself (remainingReservations).
Held(r) == {s \in Slots : /\ InLoop(r) /\ s[1] = r
                          /\ s[2] > rpc[r].delta - rpc[r].remaining
                          /\ s[2] <= rpc[r].delta}
Detached == {s \in Slots : job[s].pc # "none" /\ job[s].mode = "detached"}
Reservations == {s \in Slots : s \in Held(s[1]) \/ s \in Detached}

\* Reservations whose order Contabo has not accepted yet.
Unordered == {s \in Reservations : job[s].pc \in {"none", "posting"}}

RpcPcs == {"idle", "list", "check", "reserve", "loop", "creating", "unwind"}
RpcLocals == [pc : RpcPcs, delta : 0..MaxDelta, cur : Nat,
              remaining : 0..MaxDelta, deadline : {"short", "far"},
              used : SUBSET Names, unpaid : SUBSET Names]
Jobs == [pc : {"none", "posting", "ordered", "failed"},
         name : Names \cup {NoName}, mode : {"inline", "detached"}]

TypeOK ==
    /\ inFlight \in Nat
    /\ inst \in [Names -> Instances]
    /\ rpc \in [Rpcs -> RpcLocals]
    /\ job \in [Slots -> Jobs]
    /\ excuses \subseteq {"window", "unseen"}

Init ==
    /\ inst = [n \in Names |-> [st |-> "unused", cancel |-> "none"]]
    /\ inFlight = 0
    /\ rpc = [r \in Rpcs |-> IdleRpc]
    /\ job = [s \in Slots |-> NoJob]
    /\ excuses = {}

\* History: while another request is between its listing and its reservation,
\* a change of inFlight leaves that request with counts of different moments.
Excuse(why, happened) == IF happened THEN {why} ELSE {}
OtherInWindow(r) == \E q \in Rpcs \ {r} : InWindow(q)

------------------------------------------------------------------------------
(* NodeGroupIncreaseSize                                                   *)

\* A request arrives.  CA sends one at a time unless Env has "parallel"; the
\* jobs an earlier request detached may still be running.  A Delta of 0 or
\* less is answered InvalidArgument and changes nothing.
IncreaseSize(r) ==
    /\ rpc[r].pc = "idle"
    /\ \A k \in 1..MaxDelta : job[<<r, k>>].pc = "none"
    /\ "parallel" \in Env \/ \A q \in Rpcs : rpc[q].pc = "idle"
    /\ \E delta \in 1..MaxDelta, deadline \in Deadlines :
         rpc' = [rpc EXCEPT ![r] =
              [IdleRpc EXCEPT !.pc = "list", !.delta = delta, !.deadline = deadline,
                              !.unpaid = pendingPaymentInstances(ListByNamePrefix)]]
    /\ UNCHANGED <<inst, inFlight, job, excuses>>

\* Mutant: Guard 2 is missing.
ListWithoutGuard(r) ==
    /\ rpc[r].pc = "list"
    /\ rpc' = [rpc EXCEPT ![r] =
          [rpc[r] EXCEPT !.pc = "check", !.used = ListByNamePrefix,
                         !.cur = Cardinality(liveElasticInstances(ListByNamePrefix))]]
    /\ UNCHANGED <<inst, inFlight, job, excuses>>

\* The listing, Guard 2 (an unpaid order refuses the request) and the count.
ListForIncrease(r) ==
    /\ rpc[r].pc = "list"
    /\ rpc' = [rpc EXCEPT ![r] =
          IF pendingPaymentInstances(ListByNamePrefix) # {} THEN IdleRpc
          ELSE [rpc[r] EXCEPT !.pc = "check",
                              !.cur = Cardinality(liveElasticInstances(ListByNamePrefix)),
                              !.used = ListByNamePrefix]]
    /\ UNCHANGED <<inst, inFlight, job, excuses>>

\* The listing fails: Unavailable.
ListForIncreaseFails(r) ==
    /\ rpc[r].pc = "list"
    /\ rpc' = [rpc EXCEPT ![r] = IdleRpc]
    /\ UNCHANGED <<inst, inFlight, job, excuses>>

\* Mutant: the cap check forgets the creates that are in flight.
CheckListedOnly(r) ==
    /\ rpc[r].pc = "check"
    /\ rpc' = [rpc EXCEPT ![r] = IF rpc[r].cur + rpc[r].delta > MaxSize THEN IdleRpc
                                ELSE [rpc[r] EXCEPT !.pc = "reserve"]]
    /\ UNCHANGED <<inst, inFlight, job, excuses>>

\* inFlight is read under the lock; the two cap checks follow, outside it.
CheckCap(r) ==
    /\ rpc[r].pc = "check"
    /\ LET known == rpc[r].cur + inFlight
       IN  rpc' = [rpc EXCEPT ![r] =
             IF known >= MaxSize \/ known + rpc[r].delta > MaxSize THEN IdleRpc
             ELSE [rpc[r] EXCEPT !.pc = "reserve"]]
    /\ UNCHANGED <<inst, inFlight, job, excuses>>

\* The reservation is taken under the lock, in a critical section of its own.
\* The count and the unpaid orders are not used from here on, and dropped.
Reserve(r) ==
    /\ rpc[r].pc = "reserve"
    /\ inFlight' = inFlight + rpc[r].delta
    /\ rpc' = [rpc EXCEPT ![r] =
          [rpc[r] EXCEPT !.pc = "loop", !.remaining = rpc[r].delta,
                         !.cur = 0, !.unpaid = {}]]
    /\ excuses' = excuses \cup Excuse("window", OtherInWindow(r))
    /\ UNCHANGED <<inst, job>>

\* One turn of the loop: a name not used so far, then the create call, in a
\* detached goroutine when the deadline is short by now.
StartCreate(r) ==
    /\ rpc[r].pc = "loop" /\ rpc[r].remaining > 0
    /\ \E name \in Names \ rpc[r].used, deadline \in Deadlines :
         /\ rpc[r].deadline = "short" => deadline = "short"
         /\ job' = [job EXCEPT ![Turn(r)] =
              [pc |-> "posting", name |-> name,
               mode |-> IF deadline = "short" THEN "detached" ELSE "inline"]]
         /\ rpc' = [rpc EXCEPT ![r] =
              [rpc[r] EXCEPT !.used = @ \cup {name}, !.deadline = deadline,
                             !.pc = IF deadline = "short" THEN "loop" ELSE "creating",
                             !.remaining = IF deadline = "short" THEN @ - 1 ELSE @]]
    /\ UNCHANGED <<inst, inFlight, excuses>>

\* Mutant: a failed preparation is retried for ever instead of returned.
PrepareRetries(r) ==
    /\ rpc[r].pc = "loop" /\ rpc[r].remaining > 0
    /\ UNCHANGED vars

\* No fresh name after 20 attempts, or the user-data template fails to render.
PrepareFails(r) ==
    /\ rpc[r].pc = "loop" /\ rpc[r].remaining > 0
    /\ rpc' = [rpc EXCEPT ![r].pc = "unwind"]
    /\ UNCHANGED <<inst, inFlight, job, excuses>>

\* Mutant: no deferred release.
ReturnKeeping(r) ==
    /\ \/ rpc[r].pc = "unwind"
       \/ rpc[r].pc = "loop" /\ rpc[r].remaining = 0
    /\ rpc' = [rpc EXCEPT ![r] = IdleRpc]
    /\ UNCHANGED <<inst, inFlight, job, excuses>>

\* Mutant: the deferred function gives back all of Delta, including what the
\* loop and the detached goroutines give back.
ReturnAll(r) ==
    /\ \/ rpc[r].pc = "unwind"
       \/ rpc[r].pc = "loop" /\ rpc[r].remaining = 0
    /\ inFlight' = inFlight - rpc[r].delta
    /\ rpc' = [rpc EXCEPT ![r] = IdleRpc]
    /\ UNCHANGED <<inst, job, excuses>>

\* The request ends, after the loop or on an error: the deferred function
\* gives back what is left of the reservation.
Return(r) ==
    /\ \/ rpc[r].pc = "unwind"
       \/ rpc[r].pc = "loop" /\ rpc[r].remaining = 0
    /\ inFlight' = inFlight - rpc[r].remaining
    /\ rpc' = [rpc EXCEPT ![r] = IdleRpc]
    /\ excuses' = excuses \cup
         Excuse("window", rpc[r].remaining > 0 /\ OtherInWindow(r))
    /\ UNCHANGED <<inst, job>>

------------------------------------------------------------------------------
(* The create call, as ContaboCreate promises it (see CreateContract).     *)

\* Contabo accepts the order.  It refuses a display name it already holds.
OrderAccepted(s) ==
    /\ job[s].pc = "posting"
    /\ inst[job[s].name].st = "unused"
    /\ inst' = [inst EXCEPT ![job[s].name].st = "hidden"]
    /\ job' = [job EXCEPT ![s].pc = "ordered"]
    /\ UNCHANGED <<inFlight, rpc, excuses>>

\* No token, a refused order, or no connection: nothing was ordered.
OrderRefused(s) ==
    /\ job[s].pc = "posting"
    /\ job' = [job EXCEPT ![s].pc = "failed"]
    /\ UNCHANGED <<inst, inFlight, rpc, excuses>>

\* Visibility, tagging or network attachment failed and the order is cancelled.
RolledBack(s) ==
    /\ job[s].pc = "ordered"
    /\ \E form \in CancelForms :
         inst' = [inst EXCEPT ![job[s].name].cancel = IF @ = "none" THEN form ELSE @]
    /\ job' = [job EXCEPT ![s].pc = "failed"]
    /\ UNCHANGED <<inFlight, rpc, excuses>>

\* Contabo's answer to the order, or to the rollback, was lost: Create fails
\* and the instance stays.
OrderLeaked(s) ==
    /\ "lossy" \in Env
    /\ job[s].pc = "ordered"
    /\ job' = [job EXCEPT ![s].pc = "failed"]
    /\ excuses' = excuses \cup Excuse("unseen", job[s].name \in Hidden)
    /\ UNCHANGED <<inst, inFlight, rpc>>

\* Mutant: Create does not wait for the instance to become visible.
CreateEndsUnseen(s) ==
    /\ job[s].pc \in {"ordered", "failed"}
    /\ inFlight' = inFlight - 1
    /\ job' = [job EXCEPT ![s] = NoJob]
    /\ rpc' = IF job[s].mode = "detached" THEN rpc
              ELSE [rpc EXCEPT ![s[1]] =
                     [rpc[s[1]] EXCEPT !.remaining = @ - 1,
                                       !.pc = IF job[s].pc = "failed" THEN "unwind" ELSE "loop"]]
    /\ UNCHANGED <<inst, excuses>>

\* Mutant: only a successful create gives its reservation back.
CreateEndsWell(s) ==
    /\ job[s].pc = "ordered" /\ inst[job[s].name].st # "hidden"
    /\ inFlight' = inFlight - 1
    /\ job' = [job EXCEPT ![s] = NoJob]
    /\ rpc' = IF job[s].mode = "detached" THEN rpc
              ELSE [rpc EXCEPT ![s[1]] = [rpc[s[1]] EXCEPT !.remaining = @ - 1, !.pc = "loop"]]
    /\ UNCHANGED <<inst, excuses>>

\* Create returns: nil once the instance has been seen, an error otherwise.
\* The goroutine gives its one reservation back.
CreateEnds(s) ==
    /\ \/ job[s].pc = "ordered" /\ inst[job[s].name].st # "hidden"
       \/ job[s].pc = "failed"
    /\ inFlight' = inFlight - 1
    /\ job' = [job EXCEPT ![s] = NoJob]
    /\ rpc' = IF job[s].mode = "detached" THEN rpc
              ELSE [rpc EXCEPT ![s[1]] =
                     [rpc[s[1]] EXCEPT !.remaining = @ - 1,
                                       !.pc = IF job[s].pc = "failed" THEN "unwind" ELSE "loop"]]
    /\ excuses' = excuses \cup Excuse("window", \E q \in Rpcs : InWindow(q))
    /\ UNCHANGED inst

------------------------------------------------------------------------------
(* Contabo, cancellations, and the death of the server process.            *)

Moves == {<<"hidden", "pending_payment">>, <<"hidden", "paid">>,
          <<"pending_payment", "paid">>}

Progress(n) ==
    /\ \E m \in Moves : inst[n].st = m[1] /\ inst' = [inst EXCEPT ![n].st = m[2]]
    /\ UNCHANGED <<inFlight, rpc, job, excuses>>

\* End of the billing period of a cancelled instance.
Terminated(n) ==
    /\ n \in ListByNamePrefix /\ Cancelled(n)
    /\ inst' = [inst EXCEPT ![n].st = "gone"]
    /\ UNCHANGED <<inFlight, rpc, job, excuses>>

\* NodeGroupDeleteNodes, the reaper or an operator cancels a listed instance.
CancelledElsewhere(n) ==
    /\ n \in ListByNamePrefix /\ ~Cancelled(n)
    /\ \E form \in CancelForms : inst' = [inst EXCEPT ![n].cancel = form]
    /\ UNCHANGED <<inFlight, rpc, job, excuses>>

\* The process dies and starts again: a new Server, no detached goroutine.
Restart ==
    /\ "restart" \in Env
    /\ inFlight' = 0
    /\ rpc' = [r \in Rpcs |-> IdleRpc]
    /\ job' = [s \in Slots |-> NoJob]
    /\ excuses' = excuses \cup Excuse("unseen", Hidden # {})
    /\ UNCHANGED inst

------------------------------------------------------------------------------

RpcStep(r) == \/ IncreaseSize(r) \/ ListForIncrease(r) \/ ListForIncreaseFails(r)
              \/ CheckCap(r) \/ Reserve(r) \/ StartCreate(r) \/ PrepareFails(r)
              \/ Return(r)
JobStep(s) == \/ OrderAccepted(s) \/ OrderRefused(s) \/ RolledBack(s)
              \/ OrderLeaked(s) \/ CreateEnds(s)
ContaboStep(n) == Progress(n) \/ Terminated(n) \/ CancelledElsewhere(n)

Next ==
    \/ \E r \in Rpcs : RpcStep(r)
    \/ \E s \in Slots : JobStep(s)
    \/ \E n \in Names : ContaboStep(n)
    \/ Restart

Spec == Init /\ [][Next]_vars

\* A goroutine that can move does: its API calls carry a 30 s client timeout,
\* its retries are counted and a detached create has a five-minute deadline.
\* Nothing is assumed of Contabo, and no new request has to arrive.
Fairness ==
    /\ \A r \in Rpcs : WF_vars(RpcStep(r) /\ rpc[r].pc # "idle")
    /\ \A s \in Slots : WF_vars(JobStep(s))

FairSpec == Spec /\ Fairness

------------------------------------------------------------------------------
(* Properties                                                              *)

\* inFlight is exactly the number of creates that were accepted and have not
\* ended: no path through the loop, its error returns, the deferred release
\* and the detached goroutines gives a reservation back twice or never.
ReservationsBalance == inFlight = Cardinality(Reservations)

\* As long as no order was left behind unseen (a lost answer or a restart), an
\* order that no listing shows is held by a running create, so inFlight counts
\* it: what the comment on Server.inFlight relies on.
UnseenOrdersReserved ==
    "unseen" \notin excuses =>
        \A n \in Hidden : \E s \in Reservations : job[s].pc = "ordered" /\ job[s].name = n

\* Never more than MaxSize machines that hold a slot (NodeGroupIncreaseSize).
CapHolds == Cardinality(Live) <= MaxSize

\* The hard cap holds under any interleaving of requests, detached creates,
\* cancellations and orphans, unless one of two things has happened: inFlight
\* changed while a request was between its listing and its reservation, or an
\* order was left behind that no listing showed yet.
CapUnlessExcused == excuses = {} => CapHolds

\* Guard 2: no request goes past its listing while an order that was already
\* unpaid when the request arrived is still unpaid.
NoRatchet ==
    \A r \in Rpcs : InWindow(r) =>
        \A n \in rpc[r].unpaid : inst[n].st # "pending_payment"

\* Every reservation is given back in the end: a wedged create cannot hold
\* capacity for ever.
ReservationsReleased == \A s \in Slots : (s \in Reservations) ~> (s \notin Reservations)

\* Every request is answered.
RequestsAnswered == \A r \in Rpcs : (rpc[r].pc # "idle") ~> (rpc[r].pc = "idle")

\* Names and requests are symmetric: no property above tells one from another.
Symmetry == Permutations(Names) \cup Permutations(Rpcs)
=============================================================================

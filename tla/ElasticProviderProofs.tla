------------------------ MODULE ElasticProviderProofs ------------------------
(***************************************************************************)
(* Proofs about ElasticProvider, for every set of names and requests,      *)
(* every MaxSize, MaxDelta and environment.                                *)
(***************************************************************************)
EXTENDS ElasticProvider, FiniteSetTheorems, TLAPS

\* A request that has not reserved holds no job of its own; one that has is
\* never short of the reservation its current create uses.
RpcShape ==
    \A r \in Rpcs :
        /\ rpc[r].remaining <= rpc[r].delta
        /\ rpc[r].pc = "creating" => rpc[r].remaining > 0
        /\ rpc[r].pc \in {"list", "check", "reserve"} =>
              \A k \in 1..MaxDelta : job[<<r, k>>].pc = "none"

\* A running create is detached, for a turn its request has finished with, or
\* it is the create its request is waiting for.
JobShape ==
    \A s \in Slots :
        /\ job[s].pc # "none" => job[s].name \in Names
        /\ job[s].pc # "none" /\ job[s].mode = "inline" =>
              rpc[s[1]].pc = "creating" /\ s = Turn(s[1])
        /\ job[s].pc # "none" /\ job[s].mode = "detached" /\ InLoop(s[1]) =>
              s[2] <= rpc[s[1]].delta - rpc[s[1]].remaining

\* What is live or still to be ordered: the most the pool can grow to.
Load == Cardinality(Live) + Cardinality(Unordered)

\* What a request between its listing and its reservation knows of the pool.
WindowSound ==
    \A r \in Rpcs :
        /\ InWindow(r) => Load <= rpc[r].cur + inFlight
        /\ rpc[r].pc = "reserve" => rpc[r].cur + inFlight + rpc[r].delta <= MaxSize

IInv ==
    /\ TypeOK
    /\ RpcShape
    /\ JobShape
    /\ ReservationsBalance
    /\ UnseenOrdersReserved
    /\ excuses = {} => Load <= MaxSize /\ WindowSound

------------------------------------------------------------------------------
(* Types and shapes                                                        *)

\* Everything but inFlight, whose type needs the balance.
Types ==
    /\ inst \in [Names -> Instances]
    /\ rpc \in [Rpcs -> RpcLocals]
    /\ job \in [Slots -> Jobs]
    /\ excuses \subseteq {"window", "unseen"}

\* The names Contabo lists are finitely many, so that every count is a number.
LEMMA ListedFinite ==
    ASSUME NEW L \in SUBSET Names
    PROVE  IsFiniteSet(L) /\ Cardinality(L) \in Nat
  BY NamesAssumption, FS_Subset, FS_CardinalityType

\* What the requests and the jobs assign is of the right type.
LEMMA IdleTypes == IdleRpc \in RpcLocals /\ NoJob \in Jobs
  BY SizeAssumption DEF IdleRpc, NoJob, RpcLocals, RpcPcs, Jobs

LEMMA RpcUpdates ==
    ASSUME NEW x \in RpcLocals, NEW pc \in RpcPcs
    PROVE  /\ [x EXCEPT !.pc = pc] \in RpcLocals
           /\ \A c \in Nat, L \in SUBSET Names :
                [x EXCEPT !.pc = pc, !.cur = c, !.used = L] \in RpcLocals
           /\ \A d \in 0..MaxDelta, L \in SUBSET Names, t \in {"short", "far"} :
                [x EXCEPT !.pc = pc, !.delta = d, !.deadline = t, !.unpaid = L] \in RpcLocals
           /\ [x EXCEPT !.pc = pc, !.remaining = x.delta, !.cur = 0, !.unpaid = {}] \in RpcLocals
           /\ \A m \in 0..MaxDelta : [x EXCEPT !.remaining = m, !.pc = pc] \in RpcLocals
           /\ \A n \in Names, t \in {"short", "far"}, m \in 0..MaxDelta :
                [x EXCEPT !.used = x.used \cup {n}, !.deadline = t, !.pc = pc, !.remaining = m]
                   \in RpcLocals
  BY DEF RpcLocals

\* Every step of a request keeps the types.
LEMMA RpcTypes ==
    ASSUME Types, RpcShape, inFlight \in Nat, NEW r \in Rpcs, RpcStep(r)
    PROVE  Types'
  <1> USE IdleTypes DEF Types
  <1>0. rpc[r] \in RpcLocals
    OBVIOUS
  <1>1. CASE IncreaseSize(r)
    <2>1. PICK delta \in 1..MaxDelta, deadline \in Deadlines :
             rpc' = [rpc EXCEPT ![r] =
               [IdleRpc EXCEPT !.pc = "list", !.delta = delta, !.deadline = deadline,
                               !.unpaid = pendingPaymentInstances(ListByNamePrefix)]]
      BY <1>1 DEF IncreaseSize
    <2>2. pendingPaymentInstances(ListByNamePrefix) \in SUBSET Names
      BY DEF pendingPaymentInstances, ListByNamePrefix
    <2>3. delta \in 0..MaxDelta /\ deadline \in {"short", "far"} /\ "list" \in RpcPcs
      BY SizeAssumption, EnvAssumption DEF RpcPcs
    <2>4. [IdleRpc EXCEPT !.pc = "list", !.delta = delta, !.deadline = deadline,
                          !.unpaid = pendingPaymentInstances(ListByNamePrefix)] \in RpcLocals
      BY <2>2, <2>3, RpcUpdates
    <2>5. rpc' \in [Rpcs -> RpcLocals]
      BY <2>1, <2>4
    <2> QED
      BY <1>1, <2>5 DEF IncreaseSize
  <1>2. CASE ListForIncrease(r)
    <2>1. ListByNamePrefix \in SUBSET Names
      BY DEF ListByNamePrefix
    <2>2. Cardinality(liveElasticInstances(ListByNamePrefix)) \in Nat
      BY <2>1, ListedFinite DEF liveElasticInstances
    <2>3. "check" \in RpcPcs
      BY DEF RpcPcs
    <2>4. rpc' \in [Rpcs -> RpcLocals]
      BY <1>0, <1>2, <2>1, <2>2, <2>3, RpcUpdates DEF ListForIncrease
    <2> QED
      BY <1>2, <2>4 DEF ListForIncrease
  <1>3. CASE ListForIncreaseFails(r)
    BY <1>3 DEF ListForIncreaseFails
  <1>4. CASE CheckCap(r)
    <2>1. rpc' \in [Rpcs -> RpcLocals]
      BY <1>0, <1>4, RpcUpdates DEF CheckCap, RpcPcs
    <2> QED
      BY <1>4, <2>1 DEF CheckCap
  <1>5. CASE Reserve(r)
    <2>1. rpc' \in [Rpcs -> RpcLocals]
      BY <1>0, <1>5, RpcUpdates DEF Reserve, RpcPcs
    <2> QED
      BY <1>5, <2>1 DEF Reserve, Excuse
  <1>6. CASE StartCreate(r)
    <2>1. PICK name \in Names \ rpc[r].used, deadline \in Deadlines :
             /\ job' = [job EXCEPT ![Turn(r)] =
                  [pc |-> "posting", name |-> name,
                   mode |-> IF deadline = "short" THEN "detached" ELSE "inline"]]
             /\ rpc' = [rpc EXCEPT ![r] =
                  [rpc[r] EXCEPT !.used = @ \cup {name}, !.deadline = deadline,
                            !.pc = IF deadline = "short" THEN "loop" ELSE "creating",
                            !.remaining = IF deadline = "short" THEN @ - 1 ELSE @]]
      BY <1>6 DEF StartCreate
    <2>2. [pc |-> "posting", name |-> name,
           mode |-> IF deadline = "short" THEN "detached" ELSE "inline"] \in Jobs
      BY DEF Jobs
    <2>3. job' \in [Slots -> Jobs]
      BY <2>1, <2>2
    <2> DEFINE pc == IF deadline = "short" THEN "loop" ELSE "creating"
               left == IF deadline = "short" THEN rpc[r].remaining - 1 ELSE rpc[r].remaining
    <2>4. rpc[r].remaining \in 0..MaxDelta /\ rpc[r].remaining > 0
      BY <1>0, <1>6 DEF StartCreate, RpcLocals
    <2>5. left \in 0..MaxDelta
      BY <2>4, SizeAssumption
    <2>6. pc \in RpcPcs /\ deadline \in {"short", "far"}
      BY EnvAssumption DEF RpcPcs
    <2>7. [rpc[r] EXCEPT !.used = rpc[r].used \cup {name}, !.deadline = deadline,
                         !.pc = pc, !.remaining = left] \in RpcLocals
      <3> HIDE DEF pc, left
      <3> QED
        BY <1>0, <2>5, <2>6, RpcUpdates
    <2>8. rpc' \in [Rpcs -> RpcLocals]
      <3>1. rpc' = [rpc EXCEPT ![r] =
               [rpc[r] EXCEPT !.used = rpc[r].used \cup {name}, !.deadline = deadline,
                              !.pc = pc, !.remaining = left]]
        BY <2>1, Zenon
      <3> HIDE DEF pc, left
      <3> QED
        BY <2>7, <3>1
    <2> QED
      BY <1>6, <2>3, <2>8 DEF StartCreate
  <1>7. CASE PrepareFails(r)
    <2>1. [rpc[r] EXCEPT !.pc = "unwind"] \in RpcLocals
      BY <1>0, RpcUpdates DEF RpcPcs
    <2> QED
      BY <1>7, <2>1 DEF PrepareFails
  <1>8. CASE Return(r)
    BY <1>8 DEF Return, Excuse
  <1> QED
    BY <1>1, <1>2, <1>3, <1>4, <1>5, <1>6, <1>7, <1>8 DEF RpcStep

\* Every step of a create keeps the types.
LEMMA JobTypes ==
    ASSUME Types, RpcShape, JobShape, NEW s \in Slots, JobStep(s)
    PROVE  Types'
  <1> USE DEF Types
  <1>0. job[s] \in Jobs /\ s[1] \in Rpcs /\ rpc[s[1]] \in RpcLocals
    BY DEF Slots
  <1>j. \A pc \in {"none", "posting", "ordered", "failed"} : [job[s] EXCEPT !.pc = pc] \in Jobs
    BY <1>0 DEF Jobs
  <1>1. CASE OrderAccepted(s)
    <2>1. job' \in [Slots -> Jobs]
      BY <1>1, <1>j DEF OrderAccepted
    <2>2. inst' \in [Names -> Instances]
      BY <1>1 DEF OrderAccepted, Instances
    <2> QED
      BY <1>1, <2>1, <2>2 DEF OrderAccepted
  <1>2. CASE OrderRefused(s)
    BY <1>2, <1>j DEF OrderRefused
  <1>3. CASE RolledBack(s)
    <2>1. job' \in [Slots -> Jobs]
      BY <1>3, <1>j DEF RolledBack
    <2>2. inst' \in [Names -> Instances]
      <3>1. PICK form \in CancelForms :
               inst' = [inst EXCEPT ![job[s].name].cancel = IF @ = "none" THEN form ELSE @]
        BY <1>3 DEF RolledBack
      <3>2. form \in {"none", "parsed", "raw"}
        BY EnvAssumption
      <3> QED
        BY <3>1, <3>2, ZenonT(30) DEF Instances
    <2> QED
      BY <1>3, <2>1, <2>2 DEF RolledBack
  <1>4. CASE OrderLeaked(s)
    BY <1>4, <1>j DEF OrderLeaked, Excuse
  <1>5. CASE CreateEnds(s)
    <2>1. job' \in [Slots -> Jobs]
      BY <1>5, IdleTypes DEF CreateEnds
    <2>2. CASE job[s].mode = "detached"
      BY <1>5, <2>1, <2>2 DEF CreateEnds, Excuse
    <2>3. CASE job[s].mode # "detached"
      <3>1. rpc[s[1]].pc = "creating"
        <4>1. job[s].mode = "inline" /\ job[s].pc # "none"
          BY <1>0, <1>5, <2>3 DEF CreateEnds, Jobs
        <4> QED
          BY <4>1 DEF JobShape
      <3>2. rpc[s[1]].remaining - 1 \in 0..MaxDelta
        BY <1>0, <3>1, SizeAssumption DEF RpcShape, RpcLocals
      <3>3. rpc' \in [Rpcs -> RpcLocals]
        <4> DEFINE pc == IF job[s].pc = "failed" THEN "unwind" ELSE "loop"
                   left == rpc[s[1]].remaining - 1
        <4>1. rpc' = [rpc EXCEPT ![s[1]] = [rpc[s[1]] EXCEPT !.remaining = left, !.pc = pc]]
          BY <1>5, <2>3, Zenon DEF CreateEnds
        <4>2. pc \in RpcPcs
          BY DEF RpcPcs
        <4> HIDE DEF pc, left
        <4> QED
          BY <1>0, <3>2, <4>1, <4>2, RpcUpdates DEF left
      <3> QED
        BY <1>5, <2>1, <3>3 DEF CreateEnds, Excuse
    <2> QED
      BY <2>2, <2>3
  <1> QED
    BY <1>1, <1>2, <1>3, <1>4, <1>5 DEF JobStep

\* Contabo's own steps, cancellations and a restart keep the types.
LEMMA EnvTypes ==
    ASSUME Types, (\E n \in Names : ContaboStep(n)) \/ Restart
    PROVE  Types'
  <1> USE DEF Types
  <1>1. ASSUME NEW n \in Names, Progress(n) PROVE Types'
    BY <1>1 DEF Progress, Moves, Instances, Statuses
  <1>2. ASSUME NEW n \in Names, Terminated(n) PROVE Types'
    BY <1>2 DEF Terminated, Instances
  <1>3. ASSUME NEW n \in Names, CancelledElsewhere(n) PROVE Types'
    <2>1. PICK form \in CancelForms : inst' = [inst EXCEPT ![n].cancel = form]
      BY <1>3 DEF CancelledElsewhere
    <2>2. form \in {"none", "parsed", "raw"}
      BY EnvAssumption
    <2>3. inst' \in [Names -> Instances]
      BY <2>1, <2>2 DEF Instances
    <2> QED
      BY <1>3, <2>3 DEF CancelledElsewhere
  <1>4. CASE Restart
    BY <1>4, IdleTypes DEF Restart, Excuse
  <1> QED
    BY <1>1, <1>2, <1>3, <1>4 DEF ContaboStep

\* A slot is a request and a turn; the next turn of a loop is one.
LEMMA SlotFacts ==
    ASSUME Types, RpcShape
    PROVE  /\ \A s \in Slots : s[1] \in Rpcs /\ s[2] \in 1..MaxDelta /\ s = <<s[1], s[2]>>
           /\ \A r \in Rpcs, k \in 1..MaxDelta : <<r, k>> \in Slots
           /\ \A r \in Rpcs : /\ rpc[r].delta \in 0..MaxDelta
                             /\ rpc[r].remaining \in 0..rpc[r].delta
                             /\ rpc[r].pc \in RpcPcs
           /\ \A r \in Rpcs : rpc[r].remaining > 0 => Turn(r) \in Slots
  <1>1. \A s \in Slots : s[1] \in Rpcs /\ s[2] \in 1..MaxDelta /\ s = <<s[1], s[2]>>
    BY DEF Slots
  <1>2. \A r \in Rpcs, k \in 1..MaxDelta : <<r, k>> \in Slots
    BY DEF Slots
  <1>3. \A r \in Rpcs : /\ rpc[r].delta \in 0..MaxDelta
                      /\ rpc[r].remaining \in 0..rpc[r].delta
                      /\ rpc[r].pc \in RpcPcs
    BY DEF Types, RpcShape, RpcLocals
  <1>4. \A r \in Rpcs : rpc[r].remaining > 0 => Turn(r) \in Slots
    <2> SUFFICES ASSUME NEW r \in Rpcs, rpc[r].remaining > 0 PROVE Turn(r) \in Slots
      OBVIOUS
    <2>1. rpc[r].delta - rpc[r].remaining + 1 \in 1..MaxDelta
      BY <1>3, SizeAssumption
    <2> QED
      BY <1>2, <2>1 DEF Turn
  <1> QED
    BY <1>1, <1>2, <1>3, <1>4

\* Every step of a request keeps the shapes.
LEMMA RpcShapes ==
    ASSUME Types, RpcShape, JobShape, NEW r \in Rpcs, RpcStep(r)
    PROVE  RpcShape' /\ JobShape'
  <1> USE DEF Types
  <1>f. /\ \A s \in Slots : s[1] \in Rpcs /\ s[2] \in 1..MaxDelta /\ s = <<s[1], s[2]>>
        /\ \A q \in Rpcs, k \in 1..MaxDelta : <<q, k>> \in Slots
        /\ \A q \in Rpcs : /\ rpc[q].delta \in 0..MaxDelta
                          /\ rpc[q].remaining \in 0..rpc[q].delta
                          /\ rpc[q].pc \in RpcPcs
    BY SlotFacts
  <1>1. CASE IncreaseSize(r)
    BY <1>1, <1>f, SizeAssumption DEF IncreaseSize, IdleRpc, RpcShape, JobShape, InLoop, Turn, RpcPcs
  <1>2. CASE ListForIncrease(r)
    BY <1>2, <1>f, SizeAssumption DEF ListForIncrease, IdleRpc, RpcShape, JobShape, InLoop, Turn, RpcPcs
  <1>3. CASE ListForIncreaseFails(r)
    BY <1>3, <1>f, SizeAssumption DEF ListForIncreaseFails, IdleRpc, RpcShape, JobShape, InLoop, Turn, RpcPcs
  <1>4. CASE CheckCap(r)
    BY <1>4, <1>f, SizeAssumption DEF CheckCap, IdleRpc, RpcShape, JobShape, InLoop, Turn, RpcPcs
  <1>5. CASE Reserve(r)
    BY <1>5, <1>f, SizeAssumption DEF Reserve, RpcShape, JobShape, InLoop, Turn, RpcPcs
  <1>7. CASE PrepareFails(r)
    BY <1>7, <1>f, SizeAssumption DEF PrepareFails, RpcShape, JobShape, InLoop, Turn, RpcPcs
  <1>8. CASE Return(r)
    BY <1>8, <1>f, SizeAssumption DEF Return, IdleRpc, RpcShape, JobShape, InLoop, Turn, RpcPcs
  <1>6. CASE StartCreate(r)
    <2>1. PICK name \in Names, deadline \in Deadlines :
             /\ job' = [job EXCEPT ![Turn(r)] =
                  [pc |-> "posting", name |-> name,
                   mode |-> IF deadline = "short" THEN "detached" ELSE "inline"]]
             /\ rpc' = [rpc EXCEPT ![r] =
                  [rpc[r] EXCEPT !.used = @ \cup {name}, !.deadline = deadline,
                            !.pc = IF deadline = "short" THEN "loop" ELSE "creating",
                            !.remaining = IF deadline = "short" THEN @ - 1 ELSE @]]
      BY <1>6 DEF StartCreate
    <2>2. Turn(r) \in Slots /\ rpc[r].remaining > 0 /\ rpc[r].pc = "loop"
      BY <1>6, SlotFacts DEF StartCreate
    <2>3. CASE deadline = "short"
      BY <2>1, <2>2, <2>3, <1>f, SizeAssumption DEF RpcShape, JobShape, InLoop, Turn, RpcPcs
    <2>4. CASE deadline # "short"
      BY <2>1, <2>2, <2>4, <1>f, SizeAssumption DEF RpcShape, JobShape, InLoop, Turn, RpcPcs
    <2> QED
      BY <2>3, <2>4
  <1> QED
    BY <1>1, <1>2, <1>3, <1>4, <1>5, <1>6, <1>7, <1>8 DEF RpcStep

\* Every step of a create keeps the shapes.
LEMMA JobShapes ==
    ASSUME Types, RpcShape, JobShape, NEW s \in Slots, JobStep(s)
    PROVE  RpcShape' /\ JobShape'
  <1> USE DEF Types
  <1>f. /\ \A t \in Slots : t[1] \in Rpcs /\ t[2] \in 1..MaxDelta /\ t = <<t[1], t[2]>>
        /\ \A q \in Rpcs, k \in 1..MaxDelta : <<q, k>> \in Slots
        /\ \A q \in Rpcs : /\ rpc[q].delta \in 0..MaxDelta
                          /\ rpc[q].remaining \in 0..rpc[q].delta
                          /\ rpc[q].pc \in RpcPcs
    BY SlotFacts
  <1>1. CASE OrderAccepted(s)
    BY <1>1, <1>f DEF OrderAccepted, RpcShape, JobShape, InLoop, Turn
  <1>2. CASE OrderRefused(s)
    BY <1>2, <1>f DEF OrderRefused, RpcShape, JobShape, InLoop, Turn
  <1>3. CASE RolledBack(s)
    BY <1>3, <1>f DEF RolledBack, RpcShape, JobShape, InLoop, Turn
  <1>4. CASE OrderLeaked(s)
    BY <1>4, <1>f DEF OrderLeaked, RpcShape, JobShape, InLoop, Turn
  <1>5. CASE CreateEnds(s)
    <2>1. CASE job[s].mode = "detached"
      BY <1>5, <2>1, <1>f DEF CreateEnds, NoJob, RpcShape, JobShape, InLoop, Turn
    <2>2. CASE job[s].mode # "detached"
      <3>1. rpc[s[1]].pc = "creating" /\ s = Turn(s[1]) /\ rpc[s[1]].remaining > 0
        <4>1. job[s].mode = "inline" /\ job[s].pc # "none"
          BY <1>5, <2>2 DEF CreateEnds, Jobs
        <4> QED
          BY <1>f, <4>1 DEF JobShape, RpcShape
      <3>2. \A t \in Slots : t # s /\ t[1] = s[1] /\ job[t].pc # "none" =>
              job[t].mode = "detached"
        BY <1>f, <3>1 DEF JobShape, Turn, Jobs
      <3>3. RpcShape'
        BY <1>5, <2>2, <3>1, <1>f DEF CreateEnds, NoJob, RpcShape, RpcPcs
      <3>4. JobShape'
        BY <1>5, <2>2, <3>1, <3>2, <1>f DEF CreateEnds, NoJob, JobShape, InLoop, Turn
      <3> QED
        BY <3>3, <3>4
    <2> QED
      BY <2>1, <2>2
  <1> QED
    BY <1>1, <1>2, <1>3, <1>4, <1>5 DEF JobStep

\* So do Contabo's steps, cancellations and a restart.
LEMMA EnvShapes ==
    ASSUME Types, RpcShape, JobShape, (\E n \in Names : ContaboStep(n)) \/ Restart
    PROVE  RpcShape' /\ JobShape'
  <1> USE DEF Types
  <1>1. CASE \E n \in Names : ContaboStep(n)
    BY <1>1 DEF ContaboStep, Progress, Terminated, CancelledElsewhere,
                RpcShape, JobShape, InLoop, Turn
  <1>2. CASE Restart
    <2>1. \A s \in Slots : s[1] \in Rpcs
      BY DEF Slots
    <2>2. \A q \in Rpcs, k \in 1..MaxDelta : <<q, k>> \in Slots
      BY DEF Slots
    <2> QED
      BY <1>2, <2>1, <2>2 DEF Restart, IdleRpc, NoJob, RpcShape, JobShape, InLoop, Turn
  <1> QED
    BY <1>1, <1>2

------------------------------------------------------------------------------
(* What each step does to the reservations and to the load                 *)

\* Counts of slots and of names are numbers.
LEMMA CountsFinite ==
    /\ IsFiniteSet(Slots) /\ IsFiniteSet(Live) /\ IsFiniteSet(Hidden)
    /\ IsFiniteSet(Reservations) /\ IsFiniteSet(Unordered)
    /\ Cardinality(Live) \in Nat /\ Cardinality(Hidden) \in Nat
    /\ Cardinality(Reservations) \in Nat /\ Cardinality(Unordered) \in Nat
  <1>1. IsFiniteSet(Slots)
    <2>1. IsFiniteSet(1..MaxDelta)
      BY SizeAssumption, FS_Interval
    <2> QED
      BY <2>1, RpcsAssumption, FS_Product DEF Slots
  <1>2. Reservations \in SUBSET Slots /\ Unordered \in SUBSET Slots
    BY DEF Reservations, Unordered
  <1>3. Live \in SUBSET Names /\ Hidden \in SUBSET Names
    BY DEF Live, Hidden
  <1>4. IsFiniteSet(Reservations) /\ IsFiniteSet(Unordered)
    BY <1>1, <1>2, FS_Subset
  <1>5. IsFiniteSet(Live) /\ IsFiniteSet(Hidden)
    BY <1>3, NamesAssumption, FS_Subset
  <1> QED
    BY <1>1, <1>4, <1>5, FS_CardinalityType

\* Membership in the two sets of slots, in terms of the variables.
LEMMA ReservationFacts ==
    ASSUME Types, RpcShape, JobShape, NEW s \in Slots
    PROVE  /\ s \in Reservations <=>
                \/ /\ InLoop(s[1])
                   /\ s[2] > rpc[s[1]].delta - rpc[s[1]].remaining
                   /\ s[2] <= rpc[s[1]].delta
                \/ job[s].pc # "none" /\ job[s].mode = "detached"
           /\ s \in Unordered <=> s \in Reservations /\ job[s].pc \in {"none", "posting"}
           /\ job[s].pc # "none" => s \in Reservations
  <1>1. s \in Reservations <=>
          \/ /\ InLoop(s[1])
             /\ s[2] > rpc[s[1]].delta - rpc[s[1]].remaining
             /\ s[2] <= rpc[s[1]].delta
          \/ job[s].pc # "none" /\ job[s].mode = "detached"
    BY DEF Reservations, Held, Detached
  <1>2. s \in Unordered <=> s \in Reservations /\ job[s].pc \in {"none", "posting"}
    BY DEF Unordered
  <1>3. ASSUME job[s].pc # "none" PROVE s \in Reservations
    <2>1. CASE job[s].mode = "detached"
      BY <1>1, <1>3, <2>1
    <2>2. CASE job[s].mode = "inline"
      <3>1. s[1] \in Rpcs /\ rpc[s[1]].pc = "creating" /\ s = Turn(s[1]) /\ rpc[s[1]].remaining > 0
        BY <1>3, <2>2, SlotFacts DEF JobShape, RpcShape
      <3>2. s[2] = rpc[s[1]].delta - rpc[s[1]].remaining + 1
        BY <3>1 DEF Turn
      <3> QED
        BY <1>1, <3>1, <3>2, SlotFacts DEF InLoop
    <2> QED
      BY <2>1, <2>2 DEF Types, Jobs
  <1> QED
    BY <1>1, <1>2, <1>3

\* The slots of one request's turns a+1 .. b are b-a many.
LEMMA TurnsCount ==
    ASSUME NEW r \in Rpcs, NEW a \in Nat, NEW b \in Nat, a <= b, b <= MaxDelta,
           NEW A, A = {s \in Slots : s[1] = r /\ s[2] > a /\ s[2] <= b}
    PROVE  IsFiniteSet(A) /\ Cardinality(A) = b - a
  <1> DEFINE f == [k \in (a+1)..b |-> <<r, k>>]
  <1>1. f \in Bijection((a+1)..b, A)
    <2>1. f \in [(a+1)..b -> A]
      BY SizeAssumption DEF Slots
    <2>2. \A s \in A : \E k \in (a+1)..b : f[k] = s
      BY SizeAssumption DEF Slots
    <2>3. \A j, k \in (a+1)..b : f[j] = f[k] => j = k
      OBVIOUS
    <2> HIDE DEF f
    <2> QED
      BY <2>1, <2>2, <2>3 DEF Bijection, Injection, IsInjective, Surjection
  <1>2. IsFiniteSet((a+1)..b) /\ Cardinality((a+1)..b) = b - a
    <2>1. a + 1 \in Int /\ b \in Int
      OBVIOUS
    <2>2. /\ IsFiniteSet((a+1)..b)
          /\ Cardinality((a+1)..b) = IF a+1 > b THEN 0 ELSE b-(a+1)+1
      BY <2>1, FS_Interval, Zenon
    <2> QED
      BY <2>2
  <1> QED
    BY <1>1, <1>2, FS_Bijection DEF ExistsBijection

\* The steps of a request that touch no reservation and no machine.
LEMMA QuietRpcSteps ==
    ASSUME Types, RpcShape, JobShape, NEW r \in Rpcs,
           \/ IncreaseSize(r) \/ ListForIncrease(r) \/ ListForIncreaseFails(r)
           \/ CheckCap(r) \/ PrepareFails(r) \/ StartCreate(r)
    PROVE  /\ Reservations' = Reservations /\ Unordered' = Unordered
           /\ UNCHANGED <<inst, inFlight, excuses>>
  <1> USE DEF Types
  <1>f. /\ \A t \in Slots : t[1] \in Rpcs /\ t[2] \in 1..MaxDelta /\ t = <<t[1], t[2]>>
        /\ \A q \in Rpcs : /\ rpc[q].delta \in 0..MaxDelta
                          /\ rpc[q].remaining \in 0..rpc[q].delta
    BY SlotFacts
  <1>1. CASE IncreaseSize(r)
    <2>1. rpc'[r].pc = "list" /\ \A q \in Rpcs \ {r} : rpc'[q] = rpc[q]
      BY <1>1 DEF IncreaseSize, IdleRpc
    <2>2. Reservations' = Reservations
      BY <1>1, <1>f, <2>1 DEF IncreaseSize, Reservations, Held, Detached, InLoop
    <2> QED
      BY <1>1, <2>2 DEF IncreaseSize, Unordered
  <1>2. CASE ListForIncrease(r)
    BY <1>2, <1>f DEF ListForIncrease, IdleRpc, Reservations, Unordered, Held, Detached, InLoop
  <1>3. CASE ListForIncreaseFails(r)
    BY <1>3, <1>f DEF ListForIncreaseFails, IdleRpc, Reservations, Unordered, Held, Detached, InLoop
  <1>4. CASE CheckCap(r)
    BY <1>4, <1>f DEF CheckCap, IdleRpc, Reservations, Unordered, Held, Detached, InLoop
  <1>5. CASE PrepareFails(r)
    BY <1>5, <1>f DEF PrepareFails, Reservations, Unordered, Held, Detached, InLoop
  <1>6. CASE StartCreate(r)
    <2>1. PICK name \in Names, deadline \in Deadlines :
             /\ job' = [job EXCEPT ![Turn(r)] =
                  [pc |-> "posting", name |-> name,
                   mode |-> IF deadline = "short" THEN "detached" ELSE "inline"]]
             /\ rpc' = [rpc EXCEPT ![r] =
                  [rpc[r] EXCEPT !.used = @ \cup {name}, !.deadline = deadline,
                            !.pc = IF deadline = "short" THEN "loop" ELSE "creating",
                            !.remaining = IF deadline = "short" THEN @ - 1 ELSE @]]
      BY <1>6 DEF StartCreate
    <2>2. Turn(r) \in Slots /\ rpc[r].remaining > 0 /\ rpc[r].pc = "loop"
      BY <1>6, SlotFacts DEF StartCreate
    <2>3. job[Turn(r)].pc = "none"
      <3>1. Turn(r)[1] = r /\ Turn(r)[2] = rpc[r].delta - rpc[r].remaining + 1
        BY DEF Turn
      <3>2. ~(job[Turn(r)].mode = "inline" /\ job[Turn(r)].pc # "none")
        BY <2>2, <3>1 DEF JobShape
      <3>3. ~(job[Turn(r)].mode = "detached" /\ job[Turn(r)].pc # "none")
        BY <2>2, <3>1, <1>f DEF JobShape, InLoop
      <3> QED
        BY <2>2, <3>2, <3>3 DEF Jobs
    <2>4. CASE deadline = "short"
      <3>0. /\ rpc'[r].pc = "loop" /\ rpc'[r].delta = rpc[r].delta
            /\ rpc'[r].remaining = rpc[r].remaining - 1
            /\ \A q \in Rpcs \ {r} : rpc'[q] = rpc[q]
            /\ job'[Turn(r)].pc = "posting" /\ job'[Turn(r)].mode = "detached"
            /\ \A t \in Slots \ {Turn(r)} : job'[t] = job[t]
        BY <2>1, <2>2, <2>4
      <3>1. Reservations' = Reservations
        <4>1. \A t \in Slots : t \in Reservations' <=> t \in Reservations
          BY <3>0, <2>2, <2>3, <1>f DEF Reservations, Held, Detached, InLoop, Turn
        <4> QED
          BY <4>1 DEF Reservations
      <3>2. \A s \in Slots : job[s].pc \in {"none", "posting"} <=> job'[s].pc \in {"none", "posting"}
        BY <2>1, <2>2, <2>3
      <3> QED
        BY <1>6, <3>1, <3>2 DEF StartCreate, Unordered, Reservations
    <2>5. CASE deadline # "short"
      <3>1. Reservations' = Reservations
        BY <2>1, <2>2, <2>3, <2>5, <1>f DEF Reservations, Held, Detached, InLoop, Turn
      <3>2. \A s \in Slots : job[s].pc \in {"none", "posting"} <=> job'[s].pc \in {"none", "posting"}
        BY <2>1, <2>2, <2>3
      <3> QED
        BY <1>6, <3>1, <3>2 DEF StartCreate, Unordered, Reservations
    <2> QED
      BY <2>4, <2>5
  <1> QED
    BY <1>1, <1>2, <1>3, <1>4, <1>5, <1>6

\* Reserving adds the request's turns to the reservations, none ordered.
LEMMA ReserveEffect ==
    ASSUME Types, RpcShape, JobShape, NEW r \in Rpcs, Reserve(r)
    PROVE  \E A : /\ IsFiniteSet(A) /\ Cardinality(A) = rpc[r].delta
                 /\ A \cap Reservations = {} /\ A \cap Unordered = {}
                 /\ Reservations' = Reservations \cup A /\ Unordered' = Unordered \cup A
  <1> USE DEF Types
  <1> DEFINE A == {s \in Slots : s[1] = r /\ s[2] > 0 /\ s[2] <= rpc[r].delta}
  <1>f. /\ \A t \in Slots : t[1] \in Rpcs /\ t[2] \in 1..MaxDelta /\ t = <<t[1], t[2]>>
        /\ \A q \in Rpcs : /\ rpc[q].delta \in 0..MaxDelta
                          /\ rpc[q].remaining \in 0..rpc[q].delta
    BY SlotFacts
  <1>1. IsFiniteSet(A) /\ Cardinality(A) = rpc[r].delta
    <2>1. rpc[r].delta \in Nat /\ rpc[r].delta <= MaxDelta
      BY <1>f, SizeAssumption
    <2>2. IsFiniteSet(A) /\ Cardinality(A) = rpc[r].delta - 0
      BY <2>1, TurnsCount
    <2> QED
      BY <2>1, <2>2
  <1>2. /\ rpc[r].pc = "reserve" /\ rpc'[r].pc = "loop" /\ job' = job
        /\ rpc'[r].delta = rpc[r].delta /\ rpc'[r].remaining = rpc[r].delta
        /\ \A q \in Rpcs \ {r} : rpc'[q] = rpc[q]
    BY DEF Reserve
  <1>3. \A t \in Slots : t[1] = r => job[t].pc = "none"
    BY <1>f, <1>2 DEF RpcShape
  <1>4. A \cap Reservations = {} /\ A \cap Unordered = {}
    BY <1>2, <1>3 DEF Reservations, Unordered, Held, Detached, InLoop
  <1>5. \A t \in Slots : t \in Reservations' <=> t \in Reservations \/ t \in A
    BY <1>f, <1>2, <1>3 DEF Reservations, Held, Detached, InLoop
  <1>6. Reservations' = Reservations \cup A
    BY <1>5 DEF Reservations
  <1>7. Unordered' = Unordered \cup A
    BY <1>2, <1>3, <1>6 DEF Unordered
  <1> QED
    BY <1>1, <1>4, <1>6, <1>7

\* Returning takes the turns the loop did not reach out of the reservations.
LEMMA ReturnEffect ==
    ASSUME Types, RpcShape, JobShape, NEW r \in Rpcs, Return(r)
    PROVE  /\ Held(r) \subseteq Reservations
           /\ IsFiniteSet(Held(r)) /\ Cardinality(Held(r)) = rpc[r].remaining
           /\ Reservations' = Reservations \ Held(r)
           /\ Unordered' \subseteq Unordered
           /\ \A s \in Held(r) : job[s].pc = "none"
  <1> USE DEF Types
  <1>f. /\ \A t \in Slots : t[1] \in Rpcs /\ t[2] \in 1..MaxDelta /\ t = <<t[1], t[2]>>
        /\ \A q \in Rpcs : /\ rpc[q].delta \in 0..MaxDelta
                          /\ rpc[q].remaining \in 0..rpc[q].delta
    BY SlotFacts
  <1>0. Held(r) \subseteq Slots
    BY DEF Held
  <1>1. /\ rpc[r].pc \in {"unwind", "loop"} /\ rpc'[r].pc = "idle" /\ job' = job
        /\ \A q \in Rpcs \ {r} : rpc'[q] = rpc[q]
    BY DEF Return, IdleRpc
  <1>2. IsFiniteSet(Held(r)) /\ Cardinality(Held(r)) = rpc[r].remaining
    <2> DEFINE a == rpc[r].delta - rpc[r].remaining
               b == rpc[r].delta
    <2>1. a \in Nat /\ b \in Nat /\ a <= b /\ b <= MaxDelta /\ b - a = rpc[r].remaining
      BY <1>f, SizeAssumption
    <2>2. Held(r) = {s \in Slots : s[1] = r /\ s[2] > a /\ s[2] <= b}
      BY <1>1 DEF Held, InLoop
    <2> HIDE DEF a, b
    <2>3. IsFiniteSet(Held(r)) /\ Cardinality(Held(r)) = b - a
      BY <2>1, <2>2, TurnsCount
    <2> QED
      BY <2>1, <2>3
  <1>3. \A s \in Held(r) : job[s].pc = "none"
    <2> SUFFICES ASSUME NEW s \in Held(r), job[s].pc # "none" PROVE FALSE
      OBVIOUS
    <2>1. s \in Slots /\ s[1] = r /\ InLoop(r) /\ s[2] > rpc[r].delta - rpc[r].remaining
      BY DEF Held
    <2>2. job[s].mode # "inline"
      BY <1>1, <2>1 DEF JobShape
    <2>3. job[s].mode # "detached"
      BY <1>f, <2>1 DEF JobShape
    <2> QED
      BY <2>1, <2>2, <2>3 DEF Jobs
  <1>4. Held(r) \subseteq Reservations
    BY DEF Reservations, Held
  <1>5. \A t \in Slots : t \in Reservations' <=> t \in Reservations /\ t \notin Held(r)
    <2> SUFFICES ASSUME NEW t \in Slots
                 PROVE  t \in Reservations' <=> t \in Reservations /\ t \notin Held(r)
      OBVIOUS
    <2>1. CASE t[1] = r
      BY <1>1, <1>3, <2>1 DEF Reservations, Held, Detached, InLoop
    <2>2. CASE t[1] # r
      BY <1>1, <1>f, <2>2 DEF Reservations, Held, Detached, InLoop
    <2> QED
      BY <2>1, <2>2
  <1>6. Reservations' = Reservations \ Held(r)
    BY <1>0, <1>5 DEF Reservations
  <1>7. Unordered' \subseteq Unordered
    BY <1>1, <1>6 DEF Unordered
  <1> QED
    BY <1>2, <1>3, <1>4, <1>6, <1>7

\* What each step of a create does to the slots and to the machines.
LEMMA JobEffects ==
    ASSUME Types, RpcShape, JobShape, NEW s \in Slots
    PROVE  /\ OrderAccepted(s) =>
                /\ Reservations' = Reservations
                /\ s \in Unordered /\ Unordered' = Unordered \ {s}
                /\ Live' \subseteq Live \cup {job[s].name}
           /\ OrderRefused(s) =>
                Reservations' = Reservations /\ Unordered' \subseteq Unordered /\ Live' = Live
           /\ RolledBack(s) \/ OrderLeaked(s) =>
                Reservations' = Reservations /\ Unordered' \subseteq Unordered /\ Live' \subseteq Live
           /\ CreateEnds(s) =>
                /\ s \in Reservations /\ Reservations' = Reservations \ {s}
                /\ Unordered' \subseteq Unordered /\ Live' = Live
  <1> USE DEF Types
  <1>f. /\ \A t \in Slots : t[1] \in Rpcs /\ t[2] \in 1..MaxDelta /\ t = <<t[1], t[2]>>
        /\ \A q \in Rpcs : /\ rpc[q].delta \in 0..MaxDelta
                          /\ rpc[q].remaining \in 0..rpc[q].delta
    BY SlotFacts
  <1>p. job[s].pc # "none" => s \in Reservations
    BY ReservationFacts
  <1>1. ASSUME OrderAccepted(s)
        PROVE  /\ Reservations' = Reservations
               /\ s \in Unordered /\ Unordered' = Unordered \ {s}
               /\ Live' \subseteq Live \cup {job[s].name}
    <2>1. Reservations' = Reservations
      BY <1>1 DEF OrderAccepted, Reservations, Held, Detached, InLoop
    <2>2. s \in Unordered /\ Unordered' = Unordered \ {s}
      BY <1>1, <1>p, <2>1 DEF OrderAccepted, Unordered, Reservations
    <2>3. Live' \subseteq Live \cup {job[s].name}
      BY <1>1 DEF OrderAccepted, Live, Ordered, Cancelled
    <2> QED
      BY <2>1, <2>2, <2>3
  <1>2. ASSUME OrderRefused(s)
        PROVE  Reservations' = Reservations /\ Unordered' \subseteq Unordered /\ Live' = Live
    <2>1. Reservations' = Reservations
      BY <1>2 DEF OrderRefused, Reservations, Held, Detached, InLoop
    <2> QED
      BY <1>2, <2>1 DEF OrderRefused, Unordered, Reservations, Live, Ordered, Cancelled
  <1>3. ASSUME RolledBack(s) \/ OrderLeaked(s)
        PROVE  Reservations' = Reservations /\ Unordered' \subseteq Unordered /\ Live' \subseteq Live
    <2>0. job[s].pc = "ordered" /\ job' = [job EXCEPT ![s].pc = "failed"] /\ rpc' = rpc
      BY <1>3 DEF RolledBack, OrderLeaked
    <2>1. Reservations' = Reservations
      BY <2>0 DEF Reservations, Held, Detached, InLoop
    <2>2. Unordered' \subseteq Unordered
      BY <2>0, <2>1 DEF Unordered, Reservations
    <2>3. Live' \subseteq Live
      <3>1. CASE OrderLeaked(s)
        BY <3>1 DEF OrderLeaked, Live, Ordered, Cancelled
      <3>2. CASE RolledBack(s)
        <4>1. PICK form \in CancelForms :
                 inst' = [inst EXCEPT ![job[s].name].cancel = IF @ = "none" THEN form ELSE @]
          BY <3>2 DEF RolledBack
        <4>2. \A n \in Names : inst'[n].st = inst[n].st /\ (inst[n].cancel # "none" => inst'[n].cancel # "none")
          BY <4>1, EnvAssumption
        <4> QED
          BY <4>2 DEF Live, Ordered, Cancelled
      <3> QED
        BY <1>3, <3>1, <3>2
    <2> QED
      BY <2>1, <2>2, <2>3
  <1>4. ASSUME CreateEnds(s)
        PROVE  /\ s \in Reservations /\ Reservations' = Reservations \ {s}
               /\ Unordered' \subseteq Unordered /\ Live' = Live
    <2>0. /\ job[s].pc # "none" /\ job'[s].pc = "none" /\ job'[s].mode = "inline"
          /\ \A t \in Slots \ {s} : job'[t] = job[t]
      BY <1>4 DEF CreateEnds, NoJob
    <2>1. s \in Reservations
      BY <1>p, <2>0
    <2>2. \A t \in Slots : t \in Reservations' <=> t \in Reservations /\ t # s
      <3>1. CASE job[s].mode = "detached"
        <4>1. rpc' = rpc
          BY <1>4, <3>1 DEF CreateEnds
        <4>2. ~(InLoop(s[1]) /\ s[2] > rpc[s[1]].delta - rpc[s[1]].remaining)
          BY <1>f, <2>0, <3>1 DEF JobShape
        <4> QED
          BY <1>f, <2>0, <4>1, <4>2 DEF Reservations, Held, Detached, InLoop
      <3>2. CASE job[s].mode # "detached"
        <4>1. rpc[s[1]].pc = "creating" /\ s = Turn(s[1]) /\ rpc[s[1]].remaining > 0
          BY <1>f, <2>0, <3>2 DEF JobShape, RpcShape, Jobs
        <4>2. /\ rpc'[s[1]].pc \in {"unwind", "loop"}
              /\ rpc'[s[1]].delta = rpc[s[1]].delta
              /\ rpc'[s[1]].remaining = rpc[s[1]].remaining - 1
              /\ \A q \in Rpcs \ {s[1]} : rpc'[q] = rpc[q]
          BY <1>4, <1>f, <3>2 DEF CreateEnds
        <4>3. s[2] = rpc[s[1]].delta - rpc[s[1]].remaining + 1
          BY <4>1 DEF Turn
        <4> SUFFICES ASSUME NEW t \in Slots
                     PROVE  t \in Reservations' <=> t \in Reservations /\ t # s
          OBVIOUS
        <4>4. CASE t[1] = s[1]
          BY <1>f, <2>0, <4>1, <4>2, <4>3, <4>4, <3>2 DEF Reservations, Held, Detached, InLoop
        <4>5. CASE t[1] # s[1]
          BY <1>f, <2>0, <4>2, <4>5 DEF Reservations, Held, Detached, InLoop
        <4> QED
          BY <4>4, <4>5
      <3> QED
        BY <3>1, <3>2
    <2>3. Reservations' = Reservations \ {s}
      BY <2>2 DEF Reservations
    <2>4. Unordered' \subseteq Unordered
      BY <2>0, <2>3 DEF Unordered, Reservations
    <2>5. Live' = Live
      BY <1>4 DEF CreateEnds, Live, Ordered, Cancelled
    <2> QED
      BY <2>1, <2>3, <2>4, <2>5
  <1> QED
    BY <1>1, <1>2, <1>3, <1>4

\* Contabo and cancellations add no machine and touch no slot.
LEMMA ContaboEffects ==
    ASSUME Types, NEW n \in Names, ContaboStep(n)
    PROVE  /\ Reservations' = Reservations /\ Unordered' = Unordered
           /\ Live' \subseteq Live /\ Hidden' \subseteq Hidden
           /\ UNCHANGED <<inFlight, rpc, job, excuses>>
  <1> USE DEF Types
  <1>1. UNCHANGED <<inFlight, rpc, job, excuses>>
    BY DEF ContaboStep, Progress, Terminated, CancelledElsewhere
  <1>2. Live' \subseteq Live /\ Hidden' \subseteq Hidden
    <2>1. CASE Progress(n)
      BY <2>1 DEF Progress, Moves, Live, Hidden, Ordered, Cancelled
    <2>2. CASE Terminated(n)
      BY <2>2 DEF Terminated, Live, Hidden, Ordered, Cancelled
    <2>3. CASE CancelledElsewhere(n)
      <3>1. PICK form \in CancelForms : inst' = [inst EXCEPT ![n].cancel = form]
        BY <2>3 DEF CancelledElsewhere
      <3>2. form # "none"
        BY EnvAssumption
      <3> QED
        BY <3>1, <3>2 DEF Live, Hidden, Ordered, Cancelled
    <2> QED
      BY <2>1, <2>2, <2>3 DEF ContaboStep
  <1> QED
    BY <1>1, <1>2 DEF Reservations, Unordered, Held, Detached, InLoop

------------------------------------------------------------------------------
(* The inductive invariant                                                 *)

\* A subset of a finite set is finite and no larger.
LEMMA SmallerSet ==
    ASSUME NEW S, NEW T, IsFiniteSet(S), T \subseteq S
    PROVE  IsFiniteSet(T) /\ Cardinality(T) \in Nat /\ Cardinality(T) <= Cardinality(S)
  BY FS_Subset, FS_CardinalityType

\* The load does not grow when machines and unordered reservations only go.
LEMMA LoadShrinks ==
    ASSUME Live' \subseteq Live, Unordered' \subseteq Unordered
    PROVE  Load \in Nat /\ Load' \in Nat /\ Load' <= Load
  <1>1. Cardinality(Live') \in Nat /\ Cardinality(Live') <= Cardinality(Live)
    BY CountsFinite, SmallerSet
  <1>2. Cardinality(Unordered') \in Nat /\ Cardinality(Unordered') <= Cardinality(Unordered)
    BY CountsFinite, SmallerSet
  <1> QED
    BY <1>1, <1>2, CountsFinite DEF Load

\* An accepted order turns an unordered reservation into a machine.
LEMMA LoadMoves ==
    ASSUME NEW s \in Unordered, NEW n, Unordered' = Unordered \ {s}, Live' \subseteq Live \cup {n}
    PROVE  Load \in Nat /\ Load' \in Nat /\ Load' <= Load
  <1>1. Cardinality(Unordered') = Cardinality(Unordered) - 1
    BY CountsFinite, FS_RemoveElement
  <1>2. IsFiniteSet(Live \cup {n}) /\ Cardinality(Live \cup {n}) <= Cardinality(Live) + 1
    <2>1. /\ IsFiniteSet(Live \cup {n})
          /\ Cardinality(Live \cup {n}) =
               IF n \in Live THEN Cardinality(Live) ELSE Cardinality(Live) + 1
      BY CountsFinite, FS_AddElement, Zenon
    <2> QED
      BY <2>1, CountsFinite
  <1>3. Cardinality(Live') \in Nat /\ Cardinality(Live') <= Cardinality(Live \cup {n})
    BY <1>2, SmallerSet
  <1>4. Cardinality(Unordered) # 0
    BY CountsFinite, FS_EmptySet
  <1> QED
    BY <1>1, <1>2, <1>3, <1>4, CountsFinite, FS_CardinalityType DEF Load

\* A listing misses only hidden orders, each of which a reservation covers, so
\* the count taken from it plus inFlight bounds the load.
LEMMA ListingCovers ==
    ASSUME Types, ReservationsBalance, UnseenOrdersReserved, "unseen" \notin excuses
    PROVE  Load <= Cardinality(liveElasticInstances(ListByNamePrefix)) + inFlight
  <1> DEFINE L == liveElasticInstances(ListByNamePrefix)
             O == {s \in Reservations : job[s].pc = "ordered"}
  <1>1. IsFiniteSet(L) /\ Cardinality(L) \in Nat
    <2>1. L \in SUBSET Names
      BY DEF liveElasticInstances, ListByNamePrefix
    <2> QED
      BY <2>1, ListedFinite
  <1>2. IsFiniteSet(O) /\ Cardinality(O) \in Nat
    BY CountsFinite, SmallerSet
  <1>3. Cardinality(Hidden) <= Cardinality(O)
    <2> DEFINE D == {s \in O : job[s].name \in Hidden}
               f == [s \in D |-> job[s].name]
    <2>1. f \in Surjection(D, Hidden)
      <3>1. f \in [D -> Hidden]
        OBVIOUS
      <3>2. \A n \in Hidden : \E s \in D : f[s] = n
        BY DEF UnseenOrdersReserved
      <3> HIDE DEF f, D
      <3> QED
        BY <3>1, <3>2 DEF Surjection
    <2>2. IsFiniteSet(D) /\ Cardinality(D) \in Nat /\ Cardinality(D) <= Cardinality(O)
      BY <1>2, SmallerSet
    <2>3. Cardinality(Hidden) <= Cardinality(D)
      <3> HIDE DEF f, D
      <3> QED
        BY <2>1, <2>2, FS_Surjection
    <2> QED
      BY <1>2, <2>2, <2>3, CountsFinite
  <1>4. Cardinality(Live) <= Cardinality(L) + Cardinality(Hidden)
    <2>1. Live \subseteq L \cup Hidden
      BY DEF Types, Instances, Live, Hidden, Ordered, Cancelled, liveElasticInstances,
             ListByNamePrefix, Statuses
    <2>2. /\ IsFiniteSet(L \cup Hidden)
          /\ Cardinality(L \cup Hidden) =
               Cardinality(L) + Cardinality(Hidden) - Cardinality(L \cap Hidden)
      BY <1>1, CountsFinite, FS_Union
    <2>3. Cardinality(L \cap Hidden) \in Nat
      BY <1>1, SmallerSet
    <2>4. Cardinality(Live) <= Cardinality(L \cup Hidden)
      BY <2>1, <2>2, SmallerSet
    <2> HIDE DEF L
    <2> QED
      BY <1>1, <2>2, <2>3, <2>4, CountsFinite
  <1>5. Cardinality(Unordered) + Cardinality(O) <= Cardinality(Reservations)
    <2>1. Unordered \cap O = {} /\ Unordered \cup O \subseteq Reservations
      BY DEF Unordered
    <2>2. Cardinality(Unordered \cup O) = Cardinality(Unordered) + Cardinality(O) - 0
      <3>1. IsFiniteSet(Unordered) /\ IsFiniteSet(O)
        BY <1>2, CountsFinite
      <3>2. Cardinality(Unordered \cup O) =
              Cardinality(Unordered) + Cardinality(O) - Cardinality(Unordered \cap O)
        <4> HIDE DEF O
        <4> QED
          BY <3>1, FS_Union
      <3>3. Cardinality(Unordered \cap O) = 0
        BY <2>1, FS_EmptySet
      <3> QED
        BY <3>2, <3>3
    <2>3. Cardinality(Unordered \cup O) <= Cardinality(Reservations)
      BY <2>1, CountsFinite, SmallerSet
    <2> HIDE DEF O
    <2> QED
      BY <1>2, <2>2, <2>3, CountsFinite
  <1> HIDE DEF L, O
  <1> QED
    BY <1>1, <1>2, <1>3, <1>4, <1>5, CountsFinite DEF Load, ReservationsBalance, L

\* IInv holds initially.
LEMMA InitIInv == Init => IInv
  <1> SUFFICES ASSUME Init PROVE IInv
    OBVIOUS
  <1>1. TypeOK
    BY IdleTypes DEF Init, TypeOK, Instances
  <1>2. RpcShape /\ JobShape
    <2>1. \A s \in Slots : s[1] \in Rpcs
      BY DEF Slots
    <2>2. \A q \in Rpcs, k \in 1..MaxDelta : <<q, k>> \in Slots
      BY DEF Slots
    <2> QED
      BY <2>1, <2>2 DEF Init, IdleRpc, NoJob, RpcShape, JobShape
  <1>3. Reservations = {} /\ Unordered = {}
    <2>1. \A s \in Slots : s[1] \in Rpcs
      BY DEF Slots
    <2> QED
      BY <2>1 DEF Init, IdleRpc, NoJob, Reservations, Unordered, Held, Detached, InLoop
  <1>4. Live = {} /\ Hidden = {}
    BY DEF Init, Live, Hidden, Ordered
  <1>5. Load = 0 /\ Load <= MaxSize
    BY <1>3, <1>4, FS_EmptySet, SizeAssumption DEF Load
  <1>6. WindowSound
    BY DEF Init, IdleRpc, WindowSound, InWindow
  <1>7. ReservationsBalance /\ UnseenOrdersReserved
    BY <1>3, <1>4, FS_EmptySet DEF Init, ReservationsBalance, UnseenOrdersReserved
  <1> QED
    BY <1>1, <1>2, <1>5, <1>6, <1>7 DEF IInv

\* The size of the union of two disjoint finite sets.
LEMMA DisjointUnion ==
    ASSUME NEW S, NEW T, IsFiniteSet(S), IsFiniteSet(T), T \cap S = {}
    PROVE  Cardinality(S \cup T) = Cardinality(S) + Cardinality(T)
  <1>1. S \cap T = {}
    OBVIOUS
  <1>2. Cardinality(S \cap T) = 0
    BY <1>1, FS_EmptySet
  <1>3. Cardinality(S \cup T) = Cardinality(S) + Cardinality(T) - Cardinality(S \cap T)
    BY FS_Union
  <1>4. Cardinality(S) \in Nat /\ Cardinality(T) \in Nat
    BY FS_CardinalityType
  <1> QED
    BY <1>2, <1>3, <1>4

\* The part of IInv that counts machines and reservations.
Counted ==
    /\ inFlight \in Nat
    /\ ReservationsBalance
    /\ UnseenOrdersReserved
    /\ excuses = {} => Load <= MaxSize /\ WindowSound

\* The requests' steps keep the counts.
LEMMA RpcCounts ==
    ASSUME Types, RpcShape, JobShape, Counted, NEW r \in Rpcs, RpcStep(r)
    PROVE  Counted'
  <1> USE DEF Types
  <1>f. /\ \A t \in Slots : t[1] \in Rpcs /\ t[2] \in 1..MaxDelta /\ t = <<t[1], t[2]>>
        /\ \A q \in Rpcs : /\ rpc[q].delta \in 0..MaxDelta /\ rpc[q].cur \in Nat
                          /\ rpc[q].remaining \in 0..rpc[q].delta
    BY SlotFacts DEF RpcLocals
  <1>i. inFlight \in Nat
    BY DEF Counted
  <1>1. CASE \/ IncreaseSize(r) \/ ListForIncrease(r) \/ ListForIncreaseFails(r)
             \/ CheckCap(r) \/ PrepareFails(r) \/ StartCreate(r)
    <2>1. /\ Reservations' = Reservations /\ Unordered' = Unordered
          /\ inst' = inst /\ inFlight' = inFlight /\ excuses' = excuses
      BY <1>1, QuietRpcSteps
    <2>2. Live' = Live /\ Hidden' = Hidden
      BY <2>1 DEF Live, Hidden, Ordered, Cancelled
    <2>3. Load' = Load
      BY <2>1, <2>2 DEF Load
    <2>4. UnseenOrdersReserved'
      <3>1. \A s \in Slots : job[s].pc = "ordered" => job'[s] = job[s]
        <4>1. CASE StartCreate(r)
          <5>1. PICK v : job' = [job EXCEPT ![Turn(r)] = v]
            BY <4>1 DEF StartCreate
          <5>2. Turn(r) \in Slots /\ Turn(r)[1] = r
                /\ Turn(r)[2] = rpc[r].delta - rpc[r].remaining + 1 /\ rpc[r].pc = "loop"
            BY <4>1, SlotFacts DEF StartCreate, Turn
          <5>3. job[Turn(r)].pc = "none"
            <6>1. job[Turn(r)].mode = "inline" => job[Turn(r)].pc = "none"
              BY <5>2 DEF JobShape
            <6>2. job[Turn(r)].mode = "detached" => job[Turn(r)].pc = "none"
              BY <5>2, <1>f DEF JobShape, InLoop
            <6> QED
              BY <5>2, <6>1, <6>2 DEF Jobs
          <5> QED
            BY <5>1, <5>3
        <4>2. CASE ~StartCreate(r)
          BY <1>1, <4>2 DEF IncreaseSize, ListForIncrease, ListForIncreaseFails, CheckCap, PrepareFails
        <4> QED
          BY <4>1, <4>2
      <3>2. UnseenOrdersReserved
        BY DEF Counted
      <3> QED
        BY <2>1, <2>2, <3>1, <3>2 DEF UnseenOrdersReserved, Reservations
    <2>5. ASSUME excuses = {} PROVE WindowSound'
      <3>0. WindowSound /\ Load <= MaxSize
        BY <2>5 DEF Counted
      <3>1. \A q \in Rpcs \ {r} : rpc'[q] = rpc[q]
        BY <1>1 DEF IncreaseSize, ListForIncrease, ListForIncreaseFails, CheckCap,
                    PrepareFails, StartCreate
      <3>2. \A q \in Rpcs \ {r} :
               /\ InWindow(q)' => Load' <= rpc'[q].cur + inFlight'
               /\ rpc'[q].pc = "reserve" => rpc'[q].cur + inFlight' + rpc'[q].delta <= MaxSize
        BY <2>1, <2>3, <3>0, <3>1 DEF WindowSound, InWindow
      <3>3. /\ InWindow(r)' => Load' <= rpc'[r].cur + inFlight'
            /\ rpc'[r].pc = "reserve" => rpc'[r].cur + inFlight' + rpc'[r].delta <= MaxSize
        <4>1. CASE ListForIncrease(r)
          <5>1. Load <= Cardinality(liveElasticInstances(ListByNamePrefix)) + inFlight
            BY <2>5, ListingCovers DEF Counted
          <5>2. \/ rpc'[r].pc = "idle"
                \/ /\ rpc'[r].pc = "check"
                   /\ rpc'[r].cur = Cardinality(liveElasticInstances(ListByNamePrefix))
            BY <4>1 DEF ListForIncrease, IdleRpc
          <5> QED
            BY <2>1, <2>3, <5>1, <5>2 DEF InWindow
        <4>2. CASE CheckCap(r)
          <5>1. \/ rpc'[r].pc = "idle"
                \/ /\ rpc[r].pc = "check" /\ rpc'[r].pc = "reserve"
                   /\ rpc'[r].cur = rpc[r].cur /\ rpc'[r].delta = rpc[r].delta
                   /\ ~(rpc[r].cur + inFlight + rpc[r].delta > MaxSize)
            BY <4>2 DEF CheckCap, IdleRpc
          <5> QED
            BY <2>1, <2>3, <3>0, <5>1, <1>f, <1>i, SizeAssumption DEF WindowSound, InWindow
        <4>3. CASE IncreaseSize(r) \/ ListForIncreaseFails(r) \/ PrepareFails(r) \/ StartCreate(r)
          <5>1. CASE IncreaseSize(r)
            BY <5>1 DEF IncreaseSize, IdleRpc, InWindow
          <5>2. CASE ListForIncreaseFails(r)
            BY <5>2 DEF ListForIncreaseFails, IdleRpc, InWindow
          <5>3. CASE PrepareFails(r)
            BY <5>3 DEF PrepareFails, InWindow
          <5>4. CASE StartCreate(r)
            <6>1. rpc'[r].pc \in {"loop", "creating"}
              BY <5>4 DEF StartCreate
            <6> QED
              BY <6>1 DEF InWindow
          <5> QED
            BY <4>3, <5>1, <5>2, <5>3, <5>4
        <4> QED
          BY <1>1, <4>1, <4>2, <4>3
      <3> QED
        BY <3>2, <3>3 DEF WindowSound
    <2> QED
      BY <2>1, <2>3, <2>4, <2>5, <1>i DEF Counted, ReservationsBalance
  <1>2. CASE Reserve(r)
    <2>1. PICK A : /\ IsFiniteSet(A) /\ Cardinality(A) = rpc[r].delta
                   /\ A \cap Reservations = {} /\ A \cap Unordered = {}
                   /\ Reservations' = Reservations \cup A /\ Unordered' = Unordered \cup A
      BY <1>2, ReserveEffect
    <2>2. /\ inFlight' = inFlight + rpc[r].delta /\ inst' = inst /\ job' = job
          /\ excuses \subseteq excuses' /\ rpc[r].pc = "reserve" /\ rpc'[r].pc = "loop"
          /\ \A q \in Rpcs \ {r} : rpc'[q] = rpc[q]
          /\ excuses' = {} => ~OtherInWindow(r)
      BY <1>2 DEF Reserve, Excuse
    <2>3. Live' = Live /\ Hidden' = Hidden
      BY <2>2 DEF Live, Hidden, Ordered, Cancelled
    <2>4. Cardinality(Reservations') = Cardinality(Reservations) + rpc[r].delta
      <3>1. Cardinality(Reservations \cup A) = Cardinality(Reservations) + Cardinality(A)
        BY <2>1, CountsFinite, DisjointUnion
      <3> QED
        BY <2>1, <3>1
    <2>5. Cardinality(Unordered') = Cardinality(Unordered) + rpc[r].delta
      <3>1. Cardinality(Unordered \cup A) = Cardinality(Unordered) + Cardinality(A)
        BY <2>1, CountsFinite, DisjointUnion
      <3> QED
        BY <2>1, <3>1
    <2>6. inFlight' \in Nat /\ ReservationsBalance'
      BY <2>2, <2>4, <1>i, <1>f DEF Counted, ReservationsBalance
    <2>7. UnseenOrdersReserved'
      BY <2>1, <2>2, <2>3 DEF Counted, UnseenOrdersReserved
    <2>8. ASSUME excuses' = {} PROVE Load' <= MaxSize /\ WindowSound'
      <3>1. WindowSound
        BY <2>2, <2>8 DEF Counted
      <3>2. Load' = Load + rpc[r].delta /\ Load \in Nat
        BY <2>3, <2>5, <1>f, CountsFinite DEF Load
      <3>3. Load <= rpc[r].cur + inFlight /\ rpc[r].cur + inFlight + rpc[r].delta <= MaxSize
        BY <2>2, <3>1 DEF WindowSound, InWindow
      <3>4. Load' <= MaxSize
        BY <3>2, <3>3, <1>f, <1>i, SizeAssumption
      <3>5. \A q \in Rpcs : ~InWindow(q)'
        BY <2>2, <2>8 DEF OtherInWindow, InWindow
      <3> QED
        BY <3>4, <3>5 DEF WindowSound, InWindow
    <2> QED
      BY <2>6, <2>7, <2>8 DEF Counted
  <1>3. CASE Return(r)
    <2>1. /\ Held(r) \subseteq Reservations
          /\ IsFiniteSet(Held(r)) /\ Cardinality(Held(r)) = rpc[r].remaining
          /\ Reservations' = Reservations \ Held(r)
          /\ Unordered' \subseteq Unordered
          /\ \A s \in Held(r) : job[s].pc = "none"
      BY <1>3, ReturnEffect
    <2>2. /\ inFlight' = inFlight - rpc[r].remaining /\ inst' = inst /\ job' = job
          /\ excuses \subseteq excuses' /\ rpc'[r].pc = "idle"
          /\ \A q \in Rpcs \ {r} : rpc'[q] = rpc[q]
          /\ excuses' = {} /\ rpc[r].remaining > 0 => ~OtherInWindow(r)
      BY <1>3 DEF Return, IdleRpc, Excuse
    <2>3. Live' = Live /\ Hidden' = Hidden
      BY <2>2 DEF Live, Hidden, Ordered, Cancelled
    <2>4. /\ Cardinality(Reservations') = Cardinality(Reservations) - rpc[r].remaining
          /\ Cardinality(Reservations') \in Nat
      <3>1. Reservations \cap Held(r) = Held(r)
        BY <2>1
      <3>2. /\ IsFiniteSet(Reservations \ Held(r))
            /\ Cardinality(Reservations \ Held(r)) =
                 Cardinality(Reservations) - Cardinality(Reservations \cap Held(r))
        BY CountsFinite, FS_Difference
      <3> QED
        BY <2>1, <3>1, <3>2, FS_CardinalityType
    <2>5. inFlight' \in Nat /\ ReservationsBalance'
      BY <2>2, <2>4 DEF Counted, ReservationsBalance
    <2>6. UnseenOrdersReserved'
      BY <2>1, <2>2, <2>3 DEF Counted, UnseenOrdersReserved
    <2>7. ASSUME excuses' = {} PROVE Load' <= MaxSize /\ WindowSound'
      <3>1. WindowSound /\ Load <= MaxSize
        BY <2>2, <2>7 DEF Counted
      <3>2. Load \in Nat /\ Load' \in Nat /\ Load' <= Load
        BY <2>1, <2>3, LoadShrinks
      <3>3. \A q \in Rpcs : InWindow(q)' =>
               q # r /\ InWindow(q) /\ rpc'[q] = rpc[q] /\ inFlight' = inFlight
        BY <2>2, <2>7, <1>f, <1>i DEF OtherInWindow, InWindow
      <3> QED
        BY <3>1, <3>2, <3>3, <1>f, <1>i, SizeAssumption DEF WindowSound, InWindow
    <2> QED
      BY <2>5, <2>6, <2>7 DEF Counted
  <1> QED
    BY <1>1, <1>2, <1>3 DEF RpcStep

\* The steps of a create keep the counts.
LEMMA JobCounts ==
    ASSUME Types, RpcShape, JobShape, Counted, NEW s \in Slots, JobStep(s)
    PROVE  Counted'
  <1> USE DEF Types
  <1>j. job[s] \in Jobs /\ s[1] \in Rpcs
    BY SlotFacts
  <1>u. UnseenOrdersReserved /\ ReservationsBalance /\ inFlight \in Nat
    BY DEF Counted
  <1>1. CASE OrderAccepted(s) \/ OrderRefused(s) \/ RolledBack(s) \/ OrderLeaked(s)
    <2>1. /\ inFlight' = inFlight /\ rpc' = rpc /\ excuses \subseteq excuses'
          /\ Reservations' = Reservations
          /\ \A t \in Slots \ {s} : job'[t] = job[t]
      BY <1>1, JobEffects DEF OrderAccepted, OrderRefused, RolledBack, OrderLeaked
    <2>2. Load \in Nat /\ Load' \in Nat /\ Load' <= Load
      <3>1. CASE OrderAccepted(s)
        BY <3>1, JobEffects, LoadMoves
      <3>2. CASE OrderRefused(s) \/ RolledBack(s) \/ OrderLeaked(s)
        <4>1. Live' \subseteq Live /\ Unordered' \subseteq Unordered
          BY <3>2, JobEffects
        <4> QED
          BY <4>1, LoadShrinks
      <3> QED
        BY <1>1, <3>1, <3>2
    <2>3. ASSUME "unseen" \notin excuses', NEW n \in Hidden'
          PROVE  \E t \in Reservations' : job'[t].pc = "ordered" /\ job'[t].name = n
      <3>1. n \in Hidden => \E t \in Reservations : job[t].pc = "ordered" /\ job[t].name = n
        BY <1>u, <2>1, <2>3 DEF UnseenOrdersReserved
      <3>2. CASE OrderAccepted(s)
        <4>1. /\ job'[s].pc = "ordered" /\ job'[s].name = job[s].name
              /\ s \in Reservations /\ job[s].pc = "posting"
          BY <1>j, <3>2, JobEffects DEF OrderAccepted, Unordered, Jobs
        <4>2. n \in Hidden \/ n = job[s].name
          BY <3>2 DEF OrderAccepted, Hidden, Live, Ordered, Cancelled
        <4>3. CASE n = job[s].name
          BY <2>1, <4>1, <4>3
        <4>4. CASE n \in Hidden
          <5>1. PICK t \in Reservations : job[t].pc = "ordered" /\ job[t].name = n
            BY <3>1, <4>4
          <5>2. t \in Slots \ {s}
            BY <4>1, <5>1 DEF Reservations
          <5> QED
            BY <2>1, <5>1, <5>2
        <4> QED
          BY <4>2, <4>3, <4>4
      <3>3. CASE OrderRefused(s) \/ RolledBack(s) \/ OrderLeaked(s)
        <4>1. n \in Hidden /\ ~(job[s].pc = "ordered" /\ job[s].name = n)
          <5>1. CASE OrderRefused(s)
            BY <5>1 DEF OrderRefused, Hidden, Live, Ordered, Cancelled
          <5>2. CASE RolledBack(s)
            <6>1. PICK form \in CancelForms :
                     inst' = [inst EXCEPT ![job[s].name].cancel = IF @ = "none" THEN form ELSE @]
              BY <5>2 DEF RolledBack
            <6>2. form # "none"
              BY EnvAssumption
            <6>3. job[s].name \in Names
              BY <5>2 DEF RolledBack, JobShape
            <6> QED
              BY <6>1, <6>2, <6>3 DEF Hidden, Live, Ordered, Cancelled
          <5>3. CASE OrderLeaked(s)
            BY <2>3, <5>3 DEF OrderLeaked, Excuse, Hidden, Live, Ordered, Cancelled
          <5> QED
            BY <3>3, <5>1, <5>2, <5>3
        <4>2. PICK t \in Reservations : job[t].pc = "ordered" /\ job[t].name = n
          BY <3>1, <4>1
        <4>3. t \in Slots \ {s}
          BY <4>1, <4>2 DEF Reservations
        <4> QED
          BY <2>1, <4>2, <4>3
      <3> QED
        BY <1>1, <3>2, <3>3
    <2>4. UnseenOrdersReserved'
      BY <2>3 DEF UnseenOrdersReserved
    <2>5. ASSUME excuses' = {} PROVE Load' <= MaxSize /\ WindowSound'
      <3>1. WindowSound /\ Load <= MaxSize
        BY <2>1, <2>5 DEF Counted
      <3>2. \A q \in Rpcs : rpc[q].cur \in Nat
        BY DEF RpcLocals
      <3> QED
        BY <2>1, <2>2, <3>1, <3>2, <1>u, SizeAssumption DEF WindowSound, InWindow
    <2> QED
      BY <1>u, <2>1, <2>4, <2>5 DEF Counted, ReservationsBalance
  <1>2. CASE CreateEnds(s)
    <2>1. /\ s \in Reservations /\ Reservations' = Reservations \ {s}
          /\ Unordered' \subseteq Unordered /\ Live' = Live
      BY <1>2, JobEffects
    <2>2. /\ inFlight' = inFlight - 1 /\ inst' = inst /\ excuses \subseteq excuses'
          /\ \A t \in Slots \ {s} : job'[t] = job[t]
          /\ excuses' = {} => \A q \in Rpcs : ~InWindow(q)
      BY <1>2 DEF CreateEnds, Excuse
    <2>3. Cardinality(Reservations') = Cardinality(Reservations) - 1
      BY <2>1, CountsFinite, FS_RemoveElement
    <2>4. Cardinality(Reservations) # 0
      BY <2>1, CountsFinite, FS_EmptySet
    <2>5. inFlight' \in Nat /\ ReservationsBalance'
      BY <1>u, <2>2, <2>3, <2>4, CountsFinite DEF ReservationsBalance
    <2>6. UnseenOrdersReserved'
      <3>1. Hidden' = Hidden
        BY <2>2 DEF Hidden, Live, Ordered, Cancelled
      <3>2. ASSUME "unseen" \notin excuses', NEW n \in Hidden
            PROVE  \E t \in Reservations' : job'[t].pc = "ordered" /\ job'[t].name = n
        <4>1. PICK t \in Reservations : job[t].pc = "ordered" /\ job[t].name = n
          BY <1>u, <2>2, <3>2 DEF UnseenOrdersReserved
        <4>2. t # s
          BY <1>2, <3>2, <4>1 DEF CreateEnds, Hidden
        <4> QED
          BY <2>1, <2>2, <4>1, <4>2 DEF Reservations
      <3> QED
        BY <3>1, <3>2 DEF UnseenOrdersReserved
    <2>7. ASSUME excuses' = {} PROVE Load' <= MaxSize /\ WindowSound'
      <3>1. Load <= MaxSize
        BY <2>2, <2>7 DEF Counted
      <3>2. Load \in Nat /\ Load' \in Nat /\ Load' <= Load
        BY <2>1, LoadShrinks
      <3>3. \A q \in Rpcs : ~InWindow(q)'
        <4>1. CASE job[s].mode = "detached"
          BY <1>2, <2>2, <2>7, <4>1 DEF CreateEnds, InWindow
        <4>2. CASE job[s].mode # "detached"
          <5>1. rpc'[s[1]].pc \in {"unwind", "loop"}
            BY <1>j, <1>2, <4>2 DEF CreateEnds
          <5>2. \A q \in Rpcs \ {s[1]} : rpc'[q] = rpc[q]
            BY <1>2, <4>2 DEF CreateEnds
          <5> QED
            BY <2>2, <2>7, <5>1, <5>2 DEF InWindow
        <4> QED
          BY <4>1, <4>2
      <3> QED
        BY <3>1, <3>2, <3>3, SizeAssumption DEF WindowSound, InWindow
    <2> QED
      BY <2>5, <2>6, <2>7 DEF Counted
  <1> QED
    BY <1>1, <1>2 DEF JobStep

\* Contabo, cancellations and a restart keep the counts.
LEMMA EnvCounts ==
    ASSUME Types, Counted, (\E n \in Names : ContaboStep(n)) \/ Restart
    PROVE  Counted'
  <1> USE DEF Types
  <1>u. UnseenOrdersReserved /\ ReservationsBalance /\ inFlight \in Nat
    BY DEF Counted
  <1>1. CASE \E n \in Names : ContaboStep(n)
    <2>1. PICK n \in Names : ContaboStep(n)
      BY <1>1
    <2>2. /\ Reservations' = Reservations /\ Unordered' = Unordered
          /\ Live' \subseteq Live /\ Hidden' \subseteq Hidden
          /\ inFlight' = inFlight /\ rpc' = rpc /\ job' = job /\ excuses' = excuses
      BY <2>1, ContaboEffects
    <2>3. Load \in Nat /\ Load' \in Nat /\ Load' <= Load
      BY <2>2, LoadShrinks
    <2>4. UnseenOrdersReserved' /\ ReservationsBalance' /\ inFlight' \in Nat
      BY <1>u, <2>2 DEF UnseenOrdersReserved, ReservationsBalance
    <2>5. ASSUME excuses' = {} PROVE Load' <= MaxSize /\ WindowSound'
      <3>1. WindowSound /\ Load <= MaxSize
        BY <2>2, <2>5 DEF Counted
      <3>2. \A q \in Rpcs : rpc[q].cur \in Nat
        BY DEF RpcLocals
      <3> QED
        BY <2>2, <2>3, <3>1, <3>2, <1>u, SizeAssumption DEF WindowSound, InWindow
    <2> QED
      BY <2>4, <2>5 DEF Counted
  <1>2. CASE Restart
    <2>1. \A t \in Slots : t[1] \in Rpcs
      BY DEF Slots
    <2>2. Reservations' = {} /\ Unordered' = {}
      BY <1>2, <2>1 DEF Restart, IdleRpc, NoJob, Reservations, Unordered, Held, Detached, InLoop
    <2>3. Live' = Live /\ Hidden' = Hidden /\ excuses \subseteq excuses' /\ inFlight' = 0
      BY <1>2 DEF Restart, Live, Hidden, Ordered, Cancelled
    <2>4. ReservationsBalance' /\ inFlight' \in Nat
      BY <2>2, <2>3, FS_EmptySet DEF ReservationsBalance
    <2>5. UnseenOrdersReserved'
      BY <1>2, <2>3 DEF Restart, Excuse, UnseenOrdersReserved
    <2>6. ASSUME excuses' = {} PROVE Load' <= MaxSize /\ WindowSound'
      <3>1. Load <= MaxSize
        BY <2>3, <2>6 DEF Counted
      <3>2. Load \in Nat /\ Load' \in Nat /\ Load' <= Load
        BY <2>2, <2>3, LoadShrinks
      <3>3. \A q \in Rpcs : ~InWindow(q)' /\ rpc'[q].pc # "reserve"
        BY <1>2 DEF Restart, IdleRpc, InWindow
      <3> QED
        BY <3>1, <3>2, <3>3, SizeAssumption DEF WindowSound
    <2> QED
      BY <2>4, <2>5, <2>6 DEF Counted
  <1> QED
    BY <1>1, <1>2

\* Every step keeps IInv.
LEMMA NextIInv == IInv /\ [Next]_vars => IInv'
  <1> SUFFICES ASSUME IInv, [Next]_vars PROVE IInv'
    OBVIOUS
  <1>0. Types /\ RpcShape /\ JobShape /\ Counted
    BY DEF IInv, TypeOK, Types, Counted
  <1>1. inFlight \in Nat
    BY <1>0 DEF Counted
  <1>2. CASE UNCHANGED vars
    BY <1>2, SMTT(20) DEF vars, IInv, TypeOK, RpcShape, JobShape, ReservationsBalance,
                UnseenOrdersReserved, Load, WindowSound, InWindow, InLoop, Turn,
                Reservations, Unordered, Held, Detached, Live, Hidden, Ordered, Cancelled
  <1>3. CASE Next
    <2>1. Types' /\ RpcShape' /\ JobShape' /\ Counted'
      <3>1. ASSUME NEW r \in Rpcs, RpcStep(r)
            PROVE  Types' /\ RpcShape' /\ JobShape' /\ Counted'
        BY <1>0, <1>1, <3>1, RpcTypes, RpcShapes, RpcCounts
      <3>2. ASSUME NEW s \in Slots, JobStep(s)
            PROVE  Types' /\ RpcShape' /\ JobShape' /\ Counted'
        BY <1>0, <3>2, JobTypes, JobShapes, JobCounts
      <3>3. ASSUME (\E n \in Names : ContaboStep(n)) \/ Restart
            PROVE  Types' /\ RpcShape' /\ JobShape' /\ Counted'
        BY <1>0, <3>3, EnvTypes, EnvShapes, EnvCounts
      <3> QED
        BY <1>3, <3>1, <3>2, <3>3 DEF Next
    <2> QED
      BY <2>1 DEF Types, Counted, IInv, TypeOK
  <1> QED
    BY <1>2, <1>3

------------------------------------------------------------------------------
(* Guard 2                                                                 *)

\* The orders a request found unpaid on its arrival stay in Contabo's books: paid,
\* unpaid or terminated, but never unordered or hidden again.
Remembered ==
    \A r \in Rpcs : \A n \in rpc[r].unpaid : inst[n].st \in {"pending_payment", "paid", "gone"}

\* No step of a request brings it past its listing with an unpaid order.
LEMMA RpcRatchet ==
    ASSUME Types, Remembered, NoRatchet, NEW r \in Rpcs, RpcStep(r)
    PROVE  Remembered' /\ NoRatchet'
  <1> USE DEF Types
  <1>1. inst' = inst /\ \A q \in Rpcs \ {r} : rpc'[q] = rpc[q]
    BY DEF RpcStep, IncreaseSize, ListForIncrease, ListForIncreaseFails, CheckCap, Reserve,
           StartCreate, PrepareFails, Return
  <1>2. /\ \A n \in rpc'[r].unpaid : inst[n].st \in {"pending_payment", "paid", "gone"}
        /\ rpc'[r].pc \in {"check", "reserve"} =>
              \A n \in rpc'[r].unpaid : inst[n].st # "pending_payment"
    <2>0. rpc[r] \in RpcLocals
      OBVIOUS
    <2>1. CASE IncreaseSize(r)
      <3>1. rpc'[r].pc = "list" /\ rpc'[r].unpaid = pendingPaymentInstances(ListByNamePrefix)
        BY <2>1 DEF IncreaseSize, IdleRpc
      <3> QED
        BY <3>1 DEF pendingPaymentInstances, isPendingPayment
    <2>2. CASE ListForIncrease(r)
      <3>1. CASE pendingPaymentInstances(ListByNamePrefix) # {}
        BY <2>2, <3>1 DEF ListForIncrease, IdleRpc
      <3>2. CASE pendingPaymentInstances(ListByNamePrefix) = {}
        <4>1. \A n \in Names : inst[n].st # "pending_payment"
          BY <3>2 DEF pendingPaymentInstances, isPendingPayment, ListByNamePrefix, Statuses
        <4>2. rpc'[r].unpaid = rpc[r].unpaid
          BY <2>0, <2>2, <3>2 DEF ListForIncrease, RpcLocals
        <4> QED
          BY <2>0, <4>1, <4>2 DEF Remembered, RpcLocals
      <3> QED
        BY <3>1, <3>2
    <2>3. CASE ListForIncreaseFails(r) \/ Return(r)
      BY <2>3 DEF ListForIncreaseFails, Return, IdleRpc
    <2>4. CASE CheckCap(r)
      <3>1. \/ rpc'[r] = IdleRpc
            \/ rpc[r].pc = "check" /\ rpc'[r].unpaid = rpc[r].unpaid
        BY <2>0, <2>4 DEF CheckCap, RpcLocals
      <3> QED
        BY <3>1 DEF IdleRpc, Remembered, NoRatchet, InWindow
    <2>5. CASE Reserve(r)
      <3>1. rpc'[r].unpaid = {}
        BY <2>0, <2>5 DEF Reserve, RpcLocals
      <3> QED
        BY <3>1
    <2>6. CASE StartCreate(r) \/ PrepareFails(r)
      <3>1. rpc'[r].unpaid = rpc[r].unpaid /\ rpc'[r].pc \in {"loop", "creating", "unwind"}
        <4>1. CASE StartCreate(r)
          <5>1. PICK name \in Names \ rpc[r].used, deadline \in Deadlines :
                   rpc' = [rpc EXCEPT ![r] =
                     [rpc[r] EXCEPT !.used = @ \cup {name}, !.deadline = deadline,
                             !.pc = IF deadline = "short" THEN "loop" ELSE "creating",
                             !.remaining = IF deadline = "short" THEN @ - 1 ELSE @]]
            BY <4>1 DEF StartCreate
          <5> QED
            BY <2>0, <5>1 DEF RpcLocals
        <4>2. CASE PrepareFails(r)
          BY <2>0, <4>2 DEF PrepareFails, RpcLocals
        <4> QED
          BY <2>6, <4>1, <4>2
      <3> QED
        BY <3>1 DEF Remembered
    <2> QED
      BY <2>1, <2>2, <2>3, <2>4, <2>5, <2>6 DEF RpcStep
  <1> QED
    BY <1>1, <1>2 DEF Remembered, NoRatchet, InWindow

\* The create jobs turn no order back into an unpaid one, and no request back to its
\* listing.
LEMMA JobRatchet ==
    ASSUME Types, JobShape, Remembered, NoRatchet, NEW s \in Slots, JobStep(s)
    PROVE  Remembered' /\ NoRatchet'
  <1> USE DEF Types
  <1>1. \A q \in Rpcs : /\ rpc'[q].unpaid = rpc[q].unpaid
                        /\ rpc'[q].pc = rpc[q].pc \/ rpc'[q].pc \in {"loop", "unwind"}
    <2>1. CASE rpc' = rpc
      BY <2>1
    <2>2. CASE rpc' # rpc
      <3>1. s[1] \in Rpcs /\ rpc[s[1]] \in RpcLocals
        BY DEF Slots
      <3>2. rpc' = [rpc EXCEPT ![s[1]] =
                     [rpc[s[1]] EXCEPT !.remaining = @ - 1,
                                       !.pc = IF job[s].pc = "failed" THEN "unwind" ELSE "loop"]]
        BY <2>2 DEF JobStep, OrderAccepted, OrderRefused, RolledBack, OrderLeaked, CreateEnds
      <3> QED
        BY <3>1, <3>2 DEF RpcLocals
    <2> QED
      BY <2>1, <2>2
  <1>2. \A n \in Names : inst'[n].st # inst[n].st => inst'[n].st = "hidden" /\ inst[n].st = "unused"
    <2>1. CASE OrderAccepted(s)
      BY <2>1 DEF OrderAccepted, Instances
    <2>2. CASE RolledBack(s)
      BY <2>2 DEF RolledBack, Instances
    <2>3. CASE inst' = inst
      BY <2>3
    <2> QED
      BY <2>1, <2>2, <2>3 DEF JobStep, OrderRefused, OrderLeaked, CreateEnds
  <1> QED
    BY <1>1, <1>2 DEF Remembered, NoRatchet, InWindow, RpcLocals

\* Contabo makes an order unpaid only when it shows it first.
LEMMA EnvRatchet ==
    ASSUME Types, Remembered, NoRatchet, (\E n \in Names : ContaboStep(n)) \/ Restart
    PROVE  Remembered' /\ NoRatchet'
  <1> USE DEF Types
  <1>1. CASE \E n \in Names : ContaboStep(n)
    <2>1. PICK n \in Names : ContaboStep(n)
      BY <1>1
    <2>2. rpc' = rpc /\ \A m \in Names \ {n} : inst'[m] = inst[m]
      BY <2>1 DEF ContaboStep, Progress, Terminated, CancelledElsewhere
    <2>3. \/ inst'[n].st = inst[n].st
          \/ inst[n].st = "hidden"
          \/ inst'[n].st \in {"paid", "gone"}
      BY <2>1 DEF ContaboStep, Progress, Terminated, CancelledElsewhere, Moves, Instances
    <2> QED
      BY <2>2, <2>3 DEF Remembered, NoRatchet, InWindow, RpcLocals
  <1>2. CASE Restart
    BY <1>2 DEF Restart, IdleRpc, Remembered, NoRatchet, InWindow
  <1> QED
    BY <1>1, <1>2

------------------------------------------------------------------------------
(* The theorems                                                            *)

\* IInv is an invariant of the provider, for any number of names and requests
\* and any cap.
THEOREM Invariance == Spec => []IInv
  BY InitIInv, NextIInv, PTL DEF Spec

\* Type correctness; in particular inFlight never goes below zero.
THEOREM TypeCorrect == Spec => []TypeOK
  <1>1. IInv => TypeOK
    BY DEF IInv
  <1> QED
    BY <1>1, Invariance, PTL

\* No path of NodeGroupIncreaseSize, its deferred release or its detached
\* goroutines gives a reservation back twice, or never.
THEOREM Balance == Spec => []ReservationsBalance
  <1>1. IInv => ReservationsBalance
    BY DEF IInv
  <1> QED
    BY <1>1, Invariance, PTL

\* Until an order is left behind unseen, inFlight covers every order that no
\* listing shows.
THEOREM UnseenReserved == Spec => []UnseenOrdersReserved
  <1>1. IInv => UnseenOrdersReserved
    BY DEF IInv
  <1> QED
    BY <1>1, Invariance, PTL

\* The hard cap holds unless one of the two unguarded windows was hit.
THEOREM HardCap == Spec => []CapUnlessExcused
  <1>1. IInv => CapUnlessExcused
    BY CountsFinite, SizeAssumption DEF IInv, CapUnlessExcused, CapHolds, Load
  <1> QED
    BY <1>1, Invariance, PTL

\* Guard 2: a request never gets past its listing while an order that was unpaid
\* when it arrived is unpaid still.
THEOREM GuardTwo == Spec => []NoRatchet
  <1>1. Init => Remembered /\ NoRatchet
    BY DEF Init, IdleRpc, Remembered, NoRatchet, InWindow
  <1>2. IInv /\ Remembered /\ NoRatchet /\ [Next]_vars => Remembered' /\ NoRatchet'
    <2> SUFFICES ASSUME IInv, Remembered, NoRatchet, [Next]_vars PROVE Remembered' /\ NoRatchet'
      OBVIOUS
    <2>0. Types /\ JobShape
      BY DEF IInv, TypeOK, Types
    <2>1. CASE UNCHANGED vars
      BY <2>1 DEF vars, Remembered, NoRatchet, InWindow
    <2>2. ASSUME NEW r \in Rpcs, RpcStep(r) PROVE Remembered' /\ NoRatchet'
      BY <2>0, <2>2, RpcRatchet
    <2>3. ASSUME NEW s \in Slots, JobStep(s) PROVE Remembered' /\ NoRatchet'
      BY <2>0, <2>3, JobRatchet
    <2>4. ASSUME (\E n \in Names : ContaboStep(n)) \/ Restart PROVE Remembered' /\ NoRatchet'
      BY <2>0, <2>4, EnvRatchet
    <2> QED
      BY <2>1, <2>2, <2>3, <2>4 DEF Next
  <1> QED
    BY <1>1, <1>2, Invariance, PTL DEF Spec
=============================================================================

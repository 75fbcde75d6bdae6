-------------------------- MODULE RunnerWatchProofs --------------------------
(***************************************************************************)
(* Proofs about RunnerWatch, for every fleet, set of runs, threshold and   *)
(* number of failing calls.                                                *)
(***************************************************************************)
EXTENDS RunnerWatch, TLAPS

\* What the counters may hold, and what a sweep's local variables are.
Observations == (Labels \cup {None}) \X (0..(Threshold - 1))
SweepPcs == {"idle", "decide", "listen", "list", "jobs", "cancel", "over"}
Sweeps == [pc : SweepPcs, todo : Seq(Repos), state : [Repos -> Observations],
           done : SUBSET Runs, targets : SUBSET Runs]
RunStates == [st : {"absent", "queued", "running", "over"}, on : Labels,
              old : BOOLEAN, began : BOOLEAN]

TypeOK ==
    /\ kind \in [Repos -> RepoFacts]
    /\ label \in [Repos -> Labels \cup {None}]
    /\ obs \in [Repos -> Observations]
    /\ ledger \subseteq Runs
    /\ runs \in [Runs -> RunStates]
    /\ sweep \in Sweeps
    /\ seen \in [Repos -> [Labels -> 0..Threshold]]
    /\ streak \in [Repos -> (Labels \cup {None}) \X (0..Threshold)]
    /\ cancels \in [Runs -> 0..2]
    /\ slips \subseteq {"obs", "ledger"}
    /\ faults \in Nat

\* A run that was cancelled is in the sweep's copy of the ledger, once the sweep has
\* read it, or in the ledger; what the sweep is about to cancel is in neither.
Recovering == sweep.pc \in {"list", "jobs", "cancel"}
Entered ==
    "ledger" \notin slips =>
        /\ Recovering => ledger \subseteq sweep.done
        /\ \A x \in Runs : cancels[x] > 0 => x \in IF Recovering THEN sweep.done ELSE ledger
        /\ sweep.pc = "cancel" => sweep.targets \cap sweep.done = {}

\* A run the sweep is about to cancel runs only if its job began since.
BegunSince ==
    sweep.pc = "cancel" =>
        \A x \in sweep.targets : runs[x].st = "running" => runs[x].began

\* The sweeps counted for a value did compute it, since the last change of the label;
\* InRow: and they were the last ones.
Backed(o, r) == o[1] \in Labels => o[1] = label[r] \/ seen[r][o[1]] >= o[2]
InRow(o, r) == o[1] \in Labels => streak[r][1] = o[1] /\ streak[r][2] >= o[2]

\* No repository comes up twice.
Distinct(s) == \A i, j \in 1..Len(s) : s[i] = s[j] => i = j

\* The counters, in the hub's variable and in the sweep.  Until the sweep comes to a
\* repository its count is the one that was read, or none.
CountersBacked ==
    /\ \A r \in Repos : Backed(obs[r], r)
    /\ sweep.pc = "decide" =>
         /\ \A r \in Repos : Backed(sweep.state[r], r)
         /\ \A i \in 1..Len(sweep.todo) :
              sweep.state[sweep.todo[i]] \in {NoObs, obs[sweep.todo[i]]}
         /\ Distinct(sweep.todo)
CountersInRow ==
    "obs" \notin slips =>
        \A r \in Repos : InRow(IF sweep.pc = "decide" THEN sweep.state[r] ELSE obs[r], r)

\* The fleet names every repository once.  The code does not look: a repository named
\* twice is counted twice by one sweep.
FleetIsASet == Distinct(slugs)

------------------------------------------------------------------------------
(* Types                                                                   *)

LEMMA ThresholdFacts ==
    /\ NoObs \in Observations
    /\ NoObs \in (Labels \cup {None}) \X (0..Threshold)
    /\ Threshold \in Nat /\ Threshold >= 1
    /\ None \notin Labels
  BY ThresholdAssumption DEF NoObs, Observations, Labels, None

LEMMA IdleTypes ==
    ASSUME NEW pc \in SweepPcs, NEW todo \in Seq(Repos), NEW done \in SUBSET Runs,
           NEW state \in [Repos -> Observations]
    PROVE  /\ Idle \in Sweeps
           /\ [Idle EXCEPT !.pc = pc] \in Sweeps
           /\ [Idle EXCEPT !.pc = pc, !.todo = todo] \in Sweeps
           /\ [Idle EXCEPT !.pc = pc, !.todo = todo, !.state = state] \in Sweeps
           /\ [Idle EXCEPT !.pc = pc, !.todo = todo, !.done = done] \in Sweeps
  <1>1. Idle \in Sweeps
    BY ThresholdFacts DEF Idle, Sweeps, SweepPcs
  <1>2. \A x \in Sweeps : /\ [x EXCEPT !.pc = pc] \in Sweeps
                          /\ [x EXCEPT !.pc = pc, !.todo = todo] \in Sweeps
                          /\ [x EXCEPT !.pc = pc, !.todo = todo, !.state = state] \in Sweeps
                          /\ [x EXCEPT !.pc = pc, !.todo = todo, !.done = done] \in Sweeps
    BY DEF Sweeps
  <1> QED
    BY <1>1, <1>2

\* What reading the jobs, and time passing, do to the record of a run.
LEMMA AgedRuns ==
    ASSUME TypeOK
    PROVE  /\ [x \in Runs |-> [runs[x] EXCEPT !.began = FALSE]] \in [Runs -> RunStates]
           /\ [x \in Runs |-> [runs[x] EXCEPT !.old = runs[x].st = "queued", !.began = FALSE]]
                 \in [Runs -> RunStates]
  <1>1. \A s \in RunStates, b \in BOOLEAN : /\ [s EXCEPT !.began = FALSE] \in RunStates
                                            /\ [s EXCEPT !.old = b, !.began = FALSE] \in RunStates
    BY DEF RunStates
  <1>2. \A x \in Runs : runs[x] \in RunStates
    BY DEF TypeOK
  <1>3. \A x \in Runs : /\ [runs[x] EXCEPT !.began = FALSE] \in RunStates
                        /\ [runs[x] EXCEPT !.old = runs[x].st = "queued", !.began = FALSE] \in RunStates
    <2> TAKE x \in Runs
    <2> DEFINE b == runs[x].st = "queued"
    <2>1. b \in BOOLEAN
      OBVIOUS
    <2> HIDE DEF b
    <2>2. /\ [runs[x] EXCEPT !.began = FALSE] \in RunStates
          /\ [runs[x] EXCEPT !.old = b, !.began = FALSE] \in RunStates
      BY <1>1, <1>2, <2>1
    <2> QED
      BY <2>2 DEF b
  <1> QED
    BY <1>3

\* Dequeuing a repository.
LEMMA TodoTail ==
    ASSUME NEW S, NEW s \in Seq(S), s # <<>>
    PROVE  /\ Head(s) \in S /\ Tail(s) \in Seq(S)
           /\ Len(s) \in Nat /\ Len(s) >= 1 /\ Head(s) = s[1]
           /\ Len(Tail(s)) = Len(s) - 1
           /\ \A i \in 1..Len(Tail(s)) : Tail(s)[i] = s[i + 1]
  OBVIOUS

\* What decide and the damping of its answer can come to.
LEMMA DecideTypes ==
    ASSUME NEW k \in RepoFacts, NEW online, NEW v \in Labels \cup {None}, NEW readable \in BOOLEAN
    PROVE  /\ decide_runner(k, online) \in Labels \cup {None}
           /\ Undeclared(k) \in RepoFacts
           /\ read_variable(v, readable) \in Labels \cup {None}
  BY DEF RepoFacts, Labels, None, decide_runner, Undeclared, read_variable

LEMMA PairProjections == \A a, b : <<a, b>>[1] = a /\ <<a, b>>[2] = b
  OBVIOUS

\* The observation to keep, and what a write needs.
LEMMA HysteresisKeeps ==
    ASSUME NEW current \in Labels \cup {None}, NEW computed \in Labels \cup {None},
           NEW prior \in Observations
    PROVE  LET res == hysteresis(current, computed, prior)
               count == IF prior[1] = computed THEN prior[2] + 1 ELSE 1
           IN  /\ Kept(res) \in Observations
               /\ computed = None => ~res[1] /\ Kept(res) = prior
               /\ computed = current => ~res[1] /\ Kept(res) \in {NoObs, prior}
               /\ computed # None /\ computed = current => Kept(res) = NoObs
               /\ computed # None /\ computed # current =>
                    /\ res[1] => count >= Threshold /\ Kept(res) = NoObs
                    /\ ~res[1] => count < Threshold /\ Kept(res) = <<computed, count>>
  <1> DEFINE count == IF prior[1] = computed THEN prior[2] + 1 ELSE 1
  <1>1. count \in Nat
    BY DEF Observations
  <1>2. CASE computed = None
    BY <1>2 DEF hysteresis, Kept
  <1>3. CASE computed # None /\ computed = current
    BY <1>3, ThresholdFacts DEF hysteresis, Kept
  <1>4. CASE computed # None /\ computed # current
    <2>1. hysteresis(current, computed, prior) = <<count >= Threshold, <<computed, count>>>>
      BY <1>4 DEF hysteresis
    <2>2. CASE count >= Threshold
      <3>1. hysteresis(current, computed, prior)[1]
        BY <2>1, <2>2, PairProjections, Zenon
      <3> QED
        BY <1>4, <2>2, <3>1, ThresholdFacts DEF Kept
    <2>3. CASE ~(count >= Threshold)
      <3>1. count \in 0..(Threshold - 1)
        BY <1>1, <2>3, ThresholdFacts
      <3>2. <<computed, count>> \in Observations
        BY <3>1 DEF Observations
      <3> QED
        <4>0. hysteresis(current, computed, prior)[1] = (count >= Threshold)
          BY <2>1, PairProjections, Zenon
        <4>1. ~hysteresis(current, computed, prior)[1]
          BY <2>3, <4>0, Zenon
        <4>2. hysteresis(current, computed, prior)[2] = <<computed, count>>
          BY <2>1
        <4> QED
          BY <1>1, <1>4, <2>3, <3>1, <3>2, <4>1, <4>2, ThresholdFacts DEF Kept
    <2> QED
      BY <2>2, <2>3
  <1> QED
    BY <1>2, <1>3, <1>4


\* DecideRepo for repository r, in the two ways it ends.
LEMMA DecideEffects ==
    ASSUME TypeOK, DecideRepo
    PROVE  \E r \in Repos, computed, current \in Labels \cup {None} :
             /\ r = Head(sweep.todo)
             /\ current \in {label[r], None}
             /\ slips' # slips => slips' = slips \cup {"obs"}
             /\ slips' = slips /\ "obs" \notin slips => current = label[r]
             /\ \/ EndTurn(r, computed, hysteresis(current, computed, sweep.state[r]))
                \/ WriteFails(r, computed)
  <1>1. PICK r \in {Head(sweep.todo)}, online \in OnlineRunners(Head(sweep.todo)),
             manifest \in BOOLEAN, readable \in BOOLEAN :
         LET computed == decide_runner(IF manifest THEN kind[r] ELSE Undeclared(kind[r]), online)
             res == hysteresis(read_variable(label[r], readable), computed, sweep.state[r])
         IN  \/ /\ slips' = IF readable THEN slips ELSE slips \cup {"obs"}
                /\ EndTurn(r, computed, res)
             \/ WriteFails(r, computed)
    BY DEF DecideRepo
  <1>2. r \in Repos /\ r = Head(sweep.todo)
    BY <1>1, TodoTail DEF DecideRepo, TypeOK, Sweeps
  <1> DEFINE k == IF manifest THEN kind[r] ELSE Undeclared(kind[r])
             computed == decide_runner(k, online)
             current == read_variable(label[r], readable)
  <1>3. kind[r] \in RepoFacts /\ label[r] \in Labels \cup {None}
    BY <1>2 DEF TypeOK
  <1>4. k \in RepoFacts
    BY <1>3, DecideTypes
  <1>5. computed \in Labels \cup {None} /\ current \in Labels \cup {None}
    BY <1>3, <1>4, DecideTypes
  <1>6. current \in {label[r], None} /\ (readable => current = label[r])
    BY DEF read_variable
  <1>7. \/ /\ slips' = IF readable THEN slips ELSE slips \cup {"obs"}
           /\ EndTurn(r, computed, hysteresis(current, computed, sweep.state[r]))
        \/ WriteFails(r, computed)
    BY <1>1
  <1>8. /\ slips' # slips => slips' = slips \cup {"obs"}
        /\ slips' = slips /\ "obs" \notin slips => current = label[r]
    BY <1>6, <1>7 DEF WriteFails
  <1> HIDE DEF computed, current
  <1> QED
    BY <1>2, <1>5, <1>6, <1>7, <1>8

LEMMA InitTypes == Init => TypeOK
  <1> SUFFICES ASSUME Init PROVE TypeOK
    OBVIOUS
  <1>1. kind \in [Repos -> RepoFacts]
    BY KindsAssumption DEF Init
  <1>2. sweep \in Sweeps
    <2>1. [r \in Repos |-> NoObs] \in [Repos -> Observations] /\ <<>> \in Seq(Repos)
      BY ThresholdFacts
    <2>2. "idle" \in SweepPcs /\ {} \in SUBSET Runs
      BY DEF SweepPcs
    <2> QED
      BY <2>1, <2>2, IdleTypes DEF Init
  <1>3. /\ NoRun \in RunStates /\ 0 \in 0..2 /\ 0 \in 0..Threshold
        /\ None \in Labels \cup {None}
    BY ThresholdFacts DEF NoRun, RunStates, Labels
  <1> QED
    BY <1>1, <1>2, <1>3, ThresholdFacts DEF Init, TypeOK

\* The steps of a sweep.
LEMMA SweepTypes == TypeOK /\ Sweep => TypeOK'
  <1> SUFFICES ASSUME TypeOK, Sweep PROVE TypeOK'
    OBVIOUS
  <1> USE ThresholdFacts
  <1>s. /\ slugs \in Seq(Repos) /\ <<>> \in Seq(Repos) /\ {} \in SUBSET Runs
        /\ obs \in [Repos -> Observations] /\ ledger \in SUBSET Runs
        /\ [r \in Repos |-> NoObs] \in [Repos -> Observations]
    BY SlugsAssumption DEF TypeOK
  <1>t. /\ sweep.todo \in Seq(Repos) /\ sweep.done \in SUBSET Runs
        /\ sweep.targets \in SUBSET Runs /\ sweep.state \in [Repos -> Observations]
        /\ sweep \in Sweeps
    BY DEF TypeOK, Sweeps
  <1>1. CASE StartDecide
    <2>1. slips' \subseteq {"obs", "ledger"}
      BY <1>1 DEF StartDecide, TypeOK
    <2>2. \/ sweep' = [Idle EXCEPT !.pc = "decide", !.todo = slugs, !.state = obs]
          \/ sweep' = [Idle EXCEPT !.pc = "decide", !.todo = slugs]
      BY <1>1 DEF StartDecide
    <2>3. "decide" \in SweepPcs
      BY DEF SweepPcs
    <2>4. sweep' \in Sweeps
      <3>1. CASE sweep' = [Idle EXCEPT !.pc = "decide", !.todo = slugs, !.state = obs]
        BY <1>s, <2>3, <3>1, IdleTypes, Zenon
      <3>2. CASE sweep' = [Idle EXCEPT !.pc = "decide", !.todo = slugs]
        BY <1>s, <2>3, <3>2, IdleTypes, Zenon
      <3> QED
        BY <2>2, <3>1, <3>2
    <2> QED
      BY <1>1, <2>1, <2>4 DEF StartDecide, TypeOK, env, Fine, Fault
  <1>2. CASE DecideRepo
    <2>1. PICK r \in Repos, computed \in Labels \cup {None}, current \in Labels \cup {None} :
             /\ r = Head(sweep.todo)
             /\ slips' # slips => slips' = slips \cup {"obs"}
             /\ \/ EndTurn(r, computed, hysteresis(current, computed, sweep.state[r]))
                \/ WriteFails(r, computed)
      BY <1>2, DecideEffects
    <2> DEFINE res == hysteresis(current, computed, sweep.state[r])
    <2>2. Kept(res) \in Observations /\ (res[1] => computed \in Labels)
      BY <1>t, HysteresisKeeps DEF Labels, None
    <2>3. SeenNow(r, computed) \in [Labels -> 0..Threshold]
      <3>1. seen[r] \in [Labels -> 0..Threshold]
        BY DEF TypeOK
      <3>2. CASE computed \in {None, label[r]}
        BY <3>1, <3>2 DEF SeenNow
      <3>3. CASE computed \notin {None, label[r]}
        <4>1. seen[r][computed] \in 0..Threshold
          BY <3>1, <3>3
        <4> QED
          BY <3>1, <3>3, <4>1 DEF SeenNow
      <3> QED
        BY <3>2, <3>3
    <2>4. StreakNow(r, computed) \in (Labels \cup {None}) \X (0..Threshold)
      BY DEF StreakNow, TypeOK
    <2> HIDE DEF res
    <2>5. sweep' \in Sweeps /\ label' \in [Repos -> Labels \cup {None}]
      <3>1. CASE EndTurn(r, computed, res)
        <4>1. Tail(sweep.todo) \in Seq(Repos)
          BY <1>2, <1>t, TodoTail DEF DecideRepo
        <4>2. [sweep.state EXCEPT ![r] = Kept(res)] \in [Repos -> Observations]
          BY <1>t, <2>2
        <4>3. sweep' = [sweep EXCEPT !.todo = Tail(sweep.todo),
                                     !.state = [sweep.state EXCEPT ![r] = Kept(res)]]
          BY <3>1, <1>t DEF EndTurn, Sweeps
        <4>4. sweep' \in Sweeps
          BY <1>t, <4>1, <4>2, <4>3 DEF Sweeps
        <4>5. label' \in [Repos -> Labels \cup {None}]
          BY <2>2, <3>1 DEF EndTurn, TypeOK
        <4> QED
          BY <4>4, <4>5
      <3>2. CASE WriteFails(r, computed)
        BY <3>2, <1>s, IdleTypes DEF WriteFails, SweepPcs, TypeOK
      <3> QED
        BY <2>1, <3>1, <3>2 DEF res
    <2>6. seen' \in [Repos -> [Labels -> 0..Threshold]]
      <3>1. [v \in Labels |-> 0] \in [Labels -> 0..Threshold]
        OBVIOUS
      <3>2. \E f \in [Labels -> 0..Threshold] : seen' = [seen EXCEPT ![r] = f]
        BY <2>1, <2>3, <3>1 DEF EndTurn, WriteFails
      <3> QED
        BY <3>2 DEF TypeOK
    <2>7. streak' \in [Repos -> (Labels \cup {None}) \X (0..Threshold)]
      <3>1. \E o \in (Labels \cup {None}) \X (0..Threshold) : streak' = [streak EXCEPT ![r] = o]
        BY <2>1, <2>4 DEF EndTurn, WriteFails
      <3> QED
        BY <3>1 DEF TypeOK
    <2>8. slips' \subseteq {"obs", "ledger"}
      BY <2>1 DEF TypeOK
    <2>9. faults' \in Nat
      BY <1>2 DEF DecideRepo, Fine, Fault, TypeOK
    <2> QED
      BY <1>2, <2>5, <2>6, <2>7, <2>8, <2>9 DEF DecideRepo, TypeOK, env
  <1>3. CASE SkipRepo
    <2>1. sweep' \in Sweeps
      BY <1>3, <1>t, TodoTail DEF SkipRepo, Sweeps
    <2> QED
      BY <1>3, <2>1 DEF SkipRepo, TypeOK, env, Fine, Fault, history
  <1>4. CASE SaveState
    <2>1. sweep' \in Sweeps
      BY <1>4, <1>s, IdleTypes DEF SaveState, SweepPcs
    <2> QED
      BY <1>4, <1>t, <2>1 DEF SaveState, TypeOK, env, Fine, Fault
  <1>5. CASE StartRecover
    <2>1. \/ sweep' = [Idle EXCEPT !.pc = "list", !.todo = slugs, !.done = ledger]
          \/ sweep' = [Idle EXCEPT !.pc = "list", !.todo = slugs]
      BY <1>5 DEF StartRecover
    <2>2. "list" \in SweepPcs
      BY DEF SweepPcs
    <2>3. sweep' \in Sweeps
      <3>1. CASE sweep' = [Idle EXCEPT !.pc = "list", !.todo = slugs, !.done = ledger]
        BY <1>s, <2>2, <3>1, IdleTypes, Zenon
      <3>2. CASE sweep' = [Idle EXCEPT !.pc = "list", !.todo = slugs]
        BY <1>s, <2>2, <3>2, IdleTypes, Zenon
      <3> QED
        BY <2>1, <3>1, <3>2
    <2> QED
      BY <1>5, <2>3 DEF StartRecover, TypeOK, env, Fine, Fault
  <1>6. CASE ListRuns
    <2>1. sweep' \in Sweeps
      <3>1. /\ Tail(sweep.todo) \in Seq(Repos)
            /\ {x \in Runs : RepoOf[x] = Head(sweep.todo) /\ runs[x].st = "queued"} \in SUBSET Runs
        BY <1>6, <1>t, TodoTail DEF ListRuns
      <3> QED
        BY <1>6, <1>t, <3>1 DEF ListRuns, Sweeps, SweepPcs
    <2> QED
      BY <1>6, <2>1 DEF ListRuns, TypeOK, env, Fine, Fault, history
  <1>7. CASE ReadJobs
    <2>1. sweep' \in Sweeps
      <3>1. stranded_runs(sweep.targets) \in SUBSET Runs
        BY <1>t DEF stranded_runs
      <3> QED
        BY <1>7, <1>t, <3>1 DEF ReadJobs, Sweeps, SweepPcs
    <2>2. runs' \in [Runs -> RunStates]
      BY <1>7, AgedRuns DEF ReadJobs, TypeOK
    <2> QED
      BY <1>7, <2>1, <2>2 DEF ReadJobs, TypeOK, env, history
  <1>8. CASE Recover
    <2>1. PICK x \in sweep.targets :
             \/ /\ sweep' = [sweep EXCEPT !.targets = @ \ {x}]
                /\ UNCHANGED <<runs, cancels>>
             \/ /\ sweep' = [sweep EXCEPT !.targets = @ \ {x}, !.done = @ \cup {x}]
                /\ cancels' = [cancels EXCEPT ![x] = IF @ < 2 THEN @ + 1 ELSE @]
                /\ \/ runs' = [runs EXCEPT ![x] = [st |-> "queued", old |-> FALSE, began |-> FALSE,
                           on |-> IF label[RepoOf[x]] = None THEN "hosted" ELSE label[RepoOf[x]]]]
                   \/ runs' = [runs EXCEPT ![x].st = "over"]
      BY <1>8 DEF Recover
    <2>2. sweep' \in Sweeps
      <3>1. sweep.targets \ {x} \in SUBSET Runs /\ sweep.done \cup {x} \in SUBSET Runs
        BY <1>t
      <3>2. \A A, B \in SUBSET Runs : /\ [sweep EXCEPT !.targets = A] \in Sweeps
                                     /\ [sweep EXCEPT !.targets = A, !.done = B] \in Sweeps
        BY <1>t DEF Sweeps
      <3>3. CASE sweep' = [sweep EXCEPT !.targets = @ \ {x}]
        BY <3>1, <3>2, <3>3
      <3>4. CASE sweep' = [sweep EXCEPT !.targets = @ \ {x}, !.done = @ \cup {x}]
        BY <3>1, <3>2, <3>4
      <3> QED
        BY <2>1, <3>3, <3>4
    <2>3. cancels' \in [Runs -> 0..2]
      <3>1. (IF cancels[x] < 2 THEN cancels[x] + 1 ELSE cancels[x]) \in 0..2
        BY <1>t DEF TypeOK
      <3> QED
        BY <2>1, <3>1 DEF TypeOK
    <2>4. runs' \in [Runs -> RunStates]
      <3>1. x \in Runs /\ label[RepoOf[x]] \in Labels \cup {None}
        BY <1>t, RepoOfAssumption DEF TypeOK
      <3>2. [st |-> "queued", old |-> FALSE, began |-> FALSE,
             on |-> IF label[RepoOf[x]] = None THEN "hosted" ELSE label[RepoOf[x]]] \in RunStates
        BY <3>1 DEF RunStates, Labels
      <3>3. [runs[x] EXCEPT !.st = "over"] \in RunStates
        <4>1. runs[x] \in RunStates
          BY <3>1 DEF TypeOK
        <4> QED
          BY <4>1 DEF RunStates
      <3> QED
        BY <2>1, <3>1, <3>2, <3>3 DEF TypeOK
    <2> QED
      BY <1>8, <2>2, <2>3, <2>4 DEF Recover, TypeOK, env, Fine, Fault
  <1>9. CASE EndRepo
    <2>1. sweep' \in Sweeps
      BY <1>9, <1>t DEF EndRepo, Sweeps, SweepPcs
    <2> QED
      BY <1>9, <2>1 DEF EndRepo, TypeOK, env, history
  <1>10. CASE SaveLedger
    <2>1. sweep' \in Sweeps
      BY <1>10, <1>s, IdleTypes DEF SaveLedger, SweepPcs
    <2> QED
      BY <1>10, <1>t, <2>1 DEF SaveLedger, TypeOK, env, Fine, Fault
  <1> QED
    BY <1>1, <1>2, <1>3, <1>4, <1>5, <1>6, <1>7, <1>8, <1>9, <1>10 DEF Sweep

\* The steps of the outside.
Outside == Tick \/ (\E r \in Repos : PoolTurns(r))
             \/ (\E x \in Runs : Dispatch(x) \/ Serve(x) \/ Finish(x))

LEMMA OutsideTypes == TypeOK /\ Outside => TypeOK'
  <1> SUFFICES ASSUME TypeOK, Outside PROVE TypeOK'
    OBVIOUS
  <1>1. CASE Tick
    <2>1. sweep' \in Sweeps
      <3>1. <<>> \in Seq(Repos) /\ {} \in SUBSET Runs /\ "idle" \in SweepPcs
        BY DEF SweepPcs
      <3>2. [r \in Repos |-> NoObs] \in [Repos -> Observations]
        BY ThresholdFacts
      <3> QED
        BY <1>1, <3>1, <3>2, IdleTypes DEF Tick
    <2>2. runs' \in [Runs -> RunStates]
      BY <1>1, AgedRuns DEF Tick, TypeOK
    <2> QED
      BY <1>1, <2>1, <2>2 DEF Tick, TypeOK, env, history
  <1>2. CASE \E r \in Repos : PoolTurns(r)
    BY <1>2 DEF PoolTurns, TypeOK, env, history
  <1>3. ASSUME NEW x \in Runs, Dispatch(x) \/ Serve(x) \/ Finish(x) PROVE TypeOK'
    <2>1. label[RepoOf[x]] \in Labels \cup {None} /\ runs[x] \in RunStates
      BY RepoOfAssumption DEF TypeOK
    <2>2. runs' \in [Runs -> RunStates]
      <3>1. CASE Dispatch(x)
        <4>1. [NoRun EXCEPT !.st = "queued",
                 !.on = IF label[RepoOf[x]] = None THEN "hosted" ELSE label[RepoOf[x]]] \in RunStates
          BY <2>1 DEF NoRun, RunStates, Labels
        <4> QED
          BY <3>1, <4>1 DEF Dispatch, TypeOK
      <3>2. CASE Serve(x)
        <4>1. runs' = [runs EXCEPT ![x] = [runs[x] EXCEPT !.st = "running", !.began = TRUE]]
          BY <3>2 DEF Serve, TypeOK
        <4>2. [runs[x] EXCEPT !.st = "running", !.began = TRUE] \in RunStates
          BY <2>1 DEF RunStates
        <4> QED
          BY <4>1, <4>2 DEF TypeOK
      <3>3. CASE Finish(x)
        BY <3>3 DEF Finish, TypeOK, RunStates
      <3> QED
        BY <1>3, <3>1, <3>2, <3>3
    <2> QED
      BY <1>3, <2>2 DEF Dispatch, Serve, Finish, TypeOK, env, history
  <1> QED
    BY <1>1, <1>2, <1>3 DEF Outside

LEMMA NextTypes == TypeOK /\ [Next]_vars => TypeOK'
  <1>1. TypeOK /\ UNCHANGED vars => TypeOK'
    BY DEF TypeOK, vars, env, history
  <1>2. Next => Sweep \/ Outside
    BY DEF Next, Outside
  <1> QED
    BY <1>1, <1>2, SweepTypes, OutsideTypes

------------------------------------------------------------------------------
(* Recovery                                                                *)

\* The decide half leaves the ledger, the cancellations and the runs alone.
LEMMA DecideHalf ==
    ASSUME TypeOK, StartDecide \/ DecideRepo \/ SkipRepo \/ SaveState
    PROVE  /\ ledger' = ledger /\ cancels' = cancels /\ runs' = runs
           /\ sweep.pc \in {"idle", "decide"} /\ sweep'.pc \in {"decide", "listen"}
           /\ slips \subseteq slips'
  <1>1. sweep \in Sweeps
    BY DEF TypeOK
  <1>2. Idle \in Sweeps /\ Idle.pc = "idle"
    <2>1. <<>> \in Seq(Repos) /\ {} \in SUBSET Runs /\ "idle" \in SweepPcs
      BY DEF SweepPcs
    <2>2. [r \in Repos |-> NoObs] \in [Repos -> Observations]
      BY ThresholdFacts
    <2> QED
      BY <2>1, <2>2, IdleTypes DEF Idle
  <1>3. CASE StartDecide
    <2>1. \/ sweep' = [Idle EXCEPT !.pc = "decide", !.todo = slugs, !.state = obs]
          \/ sweep' = [Idle EXCEPT !.pc = "decide", !.todo = slugs]
      BY <1>3 DEF StartDecide
    <2>2. sweep'.pc = "decide"
      BY <1>2, <2>1 DEF Sweeps
    <2> QED
      BY <1>3, <2>2 DEF StartDecide
  <1>4. CASE DecideRepo
    <2>1. PICK r \in Repos, computed \in Labels \cup {None}, current \in Labels \cup {None} :
             /\ slips' # slips => slips' = slips \cup {"obs"}
             /\ \/ EndTurn(r, computed, hysteresis(current, computed, sweep.state[r]))
                \/ WriteFails(r, computed)
      BY <1>4, DecideEffects
    <2>2. sweep'.pc \in {"decide", "listen"}
      BY <1>1, <1>2, <1>4, <2>1 DEF DecideRepo, EndTurn, WriteFails, Sweeps
    <2> QED
      BY <1>4, <2>1, <2>2 DEF DecideRepo
  <1>5. CASE SkipRepo
    BY <1>1, <1>5 DEF SkipRepo, Sweeps, history
  <1>6. CASE SaveState
    BY <1>2, <1>6 DEF SaveState, Sweeps
  <1> QED
    BY <1>3, <1>4, <1>5, <1>6

\* What a step of the recovery does to the sweep.
LEMMA RecoverHalf ==
    ASSUME TypeOK, Entered, BegunSince, Sweep
    PROVE  Entered' /\ BegunSince'
  <1>1. sweep \in Sweeps /\ ledger \subseteq Runs
    BY DEF TypeOK
  <1>2. Idle \in Sweeps /\ Idle.pc = "idle" /\ Idle.targets = {}
    <2>1. <<>> \in Seq(Repos) /\ {} \in SUBSET Runs /\ "idle" \in SweepPcs
      BY DEF SweepPcs
    <2>2. [r \in Repos |-> NoObs] \in [Repos -> Observations]
      BY ThresholdFacts
    <2> QED
      BY <2>1, <2>2, IdleTypes DEF Idle
  <1>3. CASE StartDecide \/ DecideRepo \/ SkipRepo \/ SaveState
    BY <1>3, DecideHalf DEF Entered, BegunSince, Recovering
  <1>4. CASE StartRecover
    <2>1. CASE sweep' = [Idle EXCEPT !.pc = "list", !.todo = slugs, !.done = ledger] /\ UNCHANGED slips
      <3>1. sweep'.pc = "list" /\ sweep'.done = ledger
        BY <1>2, <2>1 DEF Sweeps
      <3> QED
        BY <1>4, <2>1, <3>1 DEF StartRecover, Entered, BegunSince, Recovering
    <2>2. CASE sweep' = [Idle EXCEPT !.pc = "list", !.todo = slugs] /\ slips' = slips \cup {"ledger"}
      <3>1. sweep'.pc = "list" /\ "ledger" \in slips'
        BY <1>2, <2>2 DEF Sweeps
      <3> QED
        BY <3>1 DEF Entered, BegunSince
    <2> QED
      BY <1>4, <2>1, <2>2 DEF StartRecover
  <1>5. CASE ListRuns
    <2>1. sweep'.pc \in {"jobs", "list"} /\ sweep'.done = sweep.done
      BY <1>1, <1>5 DEF ListRuns, Sweeps
    <2> QED
      BY <1>5, <2>1 DEF ListRuns, Entered, BegunSince, Recovering, history
  <1>6. CASE ReadJobs
    <2>1. /\ sweep'.pc = "cancel" /\ sweep'.done = sweep.done
          /\ sweep'.targets = stranded_runs(sweep.targets)
      BY <1>1, <1>6 DEF ReadJobs, Sweeps
    <2>2. sweep'.targets \cap sweep'.done = {}
      BY <2>1 DEF stranded_runs
    <2>3. \A x \in sweep'.targets : x \in Runs /\ runs'[x].st # "running"
      BY <1>1, <1>6, <2>1 DEF ReadJobs, stranded_runs, TypeOK, RunStates, Sweeps
    <2> QED
      BY <1>6, <2>1, <2>2, <2>3 DEF ReadJobs, Entered, BegunSince, Recovering, history
  <1>7. CASE Recover
    <2>1. PICK x \in sweep.targets :
             \/ /\ sweep' = [sweep EXCEPT !.targets = @ \ {x}]
                /\ UNCHANGED <<runs, cancels>>
             \/ /\ sweep' = [sweep EXCEPT !.targets = @ \ {x}, !.done = @ \cup {x}]
                /\ cancels' = [cancels EXCEPT ![x] = IF @ < 2 THEN @ + 1 ELSE @]
                /\ \/ runs' = [runs EXCEPT ![x] = [st |-> "queued", old |-> FALSE, began |-> FALSE,
                           on |-> IF label[RepoOf[x]] = None THEN "hosted" ELSE label[RepoOf[x]]]]
                   \/ runs' = [runs EXCEPT ![x].st = "over"]
      BY <1>7 DEF Recover
    <2>2. x \in Runs /\ sweep.pc = "cancel" /\ slips' = slips /\ ledger' = ledger
      BY <1>1, <1>7 DEF Recover, Sweeps
    <2>3. /\ sweep'.pc = "cancel" /\ sweep'.targets = sweep.targets \ {x}
          /\ sweep'.done \in {sweep.done, sweep.done \cup {x}}
          /\ cancels' # cancels => sweep'.done = sweep.done \cup {x}
      BY <1>1, <2>1, <2>2 DEF Sweeps
    <2>4. \A y \in Runs \ {x} : runs'[y] = runs[y] /\ cancels'[y] = cancels[y]
      BY <2>1, <2>2 DEF TypeOK
    <2>5. Entered'
      BY <1>1, <2>2, <2>3, <2>4 DEF Entered, Recovering
    <2>6. BegunSince'
      BY <1>1, <2>2, <2>3, <2>4 DEF BegunSince, Sweeps
    <2> QED
      BY <2>5, <2>6
  <1>8. CASE EndRepo
    <2>1. sweep'.pc = "list" /\ sweep'.done = sweep.done
      BY <1>1, <1>8 DEF EndRepo, Sweeps
    <2> QED
      BY <1>8, <2>1 DEF EndRepo, Entered, BegunSince, Recovering, history
  <1>9. CASE SaveLedger
    <2>1. sweep'.pc = "over"
      BY <1>2, <1>9 DEF SaveLedger, Sweeps
    <2> QED
      BY <1>9, <2>1 DEF SaveLedger, Entered, BegunSince, Recovering
  <1> QED
    BY <1>3, <1>4, <1>5, <1>6, <1>7, <1>8, <1>9 DEF Sweep

\* A runner that takes a job marks it as begun; a new sweep starts outside recovery.
LEMMA OutsideRecovery ==
    ASSUME TypeOK, Entered, BegunSince, Outside
    PROVE  Entered' /\ BegunSince'
  <1>1. CASE Tick
    <2>1. sweep.pc = "over" /\ sweep'.pc = "idle"
      BY <1>1 DEF Tick, Idle
    <2> QED
      BY <1>1, <2>1 DEF Tick, Entered, BegunSince, Recovering, history
  <1>2. CASE \E r \in Repos : PoolTurns(r)
    BY <1>2 DEF PoolTurns, Entered, BegunSince, Recovering, history
  <1>3. ASSUME NEW x \in Runs, Dispatch(x) \/ Serve(x) \/ Finish(x)
        PROVE  Entered' /\ BegunSince'
    <2>1. \A y \in Runs \ {x} : runs'[y] = runs[y]
      BY <1>3 DEF Dispatch, Serve, Finish, TypeOK
    <2>2. runs'[x].st = "running" => runs'[x].began
      <3>1. CASE Dispatch(x)
        BY <3>1 DEF Dispatch, TypeOK, NoRun
      <3>2. CASE Serve(x)
        <4>1. runs' = [runs EXCEPT ![x] = [runs[x] EXCEPT !.st = "running", !.began = TRUE]]
          BY <3>2 DEF Serve, TypeOK
        <4> QED
          BY <4>1 DEF TypeOK, RunStates
      <3>3. CASE Finish(x)
        BY <3>3 DEF Finish, TypeOK, RunStates
      <3> QED
        BY <1>3, <3>1, <3>2, <3>3
    <2>3. sweep' = sweep /\ ledger' = ledger /\ slips' = slips /\ cancels' = cancels
      BY <1>3 DEF Dispatch, Serve, Finish, history
    <2> QED
      BY <2>1, <2>2, <2>3 DEF Entered, BegunSince, Recovering, TypeOK, Sweeps
  <1> QED
    BY <1>1, <1>2, <1>3 DEF Outside

\* A run that is not in the sweep's copy of the ledger was never cancelled.
LEMMA OnceOnly ==
    ASSUME TypeOK, Entered, RecoveredOnce, Next
    PROVE  RecoveredOnce'
  <1>1. CASE Recover
    <2>1. PICK x \in sweep.targets :
             \/ cancels' = cancels
             \/ cancels' = [cancels EXCEPT ![x] = IF @ < 2 THEN @ + 1 ELSE @]
      BY <1>1 DEF Recover
    <2>2. x \in Runs /\ sweep.pc = "cancel" /\ slips' = slips
      BY <1>1 DEF Recover, TypeOK, Sweeps
    <2>3. "ledger" \notin slips => cancels[x] = 0
      BY <2>2 DEF Entered, Recovering, TypeOK
    <2> QED
      BY <2>1, <2>2, <2>3 DEF RecoveredOnce, TypeOK
  <1>2. CASE ~Recover
    <2>1. cancels' = cancels /\ slips \subseteq slips'
      <3>1. CASE DecideRepo
        BY <3>1, DecideHalf
      <3>2. CASE StartDecide \/ SkipRepo \/ SaveState
        BY <3>2, DecideHalf
      <3>3. CASE StartRecover \/ ListRuns \/ ReadJobs \/ EndRepo \/ SaveLedger \/ Outside
        BY <3>3 DEF StartRecover, ListRuns, ReadJobs, EndRepo, SaveLedger, Outside, Tick,
                    PoolTurns, Dispatch, Serve, Finish, history
      <3> QED
        BY <1>2, <3>1, <3>2, <3>3 DEF Next, Sweep, Outside
    <2> QED
      BY <2>1 DEF RecoveredOnce
  <1> QED
    BY <1>1, <1>2

RecoveryInv == TypeOK /\ Entered /\ BegunSince /\ RecoveredOnce

LEMMA RecoveryInvariant == Spec => []RecoveryInv
  <1>1. Init => RecoveryInv
    BY InitTypes DEF Init, Idle, RecoveryInv, Entered, BegunSince, Recovering, RecoveredOnce
  <1>2. RecoveryInv /\ [Next]_vars => RecoveryInv'
    <2> SUFFICES ASSUME RecoveryInv, [Next]_vars PROVE RecoveryInv'
      OBVIOUS
    <2>1. CASE UNCHANGED vars
      BY <2>1, NextTypes DEF RecoveryInv, Entered, BegunSince, Recovering, RecoveredOnce, vars, history
    <2>2. CASE Next
      <3>1. Sweep \/ Outside
        BY <2>2 DEF Next, Outside
      <3> QED
        BY <2>2, <3>1, NextTypes, RecoverHalf, OutsideRecovery, OnceOnly DEF RecoveryInv
    <2> QED
      BY <2>1, <2>2
  <1> QED
    BY <1>1, <1>2, PTL DEF Spec

------------------------------------------------------------------------------
(* The counters                                                            *)

\* A turn counts the value it computed and forgets no other.
LEMMA NowCounts ==
    ASSUME TypeOK, NEW r \in Repos, NEW computed \in Labels \cup {None}
    PROVE  /\ \A v \in Labels : SeenNow(r, computed)[v] \in Nat /\ SeenNow(r, computed)[v] >= seen[r][v]
           /\ computed \in Labels /\ computed # label[r] =>
                /\ SeenNow(r, computed)[computed] >= 1
                /\ \A n \in 0..(Threshold - 1) :
                     seen[r][computed] >= n => SeenNow(r, computed)[computed] >= n + 1
           /\ computed = None => StreakNow(r, computed) = streak[r]
           /\ computed # None /\ computed = label[r] => StreakNow(r, computed) = NoObs
           /\ computed \in Labels /\ computed # label[r] =>
                /\ StreakNow(r, computed)[1] = computed
                /\ StreakNow(r, computed)[2] >= 1
                /\ \A n \in 0..(Threshold - 1) :
                     streak[r][1] = computed /\ streak[r][2] >= n =>
                        StreakNow(r, computed)[2] >= n + 1
  <1> USE ThresholdFacts
  <1>1. /\ seen[r] \in [Labels -> 0..Threshold]
        /\ streak[r] \in (Labels \cup {None}) \X (0..Threshold)
    BY DEF TypeOK
  <1>2. CASE computed \in {None, label[r]}
    BY <1>1, <1>2 DEF SeenNow, StreakNow
  <1>3. CASE computed \notin {None, label[r]}
    <2>1. SeenNow(r, computed) = [seen[r] EXCEPT ![computed] = IF @ < Threshold THEN @ + 1 ELSE @]
      BY <1>3 DEF SeenNow
    <2>2. StreakNow(r, computed) =
            IF streak[r][1] # computed THEN <<computed, 1>>
            ELSE <<computed, IF streak[r][2] < Threshold THEN streak[r][2] + 1 ELSE Threshold>>
      BY <1>3 DEF StreakNow
    <2>3. computed \in Labels /\ seen[r][computed] \in 0..Threshold /\ streak[r][2] \in 0..Threshold
      BY <1>1, <1>3
    <2>4. /\ \A v \in Labels : SeenNow(r, computed)[v] \in Nat /\ SeenNow(r, computed)[v] >= seen[r][v]
          /\ SeenNow(r, computed)[computed] >= 1
          /\ \A n \in 0..(Threshold - 1) :
               seen[r][computed] >= n => SeenNow(r, computed)[computed] >= n + 1
      BY <1>1, <2>1, <2>3
    <2>5. /\ StreakNow(r, computed)[1] = computed
          /\ StreakNow(r, computed)[2] >= 1
          /\ \A n \in 0..(Threshold - 1) :
               streak[r][1] = computed /\ streak[r][2] >= n =>
                  StreakNow(r, computed)[2] >= n + 1
      BY <2>2, <2>3
    <2> QED
      BY <1>3, <2>4, <2>5
  <1> QED
    BY <1>2, <1>3

\* What the end of a turn makes of the counters of its repository, and what a change
\* of the label needs: l, s and k are the new label, seen and streak.
TurnHolds(r, current, prior, res, l, s, k) ==
    /\ Kept(res)[1] \in Labels => Kept(res)[1] = l \/ s[Kept(res)[1]] >= Kept(res)[2]
    /\ obs[r][1] \in Labels => obs[r][1] = l \/ s[obs[r][1]] >= obs[r][2]
    /\ current = label[r] /\ InRow(prior, r) /\ Kept(res)[1] \in Labels =>
         k[1] = Kept(res)[1] /\ k[2] >= Kept(res)[2]
    /\ l # label[r] =>
         /\ l \in Labels /\ seen[r][l] >= Threshold - 1
         /\ InRow(prior, r) => (streak[r][1] = l /\ streak[r][2] >= Threshold - 1) \/ Threshold = 1

LEMMA TurnCounts ==
    ASSUME TypeOK, NEW r \in Repos, NEW computed \in Labels \cup {None},
           NEW current \in {label[r], None}, NEW prior \in Observations,
           Backed(prior, r), Backed(obs[r], r), prior \in {NoObs, obs[r]},
           NEW res, res = hysteresis(current, computed, prior),
           NEW l, l = IF res[1] THEN computed ELSE label[r],
           NEW s, s = IF l # label[r] THEN [v \in Labels |-> 0] ELSE SeenNow(r, computed),
           NEW k, k = IF l # label[r] THEN NoObs ELSE StreakNow(r, computed)
    PROVE  TurnHolds(r, current, prior, res, l, s, k)
  <1> USE ThresholdFacts DEF TurnHolds
  <1> DEFINE o == Kept(res)
             count == IF prior[1] = computed THEN prior[2] + 1 ELSE 1
  <1>1. /\ o \in Observations
        /\ computed = None => ~res[1] /\ o = prior
        /\ computed # None /\ computed = current => ~res[1] /\ o = NoObs
        /\ computed # None /\ computed # current =>
             /\ res[1] => count >= Threshold /\ o = NoObs
             /\ ~res[1] => count < Threshold /\ o = <<computed, count>>
    <2>1. current \in Labels \cup {None}
      BY DEF TypeOK
    <2> QED
      BY <2>1, HysteresisKeeps
  <1>2. /\ prior[2] \in 0..(Threshold - 1) /\ obs[r] \in Observations /\ obs[r][2] \in 0..(Threshold - 1)
        /\ label[r] \in Labels \cup {None} /\ NoObs[1] = None /\ seen[r] \in [Labels -> 0..Threshold]
        /\ streak[r][2] \in 0..Threshold
    BY DEF TypeOK, Observations, NoObs
  <1> HIDE DEF o
  <1>3. CASE computed = None
    <2>1. l = label[r] /\ o = prior /\ s = SeenNow(r, computed) /\ k = streak[r]
      BY <1>1, <1>3, NowCounts
    <2>2. \A v \in Labels : s[v] \in Nat /\ s[v] >= seen[r][v]
      BY <2>1, NowCounts
    <2> QED
      BY <1>2, <2>1, <2>2 DEF Backed, InRow, o
  <1>4. CASE computed # None /\ computed = current
    <2>1. l = label[r] /\ o = NoObs /\ s = SeenNow(r, computed)
      BY <1>1, <1>4
    <2>2. \A v \in Labels : s[v] \in Nat /\ s[v] >= seen[r][v]
      BY <2>1, NowCounts
    <2> QED
      BY <1>2, <2>1, <2>2 DEF Backed, o
  <1>5. CASE computed # None /\ computed # current /\ ~res[1]
    <2>1. l = label[r] /\ o = <<computed, count>> /\ s = SeenNow(r, computed) /\ k = StreakNow(r, computed)
      BY <1>1, <1>5
    <2>2. \A v \in Labels : s[v] \in Nat /\ s[v] >= seen[r][v]
      BY <2>1, NowCounts
    <2>3. computed \in Labels
      BY <1>5
    <2>4. o[1] = computed /\ o[2] = count
      BY <2>1
    <2>5. computed # label[r] => s[computed] >= count
      <3>1. CASE prior[1] = computed
        BY <1>2, <2>1, <2>3, <3>1, NowCounts DEF Backed
      <3>2. CASE prior[1] # computed
        BY <2>1, <2>3, <3>2, NowCounts
      <3> QED
        BY <3>1, <3>2
    <2>6. current = label[r] /\ InRow(prior, r) => k[1] = computed /\ k[2] >= count
      <3>1. CASE prior[1] = computed
        BY <1>2, <1>5, <2>1, <2>3, <3>1, NowCounts DEF InRow
      <3>2. CASE prior[1] # computed
        BY <1>5, <2>1, <2>3, <3>2, NowCounts
      <3> QED
        BY <3>1, <3>2
    <2> QED
      BY <1>2, <2>1, <2>2, <2>4, <2>5, <2>6 DEF Backed, o
  <1>6. CASE computed # None /\ computed # current /\ res[1] /\ computed = label[r]
    <2>1. l = label[r] /\ o = NoObs /\ s = SeenNow(r, computed)
      BY <1>1, <1>6
    <2>2. \A v \in Labels : s[v] \in Nat /\ s[v] >= seen[r][v]
      BY <2>1, NowCounts
    <2> QED
      BY <1>2, <2>1, <2>2 DEF Backed, o
  <1>7. CASE computed # None /\ computed # current /\ res[1] /\ computed # label[r]
    <2>1. l = computed /\ o = NoObs /\ s = [v \in Labels |-> 0] /\ count >= Threshold
      BY <1>1, <1>7
    <2>2. computed \in Labels
      BY <1>7
    <2>3. prior[1] # computed => Threshold = 1
      BY <2>1
    <2>4. obs[r][1] \in Labels => obs[r][1] = l \/ s[obs[r][1]] >= obs[r][2]
      <3> SUFFICES ASSUME obs[r][1] \in Labels, obs[r][1] # l PROVE s[obs[r][1]] >= obs[r][2]
        OBVIOUS
      <3>1. prior[1] # computed
        BY <1>2, <2>1, <2>2
      <3>2. obs[r][2] = 0 /\ s[obs[r][1]] = 0
        BY <1>2, <2>1, <2>3, <3>1
      <3> QED
        BY <3>2
    <2>5. seen[r][l] >= Threshold - 1
      <3>1. CASE prior[1] = computed
        BY <1>2, <1>7, <2>1, <2>2, <3>1 DEF Backed
      <3>2. CASE prior[1] # computed
        BY <1>2, <2>1, <2>2, <2>3, <3>2
      <3> QED
        BY <3>1, <3>2
    <2>6. InRow(prior, r) => (streak[r][1] = l /\ streak[r][2] >= Threshold - 1) \/ Threshold = 1
      <3>1. CASE prior[1] = computed
        BY <1>2, <2>1, <2>2, <3>1 DEF InRow
      <3> QED
        BY <2>3, <3>1
    <2> QED
      BY <1>2, <1>7, <2>1, <2>2, <2>4, <2>5, <2>6 DEF o
  <1> QED
    BY <1>3, <1>4, <1>5, <1>6, <1>7

\* The rest of a list without repetitions has none, and not its head.
LEMMA DistinctTail ==
    ASSUME NEW S, NEW q \in Seq(S), q # <<>>, Distinct(q)
    PROVE  Distinct(Tail(q)) /\ \A i \in 1..Len(Tail(q)) : Tail(q)[i] # Head(q)
  BY TodoTail DEF Distinct

\* A change of label is earned, and a repository's turn keeps the counters backed.
Earned(r) ==
    label'[r] # label[r] =>
        /\ seen[r][label'[r]] >= Threshold - 1
        /\ \/ streak[r][1] = label'[r] /\ streak[r][2] >= Threshold - 1
           \/ Threshold = 1 \/ "obs" \in slips

LEMMA DecideCounts ==
    ASSUME TypeOK, TypeOK', CountersBacked, CountersInRow, DecideRepo
    PROVE  CountersBacked' /\ CountersInRow' /\ \A r \in Repos : Earned(r)
  <1>1. /\ sweep.pc = "decide" /\ sweep.todo \in Seq(Repos) /\ sweep.todo # <<>>
        /\ sweep \in Sweeps /\ obs' = obs /\ sweep.state \in [Repos -> Observations]
    BY DEF DecideRepo, TypeOK, Sweeps
  <1>2. PICK r \in Repos, computed \in Labels \cup {None}, current \in Labels \cup {None} :
             /\ r = Head(sweep.todo)
             /\ current \in {label[r], None}
             /\ slips' # slips => slips' = slips \cup {"obs"}
             /\ slips' = slips /\ "obs" \notin slips => current = label[r]
             /\ \/ EndTurn(r, computed, hysteresis(current, computed, sweep.state[r]))
                \/ WriteFails(r, computed)
    BY DecideEffects
  <1> DEFINE prior == sweep.state[r]
             res == hysteresis(current, computed, prior)
  <1>3. prior \in Observations /\ prior \in {NoObs, obs[r]}
    BY <1>1, <1>2, TodoTail DEF CountersBacked
  <1>4. Backed(prior, r) /\ Backed(obs[r], r)
    BY <1>1 DEF CountersBacked
  <1>5. "obs" \notin slips => InRow(prior, r)
    BY <1>1 DEF CountersInRow
  <1>6. "obs" \notin slips' => slips' = slips /\ "obs" \notin slips
    BY <1>2
  <1>7. CASE EndTurn(r, computed, res)
    <2> DEFINE l == IF res[1] THEN computed ELSE label[r]
               s == IF l # label[r] THEN [v \in Labels |-> 0] ELSE SeenNow(r, computed)
               k == IF l # label[r] THEN NoObs ELSE StreakNow(r, computed)
    <2> HIDE DEF prior, res
    <2>1. /\ sweep' = [sweep EXCEPT !.todo = Tail(sweep.todo),
                                    !.state = [sweep.state EXCEPT ![r] = Kept(res)]]
          /\ label' = [label EXCEPT ![r] = l] /\ l \in Labels \cup {None}
      BY <1>1, <1>2, <1>7 DEF EndTurn, TypeOK, Sweeps
    <2>2. label' # label <=> l # label[r]
      BY <2>1 DEF TypeOK
    <2> HIDE DEF l
    <2>3. seen' = [seen EXCEPT ![r] = s] /\ streak' = [streak EXCEPT ![r] = k]
      BY <1>7, <2>2 DEF EndTurn
    <2>4. TurnHolds(r, current, prior, res, l, s, k)
      <3>1. /\ res = hysteresis(current, computed, prior)
            /\ l = (IF res[1] THEN computed ELSE label[r])
            /\ s = (IF l # label[r] THEN [v \in Labels |-> 0] ELSE SeenNow(r, computed))
            /\ k = (IF l # label[r] THEN NoObs ELSE StreakNow(r, computed))
        BY DEF l, res
      <3>2. r \in Repos /\ computed \in Labels \cup {None} /\ current \in {label[r], None}
        BY <1>2
      <3> HIDE DEF s, k
      <3> QED
        BY <1>3, <1>4, <3>1, <3>2, TurnCounts
    <2> HIDE DEF s, k
    <2>5. /\ sweep'.pc = "decide" /\ sweep'.todo = Tail(sweep.todo)
          /\ sweep'.state = [sweep.state EXCEPT ![r] = Kept(res)]
      BY <1>1, <2>1 DEF Sweeps
    <2>6. /\ label'[r] = l /\ seen'[r] = s /\ streak'[r] = k
          /\ \A q \in Repos \ {r} : /\ label'[q] = label[q] /\ seen'[q] = seen[q]
                                    /\ streak'[q] = streak[q]
      BY <2>1, <2>3 DEF TypeOK
    <2>7. \A q \in Repos : Backed(obs[q], q)'
      <3>1. Backed(obs[r], r)'
        BY <1>1, <2>4, <2>6 DEF TurnHolds, Backed
      <3>2. \A q \in Repos \ {r} : Backed(obs[q], q)'
        BY <1>1, <2>6 DEF Backed, CountersBacked
      <3> QED
        BY <3>1, <3>2
    <2>8. sweep'.state[r] = Kept(res) /\ \A q \in Repos \ {r} : sweep'.state[q] = sweep.state[q]
      BY <1>1, <2>5
    <2>9. \A q \in Repos : Backed(sweep.state[q], q)'
      <3>1. Backed(sweep.state[r], r)'
        BY <2>4, <2>6, <2>8 DEF TurnHolds, Backed
      <3>2. \A q \in Repos \ {r} : Backed(sweep.state[q], q)'
        BY <1>1, <2>6, <2>8 DEF Backed, CountersBacked
      <3> QED
        BY <3>1, <3>2
    <2>10. /\ Distinct(sweep.todo)'
           /\ \A i \in 1..Len(sweep'.todo) :
                sweep'.state[sweep'.todo[i]] \in {NoObs, obs'[sweep'.todo[i]]}
      <3>1. Distinct(sweep.todo) /\ \A i \in 1..Len(sweep.todo) :
              sweep.state[sweep.todo[i]] \in {NoObs, obs[sweep.todo[i]]}
        BY <1>1 DEF CountersBacked
      <3>2. Distinct(Tail(sweep.todo)) /\ \A i \in 1..Len(Tail(sweep.todo)) : Tail(sweep.todo)[i] # r
        BY <1>1, <1>2, <3>1, DistinctTail
      <3>3. ASSUME NEW i \in 1..Len(Tail(sweep.todo))
            PROVE  sweep'.state[Tail(sweep.todo)[i]] \in {NoObs, obs[Tail(sweep.todo)[i]]}
        <4>1. Tail(sweep.todo)[i] = sweep.todo[i + 1] /\ i + 1 \in 1..Len(sweep.todo)
          BY <1>1, TodoTail
        <4>2. Tail(sweep.todo)[i] \in Repos \ {r}
          BY <1>1, <3>2, TodoTail
        <4> QED
          BY <2>8, <3>1, <4>1, <4>2
      <3>4. Distinct(sweep.todo)'
        BY <2>5, <3>2 DEF Distinct
      <3> QED
        BY <1>1, <2>5, <3>3, <3>4
    <2>11. CountersBacked'
      BY <2>5, <2>7, <2>9, <2>10 DEF CountersBacked
    <2>12. CountersInRow'
      <3> SUFFICES ASSUME "obs" \notin slips', NEW q \in Repos PROVE InRow(sweep.state[q], q)'
        BY <2>5 DEF CountersInRow
      <3>1. current = label[r] /\ InRow(prior, r)
        BY <1>2, <1>5, <1>6
      <3>2. CASE q = r
        BY <2>4, <2>6, <2>8, <3>1, <3>2 DEF TurnHolds, InRow
      <3>3. CASE q # r
        <4>1. InRow(sweep.state[q], q)
          BY <1>1, <1>6 DEF CountersInRow
        <4> QED
          BY <2>6, <2>8, <3>3, <4>1 DEF InRow
      <3> QED
        BY <3>2, <3>3
    <2>13. \A q \in Repos : Earned(q)
      BY <1>5, <2>4, <2>6 DEF TurnHolds, Earned
    <2> QED
      BY <2>11, <2>12, <2>13
  <1>8. CASE WriteFails(r, computed)
    <2>1. sweep'.pc = "listen" /\ "obs" \in slips' /\ label' = label
      BY <1>8 DEF WriteFails, Idle
    <2>2. \A q \in Repos : \A v \in Labels : seen'[q][v] >= seen[q][v]
      <3>1. \A q \in Repos : seen[q] \in [Labels -> 0..Threshold]
        BY DEF TypeOK
      <3>2. seen' = [seen EXCEPT ![r] = SeenNow(r, computed)]
        BY <1>8 DEF WriteFails
      <3>3. \A v \in Labels : seen'[r][v] >= seen[r][v]
        BY <1>2, <3>2, NowCounts DEF TypeOK
      <3>4. \A q \in Repos \ {r} : \A v \in Labels : seen'[q][v] >= seen[q][v]
        BY <3>1, <3>2, ThresholdFacts DEF TypeOK
      <3> QED
        BY <3>3, <3>4
    <2>3. \A q \in Repos : Backed(obs[q], q)'
      <3> SUFFICES ASSUME NEW q \in Repos, obs[q][1] \in Labels PROVE Backed(obs[q], q)'
        BY <1>1 DEF Backed
      <3>1. Backed(obs[q], q)
        BY DEF CountersBacked
      <3>2. /\ seen[q][obs[q][1]] \in Nat /\ seen'[q][obs[q][1]] \in Nat
            /\ obs[q][2] \in Nat
        BY ThresholdFacts DEF TypeOK, Observations
      <3> QED
        BY <1>1, <2>1, <2>2, <3>1, <3>2 DEF Backed
    <2> QED
      BY <2>1, <2>3 DEF CountersBacked, CountersInRow, Earned
  <1> QED
    BY <1>2, <1>7, <1>8

\* Nothing else writes a label; the counters are read, kept or saved as they are.
LEMMA OtherCounts ==
    ASSUME FleetIsASet, TypeOK, CountersBacked, CountersInRow, Next, ~DecideRepo
    PROVE  CountersBacked' /\ CountersInRow' /\ \A r \in Repos : Earned(r)
  <1>1. /\ sweep \in Sweeps /\ sweep.todo \in Seq(Repos) /\ sweep.state \in [Repos -> Observations]
        /\ None \notin Labels
    BY ThresholdFacts DEF TypeOK, Sweeps
  <1>2. \A r \in Repos : Backed(NoObs, r) /\ InRow(NoObs, r)
    BY <1>1 DEF Backed, InRow, NoObs
  <1>3. CASE StartDecide
    <2>1. label' = label /\ seen' = seen /\ streak' = streak /\ obs' = obs
      BY <1>3 DEF StartDecide
    <2>2. /\ sweep'.pc = "decide" /\ sweep'.todo = slugs
          /\ \/ sweep'.state = obs /\ sweep.pc # "decide" /\ slips' = slips
             \/ sweep'.state = [r \in Repos |-> NoObs] /\ "obs" \in slips'
      <3>1. CASE Fine /\ sweep' = [Idle EXCEPT !.pc = "decide", !.todo = slugs, !.state = obs]
        BY <1>3, <3>1 DEF StartDecide, Fine, Idle
      <3>2. CASE Fault /\ sweep' = [Idle EXCEPT !.pc = "decide", !.todo = slugs]
        <4>1. "obs" \in slips'
          <5>1. faults' # faults
            BY <3>2 DEF Fault, TypeOK
          <5> QED
            BY <1>3, <5>1 DEF StartDecide
        <4> QED
          BY <3>2, <4>1 DEF Idle
      <3> QED
        BY <1>3, <3>1, <3>2 DEF StartDecide
    <2>3. \A r \in Repos : Backed(sweep.state[r], r)'
      BY <1>2, <2>1, <2>2 DEF CountersBacked, Backed
    <2>4. \A i \in 1..Len(slugs) : slugs[i] \in Repos
      BY SlugsAssumption
    <2>5. CountersBacked'
      BY <2>1, <2>2, <2>3, <2>4 DEF CountersBacked, Backed, FleetIsASet, Distinct
    <2>6. CountersInRow'
      BY <2>1, <2>2 DEF CountersInRow, InRow
    <2> QED
      BY <2>1, <2>5, <2>6 DEF Earned
  <1>4. CASE SkipRepo
    <2>1. /\ sweep.pc = "decide" /\ sweep'.pc = "decide" /\ sweep'.state = sweep.state
          /\ sweep'.todo = Tail(sweep.todo) /\ sweep.todo # <<>>
          /\ label' = label /\ seen' = seen /\ streak' = streak /\ obs' = obs /\ slips' = slips
      BY <1>1, <1>4 DEF SkipRepo, Sweeps, history
    <2>2. Distinct(Tail(sweep.todo))
      BY <1>1, <2>1, DistinctTail DEF CountersBacked
    <2>3. \A i \in 1..Len(Tail(sweep.todo)) :
             sweep.state[Tail(sweep.todo)[i]] \in {NoObs, obs[Tail(sweep.todo)[i]]}
      <3> SUFFICES ASSUME NEW i \in 1..Len(Tail(sweep.todo))
                   PROVE  sweep.state[Tail(sweep.todo)[i]] \in {NoObs, obs[Tail(sweep.todo)[i]]}
        OBVIOUS
      <3>1. Tail(sweep.todo)[i] = sweep.todo[i + 1] /\ i + 1 \in 1..Len(sweep.todo)
        BY <1>1, <2>1, TodoTail
      <3> QED
        BY <2>1, <3>1 DEF CountersBacked
    <2>4. CountersBacked'
      BY <2>1, <2>2, <2>3 DEF CountersBacked, Backed, Distinct
    <2>5. CountersInRow'
      BY <2>1 DEF CountersInRow, InRow
    <2> QED
      BY <2>1, <2>4, <2>5 DEF Earned
  <1>5. CASE SaveState
    <2>1. /\ sweep.pc = "decide" /\ sweep'.pc = "listen"
          /\ label' = label /\ seen' = seen /\ streak' = streak
          /\ \/ obs' = sweep.state /\ slips' = slips
             \/ obs' = obs /\ "obs" \in slips'
      BY <1>5 DEF SaveState, Idle
    <2>2. CountersBacked' /\ CountersInRow'
      BY <2>1 DEF CountersBacked, CountersInRow, Backed, InRow
    <2> QED
      BY <2>1, <2>2 DEF Earned
  <1>6. CASE ~(StartDecide \/ SkipRepo \/ SaveState)
    <2>1. /\ label' = label /\ seen' = seen /\ streak' = streak /\ obs' = obs
          /\ "obs" \in slips => "obs" \in slips'
      BY <1>6 DEF Next, Sweep, StartRecover, ListRuns, ReadJobs, Recover, EndRepo, SaveLedger,
                  Tick, PoolTurns, Dispatch, Serve, Finish, history
    <2>2. \/ sweep' = sweep
          \/ sweep.pc # "decide" /\ sweep'.pc # "decide"
      <3>1. CASE StartRecover
        <4>1. \/ sweep' = [Idle EXCEPT !.pc = "list", !.todo = slugs, !.done = ledger]
              \/ sweep' = [Idle EXCEPT !.pc = "list", !.todo = slugs]
          BY <3>1 DEF StartRecover
        <4> QED
          BY <3>1, <4>1 DEF StartRecover, Idle
      <3>2. CASE ListRuns
        BY <1>1, <3>2 DEF ListRuns, Sweeps
      <3>3. CASE ReadJobs \/ EndRepo
        BY <1>1, <3>3 DEF ReadJobs, EndRepo, Sweeps
      <3>4. CASE SaveLedger \/ Tick
        <4>1. sweep.pc \in {"list", "over"} /\ (sweep' = Idle \/ sweep' = [Idle EXCEPT !.pc = "over"])
          BY <3>4 DEF SaveLedger, Tick
        <4> QED
          BY <4>1 DEF Idle
      <3>5. CASE Recover
        <4>1. sweep.pc = "cancel" /\ sweep'.pc = "cancel"
          BY <1>1, <3>5 DEF Recover, Sweeps
        <4> QED
          BY <4>1
      <3>6. CASE (\E r \in Repos : PoolTurns(r)) \/ (\E x \in Runs : Dispatch(x) \/ Serve(x) \/ Finish(x))
        BY <3>6 DEF PoolTurns, Dispatch, Serve, Finish
      <3> QED
        BY <1>6, <3>1, <3>2, <3>3, <3>4, <3>5, <3>6 DEF Next, Sweep
    <2>3. CountersBacked'
      BY <2>1, <2>2 DEF CountersBacked, Backed, Distinct
    <2>4. CountersInRow'
      BY <2>1, <2>2 DEF CountersInRow, InRow
    <2> QED
      BY <2>1, <2>3, <2>4 DEF Earned
  <1> QED
    BY <1>3, <1>4, <1>5, <1>6

------------------------------------------------------------------------------
(* The theorems                                                            *)

\* Type correctness; in particular no counter passes the threshold.
THEOREM TypeCorrect == Spec => []TypeOK
  BY RecoveryInvariant, PTL DEF RecoveryInv

\* "A run is recovered AT MOST ONCE, ever": unless the ledger could not be read or
\* saved, whatever the runners, the queue and the calls do.
THEOREM RecoveredAtMostOnce == Spec => []RecoveredOnce
  BY RecoveryInvariant, PTL DEF RecoveryInv

\* Work in flight is never cancelled, but for a job that began after the sweep had
\* looked at the jobs of its run.
THEOREM InFlightKept == Spec => WorkInFlightKept
  <1>1. RecoveryInv /\ [Next]_vars =>
          [\A x \in Runs : cancels'[x] > cancels[x] /\ runs[x].st = "running" => runs[x].began]_vars
    <2> SUFFICES ASSUME RecoveryInv, Next, NEW x \in Runs, cancels'[x] > cancels[x],
                        runs[x].st = "running"
                 PROVE  runs[x].began
      BY DEF vars
    <2>1. cancels[x] \in 0..2
      BY DEF RecoveryInv, TypeOK
    <2>2. cancels' # cancels
      BY <2>1
    <2>3. Recover
      BY <2>2, DecideHalf DEF RecoveryInv, Next, Sweep, StartRecover, ListRuns, ReadJobs, EndRepo,
                  SaveLedger, Tick, PoolTurns, Dispatch, Serve, Finish, history
    <2>4. PICK y \in sweep.targets : cancels' = [cancels EXCEPT ![y] = IF @ < 2 THEN @ + 1 ELSE @]
      BY <2>2, <2>3 DEF Recover
    <2>5. x = y
      BY <2>1, <2>4 DEF RecoveryInv, TypeOK
    <2> QED
      BY <2>3, <2>4, <2>5 DEF Recover, RecoveryInv, BegunSince
  <1> QED
    BY <1>1, RecoveryInvariant, PTL DEF Spec, WorkInFlightKept

\* "A one-tick blip must never move the fleet": a label changes only to a value that
\* Threshold sweeps computed since it last changed, whatever was lost of the counters,
\* and, if nothing was, that the last Threshold sweeps computed.
THEOREM WritesAreEarned == FleetIsASet => (Spec => WriteEarned)
  <1> SUFFICES ASSUME FleetIsASet PROVE Spec => WriteEarned
    OBVIOUS
  <1>1. Init => CountersBacked /\ CountersInRow
    BY ThresholdFacts DEF Init, Idle, CountersBacked, CountersInRow, Backed, InRow, NoObs
  <1>2. TypeOK /\ CountersBacked /\ CountersInRow /\ [Next]_vars =>
          CountersBacked' /\ CountersInRow'
    <2>1. ASSUME TypeOK, CountersBacked, CountersInRow, UNCHANGED vars
          PROVE  CountersBacked' /\ CountersInRow'
      BY <2>1 DEF vars, history, CountersBacked, CountersInRow, Backed, InRow, Distinct
    <2>2. ASSUME TypeOK, CountersBacked, CountersInRow, Next
          PROVE  CountersBacked' /\ CountersInRow'
      BY <2>2, NextTypes, DecideCounts, OtherCounts
    <2> QED
      BY <2>1, <2>2
  <1>3. TypeOK /\ CountersBacked /\ CountersInRow /\ [Next]_vars =>
          [\A r \in Repos : label'[r] # label[r] =>
             /\ seen[r][label'[r]] >= Threshold - 1
             /\ \/ streak[r][1] = label'[r] /\ streak[r][2] >= Threshold - 1
                \/ Threshold = 1 \/ "obs" \in slips]_vars
    <2> SUFFICES ASSUME TypeOK, CountersBacked, CountersInRow, Next
                 PROVE  \A r \in Repos : Earned(r)
      BY DEF Earned
    <2> QED
      BY NextTypes, DecideCounts, OtherCounts
  <1> QED
    BY <1>1, <1>2, <1>3, TypeCorrect, PTL DEF Spec, WriteEarned
==============================================================================

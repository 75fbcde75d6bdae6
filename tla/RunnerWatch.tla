---------------------------- MODULE RunnerWatch ----------------------------
(***************************************************************************)
(* The runner watcher: scripts/runner_watch.py, run by runner-watch.yml.   *)
(* A sweep decides for each repository of the fleet which runner its jobs  *)
(* should use, and publishes the answer in the repository's variable       *)
(* CI_RUNNER_LABELS (decide); then it cancels and re-dispatches the runs   *)
(* that wait for a runner that does not come (recover).  Two variables of  *)
(* the hub carry what a sweep must know of the earlier ones: how often a   *)
(* new answer was seen, and which runs were recovered.  Any call may fail, *)
(* and a variable that cannot be read reads as absent.                     *)
(*                                                                         *)
(* The workflow's concurrency group keeps sweeps apart.  The 30 days after *)
(* which a recovered run is forgotten are longer than GitHub keeps a run   *)
(* queued, and are left out, as is --check, which writes nothing.          *)
(***************************************************************************)
EXTENDS Integers, Sequences

CONSTANTS
    Repos, Runs,
    slugs,         \* the fleet, in the order of ruleset-fleet.json
    RepoOf,        \* run -> repository
    Kinds,         \* repository -> the kinds it may be of
    Ephemeral,     \* the values of policy.ephemeral_pools to look at
    Turning,       \* the repositories whose pool may go down and come up
    Threshold,     \* policy.hysteresis
    MaxFaults      \* bound: calls that fail

ASSUME SlugsAssumption == slugs \in Seq(Repos)
ASSUME RepoOfAssumption == RepoOf \in [Runs -> Repos]

\* The facts about a repository that decide: its visibility, what pool its manifest
\* declares, its capability and whether the operator pinned it.
RepoFacts == {"public", "undeclared", "pool", "cluster", "cluster-bare", "pinned"}

ASSUME KindsAssumption == Kinds \in [Repos -> SUBSET RepoFacts]
ASSUME ThresholdAssumption == Threshold \in Nat \ {0}

VARIABLES
    kind, ephemeral, \* the fleet: what is declared for each repository
    up,              \* repositories whose pool serves jobs
    label,           \* CI_RUNNER_LABELS
    obs,             \* the hub's variable: repository -> <<value, count>>
    ledger,          \* the hub's variable: the runs that were recovered
    runs,            \* workflow runs
    sweep,           \* the local variables of the sweep
    faults,
    seen, streak,    \* history: how many sweeps since the last change of a label
                     \* computed each other value, and how many the last one in a row
    cancels,         \* history: how often each run was cancelled
    slips            \* history: what was lost of the hub's variables

env == <<kind, ephemeral>>
history == <<seen, streak, cancels, slips>>
vars == <<env, up, label, obs, ledger, runs, sweep, faults, history>>

Labels == {"hosted", "pool"}
None == "none"
NoObs == <<None, 0>>

Idle == [pc |-> "idle", todo |-> <<>>, state |-> [r \in Repos |-> NoObs], done |-> {}, targets |-> {}]

\* st: of the one job that counts; on: the label it was dispatched with; old:
\* queued past stranded_minutes; began: since the sweep looked at it.
NoRun == [st |-> "absent", on |-> "hosted", old |-> FALSE, began |-> FALSE]

Init ==
    /\ kind \in {k \in [Repos -> UNION {Kinds[r] : r \in Repos}] : \A r \in Repos : k[r] \in Kinds[r]}
    /\ ephemeral \in Ephemeral
    /\ up = Repos
    /\ label = [r \in Repos |-> None]
    /\ obs = [r \in Repos |-> NoObs]
    /\ ledger = {}
    /\ runs = [x \in Runs |-> NoRun]
    /\ sweep = Idle
    /\ faults = 0
    /\ seen = [r \in Repos |-> [v \in Labels |-> 0]]
    /\ streak = [r \in Repos |-> NoObs]
    /\ cancels = [x \in Runs |-> 0]
    /\ slips = {}

Fault == faults < MaxFaults /\ faults' = faults + 1
Fine == faults' = faults

------------------------------------------------------------------------------
(* decide                                                                  *)

\* The answer for a repository, from whether its pool was seen online; None keeps
\* what there is.  0 online runners are the idle state of an ephemeral pool.
decide_runner(k, online) ==
    CASE k = "cluster" -> "pool"
      [] k \in {"cluster-bare", "pinned"} -> None
      [] k \in {"public", "undeclared"} -> "hosted"
      [] k = "pool" -> IF online = "unknown" THEN None
                       ELSE IF online = "none" /\ ~ephemeral THEN "hosted" ELSE "pool"

\* What the count of online runners may come to.
OnlineRunners(r) ==
    {"unknown"} \cup (IF r \in up THEN {"some"} ELSE {}) \cup (IF r \notin up \/ ephemeral THEN {"none"} ELSE {})

\* A variable that cannot be read reads as absent.
read_variable(v, readable) == IF readable THEN v ELSE None

\* What probe_repo takes a repository for when it cannot read its manifest.
Undeclared(k) == IF k = "pool" THEN "undeclared" ELSE IF k = "cluster" THEN "cluster-bare" ELSE k

\* Mutant: a count goes on when the candidate changes.
hysteresis_any(current, computed, prior) ==
    IF computed = None THEN <<FALSE, prior>>
    ELSE IF computed = current THEN <<FALSE, NoObs>>
    ELSE <<prior[2] + 1 >= Threshold, <<computed, prior[2] + 1>>>>

\* Mutant: a variable that is not there is left to its default.
hysteresis_set(current, computed, prior) ==
    IF computed = None \/ current = None THEN <<FALSE, prior>>
    ELSE IF computed = current THEN <<FALSE, NoObs>>
    ELSE LET count == IF prior[1] = computed THEN prior[2] + 1 ELSE 1
         IN  <<count >= Threshold, <<computed, count>>>>

\* Whether the computed value may be written, and the observation to keep.
hysteresis(current, computed, prior) ==
    IF computed = None THEN <<FALSE, prior>>
    ELSE IF computed = current THEN <<FALSE, NoObs>>
    ELSE LET count == IF prior[1] = computed THEN prior[2] + 1 ELSE 1
         IN  <<count >= Threshold, <<computed, count>>>>

\* run_decide reads its state; what cannot be read or parsed is empty.
StartDecide ==
    /\ sweep.pc = "idle"
    /\ \/ Fine /\ sweep' = [Idle EXCEPT !.pc = "decide", !.todo = slugs, !.state = obs]
       \/ Fault /\ sweep' = [Idle EXCEPT !.pc = "decide", !.todo = slugs]
    /\ slips' = IF faults' = faults THEN slips ELSE slips \cup {"obs"}
    /\ UNCHANGED <<env, up, label, obs, ledger, runs, seen, streak, cancels>>

\* History: what a repository's turn computed, counted up to Threshold.
SeenNow(r, computed) ==
    IF computed \in {None, label[r]} THEN seen[r]
    ELSE [seen[r] EXCEPT ![computed] = IF @ < Threshold THEN @ + 1 ELSE @]
StreakNow(r, computed) ==
    IF computed = None THEN streak[r]
    ELSE IF computed = label[r] THEN NoObs
    ELSE IF streak[r][1] # computed THEN <<computed, 1>>
    ELSE <<computed, IF streak[r][2] < Threshold THEN streak[r][2] + 1 ELSE Threshold>>

\* The observation a turn leaves behind: none after a write.
Kept(res) == IF res[1] THEN NoObs ELSE res[2]

\* The end of a repository's turn: the value is written if it may be.
EndTurn(r, computed, res) ==
    /\ sweep' = [sweep EXCEPT !.todo = Tail(@), !.state[r] = Kept(res)]
    /\ label' = IF res[1] THEN [label EXCEPT ![r] = computed] ELSE label
    /\ seen' = [seen EXCEPT ![r] = IF label' # label THEN [v \in Labels |-> 0] ELSE SeenNow(r, computed)]
    /\ streak' = [streak EXCEPT ![r] = IF label' # label THEN NoObs ELSE StreakNow(r, computed)]

\* A write that fails ends the sweep without saving its state.
WriteFails(r, computed) ==
    /\ sweep' = [Idle EXCEPT !.pc = "listen"]
    /\ label' = label
    /\ slips' = slips \cup {"obs"}
    /\ seen' = [seen EXCEPT ![r] = SeenNow(r, computed)]
    /\ streak' = [streak EXCEPT ![r] = StreakNow(r, computed)]

\* One repository: probe, decide, read what it has, and write.  The manifest, the
\* runners or the variable may be unreadable.
DecideRepo ==
    /\ sweep.pc = "decide" /\ sweep.todo # <<>>
    /\ \E r \in {Head(sweep.todo)} : \E online \in OnlineRunners(r), manifest, readable \in BOOLEAN :
         LET computed == decide_runner(IF manifest THEN kind[r] ELSE Undeclared(kind[r]), online)
             res == hysteresis(read_variable(label[r], readable), computed, sweep.state[r])
         IN  \/ /\ IF online = "unknown" \/ ~manifest \/ ~readable THEN Fault ELSE Fine
                /\ slips' = IF readable THEN slips ELSE slips \cup {"obs"}
                /\ EndTurn(r, computed, res)
             \/ /\ res[1] /\ online # "unknown" /\ manifest /\ readable /\ Fault
                /\ WriteFails(r, computed)
    /\ UNCHANGED <<env, up, obs, ledger, runs, cancels>>

\* A repository that cannot be reached is left untouched, and so is its count.
SkipRepo ==
    /\ sweep.pc = "decide" /\ sweep.todo # <<>> /\ Fault
    /\ sweep' = [sweep EXCEPT !.todo = Tail(@)]
    /\ UNCHANGED <<env, up, label, obs, ledger, runs, history>>

\* The end of run_decide.  The recovery runs also when it fails.
SaveState ==
    /\ sweep.pc = "decide" /\ sweep.todo = <<>>
    /\ sweep' = [Idle EXCEPT !.pc = "listen"]
    /\ \/ Fine /\ obs' = sweep.state /\ UNCHANGED slips
       \/ Fault /\ obs' = obs /\ slips' = slips \cup {"obs"}
    /\ UNCHANGED <<env, up, label, ledger, runs, seen, streak, cancels>>

------------------------------------------------------------------------------
(* recover                                                                 *)

\* run_recover reads the ledger; what cannot be read or parsed is empty.
StartRecover ==
    /\ sweep.pc = "listen"
    /\ \/ Fine /\ sweep' = [Idle EXCEPT !.pc = "list", !.todo = slugs, !.done = ledger] /\ UNCHANGED slips
       \/ Fault /\ sweep' = [Idle EXCEPT !.pc = "list", !.todo = slugs] /\ slips' = slips \cup {"ledger"}
    /\ UNCHANGED <<env, up, label, obs, ledger, runs, seen, streak, cancels>>

\* queued_jobs: the queued runs of a repository, and after that their jobs.
ListRuns ==
    /\ sweep.pc = "list" /\ sweep.todo # <<>>
    /\ \/ /\ Fine
          /\ sweep' = [sweep EXCEPT !.pc = "jobs", !.todo = Tail(@),
                          !.targets = {x \in Runs : RepoOf[x] = Head(sweep.todo) /\ runs[x].st = "queued"}]
       \/ Fault /\ sweep' = [sweep EXCEPT !.todo = Tail(@)]
    /\ UNCHANGED <<env, up, label, obs, ledger, runs, history>>

\* Mutant: a run that is listed is stranded, also when a job has begun by now.
stranded_runs_listed(listed) == {x \in listed : runs[x].old /\ x \notin sweep.done}

\* Mutant: runs that were recovered are not left out.
stranded_runs_again(listed) == {x \in listed : runs[x].old /\ runs[x].st = "queued"}

\* No job in progress, one that waits for long without a runner, never recovered.
stranded_runs(listed) ==
    {x \in listed : runs[x].old /\ runs[x].st = "queued" /\ x \notin sweep.done}

ReadJobs ==
    /\ sweep.pc = "jobs"
    /\ sweep' = [sweep EXCEPT !.pc = "cancel", !.targets = stranded_runs(@)]
    /\ runs' = [x \in Runs |-> [runs[x] EXCEPT !.began = FALSE]]
    /\ UNCHANGED <<env, up, label, obs, ledger, faults, history>>

\* Cancel, then enter in the ledger, then re-dispatch, which may fail.
Recover ==
    /\ sweep.pc = "cancel"
    /\ \E x \in sweep.targets :
         \/ /\ sweep' = [sweep EXCEPT !.targets = @ \ {x}]
            /\ runs[x].st # "over" => Fault
            /\ runs[x].st = "over" => Fine
            /\ UNCHANGED <<runs, cancels>>
         \/ /\ runs[x].st # "over"
            /\ sweep' = [sweep EXCEPT !.targets = @ \ {x}, !.done = @ \cup {x}]
            /\ cancels' = [cancels EXCEPT ![x] = IF @ < 2 THEN @ + 1 ELSE @]
            /\ \/ /\ Fine
                  /\ runs' = [runs EXCEPT ![x] = [st |-> "queued", old |-> FALSE, began |-> FALSE,
                                on |-> IF label[RepoOf[x]] = None THEN "hosted" ELSE label[RepoOf[x]]]]
               \/ Fault /\ runs' = [runs EXCEPT ![x].st = "over"]
    /\ UNCHANGED <<env, up, label, obs, ledger, seen, streak, slips>>

EndRepo ==
    /\ sweep.pc = "cancel" /\ sweep.targets = {}
    /\ sweep' = [sweep EXCEPT !.pc = "list"]
    /\ UNCHANGED <<env, up, label, obs, ledger, runs, faults, history>>

\* The ledger is saved once, at the end of the sweep.
SaveLedger ==
    /\ sweep.pc = "list" /\ sweep.todo = <<>>
    /\ sweep' = [Idle EXCEPT !.pc = "over"]
    /\ \/ Fine /\ ledger' = sweep.done /\ UNCHANGED slips
       \/ Fault /\ ledger' = ledger /\ slips' = slips \cup {"ledger"}
    /\ UNCHANGED <<env, up, label, obs, runs, seen, streak, cancels>>

Sweep == StartDecide \/ DecideRepo \/ SkipRepo \/ SaveState \/ StartRecover \/ ListRuns
            \/ ReadJobs \/ Recover \/ EndRepo \/ SaveLedger

------------------------------------------------------------------------------
(* The outside                                                             *)

\* The next sweep is due; what waited through the last one waits for long.
Tick ==
    /\ sweep.pc = "over"
    /\ sweep' = Idle
    /\ runs' = [x \in Runs |-> [runs[x] EXCEPT !.old = runs[x].st = "queued", !.began = FALSE]]
    /\ UNCHANGED <<env, up, label, obs, ledger, faults, history>>

PoolTurns(r) ==
    /\ kind[r] = "pool" /\ r \in Turning
    /\ up' = IF r \in up THEN up \ {r} ELSE up \cup {r}
    /\ UNCHANGED <<env, label, obs, ledger, runs, sweep, faults, history>>

\* runs-on is read when a run is dispatched.
Dispatch(x) ==
    /\ runs[x].st = "absent"
    /\ runs' = [runs EXCEPT ![x] = [NoRun EXCEPT !.st = "queued",
                    !.on = IF label[RepoOf[x]] = None THEN "hosted" ELSE label[RepoOf[x]]]]
    /\ UNCHANGED <<env, up, label, obs, ledger, sweep, faults, history>>

\* A runner takes the job; the run goes on, and ends.
Serve(x) ==
    /\ runs[x].st = "queued" /\ (runs[x].on = "pool" => RepoOf[x] \in up)
    /\ runs' = [runs EXCEPT ![x].st = "running", ![x].began = TRUE]
    /\ UNCHANGED <<env, up, label, obs, ledger, sweep, faults, history>>

Finish(x) ==
    /\ runs[x].st = "running"
    /\ runs' = [runs EXCEPT ![x].st = "over"]
    /\ UNCHANGED <<env, up, label, obs, ledger, sweep, faults, history>>

Next ==
    \/ Sweep \/ Tick
    \/ \E r \in Repos : PoolTurns(r)
    \/ \E x \in Runs : Dispatch(x) \/ Serve(x) \/ Finish(x)

\* Sweeps are scheduled and come to their end; a runner that is there takes jobs.
Spec ==
    /\ Init /\ [][Next]_vars
    /\ WF_vars(Sweep) /\ WF_vars(Tick)
    /\ \A x \in Runs : WF_vars(Serve(x)) /\ WF_vars(Finish(x))

------------------------------------------------------------------------------
(* Properties                                                              *)

\* "A one-tick blip must never move the fleet" (hysteresis): a label changes only
\* to a value that Threshold sweeps computed since its last change, whatever was
\* lost of the counters, and that these were the last in a row if nothing was.
WriteEarned ==
    [][\A r \in Repos : label'[r] # label[r] =>
         /\ seen[r][label'[r]] >= Threshold - 1
         /\ \/ streak[r][1] = label'[r] /\ streak[r][2] >= Threshold - 1
            \/ Threshold = 1 \/ "obs" \in slips]_vars

\* "A run is recovered AT MOST ONCE, ever" (stranded_runs): unless the ledger could
\* not be read or saved.
RecoveredOnce == \A x \in Runs : cancels[x] > 1 => "ledger" \in slips

\* "NEVER a run that has ANY job in_progress" is cancelled: only one whose job began
\* after the sweep had looked at its jobs.
WorkInFlightKept ==
    [][\A x \in Runs : cancels'[x] > cancels[x] /\ runs[x].st = "running" => runs[x].began]_vars

\* The label of a repository with a pool settles on the pool if that stays up, and
\* on the hosted runner if a static one stays down.
LabelSettles ==
    \A r \in Repos : kind[r] = "pool" /\ ~ephemeral =>
        /\ <>[](r \in up) => <>[](label[r] = "pool")
        /\ <>[](r \notin up) => <>[](label[r] = "hosted")
=============================================================================

----------------------------- MODULE ToolsProofs -----------------------------
(***************************************************************************)
(* Proofs about the parts that MCTools composes, for any numbers of them   *)
(* and of steps, and at the end about what single gates compute.           *)
(***************************************************************************)
EXTENDS MCTools, FiniteSetTheorems, TLAPS

------------------------------------------------------------------------------
(* NodeTeardown                                                            *)

Records == {"none", "new", "partial", "whole"}

TeardownTypes ==
    /\ replicas \in [TeardownNodes -> Records]
    /\ attached \in BOOLEAN /\ diskFaults \in Nat
    /\ cleared \in [Operators -> TeardownNodes \cup {"none"}]
    /\ overtaken \subseteq Operators /\ fooled \in BOOLEAN

\* Of the copies the wipes have to leave, each disk that failed took at most one.
Enough(S) == Cardinality(S) >= MinSurviving - diskFaults

\* So it is now, and after the wipe that an operator was cleared for and no other
\* wipe came before.
CopiesLeft ==
    ~fooled =>
        /\ Enough(Teardown!Whole)
        /\ \A o \in Operators \ overtaken :
               cleared[o] # "none" => Enough(Teardown!Whole \ {cleared[o]})

TeardownInv == TeardownTypes /\ diskFaults <= MaxDiskFaults /\ CopiesLeft

\* An instance of a module counts as this one does.
LEMMA SameCount == \A S : Teardown!Cardinality(S) = Cardinality(S)
  BY DEF Teardown!Cardinality, Cardinality

LEMMA WholeFinite ==
    /\ \A S \in SUBSET TeardownNodes : IsFiniteSet(S) /\ Cardinality(S) \in Nat
    /\ \A S, T \in SUBSET TeardownNodes : S \subseteq T => Cardinality(S) <= Cardinality(T)
    /\ \A S \in SUBSET TeardownNodes : \A n : Cardinality(S) <= Cardinality(S \ {n}) + 1
<1>1. \A S \in SUBSET TeardownNodes : IsFiniteSet(S) /\ Cardinality(S) \in Nat
  BY TeardownAssumption, FS_Subset, FS_CardinalityType
<1>2. \A S, T \in SUBSET TeardownNodes : S \subseteq T => Cardinality(S) <= Cardinality(T)
  BY <1>1, FS_Subset
<1>3. ASSUME NEW S \in SUBSET TeardownNodes, NEW n PROVE Cardinality(S) <= Cardinality(S \ {n}) + 1
  BY <1>1, FS_RemoveElement
<1> QED
  BY <1>1, <1>2, <1>3

LEMMA TeardownInit == Init => TeardownInv
<1> SUFFICES ASSUME Init PROVE TeardownInv
  OBVIOUS
<1> Teardown!Init
  BY DEF Init
<1>1. PICK on \in SUBSET TeardownNodes :
        /\ Cardinality(on) = MinSurviving + 1
        /\ replicas = [n \in TeardownNodes |-> IF n \in on THEN "whole" ELSE "none"]
  BY SameCount DEF Teardown!Init
<1>2. /\ attached = TRUE /\ diskFaults = 0 /\ cleared = [o \in Operators |-> "none"]
      /\ overtaken = {} /\ fooled = FALSE
  BY DEF Teardown!Init
<1>3. TeardownTypes
  BY <1>1, <1>2 DEF TeardownTypes, Records
<1>4. Teardown!Whole = on
  BY <1>1 DEF Teardown!Whole
<1> QED
  BY <1>1, <1>2, <1>3, <1>4, TeardownAssumption DEF TeardownInv, CopiesLeft, Enough

\* When the check is not fooled, what it counts are whole copies.
LEMMA Counted ==
    ASSUME TeardownTypes, NEW n \in TeardownNodes, Teardown!evaluate(n),
           ~(Teardown!recent = {} /\ Teardown!Surviving(n) \cap Teardown!Mistakable # {})
    PROVE  Enough(Teardown!Whole \ {n})
<1>1. /\ Cardinality(Teardown!Surviving(n)) >= MinSurviving
      /\ Teardown!Surviving(n) \cap Teardown!Mistakable = {}
  BY SameCount DEF Teardown!evaluate
<1>2. Teardown!Surviving(n) \subseteq Teardown!Whole \ {n}
  BY <1>1 DEF Teardown!Surviving, Teardown!Mistakable, Teardown!Whole, Teardown!replica_is_intact,
     TeardownTypes, Records
<1>3. /\ Teardown!Surviving(n) \in SUBSET TeardownNodes /\ Teardown!Whole \ {n} \in SUBSET TeardownNodes
  BY DEF Teardown!Surviving, Teardown!Whole
<1>4. /\ Cardinality(Teardown!Surviving(n)) \in Nat /\ Cardinality(Teardown!Whole \ {n}) \in Nat
      /\ Cardinality(Teardown!Surviving(n)) <= Cardinality(Teardown!Whole \ {n})
  BY <1>2, <1>3, WholeFinite
<1> QED
  BY <1>1, <1>4, TeardownAssumption DEF Enough, TeardownTypes

\* Steps that take no copy.
LEMMA NoneTaken ==
    ASSUME TeardownInv, TeardownTypes', Teardown!Whole \subseteq Teardown!Whole', diskFaults' = diskFaults,
           cleared' = cleared, overtaken' = overtaken, fooled' = fooled
    PROVE  TeardownInv'
<1>1. ASSUME NEW S \in SUBSET TeardownNodes, NEW T \in SUBSET TeardownNodes, S \subseteq T, Enough(S)
      PROVE  Cardinality(T) >= MinSurviving - diskFaults
  BY <1>1, WholeFinite, TeardownAssumption DEF Enough, TeardownInv, TeardownTypes
<1>2. /\ Teardown!Whole \in SUBSET TeardownNodes /\ Teardown!Whole' \in SUBSET TeardownNodes
  BY DEF Teardown!Whole
<1>3. ~fooled => Cardinality(Teardown!Whole') >= MinSurviving - diskFaults
  BY <1>1, <1>2 DEF TeardownInv, CopiesLeft
<1>4. ASSUME ~fooled, NEW o \in Operators \ overtaken, cleared[o] # "none"
      PROVE  Cardinality(Teardown!Whole' \ {cleared[o]}) >= MinSurviving - diskFaults
  BY <1>1, <1>2, <1>4 DEF TeardownInv, CopiesLeft
<1> QED
  BY <1>3, <1>4 DEF TeardownInv, CopiesLeft, Enough

LEMMA TeardownStep ==
    ASSUME TeardownInv, Teardown!Next
    PROVE  TeardownInv'
<1> USE DEF TeardownTypes, Records
<1>1. TeardownTypes
  BY DEF TeardownInv
<1>2. ASSUME NEW o \in Operators, NEW n \in TeardownNodes, Teardown!Preflight(o, n)
      PROVE  TeardownInv'
  <2>1. TeardownTypes'
    BY <1>1, <1>2 DEF Teardown!Preflight
  <2>2. Teardown!Whole' = Teardown!Whole /\ diskFaults' = diskFaults
    BY <1>2 DEF Teardown!Preflight, Teardown!Whole
  <2>3. ASSUME ~fooled', NEW p \in Operators \ overtaken', cleared'[p] # "none"
        PROVE  Enough(Teardown!Whole \ {cleared'[p]})
    <3>1. /\ ~fooled /\ Teardown!evaluate(n)
          /\ ~(Teardown!recent = {} /\ Teardown!Surviving(n) \cap Teardown!Mistakable # {})
      BY <1>2, <2>3 DEF Teardown!Preflight
    <3>2. CASE p = o
      BY <1>1, <1>2, <3>1, <3>2, Counted DEF Teardown!Preflight
    <3>3. CASE p # o
      BY <1>1, <1>2, <2>3, <3>1, <3>3 DEF Teardown!Preflight, TeardownInv, CopiesLeft
    <3> QED
      BY <3>2, <3>3
  <2>4. ~fooled' => ~fooled
    BY <1>2 DEF Teardown!Preflight
  <2> QED
    BY <2>1, <2>2, <2>3, <2>4 DEF TeardownInv, CopiesLeft, Enough
<1>3. ASSUME NEW o \in Operators, Teardown!Wipe(o)
      PROVE  TeardownInv'
  <2>1. /\ cleared[o] \in TeardownNodes /\ diskFaults' = diskFaults
        /\ replicas' = [replicas EXCEPT ![cleared[o]] = "none"]
    BY <1>1, <1>3 DEF Teardown!Wipe, Teardown!Lose
  <2>2. TeardownTypes'
    BY <1>1, <1>3, <2>1 DEF Teardown!Wipe
  <2>3. Teardown!Whole' = Teardown!Whole \ {cleared[o]}
    BY <1>1, <2>1 DEF Teardown!Whole
  <2>4. ASSUME ~fooled' PROVE Enough(Teardown!Whole \ {cleared[o]})
    BY <1>3, <2>1, <2>4, TeardownAssumption DEF Teardown!Wipe, TeardownInv, CopiesLeft
  <2>5. \A p \in Operators \ overtaken' : cleared'[p] = "none"
    BY <1>1, <1>3 DEF Teardown!Wipe
  <2> QED
    BY <2>1, <2>2, <2>3, <2>4, <2>5 DEF TeardownInv, CopiesLeft, Enough
<1>4. ASSUME NEW n \in TeardownNodes, Teardown!DiskFails(n)
      PROVE  TeardownInv'
  <2>1. /\ replicas' = [replicas EXCEPT ![n] = "none"] /\ diskFaults < MaxDiskFaults
        /\ diskFaults' = diskFaults + 1
        /\ UNCHANGED <<attached, cleared, overtaken, fooled>>
    BY <1>4 DEF Teardown!DiskFails, Teardown!Lose
  <2>2. TeardownTypes' /\ diskFaults' <= MaxDiskFaults
    BY <1>1, <2>1, TeardownAssumption
  <2>3. Teardown!Whole' = Teardown!Whole \ {n}
    BY <1>1, <2>1 DEF Teardown!Whole
  <2>4. ASSUME NEW S \in SUBSET TeardownNodes, Enough(S)
        PROVE  Cardinality(S \ {n}) >= MinSurviving - diskFaults'
    <3>1. Cardinality(S) \in Nat /\ Cardinality(S \ {n}) \in Nat /\ Cardinality(S) <= Cardinality(S \ {n}) + 1
      BY WholeFinite
    <3> QED
      BY <1>1, <2>1, <2>4, <3>1, TeardownAssumption DEF Enough
  <2>5. Teardown!Whole \in SUBSET TeardownNodes
    BY DEF Teardown!Whole
  <2>6. ~fooled' => Cardinality(Teardown!Whole') >= MinSurviving - diskFaults'
    BY <2>1, <2>3, <2>4, <2>5 DEF TeardownInv, CopiesLeft
  <2>7. ASSUME ~fooled', NEW p \in Operators \ overtaken', cleared'[p] # "none"
        PROVE  Cardinality(Teardown!Whole' \ {cleared'[p]}) >= MinSurviving - diskFaults'
    <3>1. Enough(Teardown!Whole \ {cleared[p]})
      BY <2>1, <2>7 DEF TeardownInv, CopiesLeft
    <3>2. Teardown!Whole' \ {cleared'[p]} = (Teardown!Whole \ {cleared[p]}) \ {n}
      BY <2>1, <2>3
    <3> QED
      BY <2>4, <2>5, <3>1, <3>2
  <2> QED
    BY <2>2, <2>6, <2>7 DEF TeardownInv, CopiesLeft, Enough
<1>5. ASSUME NEW n \in TeardownNodes, Teardown!AddReplica(n) \/ Teardown!Rebuild(n)
      PROVE  TeardownInv'
  <2>1. /\ TeardownTypes' /\ Teardown!Whole \subseteq Teardown!Whole'
        /\ UNCHANGED <<diskFaults, cleared, overtaken, fooled>>
    BY <1>1, <1>5 DEF Teardown!AddReplica, Teardown!Rebuild, Teardown!Whole
  <2> QED
    BY <2>1, NoneTaken
<1>6. CASE Teardown!Attach \/ Teardown!Purge \/ Teardown!Tick
  <2>1. /\ TeardownTypes' /\ Teardown!Whole \subseteq Teardown!Whole'
        /\ UNCHANGED <<diskFaults, cleared, overtaken, fooled>>
    BY <1>1, <1>6 DEF Teardown!Attach, Teardown!Purge, Teardown!Tick, Teardown!Whole
  <2> QED
    BY <2>1, NoneTaken
<1> QED
  BY <1>2, <1>3, <1>4, <1>5, <1>6 DEF Teardown!Next

LEMMA TeardownNext ==
    ASSUME TeardownInv, [Next]_vars
    PROVE  TeardownInv'
<1>1. Teardown!Next \/ UNCHANGED teardownVars
  BY DEF Next, Only, vars
<1>2. CASE UNCHANGED teardownVars
  BY <1>2 DEF teardownVars, TeardownInv, TeardownTypes, CopiesLeft, Enough, Teardown!Whole
<1> QED
  BY <1>1, <1>2, TeardownStep

\* Wipes that the preflight allowed leave a volume its last copy, for any nodes and
\* operators and any MinSurviving, as long as fewer disks fail besides: while the check
\* is not fooled, MinSurviving copies but for those disks are left by the next wipe.
THEOREM CopiesKept == Spec => []CopiesSurvive
<1>1. TeardownInv => CopiesSurvive
  <2> SUFFICES ASSUME TeardownInv, ~fooled PROVE Teardown!Whole # {}
    BY DEF CopiesSurvive, Teardown!CopiesSurvive
  <2>1. Cardinality(Teardown!Whole) > 0
    BY WholeFinite, TeardownAssumption DEF Teardown!Whole, TeardownInv, TeardownTypes, CopiesLeft, Enough
  <2> QED
    BY <2>1, FS_EmptySet
<1> QED
  BY <1>1, TeardownInit, TeardownNext, PTL DEF Spec

------------------------------------------------------------------------------
(* AgentProvisioning                                                       *)

Kinds == {"env", "vault", "cred", "memory", "seed", "role", "coord"}
FileNames == {"env", "vault", "memory", "agents"}
Entries == Kinds \X Nat \X Nat
FieldValues == SUBSET (ManifestFields \cup {CHOOSE v \in ManifestFields : TRUE} \cup Entries)
Resources == [kind : Kinds, ver : Nat, cfg : FieldValues]
Runs == [pc : {"new", "run", "done", "dead"}, at : 1..7, post : BOOLEAN, want : FieldValues,
         base : Nat, ver : Nat, state : SUBSET Entries]

ProvTypes ==
    /\ manifest \in FieldValues /\ remote \in Seq(Resources)
    /\ procs \in [Procs -> Runs] /\ files \in [FileNames -> SUBSET Entries]
    /\ overlapped \in BOOLEAN /\ fresh \in BOOLEAN

Kind(p) == Prov!Steps[procs[p].at]
Ids == 1..Len(remote)
Running == {p \in Procs : procs[p].pc = "run"}

\* Of the resources of a kind, if there are some, one is the last.
LastOfEach ==
    \A k \in Kinds :
        \/ \A i \in Ids : remote[i].kind # k
        \/ \E i \in Ids : remote[i].kind = k /\ \A j \in Ids : remote[j].kind = k => j <= i

\* An entry <<kind, id, version>> names a version of a resource.
Resolves(e) == e[2] \in Ids /\ remote[e[2]].kind = e[1] /\ e[3] \in 1..remote[e[2]].ver

\* So do those of the files and of the runs, and a run updates what it listed.
AllResolve ==
    /\ \A f \in FileNames : \A e \in files[f] : Resolves(e)
    /\ \A p \in Procs : \A e \in procs[p].state : Resolves(e)
    /\ \A i \in Ids : remote[i].ver >= 1
    /\ \A p \in Procs : procs[p].post /\ procs[p].base # 0 =>
            procs[p].base \in Ids /\ remote[procs[p].base].kind = Kind(p)

\* A run that has not begun is as at first.
NewRuns == \A p \in Procs : procs[p].pc = "new" => procs[p] = Prov!NoRun

\* A run that is alone: what it listed is still so, and its state holds what it has gone
\* through, the role in its current version and as the manifest says.
Alone(p) ==
    /\ procs[p].post => /\ procs[p].base = Prov!list_all(Kind(p))
                        /\ procs[p].want = Prov!agent_payload(p, Kind(p))
    /\ \A e \in procs[p].state : \E k \in 1..(procs[p].at - 1) : e[1] = Prov!Steps[k]
    /\ \A e \in Prov!Roster(p) : e[3] = remote[e[2]].ver
    /\ procs[p].at = 7 => /\ Prov!Roster(p) # {}
                          /\ manifest # {} => remote[Prov!list_all("role")].cfg = manifest

OneAtATime ==
    ~overlapped => /\ Prov!OneOfEach
                   /\ \A p, q \in Running : p = q
                   /\ \A p \in Running : Alone(p)

Settled ==
    fresh /\ ~overlapped => Running = {} /\ Prov!RosterMatches /\ Prov!AppliedWhereGiven

ProvInv == ProvTypes /\ LastOfEach /\ AllResolve /\ NewRuns /\ OneAtATime /\ Settled

LEMMA StepFacts ==
    /\ Len(Prov!Steps) = 7
    /\ \A i \in 1..7 : Prov!Steps[i] \in Kinds
    /\ \A i, j \in 1..7 : Prov!Steps[i] = Prov!Steps[j] => i = j
    /\ Prov!Steps[6] = "role" /\ Prov!Steps[7] = "coord"
    /\ Prov!NoRun \in Runs /\ Prov!NoRun.pc = "new" /\ ~Prov!NoRun.post /\ Prov!NoRun.state = {}
    /\ DOMAIN Prov!FileOf = {"env", "cred", "seed", "coord"}
    /\ \A k \in {"env", "cred", "seed", "coord"} : Prov!FileOf[k] \in FileNames
    /\ Prov!FileOf["coord"] = "agents" /\ \A k \in {"env", "cred", "seed"} : Prov!FileOf[k] # "agents"
<1>1. /\ Len(Prov!Steps) = 7 /\ Prov!Steps[6] = "role" /\ Prov!Steps[7] = "coord"
      /\ \A i \in 1..7 : Prov!Steps[i] \in Kinds
  BY DEF Prov!Steps, Kinds
<1>2. /\ Prov!Steps[1] = "env" /\ Prov!Steps[2] = "vault" /\ Prov!Steps[3] = "cred"
      /\ Prov!Steps[4] = "memory" /\ Prov!Steps[5] = "seed"
  BY DEF Prov!Steps
<1>3. \A i, j \in 1..7 : Prov!Steps[i] = Prov!Steps[j] => i = j
  BY <1>1, <1>2
<1>4. Prov!NoRun \in Runs /\ Prov!NoRun.pc = "new" /\ ~Prov!NoRun.post /\ Prov!NoRun.state = {}
  BY DEF Prov!NoRun, Runs, FieldValues
<1>5. /\ DOMAIN Prov!FileOf = {"env", "cred", "seed", "coord"}
      /\ \A k \in {"env", "cred", "seed", "coord"} : Prov!FileOf[k] \in FileNames
      /\ Prov!FileOf["coord"] = "agents" /\ \A k \in {"env", "cred", "seed"} : Prov!FileOf[k] # "agents"
  BY DEF Prov!FileOf, FileNames
<1> QED
  BY <1>1, <1>3, <1>4, <1>5

LEMMA ProvInit == Init => ProvInv
<1> SUFFICES ASSUME Init PROVE ProvInv
  OBVIOUS
<1> Prov!Init
  BY DEF Init
<1>1. /\ manifest = {CHOOSE v \in ManifestFields : TRUE} /\ remote = <<>>
      /\ procs = [p \in Procs |-> Prov!NoRun]
      /\ files = [f \in FileNames |-> {}]
      /\ overlapped = FALSE /\ fresh = FALSE
  BY DEF Prov!Init, FileNames
<1>2. ProvTypes
  <2>1. manifest \in FieldValues
    BY <1>1 DEF FieldValues
  <2>2. remote \in Seq(Resources)
    BY <1>1
  <2>3. procs \in [Procs -> Runs] /\ files \in [FileNames -> SUBSET Entries]
    BY <1>1, StepFacts
  <2> QED
    BY <1>1, <2>1, <2>2, <2>3 DEF ProvTypes
<1>3. Running = {} /\ Ids = {} /\ Len(remote) = 0
  BY <1>1, StepFacts DEF Running, Ids
<1>4. LastOfEach /\ AllResolve /\ NewRuns /\ Prov!OneOfEach
  BY <1>1, <1>3, StepFacts DEF LastOfEach, AllResolve, NewRuns, Prov!OneOfEach
<1> QED
  BY <1>1, <1>2, <1>3, <1>4 DEF ProvInv, OneAtATime, Settled

\* What a listing by name returns.
LEMMA Listed ==
    ASSUME ProvTypes, LastOfEach, NEW k \in Kinds
    PROVE  /\ Prov!list_all(k) \in Nat
           /\ Prov!list_all(k) = 0 => \A i \in Ids : remote[i].kind # k
           /\ Prov!list_all(k) # 0 => Prov!list_all(k) \in Ids /\ remote[Prov!list_all(k)].kind = k
<1> DEFINE ids == {i \in 1..Len(remote) : remote[i].kind = k}
<1>1. Prov!list_all(k) = IF ids = {} THEN 0 ELSE CHOOSE i \in ids : \A j \in ids : j <= i
  BY DEF Prov!list_all
<1>2. CASE ids = {}
  BY <1>1, <1>2 DEF Ids
<1>3. CASE ids # {}
  <2>1. \E i \in ids : \A j \in ids : j <= i
    BY <1>3 DEF LastOfEach, Ids
  <2> HIDE DEF ids
  <2>2. Prov!list_all(k) \in ids
    BY <1>1, <1>3, <2>1
  <2>3. 0 \notin Ids /\ Len(remote) \in Nat
    BY DEF Ids, ProvTypes
  <2> QED
    BY <2>2, <2>3 DEF ids, Ids
<1> QED
  BY <1>2, <1>3

\* The run goes to its next part, with an entry more.
LEMMA Advances ==
    ASSUME ProvTypes, NEW p \in Procs, NEW e \in Entries, Prov!Advance(p, e)
    PROVE  /\ procs' \in [Procs -> Runs] /\ files' \in [FileNames -> SUBSET Entries] /\ fresh' \in BOOLEAN
           /\ \A q \in Procs \ {p} : procs'[q] = procs[q]
           /\ procs'[p].pc = (IF procs[p].at = 7 THEN "done" ELSE "run")
           /\ procs'[p].at = (IF procs[p].at = 7 THEN 7 ELSE procs[p].at + 1)
           /\ procs'[p].post = FALSE /\ procs'[p].state = procs[p].state \cup {e}
           /\ \A f \in FileNames : files'[f] \subseteq files[f] \cup procs[p].state \cup {e}
           /\ procs[p].at = 7 =>
                files'["agents"] = {r \in procs[p].state \cup {e} : r[1] \in {"role", "coord"}}
           /\ fresh' = (procs[p].at = 7 /\ Running \subseteq {p})
<1> DEFINE kind == Prov!Steps[procs[p].at]
           rec == [pc |-> IF procs[p].at = 7 THEN "done" ELSE "run",
                   at |-> IF procs[p].at = 7 THEN procs[p].at ELSE procs[p].at + 1,
                   post |-> FALSE, want |-> {}, base |-> 0, ver |-> 0, state |-> procs[p].state \cup {e}]
           part == {r \in procs[p].state \cup {e} :
                      r[1] \in (CASE kind = "env" -> {"env"} [] kind = "cred" -> {"vault"}
                                  [] kind = "seed" -> {"memory"} [] kind = "coord" -> {"role", "coord"})}
<1>1. /\ procs' = [procs EXCEPT ![p] = rec]
      /\ files' = IF kind \in DOMAIN Prov!FileOf THEN [files EXCEPT ![Prov!FileOf[kind]] = part] ELSE files
      /\ fresh' = (procs[p].at = 7 /\ \A q \in Procs \ {p} : procs[q].pc # "run")
  BY StepFacts DEF Prov!Advance
<1>2. /\ procs[p] \in Runs /\ procs[p].at \in 1..7 /\ procs[p].state \subseteq Entries
      /\ kind \in Kinds
  BY StepFacts DEF ProvTypes, Runs
<1>3. rec \in Runs
  BY <1>2 DEF Runs, FieldValues
<1>4. /\ rec.pc = (IF procs[p].at = 7 THEN "done" ELSE "run")
      /\ rec.at = (IF procs[p].at = 7 THEN 7 ELSE procs[p].at + 1)
      /\ rec.post = FALSE /\ rec.state = procs[p].state \cup {e}
  OBVIOUS
<1>5. part \subseteq procs[p].state \cup {e}
  OBVIOUS
<1>6. procs[p].at = 7 => part = {r \in procs[p].state \cup {e} : r[1] \in {"role", "coord"}}
  BY StepFacts
<1> HIDE DEF rec, part, kind
<1>7. /\ procs' \in [Procs -> Runs] /\ procs'[p] = rec
      /\ \A q \in Procs \ {p} : procs'[q] = procs[q]
  BY <1>1, <1>3 DEF ProvTypes
<1>8. /\ files' \in [FileNames -> SUBSET Entries]
      /\ \A f \in FileNames : files'[f] = files[f] \/ files'[f] = part
  BY <1>1, <1>2, <1>5, StepFacts DEF ProvTypes
<1>9. procs[p].at = 7 => files'["agents"] = part
  BY <1>1, StepFacts DEF ProvTypes, kind, FileNames
<1> QED
  BY <1>1, <1>4, <1>5, <1>6, <1>7, <1>8, <1>9 DEF Running

\* The run p ends its part with the entry e: its resource is there, as it is to be, and
\* it is new only if there was none of its kind, or other runs were under way.
Done(p, e) ==
    /\ e \in Entries /\ Prov!Advance(p, e) /\ e[1] = Kind(p)
    /\ UNCHANGED <<manifest, overlapped>> /\ remote' \in Seq(Resources)
    /\ Ids' = Ids \cup {e[2]} /\ \A j \in Ids \ {e[2]} : remote'[j] = remote[j]
    /\ e[2] \in 1..(Len(remote) + 1)
    /\ remote'[e[2]].kind = Kind(p) /\ e[3] \in 1..remote'[e[2]].ver
    /\ e[2] \in Ids => remote[e[2]].kind = Kind(p) /\ remote'[e[2]].ver >= remote[e[2]].ver
    /\ e[2] \notin Ids /\ ~overlapped => \A j \in Ids : remote[j].kind # Kind(p)
    /\ Kind(p) \in {"role", "coord"} =>
          /\ e[3] = remote'[e[2]].ver
          /\ ~overlapped => \/ Prov!agent_payload(p, Kind(p)) = {}
                            \/ remote'[e[2]].cfg = Prov!agent_payload(p, Kind(p))

LEMMA ResourceFacts ==
    ASSUME NEW q \in Seq(Resources)
    PROVE  /\ Len(q) \in Nat
           /\ \A i \in 1..Len(q) : q[i] \in Resources /\ q[i].kind \in Kinds /\ q[i].ver \in Nat
<1>1. \A i \in 1..Len(q) : q[i] \in Resources
  OBVIOUS
<1> QED
  BY <1>1 DEF Resources

LEMMA DoneResolves ==
    ASSUME ProvInv, NEW p \in Procs, NEW e, Done(p, e)
    PROVE  ProvTypes' /\ LastOfEach' /\ AllResolve'
<1>1. ProvTypes' /\ Kind(p) \in Kinds /\ procs[p] \in Runs
  BY Advances, StepFacts DEF Done, ProvInv, ProvTypes, Kind, Runs
<1>2. /\ Len(remote) \in Nat /\ Len(remote') \in Nat /\ Ids' = 1..Len(remote')
      /\ \A i \in Ids : i \in Ids' /\ remote'[i].kind = remote[i].kind /\ remote'[i].ver >= remote[i].ver
      /\ \A i \in Ids : remote[i].ver \in Nat
      /\ \A i \in Ids' : remote'[i].ver \in Nat
  <2>1. /\ Len(remote) \in Nat /\ \A i \in Ids : remote[i].ver \in Nat
        /\ Len(remote') \in Nat /\ \A i \in Ids' : remote'[i].ver \in Nat
        /\ Ids' = 1..Len(remote')
    BY ResourceFacts DEF Done, ProvInv, ProvTypes, Ids
  <2>2. ASSUME NEW i \in Ids
        PROVE  i \in Ids' /\ remote'[i].kind = remote[i].kind /\ remote'[i].ver >= remote[i].ver
    <3>1. CASE i = e[2]
      BY <3>1, <2>1 DEF Done
    <3>2. CASE i # e[2]
      BY <3>2, <2>1 DEF Done
    <3> QED
      BY <3>1, <3>2
  <2> QED
    BY <2>1, <2>2
<1>3. ASSUME NEW x, Resolves(x)
      PROVE  x[2] \in Ids' /\ remote'[x[2]].kind = x[1] /\ x[3] \in 1..remote'[x[2]].ver
  <2>1. PICK i \in Ids : i = x[2]
    BY <1>3 DEF Resolves
  <2>2. remote[i].kind = x[1] /\ x[3] \in 1..remote[i].ver
    BY <1>3, <2>1 DEF Resolves
  <2>3. /\ i \in Ids' /\ remote'[i].kind = remote[i].kind /\ remote'[i].ver >= remote[i].ver
        /\ remote[i].ver \in Nat /\ remote'[i].ver \in Nat
    BY <1>2
  <2> QED
    BY <2>1, <2>2, <2>3
<1>4. e[2] \in Ids' /\ remote'[e[2]].kind = e[1] /\ e[3] \in 1..remote'[e[2]].ver
  BY DEF Done
<1>5. AllResolve'
  <2>1. ASSUME NEW f \in FileNames, NEW x \in files'[f]
        PROVE  x[2] \in Ids' /\ remote'[x[2]].kind = x[1] /\ x[3] \in 1..remote'[x[2]].ver
    <3>1. x \in files[f] \/ x \in procs[p].state \/ x = e
      <4>1. ProvTypes /\ e \in Entries /\ Prov!Advance(p, e)
        BY DEF Done, ProvInv
      <4>2. files'[f] \subseteq files[f] \cup procs[p].state \cup {e}
        BY <4>1, Advances
      <4> QED
        BY <2>1, <4>2
    <3> QED
      BY <1>3, <1>4, <3>1 DEF ProvInv, AllResolve
  <2>2. ASSUME NEW q \in Procs, NEW x \in procs'[q].state
        PROVE  x[2] \in Ids' /\ remote'[x[2]].kind = x[1] /\ x[3] \in 1..remote'[x[2]].ver
    <3>1. x \in procs[q].state \/ x = e
      <4>1. /\ procs'[p].state = procs[p].state \cup {e}
            /\ \A r \in Procs \ {p} : procs'[r] = procs[r]
        BY Advances DEF Done, ProvInv
      <4>2. q = p \/ q \in Procs \ {p}
        OBVIOUS
      <4> HIDE DEF Done, ProvInv
      <4> QED
        BY <2>2, <4>1, <4>2
    <3> QED
      BY <1>3, <1>4, <3>1 DEF ProvInv, AllResolve
  <2>3. ASSUME NEW i \in Ids' PROVE remote'[i].ver >= 1
    <3>1. CASE i \in Ids
      BY <1>2, <3>1 DEF ProvInv, AllResolve
    <3>2. CASE i = e[2]
      BY <1>2, <1>4, <3>2
    <3> QED
      BY <3>1, <3>2 DEF Done
  <2>4. ASSUME NEW q \in Procs, procs'[q].post, procs'[q].base # 0
        PROVE  procs'[q].base \in Ids' /\ remote'[procs'[q].base].kind = Prov!Steps[procs'[q].at]
    <3>1. q # p /\ procs'[q] = procs[q]
      BY <2>4, Advances DEF Done, ProvInv
    <3> QED
      BY <1>2, <2>4, <3>1 DEF ProvInv, AllResolve, Kind
  <2> QED
    BY <2>1, <2>2, <2>3, <2>4 DEF AllResolve, Resolves, Kind
<1>6. LastOfEach'
  <2> SUFFICES ASSUME NEW k \in Kinds
               PROVE  \/ \A i \in Ids' : remote'[i].kind # k
                      \/ \E i \in Ids' : remote'[i].kind = k /\ \A j \in Ids' : remote'[j].kind = k => j <= i
    BY DEF LastOfEach
  <2>1. CASE e[2] \in Ids
    <3>1. Ids' = Ids
      BY <2>1 DEF Done
    <3> QED
      BY <1>2, <3>1 DEF ProvInv, LastOfEach
  <2>2. CASE e[2] \notin Ids
    <3>1. e[2] = Len(remote) + 1 /\ \A j \in Ids' : j <= e[2]
      BY <1>2, <2>2 DEF Done, Ids
    <3>2. CASE k = Kind(p)
      BY <1>4, <3>1, <3>2 DEF Done
    <3>3. CASE k # Kind(p)
      <4>1. Ids' = Ids \cup {e[2]} /\ remote'[e[2]].kind # k
        BY <3>3 DEF Done
      <4>2. CASE \A i \in Ids : remote[i].kind # k
        BY <1>2, <4>1, <4>2
      <4>3. CASE \E i \in Ids : remote[i].kind = k /\ \A j \in Ids : remote[j].kind = k => j <= i
        <5>1. PICK i \in Ids : remote[i].kind = k /\ \A j \in Ids : remote[j].kind = k => j <= i
          BY <4>3
        <5>2. i \in Ids' /\ remote'[i].kind = k
          BY <1>2, <5>1
        <5>3. \A j \in Ids' : remote'[j].kind = k => j <= i
          BY <1>2, <4>1, <5>1
        <5> QED
          BY <5>2, <5>3
      <4> QED
        BY <4>2, <4>3 DEF ProvInv, LastOfEach
    <3> QED
      BY <3>2, <3>3
  <2> QED
    BY <2>1, <2>2
<1> QED
  BY <1>1, <1>5, <1>6

\* With one resource of a kind, that is what a listing returns.
LEMMA OneListed ==
    ASSUME NEW r \in Seq(Resources), NEW i \in 1..Len(r), \A j \in 1..Len(r) : r[j].kind = r[i].kind => j = i
    PROVE  LET ids == {j \in 1..Len(r) : r[j].kind = r[i].kind}
           IN  (IF ids = {} THEN 0 ELSE CHOOSE j \in ids : \A k \in ids : k <= j) = i
<1> DEFINE ids == {j \in 1..Len(r) : r[j].kind = r[i].kind}
<1>1. ids = {i} /\ i \in Nat /\ i <= i
  OBVIOUS
<1> HIDE DEF ids
<1>2. (CHOOSE j \in ids : \A k \in ids : k <= j) = i
  BY <1>1
<1> QED
  BY <1>1, <1>2 DEF ids

LEMMA DoneKeeps ==
    ASSUME ProvInv, NEW p \in Running, NEW e, Done(p, e)
    PROVE  ProvInv'
<1>1. /\ p \in Procs /\ procs[p] \in Runs /\ procs[p].at \in 1..7 /\ Kind(p) \in Kinds
      /\ remote \in Seq(Resources) /\ Len(remote) \in Nat
  BY StepFacts DEF Running, ProvInv, ProvTypes, Runs, Kind
<1>2. /\ \A q \in Procs \ {p} : procs'[q] = procs[q]
      /\ procs'[p].pc = (IF procs[p].at = 7 THEN "done" ELSE "run")
      /\ procs'[p].at = (IF procs[p].at = 7 THEN 7 ELSE procs[p].at + 1)
      /\ procs'[p].post = FALSE /\ procs'[p].state = procs[p].state \cup {e}
      /\ procs[p].at = 7 =>
           files'["agents"] = {r \in procs[p].state \cup {e} : r[1] \in {"role", "coord"}}
      /\ fresh' = (procs[p].at = 7 /\ Running \subseteq {p})
  BY <1>1, Advances DEF Done, ProvInv
<1>3. ProvTypes' /\ LastOfEach' /\ AllResolve'
  BY <1>1, DoneResolves
<1>4. /\ e[1] = Kind(p) /\ UNCHANGED <<manifest, overlapped>> /\ remote' \in Seq(Resources)
      /\ Ids' = Ids \cup {e[2]} /\ \A j \in Ids \ {e[2]} : remote'[j] = remote[j]
      /\ remote'[e[2]].kind = Kind(p)
      /\ e[2] \in Ids => remote[e[2]].kind = Kind(p)
      /\ Ids = 1..Len(remote) /\ Ids' = 1..Len(remote')
  BY DEF Done, Ids
<1> NewRuns'
  BY <1>2 DEF ProvInv, NewRuns
<1>5. SUFFICES ASSUME ~overlapped PROVE OneAtATime' /\ Settled'
  BY <1>3, <1>4 DEF ProvInv, OneAtATime, Settled
<1>6. /\ Running = {p} /\ Alone(p)
      /\ \A i, j \in Ids : remote[i].kind = remote[j].kind => i = j
      /\ \A x \in procs[p].state : Resolves(x)
  BY <1>1, <1>5 DEF ProvInv, OneAtATime, Prov!OneOfEach, Ids, AllResolve
<1>7. \A i, j \in Ids' : remote'[i].kind = remote'[j].kind => i = j
  <2>1. e[2] \notin Ids => \A j \in Ids : remote[j].kind # Kind(p)
    BY <1>5 DEF Done
  <2>2. \A i \in Ids : remote'[i].kind = remote[i].kind
    BY <1>4
  <2> QED
    BY <1>4, <1>6, <2>1, <2>2
<1>8. Prov!OneOfEach'
  BY <1>4, <1>7 DEF Prov!OneOfEach
<1>9. /\ \A i \in Ids : remote[i].kind = "role" => Prov!list_all("role") = i
      /\ \A i \in Ids' : remote'[i].kind = "role" => Prov!list_all("role")' = i
  <2>1. ASSUME NEW i \in Ids, remote[i].kind = "role"
        PROVE  Prov!list_all("role") = i
    <3>1. remote \in Seq(Resources) /\ i \in 1..Len(remote)
      BY <1>1, <1>4 DEF ProvInv, ProvTypes
    <3>2. \A j \in 1..Len(remote) : remote[j].kind = remote[i].kind => j = i
      BY <1>4, <1>6
    <3> QED
      BY <2>1, <3>1, <3>2, OneListed DEF Prov!list_all
  <2>2. ASSUME NEW i \in Ids', remote'[i].kind = "role"
        PROVE  Prov!list_all("role")' = i
    <3>1. remote' \in Seq(Resources) /\ i \in 1..Len(remote')
      BY <1>4
    <3>2. \A j \in 1..Len(remote') : remote'[j].kind = remote'[i].kind => j = i
      BY <1>4, <1>7
    <3> QED
      BY <2>2, <3>1, <3>2, OneListed DEF Prov!list_all
  <2> QED
    BY <2>1, <2>2
<1>10. /\ Kind(p) \in {"role", "coord"} =>
            /\ e[3] = remote'[e[2]].ver
            /\ \/ Prov!agent_payload(p, Kind(p)) = {}
               \/ remote'[e[2]].cfg = Prov!agent_payload(p, Kind(p))
  BY <1>5 DEF Done
\* The state of the run, before and after.
<1>11. /\ \A x \in procs[p].state : \E k \in 1..(procs[p].at - 1) : x[1] = Prov!Steps[k]
       /\ \A x \in procs[p].state : x[1] = "role" => x[2] \in Ids /\ remote[x[2]].kind = "role"
                                                     /\ x[3] = remote[x[2]].ver
       /\ procs[p].at = 7 => /\ \E x \in procs[p].state : x[1] = "role"
                             /\ manifest # {} => remote[Prov!list_all("role")].cfg = manifest
  BY <1>6 DEF Alone, Prov!Roster, Resolves
<1>12. ASSUME NEW x \in procs[p].state
       PROVE  x[1] # Kind(p)
  BY <1>1, <1>11, StepFacts DEF Kind
<1>13. ASSUME NEW x \in procs[p].state, x[1] = "role"
       PROVE  x[2] \in Ids /\ remote'[x[2]] = remote[x[2]] /\ x[3] = remote'[x[2]].ver
  BY <1>4, <1>11, <1>12, <1>13
<1>14. CASE procs[p].at # 7
  <2>1. Running' = {p} /\ fresh' = FALSE
    <3>1. procs'[p].pc = "run" /\ fresh' = FALSE
      BY <1>2, <1>14
    <3>2. \A q \in Procs \ {p} : procs'[q].pc # "run"
      BY <1>2, <1>6 DEF Running
    <3> QED
      BY <1>1, <3>1, <3>2 DEF Running
  <2>2. \A x \in procs'[p].state : \E k \in 1..(procs'[p].at - 1) : x[1] = Prov!Steps[k]
    <3>1. procs'[p].at = procs[p].at + 1 /\ procs[p].at \in 1..(procs'[p].at - 1)
      BY <1>1, <1>2, <1>14
    <3>2. \A k \in 1..(procs[p].at - 1) : k \in 1..(procs'[p].at - 1)
      BY <1>1, <3>1
    <3> QED
      BY <1>2, <1>4, <1>11, <3>1, <3>2 DEF Kind
  <2>3. \A x \in procs'[p].state : x[1] = "role" => x[3] = remote'[x[2]].ver
    BY <1>2, <1>4, <1>10, <1>13
  <2>4. ASSUME procs'[p].at = 7
        PROVE  /\ \E x \in procs'[p].state : x[1] = "role"
               /\ manifest' # {} => remote'[Prov!list_all("role")'].cfg = manifest'
    <3>1. Kind(p) = "role"
      BY <1>1, <1>2, <1>14, <2>4, StepFacts DEF Kind
    <3>2. Prov!agent_payload(p, Kind(p)) = manifest
      BY <3>1 DEF Prov!agent_payload
    <3>3. Prov!list_all("role")' = e[2]
      BY <1>4, <1>9, <3>1
    <3> QED
      BY <1>2, <1>4, <1>10, <3>1, <3>2, <3>3
  <2>5. Alone(p)'
    BY <1>2, <2>2, <2>3, <2>4 DEF Alone, Prov!Roster
  <2> QED
    BY <1>8, <2>1, <2>5 DEF OneAtATime, Settled
<1>15. CASE procs[p].at = 7
  <2>1. Running' = {} /\ Kind(p) = "coord"
    BY <1>2, <1>6, <1>15, StepFacts DEF Running, Kind
  <2>2. /\ files'["agents"] = {r \in procs[p].state \cup {e} : r[1] \in {"role", "coord"}}
        /\ e[1] = "coord" /\ \A x \in procs[p].state : x[1] # "coord"
    BY <1>2, <1>4, <1>12, <1>15, <2>1
  <2>3. {x \in files'["agents"] : x[1] = "role"} = Prov!Roster(p)
    BY <2>2 DEF Prov!Roster
  <2>4. remote'[e[2]].cfg = Prov!Roster(p)
    <3>1. Prov!agent_payload(p, Kind(p)) = Prov!Roster(p) /\ Prov!Roster(p) # {}
      BY <1>11, <1>15, <2>1 DEF Prov!agent_payload, Prov!Roster
    <3> QED
      BY <1>10, <2>1, <3>1
  <2>5. Prov!RosterMatches'
    <3>1. ASSUME NEW x \in files'["agents"]
          PROVE  x[3] = remote'[x[2]].ver
                 /\ (x[1] = "coord" => remote'[x[2]].cfg = {y \in files'["agents"] : y[1] = "role"})
      <4>1. CASE x = e
        BY <1>10, <2>1, <2>3, <2>4, <4>1
      <4>2. CASE x # e
        <5>1. x \in procs[p].state /\ x[1] = "role"
          BY <2>2, <3>1, <4>2
        <5> QED
          BY <1>13, <5>1
      <4> QED
        BY <4>1, <4>2
    <3> QED
      BY <3>1 DEF Prov!RosterMatches
  <2>6. Prov!AppliedWhereGiven'
    <3>1. PICK x \in procs[p].state : x[1] = "role"
      BY <1>11, <1>15
    <3>2. /\ x[2] \in Ids /\ x[2] \in Ids' /\ remote'[x[2]] = remote[x[2]] /\ remote[x[2]].kind = "role"
      BY <1>4, <1>11, <1>13, <3>1
    <3>3. Prov!list_all("role") = x[2] /\ Prov!list_all("role")' = x[2]
      BY <1>9, <3>2
    <3> QED
      BY <1>4, <1>11, <1>15, <3>2, <3>3 DEF Prov!AppliedWhereGiven
  <2> QED
    BY <1>8, <2>1, <2>5, <2>6 DEF OneAtATime, Settled
<1> QED
  BY <1>14, <1>15

LEMMA Payloads ==
    ASSUME ProvTypes, NEW p \in Procs, NEW k
    PROVE  Prov!agent_payload(p, k) \in FieldValues
<1>1. procs[p].state \subseteq Entries /\ manifest \in FieldValues
  BY DEF ProvTypes, Runs
<1> QED
  BY <1>1 DEF Prov!agent_payload, Prov!Roster, FieldValues

\* When nothing has to be posted, there is a resource as it is to be.
LEMMA NothingToPost ==
    ASSUME NEW k \in Kinds, NEW i, NEW want, ~Prov!NeedsPost(k, i, want)
    PROVE  i # 0 /\ k # "cred" /\ (k \in {"role", "coord"} => ~Prov!agent_changed(i, want))
<1>1. CASE k = "env"
  BY <1>1 DEF Prov!NeedsPost, Prov!PostsEnvironment
<1>2. CASE k = "vault" \/ k = "cred"
  BY <1>2 DEF Prov!NeedsPost, Prov!PostsVault
<1>3. CASE k = "memory" \/ k = "seed"
  BY <1>3 DEF Prov!NeedsPost, Prov!PostsMemory
<1>4. CASE k = "role" \/ k = "coord"
  BY <1>4 DEF Prov!NeedsPost, Prov!PostsAgent
<1> QED
  BY <1>1, <1>2, <1>3, <1>4 DEF Kinds

LEMMA LookKeeps ==
    ASSUME ProvInv, NEW p \in Procs, Prov!Look(p)
    PROVE  ProvInv'
<1> DEFINE i == Prov!list_all(Kind(p))
           want == Prov!agent_payload(p, Kind(p))
           ver == IF i = 0 THEN 0 ELSE remote[i].ver
<1>1. /\ procs[p].pc = "run" /\ UNCHANGED <<manifest, remote, overlapped>>
      /\ \/ /\ procs' = [procs EXCEPT ![p].post = TRUE, ![p].want = want, ![p].base = i, ![p].ver = ver]
            /\ UNCHANGED <<files, fresh>>
         \/ ~Prov!NeedsPost(Kind(p), i, want) /\ Prov!Advance(p, <<Kind(p), i, remote[i].ver>>)
  BY DEF Prov!Look, Kind
<1>2. /\ p \in Running /\ procs[p] \in Runs /\ Kind(p) \in Kinds /\ want \in FieldValues
      /\ ProvTypes /\ LastOfEach /\ AllResolve /\ remote \in Seq(Resources)
  BY <1>1, StepFacts, Payloads DEF Running, Kind, ProvInv, ProvTypes, Runs
<1>3. /\ i \in Nat
      /\ i # 0 => i \in Ids /\ remote[i].kind = Kind(p)
      /\ \A j \in Ids : remote[j].ver \in Nat /\ remote[j].ver >= 1
      /\ Ids = 1..Len(remote) /\ Len(remote) \in Nat /\ ver \in Nat
  BY <1>2, Listed, ResourceFacts DEF Ids, AllResolve
<1>4. CASE ~Prov!NeedsPost(Kind(p), i, want) /\ Prov!Advance(p, <<Kind(p), i, remote[i].ver>>)
  <2>1. /\ i # 0 /\ i \in Ids /\ Kind(p) # "cred"
        /\ Kind(p) \in {"role", "coord"} => ~Prov!agent_changed(i, want)
    BY <1>2, <1>3, <1>4, NothingToPost
  <2>2. Kind(p) \in {"role", "coord"} => want = {} \/ remote[i].cfg = want
    BY <1>3, <2>1 DEF Prov!agent_changed
  <2> DEFINE e == <<Kind(p), i, remote[i].ver>>
  <2>3. /\ e \in Entries /\ e[1] = Kind(p) /\ e[2] = i /\ e[3] = remote[i].ver
        /\ e[3] \in 1..remote[i].ver
    BY <1>2, <1>3, <2>1 DEF Entries
  <2>4. Ids' = Ids /\ remote' = remote /\ i \in 1..(Len(remote) + 1)
    BY <1>1, <1>3, <2>1 DEF Ids
  <2> HIDE DEF e, i, want, ver
  <2>5. Done(p, e)
    BY <1>1, <1>2, <1>3, <1>4, <2>1, <2>2, <2>3, <2>4, SMTT(20) DEF Done, e, want
  <2> QED
    BY <1>2, <2>5, DoneKeeps
<1>5. CASE /\ procs' = [procs EXCEPT ![p].post = TRUE, ![p].want = want, ![p].base = i, ![p].ver = ver]
           /\ UNCHANGED <<files, fresh>>
  <2> DEFINE rec == [procs[p] EXCEPT !.post = TRUE, !.want = want, !.base = i, !.ver = ver]
  <2>1. /\ rec \in Runs /\ rec.pc = procs[p].pc /\ rec.at = procs[p].at /\ rec.state = procs[p].state
        /\ rec.post /\ rec.base = i /\ rec.want = want
    BY <1>2, <1>3 DEF Runs
  <2>2. procs' = [procs EXCEPT ![p] = rec]
    BY <1>5
  <2> HIDE DEF rec, i, want, ver
  <2>3. /\ procs' \in [Procs -> Runs] /\ procs'[p] = rec
        /\ \A q \in Procs \ {p} : procs'[q] = procs[q]
    BY <1>2, <2>1, <2>2 DEF ProvTypes
  <2>4. /\ \A q \in Procs : /\ procs'[q].pc = procs[q].pc /\ procs'[q].at = procs[q].at
                            /\ procs'[q].state = procs[q].state
    BY <2>1, <2>3
  <2>5. ProvTypes'
    BY <1>1, <1>2, <1>5, <2>3 DEF ProvTypes
  <2>6. LastOfEach' /\ Ids' = Ids
    BY <1>1, <1>2 DEF LastOfEach, Ids
  <2>7. AllResolve'
    <3>1. ASSUME NEW q \in Procs, procs'[q].post, procs'[q].base # 0
          PROVE  procs'[q].base \in Ids /\ remote[procs'[q].base].kind = Prov!Steps[procs'[q].at]
      <4>1. CASE q = p
        BY <1>3, <2>1, <2>3, <3>1, <4>1 DEF Kind
      <4>2. CASE q # p
        BY <1>2, <2>3, <3>1, <4>2 DEF AllResolve, Kind
      <4> QED
        BY <4>1, <4>2
    <3> QED
      BY <1>1, <1>2, <1>5, <2>4, <2>6, <3>1 DEF AllResolve, Resolves, Kind
  <2>8. Running' = Running
    BY <2>4 DEF Running
  <2>9. ASSUME ~overlapped PROVE Alone(p)'
    <3>1. Alone(p)
      BY <1>2, <2>9 DEF ProvInv, OneAtATime
    <3>2. Prov!list_all(Kind(p))' = i /\ Prov!list_all("role")' = Prov!list_all("role") /\ Kind(p)' = Kind(p)
      <4>1. Kind(p)' = Kind(p)
        BY <1>2, <2>4 DEF Kind, Running
      <4>2. \A k : Prov!list_all(k)' = Prov!list_all(k)
        BY <1>1 DEF Prov!list_all
      <4> QED
        BY <4>1, <4>2 DEF i
    <3>3. Prov!agent_payload(p, Kind(p))' = want
      BY <1>1, <1>2, <2>4 DEF Prov!agent_payload, Prov!Roster, want, Kind
    <3> QED
      BY <1>1, <1>2, <2>1, <2>3, <2>4, <3>1, <3>2, <3>3 DEF Alone, Prov!Roster
  <2>10. OneAtATime'
    <3> SUFFICES ASSUME ~overlapped PROVE OneAtATime'
      BY <1>1 DEF OneAtATime
    <3>1. Prov!OneOfEach' /\ Running = {p}
      BY <1>1, <1>2 DEF ProvInv, OneAtATime, Prov!OneOfEach
    <3> QED
      BY <2>8, <2>9, <3>1 DEF OneAtATime
  <2>11. Settled'
    BY <1>1, <1>2, <1>5 DEF ProvInv, Settled
  <2>12. NewRuns'
    BY <1>1, <2>3, <2>4 DEF ProvInv, NewRuns
  <2> QED
    BY <2>5, <2>6, <2>7, <2>10, <2>11, <2>12 DEF ProvInv
<1> QED
  BY <1>1, <1>4, <1>5

\* A step of one run that posts nothing and starts no part: it dies, or it is begun.
LEMMA OthersKeep ==
    ASSUME ProvInv, NEW p \in Procs, NEW rec \in Runs, procs' = [procs EXCEPT ![p] = rec],
           UNCHANGED <<manifest, remote, files>>, overlapped' \in BOOLEAN, fresh' \in BOOLEAN,
           rec.state \subseteq procs[p].state, ~rec.post \/ (rec.base = procs[p].base /\ rec.at = procs[p].at /\ procs[p].post)
    PROVE  /\ ProvTypes' /\ LastOfEach' /\ AllResolve'
           /\ procs'[p] = rec /\ \A q \in Procs \ {p} : procs'[q] = procs[q] /\ (Alone(q) => Alone(q)')
<1>1. procs'[p] = rec /\ \A q \in Procs \ {p} : procs'[q] = procs[q]
  BY DEF ProvInv, ProvTypes
<1>2. ProvTypes'
  BY DEF ProvInv, ProvTypes
<1>3. LastOfEach' /\ Ids' = Ids
  BY DEF ProvInv, LastOfEach, Ids
<1>4. AllResolve'
  <2>1. ASSUME NEW q \in Procs
        PROVE  /\ \A e \in procs'[q].state : Resolves(e)
               /\ procs'[q].post /\ procs'[q].base # 0 =>
                    procs'[q].base \in Ids /\ remote[procs'[q].base].kind = Prov!Steps[procs'[q].at]
    <3>1. CASE q = p
      BY <1>1, <3>1 DEF ProvInv, AllResolve, Kind
    <3>2. CASE q # p
      BY <1>1, <3>2 DEF ProvInv, AllResolve, Kind
    <3> QED
      BY <3>1, <3>2
  <2>2. \A e : Resolves(e) => Resolves(e)'
    BY <1>3 DEF Resolves
  <2> QED
    BY <1>3, <2>1, <2>2 DEF ProvInv, AllResolve, Kind
<1>5. ASSUME NEW q \in Procs \ {p}, Alone(q) PROVE Alone(q)'
  <2>1. procs'[q] = procs[q] /\ UNCHANGED <<manifest, remote>>
    BY <1>1
  <2>2. /\ Kind(q)' = Kind(q) /\ Prov!Roster(q)' = Prov!Roster(q)
        /\ \A k : Prov!list_all(k)' = Prov!list_all(k)
    BY <2>1 DEF Kind, Prov!Roster, Prov!list_all
  <2>3. \A k : Prov!agent_payload(q, k)' = Prov!agent_payload(q, k)
    BY <2>1, <2>2 DEF Prov!agent_payload
  <2> QED
    BY <1>5, <2>1, <2>2, <2>3 DEF Alone
<1> QED
  BY <1>1, <1>2, <1>3, <1>4, <1>5

LEMMA PostKeeps ==
    ASSUME ProvInv, NEW p \in Procs, Prov!Post(p)
    PROVE  ProvInv'
<1> DEFINE i == IF Kind(p) = "cred" THEN Prov!list_all(Kind(p)) ELSE procs[p].base
           res == [kind |-> Kind(p), ver |-> 1, cfg |-> procs[p].want]
<1>1. /\ procs[p].pc = "run" /\ procs[p].post /\ UNCHANGED <<manifest, overlapped>>
      /\ \/ i = 0 /\ remote' = Append(remote, res) /\ Prov!Advance(p, <<Kind(p), Len(remote) + 1, 1>>)
         \/ i # 0 /\ Kind(p) = "cred" /\ Prov!Advance(p, <<Kind(p), i, 1>>) /\ UNCHANGED remote
         \/ /\ i # 0 /\ Kind(p) # "cred" /\ remote[i].ver = procs[p].ver
            /\ remote' = [remote EXCEPT ![i].ver = @ + 1, ![i].cfg = procs[p].want]
            /\ Prov!Advance(p, <<Kind(p), i, procs[p].ver + 1>>)
         \/ procs' = [procs EXCEPT ![p].pc = "dead"] /\ UNCHANGED <<remote, files, fresh>>
  BY DEF Prov!Post, Prov!PostKeeping, Kind
<1>2. /\ p \in Running /\ procs[p] \in Runs /\ Kind(p) \in Kinds
      /\ procs[p].want \in FieldValues /\ procs[p].ver \in Nat
      /\ ProvTypes /\ LastOfEach /\ AllResolve /\ remote \in Seq(Resources)
  BY <1>1, StepFacts DEF Running, Kind, ProvInv, ProvTypes, Runs
<1>3. /\ \A j \in Ids : remote[j].ver \in Nat /\ remote[j].ver >= 1 /\ remote[j] \in Resources
      /\ Ids = 1..Len(remote) /\ Len(remote) \in Nat
      /\ i # 0 => i \in Ids /\ remote[i].kind = Kind(p)
  BY <1>1, <1>2, Listed, ResourceFacts DEF Ids, AllResolve
<1>4. ~overlapped => /\ i = Prov!list_all(Kind(p))
                     /\ procs[p].want = Prov!agent_payload(p, Kind(p))
  BY <1>1, <1>2 DEF ProvInv, OneAtATime, Alone
<1> HIDE DEF i
<1>5. CASE i = 0 /\ remote' = Append(remote, res) /\ Prov!Advance(p, <<Kind(p), Len(remote) + 1, 1>>)
  <2> DEFINE e == <<Kind(p), Len(remote) + 1, 1>>
  <2>1. e \in Entries /\ e[1] = Kind(p) /\ e[2] = Len(remote) + 1 /\ e[3] = 1
    BY <1>2, <1>3 DEF Entries
  <2>2. res \in Resources /\ res.kind = Kind(p) /\ res.ver = 1 /\ res.cfg = procs[p].want
    BY <1>2 DEF Resources
  <2> HIDE DEF e, res
  <2>3. /\ remote' \in Seq(Resources) /\ Len(remote') = Len(remote) + 1
        /\ remote'[Len(remote) + 1] = res /\ \A j \in Ids : remote'[j] = remote[j]
    BY <1>2, <1>3, <1>5, <2>2
  <2>4. Ids' = Ids \cup {e[2]} /\ e[2] \notin Ids /\ e[2] \in 1..(Len(remote) + 1)
    BY <1>3, <2>1, <2>3 DEF Ids
  <2>5. ~overlapped => \A j \in Ids : remote[j].kind # Kind(p)
    BY <1>2, <1>4, <1>5, Listed
  <2>6. Prov!Advance(p, e)
    BY <1>5 DEF e
  <2>7. /\ remote'[e[2]] = res /\ e[3] \in 1..res.ver /\ e[3] = res.ver
        /\ \A j \in Ids \ {e[2]} : remote'[j] = remote[j]
    BY <2>1, <2>2, <2>3
  <2>8. ~overlapped => remote'[e[2]].cfg = Prov!agent_payload(p, Kind(p))
    BY <1>4, <2>2, <2>7
  <2>9. UNCHANGED <<manifest, overlapped>>
    BY <1>1
  <2>10. Done(p, e)
    BY <2>1, <2>2, <2>3, <2>4, <2>5, <2>6, <2>7, <2>8, <2>9 DEF Done
  <2> QED
    BY <1>2, <2>10, DoneKeeps
<1>6. CASE i # 0 /\ Kind(p) = "cred" /\ Prov!Advance(p, <<Kind(p), i, 1>>) /\ UNCHANGED remote
  <2> DEFINE e == <<Kind(p), i, 1>>
  <2>1. e \in Entries /\ e[1] = Kind(p) /\ e[2] = i /\ e[3] = 1 /\ i \in Ids
    BY <1>2, <1>3, <1>6 DEF Entries
  <2> HIDE DEF e
  <2>2. Ids' = Ids /\ e[2] \in 1..(Len(remote) + 1)
    BY <1>3, <1>6, <2>1 DEF Ids
  <2>3. Done(p, e)
    BY <1>1, <1>2, <1>3, <1>6, <2>1, <2>2 DEF Done, e
  <2> QED
    BY <1>2, <2>3, DoneKeeps
<1>7. CASE /\ i # 0 /\ Kind(p) # "cred" /\ remote[i].ver = procs[p].ver
           /\ remote' = [remote EXCEPT ![i].ver = @ + 1, ![i].cfg = procs[p].want]
           /\ Prov!Advance(p, <<Kind(p), i, procs[p].ver + 1>>)
  <2> DEFINE e == <<Kind(p), i, procs[p].ver + 1>>
             new == [remote[i] EXCEPT !.ver = procs[p].ver + 1, !.cfg = procs[p].want]
  <2>1. e \in Entries /\ e[1] = Kind(p) /\ e[2] = i /\ e[3] = procs[p].ver + 1 /\ i \in Ids
    BY <1>2, <1>3, <1>7 DEF Entries
  <2>2. /\ new \in Resources /\ new.kind = Kind(p) /\ new.ver = procs[p].ver + 1
        /\ new.cfg = procs[p].want
    <3>1. remote[i] \in Resources /\ remote[i].kind = Kind(p) /\ remote[i].ver = procs[p].ver
      BY <1>3, <1>7, <2>1
    <3>2. new = [remote[i] EXCEPT !.ver = procs[p].ver + 1, !.cfg = procs[p].want]
      OBVIOUS
    <3>3. procs[p].ver + 1 \in Nat
      BY <1>2
    <3> HIDE DEF new, e, res
    <3>4. PICK r \in Resources : r = remote[i]
      BY <3>1
    <3>5. PICK n \in Nat : n = procs[p].ver + 1
      BY <3>3
    <3>6. PICK v \in FieldValues : v = procs[p].want
      BY <1>2
    <3>7. new = [r EXCEPT !.ver = n, !.cfg = v]
      BY <3>2, <3>4, <3>5, <3>6
    <3>8. new \in Resources /\ new.kind = r.kind /\ new.ver = n /\ new.cfg = v
      <4>1. new \in Resources
        BY <3>7 DEF Resources
      <4> QED
        BY <3>7, <4>1 DEF Resources
    <3> QED
      BY <3>1, <3>4, <3>5, <3>6, <3>8
  <2>3. remote' = [remote EXCEPT ![i] = new]
    BY <1>7
  <2> HIDE DEF e, new
  <2>4. /\ remote' \in Seq(Resources) /\ Len(remote') = Len(remote)
        /\ remote'[i] = new /\ \A j \in Ids \ {i} : remote'[j] = remote[j]
    BY <1>2, <1>3, <2>1, <2>2, <2>3
  <2>5. Ids' = Ids /\ e[2] \in 1..(Len(remote) + 1)
    BY <1>3, <2>1, <2>4 DEF Ids
  <2>6. e[3] \in 1..remote'[e[2]].ver /\ remote'[e[2]].ver >= remote[e[2]].ver
    BY <1>2, <1>3, <1>7, <2>1, <2>2, <2>4
  <2>7. Done(p, e)
    BY <1>1, <1>3, <1>4, <1>7, <2>1, <2>2, <2>4, <2>5, <2>6 DEF Done, e
  <2> QED
    BY <1>2, <2>7, DoneKeeps
<1>8. CASE procs' = [procs EXCEPT ![p].pc = "dead"] /\ UNCHANGED <<remote, files, fresh>>
  <2> DEFINE rec == [procs[p] EXCEPT !.pc = "dead"]
  <2>1. /\ rec \in Runs /\ rec.pc = "dead" /\ rec.state = procs[p].state /\ rec.base = procs[p].base
        /\ rec.at = procs[p].at
    BY <1>2 DEF Runs
  <2>2. procs' = [procs EXCEPT ![p] = rec]
    BY <1>8
  <2> HIDE DEF rec
  <2>3. /\ ProvTypes' /\ LastOfEach' /\ AllResolve'
        /\ procs'[p] = rec /\ \A q \in Procs \ {p} : procs'[q] = procs[q] /\ (Alone(q) => Alone(q)')
    BY <1>1, <1>2, <1>8, <2>1, <2>2, OthersKeep DEF ProvTypes
  <2>4. Running' = Running \ {p}
    BY <2>1, <2>3 DEF Running
  <2>5. OneAtATime'
    <3> SUFFICES ASSUME ~overlapped PROVE OneAtATime'
      BY <1>1 DEF OneAtATime
    <3>1. Prov!OneOfEach' /\ Running' = {}
      BY <1>2, <1>8, <2>4 DEF ProvInv, OneAtATime, Prov!OneOfEach
    <3> QED
      BY <3>1 DEF OneAtATime
  <2>6. Settled'
    BY <1>1, <1>2, <1>8 DEF ProvInv, Settled
  <2>7. NewRuns'
    BY <2>1, <2>3 DEF ProvInv, NewRuns
  <2> QED
    BY <2>3, <2>5, <2>6, <2>7 DEF ProvInv
<1> QED
  BY <1>1, <1>5, <1>6, <1>7, <1>8

LEMMA BeginKeeps ==
    ASSUME ProvInv, NEW p \in Procs, Prov!Begin(p)
    PROVE  ProvInv'
<1> DEFINE rec == [Prov!NoRun EXCEPT !.pc = "run"]
<1>1. /\ procs[p] = Prov!NoRun /\ procs[p] \in Runs /\ p \notin Running
      /\ procs' = [procs EXCEPT ![p] = rec]
      /\ overlapped' = (overlapped \/ Running # {}) /\ fresh' = FALSE
      /\ UNCHANGED <<manifest, remote, files>> /\ overlapped \in BOOLEAN
  BY DEF Prov!Begin, ProvInv, ProvTypes, NewRuns, Running
<1>2. /\ rec \in Runs /\ rec.pc = "run" /\ rec.at = 1 /\ ~rec.post /\ rec.state = {}
  <2>1. Prov!NoRun \in Runs /\ Prov!NoRun.at = 1 /\ ~Prov!NoRun.post /\ Prov!NoRun.state = {}
    BY StepFacts DEF Prov!NoRun
  <2> QED
    BY <2>1 DEF Runs
<1> HIDE DEF rec
<1>3. /\ ProvTypes' /\ LastOfEach' /\ AllResolve'
      /\ procs'[p] = rec /\ \A q \in Procs \ {p} : procs'[q] = procs[q] /\ (Alone(q) => Alone(q)')
  BY <1>1, <1>2, OthersKeep
<1>4. NewRuns'
  BY <1>2, <1>3 DEF ProvInv, NewRuns
<1>5. Running' = Running \cup {p}
  BY <1>2, <1>3 DEF Running
<1>6. Alone(p)'
  BY <1>2, <1>3 DEF Alone, Prov!Roster
<1>7. OneAtATime'
  <2> SUFFICES ASSUME ~overlapped' PROVE OneAtATime'
    BY DEF OneAtATime
  <2>1. Prov!OneOfEach' /\ Running' = {p}
    BY <1>1, <1>5 DEF ProvInv, OneAtATime, Prov!OneOfEach
  <2> QED
    BY <1>6, <2>1 DEF OneAtATime
<1> QED
  BY <1>1, <1>3, <1>4, <1>7 DEF ProvInv, Settled

LEMMA DieKeeps ==
    ASSUME ProvInv, NEW p \in Procs, Prov!Die(p)
    PROVE  ProvInv'
<1>1. /\ p \in Running /\ ~overlapped /\ procs' = [procs EXCEPT ![p] = Prov!NoRun]
      /\ UNCHANGED <<manifest, remote, files, overlapped, fresh>>
      /\ overlapped' \in BOOLEAN /\ fresh' \in BOOLEAN
  BY DEF Prov!Die, Running, ProvInv, ProvTypes
<1>2. /\ ProvTypes' /\ LastOfEach' /\ AllResolve'
      /\ procs'[p] = Prov!NoRun /\ \A q \in Procs \ {p} : procs'[q] = procs[q] /\ (Alone(q) => Alone(q)')
  BY <1>1, StepFacts, OthersKeep
<1>3. NewRuns' /\ Running' = Running \ {p} /\ Running = {p}
  BY <1>1, <1>2, StepFacts DEF ProvInv, NewRuns, Running, OneAtATime
<1>4. Prov!OneOfEach'
  BY <1>1 DEF ProvInv, OneAtATime, Prov!OneOfEach
<1> QED
  BY <1>1, <1>2, <1>3, <1>4 DEF ProvInv, OneAtATime, Settled

LEMMA EditKeeps ==
    ASSUME ProvInv, Prov!Edit
    PROVE  ProvInv'
<1>1. /\ ~overlapped /\ Running = {} /\ fresh' = FALSE
      /\ manifest' \in {{v} : v \in ManifestFields} \cup {{}}
      /\ UNCHANGED <<remote, procs, files, overlapped>>
  BY DEF Prov!Edit, Running
<1>2. manifest' \in FieldValues
  BY <1>1 DEF FieldValues
<1>3. ProvTypes' /\ LastOfEach' /\ NewRuns' /\ Running' = {}
  BY <1>1, <1>2 DEF ProvInv, ProvTypes, LastOfEach, NewRuns, Ids, Running
<1>4. AllResolve' /\ Prov!OneOfEach'
  BY <1>1 DEF ProvInv, AllResolve, Resolves, Kind, Ids, OneAtATime, Prov!OneOfEach
<1> QED
  BY <1>1, <1>3, <1>4 DEF ProvInv, OneAtATime, Settled

LEMMA ProvNext ==
    ASSUME ProvInv, [Next]_vars
    PROVE  ProvInv'
<1>1. Prov!Next \/ UNCHANGED provVars
  BY DEF Next, Only, vars
<1>2. CASE UNCHANGED provVars
  <2>1. UNCHANGED <<manifest, remote, procs, files, overlapped, fresh>>
    BY <1>2 DEF provVars
  <2>2. ProvTypes' /\ LastOfEach' /\ AllResolve' /\ NewRuns'
    BY <2>1 DEF ProvInv, ProvTypes, LastOfEach, AllResolve, NewRuns, Resolves, Kind, Ids
  <2>3. /\ Running' = Running /\ Prov!OneOfEach' = Prov!OneOfEach
        /\ \A p \in Procs : Alone(p)' = Alone(p)
    BY <2>1 DEF Running, Prov!OneOfEach, Alone, Kind, Prov!list_all, Prov!agent_payload, Prov!Roster
  <2>4. Prov!RosterMatches' = Prov!RosterMatches /\ Prov!AppliedWhereGiven' = Prov!AppliedWhereGiven
    BY <2>1 DEF Prov!RosterMatches, Prov!AppliedWhereGiven, Prov!list_all
  <2>5. OneAtATime' /\ Settled'
    BY <2>1, <2>3, <2>4 DEF ProvInv, OneAtATime, Settled, Running
  <2> QED
    BY <2>2, <2>5 DEF ProvInv
<1>3. CASE Prov!Next
  BY <1>3, EditKeeps, BeginKeeps, LookKeeps, PostKeeps, DieKeeps DEF Prov!Next
<1> QED
  BY <1>1, <1>2, <1>3

\* Runs of provisioning that are cut off, repeated and overlap leave files that name what
\* exists; while they do not overlap, nothing is made twice, and a full run leaves the
\* roster current and the role as its manifest says: for any runs, fields, edits, deaths.
THEOREM ProvisioningKept == Spec => []ProvisioningConverges
<1>1. ProvInv => ProvisioningConverges
  <2> SUFFICES ASSUME ProvInv PROVE ProvisioningConverges
    OBVIOUS
  <2>1. Prov!OneOfEach /\ Prov!RosterMatches /\ Prov!AppliedWhereGiven
    BY DEF ProvInv, OneAtATime, Settled, Prov!OneOfEach, Prov!RosterMatches, Prov!AppliedWhereGiven
  <2>2. Prov!FilesResolve
    BY DEF ProvInv, ProvTypes, AllResolve, Resolves, Ids, Prov!FilesResolve
  <2> QED
    BY <2>1, <2>2 DEF ProvisioningConverges
<1> QED
  BY <1>1, ProvInit, ProvNext, PTL DEF Spec

------------------------------------------------------------------------------
(* AlertDispatcher                                                         *)

FaultData == [status : {"none", "open", "closed"}, spawnedAt : Nat, session : BOOLEAN]
StateData == [days : [Dispatcher!Days -> Nat], faults : [Faults -> FaultData]]
Handling == [pc : {"idle", "lock", "reserved", "sent"},
             fault : Faults \cup {CHOOSE f \in Faults : TRUE}, status : {"firing", "resolved"}, now : Nat]

DispatcherTypes ==
    /\ clock \in 0..MaxTime /\ armed \in BOOLEAN
    /\ mem \in StateData /\ disk \in StateData
    /\ th \in [Threads -> Handling] /\ made \in [Dispatcher!Days -> Nat]
    /\ last \in [Faults -> [status : {"none", "open", "closed"}, spawnedAt : Nat]]

\* Stamps are of the past, and one thread holds the lock.
Holding == {t \in Threads : th[t].pc \in {"reserved", "sent"}}
Stamped ==
    /\ \A t \in Threads : th[t].pc # "idle" => th[t].now <= clock /\ th[t].fault \in Faults
    /\ \A t, u \in Holding : t = u

\* Memory, and what a process started now would load, know of the last request for a fault.
Knows(data, f) ==
    last[f].status # "none" =>
        /\ data.faults[f].status # "none" /\ data.faults[f].spawnedAt >= last[f].spawnedAt
        /\ last[f].status = "open" => data.faults[f].status = "open"
FaultsKnown == \A f \in Faults : Knows(mem, f) /\ Knows(disk, f)

\* A reservation is in memory and in the file, and far enough from the last request.
Noted(data, f, now) == data.faults[f].status = "open" /\ data.faults[f].spawnedAt = now
Far(f, now) ==
    last[f].status # "none" => /\ now - last[f].spawnedAt >= CooldownSeconds
                               /\ last[f].status = "open" => now - last[f].spawnedAt >= OpenTtlSeconds
WellReserved(t) ==
    /\ Noted(mem, th[t].fault, th[t].now) /\ Noted(disk, th[t].fault, th[t].now)
    /\ Far(th[t].fault, th[t].now)
ReservedFar == \A t \in Threads : th[t].pc = "reserved" => WellReserved(t)

\* A day's bucket has its requests and the one that is reserved, and is within the caps;
\* or the day is over, and no thread that still waits adds more than the caps let pass
\* and one each, but for the thread of a later day that dropped the bucket.
ReservedOf(d) == {t \in Threads : th[t].pc = "reserved" /\ Dispatcher!Day(th[t].now) = d}
WaitingOf(d) == {t \in Threads : th[t].pc \in {"lock", "reserved"} /\ Dispatcher!Day(th[t].now) = d}
Capped(n) == n <= DailySpawnCap /\ n * EstimatedSessionCostUsd <= DailySpendCapUsd

BucketKept(d) ==
    /\ made[d] <= disk.days[d] /\ disk.days[d] <= mem.days[d] /\ Capped(mem.days[d])
    /\ ReservedOf(d) # {} => made[d] < disk.days[d]
DayOver(d) ==
    /\ d < Dispatcher!Day(clock)
    /\ made[d] + Cardinality(WaitingOf(d)) <= DailySpawnCap + Cardinality(Threads) - 1

Buckets == \A d \in Dispatcher!Days : BucketKept(d) \/ DayOver(d)

DispatcherInv == DispatcherTypes /\ Stamped /\ FaultsKnown /\ ReservedFar /\ Buckets

LEMMA DayFacts ==
    /\ \A now \in Nat : Dispatcher!Day(now) \in Nat
    /\ \A now \in Nat, then \in Nat : now <= then => Dispatcher!Day(now) <= Dispatcher!Day(then)
    /\ \A now \in 0..MaxTime : Dispatcher!Day(now) \in Dispatcher!Days
<1>1. \A now \in Nat : Dispatcher!Day(now) \in Nat
  BY DispatcherAssumption DEF Dispatcher!Day
<1>2. ASSUME NEW now \in Nat, NEW then \in Nat, now <= then
      PROVE  Dispatcher!Day(now) <= Dispatcher!Day(then)
  BY <1>2, DispatcherAssumption DEF Dispatcher!Day
<1> QED
  BY <1>1, <1>2, DispatcherAssumption DEF Dispatcher!Days

LEMMA CapFacts ==
    /\ Capped(0)
    /\ \A n \in Nat : Dispatcher!WithinCaps(n) => Capped(n + 1)
    /\ \A n \in Nat, m \in Nat : n <= m /\ Capped(m) => Capped(n)
<1>1. Capped(0)
  BY DispatcherAssumption DEF Capped
<1>2. \A n \in Nat : Dispatcher!WithinCaps(n) => Capped(n + 1)
  BY DispatcherAssumption DEF Capped, Dispatcher!WithinCaps
<1>3. ASSUME NEW n \in Nat, NEW m \in Nat, n <= m PROVE n * EstimatedSessionCostUsd <= m * EstimatedSessionCostUsd
  BY <1>3, DispatcherAssumption
<1> QED
  BY <1>1, <1>2, <1>3, DispatcherAssumption DEF Capped

LEMMA ThreadCounts ==
    /\ \A S \in SUBSET Threads : IsFiniteSet(S) /\ Cardinality(S) \in Nat /\ Cardinality(S) <= Cardinality(Threads)
    /\ \A S, T \in SUBSET Threads : S \subseteq T => Cardinality(S) <= Cardinality(T)
    /\ \A S \in SUBSET Threads : \A t \in S : Cardinality(S \ {t}) = Cardinality(S) - 1
    /\ Cardinality(Threads) >= 1
<1>1. \A S \in SUBSET Threads : IsFiniteSet(S) /\ Cardinality(S) \in Nat
  BY DispatcherAssumption, FS_Subset, FS_CardinalityType
<1>2. \A S, T \in SUBSET Threads : S \subseteq T => Cardinality(S) <= Cardinality(T)
  BY <1>1, FS_Subset
<1>3. \A S \in SUBSET Threads : \A t \in S : Cardinality(S \ {t}) = Cardinality(S) - 1
  BY <1>1, FS_RemoveElement
<1>4. Cardinality(Threads) >= 1
  BY <1>1, DispatcherAssumption, FS_EmptySet
<1> QED
  BY <1>1, <1>2, <1>3, <1>4

LEMMA DispatcherInit == Init => DispatcherInv
<1> SUFFICES ASSUME Init PROVE DispatcherInv
  OBVIOUS
<1> Dispatcher!Init
  BY DEF Init
<1>1. /\ clock = 0 /\ armed \in BOOLEAN /\ mem = Dispatcher!NoData /\ disk = Dispatcher!NoData
      /\ th = [t \in Threads |-> Dispatcher!Idle] /\ made = [d \in Dispatcher!Days |-> 0]
      /\ last = [f \in Faults |-> [status |-> "none", spawnedAt |-> 0]]
  BY DEF Dispatcher!Init
<1>2. /\ Dispatcher!NoData \in StateData /\ \A d \in Dispatcher!Days : Dispatcher!NoData.days[d] = 0
  BY DEF Dispatcher!NoData, Dispatcher!NoFault, StateData, FaultData
<1>3. Dispatcher!Idle \in Handling /\ Dispatcher!Idle.pc = "idle"
  BY DEF Dispatcher!Idle, Handling
<1>4. DispatcherTypes
  BY <1>1, <1>2, <1>3, DispatcherAssumption DEF DispatcherTypes
<1>5. Stamped /\ ReservedFar /\ FaultsKnown
  BY <1>1, <1>3 DEF Stamped, Holding, ReservedFar, FaultsKnown, Knows
<1>6. Buckets
  BY <1>1, <1>2, <1>3, CapFacts DEF Buckets, BucketKept, ReservedOf
<1> QED
  BY <1>4, <1>5, <1>6 DEF DispatcherInv

\* What the functions of dispatcher.py do to the state's data.
LEMMA ReservedFacts ==
    ASSUME DispatcherTypes, NEW f \in Faults, NEW now \in 0..MaxTime
    PROVE  LET data == Dispatcher!Reserved(f, now)
           IN  /\ data \in StateData
               /\ \A d \in Dispatcher!Days : data.days[d] = IF d < Dispatcher!Day(now) THEN 0
                      ELSE IF d = Dispatcher!Day(now) THEN mem.days[d] + 1 ELSE mem.days[d]
               /\ Noted(data, f, now)
               /\ \A g \in Faults \ {f} : data.faults[g] = mem.faults[g]
<1> DEFINE days == [d \in Dispatcher!Days |-> IF d < Dispatcher!Day(now) THEN 0
                      ELSE IF d = Dispatcher!Day(now) THEN mem.days[d] + 1 ELSE mem.days[d]]
           entry == [status |-> "open", spawnedAt |-> now, session |-> FALSE]
           faults == [mem.faults EXCEPT ![f] = entry]
<1>1. Dispatcher!Reserved(f, now) = [days |-> days, faults |-> faults]
  BY DEF Dispatcher!Reserved
<1>2. mem.days \in [Dispatcher!Days -> Nat] /\ mem.faults \in [Faults -> FaultData]
  BY DEF DispatcherTypes, StateData
<1>3. entry \in FaultData /\ entry.status = "open" /\ entry.spawnedAt = now
  BY DEF FaultData
<1>4. days \in [Dispatcher!Days -> Nat]
  BY <1>2
<1> HIDE DEF entry
<1>5. /\ faults \in [Faults -> FaultData] /\ faults[f] = entry
      /\ \A g \in Faults \ {f} : faults[g] = mem.faults[g]
  BY <1>2, <1>3
<1> QED
  BY <1>1, <1>3, <1>4, <1>5 DEF StateData, Noted

LEMMA ClosedFacts ==
    ASSUME DispatcherTypes, NEW f \in Faults
    PROVE  LET data == Dispatcher!Closed(f)
           IN  /\ data \in StateData /\ data.days = mem.days
               /\ \A g \in Faults : /\ data.faults[g].spawnedAt = mem.faults[g].spawnedAt
                                    /\ data.faults[g].status = "none" <=> mem.faults[g].status = "none"
                                    /\ g # f => data.faults[g] = mem.faults[g]
<1> DEFINE entry == [mem.faults[f] EXCEPT !.status = "closed"]
           faults == [mem.faults EXCEPT ![f] = entry]
           data == [mem EXCEPT !.faults = faults]
<1>1. mem.days \in [Dispatcher!Days -> Nat] /\ mem.faults \in [Faults -> FaultData] /\ mem \in StateData
  BY DEF DispatcherTypes, StateData
<1>2. entry \in FaultData /\ entry.spawnedAt = mem.faults[f].spawnedAt /\ entry.status = "closed"
  BY <1>1 DEF FaultData
<1>3. Dispatcher!Closed(f) = IF mem.faults[f].status = "open" THEN data ELSE mem
  BY DEF Dispatcher!Closed
<1> HIDE DEF entry
<1>4. /\ faults \in [Faults -> FaultData] /\ faults[f] = entry
      /\ \A g \in Faults \ {f} : faults[g] = mem.faults[g]
  BY <1>1, <1>2
<1> HIDE DEF faults
<1>5. data \in StateData /\ data.days = mem.days /\ data.faults = faults
  BY <1>1, <1>4 DEF StateData
<1> HIDE DEF data
<1> QED
  BY <1>1, <1>2, <1>3, <1>4, <1>5

LEMMA SessionFacts ==
    ASSUME DispatcherTypes, NEW f \in Faults
    PROVE  LET data == [mem EXCEPT !.faults[f].session = TRUE]
           IN  /\ data \in StateData /\ data.days = mem.days
               /\ \A g \in Faults : /\ data.faults[g].spawnedAt = mem.faults[g].spawnedAt
                                    /\ data.faults[g].status = mem.faults[g].status
<1> DEFINE entry == [mem.faults[f] EXCEPT !.session = TRUE]
           faults == [mem.faults EXCEPT ![f] = entry]
           data == [mem EXCEPT !.faults = faults]
<1>1. mem.days \in [Dispatcher!Days -> Nat] /\ mem.faults \in [Faults -> FaultData] /\ mem \in StateData
  BY DEF DispatcherTypes, StateData
<1>2. entry \in FaultData /\ entry.spawnedAt = mem.faults[f].spawnedAt /\ entry.status = mem.faults[f].status
  BY <1>1 DEF FaultData
<1>3. [mem EXCEPT !.faults[f].session = TRUE] = data
  OBVIOUS
<1> HIDE DEF entry
<1>4. /\ faults \in [Faults -> FaultData] /\ faults[f] = entry
      /\ \A g \in Faults \ {f} : faults[g] = mem.faults[g]
  BY <1>1, <1>2
<1> HIDE DEF faults
<1>5. data \in StateData /\ data.days = mem.days /\ data.faults = faults
  BY <1>1, <1>4 DEF StateData
<1> HIDE DEF data
<1> QED
  BY <1>1, <1>2, <1>3, <1>4, <1>5

\* A thread goes on to h, and the clock stands.
LEMMA Moves ==
    ASSUME DispatcherInv, NEW t \in Threads, NEW h \in Handling, th' = [th EXCEPT ![t] = h], clock' = clock,
           h.pc # "idle" => h.now \in 0..clock /\ h.fault \in Faults,
           h.pc \in {"reserved", "sent"} => Holding \subseteq {t}
    PROVE  /\ th' \in [Threads -> Handling] /\ th'[t] = h /\ \A u \in Threads \ {t} : th'[u] = th[u]
           /\ Stamped'
<1>1. th' \in [Threads -> Handling] /\ th'[t] = h /\ \A u \in Threads \ {t} : th'[u] = th[u]
  BY DEF DispatcherInv, DispatcherTypes
<1>2. Holding' \subseteq Holding \cup {t} /\ (t \in Holding' => h.pc \in {"reserved", "sent"})
  BY <1>1 DEF Holding
<1>3. \A u, v \in Holding' : u = v
  BY <1>2 DEF DispatcherInv, Stamped
<1>4. \A u \in Threads : th'[u].pc # "idle" => th'[u].now <= clock /\ th'[u].fault \in Faults
  BY <1>1 DEF DispatcherInv, Stamped
<1> QED
  BY <1>1, <1>3, <1>4 DEF Stamped

LEMMA Frees ==
    ASSUME DispatcherInv, NEW t \in Threads, Dispatcher!Return(t), clock' = clock
    PROVE  /\ th' \in [Threads -> Handling] /\ Stamped' /\ th'[t].pc = "idle"
           /\ \A u \in Threads \ {t} : th'[u] = th[u]
           /\ \A d \in Dispatcher!Days : /\ ReservedOf(d)' \subseteq ReservedOf(d) \ {t}
                                         /\ WaitingOf(d)' \subseteq WaitingOf(d) \ {t}
<1>1. Dispatcher!Idle \in Handling /\ Dispatcher!Idle.pc = "idle"
  BY DEF Dispatcher!Idle, Handling
<1>2. th' = [th EXCEPT ![t] = Dispatcher!Idle]
  BY DEF Dispatcher!Return
<1>3. /\ th' \in [Threads -> Handling] /\ Stamped' /\ th'[t].pc = "idle"
      /\ \A u \in Threads \ {t} : th'[u] = th[u]
  BY <1>1, <1>2, Moves
<1> QED
  BY <1>3 DEF ReservedOf, WaitingOf

LEMMA BucketTypes ==
    ASSUME DispatcherInv, NEW d \in Dispatcher!Days
    PROVE  /\ made[d] \in Nat /\ mem.days[d] \in Nat /\ disk.days[d] \in Nat
           /\ d \in Nat /\ Dispatcher!Day(clock) \in Nat
<1>1. /\ made \in [Dispatcher!Days -> Nat] /\ mem \in StateData /\ disk \in StateData
      /\ clock \in Nat /\ MaxTime \in Nat
  BY DispatcherAssumption DEF DispatcherInv, DispatcherTypes
<1>2. /\ mem.days \in [Dispatcher!Days -> Nat] /\ disk.days \in [Dispatcher!Days -> Nat]
  BY <1>1 DEF StateData
<1>3. Dispatcher!Day(clock) \in Nat /\ Dispatcher!Day(MaxTime) \in Nat
  BY <1>1, DayFacts
<1>4. d \in Nat
  BY <1>3 DEF Dispatcher!Days
<1> QED
  BY <1>1, <1>2, <1>3, <1>4

\* The buckets stand while no thread begins to wait and memory's are as they were.
LEMMA BucketsStand ==
    ASSUME DispatcherInv, made' = made, clock' = clock, mem'.days = mem.days,
           disk'.days = disk.days \/ disk'.days = mem.days,
           \A d \in Dispatcher!Days : /\ ReservedOf(d)' \subseteq ReservedOf(d)
                                      /\ d < Dispatcher!Day(clock) => WaitingOf(d)' \subseteq WaitingOf(d)
    PROVE  Buckets'
<1> SUFFICES ASSUME NEW d \in Dispatcher!Days PROVE BucketKept(d)' \/ DayOver(d)'
  BY DEF Buckets
<1>1. /\ made[d] \in Nat /\ mem.days[d] \in Nat /\ disk.days[d] \in Nat
      /\ d \in Nat /\ Dispatcher!Day(clock) \in Nat
  BY BucketTypes
<1>2. CASE BucketKept(d)
  <2>1. /\ made[d] <= disk'.days[d] /\ disk'.days[d] <= mem'.days[d] /\ Capped(mem'.days[d])
        /\ ReservedOf(d)' # {} => made[d] < disk'.days[d]
    BY <1>1, <1>2 DEF BucketKept
  <2> QED
    BY <2>1 DEF BucketKept, Capped
<1>3. CASE DayOver(d)
  <2>1. WaitingOf(d)' \in SUBSET Threads /\ WaitingOf(d) \in SUBSET Threads
    BY DEF WaitingOf
  <2>2. /\ Cardinality(WaitingOf(d)') <= Cardinality(WaitingOf(d))
        /\ Cardinality(WaitingOf(d)') \in Nat /\ Cardinality(WaitingOf(d)) \in Nat
    BY <1>3, <2>1, ThreadCounts DEF DayOver
  <2>3. Dispatcher!Day(clock)' = Dispatcher!Day(clock)
    BY DEF Dispatcher!Day
  <2> QED
    BY <1>1, <1>3, <2>2, <2>3, ThreadCounts, DispatcherAssumption DEF DayOver
<1> QED
  BY <1>2, <1>3 DEF DispatcherInv, Buckets

\* Nothing but the thread's local variables.
LEMMA QuietKeeps ==
    ASSUME DispatcherInv, UNCHANGED <<clock, armed, mem, disk, made, last>>,
           th' \in [Threads -> Handling], Stamped',
           \A t \in Threads : th'[t].pc = "reserved" => th'[t] = th[t],
           \A d \in Dispatcher!Days : /\ ReservedOf(d)' \subseteq ReservedOf(d)
                                      /\ d < Dispatcher!Day(clock) => WaitingOf(d)' \subseteq WaitingOf(d)
    PROVE  DispatcherInv'
<1>1. DispatcherTypes' /\ FaultsKnown'
  BY DEF DispatcherInv, DispatcherTypes, FaultsKnown, Knows
<1>2. ReservedFar'
  <2> SUFFICES ASSUME NEW t \in Threads, th'[t].pc = "reserved"
               PROVE  WellReserved(t)'
    BY DEF ReservedFar
  <2>1. WellReserved(t) /\ th'[t] = th[t]
    BY DEF DispatcherInv, ReservedFar
  <2> QED
    BY <2>1 DEF WellReserved, Noted, Far
<1>3. Buckets'
  BY BucketsStand
<1> QED
  BY <1>1, <1>2, <1>3 DEF DispatcherInv

LEMMA QuietSteps ==
    ASSUME DispatcherInv, NEW t \in Threads,
           \/ Dispatcher!Receive(t) \/ Dispatcher!Skip(t) \/ Dispatcher!MintFails(t)
           \/ Dispatcher!CreateFails(t)
    PROVE  DispatcherInv'
<1>1. CASE Dispatcher!Receive(t)
  <2>1. PICK f \in Faults, s \in {"firing", "resolved"} :
            th' = [th EXCEPT ![t] = [pc |-> "lock", fault |-> f, status |-> s, now |-> clock]]
    BY <1>1 DEF Dispatcher!Receive
  <2> DEFINE h == [pc |-> "lock", fault |-> f, status |-> s, now |-> clock]
  <2>2. h \in Handling /\ h.pc = "lock" /\ h.now = clock /\ h.fault \in Faults /\ clock \in 0..clock
    BY DEF Handling, DispatcherInv, DispatcherTypes
  <2>3. /\ th[t].pc = "idle" /\ UNCHANGED <<clock, armed, mem, disk, made, last>>
        /\ th' = [th EXCEPT ![t] = h]
    BY <1>1, <2>1 DEF Dispatcher!Receive
  <2> HIDE DEF h
  <2>4. /\ th' \in [Threads -> Handling] /\ th'[t] = h /\ \A u \in Threads \ {t} : th'[u] = th[u]
        /\ Stamped'
    BY <2>2, <2>3, Moves
  <2>5. \A d \in Dispatcher!Days : /\ ReservedOf(d)' \subseteq ReservedOf(d)
                                   /\ d < Dispatcher!Day(clock) => WaitingOf(d)' \subseteq WaitingOf(d)
    <3> SUFFICES ASSUME NEW d \in Dispatcher!Days, NEW u \in Threads
                 PROVE  /\ u \in ReservedOf(d)' => u \in ReservedOf(d)
                        /\ d < Dispatcher!Day(clock) /\ u \in WaitingOf(d)' => u \in WaitingOf(d)
      BY DEF ReservedOf, WaitingOf
    <3>1. CASE u = t
      <4>1. Dispatcher!Day(clock) \in Nat
        BY DayFacts DEF DispatcherInv, DispatcherTypes
      <4>2. u \notin ReservedOf(d)' /\ (u \in WaitingOf(d)' => d = Dispatcher!Day(clock))
        BY <2>2, <2>4, <3>1 DEF ReservedOf, WaitingOf
      <4> QED
        BY <4>1, <4>2
    <3>2. CASE u # t
      BY <2>4, <3>2 DEF ReservedOf, WaitingOf
    <3> QED
      BY <3>1, <3>2
  <2>6. \A u \in Threads : th'[u].pc = "reserved" => th'[u] = th[u]
    BY <2>2, <2>4
  <2> QED
    BY <2>3, <2>4, <2>5, <2>6, QuietKeeps
<1>2. CASE Dispatcher!Skip(t) \/ Dispatcher!MintFails(t) \/ Dispatcher!CreateFails(t)
  <2>1. Dispatcher!Return(t) /\ UNCHANGED <<clock, armed, mem, disk, made, last>>
    BY <1>2 DEF Dispatcher!Skip, Dispatcher!MintFails, Dispatcher!CreateFails
  <2> QED
    BY <2>1, Frees, QuietKeeps
<1> QED
  BY <1>1, <1>2

\* While a thread holds no lock that another could, none is reserved.
LEMMA Entered ==
    ASSUME DispatcherInv, NEW t \in Threads, NEW s, Dispatcher!Enter(t, s)
    PROVE  /\ Holding = {} /\ th[t].pc = "lock" /\ th[t].status = s
           /\ th[t].fault \in Faults /\ th[t].now \in 0..clock /\ th[t].now \in 0..MaxTime
           /\ clock \in Nat /\ \A d \in Dispatcher!Days : ReservedOf(d) = {}
<1>1. /\ Holding = {} /\ th[t].pc = "lock" /\ th[t].status = s
  BY DEF Dispatcher!Enter, Dispatcher!Locked, Holding
<1>2. /\ th[t] \in Handling /\ clock \in 0..MaxTime /\ MaxTime \in Nat
  BY DispatcherAssumption DEF DispatcherInv, DispatcherTypes
<1>3. th[t].now \in Nat /\ th[t].now <= clock /\ th[t].fault \in Faults
  BY <1>1, <1>2 DEF DispatcherInv, Stamped, Handling
<1>4. \A d \in Dispatcher!Days : ReservedOf(d) = {}
  BY <1>1 DEF ReservedOf, Holding
<1> QED
  BY <1>1, <1>2, <1>3, <1>4

LEMMA FaultTypes ==
    ASSUME DispatcherTypes, NEW f \in Faults
    PROVE  /\ mem.faults[f].spawnedAt \in Nat /\ disk.faults[f].spawnedAt \in Nat /\ last[f].spawnedAt \in Nat
           /\ last[f].status \in {"none", "open", "closed"}
<1>1. mem \in StateData /\ disk \in StateData /\ last[f] \in [status : {"none", "open", "closed"}, spawnedAt : Nat]
  BY DEF DispatcherTypes
<1>2. mem.faults[f] \in FaultData /\ disk.faults[f] \in FaultData
  BY <1>1 DEF StateData
<1> QED
  BY <1>1, <1>2 DEF FaultData

LEMMA ResolvedKeeps ==
    ASSUME DispatcherInv, NEW t \in Threads, Dispatcher!Resolved(t)
    PROVE  DispatcherInv'
<1> DEFINE f == th[t].fault
           data == Dispatcher!Closed(f)
           entry == [last[f] EXCEPT !.status = IF @ = "none" THEN @ ELSE "closed"]
<1>1. /\ Dispatcher!Enter(t, "resolved") /\ mem' = data /\ disk' \in {disk, data}
      /\ last' = [last EXCEPT ![f] = entry] /\ Dispatcher!Return(t) /\ UNCHANGED <<clock, armed, made>>
  BY DEF Dispatcher!Resolved
<1>2. /\ Holding = {} /\ f \in Faults
  BY <1>1, Entered
<1>3. /\ th' \in [Threads -> Handling] /\ Stamped' /\ th'[t].pc = "idle"
      /\ \A u \in Threads \ {t} : th'[u] = th[u]
      /\ \A d \in Dispatcher!Days : /\ ReservedOf(d)' \subseteq ReservedOf(d)
                                    /\ WaitingOf(d)' \subseteq WaitingOf(d)
  BY <1>1, Frees
<1>4. ReservedFar'
  BY <1>2, <1>3 DEF ReservedFar, Holding
<1>5. /\ data \in StateData /\ data.days = mem.days
      /\ \A g \in Faults : /\ data.faults[g].spawnedAt = mem.faults[g].spawnedAt
                           /\ data.faults[g].status = "none" <=> mem.faults[g].status = "none"
                           /\ g # f => data.faults[g] = mem.faults[g]
  BY <1>2, ClosedFacts DEF DispatcherInv
<1>6. /\ last[f] \in [status : {"none", "open", "closed"}, spawnedAt : Nat]
      /\ last \in [Faults -> [status : {"none", "open", "closed"}, spawnedAt : Nat]]
  BY <1>2 DEF DispatcherInv, DispatcherTypes
<1>7. /\ entry \in [status : {"none", "open", "closed"}, spawnedAt : Nat]
      /\ entry.status = (IF last[f].status = "none" THEN "none" ELSE "closed")
      /\ entry.spawnedAt = last[f].spawnedAt
  BY <1>6
<1> HIDE DEF data, entry
<1>8. /\ last' \in [Faults -> [status : {"none", "open", "closed"}, spawnedAt : Nat]]
      /\ last'[f] = entry /\ \A g \in Faults \ {f} : last'[g] = last[g]
  BY <1>1, <1>2, <1>6, <1>7
<1>9. DispatcherTypes'
  BY <1>1, <1>3, <1>5, <1>8 DEF DispatcherInv, DispatcherTypes
<1>10. FaultsKnown'
  <2> SUFFICES ASSUME NEW g \in Faults PROVE Knows(mem, g)' /\ Knows(disk, g)'
    BY DEF FaultsKnown, Knows
  <2>1. Knows(mem, g) /\ Knows(disk, g)
    BY DEF DispatcherInv, FaultsKnown
  <2>2. CASE g = f
    BY <1>1, <1>5, <1>7, <1>8, <2>1, <2>2, SMTT(20) DEF Knows
  <2>3. CASE g # f
    BY <1>1, <1>5, <1>8, <2>1, <2>3 DEF Knows
  <2> QED
    BY <2>2, <2>3
<1>11. Buckets'
  <2>1. mem'.days = mem.days /\ (disk'.days = disk.days \/ disk'.days = mem.days)
    BY <1>1, <1>5
  <2> QED
    BY <1>1, <1>3, <2>1, BucketsStand
<1> QED
  BY <1>3, <1>4, <1>9, <1>10, <1>11 DEF DispatcherInv

\* What memory is after an attempt is counted, whether it is saved or not.
LEMMA Attempted ==
    ASSUME DispatcherInv, NEW t \in Threads, Dispatcher!Enter(t, "firing"),
           Dispatcher!decide(th[t].fault, th[t].now), mem' = Dispatcher!Reserved(th[t].fault, th[t].now),
           disk' = disk \/ disk' = mem', UNCHANGED <<clock, made, last>>
    PROVE  /\ mem' \in StateData /\ disk' \in StateData /\ FaultsKnown'
           /\ Noted(mem', th[t].fault, th[t].now) /\ Far(th[t].fault, th[t].now)
           /\ \A d \in Dispatcher!Days :
                mem'.days[d] = IF d < Dispatcher!Day(th[t].now) THEN 0
                               ELSE IF d = Dispatcher!Day(th[t].now) THEN mem.days[d] + 1 ELSE mem.days[d]
<1> DEFINE f == th[t].fault
           now == th[t].now
<1>1. f \in Faults /\ now \in 0..MaxTime /\ now \in Nat /\ clock \in Nat /\ DispatcherTypes
  BY Entered, DispatcherAssumption DEF DispatcherInv
<1>2. /\ mem' \in StateData
      /\ \A d \in Dispatcher!Days : mem'.days[d] = IF d < Dispatcher!Day(now) THEN 0
                      ELSE IF d = Dispatcher!Day(now) THEN mem.days[d] + 1 ELSE mem.days[d]
      /\ Noted(mem', f, now)
      /\ \A g \in Faults \ {f} : mem'.faults[g] = mem.faults[g]
  BY <1>1, ReservedFacts
<1>3. mem.faults[f].status # "none" =>
          /\ now - mem.faults[f].spawnedAt >= CooldownSeconds
          /\ mem.faults[f].status = "open" => now - mem.faults[f].spawnedAt >= OpenTtlSeconds
  BY <1>1, FaultTypes, DispatcherAssumption DEF Dispatcher!decide, Dispatcher!Recent
<1>4. Knows(mem, f)
  BY <1>1 DEF DispatcherInv, FaultsKnown
<1>5. Far(f, now)
  BY <1>1, <1>3, <1>4, FaultTypes, DispatcherAssumption, SMTT(20) DEF Far, Knows
<1>6. last[f].status # "none" => now >= last[f].spawnedAt
  BY <1>1, <1>5, FaultTypes, DispatcherAssumption DEF Far
<1>7. FaultsKnown'
  <2> SUFFICES ASSUME NEW g \in Faults PROVE Knows(mem, g)' /\ Knows(disk, g)'
    BY DEF FaultsKnown, Knows
  <2>1. Knows(mem, g) /\ Knows(disk, g)
    BY DEF DispatcherInv, FaultsKnown
  <2>2. last[g].status # "none" => /\ mem'.faults[g].status # "none" /\ mem'.faults[g].spawnedAt >= last[g].spawnedAt
                                   /\ last[g].status = "open" => mem'.faults[g].status = "open"
    <3>1. CASE g = f
      BY <1>2, <1>6, <3>1 DEF Noted
    <3>2. CASE g # f
      BY <1>2, <2>1, <3>2 DEF Knows
    <3> QED
      BY <3>1, <3>2
  <2> QED
    BY <2>1, <2>2 DEF Knows
<1>8. disk' \in StateData
  BY <1>1, <1>2 DEF DispatcherTypes
<1> QED
  BY <1>2, <1>5, <1>7, <1>8

\* The buckets after an attempt is counted: a day before its stamp is over.
LEMMA BucketsCounted ==
    ASSUME DispatcherInv, NEW t \in Threads, Dispatcher!Enter(t, "firing"),
           Dispatcher!decide(th[t].fault, th[t].now), mem' = Dispatcher!Reserved(th[t].fault, th[t].now),
           disk' = mem' \/ (disk' = disk /\ th'[t].pc = "idle"), UNCHANGED <<clock, made, last>>,
           \A u \in Threads \ {t} : th'[u] = th[u], th'[t].pc # "lock", th'[t].pc = "reserved" => th'[t].now = th[t].now
    PROVE  Buckets'
<1> DEFINE D == Dispatcher!Day(th[t].now)
<1>1. /\ \A d \in Dispatcher!Days : /\ mem'.days[d] = IF d < D THEN 0 ELSE IF d = D THEN mem.days[d] + 1 ELSE mem.days[d]
                                    /\ ReservedOf(d) = {}
      /\ Dispatcher!WithinCaps(mem.days[D])
  BY Entered, Attempted DEF Dispatcher!decide
<1>2. D \in Nat /\ Dispatcher!Day(clock) \in Nat /\ D <= Dispatcher!Day(clock) /\ th[t].pc = "lock"
  BY Entered, DayFacts
<1>3. ASSUME NEW d \in Dispatcher!Days
      PROVE  /\ ReservedOf(d)' # {} => d = D /\ th'[t].pc = "reserved"
             /\ WaitingOf(d)' \subseteq WaitingOf(d)
             /\ d # D => WaitingOf(d)' \subseteq Threads \ {t}
  <2>1. ASSUME NEW u \in ReservedOf(d)' PROVE d = D /\ th'[t].pc = "reserved"
    <3>1. u = t
      BY <1>1, <2>1 DEF ReservedOf
    <3> QED
      BY <2>1, <3>1 DEF ReservedOf
  <2>2. ASSUME NEW u \in WaitingOf(d)' PROVE u \in WaitingOf(d) /\ (d # D => u # t)
    <3>1. CASE u = t
      BY <1>2, <2>2, <3>1 DEF WaitingOf
    <3>2. CASE u # t
      BY <2>2, <3>2 DEF WaitingOf
    <3> QED
      BY <3>1, <3>2
  <2> QED
    BY <2>1, <2>2 DEF WaitingOf
<1> SUFFICES ASSUME NEW d \in Dispatcher!Days PROVE BucketKept(d)' \/ DayOver(d)'
  BY DEF Buckets
<1>4. /\ made[d] \in Nat /\ mem.days[d] \in Nat /\ disk.days[d] \in Nat /\ d \in Nat
      /\ Dispatcher!Day(clock)' = Dispatcher!Day(clock) /\ DailySpawnCap \in Nat
  BY BucketTypes, DispatcherAssumption DEF Dispatcher!Day
<1> HIDE DEF D
<1>5. CASE DayOver(d)
  <2>1. WaitingOf(d)' \in SUBSET Threads /\ WaitingOf(d) \in SUBSET Threads
    BY DEF WaitingOf
  <2>2. /\ Cardinality(WaitingOf(d)') <= Cardinality(WaitingOf(d))
        /\ Cardinality(WaitingOf(d)') \in Nat /\ Cardinality(WaitingOf(d)) \in Nat
        /\ Cardinality(Threads) \in Nat
    BY <1>3, <2>1, ThreadCounts
  <2> QED
    BY <1>4, <1>5, <2>2 DEF DayOver
<1>6. CASE BucketKept(d) /\ d < D
  <2>1. WaitingOf(d)' \in SUBSET (Threads \ {t}) /\ d # D
    BY <1>2, <1>3, <1>4, <1>6
  <2>2. /\ Cardinality(WaitingOf(d)') <= Cardinality(Threads \ {t}) /\ Cardinality(Threads \ {t}) = Cardinality(Threads) - 1
        /\ Cardinality(WaitingOf(d)') \in Nat /\ Cardinality(Threads) \in Nat
    BY <2>1, ThreadCounts
  <2>3. made[d] <= DailySpawnCap
    BY <1>4, <1>6 DEF BucketKept, Capped
  <2> QED
    BY <1>2, <1>4, <1>6, <2>2, <2>3 DEF DayOver
<1>7. CASE BucketKept(d) /\ d = D
  <2>1. mem'.days[d] = mem.days[d] + 1 /\ Capped(mem.days[d] + 1)
    BY <1>1, <1>2, <1>4, <1>7, CapFacts
  <2>2. made[d] <= disk'.days[d] /\ disk'.days[d] <= mem'.days[d] /\ (ReservedOf(d)' # {} => made[d] < disk'.days[d])
    <3>1. CASE disk' = mem'
      BY <1>4, <1>7, <2>1, <3>1 DEF BucketKept
    <3>2. CASE disk' = disk /\ th'[t].pc = "idle"
      BY <1>3, <1>4, <1>7, <2>1, <3>2 DEF BucketKept
    <3> QED
      BY <3>1, <3>2
  <2>3. Capped(mem'.days[d])
    BY <2>1 DEF Capped
  <2> QED
    BY <2>2, <2>3 DEF BucketKept
<1>8. CASE BucketKept(d) /\ d > D
  <2>1. mem'.days[d] = mem.days[d] /\ ReservedOf(d)' = {}
    BY <1>1, <1>2, <1>3, <1>4, <1>8
  <2>2. made[d] <= disk'.days[d] /\ disk'.days[d] <= mem'.days[d]
    BY <1>4, <1>8, <2>1 DEF BucketKept
  <2>3. Capped(mem'.days[d])
    BY <1>8, <2>1 DEF BucketKept, Capped
  <2> QED
    BY <2>1, <2>2, <2>3 DEF BucketKept
<1> QED
  BY <1>2, <1>4, <1>5, <1>6, <1>7, <1>8 DEF DispatcherInv, Buckets

LEMMA ReserveKeeps ==
    ASSUME DispatcherInv, NEW t \in Threads, Dispatcher!Reserve(t)
    PROVE  DispatcherInv'
<1> DEFINE h == [th[t] EXCEPT !.pc = "reserved"]
<1>1. /\ Dispatcher!Enter(t, "firing") /\ Dispatcher!decide(th[t].fault, th[t].now)
      /\ mem' = Dispatcher!Reserved(th[t].fault, th[t].now) /\ disk' = mem'
      /\ th' = [th EXCEPT ![t] = h] /\ UNCHANGED <<clock, armed, made, last>>
  BY DEF Dispatcher!Reserve
<1>2. th[t].fault \in Faults /\ th[t].now \in 0..clock /\ Holding = {} /\ th[t] \in Handling
  BY <1>1, Entered DEF DispatcherInv, DispatcherTypes
<1>3. h \in Handling /\ h.pc = "reserved" /\ h.fault = th[t].fault /\ h.now = th[t].now
  BY <1>2 DEF Handling
<1> HIDE DEF h
<1>4. /\ th' \in [Threads -> Handling] /\ th'[t] = h /\ \A u \in Threads \ {t} : th'[u] = th[u]
      /\ Stamped'
  BY <1>1, <1>2, <1>3, Moves
<1>5. /\ mem' \in StateData /\ disk' \in StateData /\ FaultsKnown'
      /\ Noted(mem', th[t].fault, th[t].now) /\ Far(th[t].fault, th[t].now)
  BY <1>1, Attempted
<1>6. DispatcherTypes'
  BY <1>1, <1>4, <1>5 DEF DispatcherInv, DispatcherTypes
<1>7. ReservedFar'
  <2> SUFFICES ASSUME NEW u \in Threads, th'[u].pc = "reserved" PROVE WellReserved(u)'
    BY DEF ReservedFar
  <2>1. u = t
    BY <1>2, <1>4 DEF Holding
  <2> QED
    BY <1>1, <1>3, <1>4, <1>5, <2>1 DEF WellReserved, Noted, Far
<1>8. Buckets'
  BY <1>1, <1>3, <1>4, BucketsCounted
<1> QED
  BY <1>4, <1>5, <1>6, <1>7, <1>8 DEF DispatcherInv

LEMMA ReserveFailsKeeps ==
    ASSUME DispatcherInv, NEW t \in Threads, Dispatcher!ReserveFails(t)
    PROVE  DispatcherInv'
<1>1. /\ Dispatcher!Enter(t, "firing") /\ Dispatcher!decide(th[t].fault, th[t].now)
      /\ mem' = Dispatcher!Reserved(th[t].fault, th[t].now) /\ disk' = disk
      /\ Dispatcher!Return(t) /\ UNCHANGED <<clock, armed, made, last>>
  BY DEF Dispatcher!ReserveFails
<1>2. Holding = {}
  BY <1>1, Entered
<1>3. /\ th' \in [Threads -> Handling] /\ Stamped' /\ th'[t].pc = "idle"
      /\ \A u \in Threads \ {t} : th'[u] = th[u]
  BY <1>1, Frees
<1>4. mem' \in StateData /\ disk' \in StateData /\ FaultsKnown'
  BY <1>1, Attempted
<1>5. DispatcherTypes'
  BY <1>1, <1>3, <1>4 DEF DispatcherInv, DispatcherTypes
<1>6. ReservedFar'
  BY <1>2, <1>3 DEF ReservedFar, Holding
<1>7. Buckets'
  BY <1>1, <1>3, BucketsCounted
<1> QED
  BY <1>3, <1>4, <1>5, <1>6, <1>7 DEF DispatcherInv

LEMMA SendKeeps ==
    ASSUME DispatcherInv, NEW t \in Threads, Dispatcher!Send(t)
    PROVE  DispatcherInv'
<1> DEFINE f == th[t].fault
           D == Dispatcher!Day(th[t].now)
           h == [th[t] EXCEPT !.pc = "sent"]
           entry == [status |-> "open", spawnedAt |-> th[t].now]
<1>1. /\ th[t].pc = "reserved" /\ th' = [th EXCEPT ![t] = h] /\ made' = [made EXCEPT ![D] = @ + 1]
      /\ last' = [last EXCEPT ![f] = entry] /\ UNCHANGED <<clock, armed, mem, disk>>
  BY DEF Dispatcher!Send
<1>2. /\ th[t] \in Handling /\ clock \in 0..MaxTime /\ MaxTime \in Nat /\ Holding = {t}
      /\ WellReserved(t)
  BY <1>1, DispatcherAssumption DEF DispatcherInv, DispatcherTypes, Stamped, Holding, ReservedFar
<1>3. f \in Faults /\ th[t].now \in 0..clock /\ th[t].now \in 0..MaxTime /\ D \in Dispatcher!Days
  <2>1. th[t].now \in Nat /\ th[t].now <= clock /\ f \in Faults
    BY <1>1, <1>2 DEF DispatcherInv, Stamped, Handling
  <2> QED
    BY <1>2, <2>1, DayFacts
<1>4. h \in Handling /\ h.pc = "sent" /\ h.fault = f /\ h.now = th[t].now
  BY <1>2 DEF Handling
<1>5. /\ entry \in [status : {"none", "open", "closed"}, spawnedAt : Nat]
      /\ entry.status = "open" /\ entry.spawnedAt = th[t].now
  BY <1>3
<1> HIDE DEF h, entry
<1>6. /\ th' \in [Threads -> Handling] /\ th'[t] = h /\ \A u \in Threads \ {t} : th'[u] = th[u]
      /\ Stamped'
  BY <1>1, <1>2, <1>3, <1>4, Moves
<1>7. /\ last' \in [Faults -> [status : {"none", "open", "closed"}, spawnedAt : Nat]]
      /\ last'[f] = entry /\ \A g \in Faults \ {f} : last'[g] = last[g]
  BY <1>1, <1>3, <1>5 DEF DispatcherInv, DispatcherTypes
<1> HIDE DEF D
<1>8. /\ made' \in [Dispatcher!Days -> Nat] /\ made'[D] = made[D] + 1
      /\ \A d \in Dispatcher!Days \ {D} : made'[d] = made[d]
  BY <1>1, <1>3 DEF DispatcherInv, DispatcherTypes
<1>9. DispatcherTypes'
  BY <1>1, <1>6, <1>7, <1>8 DEF DispatcherInv, DispatcherTypes
<1>10. ReservedFar'
  BY <1>2, <1>4, <1>6 DEF ReservedFar, Holding
<1>11. FaultsKnown'
  <2> SUFFICES ASSUME NEW g \in Faults PROVE Knows(mem, g)' /\ Knows(disk, g)'
    BY DEF FaultsKnown, Knows
  <2>1. CASE g = f
    BY <1>1, <1>2, <1>3, <1>5, <1>7, <2>1, SMTT(20) DEF Knows, WellReserved, Noted
  <2>2. CASE g # f
    BY <1>1, <1>7, <2>2 DEF DispatcherInv, FaultsKnown, Knows
  <2> QED
    BY <2>1, <2>2
<1>12. Buckets'
  <2> SUFFICES ASSUME NEW d \in Dispatcher!Days PROVE BucketKept(d)' \/ DayOver(d)'
    BY DEF Buckets
  <2>1. /\ made[d] \in Nat /\ mem.days[d] \in Nat /\ disk.days[d] \in Nat /\ d \in Nat
        /\ Dispatcher!Day(clock)' = Dispatcher!Day(clock) /\ DailySpawnCap \in Nat
    BY <1>1, BucketTypes, DispatcherAssumption DEF Dispatcher!Day
  <2>2. ReservedOf(d)' = {}
    BY <1>2, <1>4, <1>6 DEF ReservedOf, Holding
  <2>3. WaitingOf(d)' = WaitingOf(d) \ {t} /\ (d = D <=> t \in WaitingOf(d)) /\ (d = D <=> t \in ReservedOf(d))
    BY <1>1, <1>4, <1>6 DEF WaitingOf, ReservedOf, D
  <2>4. WaitingOf(d) \in SUBSET Threads /\ WaitingOf(d) \ {t} \in SUBSET Threads
    BY DEF WaitingOf
  <2>5. /\ Cardinality(WaitingOf(d)) \in Nat /\ Cardinality(WaitingOf(d)') \in Nat /\ Cardinality(Threads) \in Nat
        /\ Cardinality(WaitingOf(d)') = Cardinality(WaitingOf(d)) - (IF d = D THEN 1 ELSE 0)
    <3>1. CASE d = D
      BY <2>3, <2>4, <3>1, ThreadCounts
    <3>2. CASE d # D
      <4>1. WaitingOf(d)' = WaitingOf(d)
        BY <2>3, <3>2
      <4> QED
        BY <2>4, <3>2, <4>1, ThreadCounts
    <3> QED
      BY <3>1, <3>2
  <2>6. made'[d] = made[d] + (IF d = D THEN 1 ELSE 0)
    BY <1>8, <2>1
  <2>7. CASE BucketKept(d)
    <3>1. made'[d] <= disk.days[d]
      BY <2>1, <2>3, <2>6, <2>7 DEF BucketKept
    <3> QED
      BY <1>1, <2>2, <2>7, <3>1 DEF BucketKept
  <2>8. CASE DayOver(d)
    BY <2>1, <2>5, <2>6, <2>8 DEF DayOver
  <2> QED
    BY <2>7, <2>8 DEF DispatcherInv, Buckets
<1> QED
  BY <1>6, <1>9, <1>10, <1>11, <1>12 DEF DispatcherInv

LEMMA AnsweredKeeps ==
    ASSUME DispatcherInv, NEW t \in Threads, Dispatcher!Answered(t)
    PROVE  DispatcherInv'
<1> DEFINE f == th[t].fault
           data == [mem EXCEPT !.faults[f].session = TRUE]
<1>1. /\ th[t].pc = "sent" /\ mem' = data /\ disk' \in {disk, data} /\ Dispatcher!Return(t)
      /\ UNCHANGED <<clock, armed, made, last>>
  BY DEF Dispatcher!Answered
<1>2. f \in Faults /\ Holding = {t}
  BY <1>1 DEF DispatcherInv, Stamped, Holding
<1>3. /\ th' \in [Threads -> Handling] /\ Stamped' /\ th'[t].pc = "idle"
      /\ \A u \in Threads \ {t} : th'[u] = th[u]
      /\ \A d \in Dispatcher!Days : /\ ReservedOf(d)' \subseteq ReservedOf(d)
                                    /\ WaitingOf(d)' \subseteq WaitingOf(d)
  BY <1>1, Frees
<1>4. ReservedFar'
  BY <1>2, <1>3 DEF ReservedFar, Holding
<1>5. /\ data \in StateData /\ data.days = mem.days
      /\ \A g \in Faults : /\ data.faults[g].spawnedAt = mem.faults[g].spawnedAt
                           /\ data.faults[g].status = mem.faults[g].status
  BY <1>2, SessionFacts DEF DispatcherInv
<1> HIDE DEF data
<1>6. DispatcherTypes'
  BY <1>1, <1>3, <1>5 DEF DispatcherInv, DispatcherTypes
<1>7. FaultsKnown'
  <2> SUFFICES ASSUME NEW g \in Faults PROVE Knows(mem, g)' /\ Knows(disk, g)'
    BY DEF FaultsKnown, Knows
  <2>1. Knows(mem, g) /\ Knows(disk, g)
    BY DEF DispatcherInv, FaultsKnown
  <2> QED
    BY <1>1, <1>5, <2>1 DEF Knows
<1>8. Buckets'
  <2>1. mem'.days = mem.days /\ (disk'.days = disk.days \/ disk'.days = mem.days)
    BY <1>1, <1>5
  <2> QED
    BY <1>1, <1>3, <2>1, BucketsStand
<1> QED
  BY <1>3, <1>4, <1>6, <1>7, <1>8 DEF DispatcherInv

LEMMA RestartKeeps ==
    ASSUME DispatcherInv, Dispatcher!Restart
    PROVE  DispatcherInv'
<1>1. /\ mem' = disk /\ th' = [t \in Threads |-> Dispatcher!Idle] /\ armed' \in BOOLEAN
      /\ UNCHANGED <<clock, disk, made, last>>
  BY DEF Dispatcher!Restart
<1>2. Dispatcher!Idle \in Handling /\ Dispatcher!Idle.pc = "idle"
  BY DEF Dispatcher!Idle, Handling
<1>3. /\ DispatcherTypes' /\ \A t \in Threads : th'[t].pc = "idle"
  BY <1>1, <1>2 DEF DispatcherInv, DispatcherTypes
<1>4. Stamped' /\ ReservedFar' /\ FaultsKnown'
  BY <1>1, <1>3 DEF DispatcherInv, Stamped, Holding, ReservedFar, FaultsKnown, Knows
<1>5. ASSUME NEW d \in Dispatcher!Days PROVE BucketKept(d)' \/ DayOver(d)'
  <2>1. /\ made[d] \in Nat /\ mem.days[d] \in Nat /\ disk.days[d] \in Nat
        /\ Dispatcher!Day(clock)' = Dispatcher!Day(clock) /\ DailySpawnCap \in Nat
    BY <1>1, BucketTypes, DispatcherAssumption DEF Dispatcher!Day
  <2>2. ReservedOf(d)' = {} /\ WaitingOf(d)' = {}
    BY <1>3 DEF ReservedOf, WaitingOf
  <2>3. CASE BucketKept(d)
    <3>1. Capped(disk.days[d])
      BY <2>1, <2>3, CapFacts DEF BucketKept
    <3> QED
      BY <1>1, <2>1, <2>2, <2>3, <3>1 DEF BucketKept
  <2>4. CASE DayOver(d)
    <3>1. /\ Cardinality(WaitingOf(d)) \in Nat /\ Cardinality(WaitingOf(d)') = 0 /\ Cardinality(Threads) \in Nat
      BY <2>2, FS_EmptySet, ThreadCounts DEF WaitingOf
    <3> QED
      BY <1>1, <2>1, <2>4, <3>1 DEF DayOver
  <2> QED
    BY <2>3, <2>4 DEF DispatcherInv, Buckets
<1> QED
  BY <1>3, <1>4, <1>5 DEF DispatcherInv, Buckets

LEMMA TickKeeps ==
    ASSUME DispatcherInv, Dispatcher!Tick
    PROVE  DispatcherInv'
<1>1. /\ clock \in 0..MaxTime /\ clock < MaxTime /\ clock' = clock + 1 /\ MaxTime \in Nat
      /\ UNCHANGED <<armed, mem, disk, th, made, last>>
  BY DispatcherAssumption DEF Dispatcher!Tick, DispatcherInv, DispatcherTypes
<1>2. DispatcherTypes' /\ ReservedFar' /\ FaultsKnown'
  BY <1>1 DEF DispatcherInv, DispatcherTypes, ReservedFar, WellReserved, Noted, Far, FaultsKnown, Knows
<1>3. Stamped'
  <2>1. \A t \in Threads : th[t].now \in Nat
    BY DEF DispatcherInv, DispatcherTypes, Handling
  <2> QED
    BY <1>1, <2>1 DEF DispatcherInv, Stamped, Holding
<1>4. ASSUME NEW d \in Dispatcher!Days PROVE BucketKept(d)' \/ DayOver(d)'
  <2>1. /\ Dispatcher!Day(clock) <= Dispatcher!Day(clock + 1) /\ Dispatcher!Day(clock)' = Dispatcher!Day(clock + 1)
        /\ Dispatcher!Day(clock) \in Nat /\ Dispatcher!Day(clock + 1) \in Nat /\ d \in Nat
    <3>1. Dispatcher!Day(clock)' = Dispatcher!Day(clock + 1)
      BY <1>1 DEF Dispatcher!Day
    <3>2. clock \in Nat /\ clock + 1 \in Nat /\ clock <= clock + 1 /\ d \in Nat
      BY <1>1, BucketTypes
    <3> QED
      BY <3>1, <3>2, DayFacts
  <2>2. ReservedOf(d)' = ReservedOf(d) /\ WaitingOf(d)' = WaitingOf(d)
    BY <1>1 DEF ReservedOf, WaitingOf, Dispatcher!Day
  <2> QED
    BY <1>1, <2>1, <2>2 DEF DispatcherInv, Buckets, BucketKept, DayOver
<1> QED
  BY <1>2, <1>3, <1>4 DEF DispatcherInv, Buckets

LEMMA DispatcherNext ==
    ASSUME DispatcherInv, [Next]_vars
    PROVE  DispatcherInv'
<1>1. Dispatcher!Next \/ UNCHANGED dispatcherVars
  BY DEF Next, Only, vars
<1>2. CASE UNCHANGED dispatcherVars
  <2>1. UNCHANGED <<clock, armed, mem, disk, th, made, last>>
    BY <1>2 DEF dispatcherVars
  <2>2. DispatcherTypes' /\ Stamped' /\ ReservedFar' /\ FaultsKnown'
    BY <2>1 DEF DispatcherInv, DispatcherTypes, Stamped, Holding, ReservedFar, WellReserved, Noted, Far,
       FaultsKnown, Knows
  <2>3. Buckets'
    BY <2>1 DEF DispatcherInv, Buckets, BucketKept, DayOver, ReservedOf, WaitingOf, Dispatcher!Day
  <2> QED
    BY <2>2, <2>3 DEF DispatcherInv
<1>3. CASE Dispatcher!Next
  BY <1>3, QuietSteps, ResolvedKeeps, ReserveKeeps, ReserveFailsKeeps, SendKeeps, AnsweredKeeps,
     RestartKeeps, TickKeeps DEF Dispatcher!Next
<1> QED
  BY <1>1, <1>2, <1>3

LEMMA SameCountOfThreads == \A S : Dispatcher!Cardinality(S) = Cardinality(S)
  BY DEF Dispatcher!Cardinality, Cardinality

\* The dispatcher counts a session before it asks for it, keeps its daily caps while the
\* day lasts and goes past them by less than its threads across midnight, and asks for no
\* second session of a fault within the cooldown: for any threads, caps and times.
THEOREM DispatchesKept == Spec => DispatchesAreCounted
<1>1. DispatcherInv => Dispatcher!CountedBeforeSent /\ Dispatcher!CapWithinDay /\ Dispatcher!OvershootBounded
  <2> SUFFICES ASSUME DispatcherInv
               PROVE  Dispatcher!CountedBeforeSent /\ Dispatcher!CapWithinDay /\ Dispatcher!OvershootBounded
    OBVIOUS
  <2> DEFINE D == Dispatcher!Day(clock)
  <2>1. /\ D \in Dispatcher!Days /\ D \in Nat /\ ~DayOver(D)
    BY DayFacts, DispatcherAssumption DEF DispatcherInv, DispatcherTypes, DayOver
  <2>2. \A d \in Dispatcher!Days : made[d] \in Nat /\ mem.days[d] \in Nat /\ disk.days[d] \in Nat
    BY BucketTypes
  <2>3. BucketKept(D)
    BY <2>1 DEF DispatcherInv, Buckets
  <2>4. Dispatcher!CountedBeforeSent
    BY <2>1, <2>2, <2>3 DEF BucketKept, DispatcherInv, FaultsKnown, Knows, Dispatcher!CountedBeforeSent
  <2>5. Dispatcher!CapWithinDay
    <3>1. Capped(made[D])
      BY <2>1, <2>2, <2>3, CapFacts DEF BucketKept
    <3> QED
      BY <3>1 DEF Capped, Dispatcher!CapWithinDay
  <2>6. ASSUME NEW d \in Dispatcher!Days
        PROVE  made[d] <= DailySpawnCap + Cardinality(Threads) - 1
    <3>1. WaitingOf(d) \in SUBSET Threads
      BY DEF WaitingOf
    <3>2. /\ Cardinality(WaitingOf(d)) \in Nat /\ Cardinality(Threads) \in Nat /\ Cardinality(Threads) >= 1
          /\ DailySpawnCap \in Nat
      BY <3>1, ThreadCounts, DispatcherAssumption
    <3>3. CASE BucketKept(d)
      BY <2>2, <3>2, <3>3 DEF BucketKept, Capped
    <3>4. CASE DayOver(d)
      BY <2>2, <3>2, <3>4 DEF DayOver
    <3> QED
      BY <3>3, <3>4 DEF DispatcherInv, Buckets
  <2>7. Dispatcher!OvershootBounded
    BY <2>6, SameCountOfThreads DEF Dispatcher!OvershootBounded
  <2> QED
    BY <2>4, <2>5, <2>7
<1>2. DispatcherInv /\ [Next]_vars =>
        [\A t \in Threads :
           LET sent == last[th[t].fault]
               gap == th[t].now - sent.spawnedAt
           IN  th[t].pc = "reserved" /\ th'[t].pc = "sent" /\ sent.status # "none" =>
                 gap >= CooldownSeconds /\ (sent.status = "open" => gap >= OpenTtlSeconds)]_dispatcherVars
  BY DEF DispatcherInv, ReservedFar, WellReserved, Far
<1>3. Dispatcher!NoDoubleSpawn <=>
        [][\A t \in Threads :
           LET sent == last[th[t].fault]
               gap == th[t].now - sent.spawnedAt
           IN  th[t].pc = "reserved" /\ th'[t].pc = "sent" /\ sent.status # "none" =>
                 gap >= CooldownSeconds /\ (sent.status = "open" => gap >= OpenTtlSeconds)]_dispatcherVars
  BY DEF Dispatcher!NoDoubleSpawn, Dispatcher!vars, dispatcherVars
<1> QED
  BY <1>1, <1>2, <1>3, DispatcherInit, DispatcherNext, PTL DEF Spec, DispatchesAreCounted

------------------------------------------------------------------------------
(* HostRegistry                                                            *)

Lines == Labels \X Declarers
Charts == [Labels -> {"none", "routes", "values"}]
Trees == [lines : SUBSET Lines, chart : Charts, moved : BOOLEAN]
PullRequests == [base : SUBSET Lines, lines : SUBSET Lines, open : BOOLEAN, green : BOOLEAN]

RegistryTypes ==
    /\ tfvars \in SUBSET Lines /\ chart \in Charts /\ routesMoved \in BOOLEAN
    /\ matRuns \subseteq [repo : Registry!Repos, manifest : Registry!Manifests, tree : Trees]
    /\ prs \in [Declarers -> PullRequests]

Added(r) == prs[r].lines \ prs[r].base
Removed(r) == prs[r].base \ prs[r].lines

\* A host that FuzeInfra does not declare, or took while no check was looking.
Free(l) == chart[l] = "none" \/ l \in slipped

\* So is every host on main, and what a green pull request adds.
FreeHosts ==
    /\ \A line \in tfvars : Free(line[1])
    /\ \A r \in Declarers : prs[r].open /\ prs[r].green => \A line \in Added(r) : Free(line[1])

\* Of two that claim a label at once, it is known.
ClaimsKnown ==
    \A r, q \in Registry!Repos : r # q =>
        \A l \in Labels : l \in Registry!Claims(matRuns, prs, r) /\ l \in Registry!Claims(matRuns, prs, q)
                            => l \in contested

Owned(lines) == \A l1, l2 \in lines : l1[1] = l2[1] /\ l1 # l2 => l1[1] \in contested

\* What a run does not see of main, of what it declares, is contested.
Sees(run) ==
    /\ Owned(run.tree.lines)
    /\ \A line \in tfvars : line[2] # run.repo /\ line[1] \in Registry!LabelsOf(run.manifest) =>
           line \in run.tree.lines \/ line[1] \in contested

\* A pull request adds lines of its own to labels that are free or its own, but for the contested.
Proper(r) ==
    /\ \A line \in Added(r) :
           /\ line[2] = r
           /\ \A other \in tfvars : other[1] = line[1] /\ other[2] # r => line[1] \in contested
    /\ \A line \in Removed(r) : line[2] = r \/ line[1] \in contested

OwnersKnown ==
    /\ Owned(tfvars) /\ \A run \in matRuns : Sees(run)
    /\ \A r \in Declarers : prs[r].open => Proper(r)

RegistryInv == RegistryTypes /\ FreeHosts /\ ClaimsKnown /\ OwnersKnown

\* A finite set of numbers has a greatest.
LEMMA Greatest ==
    ASSUME NEW S \in SUBSET Int, IsFiniteSet(S), S # {}
    PROVE  \E x \in S : \A y \in S : y <= x
<1> DEFINE Above(x) == {y \in S : y > x}
           F == {Above(x) : x \in S}
<1>1. F \subseteq SUBSET S /\ F # {}
  OBVIOUS
<1>2. IsWellFoundedOn(StrictSubsetOrdering(S), FiniteSubsetsOf(S))
  BY FS_StrictSubsetOrderingWellFounded
<1>3. F \subseteq FiniteSubsetsOf(S)
  BY <1>1, FS_Subset DEF FiniteSubsetsOf
<1>4. \E T \in F : \A U \in F : <<U, T>> \notin StrictSubsetOrdering(S)
  <2> HIDE DEF F
  <2> QED
    BY <1>1, <1>2, <1>3, WFMin
<1>5. PICK x \in S : \A y \in S : <<Above(y), Above(x)>> \notin StrictSubsetOrdering(S)
  BY <1>4
<1>6. ASSUME NEW y \in S, y > x PROVE FALSE
  <2> \A z \in S : z \in Int
    OBVIOUS
  <2>1. \A z \in S : z > y => z > x
    BY <1>6
  <2>2. Above(y) \subseteq Above(x)
    BY <2>1
  <2>21. y \in Above(x)
    BY <1>6
  <2>22. ~(y > y)
    OBVIOUS
  <2>23. y \notin Above(y)
    BY <2>22
  <2>3. <<Above(y), Above(x)>> \in StrictSubsetOrdering(S)
    BY <2>2, <2>21, <2>23 DEF StrictSubsetOrdering
  <2> QED
    BY <1>5, <2>3
<1> QED
  BY <1>6

\* Of the lines of a label, the parser keeps one.
LEMMA Parsed ==
    ASSUME NEW lines \in SUBSET Lines, NEW line \in lines
    PROVE  \E kept \in Registry!parse_consumers_tfvars(lines) : kept[1] = line[1]
<1> DEFINE owners == {r \in Declarers : <<line[1], r>> \in lines}
<1>1. line = <<line[1], line[2]>> /\ line[2] \in Declarers
  BY DEF Lines
<1>2. owners \in SUBSET Int /\ owners # {} /\ IsFiniteSet(owners)
  <2>1. owners \subseteq Declarers /\ Declarers \subseteq Int
    BY RegistryAssumption
  <2>2. line[2] \in owners
    BY <1>1
  <2> HIDE DEF owners
  <2> QED
    BY <2>1, <2>2, RegistryAssumption, FS_Subset
<1> HIDE DEF owners
<1>3. PICK r \in owners : \A q \in owners : q <= r
  BY <1>2, Greatest
<1>4. <<line[1], r>> \in lines /\ \A other \in lines : other[1] = line[1] => other[2] <= r
  <2>1. ASSUME NEW other \in lines, other[1] = line[1] PROVE other[2] \in owners
    BY <2>1 DEF owners, Lines
  <2> QED
    BY <1>3, <2>1 DEF owners
<1> QED
  BY <1>4 DEF Registry!parse_consumers_tfvars

\* Lines that do not collide are of hosts that FuzeInfra does not declare.
LEMMA NoCollision ==
    ASSUME NEW lines \in SUBSET Lines, NEW tree \in Trees, Registry!collisions(lines, tree) = {},
           NEW line \in lines
    PROVE  tree.chart[line[1]] = "none"
<1>1. ~tree.moved
  BY DEF Registry!collisions
<1>2. PICK kept \in Registry!parse_consumers_tfvars(lines) : kept[1] = line[1]
  BY Parsed
<1>3. line[1] \notin Registry!derive_infra_owned_hosts(tree)
  BY <1>1, <1>2 DEF Registry!collisions
<1>4. line[1] \in Labels /\ tree.chart \in Charts
  BY DEF Lines, Trees
<1> QED
  BY <1>3, <1>4 DEF Registry!derive_infra_owned_hosts, Registry!extract_ingress_hosts,
     Registry!extract_chart_service_names, Charts

LEMMA RegistryCount == \A S : Registry!Cardinality(S) = Cardinality(S)
  BY DEF Registry!Cardinality, Cardinality

\* When two claim a label after a step, it becomes known.
LEMMA Contested ==
    ASSUME Registry!Contest
    PROVE  contested \subseteq contested' /\ ClaimsKnown'
<1>1. contested \subseteq contested'
  BY DEF Registry!Contest
<1>2. ASSUME NEW r \in Registry!Repos, NEW q \in Registry!Repos, r # q, NEW l \in Labels,
             l \in Registry!Claims(matRuns', prs', r), l \in Registry!Claims(matRuns', prs', q)
      PROVE  l \in contested'
  <2> DEFINE T == {s \in Registry!Repos : l \in Registry!Claims(matRuns', prs', s)}
  <2>1. IsFiniteSet(Registry!Repos)
    BY RegistryAssumption, FS_Union DEF Registry!Repos
  <2>2. IsFiniteSet(T) /\ r \in T /\ q \in T
    BY <1>2, <2>1, FS_Subset
  <2> HIDE DEF T
  <2>3. IsFiniteSet(T \ {r}) /\ Cardinality(T \ {r}) \in Nat /\ Cardinality(T) = Cardinality(T \ {r}) + 1
    <3>1. IsFiniteSet(T \ {r}) /\ Cardinality(T \ {r}) = Cardinality(T) - 1
      BY <2>2, FS_RemoveElement
    <3>2. Cardinality(T) \in Nat
      BY <2>2, FS_CardinalityType
    <3>3. Cardinality(T \ {r}) \in Nat
      BY <3>1, FS_CardinalityType
    <3> QED
      BY <3>1, <3>2, <3>3
  <2>4. q \in T \ {r}
    BY <1>2, <2>2
  <2>5. Cardinality(T \ {r}) > 0
    BY <2>3, <2>4, FS_EmptySet
  <2>6. Registry!Cardinality(T) > 1
    BY <2>3, <2>5, RegistryCount
  <2> QED
    BY <2>6 DEF Registry!Contest, T
<1> QED
  BY <1>1, <1>2 DEF ClaimsKnown

LEMMA Claimed ==
    ASSUME RegistryTypes
    PROVE  /\ \A run \in matRuns : \A l \in Registry!LabelsOf(run.manifest) :
                 l \in Registry!Claims(matRuns, prs, run.repo)
           /\ \A r \in Declarers : prs[r].open =>
                 \A line \in Added(r) : line[1] \in Registry!Claims(matRuns, prs, r)
<1>1. ASSUME NEW run \in matRuns, NEW l \in Registry!LabelsOf(run.manifest)
      PROVE  l \in Registry!Claims(matRuns, prs, run.repo)
  BY DEF Registry!Claims
<1>2. ASSUME NEW r \in Declarers, prs[r].open, NEW line \in Added(r)
      PROVE  line[1] \in Registry!Claims(matRuns, prs, r)
  <2> DEFINE labels == {x[1] : x \in prs[r].lines \ prs[r].base}
             others == UNION {Registry!LabelsOf(run.manifest) : run \in {x \in matRuns : x.repo = r}}
  <2>1. line[1] \in labels
    BY DEF Added
  <2>2. Registry!Claims(matRuns, prs, r) = others \cup labels
    <3>1. Registry!Claims(matRuns, prs, r) = others \cup (IF r \in Declarers /\ prs[r].open THEN labels ELSE {})
      BY Zenon DEF Registry!Claims
    <3> HIDE DEF labels, others
    <3> QED
      BY <1>2, <3>1
  <2> HIDE DEF labels, others
  <2> QED
    BY <2>1, <2>2
<1> QED
  BY <1>1, <1>2

LEMMA RegistryInit == Init => RegistryInv
<1> SUFFICES ASSUME Init PROVE RegistryInv
  OBVIOUS
<1> Registry!Init
  BY DEF Init
<1>1. /\ tfvars = {} /\ routesMoved = FALSE /\ matRuns = {} /\ slipped = {}
      /\ prs = [r \in Declarers |-> Registry!NoPr]
      /\ \E l \in Labels : chart = [k \in Labels |-> IF k = l THEN "routes" ELSE "none"]
  BY DEF Registry!Init
<1>2. Registry!NoPr \in PullRequests /\ ~Registry!NoPr.open
  BY DEF Registry!NoPr, PullRequests
<1>3. RegistryTypes
  BY <1>1, <1>2 DEF RegistryTypes, Charts
<1>4. FreeHosts /\ OwnersKnown
  BY <1>1, <1>2 DEF FreeHosts, OwnersKnown, Owned
<1>5. \A r : Registry!Claims(matRuns, prs, r) = {}
  BY <1>1, <1>2 DEF Registry!Claims
<1> QED
  BY <1>3, <1>4, <1>5 DEF RegistryInv, ClaimsKnown

LEMMA DispatchKeeps ==
    ASSUME RegistryInv, NEW r \in Registry!Repos, NEW declared \in Registry!Manifests, Registry!Dispatch(r, declared)
    PROVE  RegistryInv'
<1> DEFINE run == [repo |-> r, manifest |-> declared, tree |-> Registry!Main]
<1>1. /\ matRuns' = matRuns \cup {run} /\ UNCHANGED <<tfvars, chart, routesMoved, prs, slipped>>
      /\ contested \subseteq contested' /\ ClaimsKnown'
  BY Contested DEF Registry!Dispatch
<1>2. /\ run \in [repo : Registry!Repos, manifest : Registry!Manifests, tree : Trees]
      /\ run.tree.lines = tfvars
  BY DEF Registry!Main, Trees, RegistryInv, RegistryTypes
<1> HIDE DEF run
<1>3. RegistryTypes' /\ FreeHosts'
  BY <1>1, <1>2 DEF RegistryInv, RegistryTypes, FreeHosts, Free, Added
<1>4. \A x \in matRuns' : Sees(x)'
  <2> SUFFICES ASSUME NEW x \in matRuns' PROVE Sees(x)'
    OBVIOUS
  <2>1. CASE x = run
    BY <1>1, <1>2, <2>1 DEF RegistryInv, OwnersKnown, Owned, Sees
  <2>2. CASE x \in matRuns
    BY <1>1, <2>2 DEF RegistryInv, OwnersKnown, Owned, Sees
  <2> QED
    BY <1>1, <2>1, <2>2
<1>5. OwnersKnown'
  BY <1>1, <1>4 DEF RegistryInv, OwnersKnown, Owned, Proper, Added, Removed
<1> QED
  BY <1>1, <1>3, <1>5 DEF RegistryInv

LEMMA MergeKeeps ==
    ASSUME RegistryInv, NEW r \in Declarers, Registry!Merge(r)
    PROVE  RegistryInv'
<1>1. /\ prs[r].open /\ prs[r].green /\ prs' = [prs EXCEPT ![r] = Registry!NoPr]
      /\ tfvars' = (tfvars \cup Added(r)) \ Removed(r)
      /\ UNCHANGED <<chart, routesMoved, matRuns, slipped>>
      /\ contested \subseteq contested' /\ ClaimsKnown'
  BY Contested DEF Registry!Merge, Registry!Merged, Added, Removed
<1>2. /\ Registry!NoPr \in PullRequests /\ ~Registry!NoPr.open
      /\ prs[r] \in PullRequests /\ RegistryTypes
  BY DEF Registry!NoPr, PullRequests, RegistryInv, RegistryTypes
<1>3. /\ prs' \in [Declarers -> PullRequests] /\ ~prs'[r].open
      /\ \A q \in Declarers \ {r} : prs'[q] = prs[q]
  BY <1>1, <1>2 DEF RegistryTypes
<1>4. Added(r) \in SUBSET Lines
  BY <1>2 DEF Added, PullRequests
<1>5. RegistryTypes'
  BY <1>1, <1>2, <1>3, <1>4 DEF RegistryTypes
<1>6. FreeHosts'
  BY <1>1, <1>3 DEF RegistryInv, FreeHosts, Free, Added
<1>7. Proper(r)
  BY <1>1 DEF RegistryInv, OwnersKnown
\* A line of the merge, to a label that another has claimed.
<1>8. ASSUME NEW line \in Added(r), NEW q \in Registry!Repos, q # r,
             line[1] \in Registry!Claims(matRuns, prs, q)
      PROVE  line[1] \in contested
  <2>1. line[1] \in Labels /\ line[1] \in Registry!Claims(matRuns, prs, r) /\ r \in Registry!Repos
    BY <1>1, <1>2, <1>4, Claimed DEF Lines, Registry!Repos
  <2> QED
    BY <1>8, <2>1 DEF RegistryInv, ClaimsKnown
<1>9. ASSUME NEW run \in matRuns PROVE Sees(run)'
  <2>1. ASSUME NEW line \in tfvars', line[2] # run.repo, line[1] \in Registry!LabelsOf(run.manifest)
        PROVE  line \in run.tree.lines \/ line[1] \in contested
    <3>1. CASE line \in tfvars
      BY <2>1, <3>1 DEF RegistryInv, OwnersKnown, Sees
    <3>2. CASE line \in Added(r)
      <4>1. line[1] \in Registry!Claims(matRuns, prs, run.repo)
        BY <1>2, <2>1, Claimed
      <4>2. run.repo # r /\ run.repo \in Registry!Repos
        BY <1>2, <1>7, <2>1, <3>2 DEF Proper, RegistryTypes
      <4> QED
        BY <1>8, <3>2, <4>1, <4>2
    <3> QED
      BY <1>1, <3>1, <3>2
  <2>2. Owned(run.tree.lines)
    BY DEF RegistryInv, OwnersKnown, Sees
  <2> QED
    BY <1>1, <2>1, <2>2 DEF Sees, Owned
<1>10. ASSUME NEW q \in Declarers, prs'[q].open PROVE Proper(q)'
  <2>1. q # r /\ prs'[q] = prs[q] /\ prs[q].open
    BY <1>3, <1>10
  <2>2. Proper(q) /\ Added(q)' = Added(q) /\ Removed(q)' = Removed(q)
    BY <2>1 DEF RegistryInv, OwnersKnown, Added, Removed
  <2>3. ASSUME NEW line \in Added(q), NEW other \in tfvars', other[1] = line[1], other[2] # q
        PROVE  line[1] \in contested
    <3>1. CASE other \in tfvars
      BY <2>2, <2>3, <3>1 DEF Proper
    <3>2. CASE other \in Added(r)
      <4>1. line[1] \in Registry!Claims(matRuns, prs, q) /\ q \in Registry!Repos
        BY <1>2, <2>1, Claimed DEF Registry!Repos
      <4> QED
        BY <1>8, <2>1, <2>3, <3>2, <4>1
    <3> QED
      BY <1>1, <3>1, <3>2
  <2> QED
    BY <1>1, <2>2, <2>3 DEF Proper
<1>11. ASSUME NEW l1 \in tfvars', NEW l2 \in tfvars', l1[1] = l2[1], l1 # l2
       PROVE  l1[1] \in contested
  <2>1. l1 \in Lines /\ l2 \in Lines
    BY <1>5 DEF RegistryTypes
  <2>2. CASE l1 \in tfvars /\ l2 \in tfvars
    BY <1>11, <2>2 DEF RegistryInv, OwnersKnown, Owned
  <2>3. CASE l1 \in Added(r) /\ l2 \in tfvars
    <3>1. l1[2] = r /\ l2[2] # r
      BY <1>7, <1>11, <2>1, <2>3 DEF Proper, Lines
    <3> QED
      BY <1>7, <1>11, <2>3, <3>1 DEF Proper
  <2>4. CASE l2 \in Added(r) /\ l1 \in tfvars
    <3>1. l2[2] = r /\ l1[2] # r
      BY <1>7, <1>11, <2>1, <2>4 DEF Proper, Lines
    <3> QED
      BY <1>7, <1>11, <2>4, <3>1 DEF Proper
  <2>5. CASE l1 \in Added(r) /\ l2 \in Added(r)
    BY <1>7, <1>11, <2>1, <2>5 DEF Proper, Lines
  <2> QED
    BY <1>1, <2>2, <2>3, <2>4, <2>5
<1>12. OwnersKnown'
  BY <1>1, <1>9, <1>10, <1>11 DEF OwnersKnown, Owned
<1> QED
  BY <1>1, <1>5, <1>6, <1>12 DEF RegistryInv

\* What validation lets through, and what it means for the lines of the branch.
LEMMA Validated ==
    ASSUME RegistryInv, NEW run \in matRuns,
           Registry!validate(run.repo, run.manifest, Registry!parse_consumers_tfvars(run.tree.lines),
                             Registry!RESERVED_LABELS(run.tree))
    PROVE  LET base == run.tree.lines
               new == Registry!build_registry(run.repo, run.manifest, Registry!parse_consumers_tfvars(base))
           IN  /\ run.repo \in Declarers /\ base \in SUBSET Lines /\ new \in SUBSET Lines
               /\ \A line \in new \ base :
                      /\ line[2] = run.repo
                      /\ \A other \in tfvars : other[1] = line[1] /\ other[2] # run.repo => line[1] \in contested
               /\ \A line \in base \ new : line[2] = run.repo \/ line[1] \in contested
<1> DEFINE base == run.tree.lines
           kept == Registry!parse_consumers_tfvars(base)
           labels == Registry!LabelsOf(run.manifest)
           new == Registry!build_registry(run.repo, run.manifest, kept)
<1>1. /\ run.repo \in Declarers /\ base \in SUBSET Lines /\ kept \subseteq base
      /\ new = {line \in kept : line[2] # run.repo} \cup {<<l, run.repo>> : l \in labels}
  BY DEF Registry!validate, Registry!build_registry, Registry!parse_consumers_tfvars,
     RegistryInv, RegistryTypes, Trees
<1>2. /\ labels \subseteq Labels
      /\ \A line \in kept : line[1] \in labels => line[2] = run.repo
  BY DEF Registry!validate, Registry!LabelsOf
<1>3. Sees(run)
  BY DEF RegistryInv, OwnersKnown
<1> HIDE DEF labels, new
<1>4. new \in SUBSET Lines
  BY <1>1, <1>2 DEF Lines
<1>5. ASSUME NEW line \in new \ base
      PROVE  /\ line[2] = run.repo /\ line[1] \in labels
             /\ \A other \in tfvars : other[1] = line[1] /\ other[2] # run.repo => line[1] \in contested
  <2>1. line[2] = run.repo /\ line[1] \in labels /\ line = <<line[1], run.repo>>
    BY <1>1, <1>5
  <2>2. ASSUME NEW other \in tfvars, other[1] = line[1], other[2] # run.repo, line[1] \notin contested
        PROVE  FALSE
    <3>1. other \in base
      BY <1>3, <2>1, <2>2 DEF Sees, labels
    <3>2. PICK k \in kept : k[1] = line[1]
      BY <1>1, <2>2, <3>1, Parsed
    <3>3. k \in base /\ k \in Lines /\ k[2] = run.repo
      BY <1>1, <1>2, <2>1, <3>2
    <3>4. k = line
      BY <2>1, <3>2, <3>3 DEF Lines
    <3> QED
      BY <1>5, <3>3, <3>4
  <2> QED
    BY <2>1, <2>2
<1>6. ASSUME NEW line \in base \ new, line[2] # run.repo
      PROVE  line[1] \in contested
  <2>1. line \in base /\ line \notin kept
    BY <1>1, <1>6
  <2>2. PICK other \in base : other[1] = line[1] /\ ~(other[2] <= line[2])
    BY <2>1 DEF Registry!parse_consumers_tfvars
  <2>3. other # line
    BY <1>1, <2>1, <2>2, RegistryAssumption DEF Lines
  <2> QED
    BY <1>3, <2>1, <2>2, <2>3 DEF Sees, Owned
<1> QED
  BY <1>1, <1>4, <1>5, <1>6 DEF new

LEMMA MaterializeKeeps ==
    ASSUME RegistryInv, NEW run \in matRuns, Registry!Materialize(run)
    PROVE  RegistryInv'
<1> DEFINE base == run.tree.lines
           kept == Registry!parse_consumers_tfvars(base)
           new == Registry!build_registry(run.repo, run.manifest, kept)
           merged == Registry!Merged(base, new, tfvars)
           pr == [base |-> base, lines |-> new, open |-> TRUE,
                  green |-> Registry!collisions(merged, Registry!Main) = {}]
<1>1. /\ matRuns' \subseteq matRuns /\ UNCHANGED <<tfvars, chart, routesMoved, slipped>>
      /\ contested \subseteq contested' /\ ClaimsKnown'
      /\ \/ prs' = prs
         \/ /\ Registry!validate(run.repo, run.manifest, kept, Registry!RESERVED_LABELS(run.tree))
            /\ prs' = [prs EXCEPT ![run.repo] = pr]
  BY Contested DEF Registry!Materialize
<1>2. \A x \in matRuns' : Sees(x)'
  BY <1>1 DEF RegistryInv, OwnersKnown, Sees, Owned
<1>3. RegistryTypes /\ Owned(tfvars)'
  BY <1>1 DEF RegistryInv, OwnersKnown, Owned
<1>4. CASE prs' = prs
  <2>1. RegistryTypes' /\ FreeHosts' /\ \A r \in Declarers : prs'[r].open => Proper(r)'
    BY <1>1, <1>4 DEF RegistryInv, RegistryTypes, FreeHosts, Free, OwnersKnown, Proper, Added, Removed
  <2> QED
    BY <1>1, <1>2, <1>3, <2>1 DEF RegistryInv, OwnersKnown
<1>5. CASE /\ Registry!validate(run.repo, run.manifest, kept, Registry!RESERVED_LABELS(run.tree))
           /\ prs' = [prs EXCEPT ![run.repo] = pr]
  <2> DEFINE r == run.repo
  <2>1. /\ r \in Declarers /\ base \in SUBSET Lines /\ new \in SUBSET Lines
        /\ \A line \in new \ base :
               /\ line[2] = r
               /\ \A other \in tfvars : other[1] = line[1] /\ other[2] # r => line[1] \in contested
        /\ \A line \in base \ new : line[2] = r \/ line[1] \in contested
    BY <1>5, Validated
  <2> HIDE DEF new, base, r
  <2>2. pr \in PullRequests /\ pr.open /\ pr.base = base /\ pr.lines = new
        /\ (pr.green => Registry!collisions(merged, Registry!Main) = {})
    BY <2>1 DEF PullRequests
  <2>3. prs' = [prs EXCEPT ![r] = pr]
    BY <1>5 DEF r
  <2> HIDE DEF pr
  <2>4. /\ prs' \in [Declarers -> PullRequests] /\ prs'[r] = pr
        /\ \A q \in Declarers \ {r} : prs'[q] = prs[q]
    BY <1>3, <2>1, <2>2, <2>3 DEF RegistryTypes
  <2>5. RegistryTypes'
    BY <1>1, <1>3, <2>4 DEF RegistryTypes
  <2>6. Added(r)' = new \ base /\ Removed(r)' = base \ new
    BY <2>2, <2>4 DEF Added, Removed
  <2>7. ASSUME pr.green, NEW line \in new \ base PROVE Free(line[1])
    <3>1. merged \in SUBSET Lines /\ line \in merged
      BY <1>3, <2>1, <2>7 DEF Registry!Merged, RegistryTypes
    <3>2. Registry!Main \in Trees /\ Registry!Main.chart = chart
      BY <1>3 DEF Registry!Main, Trees, RegistryTypes
    <3> HIDE DEF merged
    <3>3. Registry!Main.chart[line[1]] = "none"
      BY <2>2, <2>7, <3>1, <3>2, NoCollision
    <3> QED
      BY <3>2, <3>3 DEF Free
  <2>8. FreeHosts'
    <3>1. ASSUME NEW q \in Declarers, prs'[q].open, prs'[q].green, NEW line \in Added(q)'
          PROVE  Free(line[1])'
      <4>1. CASE q = r
        BY <1>1, <2>4, <2>6, <2>7, <3>1, <4>1 DEF Free
      <4>2. CASE q # r
        BY <1>1, <2>4, <3>1, <4>2 DEF RegistryInv, FreeHosts, Free, Added
      <4> QED
        BY <4>1, <4>2
    <3>2. \A line \in tfvars' : Free(line[1])'
      BY <1>1 DEF RegistryInv, FreeHosts, Free
    <3> QED
      BY <3>1, <3>2 DEF FreeHosts
  <2>9. ASSUME NEW q \in Declarers, prs'[q].open PROVE Proper(q)'
    <3>1. CASE q = r
      BY <1>1, <2>1, <2>6, <3>1 DEF Proper
    <3>2. CASE q # r
      BY <1>1, <2>4, <2>9, <3>2 DEF RegistryInv, OwnersKnown, Proper, Added, Removed
    <3> QED
      BY <3>1, <3>2
  <2> QED
    BY <1>1, <1>2, <1>3, <2>5, <2>8, <2>9 DEF RegistryInv, OwnersKnown
<1> QED
  BY <1>1, <1>4, <1>5

LEMMA InfraKeeps ==
    ASSUME RegistryInv, NEW l \in Labels, NEW where \in {"none", "routes", "values"}, Registry!Infra(l, where)
    PROVE  RegistryInv'
<1>1. /\ chart[l] # where /\ chart' = [chart EXCEPT ![l] = where]
      /\ where = "routes" => Registry!collisions(tfvars, [Registry!Main EXCEPT !.chart = chart']) = {}
      /\ where = "none" => chart[l] = "values"
      /\ slipped' = IF chart[l] = "none" /\ Registry!Claimed(l, where) THEN slipped \cup {l} ELSE slipped
      /\ UNCHANGED <<tfvars, routesMoved, matRuns, prs, contested>>
  BY DEF Registry!Infra
<1>2. RegistryTypes /\ chart' \in Charts /\ \A k \in Labels \ {l} : chart'[k] = chart[k]
  BY <1>1 DEF RegistryInv, RegistryTypes, Charts
<1>3. RegistryTypes' /\ ClaimsKnown' /\ OwnersKnown'
  BY <1>1, <1>2 DEF RegistryInv, RegistryTypes, ClaimsKnown, OwnersKnown, Owned, Sees, Proper, Added, Removed
<1>4. chart'[l] = where /\ slipped \subseteq slipped'
  BY <1>1, <1>2 DEF RegistryTypes, Charts
<1>5. ASSUME NEW k \in Labels, Free(k), k = l => (chart[l] = "none" => Registry!Claimed(l, where))
      PROVE  Free(k)'
  BY <1>1, <1>2, <1>4, <1>5 DEF Free
<1>6. ASSUME NEW line \in tfvars PROVE Free(line[1])'
  <2>1. Free(line[1]) /\ line[1] \in Labels
    BY <1>2 DEF RegistryInv, FreeHosts, RegistryTypes, Lines
  <2>2. ASSUME line[1] = l, chart[l] = "none" PROVE Registry!Claimed(l, where)
    <3>1. CASE where = "routes"
      <4> DEFINE tree == [Registry!Main EXCEPT !.chart = chart']
      <4>1. tree \in Trees /\ tree.chart = chart'
        BY <1>2 DEF Registry!Main, Trees, RegistryTypes
      <4>2. tfvars \in SUBSET Lines /\ Registry!collisions(tfvars, tree) = {}
        BY <1>1, <1>2, <3>1 DEF RegistryTypes
      <4> HIDE DEF tree
      <4>3. tree.chart[line[1]] = "none"
        BY <4>1, <4>2, NoCollision
      <4> QED
        BY <1>4, <2>2, <3>1, <4>1, <4>3
    <3>2. CASE where = "values"
      BY <2>2, <3>2 DEF Registry!Claimed
    <3>3. CASE where = "none"
      BY <1>1, <2>2, <3>3
    <3> QED
      BY <3>1, <3>2, <3>3
  <2> QED
    BY <1>5, <2>1, <2>2
<1>7. ASSUME NEW r \in Declarers, prs[r].open, prs[r].green, NEW line \in Added(r)
      PROVE  Free(line[1])'
  <2>1. line[1] \in Labels /\ line \in prs[r].lines
    <3>1. prs[r] \in PullRequests
      BY <1>2 DEF RegistryTypes
    <3> QED
      BY <3>1 DEF Added, PullRequests, Lines
  <2>2. Free(line[1]) /\ (line[1] = l => Registry!Claimed(l, where))
    BY <1>7, <2>1 DEF RegistryInv, FreeHosts, Registry!Claimed
  <2> QED
    BY <1>5, <2>1, <2>2
<1>8. FreeHosts'
  BY <1>1, <1>6, <1>7 DEF FreeHosts, Added
<1> QED
  BY <1>3, <1>8 DEF RegistryInv

LEMMA RegistryNext ==
    ASSUME RegistryInv, [Next]_vars
    PROVE  RegistryInv'
<1>1. Registry!Next \/ UNCHANGED registryVars
  BY DEF Next, Only, vars
<1>2. CASE UNCHANGED registryVars \/ Registry!MoveRoutes
  <2>1. UNCHANGED <<tfvars, chart, matRuns, prs, contested, slipped>> /\ routesMoved' \in BOOLEAN
    BY <1>2 DEF registryVars, Registry!MoveRoutes, RegistryInv, RegistryTypes
  <2> QED
    BY <2>1 DEF RegistryInv, RegistryTypes, FreeHosts, Free, ClaimsKnown, OwnersKnown, Owned, Sees, Proper,
       Added, Removed
<1>3. CASE Registry!Next
  BY <1>2, <1>3, DispatchKeeps, MergeKeeps, MaterializeKeeps, InfraKeeps DEF Registry!Next
<1> QED
  BY <1>1, <1>2, <1>3

\* Hosts that repositories declare have one owner and are none of FuzeInfra's own, and a
\* declaration changes no other repository's lines, but for known races: for any
\* repositories, labels and numbers of declarations.
THEOREM HostsKept == Spec => HostsKeepTheirOwner
<1>1. RegistryInv => Registry!InfraNotPublished /\ Registry!OneOwnerEach
  <2> SUFFICES ASSUME RegistryInv PROVE Registry!InfraNotPublished /\ Registry!OneOwnerEach
    OBVIOUS
  <2>1. \A line \in tfvars : line[1] \in Labels
    BY DEF RegistryInv, RegistryTypes, Lines
  <2> QED
    BY <2>1, RegistryAssumption DEF RegistryInv, FreeHosts, Free, OwnersKnown, Owned,
       Registry!InfraNotPublished, Registry!OneOwnerEach
<1>2. RegistryInv /\ [Next]_vars =>
        [\A r \in Declarers : Registry!Merge(r) =>
           \A line \in (tfvars \ tfvars') \cup (tfvars' \ tfvars) : line[2] = r \/ line[1] \in contested]_registryVars
  <2> SUFFICES ASSUME RegistryInv, NEW r \in Declarers, Registry!Merge(r),
                      NEW line \in (tfvars \ tfvars') \cup (tfvars' \ tfvars)
               PROVE  line[2] = r \/ line[1] \in contested
    OBVIOUS
  <2>1. tfvars' = (tfvars \cup Added(r)) \ Removed(r) /\ Proper(r)
    BY DEF Registry!Merge, Registry!Merged, Added, Removed, RegistryInv, OwnersKnown
  <2> QED
    BY <2>1 DEF Proper
<1>3. Registry!OthersUntouched <=>
        [][\A r \in Declarers : Registry!Merge(r) =>
             \A line \in (tfvars \ tfvars') \cup (tfvars' \ tfvars) :
                line[2] = r \/ line[1] \in contested]_registryVars
  BY DEF Registry!OthersUntouched, Registry!registryVars, registryVars
<1> QED
  BY <1>1, <1>2, <1>3, RegistryInit, RegistryNext, PTL DEF Spec, HostsKeepTheirOwner

------------------------------------------------------------------------------
(* ExtractionIssues                                                        *)

IssueTypes ==
    /\ issues \in Seq(Patterns) /\ found \in [GateRuns -> SUBSET Patterns]
    /\ asked \in [GateRuns -> SUBSET Patterns]

\* Of a pattern with two issues, or that a run is about to open a second of, it is known
\* that runs asked at once.
PairsKnown ==
    /\ \A r, s \in GateRuns : r # s => asked[r] \cap asked[s] \subseteq pairs
    /\ \A r \in GateRuns : \A p \in asked[r] : Issues!Listed(p) => p \in pairs

IssuesInv == IssueTypes /\ PairsKnown /\ Issues!OneIssueEach

LEMMA IssuesInit == Init => IssuesInv
<1> SUFFICES ASSUME Init PROVE IssuesInv
  OBVIOUS
<1> Issues!Init
  BY DEF Init
<1>1. /\ found \in [GateRuns -> SUBSET Patterns] /\ asked = [r \in GateRuns |-> {}] /\ issues = <<>>
  BY DEF Issues!Init, Issues!detect_extraction_candidates
<1> QED
  BY <1>1 DEF IssuesInv, IssueTypes, PairsKnown, Issues!OneIssueEach

LEMMA IssuesStep ==
    ASSUME IssuesInv, NEW r \in GateRuns, NEW p \in Patterns,
           Issues!Ask(r, p) \/ Issues!open_extraction_issue(r, p)
    PROVE  IssuesInv'
<1>1. CASE Issues!Ask(r, p)
  <2>1. PICK failed \in BOOLEAN :
          /\ asked[r] = {} /\ found' = [found EXCEPT ![r] = @ \ {p}]
          /\ asked' = [asked EXCEPT ![r] = IF Issues!gh_issue_exists(p, failed) THEN {} ELSE {p}]
          /\ pairs' = pairs \cup {q \in asked'[r] : \E s \in GateRuns \ {r} : q \in asked[s]}
          /\ issues' = issues
    BY <1>1 DEF Issues!Ask
  <2>2. /\ asked' \in [GateRuns -> SUBSET Patterns] /\ \A s \in GateRuns \ {r} : asked'[s] = asked[s]
        /\ asked'[r] = IF Issues!gh_issue_exists(p, failed) THEN {} ELSE {p}
    BY <2>1 DEF IssuesInv, IssueTypes
  <2>3. IssueTypes' /\ Issues!OneIssueEach' /\ pairs \subseteq pairs'
    BY <2>1, <2>2 DEF IssuesInv, IssueTypes, Issues!OneIssueEach
  <2>4. \A q : Issues!Listed(q)' = Issues!Listed(q)
    BY <2>1 DEF Issues!Listed
  <2>5. \A q \in asked'[r] : ~Issues!Listed(q)
    BY <2>2 DEF Issues!gh_issue_exists
  <2>6. \A s, q \in GateRuns : s # q => asked'[s] \cap asked'[q] \subseteq pairs'
    BY <2>1, <2>2 DEF IssuesInv, PairsKnown
  <2>7. \A s \in GateRuns : \A q \in asked'[s] : Issues!Listed(q)' => q \in pairs'
    BY <2>2, <2>3, <2>4, <2>5 DEF IssuesInv, PairsKnown
  <2> QED
    BY <2>3, <2>6, <2>7 DEF IssuesInv, PairsKnown
<1>2. CASE Issues!open_extraction_issue(r, p)
  <2>1. /\ p \in asked[r] /\ asked' = [asked EXCEPT ![r] = {}]
        /\ issues' = Append(issues, p) \/ issues' = issues
        /\ UNCHANGED <<found, pairs>>
    BY <1>2 DEF Issues!open_extraction_issue
  <2>2. /\ asked' \in [GateRuns -> SUBSET Patterns] /\ asked'[r] = {}
        /\ \A s \in GateRuns \ {r} : asked'[s] = asked[s]
    BY <2>1 DEF IssuesInv, IssueTypes
  <2>3. issues \in Seq(Patterns)
    BY DEF IssuesInv, IssueTypes
  <2>4. CASE issues' = issues
    BY <2>1, <2>2, <2>4 DEF IssuesInv, IssueTypes, PairsKnown, Issues!Listed, Issues!OneIssueEach
  <2>5. CASE issues' = Append(issues, p)
    <3>1. /\ issues' \in Seq(Patterns) /\ Len(issues') = Len(issues) + 1 /\ Len(issues) \in Nat
          /\ issues'[Len(issues) + 1] = p /\ \A i \in 1..Len(issues) : issues'[i] = issues[i]
          /\ DOMAIN issues' = 1..Len(issues') /\ DOMAIN issues = 1..Len(issues)
      BY <2>3, <2>5
    <3>2. \A q : Issues!Listed(q)' => Issues!Listed(q) \/ q = p
      BY <3>1 DEF Issues!Listed
    <3>3. \A s \in GateRuns : \A q \in asked'[s] : Issues!Listed(q)' => q \in pairs
      BY <2>1, <2>2, <3>2 DEF IssuesInv, PairsKnown
    <3>4. \A i \in 1..Len(issues) : issues[i] = p => p \in pairs
      BY <2>1, <3>1 DEF IssuesInv, PairsKnown, Issues!Listed
    <3>5. Issues!OneIssueEach'
      <4> SUFFICES ASSUME NEW i \in 1..Len(issues'), NEW j \in 1..Len(issues'),
                          issues'[i] = issues'[j], issues'[i] \notin pairs
                   PROVE  i = j
        BY <2>1, <3>1 DEF Issues!OneIssueEach
      <4>1. CASE i \in 1..Len(issues) /\ j \in 1..Len(issues)
        BY <3>1, <4>1 DEF IssuesInv, Issues!OneIssueEach
      <4>2. CASE i = Len(issues) + 1 \/ j = Len(issues) + 1
        BY <3>1, <3>4, <4>2
      <4> QED
        BY <3>1, <4>1, <4>2
    <3> QED
      BY <2>1, <2>2, <3>1, <3>3, <3>5 DEF IssuesInv, IssueTypes, PairsKnown
  <2> QED
    BY <2>1, <2>4, <2>5
<1> QED
  BY <1>1, <1>2

LEMMA IssuesNext ==
    ASSUME IssuesInv, [Next]_vars
    PROVE  IssuesInv'
<1>1. Issues!Next \/ UNCHANGED issueVars
  BY DEF Next, Only, vars
<1>2. CASE UNCHANGED issueVars
  BY <1>2 DEF issueVars, IssuesInv, IssueTypes, PairsKnown, Issues!Listed, Issues!OneIssueEach
<1> QED
  BY <1>1, <1>2, IssuesStep DEF Issues!Next

------------------------------------------------------------------------------
(* DnsManager                                                              *)

HostLines == [domain : Domains, ours : BOOLEAN, comment : BOOLEAN]
Foreign(lines) == {line \in lines : ~line.ours}

\* A call is none, or has read the lines there are but the tool's own.
InCall(c) ==
    callers[c] # Dns!NoCall =>
        /\ callers[c].op \in {"add", "remove"} /\ callers[c].domain \in Domains
        /\ callers[c].read \in SUBSET HostLines /\ Foreign(callers[c].read) = Foreign(hostsFile)

DnsInv ==
    /\ hostsFile \in SUBSET HostLines /\ wanted \in SUBSET Domains
    /\ dnsmasq \in [up : BOOLEAN, names : SUBSET Domains]
    /\ DOMAIN callers = Callers /\ \A c \in Callers : InCall(c)
    /\ Dns!AddedResolves

LEMMA DnsInit == Init => DnsInv
<1> SUFFICES ASSUME Init PROVE DnsInv
  OBVIOUS
<1> Dns!Init
  BY DEF Init
<1>1. /\ hostsFile \in SUBSET {[domain |-> d, ours |-> FALSE, comment |-> c] : d \in Domains, c \in BOOLEAN}
      /\ dnsmasq \in {[up |-> u, names |-> {}] : u \in BOOLEAN}
      /\ callers = [c \in Callers |-> Dns!NoCall] /\ wanted = {}
  BY DEF Dns!Init
<1>2. hostsFile \in SUBSET HostLines
  <2>1. ASSUME NEW line \in hostsFile PROVE line \in HostLines
    <3>1. PICK d \in Domains, c \in BOOLEAN : line = [domain |-> d, ours |-> FALSE, comment |-> c]
      BY <1>1
    <3> QED
      BY <3>1 DEF HostLines
  <2> QED
    BY <2>1
<1>3. dnsmasq \in [up : BOOLEAN, names : SUBSET Domains]
  BY <1>1
<1> QED
  BY <1>1, <1>2, <1>3 DEF DnsInv, InCall, Dns!AddedResolves

\* What a call writes back.
LEMMA WrittenBack ==
    ASSUME DnsInv, NEW c \in Callers, Dns!_write_hosts_file(c)
    PROVE  LET call == callers[c]
           IN  /\ call.op \in {"add", "remove"} /\ call.domain \in Domains
               /\ hostsFile' \in SUBSET HostLines /\ Foreign(hostsFile') = Foreign(hostsFile)
               /\ call.op = "add" => Dns!Managed(call.domain) \in hostsFile'
               /\ \A line \in call.read : line \in hostsFile' \/ Dns!In(call.domain, line)
<1> DEFINE call == callers[c]
<1>1. /\ call.op \in {"add", "remove"} /\ call.domain \in Domains
      /\ call.read \in SUBSET HostLines /\ Foreign(call.read) = Foreign(hostsFile)
      /\ hostsFile' = Dns!Written(call)
  BY DEF Dns!_write_hosts_file, DnsInv, InCall
<1>2. /\ Dns!Managed(call.domain) \in HostLines /\ Dns!Managed(call.domain).ours
  BY <1>1 DEF Dns!Managed, HostLines
<1> HIDE DEF call
<1>3. CASE call.op = "add"
  <2>1. hostsFile' = call.read \cup {Dns!Managed(call.domain)}
    BY <1>1, <1>3 DEF Dns!Written
  <2> QED
    BY <1>1, <1>2, <2>1 DEF Foreign, call
<1>4. CASE call.op = "remove"
  <2>1. hostsFile' = {line \in call.read : ~(Dns!In(call.domain, line) /\ line.ours)}
    BY <1>1, <1>4 DEF Dns!Written, Dns!removed
  <2> QED
    BY <1>1, <1>4, <2>1 DEF Foreign, call
<1> QED
  BY <1>1, <1>3, <1>4

LEMMA DnsStep ==
    ASSUME DnsInv, Dns!Next
    PROVE  DnsInv' /\ Foreign(hostsFile') = Foreign(hostsFile)
<1>1. ASSUME NEW c \in Callers, NEW d \in Domains, Dns!_add_dnsmasq_entry(c, d)
      PROVE  DnsInv' /\ Foreign(hostsFile') = Foreign(hostsFile)
  <2>1. /\ dnsmasq' = [dnsmasq EXCEPT !.names = @ \cup {d}] /\ wanted' = wanted \cup {d}
        /\ UNCHANGED <<hostsFile, callers, raced>>
    BY <1>1 DEF Dns!_add_dnsmasq_entry
  <2>2. /\ dnsmasq' \in [up : BOOLEAN, names : SUBSET Domains] /\ dnsmasq'.names = dnsmasq.names \cup {d}
    BY <2>1 DEF DnsInv
  <2> QED
    BY <2>1, <2>2 DEF DnsInv, InCall, Dns!AddedResolves
<1>2. ASSUME NEW c \in Callers, NEW d \in Domains, NEW op \in {"add", "remove"}, Dns!Read(c, op, d)
      PROVE  DnsInv' /\ Foreign(hostsFile') = Foreign(hostsFile)
  <2> DEFINE call == [op |-> op, domain |-> d, read |-> hostsFile]
  <2>1. UNCHANGED <<hostsFile, dnsmasq, raced>>
    BY <1>2 DEF Dns!Read
  <2>2. CASE callers' = callers /\ wanted' = (IF op = "add" THEN wanted \cup {d} ELSE wanted \ {d})
             /\ (op = "add" => Dns!_entry_exists(hostsFile, d))
    <3>1. op = "add" => Dns!Overlaps(d) \/ \E line \in hostsFile : line.domain = d /\ ~line.comment
      BY <2>2 DEF DnsInv, HostLines, Dns!_entry_exists, Dns!In, Dns!Overlaps
    <3>2. Dns!AddedResolves'
      BY <2>1, <2>2, <3>1 DEF DnsInv, Dns!AddedResolves
    <3> QED
      BY <2>1, <2>2, <3>2 DEF DnsInv, InCall
  <2>3. CASE callers' = [callers EXCEPT ![c] = call] /\ wanted' = wanted
    <3>1. call.op = op /\ call.domain = d /\ call.read = hostsFile
      OBVIOUS
    <3> HIDE DEF call
    <3>2. DOMAIN callers' = Callers /\ callers'[c] = call /\ \A b \in Callers \ {c} : callers'[b] = callers[b]
      BY <2>3 DEF DnsInv
    <3>3. \A b \in Callers : InCall(b)'
      BY <2>1, <3>1, <3>2 DEF DnsInv, InCall
    <3> QED
      BY <2>1, <2>3, <3>2, <3>3 DEF DnsInv, Dns!AddedResolves
  <2> QED
    BY <1>2, <2>2, <2>3 DEF Dns!Read
<1>3. ASSUME NEW c \in Callers, Dns!_write_hosts_file(c)
      PROVE  DnsInv' /\ Foreign(hostsFile') = Foreign(hostsFile)
  <2> DEFINE call == callers[c]
  <2>1. /\ call.op \in {"add", "remove"} /\ call.domain \in Domains
        /\ hostsFile' \in SUBSET HostLines /\ Foreign(hostsFile') = Foreign(hostsFile)
        /\ call.op = "add" => Dns!Managed(call.domain) \in hostsFile'
        /\ \A line \in call.read : line \in hostsFile' \/ Dns!In(call.domain, line)
    BY <1>3, WrittenBack
  <2>2. /\ wanted' = (IF call.op = "add" THEN wanted \cup {call.domain} ELSE wanted \ {call.domain})
        /\ callers' = [callers EXCEPT ![c] = Dns!NoCall] /\ dnsmasq' = dnsmasq
        /\ raced' = raced \cup {line.domain : line \in (hostsFile \ call.read) \cup (call.read \ hostsFile)}
    BY <1>3 DEF Dns!_write_hosts_file
  <2> HIDE DEF call
  <2>3. DOMAIN callers' = Callers /\ \A b \in Callers : InCall(b)'
    BY <2>1, <2>2 DEF DnsInv, InCall
  <2>4. ASSUME NEW d \in wanted'
        PROVE  \/ \E line \in hostsFile' : line.domain = d /\ ~line.comment
               \/ d \in dnsmasq.names \/ Dns!Overlaps(d) \/ d \in raced'
    <3>1. CASE d = call.domain /\ call.op = "add"
      BY <2>1, <3>1 DEF Dns!Managed
    <3>2. CASE d # call.domain
      <4>1. d \in wanted /\ d \in Domains
        BY <2>2, <2>4, <3>2 DEF DnsInv
      <4>2. CASE \E line \in hostsFile : line.domain = d /\ ~line.comment
        <5>1. PICK line \in hostsFile : line.domain = d /\ ~line.comment
          BY <4>2
        <5>2. CASE line \notin call.read
          BY <2>2, <5>1, <5>2
        <5>3. CASE line \in call.read
          BY <2>1, <3>2, <4>1, <5>1, <5>3 DEF Dns!In, Dns!Overlaps
        <5> QED
          BY <5>2, <5>3
      <4> QED
        BY <2>2, <4>1, <4>2 DEF DnsInv, Dns!AddedResolves
    <3> QED
      BY <2>1, <2>2, <2>4, <3>1, <3>2
  <2>5. wanted' \in SUBSET Domains
    BY <2>1, <2>2 DEF DnsInv
  <2> QED
    BY <2>1, <2>2, <2>3, <2>4, <2>5 DEF DnsInv, Dns!AddedResolves
<1>4. ASSUME Dns!Container
      PROVE  DnsInv' /\ Foreign(hostsFile') = Foreign(hostsFile)
  <2>1. PICK n \in {dnsmasq.names, {}} : dnsmasq' = [up |-> ~dnsmasq.up, names |-> n]
    BY <1>4 DEF Dns!Container
  <2>2. /\ dnsmasq' \in [up : BOOLEAN, names : SUBSET Domains]
        /\ wanted' = wanted \ (dnsmasq.names \ dnsmasq'.names)
        /\ UNCHANGED <<hostsFile, callers, raced>>
    BY <1>4, <2>1 DEF Dns!Container, DnsInv
  <2> QED
    BY <2>2 DEF DnsInv, InCall, Dns!AddedResolves
<1> QED
  BY <1>1, <1>2, <1>3, <1>4 DEF Dns!Next

LEMMA DnsNext ==
    ASSUME DnsInv, [Next]_vars
    PROVE  DnsInv' /\ [Foreign(hostsFile) = Foreign(hostsFile')]_dnsVars
<1>1. Dns!Next \/ UNCHANGED dnsVars
  BY DEF Next, Only, vars
<1>2. CASE UNCHANGED dnsVars
  BY <1>2 DEF dnsVars, DnsInv, InCall, Dns!AddedResolves
<1> QED
  BY <1>1, <1>2, DnsStep

------------------------------------------------------------------------------
(* VersionManager                                                          *)

\* As version.json holds them: a release has no pre-release number.
Versions ==
    {v \in [n : Nat \X Nat \X Nat, pre : Version!Kinds, num : Nat] : v.pre = "none" => v.num = 0}

\* A release comes after its pre-releases.
Rank(pre) == IF pre = "none" THEN 4 ELSE Version!Order(pre)

\* The order of the tool is that of the numbers, the rank and the pre-release number.
Below(v, w) ==
    \/ v.n[1] < w.n[1]
    \/ v.n[1] = w.n[1] /\ v.n[2] < w.n[2]
    \/ v.n[1] = w.n[1] /\ v.n[2] = w.n[2] /\ v.n[3] < w.n[3]
    \/ v.n = w.n /\ Rank(v.pre) < Rank(w.pre)
    \/ v.n = w.n /\ Rank(v.pre) = Rank(w.pre) /\ v.num < w.num

LEMMA RankInt ==
    ASSUME NEW p \in Version!Kinds, NEW q \in Version!Kinds
    PROVE  /\ Rank(p) \in Int /\ Version!Order(p) \in 0..3
           /\ Rank(p) = Rank(q) => p = q
           /\ p # "none" => Rank(p) = Version!Order(p) /\ Rank(p) < 4
           /\ p = "none" => Rank(p) = 4
  BY DEF Version!Order, Rank, Version!Kinds

LEMMA BelowIsLess ==
    ASSUME NEW v \in Versions, NEW w \in Versions
    PROVE  Version!compare(v, w) = -1 <=> Below(v, w)
<1>1. PICK a \in Nat \X Nat \X Nat, p \in Version!Kinds, k \in Nat : v = [n |-> a, pre |-> p, num |-> k] /\ (p = "none" => k = 0)
  BY DEF Versions
<1>2. PICK b \in Nat \X Nat \X Nat, q \in Version!Kinds, l \in Nat : w = [n |-> b, pre |-> q, num |-> l] /\ (q = "none" => l = 0)
  BY DEF Versions
<1>3. a[1] \in Nat /\ a[2] \in Nat /\ a[3] \in Nat /\ b[1] \in Nat /\ b[2] \in Nat /\ b[3] \in Nat
  OBVIOUS
<1>4. a = b <=> a[1] = b[1] /\ a[2]=b[2] /\ a[3]=b[3]
  OBVIOUS
<1>5. CASE a[1] # b[1]
  BY <1>1, <1>2, <1>3, <1>4, <1>5 DEF Version!compare, Version!Compared, Version!Sign, Below
<1>6. CASE a[1] = b[1] /\ a[2] # b[2]
  BY <1>1, <1>2, <1>3, <1>4, <1>6 DEF Version!compare, Version!Compared, Version!Sign, Below
<1>7. CASE a[1] = b[1] /\ a[2] = b[2] /\ a[3] # b[3]
  BY <1>1, <1>2, <1>3, <1>4, <1>7 DEF Version!compare, Version!Compared, Version!Sign, Below
<1>8. CASE a = b
  <2>1. /\ Rank(p) \in Int /\ Rank(q) \in Int /\ Version!Order(p) \in Int /\ Version!Order(q) \in Int
        /\ Rank(p) = Rank(q) <=> p = q
        /\ p # "none" => Rank(p) = Version!Order(p) /\ Rank(p) < 4
        /\ p = "none" => Rank(p) = 4
        /\ q # "none" => Rank(q) = Version!Order(q) /\ Rank(q) < 4
        /\ q = "none" => Rank(q) = 4
    BY RankInt
  <2>2. CASE p = q
    BY <1>1, <1>2, <1>3, <1>4, <1>8, <2>1, <2>2 DEF Version!compare, Version!Compared, Version!Sign, Below
  <2>3. CASE p # q
    BY <1>1, <1>2, <1>3, <1>4, <1>8, <2>1, <2>3 DEF Version!compare, Version!Compared, Version!Sign, Below
  <2> QED
    BY <2>2, <2>3
<1> QED
  BY <1>4, <1>5, <1>6, <1>7, <1>8

LEMMA BelowTransitive ==
    ASSUME NEW u \in Versions, NEW v \in Versions, NEW w \in Versions, Below(u, v), Below(v, w)
    PROVE  Below(u, w)
<1>1. \A x \in {u, v, w} : x.n \in Nat \X Nat \X Nat /\ Rank(x.pre) \in Int /\ x.num \in Nat
  BY RankInt DEF Versions
<1>2. \A x \in {u, v, w} : x.n[1] \in Nat /\ x.n[2] \in Nat /\ x.n[3] \in Nat
  BY <1>1
<1> DEFINE ru == Rank(u.pre)
           rv == Rank(v.pre)
           rw == Rank(w.pre)
<1>3. ru \in Int /\ rv \in Int /\ rw \in Int /\ u.num \in Nat /\ v.num \in Nat /\ w.num \in Nat
  BY <1>1
<1>4. \/ v.n[1] < w.n[1]
      \/ v.n[1] = w.n[1] /\ v.n[2] < w.n[2]
      \/ v.n[1] = w.n[1] /\ v.n[2] = w.n[2] /\ v.n[3] < w.n[3]
      \/ v.n = w.n /\ rv < rw
      \/ v.n = w.n /\ rv = rw /\ v.num < w.num
  BY DEF Below
<1>5. \/ u.n[1] < v.n[1]
      \/ u.n[1] = v.n[1] /\ u.n[2] < v.n[2]
      \/ u.n[1] = v.n[1] /\ u.n[2] = v.n[2] /\ u.n[3] < v.n[3]
      \/ u.n = v.n /\ ru < rv
      \/ u.n = v.n /\ ru = rv /\ u.num < v.num
  BY DEF Below
<1> HIDE DEF ru, rv, rw
<1>6. \/ u.n[1] < w.n[1]
      \/ u.n[1] = w.n[1] /\ u.n[2] < w.n[2]
      \/ u.n[1] = w.n[1] /\ u.n[2] = w.n[2] /\ u.n[3] < w.n[3]
      \/ u.n = w.n /\ ru < rw
      \/ u.n = w.n /\ ru = rw /\ u.num < w.num
  <2>1. CASE u.n = v.n
    BY <1>2, <1>3, <1>4, <1>5, <2>1
  <2>2. CASE v.n = w.n
    BY <1>2, <1>3, <1>4, <1>5, <2>2
  <2>3. CASE u.n # v.n /\ v.n # w.n
    BY <1>2, <1>4, <1>5, <2>3
  <2> QED
    BY <2>1, <2>2, <2>3
<1> QED
  BY <1>6 DEF Below, ru, rw

VersionInv ==
    /\ version \in Versions /\ issued \in Seq(Versions) /\ wentDown \in BOOLEAN
    /\ issued # <<>> /\ issued[Len(issued)] = version
    /\ Version!VersionsRise

LEMMA VersionInit == Init => VersionInv
<1> SUFFICES ASSUME Init PROVE VersionInv
  OBVIOUS
<1>1. Version!Init
  BY DEF Init
<1>2. Version!Fresh(<<0, 1, 0>>, "none") \in Versions
  BY DEF Version!Fresh, Versions, Version!Kinds
<1>3. PICK v : v = Version!Fresh(<<0, 1, 0>>, "none")
  OBVIOUS
<1>4. version = v /\ issued = <<v>> /\ wentDown = FALSE /\ v \in Versions
  BY <1>1, <1>2, <1>3 DEF Version!Init
<1>5. issued \in Seq(Versions) /\ Len(issued) = 1 /\ issued[1] = v
  BY <1>4
<1>6. \A i, j \in DOMAIN issued : ~(i < j)
  BY <1>5
<1> QED
  BY <1>4, <1>5, <1>6 DEF VersionInv, Version!VersionsRise

\* What a bump makes of a version, before it is written.
LEMMA BumpsUp ==
    ASSUME VersionInv, NEW type \in {"major", "minor", "patch", "pre-release"}, NEW pre \in Version!Kinds,
           version' = Version!Written(Version!bump_version(type, pre))
    PROVE  /\ version' \in Versions
           /\ \/ Below(version, version')
              \/ type = "pre-release" /\ (version.pre = "none" \/ (pre = "none" /\ version.pre # "none")
                                           \/ Version!Order(pre) < Version!Order(version.pre))
<1>1. /\ version.n \in Nat \X Nat \X Nat /\ version.pre \in Version!Kinds /\ version.num \in Nat
      /\ "none" \in Version!Kinds
  BY DEF VersionInv, Versions, Version!Kinds
<1>2. PICK b : b = Version!bump_version(type, pre)
  OBVIOUS
<1>3. ASSUME NEW n \in Nat \X Nat \X Nat, b = Version!Fresh(n, pre)
      PROVE  version' \in Versions /\ version'.n = n
  <2>1. version' = b
    BY <1>2, <1>3 DEF Version!Fresh, Version!Written
  <2> QED
    BY <1>3, <2>1 DEF Version!Fresh, Versions
<1>4. CASE type = "major"
  <2>1. b = Version!Fresh(<<version.n[1] + 1, 0, 0>>, pre)
    BY <1>2, <1>4 DEF Version!bump_version
  <2> QED
    BY <1>1, <1>3, <2>1 DEF Below
<1>5. CASE type = "minor"
  <2>1. b = Version!Fresh(<<version.n[1], version.n[2] + 1, 0>>, pre)
    BY <1>2, <1>5 DEF Version!bump_version
  <2> QED
    BY <1>1, <1>3, <2>1 DEF Below
<1>6. CASE type = "patch"
  <2>1. b = Version!Fresh(<<version.n[1], version.n[2], version.n[3] + 1>>, pre)
    BY <1>2, <1>6 DEF Version!bump_version
  <2> QED
    BY <1>1, <1>3, <2>1 DEF Below
<1>7. CASE type = "pre-release"
  <2>1. b = [n |-> version.n, pre |-> IF pre = "none" THEN version.pre ELSE pre,
             num |-> IF version.pre = pre THEN version.num + 1 ELSE 1]
    BY <1>2, <1>7 DEF Version!bump_version
  <2>2. /\ b \in [n : Nat \X Nat \X Nat, pre : Version!Kinds, num : Nat] /\ b.n = version.n
        /\ pre # "none" => b.pre = pre
    BY <1>1, <2>1
  <2>3. CASE b.pre = "none"
    <3>1. version' \in Versions
      BY <1>2, <2>2, <2>3 DEF Version!Written, Versions
    <3> QED
      BY <1>7, <2>1, <2>3, <3>1
  <2>4. CASE b.pre # "none"
    <3>1. version' = b
      BY <1>2, <2>4 DEF Version!Written
    <3>2. version' \in Versions
      BY <2>2, <2>4, <3>1 DEF Versions
    <3>3. CASE pre # "none" /\ version.pre # "none" /\ Version!Order(pre) > Version!Order(version.pre)
      BY <1>1, <2>2, <3>1, <3>2, <3>3, RankInt DEF Below
    <3>4. CASE pre # "none" /\ version.pre # "none" /\ Version!Order(pre) = Version!Order(version.pre)
      <4>1. version.pre = pre
        BY <1>1, <3>4, RankInt
      <4> QED
        BY <1>1, <2>1, <2>2, <3>1, <3>2, <3>4, <4>1 DEF Below
    <3> QED
      BY <1>1, <1>7, <3>2, <3>3, <3>4, RankInt
  <2> QED
    BY <2>3, <2>4
<1> QED
  BY <1>4, <1>5, <1>6, <1>7

LEMMA VersionStep ==
    ASSUME VersionInv, [Next]_vars
    PROVE  VersionInv'
<1>1. Version!Next \/ UNCHANGED versionVars
  BY DEF Next, Only, vars
<1>2. CASE UNCHANGED versionVars
  BY <1>2 DEF versionVars, VersionInv, Version!VersionsRise
<1>3. CASE Version!create_git_tag
  BY <1>3 DEF Version!create_git_tag, VersionInv, Version!VersionsRise
<1>4. ASSUME NEW type \in {"major", "minor", "patch", "pre-release"}, NEW pre \in Version!Kinds,
             Version!update_version(type, pre)
      PROVE  VersionInv'
  <2> DEFINE back == type = "pre-release" /\ (version.pre = "none" \/ (pre = "none" /\ version.pre # "none")
                                               \/ Version!Order(pre) < Version!Order(version.pre))
  <2>1. /\ version' = Version!Written(Version!bump_version(type, pre))
        /\ issued' = Append(issued, version') /\ wentDown' = (wentDown \/ back)
    BY <1>4 DEF Version!update_version
  <2>2. version' \in Versions /\ (Below(version, version') \/ back)
    BY <2>1, BumpsUp
  <2> HIDE DEF back
  <2>3. /\ issued' \in Seq(Versions) /\ issued' # <<>> /\ Len(issued') = Len(issued) + 1
        /\ issued'[Len(issued')] = version'
        /\ \A i \in DOMAIN issued : issued'[i] = issued[i] /\ issued[i] \in Versions
    BY <2>1, <2>2 DEF VersionInv
  <2>4. ASSUME ~wentDown', NEW i \in DOMAIN issued', NEW j \in DOMAIN issued', i < j
        PROVE  Version!compare(issued'[i], issued'[j]) = -1
    <3>1. ~wentDown /\ Below(version, version') /\ i \in DOMAIN issued
      <4>1. ~wentDown /\ Below(version, version')
        BY <2>1, <2>2, <2>4
      <4>2. /\ DOMAIN issued = 1..Len(issued) /\ DOMAIN issued' = 1..Len(issued')
            /\ Len(issued) \in Nat
        BY <2>3 DEF VersionInv
      <4> QED
        BY <2>3, <2>4, <4>1, <4>2
    <3>2. CASE j \in DOMAIN issued
      BY <2>3, <2>4, <3>1, <3>2 DEF VersionInv, Version!VersionsRise
    <3>3. CASE j = Len(issued) + 1
      <4>1. issued[i] = version \/ Below(issued[i], version)
        <5>1. i = Len(issued) \/ (i < Len(issued) /\ Len(issued) \in DOMAIN issued)
          BY <2>4, <3>1, <3>3 DEF VersionInv
        <5> QED
          BY <3>1, <5>1, <2>3, BelowIsLess DEF VersionInv, Version!VersionsRise
      <4>2. Below(issued[i], version')
        BY <2>2, <2>3, <3>1, <4>1, BelowTransitive DEF VersionInv
      <4> QED
        BY <2>2, <2>3, <3>1, <3>3, <4>2, BelowIsLess
    <3> QED
      BY <2>3, <2>4, <3>2, <3>3 DEF VersionInv
  <2>5. Version!VersionsRise'
    BY <2>4 DEF Version!VersionsRise
  <2>6. wentDown' \in BOOLEAN
    BY <2>1 DEF VersionInv, back
  <2> QED
    BY <2>2, <2>3, <2>5, <2>6 DEF VersionInv
<1> QED
  BY <1>1, <1>2, <1>3, <1>4 DEF Version!Next

------------------------------------------------------------------------------
(* EnvManager                                                              *)

EnvLines == Seq(EnvKeys \X Nat)
EnvFiles == [lines : EnvLines, ok : BOOLEAN]

KeysOnce(lines) == \A i, j \in DOMAIN lines : lines[i][1] = lines[j][1] => i = j

\* What the file may hold, and a backup: a line for each key.
GoodFiles == {f \in EnvFiles : KeysOnce(f.lines)}

EnvInv ==
    /\ envFile \in GoodFiles /\ ops \in Nat
    /\ \A n \in DOMAIN backups : backups[n] \in GoodFiles
    /\ Env!NothingLost

LEMMA EnvInit == Init => EnvInv
<1> SUFFICES ASSUME Init PROVE EnvInv
  OBVIOUS
<1>1. Env!Init
  BY DEF Init
<1>2. PICK k \in EnvKeys, ok \in BOOLEAN : envFile = [lines |-> <<<<k, 0>>>>, ok |-> ok]
  BY <1>1 DEF Env!Init, Env!File
<1>3. <<<<k, 0>>>> \in EnvLines /\ KeysOnce(<<<<k, 0>>>>)
  BY DEF EnvLines, KeysOnce
<1>4. envFile \in GoodFiles
  BY <1>2, <1>3 DEF GoodFiles, EnvFiles
<1>5. backups = <<>> /\ ops = 0 /\ past = {}
  BY <1>1 DEF Env!Init
<1> QED
  BY <1>4, <1>5 DEF EnvInv, Env!NothingLost

\* What is read has a line for each key, and LineOf finds it.
LEMMA LineFound ==
    ASSUME EnvInv, NEW key \in EnvKeys
    PROVE  /\ Env!read_env_file \in EnvLines /\ KeysOnce(Env!read_env_file)
           /\ Env!LineOf(key) = 0 => \A i \in DOMAIN Env!read_env_file : Env!read_env_file[i][1] # key
           /\ Env!LineOf(key) # 0 =>
                 Env!LineOf(key) \in DOMAIN Env!read_env_file /\ Env!read_env_file[Env!LineOf(key)][1] = key
<1>1. PICK lines : lines = Env!read_env_file
  OBVIOUS
<1>2. lines \in EnvLines /\ KeysOnce(lines)
  BY <1>1 DEF EnvInv, GoodFiles, EnvFiles, Env!read_env_file, EnvLines, KeysOnce
<1> DEFINE at == {i \in DOMAIN lines : lines[i][1] = key}
<1>3. Env!LineOf(key) = IF at = {} THEN 0 ELSE Env!Max(at)
  BY <1>1 DEF Env!LineOf
<1>4. at \in SUBSET (1..Len(lines)) /\ Len(lines) \in Nat
  BY <1>2 DEF EnvLines
<1>5. IsFiniteSet(at) /\ at \in SUBSET Int
  <2> HIDE DEF at
  <2>1. IsFiniteSet(1..Len(lines)) /\ 1..Len(lines) \in SUBSET Int
    BY <1>4, FS_Interval
  <2> QED
    BY <1>4, <2>1, FS_Subset
<1>6. ASSUME at # {} PROVE Env!Max(at) \in at
  <2>1. \E x \in at : \A y \in at : x >= y
    BY <1>5, <1>6, Greatest
  <2> QED
    BY <2>1 DEF Env!Max
<1>7. CASE at = {}
  BY <1>1, <1>2, <1>3, <1>7
<1>8. CASE at # {}
  BY <1>1, <1>2, <1>3, <1>4, <1>6, <1>8
<1> QED
  BY <1>7, <1>8

\* The ways a file changes leave a line for each key.
LEMMA Appended ==
    ASSUME NEW lines \in EnvLines, KeysOnce(lines), NEW key \in EnvKeys, NEW v \in Nat,
           \A i \in DOMAIN lines : lines[i][1] # key
    PROVE  Append(lines, <<key, v>>) \in EnvLines /\ KeysOnce(Append(lines, <<key, v>>))
<1>1. PICK l : l = Append(lines, <<key, v>>)
  OBVIOUS
<1>2. /\ l \in EnvLines /\ Len(l) = Len(lines) + 1 /\ l[Len(lines) + 1] = <<key, v>>
      /\ \A i \in 1..Len(lines) : l[i] = lines[i]
      /\ DOMAIN lines = 1..Len(lines) /\ DOMAIN l = 1..Len(l) /\ Len(lines) \in Nat
  BY <1>1 DEF EnvLines
<1>3. l[Len(lines) + 1][1] = key
  BY <1>2
<1>4. KeysOnce(l)
  BY <1>2, <1>3 DEF KeysOnce
<1> QED
  BY <1>1, <1>2, <1>4

LEMMA Modified ==
    ASSUME NEW lines \in EnvLines, KeysOnce(lines), NEW key \in EnvKeys, NEW v \in Nat,
           NEW m \in DOMAIN lines, lines[m][1] = key
    PROVE  /\ [lines EXCEPT ![m] = <<key, v>>] \in EnvLines
           /\ KeysOnce([lines EXCEPT ![m] = <<key, v>>])
<1>1. PICK l : l = [lines EXCEPT ![m] = <<key, v>>]
  OBVIOUS
<1>2. l \in EnvLines /\ DOMAIN l = DOMAIN lines
  BY <1>1 DEF EnvLines
<1>3. \A i \in DOMAIN lines : l[i][1] = lines[i][1]
  BY <1>1 DEF EnvLines
<1> QED
  BY <1>1, <1>2, <1>3 DEF KeysOnce

LEMMA LineRemoved ==
    ASSUME NEW lines \in EnvLines, KeysOnce(lines), NEW m \in DOMAIN lines
    PROVE  Env!RemoveAt(lines, m) \in EnvLines /\ KeysOnce(Env!RemoveAt(lines, m))
<1> DEFINE l == Env!RemoveAt(lines, m)
<1>2. /\ l \in EnvLines /\ Len(l) = Len(lines) - 1 /\ m \in 1..Len(lines) /\ Len(lines) \in Nat
      /\ \A i \in 1..(m - 1) : l[i] = lines[i]
      /\ \A i \in m..(Len(lines) - 1) : l[i] = lines[i + 1]
  <2> DEFINE S == EnvKeys \X Nat
             a == SubSeq(lines, 1, m - 1)
             b == SubSeq(lines, m + 1, Len(lines))
  <2> HIDE DEF S
  <2>1. lines \in Seq(S) /\ m \in 1..Len(lines) /\ Len(lines) \in Nat
    BY DEF EnvLines, S
  <2>2. /\ a \in Seq(S) /\ Len(a) = m - 1
        /\ \A i \in 1..(m - 1) : a[i] = lines[i]
    BY <2>1
  <2>3. /\ b \in Seq(S) /\ Len(b) = Len(lines) - m
        /\ \A i \in 1..(Len(lines) - m) : b[i] = lines[m + i]
    BY <2>1
  <2>4. l = a \o b
    BY DEF Env!RemoveAt
  <2> HIDE DEF a, b, l
  <2>5. /\ l \in Seq(S) /\ Len(l) = Len(lines) - 1
        /\ \A i \in 1..Len(l) : l[i] = IF i <= m - 1 THEN a[i] ELSE b[i - (m - 1)]
    <3>1. a \in Seq(S) /\ b \in Seq(S) /\ Len(a) = m - 1 /\ Len(b) = Len(lines) - m
      BY <2>2, <2>3
    <3>2. /\ l \in Seq(S) /\ Len(l) = Len(a) + Len(b)
          /\ \A i \in 1..Len(l) : l[i] = IF i <= Len(a) THEN a[i] ELSE b[i - Len(a)]
      BY <2>4, <3>1
    <3>3. Len(l) = Len(lines) - 1
      BY <2>1, <3>1, <3>2
    <3> QED
      BY <3>1, <3>2, <3>3
  <2>6. ASSUME NEW i \in m..(Len(lines) - 1) PROVE l[i] = lines[i + 1]
    <3>0. Len(lines) \in Nat /\ m \in Nat /\ i \in Int /\ m <= i /\ i <= Len(lines) - 1
      BY <2>1
    <3>1. i \in 1..Len(l) /\ ~(i <= m - 1) /\ i - (m - 1) \in 1..(Len(lines) - m)
      BY <2>1, <2>5
    <3>2. l[i] = b[i - (m - 1)] /\ b[i - (m - 1)] = lines[m + (i - (m - 1))]
      BY <2>3, <2>5, <3>1
    <3>3. m + (i - (m - 1)) = i + 1
      BY <2>1
    <3> QED
      BY <3>2, <3>3
  <2>7. ASSUME NEW i \in 1..(m - 1) PROVE l[i] = lines[i]
    <3>1. i \in 1..Len(l) /\ i <= m - 1
      BY <2>1, <2>5
    <3>2. l[i] = a[i] /\ a[i] = lines[i]
      BY <2>2, <2>5, <3>1
    <3> QED
      BY <3>2
  <2> QED
    BY <2>1, <2>5, <2>6, <2>7 DEF EnvLines, S
<1> HIDE DEF l
<1>3. DOMAIN l = 1..(Len(lines) - 1) /\ DOMAIN lines = 1..Len(lines)
  BY <1>2 DEF EnvLines
<1>4. ASSUME NEW i \in DOMAIN l, NEW j \in DOMAIN l, l[i][1] = l[j][1] PROVE i = j
  <2>1. /\ i < m => l[i] = lines[i]
        /\ i >= m => l[i] = lines[i + 1]
        /\ j < m => l[j] = lines[j]
        /\ j >= m => l[j] = lines[j + 1]
    BY <1>2, <1>3
  <2>2. i \in DOMAIN lines /\ i + 1 \in DOMAIN lines /\ j \in DOMAIN lines /\ j + 1 \in DOMAIN lines
    BY <1>2, <1>3
  <2>3. i \in Int /\ j \in Int /\ m \in Int
    BY <1>2, <1>3
  <2> QED
    BY <1>4, <2>1, <2>2, <2>3 DEF KeysOnce
<1> QED
  BY <1>2, <1>4 DEF KeysOnce, l

\* A backup is made of the file as it is, and what it takes the name of is overwritten.
LEMMA BackedUp ==
    ASSUME EnvInv, NEW suffix, Env!create_backup(suffix), past' = past \cup {envFile}
    PROVE  /\ \A n \in DOMAIN backups' : backups'[n] \in GoodFiles
           /\ Env!NothingLost'
<1> DEFINE name == <<suffix, second>>
<1>1. /\ backups' = [n \in DOMAIN backups \cup {name} |-> IF n = name THEN envFile ELSE backups[n]]
      /\ overwritten' = overwritten \cup {backups[n] : n \in DOMAIN backups \cap {name}}
  BY DEF Env!create_backup
<1> HIDE DEF name
<1>2. /\ DOMAIN backups' = DOMAIN backups \cup {name} /\ backups'[name] = envFile
      /\ \A n \in DOMAIN backups \ {name} : backups'[n] = backups[n]
  BY <1>1
<1>3. \A n \in DOMAIN backups : backups[n] \in {backups'[k] : k \in DOMAIN backups'} \/ backups[n] \in overwritten'
  BY <1>1, <1>2
<1>4. ASSUME NEW c \in past' PROVE c \in {backups'[n] : n \in DOMAIN backups'} \/ c \in overwritten'
  <2>1. CASE c = envFile
    BY <1>2, <2>1
  <2>2. CASE c \in overwritten
    BY <1>1, <2>2
  <2>3. CASE c \in {backups[n] : n \in DOMAIN backups}
    BY <1>3, <2>3
  <2> QED
    BY <2>1, <2>2, <2>3 DEF EnvInv, Env!NothingLost
<1> QED
  BY <1>2, <1>4 DEF EnvInv, Env!NothingLost

LEMMA EnvStep ==
    ASSUME EnvInv, [Next]_vars
    PROVE  EnvInv'
<1>1. Env!Next \/ UNCHANGED envVars
  BY DEF Next, Only, vars
<1>2. CASE UNCHANGED envVars
  BY <1>2 DEF envVars, EnvInv, Env!NothingLost
<1>3. ASSUME NEW lines \in EnvLines, KeysOnce(lines), Env!Step, Env!Change(lines),
             NEW suffix, Env!create_backup(suffix)
      PROVE  EnvInv'
  <2>1. envFile' = [lines |-> lines, ok |-> TRUE] /\ past' = past \cup {envFile} /\ ops' = ops + 1
    BY <1>3 DEF Env!Change, Env!File, Env!Step
  <2>2. envFile' \in GoodFiles
    BY <1>3, <2>1 DEF GoodFiles, EnvFiles
  <2>3. ops' \in Nat
    BY <2>1 DEF EnvInv
  <2> QED
    BY <1>3, <2>1, <2>2, <2>3, BackedUp DEF EnvInv
<1>4. ASSUME NEW k \in EnvKeys, Env!add_variable(k) PROVE EnvInv'
  <2>1. /\ Append(Env!read_env_file, <<k, ops>>) \in EnvLines
        /\ KeysOnce(Append(Env!read_env_file, <<k, ops>>))
    BY <1>4, LineFound, Appended DEF Env!add_variable, EnvInv
  <2> QED
    BY <1>3, <1>4, <2>1 DEF Env!add_variable
<1>5. ASSUME NEW k \in EnvKeys, Env!modify_variable(k) PROVE EnvInv'
  <2>1. /\ [Env!read_env_file EXCEPT ![Env!LineOf(k)] = <<k, ops>>] \in EnvLines
        /\ KeysOnce([Env!read_env_file EXCEPT ![Env!LineOf(k)] = <<k, ops>>])
    BY <1>5, LineFound, Modified DEF Env!modify_variable, EnvInv
  <2> QED
    BY <1>3, <1>5, <2>1 DEF Env!modify_variable
<1>6. ASSUME NEW k \in EnvKeys, Env!remove_variable(k) PROVE EnvInv'
  <2>1. /\ Env!RemoveAt(Env!read_env_file, Env!LineOf(k)) \in EnvLines
        /\ KeysOnce(Env!RemoveAt(Env!read_env_file, Env!LineOf(k)))
    <3>1. Env!LineOf(k) # 0
      BY <1>6 DEF Env!remove_variable
    <3>2. /\ Env!read_env_file \in EnvLines /\ KeysOnce(Env!read_env_file)
          /\ Env!LineOf(k) \in DOMAIN Env!read_env_file
      BY <3>1, LineFound
    <3> QED
      BY <3>2, LineRemoved
  <2> QED
    BY <1>3, <1>6, <2>1 DEF Env!remove_variable
<1>7. ASSUME NEW n \in DOMAIN backups, Env!restore_backup(n) PROVE EnvInv'
  <2>1. /\ envFile' = backups'[n] /\ past' = past \cup {envFile} /\ ops' = ops + 1
        /\ Env!create_backup("before_restore")
    BY <1>7 DEF Env!restore_backup, Env!Step
  <2>2. /\ \A m \in DOMAIN backups' : backups'[m] \in GoodFiles
        /\ Env!NothingLost'
    BY <2>1, BackedUp
  <2>3. n \in DOMAIN backups'
    BY <2>1 DEF Env!create_backup
  <2> QED
    BY <2>1, <2>2, <2>3 DEF EnvInv
<1>8. CASE Env!Tick
  BY <1>8 DEF Env!Tick, EnvInv, Env!NothingLost
<1> QED
  BY <1>1, <1>2, <1>4, <1>5, <1>6, <1>7, <1>8 DEF Env!Next

\* However long the tools are used: what .env held is in it, in a backup or known to be
\* overwritten, and no key is in it twice; versions rise; a pattern gets one issue; an
\* added name resolves, and a call leaves the lines of others in the hosts file alone.
THEOREM ToolsKept == Spec => ToolsLoseNothing
<1>1. Init => EnvInv /\ VersionInv /\ IssuesInv /\ DnsInv
  BY EnvInit, VersionInit, IssuesInit, DnsInit
<1>2. EnvInv /\ VersionInv /\ IssuesInv /\ DnsInv /\ [Next]_vars
      => EnvInv' /\ VersionInv' /\ IssuesInv' /\ DnsInv'
  BY EnvStep, VersionStep, IssuesNext, DnsNext
<1>3. DnsInv /\ [Next]_vars => [Foreign(hostsFile) = Foreign(hostsFile')]_dnsVars
  BY DnsNext
<1>4. /\ EnvInv => Env!NothingLost /\ Env!OneLineEach
      /\ VersionInv => Version!VersionsRise
      /\ IssuesInv => Issues!OneIssueEach
      /\ DnsInv => Dns!AddedResolves
  BY DEF EnvInv, Env!OneLineEach, GoodFiles, KeysOnce, VersionInv, IssuesInv, DnsInv
<1>5. Dns!ForeignStay <=> [][Foreign(hostsFile) = Foreign(hostsFile')]_dnsVars
  BY DEF Dns!ForeignStay, Dns!dnsVars, dnsVars, Foreign
<1> QED
  BY <1>1, <1>2, <1>3, <1>4, <1>5, PTL DEF Spec, ToolsLoseNothing

------------------------------------------------------------------------------
(* The gates, for inputs of any size.  Gates judges one input of a bounded *)
(* family; here the same properties are of every input of a form.          *)

\* A failed job says more than that it failed only where it did fail.
Reviews ==
    {x \in [conclusion : STRING, blocks : Seq([shape : BOOLEAN, verdict : STRING, findings : BOOLEAN]),
            sensitive : BOOLEAN, mode : STRING, job_result : STRING, ready : STRING, availability : STRING] :
        x.conclusion = "success" => x.mode # "declined" /\ x.availability # "true"}

\* The last block that carries the nonce approves.
Approval(x) == Gate!Review!extract_verdict_json(x.blocks) = "approve"

\* When the check passes.
Passes(x) ==
    \/ x.job_result = "cancelled" \/ x.ready = "false"
    \/ x.conclusion = "success" /\ Approval(x)
    \/ x.conclusion # "success" /\ (x.availability = "true" \/ (x.mode = "declined" /\ x.sensitive))

\* The decision of a job that is over, and of one that is not looked at.
LEMMA Decided ==
  ASSUME NEW x
  PROVE  LET r == Gate!Review!decide(x)
         IN  /\ x.job_result = "cancelled" => r = Gate!Review!Result("superseded", FALSE, FALSE)
             /\ x.job_result # "cancelled" /\ x.ready = "false" => r = Gate!Review!Result("skip", FALSE, FALSE)
             /\ x.job_result # "cancelled" /\ x.ready # "false" =>
                    r = IF x.conclusion = "success" THEN Gate!Review!decide_verdict(x) ELSE Gate!Review!decide_failed(x)
<1>1. ASSUME x.job_result = "cancelled" PROVE Gate!Review!decide(x) = Gate!Review!Result("superseded", FALSE, FALSE)
  BY <1>1, Zenon DEF Gate!Review!decide
<1>2. ASSUME x.job_result # "cancelled", x.ready = "false" PROVE Gate!Review!decide(x) = Gate!Review!Result("skip", FALSE, FALSE)
  BY <1>2, Zenon DEF Gate!Review!decide
<1>3. ASSUME x.job_result # "cancelled", x.ready # "false"
      PROVE  Gate!Review!decide(x) = IF x.conclusion = "success" THEN Gate!Review!decide_verdict(x) ELSE Gate!Review!decide_failed(x)
  BY <1>3, Zenon DEF Gate!Review!decide
<1> QED
  BY <1>1, <1>2, <1>3

\* Of a job that failed the check passes for an outage or a declined review only.
LEMMA FailedJob ==
  ASSUME NEW x
  PROVE  LET r == Gate!Review!decide_failed(x)
         IN  /\ r.decision # "approve"
             /\ Gate!Review!check_for(r) =
                    IF x.availability = "true" \/ (x.mode = "declined" /\ x.sensitive) THEN "pass" ELSE "fail"
<1>1. CASE x.availability = "true"
  <2>1. Gate!Review!decide_failed(x) = Gate!Review!Result("outage", FALSE, FALSE)
    BY <1>1, Zenon DEF Gate!Review!decide_failed
  <2> QED
    BY <1>1, <2>1 DEF Gate!Review!check_for, Gate!Review!Result, Gate!Review!ALWAYS_PASS
<1>2. CASE x.availability # "true" /\ x.mode = "declined" /\ x.sensitive
  <2>1. Gate!Review!decide_failed(x) = Gate!Review!Result("comment", FALSE, TRUE)
    BY <1>2, Zenon DEF Gate!Review!decide_failed
  <2> QED
    BY <1>2, <2>1 DEF Gate!Review!check_for, Gate!Review!Result, Gate!Review!ALWAYS_PASS
<1>3. CASE x.availability # "true" /\ ~(x.mode = "declined" /\ x.sensitive)
  <2>1. Gate!Review!decide_failed(x) = Gate!Review!Result("abstain", FALSE, FALSE)
    BY <1>3, Zenon DEF Gate!Review!decide_failed
  <2> QED
    BY <1>3, <2>1 DEF Gate!Review!check_for, Gate!Review!Result, Gate!Review!ALWAYS_PASS
<1> QED
  BY <1>1, <1>2, <1>3

\* Of a job that succeeded it passes for an approval only.
LEMMA ReviewedJob ==
  ASSUME NEW x
  PROVE  LET r == Gate!Review!decide_verdict(x)
         IN  /\ r.decision = "approve" <=> Approval(x) /\ ~x.sensitive
             /\ Gate!Review!check_for(r) = IF Approval(x) THEN "pass" ELSE "fail"
<1> DEFINE v == Gate!Review!extract_verdict_json(x.blocks)
<1>0. v \in {"none", "approve", "request_changes", "comment"}
  BY DEF Gate!Review!extract_verdict_json, Gate!Review!VALID_VERDICTS
<1>1. CASE v = "none"
  <2>1. Gate!Review!decide_verdict(x) = Gate!Review!Result("abstain", FALSE, FALSE)
    BY <1>1, Zenon DEF Gate!Review!decide_verdict
  <2> QED
    BY <1>1, <2>1 DEF Gate!Review!check_for, Gate!Review!Result, Gate!Review!ALWAYS_PASS, Approval
<1>2. CASE v = "approve" /\ x.sensitive
  <2>1. Gate!Review!decide_verdict(x) = Gate!Review!Result("comment", TRUE, FALSE)
    BY <1>2, Zenon DEF Gate!Review!decide_verdict
  <2> QED
    BY <1>2, <2>1 DEF Gate!Review!check_for, Gate!Review!Result, Gate!Review!ALWAYS_PASS, Approval
<1>3. CASE v # "none" /\ ~(v = "approve" /\ x.sensitive)
  <2>1. Gate!Review!decide_verdict(x) = Gate!Review!Result(v, FALSE, FALSE)
    BY <1>3, Zenon DEF Gate!Review!decide_verdict
  <2> HIDE DEF v
  <2>2. v \in {"approve", "request_changes", "comment"} /\ ~(v = "approve" /\ x.sensitive) /\ (Approval(x) <=> v = "approve")
    BY <1>0, <1>3 DEF Approval, v
  <2> QED
    BY <2>1, <2>2 DEF Gate!Review!check_for, Gate!Review!Result, Gate!Review!ALWAYS_PASS
<1> QED
  BY <1>1, <1>2, <1>3

LEMMA CheckDecided ==
  ASSUME NEW x
  PROVE  /\ Gate!Review!check_for(Gate!Review!decide(x)) = IF Passes(x) THEN "pass" ELSE "fail"
         /\ Gate!Review!decide(x).decision = "approve" <=>
                /\ x.job_result # "cancelled" /\ x.ready # "false" /\ x.conclusion = "success"
                /\ Approval(x) /\ ~x.sensitive
<1>1. \A s \in {"superseded", "skip"} :
          LET r == Gate!Review!Result(s, FALSE, FALSE)
          IN  r.decision = s /\ Gate!Review!check_for(r) = "pass"
  BY DEF Gate!Review!check_for, Gate!Review!Result, Gate!Review!ALWAYS_PASS
<1>2. CASE x.job_result = "cancelled"
  BY <1>1, <1>2, Decided DEF Passes
<1>3. CASE x.job_result # "cancelled" /\ x.ready = "false"
  BY <1>1, <1>3, Decided DEF Passes
<1>4. CASE x.job_result # "cancelled" /\ x.ready # "false" /\ x.conclusion = "success"
  BY <1>4, Decided, ReviewedJob DEF Passes
<1>5. CASE x.job_result # "cancelled" /\ x.ready # "false" /\ x.conclusion # "success"
  BY <1>5, Decided, FailedJob DEF Passes
<1> QED
  BY <1>2, <1>3, <1>4, <1>5

\* A review that passes as y passes as x, and y approves nothing of its own.
NoBetter(x, y) ==
    /\ Gate!Review!check_for(Gate!Review!decide(x)) = "fail" => Gate!Review!check_for(Gate!Review!decide(y)) = "fail"
    /\ Gate!Review!decide(y).decision = "approve" =>
           Gate!Review!decide(x).decision \in {"approve", "superseded", "skip"}

LEMMA LastWord ==
  ASSUME NEW x \in Reviews, Approval(x)
  PROVE  x.blocks # <<>> /\ Gate!Review!Last(x.blocks) = Gate!Review!Block(TRUE, "approve", FALSE)
<1> PICK b, t : b = x.blocks /\ t = b[Len(b)]
  OBVIOUS
<1>1. b \in Seq([shape : BOOLEAN, verdict : STRING, findings : BOOLEAN])
  BY DEF Reviews
<1>2. b # <<>> /\ t.shape /\ t.verdict = "approve" /\ ~t.findings
  BY DEF Approval, Gate!Review!extract_verdict_json, Gate!Review!Last
<1>3. Len(b) \in 1..Len(b)
  BY <1>1, <1>2
<1> DEFINE S == [shape : BOOLEAN, verdict : STRING, findings : BOOLEAN]
<1>4. t \in S
  <2> HIDE DEF S
  <2>1. b \in Seq(S)
    BY <1>1 DEF S
  <2> QED
    BY <1>3, <2>1
<1>5. t = [shape |-> TRUE, verdict |-> "approve", findings |-> FALSE]
  BY <1>2, <1>4
<1> QED
  BY <1>2, <1>5 DEF Gate!Review!Last, Gate!Review!Block

LEMMA NoBlocks == ASSUME NEW x, x.blocks = <<>> PROVE ~Approval(x)
BY DEF Approval, Gate!Review!extract_verdict_json

\* What a variable that is lost, or another than any that the script asks for, does.
LEMMA LostVariables ==
  ASSUME NEW x \in Reviews, NEW e
  PROVE  /\ e # "success" => NoBetter(x, [x EXCEPT !.conclusion = e])
         /\ NoBetter(x, [x EXCEPT !.blocks = <<>>])
         /\ e # "declined" => NoBetter(x, [x EXCEPT !.mode = e])
         /\ e # "cancelled" => NoBetter(x, [x EXCEPT !.job_result = e])
         /\ e # "false" => NoBetter(x, [x EXCEPT !.ready = e])
         /\ e # "true" => NoBetter(x, [x EXCEPT !.availability = e])
<1> DEFINE Same(y) == /\ Approval(y) <=> Approval(x)
                      /\ y.sensitive = x.sensitive
<1> DEFINE Worse(y) ==
      /\ Passes(y) => Passes(x)
      /\ /\ y.job_result # "cancelled" /\ y.ready # "false" /\ y.conclusion = "success"
         /\ Approval(y) /\ ~y.sensitive
         => \/ x.job_result = "cancelled" \/ x.ready = "false"
            \/ x.conclusion = "success" /\ Approval(x) /\ ~x.sensitive
<1>1. ASSUME NEW y, Worse(y) PROVE NoBetter(x, y)
  <2>1. /\ x.job_result = "cancelled" => Gate!Review!decide(x).decision = "superseded"
        /\ x.job_result # "cancelled" /\ x.ready = "false" => Gate!Review!decide(x).decision = "skip"
    BY Decided DEF Gate!Review!Result
  <2> QED
    BY <1>1, <2>1, CheckDecided DEF NoBetter
<1>2. ASSUME e # "success" PROVE Worse([x EXCEPT !.conclusion = e])
  BY <1>2 DEF Passes, Approval, Reviews
<1>3. Worse([x EXCEPT !.blocks = <<>>])
  BY NoBlocks DEF Passes, Reviews
<1>4. ASSUME e # "declined" PROVE Worse([x EXCEPT !.mode = e])
  BY <1>4 DEF Passes, Approval, Reviews
<1>5. ASSUME e # "cancelled" PROVE Worse([x EXCEPT !.job_result = e])
  BY <1>5 DEF Passes, Approval, Reviews
<1>6. ASSUME e # "false" PROVE Worse([x EXCEPT !.ready = e])
  BY <1>6 DEF Passes, Approval, Reviews
<1>7. ASSUME e # "true" PROVE Worse([x EXCEPT !.availability = e])
  BY <1>7 DEF Passes, Approval, Reviews
<1> HIDE DEF Worse
<1> QED
  BY <1>1, <1>2, <1>3, <1>4, <1>5, <1>6, <1>7

LEMMA SensitiveLost ==
  ASSUME NEW x \in Reviews, Gate!Review!check_for(Gate!Review!decide(x)) = "fail"
  PROVE  Gate!Review!check_for(Gate!Review!decide([x EXCEPT !.sensitive = FALSE])) = "fail"
<1>1. ~Passes(x)
  BY CheckDecided
<1>2. ~Passes([x EXCEPT !.sensitive = FALSE])
  BY <1>1 DEF Passes, Approval, Reviews
<1> QED
  BY <1>2, CheckDecided

\* The check of the review gate passes only for an approval without findings or a reason
\* the workflow names, and fails closed when a variable is not set, whatever the answer
\* holds: any number of blocks of any content.
THEOREM ReviewsAreEarned == \A x \in Reviews : Gate!Review!PassIsEarned(x) /\ Gate!Review!UnsetFailsClosed(x)
<1> SUFFICES ASSUME NEW x \in Reviews PROVE Gate!Review!PassIsEarned(x) /\ Gate!Review!UnsetFailsClosed(x)
  OBVIOUS
<1>1. Gate!Review!PassIsEarned(x)
  BY CheckDecided, LastWord DEF Passes, Gate!Review!PassIsEarned
<1>2. /\ NoBetter(x, [x EXCEPT !.conclusion = ""]) /\ NoBetter(x, [x EXCEPT !.blocks = <<>>])
      /\ NoBetter(x, [x EXCEPT !.mode = ""]) /\ NoBetter(x, [x EXCEPT !.job_result = ""])
      /\ NoBetter(x, [x EXCEPT !.ready = ""]) /\ NoBetter(x, [x EXCEPT !.availability = ""])
  <2>1. "" # "success" /\ "" # "declined" /\ "" # "cancelled" /\ "" # "false" /\ "" # "true"
    BY Zenon
  <2> QED
    BY <2>1, LostVariables, Zenon
<1>3. Gate!Review!UnsetFailsClosed(x)
  BY <1>2, SensitiveLost, Zenon DEF NoBetter, Gate!Review!UnsetFailsClosed
<1> QED
  BY <1>1, <1>3

\* A file of any length before and after: a line that the diff does not show is one of
\* the lines before.
Changes ==
    {x \in [base : Seq(Gate!Design!LineKinds), basePath : STRING,
            head : Seq([kind : Gate!Design!LineKinds, added : BOOLEAN]), path : STRING,
            changedOnly : BOOLEAN, diffWorks : BOOLEAN] :
        \A i \in DOMAIN x.head : ~x.head[i].added => \E j \in DOMAIN x.base : x.head[i].kind = x.base[j]}

\* The ratchet of gate_ds_conformance.py keeps a clean file clean, however long it is and
\* however many of its lines a pull request adds, keeps or takes away.
THEOREM RatchetKept == \A x \in Changes : Gate!Design!RatchetHolds(x)
<1> SUFFICES ASSUME NEW x \in Changes,
                    Gate!Design!ExitCode(x) = 0, x.basePath = x.path,
                    Gate!Design!scan_violations(x.basePath, x.base, DOMAIN x.base) = {},
                    NEW i \in Gate!Design!scan_violations(x.path, Gate!Design!Kinds(x.head), DOMAIN x.head)
             PROVE  FALSE
  BY DEF Gate!Design!RatchetHolds
<1>1. i \in DOMAIN x.head /\ x.head[i].kind = "raw" /\ Gate!Design!Scanned(x.path)
  BY DEF Gate!Design!scan_violations, Gate!Design!Kinds
<1>2. x.head[i].added
  BY <1>1 DEF Gate!Design!scan_violations, Changes
<1>3. i \in Gate!Design!changed_lines(x)
  BY <1>1, <1>2 DEF Gate!Design!changed_lines
<1> QED
  BY <1>1, <1>3 DEF Gate!Design!ExitCode, Gate!Design!scan_violations, Gate!Design!Kinds

\* A tree with any number of specifications and committed source lines, and of routes.
AnyRoute == STRING \X STRING
ContractTrees ==
    [git : BOOLEAN, yaml : BOOLEAN, allow : Gate!Versions!Allows,
     specs : SUBSET [tracked : BOOLEAN, pruned : BOOLEAN, json : BOOLEAN,
                     doc : {<<"unparsable">>, <<"other">>, <<"noPaths">>} \cup {<<"paths", r>> : r \in SUBSET AnyRoute}],
     lines : SUBSET [tracked : {TRUE}, pruned : BOOLEAN, place : {"py", "brokenPy", "ts", "testDir", "testName"},
                     kind : {"code", "comment", "docstring"}, route : AnyRoute]]

LEMMA PlainRoute ==
  LET r == Gate!Versions!Accounts
  IN  ~Gate!Versions!is_exempt(r) /\ ~Gate!Versions!BARE_PREFIX_RE(r) /\ ~Gate!Versions!VERSIONED_RE(r)
BY DEF Gate!Versions!Accounts, Gate!Versions!is_exempt, Gate!Versions!EXEMPT_EXACT,
       Gate!Versions!BARE_PREFIX_RE, Gate!Versions!VERSIONED_RE

LEMMA Allowlisted ==
  ASSUME NEW x \in ContractTrees, ~Gate!Versions!AllowlistError(x), Gate!Versions!Accounts \in Gate!Versions!load_allowlist(x)
  PROVE  x.allow = <<"set", {Gate!Versions!Accounts}>>
BY DEF ContractTrees, Gate!Versions!Allows, Gate!Versions!AllowlistError, Gate!Versions!load_allowlist

LEMMA CommittedAreSeen ==
  ASSUME NEW x, NEW specs, NEW f \in specs, f.tracked, ~f.pruned
  PROVE  f \in Gate!Versions!_tracked_files(x, specs)
BY DEF Gate!Versions!_tracked_files

LEMMA SpecDecided ==
  ASSUME NEW x \in ContractTrees, NEW s \in x.specs, Gate!Versions!check_spec(x, s) = {}
  PROVE  /\ s.doc[1] \in {"other", "paths"} /\ (s.json \/ x.yaml)
         /\ s.doc[1] = "paths" => \A r \in s.doc[2] :
                Gate!Versions!is_exempt(r) \/ r \in Gate!Versions!load_allowlist(x) \/ Gate!Versions!VERSIONED_RE(r)
<1> DEFINE doc == Gate!Versions!_load_spec(x, s)
<1>1. doc = IF s.doc[1] = "unparsable" \/ (~s.json /\ ~x.yaml) THEN "error" ELSE s.doc[1]
  BY DEF Gate!Versions!_load_spec
<1>2. s.doc[1] \in {"unparsable", "other", "noPaths", "paths"}
  <2>1. s.doc \in {<<"unparsable">>, <<"other">>, <<"noPaths">>} \cup {<<"paths", r>> : r \in SUBSET AnyRoute}
    BY DEF ContractTrees
  <2> QED
    BY <2>1
<1>3. Gate!Versions!GateError # {}
  BY DEF Gate!Versions!GateError, Zenon
<1> HIDE DEF doc
<1>4. doc # "error"
  BY <1>3, Zenon DEF Gate!Versions!check_spec, doc
<1>5. doc # "noPaths"
  BY <1>3, Zenon DEF Gate!Versions!check_spec, doc
<1>6. ASSUME doc = "paths" PROVE {r \in s.doc[2] : ~Gate!Versions!is_exempt(r) /\ r \notin Gate!Versions!load_allowlist(x)
                                                   /\ ~Gate!Versions!VERSIONED_RE(r)} = {}
  BY <1>6, Zenon DEF Gate!Versions!check_spec, doc
<1> QED
  BY <1>1, <1>2, <1>4, <1>5, <1>6

\* Where gate_api_version.py is green every route of a committed specification is known
\* and versioned or excused, and no shipped client calls an unversioned path that nobody
\* excused, whatever number of specifications, lines and routes there is.
THEOREM VersionsAreKnown ==
  \A x \in ContractTrees : Gate!Versions!GreenContractsKnown(x) /\ Gate!Versions!GreenCallersVersioned(x)
<1> SUFFICES ASSUME NEW x \in ContractTrees
             PROVE  Gate!Versions!GreenContractsKnown(x) /\ Gate!Versions!GreenCallersVersioned(x)
  OBVIOUS
<1>1. Gate!Versions!GreenContractsKnown(x)
  <2> SUFFICES ASSUME Gate!Versions!ExitCode(x, FALSE) = 0, NEW s \in x.specs, s.tracked, ~s.pruned
               PROVE  \/ s.doc[1] = "other" /\ (s.json \/ x.yaml)
                      \/ /\ s.doc[1] = "paths" /\ (s.json \/ x.yaml)
                         /\ \A r \in s.doc[2] : r = Gate!Versions!Accounts => x.allow = <<"set", {Gate!Versions!Accounts}>>
    BY DEF Gate!Versions!GreenContractsKnown
  <2>1. ~Gate!Versions!AllowlistError(x) /\ Gate!Versions!check_contracts(x) = {}
    BY DEF Gate!Versions!ExitCode
  <2>2. Gate!Versions!check_spec(x, s) = {}
    BY <2>1, CommittedAreSeen DEF Gate!Versions!check_contracts
  <2> QED
    BY <2>1, <2>2, SpecDecided, PlainRoute, Allowlisted
<1>2. Gate!Versions!GreenCallersVersioned(x)
  <2> SUFFICES ASSUME Gate!Versions!ExitCode(x, TRUE) = 0, NEW l \in x.lines,
                      ~l.pruned, l.place \in {"py", "brokenPy", "ts"}, l.route = Gate!Versions!Accounts,
                      l.kind = "code" \/ (l.kind = "docstring" /\ l.place = "brokenPy")
               PROVE  x.allow = <<"set", {Gate!Versions!Accounts}>>
    BY DEF Gate!Versions!GreenCallersVersioned
  <2>1. ~Gate!Versions!AllowlistError(x) /\ Gate!Versions!check_callers(x) = {}
    BY DEF Gate!Versions!ExitCode
  <2>2. l \in Gate!Versions!_tracked_files(x, x.lines)
    BY CommittedAreSeen DEF ContractTrees
  <2>3. ~Gate!Versions!is_test_source(l) /\ ~Gate!Versions!COMMENT_LINE_RE(l) /\ ~Gate!Versions!python_docstring_lines(l)
    BY DEF Gate!Versions!is_test_source, Gate!Versions!COMMENT_LINE_RE, Gate!Versions!python_docstring_lines
  <2>4. l.route \in Gate!Versions!load_allowlist(x)
    BY <2>1, <2>2, <2>3, PlainRoute, Zenon DEF Gate!Versions!check_callers
  <2> QED
    BY <2>1, <2>4, Allowlisted
<1> QED
  BY <1>1, <1>2

\* A service with any number of files and of items in them, any guards, routes and
\* features; the only guard it declares itself is one that guards.
Items == [what : {"route"}, owner : {"app", "router"}, key : STRING, mutating : BOOLEAN, names : SUBSET STRING]
         \cup [what : {"use"}, names : SUBSET STRING]
SourceFiles == [kind : STRING, lang : {"py", "js"}, parses : BOOLEAN, has : SUBSET STRING,
                items : Seq(Items), wired : SUBSET STRING, mounts : SUBSET STRING]
Services == [files : Seq(SourceFiles), declared : BOOLEAN,
             guardFile : SUBSET [value : {"myGuard"}, reason : BOOLEAN],
             publicFile : SUBSET [value : STRING, reason : BOOLEAN],
             diff : {<<"none">>, <<"unavailable">>} \cup {<<"lines", l>> : l \in SUBSET ((Nat \X Nat) \X {"path", "handler"})},
             enforce : STRING, reason : BOOLEAN]

LEMMA FileShape ==
  ASSUME NEW x \in Services, NEW i \in DOMAIN x.files
  PROVE  /\ i \in Nat /\ x.files[i] \in SourceFiles /\ x.files[i].lang \in {"py", "js"}
         /\ x.files[i].items \in Seq(Items)
         /\ \E k \in Nat : DOMAIN x.files[i].items = 1..k
         /\ \A n \in DOMAIN x.files[i].items : x.files[i].items[n] \in Items
<1> PICK fs : fs = x.files
  OBVIOUS
<1>1. fs \in Seq(SourceFiles)
  BY DEF Services
<1> PICK f : f = fs[i]
  OBVIOUS
<1>2. i \in Nat /\ f \in SourceFiles
  <2> HIDE DEF SourceFiles
  <2>1. i \in 1..Len(fs)
    BY <1>1
  <2> QED
    BY <1>1, <2>1
<1> PICK it : it = f.items
  OBVIOUS
<1>3. f.lang \in {"py", "js"} /\ it \in Seq(Items)
  BY <1>2 DEF SourceFiles
<1>4. (\E k \in Nat : DOMAIN it = 1..k) /\ \A n \in DOMAIN it : it[n] \in Items
  <2> HIDE DEF Items
  <2>1. DOMAIN it = 1..Len(it) /\ Len(it) \in Nat
    BY <1>3
  <2> QED
    BY <1>3, <2>1
<1> QED
  BY <1>2, <1>3, <1>4

\* The first app.use of a guard is one, and no later than any.
LEMMA FirstUse ==
  ASSUME NEW k \in Nat, NEW at \in SUBSET (1..k), at # {}
  PROVE  Gate!Auth!Min(at) \in at
<1> DEFINE S == {m \in (0 - k)..0 : 0 - m \in at}
<1>1. S \in SUBSET Int /\ IsFiniteSet(S)
  <2>1. IsFiniteSet((0 - k)..0)
    BY FS_Interval
  <2> QED
    BY <2>1, FS_Subset
<1>2. S # {}
  <2>1. PICK n \in at : n \in 1..k
    OBVIOUS
  <2>2. 0 - n \in S
    BY <2>1
  <2> QED
    BY <2>2
<1> HIDE DEF S
<1>3. PICK m \in S : \A n \in S : n <= m
  BY <1>1, <1>2, Greatest
<1>4. 0 - m \in at /\ \A n \in at : 0 - m <= n
  <2>1. \A n \in at : 0 - n \in S /\ n \in Int
    BY DEF S
  <2>2. m \in Int /\ 0 - m \in at
    BY DEF S
  <2> QED
    BY <1>3, <2>1, <2>2
<1>5. \E n \in at : \A j \in at : n <= j
  BY <1>4
<1> QED
  BY <1>5, Zenon DEF Gate!Auth!Min

LEMMA GuardsAreReal == ASSUME NEW x \in Services PROVE Gate!Auth!guards(x) \subseteq Gate!Auth!RealGuards
<1>1. \A e \in x.guardFile : e.value = "myGuard"
  BY DEF Services
<1> QED
  BY <1>1 DEF Gate!Auth!guards, Gate!Auth!_parse_decls, Gate!Auth!RealGuards, Gate!Auth!BUILTIN_GUARDS

LEMMA EarlierItem == ASSUME NEW k \in Nat, NEW m \in 1..k, NEW n \in 1..k, n > m PROVE m \in 1..(n - 1)
OBVIOUS

\* A route that the scan takes for guarded meets a guard when the service runs.
LEMMA GuardedMeets ==
  ASSUME NEW x \in Services, NEW i \in DOMAIN x.files, NEW n \in DOMAIN x.files[i].items,
         Gate!Auth!GuardedBy(x, <<i, n>>)
  PROVE  Gate!Auth!MeetsGuard(x, i, n)
<1> PICK f : f = x.files[i]
  OBVIOUS
<1> PICK k \in Nat : DOMAIN f.items = 1..k
  BY FileShape
<1>0. f.lang \in {"py", "js"} /\ n \in 1..k
  BY FileShape
<1>1. \A S : S \cap Gate!Auth!guards(x) # {} => S \cap Gate!Auth!RealGuards # {}
  BY GuardsAreReal
<1>2. CASE f.lang = "py"
  <2>1. Gate!Auth!_py_routes(x, i, n)
    BY <1>2 DEF Gate!Auth!GuardedBy
  <2> QED
    BY <1>1, <1>2, <2>1 DEF Gate!Auth!_py_routes, Gate!Auth!MeetsGuard
<1>3. CASE f.lang = "js"
  <2>1. Gate!Auth!_js_routes(x, i, n)
    BY <1>3 DEF Gate!Auth!GuardedBy
  <2>2. CASE f.items[n].names \cap Gate!Auth!guards(x) # {} \/ Gate!Auth!_mount_guarded_files(x, i)
    BY <1>1, <1>3, <2>2 DEF Gate!Auth!_mount_guarded_files, Gate!Auth!MeetsGuard
  <2>3. CASE Gate!Auth!file_guard_at(x, i) # 0 /\ n > Gate!Auth!file_guard_at(x, i)
    <3> DEFINE at == {m \in DOMAIN f.items : f.items[m].what = "use" /\ f.items[m].names \cap Gate!Auth!guards(x) # {}}
    <3>1. at # {} /\ Gate!Auth!file_guard_at(x, i) = Gate!Auth!Min(at)
      BY <2>3 DEF Gate!Auth!file_guard_at
    <3> PICK m : m = Gate!Auth!Min(at)
      OBVIOUS
    <3>2. m \in at
      <4>1. at \in SUBSET (1..k)
        OBVIOUS
      <4> HIDE DEF at
      <4> QED
        BY <3>1, <4>1, FirstUse
    <3>3. m \in DOMAIN f.items /\ f.items[m].what = "use" /\ f.items[m].names \cap Gate!Auth!RealGuards # {}
      BY <1>1, <3>2
    <3>4. m \in 1..k /\ n \in 1..k /\ n > m
      BY <1>0, <2>3, <3>1, <3>3
    <3>5. m \in 1..(n - 1)
      BY <3>4, EarlierItem
    <3> QED
      BY <1>3, <3>3, <3>5 DEF Gate!Auth!MeetsGuard
  <2> QED
    BY <2>1, <2>2, <2>3 DEF Gate!Auth!_js_routes
<1> QED
  BY <1>0, <1>2, <1>3

\* What the scan finds.
LEMMA IsFound ==
  ASSUME NEW x, NEW i, NEW n
  PROVE  <<i, n>> \in Gate!Auth!Found(x) <=>
             /\ i \in Gate!Auth!Scanned(x) /\ n \in Gate!Auth!Routes(x.files[i])
             /\ x.files[i].lang = "py" => x.files[i].parses
BY DEF Gate!Auth!Found

LEMMA FoundForm ==
  ASSUME NEW x, NEW r \in Gate!Auth!Found(x)
  PROVE  r = <<r[1], r[2]>>
BY DEF Gate!Auth!Found

\* A bare route that the diff touches, that no entry makes public, is a finding.
LEMMA BareIsFound ==
  ASSUME NEW x \in Services, NEW r \in Gate!Auth!Found(x), ~Gate!Auth!GuardedBy(x, r),
         ~\E e \in x.publicFile : e.reason /\ e.value = Gate!Auth!Key(x, r),
         Gate!Auth!span(r) \cap Gate!Auth!changed_lines(x) # {}
  PROVE  Gate!Auth!findings(x) # {}
<1>1. Gate!Auth!Key(x, r) \notin Gate!Auth!_parse_decls(x.publicFile).values
  BY DEF Gate!Auth!_parse_decls
<1>2. "E1" \in Gate!Auth!check_routes(x)
  BY <1>1 DEF Gate!Auth!check_routes
<1> QED
  BY <1>2 DEF Gate!Auth!findings

\* What a service that passes in full shows: no finding of any family.
LEMMA GreenFinds ==
  ASSUME NEW x, Gate!Auth!ExitCode(x) = 0, Gate!Auth!enforcing(x)
  PROVE  Gate!Auth!findings(x) = {}
BY DEF Gate!Auth!ExitCode

LEMMA RoutesGuarded ==
  ASSUME NEW x \in Services, Gate!Auth!findings(x) = {}, x.diff[1] # "lines",
         NEW i \in DOMAIN x.files, NEW n \in Gate!Auth!Routes(x.files[i]), x.files[i].kind = "product"
  PROVE  Gate!Auth!MeetsGuard(x, i, n) \/ Gate!Auth!Declared(x, i, n)
<1>1. Gate!Auth!check_routes(x) = {}
  BY DEF Gate!Auth!findings
<1>2. i \in Gate!Auth!Scanned(x)
  BY DEF Gate!Auth!Scanned, Gate!Auth!source_files, Gate!Auth!auth_impl_dirs
<1>3. n \in DOMAIN x.files[i].items
  BY DEF Gate!Auth!Routes
<1>4. Gate!Auth!Found(x) # {}
  <2> SUFFICES ASSUME Gate!Auth!Found(x) = {} PROVE FALSE
    OBVIOUS
  <2>1. "E2" \in Gate!Auth!check_routes(x)
    BY <1>2 DEF Gate!Auth!check_routes
  <2> QED
    BY <1>1, <2>1
<1>5. x.files[i].lang = "py" => x.files[i].parses
  <2> SUFFICES ASSUME x.files[i].lang = "py", ~x.files[i].parses PROVE FALSE
    OBVIOUS
  <2>1. "E2" \in Gate!Auth!check_routes(x)
    BY <1>2, <1>4 DEF Gate!Auth!check_routes
  <2> QED
    BY <1>1, <2>1
<1>6. <<i, n>> \in Gate!Auth!Found(x)
  BY <1>2, <1>5, IsFound
<1>7. Gate!Auth!span(<<i, n>>) \cap Gate!Auth!changed_lines(x) # {}
  <2>1. Gate!Auth!changed_lines(x) = UNION {Gate!Auth!span(r) : r \in Gate!Auth!Found(x)}
    BY DEF Gate!Auth!changed_lines
  <2>2. Gate!Auth!span(<<i, n>>) \subseteq Gate!Auth!changed_lines(x)
    BY <1>6, <2>1
  <2>3. <<<<i, n>>, "path">> \in Gate!Auth!span(<<i, n>>)
    BY DEF Gate!Auth!span
  <2> QED
    BY <2>2, <2>3
<1>8. Gate!Auth!GuardedBy(x, <<i, n>>) \/ \E e \in x.publicFile : e.reason /\ e.value = Gate!Auth!Key(x, <<i, n>>)
  BY <1>6, <1>7, BareIsFound
<1> QED
  BY <1>3, <1>8, GuardedMeets DEF Gate!Auth!Key, Gate!Auth!Declared

LEMMA ServiceAdopts ==
  ASSUME NEW x, Gate!Auth!findings(x) = {},
         NEW i \in DOMAIN x.files, x.files[i].kind = "product", Gate!Auth!Routes(x.files[i]) # {}
  PROVE  /\ x.declared
         /\ \E j \in DOMAIN x.files : "imports" \in x.files[j].has
         /\ \E j \in DOMAIN x.files : "limiter" \in x.files[j].has
         /\ (\E n \in Gate!Auth!Routes(x.files[i]) : x.files[i].items[n].mutating) =>
                \E j \in DOMAIN x.files : "permission" \in x.files[j].has
<1>1. /\ Gate!Auth!check_declared(x) = {} /\ Gate!Auth!check_authz(x) = {}
      /\ Gate!Auth!check_rate_limit(x) = {} /\ Gate!Auth!check_adoption(x) = {}
  BY DEF Gate!Auth!findings
<1>2. i \in Gate!Auth!source_files(x) /\ Gate!Auth!Routed(x)
  BY DEF Gate!Auth!source_files, Gate!Auth!Routed
<1>3. \A s : Gate!Auth!Has(x, Gate!Auth!source_files(x), s) \/ Gate!Auth!Has(x, Gate!Auth!Scanned(x), s)
             => \E j \in DOMAIN x.files : s \in x.files[j].has
  BY DEF Gate!Auth!Has, Gate!Auth!source_files, Gate!Auth!Scanned
<1>4. Gate!Auth!declares_auth(x) /\ Gate!Auth!imports_auth(x)
  BY <1>1, <1>2 DEF Gate!Auth!check_declared, Gate!Auth!check_adoption
<1>5. Gate!Auth!Has(x, Gate!Auth!source_files(x), "limiter")
  BY <1>1, <1>2 DEF Gate!Auth!check_rate_limit
<1>6. ASSUME NEW n \in Gate!Auth!Routes(x.files[i]), x.files[i].items[n].mutating
      PROVE  Gate!Auth!Has(x, Gate!Auth!Scanned(x), "permission")
  BY <1>1, <1>2, <1>6 DEF Gate!Auth!check_authz
<1> QED
  BY <1>3, <1>4, <1>5, <1>6 DEF Gate!Auth!declares_auth, Gate!Auth!imports_auth

\* A service that passes without an excuse and that then loses a guard on a route.
LEMMA LostGuard ==
  ASSUME NEW x \in Services, Gate!Auth!enforcing(x), NEW r \in Gate!Auth!Found(x),
         NEW h, h = [x EXCEPT !.files[r[1]].items[r[2]].names = {}, !.diff = <<"lines", {<<r, "handler">>}>>],
         ~Gate!Auth!MeetsGuard(h, r[1], r[2]), ~Gate!Auth!Declared(x, r[1], r[2])
  PROVE  Gate!Auth!ExitCode(h) = 1
<1> PICK i, n : i = r[1] /\ n = r[2]
  OBVIOUS
<1>1. i \in Gate!Auth!Scanned(x) /\ i \in DOMAIN x.files /\ n \in Gate!Auth!Routes(x.files[i])
      /\ (x.files[i].lang = "py" => x.files[i].parses) /\ r = <<i, n>>
  BY FoundForm, IsFound DEF Gate!Auth!Scanned, Gate!Auth!source_files
<1>2. n \in DOMAIN x.files[i].items /\ x.files[i].items[n].what = "route"
  BY <1>1 DEF Gate!Auth!Routes
<1>3. /\ x.files[i].items[n] \in [what : {"route"}, owner : {"app", "router"}, key : STRING, mutating : BOOLEAN, names : SUBSET STRING]
  BY <1>1, <1>2, FileShape DEF Items
<1> DEFINE item == [x.files[i].items[n] EXCEPT !.names = {}]
           file == [x.files[i] EXCEPT !.items = [@ EXCEPT ![n] = item]]
<1>4. /\ item.what = "route" /\ item.key = x.files[i].items[n].key /\ item \in Items
  BY <1>3 DEF Items
<1>5. file \in SourceFiles /\ file.kind = x.files[i].kind /\ file.lang = x.files[i].lang /\ file.parses = x.files[i].parses
      /\ DOMAIN file.items = DOMAIN x.files[i].items /\ file.items[n] = item
  <2> HIDE DEF item
  <2> PICK f, its, new : f = x.files[i] /\ its = f.items /\ new = [its EXCEPT ![n] = item]
    OBVIOUS
  <2>1. f \in SourceFiles /\ its \in Seq(Items) /\ n \in DOMAIN its
    BY <1>1, <1>2, FileShape
  <2>2. new \in Seq(Items) /\ DOMAIN new = DOMAIN its /\ new[n] = item
    <3> HIDE DEF Items
    <3> QED
      BY <1>4, <2>1
  <2>3. file = [f EXCEPT !.items = new]
    OBVIOUS
  <2> HIDE DEF file
  <2>4. /\ file \in SourceFiles /\ file.items = new /\ file.kind = f.kind
        /\ file.lang = f.lang /\ file.parses = f.parses
    <3> HIDE DEF Items
    <3> QED
      BY <2>1, <2>2, <2>3 DEF SourceFiles
  <2> QED
    BY <2>2, <2>4
<1>6. /\ h.files = [x.files EXCEPT ![i] = file] /\ h.diff = <<"lines", {<<r, "handler">>}>>
      /\ h.publicFile = x.publicFile /\ h.guardFile = x.guardFile /\ h.enforce = x.enforce /\ h.reason = x.reason
      /\ h.declared = x.declared
  BY <1>1, <1>2 DEF Services
<1> HIDE DEF item, file
<1>7. h \in Services
  <2>1. [x.files EXCEPT ![i] = file] \in Seq(SourceFiles)
    <3> PICK fs : fs = x.files
      OBVIOUS
    <3>1. fs \in Seq(SourceFiles) /\ i \in DOMAIN fs /\ file \in SourceFiles
      BY <1>1, <1>5 DEF Services
    <3> HIDE DEF SourceFiles
    <3> QED
      BY <3>1
  <2>2. r = <<i, n>> /\ r \in Nat \X Nat
    <3>1. i \in Nat
      BY <1>1, FileShape
    <3>2. PICK k \in Nat : DOMAIN x.files[i].items = 1..k
      BY <1>1, FileShape
    <3>3. n \in Nat
      BY <1>2, <3>2
    <3> QED
      BY <1>1, <3>1, <3>3
  <2>3. {<<r, "handler">>} \in SUBSET ((Nat \X Nat) \X {"path", "handler"})
    BY <2>2
  <2>4. h = [x EXCEPT !.files = h.files, !.diff = h.diff]
    BY <1>6 DEF Services
  <2> QED
    BY <1>6, <2>1, <2>3, <2>4 DEF Services
<1>8. h.files[i] = file /\ i \in DOMAIN h.files
  <2> PICK fs, g : fs = x.files /\ g = file
    OBVIOUS
  <2>1. i \in DOMAIN fs /\ h.files = [fs EXCEPT ![i] = g]
    BY <1>1, <1>6
  <2>2. [fs EXCEPT ![i] = g][i] = g /\ i \in DOMAIN [fs EXCEPT ![i] = g]
    BY <2>1
  <2> QED
    BY <2>1, <2>2
<1>9. i \in Gate!Auth!Scanned(h)
  BY <1>1, <1>5, <1>8 DEF Gate!Auth!Scanned, Gate!Auth!source_files, Gate!Auth!auth_impl_dirs
<1>10. n \in Gate!Auth!Routes(file) /\ n \in DOMAIN file.items
  BY <1>2, <1>4, <1>5 DEF Gate!Auth!Routes
<1>11. r \in Gate!Auth!Found(h)
  <2>1. file.lang = "py" => file.parses
    BY <1>1, <1>5
  <2>2. <<i, n>> \in Gate!Auth!Found(h)
    BY <1>8, <1>9, <1>10, <2>1, IsFound
  <2> QED
    BY <1>1, <2>2
<1>12. Gate!Auth!Key(h, r) = Gate!Auth!Key(x, r)
  BY <1>4, <1>5, <1>8 DEF Gate!Auth!Key
<1>13. ~Gate!Auth!GuardedBy(h, r)
  BY <1>1, <1>7, <1>8, <1>10, GuardedMeets
<1>14. ~\E e \in h.publicFile : e.reason /\ e.value = Gate!Auth!Key(h, r)
  BY <1>6, <1>12 DEF Gate!Auth!Declared, Gate!Auth!Key
<1>15. Gate!Auth!span(r) \cap Gate!Auth!changed_lines(h) # {}
  <2>1. h.diff[1] = "lines" /\ h.diff[2] = {<<r, "handler">>}
    <3> PICK diff, lines : diff = h.diff /\ lines = {<<r, "handler">>}
      OBVIOUS
    <3>1. diff = <<"lines", lines>>
      BY <1>6
    <3>2. diff[1] = "lines" /\ diff[2] = lines
      BY <3>1
    <3> QED
      BY <3>2
  <2>2. Gate!Auth!changed_lines(h) = {<<r, "handler">>}
    BY <2>1 DEF Gate!Auth!changed_lines
  <2> QED
    BY <2>2 DEF Gate!Auth!span
<1>16. Gate!Auth!findings(h) # {}
  BY <1>7, <1>11, <1>13, <1>14, <1>15, BareIsFound
<1> QED
  BY <1>6, <1>16 DEF Gate!Auth!ExitCode, Gate!Auth!enforcing

\* Where gate_platform_auth.py passes in full every route of a product file meets a guard
\* or is public for a reason, and the service has adopted auth; and a route that loses
\* its guard fails the ratchet: for any number of files, routes, guards and features.
THEOREM RoutesAreGuarded ==
  \A x \in Services :
      Gate!Auth!GreenRoutesGuarded(x) /\ Gate!Auth!GreenIsAdopted(x) /\ Gate!Auth!LostGuardFails(x)
<1> SUFFICES ASSUME NEW x \in Services
             PROVE  Gate!Auth!GreenRoutesGuarded(x) /\ Gate!Auth!GreenIsAdopted(x) /\ Gate!Auth!LostGuardFails(x)
  OBVIOUS
<1>1. Gate!Auth!GreenRoutesGuarded(x)
  BY GreenFinds, RoutesGuarded DEF Gate!Auth!GreenRoutesGuarded
<1>2. Gate!Auth!GreenIsAdopted(x)
  BY GreenFinds, ServiceAdopts DEF Gate!Auth!GreenIsAdopted
<1>3. Gate!Auth!LostGuardFails(x)
  BY LostGuard DEF Gate!Auth!LostGuardFails
<1> QED
  BY <1>1, <1>2, <1>3

\* Operations with any schema, source lines, and the registries of products that have a
\* name.
Leaf == [props : SUBSET STRING, closed : BOOLEAN]
Operations == [parses : BOOLEAN, method : STRING, onItem : BOOLEAN, creates : BOOLEAN, exempt : BOOLEAN,
               schema : [props : SUBSET STRING, closed : BOOLEAN, by : {"allOf", "anyOf"}, parts : SUBSET Leaf]]
SourceLines == [site : STRING, kind : {"mint", "comment", "code"}, target : {"entity", "trace"}, cast : BOOLEAN]
Products == [name : STRING \ {""}, namespace : STRING, pairs : SUBSET (STRING \X (STRING \X STRING)),
             declares : BOOLEAN, imports : BOOLEAN, enforce : BOOLEAN]

\* No create that passes takes an id of the client's choosing, and a reference is reported
\* exactly when no part brings its type: for any properties and any number of parts.
THEOREM BodiesAreClosed ==
  \A spec \in Operations :
      Gate!Ids!StrayIdRejected(<<"contract", spec>>) /\ Gate!Ids!ReferencesTyped(<<"contract", spec>>)
<1> SUFFICES ASSUME NEW spec \in Operations
             PROVE  Gate!Ids!StrayIdRejected(<<"contract", spec>>) /\ Gate!Ids!ReferencesTyped(<<"contract", spec>>)
  OBVIOUS
<1> DEFINE self == [props |-> spec.schema.props, closed |-> spec.schema.closed]
<1> PICK parts : parts = spec.schema.parts
  OBVIOUS
<1>0. Gate!Ids!composed_parts(spec.schema) = {self} \cup parts
  BY DEF Gate!Ids!composed_parts
<1>1. Gate!Ids!StrayIdRejected(<<"contract", spec>>)
  <2> SUFFICES ASSUME Gate!Ids!check_contracts(spec) = {}, spec.schema.by = "allOf", spec.parses,
                      spec.method \in {"post", "put"}, ~spec.onItem, spec.creates, ~spec.exempt,
                      Gate!Ids!AcceptsId(spec.schema)
               PROVE  FALSE
    BY DEF Gate!Ids!StrayIdRejected
  <2>1. Gate!Ids!check_body(spec.schema) = {}
    BY DEF Gate!Ids!check_contracts, Gate!Ids!is_create_operation, Gate!Ids!is_exempt
  <2>2. \A p \in {self} \cup parts : "id" \notin p.props
    BY <1>0, <2>1 DEF Gate!Ids!check_body, Gate!Ids!SELF_ID_RE
  <2>3. \E p \in {self} \cup parts : p.closed
    BY <1>0, <2>1 DEF Gate!Ids!check_body
  <2>4. ~spec.schema.closed
    <3>1. "id" \notin self.props /\ self.props = spec.schema.props
      BY <2>2
    <3>2. "id" \in spec.schema.props \/ ~spec.schema.closed
      BY DEF Gate!Ids!AcceptsId, Gate!Ids!LeafAccepts
    <3> QED
      BY <3>1, <3>2
  <2>5. \A p \in parts : ~p.closed
    BY <2>2 DEF Gate!Ids!AcceptsId, Gate!Ids!LeafAccepts
  <2> QED
    BY <2>3, <2>4, <2>5
<1>2. Gate!Ids!ReferencesTyped(<<"contract", spec>>)
  <2> DEFINE all == {[props |-> spec.schema.props, closed |-> FALSE]} \cup parts
             bad == (\E p \in all : "ownerId" \in p.props) /\ \A p \in all : "ownerType" \notin p.props
  <2>1. UNION {p.props : p \in {self} \cup parts} = UNION {p.props : p \in all}
    <3>1. spec.schema.props = self.props /\ spec.schema.props = [props |-> spec.schema.props, closed |-> FALSE].props
      OBVIOUS
    <3> QED
      BY <3>1
  <2>2. "C3" \in Gate!Ids!check_references(spec.schema) <=> bad
    <3> DEFINE props == UNION {p.props : p \in all}
    <3>1. "C3" \in Gate!Ids!check_references(spec.schema) <=> "ownerId" \in props /\ "ownerType" \notin props
      BY <1>0, <2>1 DEF Gate!Ids!check_references
    <3>2. \A s : s \in props <=> \E p \in all : s \in p.props
      OBVIOUS
    <3> HIDE DEF props, all
    <3> QED
      BY <3>1, <3>2
  <2>3. "C3" \notin Gate!Ids!check_body(spec.schema)
    BY DEF Gate!Ids!check_body
  <2>4. spec.parses => ("C3" \in Gate!Ids!check_contracts(spec) <=> "C3" \in Gate!Ids!check_references(spec.schema))
    BY <2>3 DEF Gate!Ids!check_contracts
  <2>5. spec.parses => ("C3" \in Gate!Ids!check_contracts(spec) <=> bad)
    BY <2>2, <2>4
  <2> QED
    BY <2>5 DEF Gate!Ids!ReferencesTyped
<1> QED
  BY <1>1, <1>2

\* A repository that creates entities and passes with enforceUsage imports the package,
\* and where the source check finds nothing every entity minted by hand is on a line that
\* is exempted, and every exemption is of a line that mints: for any lines and exemptions.
THEOREM MintersAdopt ==
  ASSUME NEW repo \in Products, NEW lines \in SUBSET SourceLines, NEW exempt \in SUBSET STRING,
         NEW spec \in Operations, spec.method \in {"post", "put"}, ~spec.onItem
  PROVE  /\ Gate!Ids!ExemptionsAreMints(<<"source", <<lines, exempt>>>>)
         /\ Gate!Ids!CreatorsAdopt(<<"repo", <<repo, lines, exempt, spec>>>>)
<1>1. Gate!Ids!ExemptionsAreMints(<<"source", <<lines, exempt>>>>)
  <2> SUFFICES ASSUME Gate!Ids!check_source(lines, exempt) = {}
               PROVE  /\ \A l \in lines : Gate!Ids!MintsEntity(l) => l.site \in exempt
                      /\ \A s \in exempt : \E l \in lines : l.site = s /\ l.kind = "mint"
    BY DEF Gate!Ids!ExemptionsAreMints
  <2>1. \A l \in lines : Gate!Ids!MintsEntity(l) => l.site \in exempt
    <3> SUFFICES ASSUME NEW l \in lines, Gate!Ids!MintsEntity(l), l.site \notin exempt PROVE FALSE
      OBVIOUS
    <3>1. <<"S1", l.site>> \in Gate!Ids!check_source(lines, exempt)
      BY DEF Gate!Ids!check_source
    <3> QED
      BY <3>1
  <2>2. \A s \in exempt : s \in Gate!Ids!used_exemptions(lines, exempt)
    <3> SUFFICES ASSUME NEW s \in exempt, s \notin Gate!Ids!used_exemptions(lines, exempt) PROVE FALSE
      OBVIOUS
    <3>1. <<"stale", s>> \in Gate!Ids!check_source(lines, exempt)
      BY DEF Gate!Ids!check_source
    <3> QED
      BY <3>1
  <2> QED
    BY <2>1, <2>2 DEF Gate!Ids!used_exemptions
<1>2. Gate!Ids!CreatorsAdopt(<<"repo", <<repo, lines, exempt, spec>>>>)
  <2> SUFFICES ASSUME Gate!Ids!ExitCode(repo, lines, exempt, spec) = 0, repo.enforce, spec.parses, spec.creates
               PROVE  repo.declares /\ repo.imports
    BY DEF Gate!Ids!CreatorsAdopt
  <2>1. Gate!Ids!check_adoption(repo, lines, exempt, spec) = {}
    BY DEF Gate!Ids!ExitCode
  <2>2. Gate!Ids!is_create_operation(spec)
    BY DEF Gate!Ids!is_create_operation
  <2> QED
    BY <2>1, <2>2 DEF Gate!Ids!check_adoption
<1> QED
  BY <1>1, <1>2

\* Two products that pass and declare namespaces of their own mint no prefix in common,
\* for any registries.
THEOREM PrefixesApart == \A a, b \in Products : Gate!Ids!PrefixesDisjoint(<<"family", <<a, b>>>>)
<1> SUFFICES ASSUME NEW a \in Products, NEW b \in Products, a.name # b.name, a.namespace # b.namespace,
                    Gate!Ids!check_namespace(a) = {}, Gate!Ids!check_namespace(b) = {},
                    NEW p \in a.pairs, NEW q \in b.pairs, p[2] = q[2]
             PROVE  FALSE
  BY DEF Gate!Ids!PrefixesDisjoint
<1>1. ASSUME NEW r \in Products, NEW e \in r.pairs, Gate!Ids!check_namespace(r) = {}
      PROVE  ~Gate!Ids!PrefixError(r, e[2])
  <2>1. r.pairs # {}
    BY <1>1
  <2>2. r.namespace # ""
    BY <1>1, <2>1, Zenon DEF Gate!Ids!check_namespace
  <2>3. {v \in {"N1"} : \E s \in r.pairs : Gate!Ids!PrefixError(r, s[2])} = {}
    BY <1>1, <2>1, <2>2, Zenon DEF Gate!Ids!check_namespace
  <2> QED
    BY <1>1, <2>3, Zenon
<1>2. \A r \in Products : r.name # ""
  BY Zenon DEF Products
<1> DEFINE Reserved(w) == w[1] = "" /\ w[2] \in DOMAIN Gate!Ids!SPINE_PREFIXES
<1>3. ASSUME NEW r \in Products, NEW w, ~Gate!Ids!PrefixError(r, w)
      PROVE  IF Reserved(w) THEN r.name = Gate!Ids!SPINE_PREFIXES[w[2]] ELSE w[1] = r.namespace
  <2>1. Gate!Ids!PrefixError(r, w) = IF Reserved(w) THEN r.name # "" /\ Gate!Ids!SPINE_PREFIXES[w[2]] # r.name
                                     ELSE w[1] # r.namespace
    BY Zenon DEF Gate!Ids!PrefixError
  <2>2. r.name # ""
    BY <1>2
  <2> HIDE DEF Reserved
  <2>3. CASE Reserved(w)
    BY <1>3, <2>1, <2>2, <2>3, Zenon
  <2>4. CASE ~Reserved(w)
    BY <1>3, <2>1, <2>4, Zenon
  <2> QED
    BY <2>3, <2>4
<1> HIDE DEF Reserved
<1>4. ~Gate!Ids!PrefixError(a, p[2]) /\ ~Gate!Ids!PrefixError(b, p[2])
  BY <1>1
<1> QED
  BY <1>3, <1>4, Zenon

\* A repository with an agent surface: any roles, values files, references and secrets.
References == STRING \X STRING
ValuesFiles == [parses : BOOLEAN, full : BOOLEAN, prod : BOOLEAN, image : STRING, tag : STRING, tenants : Nat,
                auth : STRING, url : BOOLEAN, refs : SUBSET References, inline : BOOLEAN, rest : BOOLEAN]
Surfaces == [manifest : [parses : BOOLEAN, enabled : BOOLEAN, served : BOOLEAN, id : STRING,
                         roles : SUBSET [exists : BOOLEAN, skills : SUBSET STRING]],
             policy : [state : {"absent", "unreadable", "warn", "fail"}, known : SUBSET STRING,
                       external : SUBSET STRING, unexplained : SUBSET STRING],
             docs : SUBSET ValuesFiles, tenants : {"absent", "listed", "disabled", "unreadable"},
             registry : {"up", "down"}, published : SUBSET STRING, online : BOOLEAN,
             sealed : UNION {[S -> SUBSET STRING] : S \in SUBSET STRING}, skills : SUBSET STRING,
             context : BOOLEAN, fork : BOOLEAN, chromaServer : BOOLEAN]

Fatal(code) == Gate!A2a!Fatal(code)

LEMMA WhenFound ==
  ASSUME NEW code, NEW holds \in BOOLEAN
  PROVE  Fatal(code) \in Gate!A2a!When(code, holds) <=> holds
BY DEF Fatal, Gate!A2a!When

\* A surface that passes has no fatal finding of any family.
LEMMA GreenSurface ==
  ASSUME NEW x \in Surfaces, Gate!A2a!ExitCode(x) = 0, x.manifest.parses, x.manifest.enabled
  PROVE  \A f \in Gate!A2a!findings(x) : ~f[2]
BY DEF Gate!A2a!ExitCode, Gate!A2a!load_manifest

LEMMA NothingFatal ==
  ASSUME NEW x \in Surfaces, \A f \in Gate!A2a!findings(x) : ~f[2], NEW code
  PROVE  /\ Fatal(code) \notin Gate!A2a!check_image(x)
         /\ Fatal(code) \notin Gate!A2a!check_skills(x, Gate!A2a!adoption_hard(x))
         /\ Fatal(code) \notin Gate!A2a!check_creds(x)
<1>1. Fatal(code)[2] = TRUE
  BY DEF Fatal, Gate!A2a!Fatal
<1> QED
  BY <1>1 DEF Gate!A2a!findings

\* The image of a values file that is not found fault with can be pulled.
LEMMA ImagePulls ==
  ASSUME NEW x \in Surfaces, NEW d \in x.docs, x.online, x.registry = "up",
         \A code : Fatal(code) \notin Gate!A2a!image_findings(x, d)
  PROVE  d.image = Gate!A2a!SHARED_IMAGE /\ d.tag \in x.published
<1>1. Fatal("I1") \notin Gate!A2a!When("I1", d.image # "" /\ d.image # Gate!A2a!SHARED_IMAGE)
  BY Zenon DEF Gate!A2a!image_findings
<1>2. ~(d.image # "" /\ d.image # Gate!A2a!SHARED_IMAGE)
  BY <1>1, WhenFound, Zenon
<1>3. ~(d.image = "" \/ d.tag = "")
  <2> SUFFICES ASSUME d.image = "" \/ d.tag = "" PROVE FALSE
    BY Zenon
  <2>1. Fatal("I1") \in Gate!A2a!image_findings(x, d)
    BY Zenon DEF Gate!A2a!image_findings, Fatal
  <2> QED
    BY <2>1, Zenon
<1>4. d.tag \in x.published
  <2> SUFFICES ASSUME d.tag \notin x.published PROVE FALSE
    BY Zenon
  <2>1. Gate!A2a!registry_manifest_status(x, d) = "gone"
    BY DEF Gate!A2a!registry_manifest_status
  <2> DEFINE answer == CASE Gate!A2a!registry_manifest_status(x, d) = "unreachable" -> {<<"I2", FALSE>>}
                         [] Gate!A2a!registry_manifest_status(x, d) = "gone"        -> {Gate!A2a!Fatal("I2")}
                         [] OTHER                                                   -> {}
  <2>2. answer = {Gate!A2a!Fatal("I2")}
    BY <2>1, Zenon
  <2>3. answer \subseteq Gate!A2a!image_findings(x, d)
    BY <1>3, Zenon DEF Gate!A2a!image_findings
  <2> HIDE DEF answer
  <2>4. Fatal("I2") \in Gate!A2a!image_findings(x, d)
    BY <2>2, <2>3 DEF Fatal
  <2> QED
    BY <2>4, Zenon
<1> QED
  BY <1>2, <1>3, <1>4, Zenon

LEMMA Served ==
  ASSUME NEW x \in Surfaces, \A code : Fatal(code) \notin Gate!A2a!check_image(x), x.online, x.registry = "up"
  PROVE  \/ \E d \in x.docs : d.parses /\ d.full /\ d.image = Gate!A2a!SHARED_IMAGE /\ d.tag \in x.published
         \/ x.manifest.served /\ x.tenants = "listed"
<1>1. CASE Gate!A2a!find_values_docs(x) = {}
  <2>1. Fatal("I0") \notin Gate!A2a!When("I0", Gate!A2a!find_values_docs(x) = {} /\ Gate!A2a!_tenant_entry_verified(x) # "yes")
    BY DEF Gate!A2a!check_image
  <2>2. Gate!A2a!_tenant_entry_verified(x) = "yes"
    BY <1>1, <2>1, WhenFound
  <2>3. x.manifest.served
    <3> SUFFICES ASSUME ~x.manifest.served PROVE FALSE
      OBVIOUS
    <3>1. Gate!A2a!_tenant_entry_verified(x) = "no"
      BY Zenon DEF Gate!A2a!_tenant_entry_verified
    <3> QED
      BY <2>2, <3>1
  <2>4. x.tenants = "listed"
    <3> SUFFICES ASSUME x.tenants # "listed" PROVE FALSE
      OBVIOUS
    <3>1. CASE x.tenants = "unreadable"
      <4>1. Gate!A2a!_tenant_entry_verified(x) = "unknown"
        BY <2>3, <3>1, Zenon DEF Gate!A2a!_tenant_entry_verified
      <4> QED
        BY <2>2, <4>1
    <3>2. CASE x.tenants # "unreadable"
      <4>1. Gate!A2a!_tenant_entry_verified(x) = "no"
        BY <2>3, <3>2, Zenon DEF Gate!A2a!_tenant_entry_verified
      <4> QED
        BY <2>2, <4>1
    <3> QED
      BY <3>1, <3>2
  <2> QED
    BY <2>3, <2>4
<1>2. CASE Gate!A2a!find_values_docs(x) # {}
  <2>1. PICK d \in Gate!A2a!find_values_docs(x) : TRUE
    BY <1>2
  <2>2. d \in x.docs /\ d.parses /\ d.full
    BY DEF Gate!A2a!find_values_docs
  <2>3. \A code : Fatal(code) \notin Gate!A2a!image_findings(x, d)
    BY DEF Gate!A2a!check_image
  <2> QED
    BY <2>2, <2>3, ImagePulls
<1> QED
  BY <1>1, <1>2

LEMMA SecretsThere ==
  ASSUME NEW x \in Surfaces, \A code : Fatal(code) \notin Gate!A2a!check_creds(x),
         NEW d \in x.docs, d.parses, d.full, NEW ref \in d.refs
  PROVE  \/ ref[1] \in DOMAIN x.sealed /\ ref[2] \in x.sealed[ref[1]]
         \/ x.policy.state \in {"warn", "fail"} /\ ref[1] \in x.policy.external \ x.policy.unexplained
<1>1. d \in Gate!A2a!find_values_docs(x)
  BY DEF Gate!A2a!find_values_docs
<1>2. Gate!A2a!ref_findings(x, ref) \subseteq Gate!A2a!check_creds(x)
  <2>1. UNION {Gate!A2a!ref_findings(x, r) : r \in d.refs} \subseteq Gate!A2a!check_creds(x)
    BY <1>1 DEF Gate!A2a!check_creds
  <2>2. Gate!A2a!ref_findings(x, ref) \subseteq UNION {Gate!A2a!ref_findings(x, r) : r \in d.refs}
    OBVIOUS
  <2> QED
    BY <2>1, <2>2
<1>3. Fatal("C1") \notin Gate!A2a!ref_findings(x, ref)
  BY <1>2
<1> PICK p : p = Gate!A2a!load_policy(x)
  OBVIOUS
<1>4. p.external # {} => p = x.policy /\ x.policy.state \in {"warn", "fail"}
  BY DEF Gate!A2a!load_policy, Surfaces
<1>5. CASE ref[1] \in p.external
  <2>1. Gate!A2a!ref_findings(x, ref) = Gate!A2a!When("C1", ref[1] \in p.unexplained)
    BY <1>5 DEF Gate!A2a!ref_findings
  <2>2. ref[1] \notin p.unexplained
    BY <1>3, <2>1, WhenFound
  <2> QED
    BY <1>4, <1>5, <2>2
<1>6. CASE ref[1] \notin p.external
  <2>1. Gate!A2a!ref_findings(x, ref) = Gate!A2a!When("C1", ref[1] \notin DOMAIN x.sealed \/ ref[2] \notin x.sealed[ref[1]])
    BY <1>6 DEF Gate!A2a!ref_findings
  <2>2. ~(ref[1] \notin DOMAIN x.sealed \/ ref[2] \notin x.sealed[ref[1]])
    BY <1>3, <2>1, WhenFound
  <2> QED
    BY <2>2
<1> QED
  BY <1>5, <1>6

LEMMA SoftnessNamed ==
  ASSUME NEW x \in Surfaces, \A code : Fatal(code) \notin Gate!A2a!check_skills(x, Gate!A2a!adoption_hard(x)),
         ~x.context \/ (x.manifest.roles # {} /\ \A r \in x.manifest.roles : r.skills \cap x.skills = {})
  PROVE  x.policy.state = "warn" /\ x.manifest.id \in x.policy.known
<1> PICK roles, named, hard :
        /\ roles = x.manifest.roles /\ hard = Gate!A2a!adoption_hard(x)
        /\ named = UNION {r.skills : r \in {r \in roles : r.exists}}
  OBVIOUS
<1>1. /\ Fatal("S1") \notin Gate!A2a!When("S1", \E r \in roles : ~r.exists)
      /\ Fatal("S1") \notin Gate!A2a!When("S1", \E s \in named : s \notin x.skills /\ s # "card.id")
      /\ Fatal("S2") \notin Gate!A2a!When("S2", "card.id" \in named)
      /\ Fatal("S3") \notin {f \in {<<"S3", hard>>} : roles # {} /\ named \ {"card.id"} = {}}
      /\ Fatal("S4") \notin {f \in {<<"S4", hard>>} : ~x.context}
  BY DEF Gate!A2a!check_skills
<1>2. (\A r \in roles : r.exists) /\ (\A s \in named : s \in x.skills \/ s = "card.id") /\ "card.id" \notin named
  BY <1>1, WhenFound
<1>3. ~hard
  <2> SUFFICES ASSUME hard PROVE FALSE
    OBVIOUS
  <2>1. \A c : Fatal(c) = <<c, hard>>
    BY DEF Fatal, Gate!A2a!Fatal, Gate!A2a!adoption_hard
  <2>2. x.context /\ ~(roles # {} /\ named = {})
    BY <1>1, <1>2, <2>1
  <2>3. roles # {} /\ \A r \in roles : r.skills \cap x.skills = {}
    BY <2>2
  <2>4. PICK s : s \in named
    BY <2>2, <2>3
  <2>5. s \in x.skills
    BY <1>2, <2>4
  <2> QED
    BY <2>3, <2>4, <2>5
<1>4. Gate!A2a!load_policy(x).state = "warn" /\ x.manifest.id \in Gate!A2a!load_policy(x).known
  BY <1>3 DEF Gate!A2a!adoption_hard
<1> QED
  BY <1>4 DEF Gate!A2a!load_policy

\* Where gate_a2a.py passes an enabled surface is served by an image that can be pulled
\* or as a listed tenant, every secret it refers to resolves, and skills or context are
\* missing only where a readable policy in warn mode names the repository: for any
\* number of roles, values files, references and secrets.
THEOREM SurfacesAreServed ==
  \A x \in Surfaces :
      Gate!A2a!GreenIsServed(x) /\ Gate!A2a!GreenSecretsResolve(x) /\ Gate!A2a!SoftOnlyWhereNamed(x)
<1> SUFFICES ASSUME NEW x \in Surfaces
             PROVE  Gate!A2a!GreenIsServed(x) /\ Gate!A2a!GreenSecretsResolve(x) /\ Gate!A2a!SoftOnlyWhereNamed(x)
  OBVIOUS
<1>1. ASSUME Gate!A2a!ExitCode(x) = 0, x.manifest.parses, x.manifest.enabled
      PROVE  \A code : /\ Fatal(code) \notin Gate!A2a!check_image(x)
                       /\ Fatal(code) \notin Gate!A2a!check_skills(x, Gate!A2a!adoption_hard(x))
                       /\ Fatal(code) \notin Gate!A2a!check_creds(x)
  BY <1>1, GreenSurface, NothingFatal
<1>2. Gate!A2a!GreenIsServed(x)
  BY <1>1, Served DEF Gate!A2a!GreenIsServed
<1>3. Gate!A2a!GreenSecretsResolve(x)
  BY <1>1, SecretsThere DEF Gate!A2a!GreenSecretsResolve
<1>4. Gate!A2a!SoftOnlyWhereNamed(x)
  BY <1>1, SoftnessNamed DEF Gate!A2a!SoftOnlyWhereNamed
<1> QED
  BY <1>2, <1>3, <1>4

\* The policy and the jobs that gate_required_checks.py audits.
RunnerKinds == {"hosted", "pool", "expr", "chooser"}
Jobs == [file : STRING, id : STRING, name : STRING, pr : {"all", "paths", "none"},
         runner : RunnerKinds \X STRING, vacuous : BOOLEAN]
Policies ==
    [jobs : Seq(Jobs), required : SUBSET STRING, promote : SUBSET STRING, never : SUBSET STRING,
     claim : {"missing", "true", "false", "partial"}, enforcing : BOOLEAN, allowed : SUBSET STRING]

\* Of the jobs of a name one is found, and none only where there is none.
LEMMA JobFound ==
  ASSUME NEW jobs \in Seq(Jobs), NEW name
  PROVE  \/ Gate!Checks!load_workflows(jobs, name) = {}
         \/ \E i \in DOMAIN jobs : jobs[i].name = name /\ Gate!Checks!load_workflows(jobs, name) = {jobs[i]}
<1> DEFINE at == {i \in DOMAIN jobs : jobs[i].name = name}
<1>1. at \in SUBSET Int
  OBVIOUS
<1>2. IsFiniteSet(at)
  <2>1. DOMAIN jobs = 1..Len(jobs) /\ Len(jobs) \in Nat
    OBVIOUS
  <2>2. IsFiniteSet(1..Len(jobs))
    BY <2>1, FS_Interval
  <2> QED
    BY <2>1, <2>2, FS_Subset
<1>3. CASE at = {}
  BY <1>3, Zenon DEF Gate!Checks!load_workflows
<1>4. CASE at # {}
  <2>1. \E i \in at : \A j \in at : j <= i
    BY <1>1, <1>2, <1>4, Greatest
  <2>2. \E i \in at : \A j \in at : i >= j
    BY <1>1, <2>1
  <2>3. Gate!Checks!Max(at) \in at
    BY <2>2 DEF Gate!Checks!Max
  <2>4. Gate!Checks!load_workflows(jobs, name) = {jobs[Gate!Checks!Max(at)]}
    BY <1>4, Zenon DEF Gate!Checks!load_workflows
  <2> QED
    BY <2>3, <2>4
<1> QED
  BY <1>3, <1>4

\* What no errors of a required context and of a candidate amount to.
LEMMA NoErrors ==
  ASSUME NEW x, NEW name, NEW job, Gate!Checks!load_workflows(x.jobs, name) = {job}
  PROVE  /\ Gate!Checks!RequiredErrors(x, name) = {} <=>
                /\ job.pr = "all" /\ ~Gate!Checks!runner_finding(x, job)
                /\ x.claim # "missing" /\ ~(x.claim = "true" /\ job.vacuous)
         /\ Gate!Checks!PromotionErrors(x, name) = {} <=>
                job.pr = "all" /\ ~Gate!Checks!runner_finding(x, job) /\ ~job.vacuous
BY DEF Gate!Checks!RequiredErrors, Gate!Checks!PromotionErrors, Gate!Checks!NotOnEveryPr

LEMMA NoJob ==
  ASSUME NEW x, NEW name, Gate!Checks!load_workflows(x.jobs, name) = {}
  PROVE  Gate!Checks!RequiredErrors(x, name) # {} /\ Gate!Checks!PromotionErrors(x, name) = {}
BY DEF Gate!Checks!RequiredErrors, Gate!Checks!PromotionErrors

LEMMA AuditPasses ==
  ASSUME NEW x
  PROVE  Gate!Checks!audit(x) = {} <=>
             /\ x.never \cap (x.required \cup x.promote) = {}
             /\ \A n \in x.required : Gate!Checks!RequiredErrors(x, n) = {}
             /\ \A n \in x.promote \ x.required : Gate!Checks!PromotionErrors(x, n) = {}
<1>1. Gate!Checks!NeverErrors(x) = {} <=> x.never \cap (x.required \cup x.promote) = {}
  BY DEF Gate!Checks!NeverErrors
<1>2. \A e : e \in Gate!Checks!audit(x) <=>
              \/ e \in Gate!Checks!NeverErrors(x)
              \/ \E n \in x.required : e \in Gate!Checks!RequiredErrors(x, n)
              \/ \E n \in x.promote \ x.required : e \in Gate!Checks!PromotionErrors(x, n)
  BY DEF Gate!Checks!audit
<1>3. Gate!Checks!audit(x) = {} <=>
          /\ Gate!Checks!NeverErrors(x) = {}
          /\ \A n \in x.required : Gate!Checks!RequiredErrors(x, n) = {}
          /\ \A n \in x.promote \ x.required : Gate!Checks!PromotionErrors(x, n) = {}
  BY <1>2
<1> QED
  BY <1>1, <1>3

\* Where gate_required_checks.py passes and enforces, every required check reports on
\* every pull request; and to require a candidate of a policy that passes, with the claim
\* that its checks can fail, brings no error.  The second needs that claim of the policy
\* already, unless nothing is required yet: a policy that admits a required check cannot
\* fail has made no promise of it.
THEOREM RequiredChecksReport ==
  \A x \in Policies :
      /\ Gate!Checks!PassedChecksReport(x)
      /\ x.claim = "true" \/ x.required = {} => Gate!Checks!PromotionIsListing(x)
<1> SUFFICES ASSUME NEW x \in Policies
             PROVE  /\ Gate!Checks!PassedChecksReport(x)
                    /\ x.claim = "true" \/ x.required = {} => Gate!Checks!PromotionIsListing(x)
  OBVIOUS
<1> PICK jobs : jobs = x.jobs
  OBVIOUS
<1>1. jobs \in Seq(Jobs) /\ x.required \in SUBSET STRING /\ x.promote \in SUBSET STRING
  BY DEF Policies
<1>2. \A i \in DOMAIN jobs : jobs[i] \in Jobs
  BY <1>1
<1>3. Gate!Checks!PassedChecksReport(x)
  <2> SUFFICES ASSUME Gate!Checks!ExitCode(x) = 0, x.enforcing, NEW n \in x.required, NEW touched \in BOOLEAN
               PROVE  Gate!Checks!Reports(x, n, touched)
    BY DEF Gate!Checks!PassedChecksReport
  <2>1. Gate!Checks!audit(x) = {}
    BY DEF Gate!Checks!ExitCode
  <2>2. Gate!Checks!RequiredErrors(x, n) = {}
    BY <2>1, AuditPasses
  <2>3. Gate!Checks!load_workflows(jobs, n) # {}
    BY <2>2, NoJob
  <2> PICK i \in DOMAIN jobs : jobs[i].name = n /\ Gate!Checks!load_workflows(jobs, n) = {jobs[i]}
    BY <1>1, <2>3, JobFound
  <2> PICK j \in Jobs : j = jobs[i]
    BY <1>2
  <2>4. j.pr = "all" /\ ~Gate!Checks!runner_finding(x, j)
    BY <2>2, NoErrors
  <2> PICK kind \in RunnerKinds, pick \in STRING : j.runner[1] = kind /\ j.runner[2] = pick
    BY DEF Jobs
  <2>5. kind # "pool"
    BY <2>4 DEF Gate!Checks!runner_finding
  <2>6. CASE kind \in {"hosted", "expr"}
    BY <2>4, <2>6 DEF Gate!Checks!Reports
  <2>7. CASE kind = "chooser"
    <3> PICK picked : picked = Gate!Checks!load_workflows(jobs, pick)
      OBVIOUS
    <3>1. picked # {} /\ \A c \in picked : ~(c.runner[1] = "pool" /\ c.runner[2] \notin x.allowed)
      BY <2>4, <2>7 DEF Gate!Checks!runner_finding
    <3> PICK k \in DOMAIN jobs : jobs[k].name = pick /\ picked = {jobs[k]}
      BY <1>1, <3>1, JobFound
    <3>2. jobs[k].runner[1] = "pool" => jobs[k].runner[2] \in x.allowed
      BY <3>1
    <3> QED
      BY <2>4, <2>7, <3>2 DEF Gate!Checks!Reports
  <2> QED
    BY <2>5, <2>6, <2>7 DEF RunnerKinds
<1>4. ASSUME x.claim = "true" \/ x.required = {} PROVE Gate!Checks!PromotionIsListing(x)
  <2> SUFFICES ASSUME NEW n \in x.promote, Gate!Checks!load_workflows(jobs, n) # {}, Gate!Checks!audit(x) = {}
               PROVE  Gate!Checks!audit([x EXCEPT !.required = @ \cup {n}, !.claim = "true"]) = {}
    BY DEF Gate!Checks!PromotionIsListing
  <2> PICK y : y = [x EXCEPT !.required = @ \cup {n}, !.claim = "true"]
    OBVIOUS
  <2>1. /\ y.jobs = jobs /\ y.required = x.required \cup {n} /\ y.promote = x.promote
        /\ y.never = x.never /\ y.claim = "true" /\ y.allowed = x.allowed
    BY DEF Policies
  <2>2. /\ x.never \cap (x.required \cup x.promote) = {}
        /\ \A m \in x.required : Gate!Checks!RequiredErrors(x, m) = {}
        /\ \A m \in x.promote \ x.required : Gate!Checks!PromotionErrors(x, m) = {}
    BY AuditPasses
  <2>3. \A job : Gate!Checks!runner_finding(y, job) <=> Gate!Checks!runner_finding(x, job)
    BY <2>1 DEF Gate!Checks!runner_finding
  <2>4. ASSUME NEW m \in y.required PROVE Gate!Checks!RequiredErrors(y, m) = {}
    <3>1. Gate!Checks!load_workflows(jobs, m) # {}
      BY <2>1, <2>2, NoJob
    <3> PICK i \in DOMAIN jobs : Gate!Checks!load_workflows(jobs, m) = {jobs[i]}
      BY <1>1, <3>1, JobFound
    <3> PICK j : Gate!Checks!load_workflows(x.jobs, m) = {j}
      OBVIOUS
    <3>2. j.pr = "all" /\ ~Gate!Checks!runner_finding(x, j) /\ ~j.vacuous
      <4> DEFINE sound == j.pr = "all" /\ ~Gate!Checks!runner_finding(x, j)
      <4>0. /\ Gate!Checks!RequiredErrors(x, m) = {} =>
                   sound /\ ~(x.claim = "true" /\ j.vacuous)
            /\ Gate!Checks!PromotionErrors(x, m) = {} => sound /\ ~j.vacuous
        BY NoErrors
      <4> HIDE DEF sound
      <4>1. CASE m \in x.required
        <5>1. Gate!Checks!RequiredErrors(x, m) = {} /\ x.claim = "true"
          BY <1>4, <2>2, <4>1
        <5> QED
          BY <4>0, <5>1 DEF sound
      <4>2. CASE m \notin x.required
        <5>1. m \in x.promote \ x.required
          BY <2>1, <4>2
        <5>2. Gate!Checks!PromotionErrors(x, m) = {}
          BY <2>2, <5>1
        <5> QED
          BY <4>0, <5>2 DEF sound
      <4> QED
        BY <4>1, <4>2
    <3> QED
      BY <2>1, <2>3, <3>2, NoErrors
  <2>5. ASSUME NEW m \in y.promote \ y.required PROVE Gate!Checks!PromotionErrors(y, m) = {}
    <3>1. Gate!Checks!PromotionErrors(x, m) = {}
      BY <2>1, <2>2, <2>5
    <3>2. CASE Gate!Checks!load_workflows(jobs, m) = {}
      BY <2>1, <3>2, NoJob
    <3>3. CASE Gate!Checks!load_workflows(jobs, m) # {}
      <4> PICK j : Gate!Checks!load_workflows(x.jobs, m) = {j}
        BY <1>1, <3>3, JobFound
      <4>1. j.pr = "all" /\ ~Gate!Checks!runner_finding(x, j) /\ ~j.vacuous
        BY <3>1, NoErrors
      <4> QED
        BY <2>1, <2>3, <4>1, NoErrors
    <3> QED
      BY <3>2, <3>3
  <2>6. y.never \cap (y.required \cup y.promote) = {}
    BY <2>1, <2>2
  <2> QED
    BY <2>4, <2>5, <2>6, AuditPasses
<1> QED
  BY <1>3, <1>4
=============================================================================

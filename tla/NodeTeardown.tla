---------------------------- MODULE NodeTeardown ----------------------------
(***************************************************************************)
(* scripts/preflight_node_teardown.py: the check before a node is wiped,   *)
(* by operators who act on its answer later, while Longhorn rebuilds       *)
(* replicas.                                                               *)
(*                                                                         *)
(* The replicas of one volume.  A replica record without failedAt is "new" *)
(* (not running, empty), "partial" (running, being rebuilt) or "whole";    *)
(* the failed records Longhorn keeps are the times in failedAts.           *)
(***************************************************************************)
EXTENDS Integers, FiniteSets

CONSTANTS
    TeardownNodes, Operators,
    MinSurviving,       \* --min-surviving
    Cooldown,           \* --cooldown-minutes
    MaxMinutes,         \* bound: the clock
    MaxDiskFaults       \* bound: disks that fail

VARIABLES
    replicas,           \* replicas[n]: the record on node n, "none" without one
    failedAts,          \* failedAt of the failed records
    attached,           \* status.state = "attached"
    minutes, diskFaults,
    cleared,            \* cleared[o]: the node operator o was told is safe, "none"
    overtaken,          \* history: operators cleared before another's wipe
    fooled              \* history: the check was fooled in a way it cannot see

teardownVars == <<replicas, failedAts, attached, minutes, diskFaults, cleared, overtaken, fooled>>

Whole == {n \in TeardownNodes : replicas[n] = "whole"}

\* Empty copies that look like good ones: a rebuild that is running, and any record of
\* a detached volume.
Mistakable == {n \in TeardownNodes : replicas[n] = "partial" \/ (~attached /\ replicas[n] = "new")}

\* Mutant: a record without failedAt counts, running or not.
replica_is_intact_any(n) == replicas[n] # "none"

replica_is_intact(n) ==
    /\ replicas[n] # "none"                       \* a failed record is in failedAts
    /\ attached => replicas[n] \in {"partial", "whole"}

Surviving(n) == {s \in TeardownNodes \ {n} : replica_is_intact(s)}

recent == {t \in failedAts : minutes - t < Cooldown}

\* Mutant: replicas that failed a moment ago do not matter.
evaluate_settled(n) == Cardinality(Surviving(n)) >= MinSurviving

\* Mutant: the last copy is enough.
evaluate_one(n) == recent = {} /\ Cardinality(Surviving(n)) >= MinSurviving - 1

\* No blockers: no replica failed lately, and enough intact copies are off the node.
evaluate(n) == recent = {} /\ Cardinality(Surviving(n)) >= MinSurviving

Init ==
    /\ \E on \in SUBSET TeardownNodes :
          /\ Cardinality(on) = MinSurviving + 1
          /\ replicas = [n \in TeardownNodes |-> IF n \in on THEN "whole" ELSE "none"]
    /\ failedAts = {} /\ attached = TRUE /\ minutes = 0 /\ diskFaults = 0
    /\ cleared = [o \in Operators |-> "none"] /\ overtaken = {} /\ fooled = FALSE

\* main: only exit code 0 lets the workflow go on to the wipe.
Preflight(o, n) ==
    /\ cleared[o] = "none" /\ evaluate(n)
    /\ cleared' = [cleared EXCEPT ![o] = n] /\ overtaken' = overtaken \ {o}
    /\ fooled' = (fooled \/ (recent = {} /\ Surviving(n) \cap Mistakable # {}))
    /\ UNCHANGED <<replicas, failedAts, attached, minutes, diskFaults>>

Lose(n) ==
    /\ replicas' = [replicas EXCEPT ![n] = "none"]
    /\ failedAts' = IF replicas[n] = "none" THEN failedAts ELSE failedAts \cup {minutes}

\* The workflow wipes the node it was cleared for.
Wipe(o) ==
    /\ cleared[o] # "none"
    /\ Lose(cleared[o])
    /\ fooled' = (fooled \/ o \in overtaken)
    /\ overtaken' = {p \in Operators \ {o} : cleared[p] # "none"}
    /\ cleared' = [cleared EXCEPT ![o] = "none"]
    /\ UNCHANGED <<attached, minutes, diskFaults>>

DiskFails(n) ==
    /\ diskFaults < MaxDiskFaults /\ replicas[n] # "none" /\ Lose(n)
    /\ diskFaults' = diskFaults + 1
    /\ UNCHANGED <<attached, minutes, cleared, overtaken, fooled>>

------------------------------------------------------------------------------
(* Longhorn: a replica is added for one that failed, or because            *)
(* numberOfReplicas was raised, and is built while the volume is attached. *)

AddReplica(n) ==
    /\ attached /\ Whole # {} /\ replicas[n] = "none"
    /\ replicas' = [replicas EXCEPT ![n] = "new"]
    /\ UNCHANGED <<failedAts, attached, minutes, diskFaults, cleared, overtaken, fooled>>

Rebuild(n) ==
    /\ attached /\ Whole # {}
    /\ \/ replicas[n] = "new" /\ replicas' = [replicas EXCEPT ![n] = "partial"]
       \/ replicas[n] = "partial" /\ replicas' = [replicas EXCEPT ![n] = "whole"]
    /\ UNCHANGED <<failedAts, attached, minutes, diskFaults, cleared, overtaken, fooled>>

Attach ==
    /\ attached' = ~attached /\ \A n \in TeardownNodes : replicas[n] # "partial"
    /\ UNCHANGED <<replicas, failedAts, minutes, diskFaults, cleared, overtaken, fooled>>

Purge ==
    /\ failedAts \ recent # {} /\ failedAts' = recent
    /\ UNCHANGED <<replicas, attached, minutes, diskFaults, cleared, overtaken, fooled>>

Tick ==
    /\ minutes < MaxMinutes
    /\ minutes' = minutes + 1
    /\ UNCHANGED <<replicas, failedAts, attached, diskFaults, cleared, overtaken, fooled>>

Next ==
    \/ \E o \in Operators, n \in TeardownNodes : Preflight(o, n)
    \/ \E o \in Operators : Wipe(o)
    \/ \E n \in TeardownNodes : DiskFails(n) \/ AddReplica(n) \/ Rebuild(n)
    \/ Attach \/ Purge \/ Tick

------------------------------------------------------------------------------
(* Properties                                                              *)

\* Wipes the preflight allowed never cost the last copy of a volume, with one disk
\* failing besides, although operators act on the answer later and rebuilds go on,
\* unless the check was fooled: a rebuild that outlasts the cooldown, or that no
\* failure started, counted as a copy, or so did an empty record of a detached
\* volume; or another wipe came between the answer and the wipe it allowed.
CopiesSurvive == Whole # {} \/ fooled
=============================================================================

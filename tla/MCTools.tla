------------------------------ MODULE MCTools ------------------------------
(***************************************************************************)
(* The tools, workflows and gates, for TLC.  They share nothing, so a      *)
(* behaviour is of the one that mode names, and the others stay as they    *)
(* begin; a property of a part that does not run holds by that.            *)
(***************************************************************************)
EXTENDS Integers, FiniteSets, Sequences

CONSTANTS
    Faults, Threads, CooldownSeconds, OpenTtlSeconds, DailySpawnCap,
    DailySpendCapUsd, EstimatedSessionCostUsd, DayLength, MaxTime,      \* AlertDispatcher
    Procs, ManifestFields, MaxEdits, MaxDeaths,                                 \* AgentProvisioning
    EnvKeys, MaxSecond, MaxOps,                                         \* EnvManager
    MaxBumps,                                                           \* VersionManager
    GateRuns, Patterns, MaxGhFaults,                                    \* ExtractionIssues
    TeardownNodes, Operators, MinSurviving, Cooldown, MaxMinutes, MaxDiskFaults,
    Declarers, Strangers, Labels, MaxDispatches, MaxInfra,              \* HostRegistry
    Domains, Callers, MaxCalls                                          \* DnsManager

ASSUME DispatcherAssumption ==
    /\ IsFiniteSet(Threads) /\ Threads # {} /\ DailySpawnCap \in Nat /\ CooldownSeconds \in Nat
    /\ OpenTtlSeconds \in Nat \ {0} /\ EstimatedSessionCostUsd \in Nat \ {0}
    /\ DailySpendCapUsd \in Nat /\ DayLength \in Nat \ {0} /\ MaxTime \in Nat

\* Fewer disks fail besides the wipes than copies have to survive one.
ASSUME TeardownAssumption ==
    /\ IsFiniteSet(TeardownNodes) /\ "none" \notin TeardownNodes
    /\ MinSurviving \in Nat /\ MaxDiskFaults \in Nat /\ MaxDiskFaults < MinSurviving

\* Repositories are numbers, and a wildcard is no label.
ASSUME RegistryAssumption ==
    /\ IsFiniteSet(Declarers) /\ IsFiniteSet(Strangers) /\ Declarers \subseteq Nat
    /\ "*" \notin Labels

\* The text of one domain is a part of another's.
Inside == {<<"app", "myapp">>}

VARIABLES
    mode,
    clock, armed, mem, disk, th, made, last,
    manifest, remote, procs, files, edits, deaths, overlapped, fresh,
    envFile, backups, second, ops, past, overwritten,
    version, components, bumps, gitTags, issued, wentDown,
    found, asked, issues, ghFaults, pairs,
    replicas, failedAts, attached, minutes, diskFaults, cleared, overtaken, fooled,
    tfvars, chart, routesMoved, matRuns, prs, dispatches, infraChanges, contested, slipped,
    hostsFile, dnsmasq, callers, calls, wanted, raced,
    judged

dispatcherVars == <<clock, armed, mem, disk, th, made, last>>
provVars == <<manifest, remote, procs, files, edits, deaths, overlapped, fresh>>
envVars == <<envFile, backups, second, ops, past, overwritten>>
versionVars == <<version, components, bumps, gitTags, issued, wentDown>>
issueVars == <<found, asked, issues, ghFaults, pairs>>
teardownVars == <<replicas, failedAts, attached, minutes, diskFaults, cleared, overtaken, fooled>>
registryVars == <<tfvars, chart, routesMoved, matRuns, prs, dispatches, infraChanges, contested, slipped>>
dnsVars == <<hostsFile, dnsmasq, callers, calls, wanted, raced>>
vars == <<mode, dispatcherVars, provVars, envVars, versionVars, issueVars,
          teardownVars, registryVars, dnsVars, judged>>

Dispatcher == INSTANCE AlertDispatcher
Prov == INSTANCE AgentProvisioning WITH Fields <- ManifestFields
Env == INSTANCE EnvManager WITH Keys <- EnvKeys
Version == INSTANCE VersionManager
Issues == INSTANCE ExtractionIssues
Teardown == INSTANCE NodeTeardown
Registry == INSTANCE HostRegistry
Dns == INSTANCE DnsManager
Gate == INSTANCE Gates

Modes == {"dispatcher", "provisioning", "env", "version", "issues", "teardown",
          "registry", "dns", "gates"}

\* A part that does not run begins in one way.
First(x, S) == x = CHOOSE s \in S : TRUE

Init ==
    /\ mode \in Modes
    /\ Dispatcher!Init /\ (mode # "dispatcher" => armed)
    /\ Prov!Init
    /\ Env!Init /\ (mode # "env" => envFile.ok /\ First(envFile.lines[1][1], EnvKeys))
    /\ Version!Init
    /\ Issues!Init /\ (mode # "issues" => \A r \in GateRuns : found[r] = found[CHOOSE q \in GateRuns : TRUE]
                                                              /\ First(found[r], Issues!detect_extraction_candidates))
    /\ Teardown!Init /\ First({n \in TeardownNodes : replicas[n] = "none"},
                              {s \in SUBSET TeardownNodes : Cardinality(TeardownNodes \ s) = MinSurviving + 1})
    /\ Registry!Init /\ (mode # "registry" => chart[CHOOSE l \in Labels : TRUE] = "routes")
    /\ Dns!Init /\ (mode # "dns" => hostsFile = {} /\ dnsmasq.up)
    /\ Gate!Init

\* The step is one of m, and leaves the other parts alone.
Only(m) ==
    /\ mode = m /\ UNCHANGED mode
    /\ IF m = "dispatcher" THEN TRUE ELSE UNCHANGED dispatcherVars
    /\ IF m = "provisioning" THEN TRUE ELSE UNCHANGED provVars
    /\ IF m = "env" THEN TRUE ELSE UNCHANGED envVars
    /\ IF m = "version" THEN TRUE ELSE UNCHANGED versionVars
    /\ IF m = "issues" THEN TRUE ELSE UNCHANGED issueVars
    /\ IF m = "teardown" THEN TRUE ELSE UNCHANGED teardownVars
    /\ IF m = "registry" THEN TRUE ELSE UNCHANGED registryVars
    /\ IF m = "dns" THEN TRUE ELSE UNCHANGED dnsVars
    /\ IF m = "gates" THEN TRUE ELSE UNCHANGED judged

Next ==
    \/ Only("dispatcher") /\ Dispatcher!Next
    \/ Only("provisioning") /\ Prov!Next
    \/ Only("env") /\ Env!Next
    \/ Only("version") /\ Version!Next
    \/ Only("issues") /\ Issues!Next
    \/ Only("teardown") /\ Teardown!Next
    \/ Only("registry") /\ Registry!Next
    \/ Only("dns") /\ Dns!Next
    \/ Only("gates") /\ Gate!Next

Spec == Init /\ [][Next]_vars

------------------------------------------------------------------------------
(* Properties                                                              *)

\* The dispatcher counts a session before it asks for it, keeps its daily caps while the
\* day lasts and nearly so across midnight, and asks for no second session of a fault
\* within the cooldown, whatever saves fail, answers are lost and threads are overtaken.
DispatchesAreCounted ==
    /\ []Dispatcher!CountedBeforeSent /\ []Dispatcher!CapWithinDay /\ []Dispatcher!OvershootBounded
    /\ Dispatcher!NoDoubleSpawn

\* Provisioning and syncing that is cut off, repeated and run twice at once leaves files
\* that name what exists; but for runs that overlap it makes nothing twice, and a full
\* run leaves the roster current and the role as its manifest says.
ProvisioningConverges ==
    Prov!OneOfEach /\ Prov!FilesResolve /\ Prov!RosterMatches /\ Prov!AppliedWhereGiven

\* Wipes that the teardown preflight allowed do not cost a volume its last copy, but by
\* what the check is known to take for a copy.
CopiesSurvive == Teardown!CopiesSurvive

\* Hosts that repositories declare have one owner and are none of FuzeInfra's own, and
\* a declaration changes no other repository's lines, but for known races.
HostsKeepTheirOwner ==
    /\ []Registry!InfraNotPublished /\ []Registry!OneOwnerEach /\ Registry!OthersUntouched

\* A long use of the tools loses and repeats nothing: not a line of .env or its backups,
\* not a version, an issue or a name of the hosts file, but where the tool is known to.
ToolsLoseNothing ==
    /\ []Env!NothingLost /\ []Env!OneLineEach
    /\ []Version!VersionsRise /\ []Issues!OneIssueEach
    /\ []Dns!AddedResolves /\ Dns!ForeignStay

\* What a green gate promises of a product, and of a pipeline, and what a change of the
\* input does to the answer (Gates).
GreenProductsConform == Gate!GreenProductsConform
GreenPipelinesChecked == Gate!GreenPipelinesChecked
ChangesCountRightly == Gate!ChangesCountRightly
=============================================================================

------------------------------- MODULE Gates -------------------------------
(***************************************************************************)
(* The gates and generators that read a repository and give a verdict, an  *)
(* edit or a message: each is a function of what it reads.  A step picks   *)
(* one of them and one of its inputs; the properties compare what the code *)
(* says of that input with what is true of it.                             *)
(***************************************************************************)
EXTENDS Sequences

VARIABLE judged     \* <<>>, <<gate>> or <<gate, input>>

Data == INSTANCE DataTier
Secrets == INSTANCE SecretsInventory
Review == INSTANCE ReviewVerdict
Checks == INSTANCE RequiredChecks
Design == INSTANCE DsConformance
Versions == INSTANCE ApiVersion
Federation == INSTANCE FederationContract
Auth == INSTANCE PlatformAuth
Ids == INSTANCE Identifiers
A2a == INSTANCE A2aGate
Vacuous == INSTANCE VacuousCheck
Mcp == INSTANCE McpCheck
Delegation == INSTANCE CapabilityDelegation
Ports == INSTANCE PortAllocator

GateNames == {"data", "secrets", "review", "checks", "design", "versions", "serving", "layers",
              "auth", "ids", "a2a", "vacuous", "mcp", "delegation", "ports"}

Init == judged = <<>>

Pick(g) == judged = <<>> /\ judged' = <<g>>

Judge(g, inputs) == judged = <<g>> /\ \E x \in inputs : judged' = <<g, x>>

Next ==
    \/ \E g \in GateNames : Pick(g)
    \/ Judge("data", Data!Inputs)
    \/ Judge("secrets", Secrets!Inputs)
    \/ Judge("review", Review!Inputs)
    \/ Judge("checks", Checks!Inputs)
    \/ Judge("design", Design!Inputs)
    \/ Judge("versions", Versions!Inputs)
    \/ Judge("serving", Federation!NginxInputs) \/ Judge("serving", Federation!ServerInputs)
    \/ Judge("layers", Federation!LayerInputs)
    \/ Judge("auth", Auth!RouteInputs) \/ Judge("auth", Auth!AdoptionInputs)
    \/ Judge("ids", Ids!ContractInputs) \/ Judge("ids", Ids!SourceInputs)
    \/ Judge("ids", Ids!FamilyInputs) \/ Judge("ids", Ids!RepoInputs)
    \/ Judge("a2a", A2a!Inputs)
    \/ Judge("vacuous", Vacuous!StepInputs) \/ Judge("vacuous", Vacuous!AllowlistInputs)
    \/ Judge("mcp", Mcp!Inputs)
    \/ Judge("delegation", Delegation!Inputs)
    \/ Judge("ports", Ports!Inputs)

Spec == Init /\ [][Next]_judged

------------------------------------------------------------------------------
(* Properties                                                              *)

\* P holds of the input the step gives, if it gives one to gate g.
Of(g, P(_)) == Len(judged') = 2 /\ judged'[1] = g => P(judged'[2])

\* A product whose gate is green has what the gate is there for: versioned and known
\* contracts, a remote entry its image serves, guarded routes, typed ids, an agent
\* endpoint that is served with secrets that resolve, and tools with their guards.
GreenProductsConform ==
    [][/\ Of("versions", Versions!GreenContractsKnown) /\ Of("versions", Versions!GreenCallersVersioned)
       /\ Of("serving", Federation!GreenServesEntry) /\ Of("layers", Federation!GreenServesEntry)
       /\ Of("auth", Auth!GreenRoutesGuarded) /\ Of("auth", Auth!GreenIsAdopted)
       /\ Of("ids", Ids!StrayIdRejected) /\ Of("ids", Ids!ReferencesTyped) /\ Of("ids", Ids!CreatorsAdopt)
       /\ Of("a2a", A2a!GreenIsServed) /\ Of("a2a", A2a!GreenSecretsResolve)
       /\ Of("mcp", Mcp!GuardsAreExposed)]_judged

\* A pipeline that is green did its work: its check can fail and reports, the review it
\* passes was given, no required secret is missing and none is reported that is there,
\* no new raw colour came in, and declared stores are provisioned.
GreenPipelinesChecked ==
    [][/\ Of("vacuous", Vacuous!GreenCanFail) /\ Of("checks", Checks!PassedChecksReport)
       /\ Of("review", Review!PassIsEarned) /\ Of("review", Review!UnsetFailsClosed)
       /\ Of("secrets", Secrets!StrictFindsGaps) /\ Of("secrets", Secrets!GapsAreReal)
       /\ Of("design", Design!RatchetHolds) /\ Of("data", Data!GreenIsProvisioned)]_judged

\* A change of what is read changes the answer as it should: advice that is followed
\* works, what is taken away or reordered makes nothing pass, what is written settles,
\* and an exemption, a soft rule, a header or a port stands for what it was given for.
ChangesCountRightly ==
    [][/\ Of("serving", Federation!AdviceWorks)
       /\ Of("serving", Federation!AbsenceNeverHelps) /\ Of("layers", Federation!AbsenceNeverHelps)
       /\ Of("auth", Auth!LostGuardFails)
       /\ Of("ids", Ids!ExemptionsAreMints) /\ Of("ids", Ids!PrefixesDisjoint)
       /\ Of("a2a", A2a!SoftOnlyWhereNamed) /\ Of("vacuous", Vacuous!FallbackIsWeaker)
       /\ Of("checks", Checks!PromotionIsListing)
       /\ Of("mcp", Mcp!OrderIrrelevant) /\ Of("mcp", Mcp!WriteSettles)
       /\ Of("data", Data!ApplySettles) /\ Of("data", Data!ApplyOnlyAddsStubs)
       /\ Of("delegation", Delegation!OuterHeaderRules) /\ Of("delegation", Delegation!EchoProves)
       /\ Of("ports", Ports!GivesUsablePorts)]_judged
=============================================================================

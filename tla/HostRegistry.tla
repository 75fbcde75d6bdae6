---------------------------- MODULE HostRegistry ----------------------------
(***************************************************************************)
(* scripts-tools/materialize_cf_hosts.py and                               *)
(* check_consumer_host_collisions.py with the workflows that run them: the *)
(* consumers' host names, declared in their own repositories, checked      *)
(* here, and merged one pull request per app.                              *)
(*                                                                         *)
(* consumers.tfvars is a set of lines <<label, repo>>.  The repositories   *)
(* are numbers, in the order of their names, which is the order of the     *)
(* file.                                                                   *)
(***************************************************************************)
EXTENDS Integers, FiniteSets

CONSTANTS
    Declarers,          \* repositories of the organisation
    Strangers,          \* repositories of others
    Labels,             \* valid labels; "*" stands for the wildcards
    MaxDispatches,      \* bound: declarations
    MaxInfra            \* bound: changes of FuzeInfra's own hosts

VARIABLES
    tfvars,             \* main: the lines of consumers.tfvars
    chart,              \* main: chart[l]: where FuzeInfra declares host l:
                        \* "none", "routes" or "values" (a service that is not published)
    routesMoved,        \* main: the $routes dict is not where the parser looks
    matRuns,            \* workflow runs after their checkout
    prs,                \* prs[r]: the open pull request of r's app, NoPr
    dispatches, infraChanges,
    contested,          \* history: labels two repositories claimed at the same time
    slipped             \* history: labels infra took while no check was looking

registryVars == <<tfvars, chart, routesMoved, matRuns, prs, dispatches, infraChanges, contested, slipped>>

Repos == Declarers \cup Strangers

NoPr == [base |-> {}, lines |-> {}, open |-> FALSE, green |-> FALSE]

\* A label that is written twice belongs to the later group.
parse_consumers_tfvars(lines) ==
    {line \in lines : \A other \in lines : other[1] = line[1] => other[2] <= line[2]}

\* Hosts of the chart's Ingresses and of the launcher.
extract_ingress_hosts(tree) == {l \in Labels : tree.chart[l] = "routes"}

\* Services the chart defines, published or not.
extract_chart_service_names(tree) == {l \in Labels : tree.chart[l] \in {"routes", "values"}}

\* Mutant: names of services that are not published are free.
derive_infra_owned_hosts_routes(tree) == extract_ingress_hosts(tree)

derive_infra_owned_hosts(tree) == extract_ingress_hosts(tree) \cup extract_chart_service_names(tree)

\* A parser that finds nothing raises: the materializer goes on with what is not in
\* the chart, no label of this model.
RESERVED_LABELS(tree) == IF tree.moved THEN {} ELSE derive_infra_owned_hosts(tree)

\* A manifest is none (no file) or declares hosts, entries <<label, access>>.
Manifests ==
    {[file |-> FALSE, hosts |-> {}]}
        \cup {[file |-> TRUE, hosts |-> h] :
                  h \in {ls \X {"bypass"} : ls \in (SUBSET Labels) \cup {{"*"}}} \cup {Labels \X {"gated"}}}

LabelsOf(manifest) == {entry[1] : entry \in manifest.hosts}

\* Mutant: the owner of a label is not looked up.
validate_unowned(repo, manifest, registry, reserved) ==
    /\ repo \in Declarers /\ manifest.hosts # {}
    /\ \A entry \in manifest.hosts : entry[1] \in Labels \ reserved /\ entry[2] = "bypass"

\* No policy violation.
validate(repo, manifest, registry, reserved) ==
    /\ repo \in Declarers /\ manifest.hosts # {}
    /\ \A entry \in manifest.hosts : entry[1] \in Labels \ reserved /\ entry[2] = "bypass"
    /\ \A entry \in manifest.hosts, line \in registry : line[1] = entry[1] => line[2] = repo

\* Mutant: the registry is rebuilt from the declaration alone.
build_registry_alone(repo, manifest, registry) == {<<l, repo>> : l \in LabelsOf(manifest)}

build_registry(repo, manifest, registry) ==
    {line \in registry : line[2] # repo} \cup {<<l, repo>> : l \in LabelsOf(manifest)}

\* git merges lines: what the branch added and removed since its base.
Merged(base, lines, main) == (main \cup (lines \ base)) \ (base \ lines)

\* Mutant: the guard looks for wildcards only.
collisions_wild(lines, tree) == {line \in lines : line[1] = "*"}

\* check_consumer_host_collisions.check; an error of the parser fails the check.
collisions(lines, tree) ==
    IF tree.moved THEN lines \cup {<<"*", 0>>}
    ELSE {line \in parse_consumers_tfvars(lines) : line[1] = "*" \/ line[1] \in derive_infra_owned_hosts(tree)}

Main == [lines |-> tfvars, chart |-> chart, moved |-> routesMoved]

\* The labels r is about to claim.
Claims(runs, open, r) ==
    (UNION {LabelsOf(run.manifest) : run \in {x \in runs : x.repo = r}})
        \cup (IF r \in Declarers /\ open[r].open THEN {line[1] : line \in open[r].lines \ open[r].base} ELSE {})

Contest == contested' = contested \cup
    {l \in Labels : Cardinality({r \in Repos : l \in Claims(matRuns', prs', r)}) > 1}

Init ==
    /\ tfvars = {} /\ routesMoved = FALSE /\ matRuns = {} /\ dispatches = 0 /\ infraChanges = 0
    /\ \E l \in Labels : chart = [k \in Labels |-> IF k = l THEN "routes" ELSE "none"]
    /\ prs = [r \in Declarers |-> NoPr] /\ contested = {} /\ slipped = {}

\* A dispatch starts a run, which checks main out.
Dispatch(r, manifest) ==
    /\ dispatches < MaxDispatches /\ dispatches' = dispatches + 1
    /\ matRuns' = matRuns \cup {[repo |-> r, manifest |-> manifest, tree |-> Main]}
    /\ UNCHANGED <<tfvars, chart, routesMoved, prs, infraChanges, slipped>> /\ Contest

\* main, and the steps of the workflow that depend on its result: without a manifest,
\* with violations and without a change the run ends; else the app's branch is
\* force-pushed and the guard runs on its pull request.
Materialize(run) ==
    LET registry == parse_consumers_tfvars(run.tree.lines)
        new == build_registry(run.repo, run.manifest, registry)
        changed == /\ run.manifest.file
                   /\ validate(run.repo, run.manifest, registry, RESERVED_LABELS(run.tree))
                   /\ new # run.tree.lines IN
    /\ run \in matRuns /\ matRuns' = matRuns \ {run}
    /\ prs' = IF changed
              THEN [prs EXCEPT ![run.repo] =
                       [base |-> run.tree.lines, lines |-> new, open |-> TRUE,
                        green |-> collisions(Merged(run.tree.lines, new, tfvars), Main) = {}]]
              ELSE prs
    /\ UNCHANGED <<tfvars, chart, routesMoved, dispatches, infraChanges, slipped>> /\ Contest

\* A person merges a pull request whose check passed.
Merge(r) ==
    /\ prs[r].open /\ prs[r].green
    /\ tfvars' = Merged(prs[r].base, prs[r].lines, tfvars)
    /\ prs' = [prs EXCEPT ![r] = NoPr]
    /\ UNCHANGED <<chart, routesMoved, matRuns, dispatches, infraChanges, slipped>> /\ Contest

------------------------------------------------------------------------------
(* The changes of FuzeInfra's own hosts: the guard runs on those of the routes,  *)
(* not on those of values.yaml.                                            *)

Claimed(l, where) ==
    \/ \E r \in Declarers : prs[r].open /\ \E line \in prs[r].lines : line[1] = l
    \/ where = "values" /\ \E line \in tfvars : line[1] = l

Infra(l, where) ==
    /\ infraChanges < MaxInfra /\ infraChanges' = infraChanges + 1
    /\ chart[l] # where /\ chart' = [chart EXCEPT ![l] = where]
    /\ where = "routes" => collisions(tfvars, [Main EXCEPT !.chart = chart']) = {}
    /\ where = "none" => chart[l] = "values"      \* a service is withdrawn before it goes
    /\ slipped' = IF chart[l] = "none" /\ Claimed(l, where) THEN slipped \cup {l} ELSE slipped
    /\ UNCHANGED <<tfvars, routesMoved, matRuns, prs, dispatches, contested>>

MoveRoutes ==
    /\ infraChanges < MaxInfra /\ infraChanges' = infraChanges + 1
    /\ routesMoved' = ~routesMoved
    /\ UNCHANGED <<tfvars, chart, matRuns, prs, dispatches, contested, slipped>>

Next ==
    \/ \E r \in Repos, manifest \in Manifests : Dispatch(r, manifest)
    \/ \E run \in matRuns : Materialize(run)
    \/ \E r \in Declarers : Merge(r)
    \/ \E l \in Labels : Infra(l, "none") \/ Infra(l, "routes") \/ Infra(l, "values")
    \/ MoveRoutes

------------------------------------------------------------------------------
(* Properties                                                              *)

\* No consumer holds, without any access gate, a host of FuzeInfra's own, published
\* or only defined, unless infra took the name by a change no guard runs on, or while
\* a pull request that claims it had already been checked.
InfraNotPublished ==
    \A line \in tfvars : line[1] # "*" /\ (chart[line[1]] = "none" \/ line[1] \in slipped)

\* A label has one owner, unless two repositories claimed it at the same time: the
\* registry one run checks is the one it checked out.
OneOwnerEach == \A l1, l2 \in tfvars : l1[1] = l2[1] /\ l1 # l2 => l1[1] \in contested

\* A repository's lines change only by the merge of its own declaration, but for
\* labels that were contested.
OthersUntouched ==
    [][\A r \in Declarers : Merge(r) =>
          \A line \in (tfvars \ tfvars') \cup (tfvars' \ tfvars) : line[2] = r \/ line[1] \in contested]_registryVars
=============================================================================

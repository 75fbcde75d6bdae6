---------------------------- MODULE Identifiers -----------------------------
(***************************************************************************)
(* scripts/gate_identifier.py: the service that owns an entity mints its   *)
(* identifier.                                                             *)
(*                                                                         *)
(* A specification is [parses, path, creates, exempt, schema]: one         *)
(* operation and the schema of its body, [props, closed, by, parts], whose *)
(* parts are composed with allOf or anyOf.  A source line is [site, kind,  *)
(* target, cast]. A repository is [name, namespace, pairs, declares,       *)
(* imports, enforce] with the pairs <<type, prefix>> of its registry, a    *)
(* prefix being <<namespace, word>> or, bare, <<"", word>>.                *)
(***************************************************************************)
EXTENDS Integers, Sequences, FiniteSets

SELF_ID_RE == {"id"}

\* A schema and what it composes.
composed_parts(schema) == {[props |-> schema.props, closed |-> schema.closed]} \cup schema.parts

\* A POST or PUT on a collection with a word or a status of creation.
is_create_operation(spec) == spec.method \in {"post", "put"} /\ ~spec.onItem /\ spec.creates

\* The extension of the operation, or a line of the allowlist.
is_exempt(spec) == spec.exempt

\* Mutant: a body must be closed only where it composes nothing.
check_body_flat(schema) ==
    {v \in {"C1"} : \E p \in composed_parts(schema) : p.props \cap SELF_ID_RE # {}}
    \cup {v \in {"C2"} : ~schema.closed /\ schema.parts = {}}

\* C1: no part declares the id.  C2: some part closes the body.
check_body(schema) ==
    {v \in {"C1"} : \E p \in composed_parts(schema) : p.props \cap SELF_ID_RE # {}}
    \cup {v \in {"C2"} : \A p \in composed_parts(schema) : ~p.closed}

\* Mutant: the properties of the parts are not put together.
check_references_part(schema) ==
    {v \in {"C3"} : \E p \in composed_parts(schema) : "ownerId" \in p.props /\ "ownerType" \notin p.props}

\* C3: a reference to any kind of entity has its type beside it, in whichever part.
check_references(schema) ==
    LET props == UNION {p.props : p \in composed_parts(schema)}
    IN  {v \in {"C3"} : "ownerId" \in props /\ "ownerType" \notin props}

\* A specification that does not parse is skipped.
check_contracts(spec) ==
    IF ~spec.parses THEN {}
    ELSE check_references(spec.schema)
         \cup IF is_create_operation(spec) /\ ~is_exempt(spec) THEN check_body(spec.schema) ELSE {}

------------------------------------------------------------------------------
(* The source                                                              *)

MintsEntity(line) == line.kind = "mint" /\ line.target = "entity"

\* Mutant: an exemption is used by whatever stands on its line.
used_exemptions_line(lines, exempt) == exempt \cap {l.site : l \in {l \in lines : l.kind # "comment"}}

\* Only a line that mints uses its exemption; a comment is not looked at.
used_exemptions(lines, exempt) == exempt \cap {l.site : l \in {l \in lines : l.kind = "mint"}}

check_source(lines, exempt) ==
    {<<"S1", l.site>> : l \in {l \in lines : l.site \notin exempt /\ MintsEntity(l)}}
    \cup {<<"S2", l.site>> : l \in {l \in lines : l.site \notin exempt /\ l.kind # "comment" /\ l.cast}}
    \cup {<<"stale", s>> : s \in exempt \ used_exemptions(lines, exempt)}

------------------------------------------------------------------------------
(* The registries                                                          *)

SPINE_PREFIXES == [usr |-> "FuzeFront"]

\* Mutant: a reserved prefix may be minted by anyone.
PrefixError_spine(repo, prefix) ==
    ~(prefix[1] = "" /\ prefix[2] \in DOMAIN SPINE_PREFIXES) /\ prefix[1] # repo.namespace

\* A reserved prefix belongs to its owner, any other carries the namespace.
PrefixError(repo, prefix) ==
    IF prefix[1] = "" /\ prefix[2] \in DOMAIN SPINE_PREFIXES
    THEN repo.name # "" /\ SPINE_PREFIXES[prefix[2]] # repo.name
    ELSE prefix[1] # repo.namespace

check_namespace(repo) ==
    IF repo.pairs = {} THEN {}
    ELSE IF repo.namespace = "" THEN {"N2"}
    ELSE {v \in {"N1"} : \E p \in repo.pairs : PrefixError(repo, p[2])}

------------------------------------------------------------------------------
(* Adoption                                                                *)

\* Mutant: a declaration is adoption.
check_adoption_declared(repo, lines, exempt, spec) == {v \in {"A1"} : spec.parses /\ is_create_operation(spec) /\ ~repo.declares}

\* A1 where the package is not declared; A2, once enforced, where it is not imported.
check_adoption(repo, lines, exempt, spec) ==
    LET work == \/ \E v \in check_source(lines, exempt) : v[1] = "S1"
                \/ spec.parses /\ is_create_operation(spec)
    IN  IF ~work THEN {}
        ELSE IF ~repo.declares THEN {"A1"}
        ELSE {v \in {"A2"} : ~repo.imports /\ repo.enforce}

\* main --all of a repository with one specification; 0 is a pass.
ExitCode(repo, lines, exempt, spec) ==
    IF check_contracts(spec) = {} /\ check_source(lines, exempt) = {} /\ check_namespace(repo) = {}
       /\ check_adoption(repo, lines, exempt, spec) = {} THEN 0 ELSE 1

------------------------------------------------------------------------------
(* Inputs                                                                  *)

Leaves == {[props |-> p, closed |-> c] : p \in SUBSET {"id", "ownerId", "ownerType"}, c \in BOOLEAN}
Schemas == {[props |-> r.props, closed |-> r.closed, by |-> b, parts |-> p] :
              r \in Leaves, b \in {"allOf", "anyOf"}, p \in {q \in SUBSET Leaves : Cardinality(q) \in {0, 2}}}
Spec(parses, method, onItem, creates, exempt, schema) ==
    [parses |-> parses, method |-> method, onItem |-> onItem, creates |-> creates, exempt |-> exempt, schema |-> schema]
Plain == [props |-> {}, closed |-> TRUE, by |-> "allOf", parts |-> {}]
Specs == {Spec(TRUE, "post", FALSE, TRUE, FALSE, s) : s \in Schemas}
         \cup {Spec(p, m, i, c, e, [Plain EXCEPT !.props = {"id"}]) :
                p \in BOOLEAN, m \in {"get", "post", "put"}, i \in BOOLEAN, c \in BOOLEAN, e \in BOOLEAN}

Lines == {[site |-> s, kind |-> k, target |-> t, cast |-> c] :
            s \in {"f:1", "f:2"}, k \in {"mint", "comment", "code"}, t \in {"entity", "trace"}, c \in BOOLEAN}
Sources == {<<{k, l}, e>> : k \in {k \in Lines : k.site = "f:1"}, l \in {l \in Lines : l.site = "f:2"}, e \in SUBSET {"f:1", "f:2", "f:3"}}

Prefixes == {<<"", "usr">>, <<"", "ord">>, <<"hub", "ord">>, <<"sales", "ord">>}
Repos == {[name |-> n, namespace |-> s, pairs |-> p, declares |-> TRUE, imports |-> TRUE, enforce |-> FALSE] :
            n \in {"FuzeFront", "FuzeHub", "FuzeSales"}, s \in {"", "front", "hub", "sales"},
            p \in {{}} \cup {{<<"user", a>>, <<"order", b>>} : a, b \in Prefixes}}
Hub == [name |-> "FuzeHub", namespace |-> "hub", pairs |-> {<<"order", <<"hub", "ord">>>>},
        declares |-> TRUE, imports |-> TRUE, enforce |-> FALSE]

ContractInputs == {<<"contract", s>> : s \in Specs}
SourceInputs == {<<"source", s>> : s \in Sources}
FamilyInputs == {<<"family", <<a, b>>>> : a, b \in Repos}
RepoInputs ==
    {<<"repo", <<[Hub EXCEPT !.declares = d, !.imports = i, !.enforce = e], {k}, x, s>>>> :
        d \in BOOLEAN, i \in BOOLEAN, e \in BOOLEAN, k \in Lines, x \in {{}, {"f:1"}},
        s \in {Spec(p, "post", FALSE, c, e2, Plain) : p \in BOOLEAN, c \in BOOLEAN, e2 \in BOOLEAN}}

------------------------------------------------------------------------------
(* Properties of an input                                                  *)

\* Whether a request body with an id of the client's choosing validates.
LeafAccepts(leaf) == "id" \in leaf.props \/ ~leaf.closed
AcceptsId(schema) ==
    /\ LeafAccepts(schema)
    /\ schema.parts # {} => IF schema.by = "allOf" THEN \A p \in schema.parts : LeafAccepts(p)
                            ELSE \E p \in schema.parts : LeafAccepts(p)

\* "reject unknown properties, so a stray id cannot bind": where the contract check finds
\* nothing, no create that is not exempt takes a body with an id.  (A body made of
\* alternatives is held closed when one of them is: alternatives are left out here.)
StrayIdRejected(x) ==
    x[1] = "contract" /\ check_contracts(x[2]) = {} /\ x[2].schema.by = "allOf" =>
        (x[2].parses /\ x[2].method \in {"post", "put"} /\ ~x[2].onItem /\ x[2].creates /\ ~x[2].exempt => ~AcceptsId(x[2].schema))

\* "a base schema contributing ownerType and a variant contributing ownerId satisfies
\* the rule": a reference is reported exactly when no part brings its type.
ReferencesTyped(x) ==
    x[1] = "contract" /\ x[2].parses =>
        LET all == {[props |-> x[2].schema.props, closed |-> FALSE]} \cup x[2].schema.parts
        IN  "C3" \in check_contracts(x[2]) <=> /\ \E p \in all : "ownerId" \in p.props
                                               /\ \A p \in all : "ownerType" \notin p.props

\* "a drifting line number exempts code nobody reviewed": where the source check finds
\* nothing, every entity minted by hand is on an exempted line, and every exemption is of
\* a line that mints.
ExemptionsAreMints(x) ==
    x[1] = "source" /\ check_source(x[2][1], x[2][2]) = {} =>
        /\ \A l \in x[2][1] : MintsEntity(l) => l.site \in x[2][2]
        /\ \A s \in x[2][2] : \E l \in x[2][1] : l.site = s /\ l.kind = "mint"

\* "or two products can both define it": two products that pass, each by itself, and
\* declare namespaces of their own, mint no prefix in common.
PrefixesDisjoint(x) ==
    x[1] = "family" /\ x[2][1].name # x[2][2].name /\ x[2][1].namespace # x[2][2].namespace
        /\ check_namespace(x[2][1]) = {} /\ check_namespace(x[2][2]) = {} =>
            {p[2] : p \in x[2][1].pairs} \cap {p[2] : p \in x[2][2].pairs} = {}

\* "a family standard whose gate is satisfied by non-adoption is not a standard": a
\* repository that creates entities and passes with enforceUsage imports the package, and
\* no exemption of an operation or of a line changes that.
CreatorsAdopt(x) ==
    x[1] = "repo" /\ ExitCode(x[2][1], x[2][2], x[2][3], x[2][4]) = 0 /\ x[2][1].enforce =>
        (x[2][4].parses /\ x[2][4].creates => x[2][1].declares /\ x[2][1].imports)
=============================================================================

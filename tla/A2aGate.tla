------------------------------ MODULE A2aGate -------------------------------
(***************************************************************************)
(* scripts/gate_a2a.py: a repository that declares an agent surface has    *)
(* one.                                                                    *)
(*                                                                         *)
(* A repository x is its manifest [parses, enabled, served, id, roles],    *)
(* its policy, its chart values files [parses, full, prod, image, tag,     *)
(* tenants, auth, url, refs, inline, rest], the tenant list of the serving *)
(* repository, the registry, the sealed secrets and the skills at hand.  A *)
(* finding is <<code, fatal>>.                                             *)
(***************************************************************************)
EXTENDS Integers, FiniteSets

Fatal(code) == <<code, TRUE>>
When(code, holds) == {f \in {Fatal(code)} : holds}

\* Mutant: a policy that cannot be read is the soft one.
load_policy_soft(x) == IF x.policy.state = "unreadable" THEN [x.policy EXCEPT !.state = "warn"] ELSE x.policy

\* A policy that is absent or cannot be read is the strict default.
load_policy(x) == IF x.policy.state \in {"absent", "unreadable"}
                  THEN [state |-> "fail", known |-> {}, external |-> {}, unexplained |-> {}] ELSE x.policy

\* A manifest that cannot be read is an empty one.
load_manifest(x) == IF x.manifest.parses THEN x.manifest ELSE [x.manifest EXCEPT !.enabled = FALSE]

\* The values files with a declaration: those that do not parse, and the overlays with
\* neither image nor tenants, are left out.
find_values_docs(x) == {d \in x.docs : d.parses /\ d.full}

\* What the registry answers: "ok", "gone", or "unreachable" for no answer.
registry_manifest_status(x, d) == IF x.registry = "down" THEN "unreachable" ELSE IF d.tag \in x.published THEN "ok" ELSE "gone"

\* Mutant: a list that cannot be read leaves the declaration to be believed.
_tenant_entry_verified_trust(x) ==
    IF ~x.manifest.served THEN "no" ELSE IF x.tenants \in {"unreadable", "listed"} THEN "yes" ELSE "no"

\* Whether the serving repository lists this one, enabled; "unknown" if it cannot be read.
_tenant_entry_verified(x) ==
    IF ~x.manifest.served THEN "no"
    ELSE CASE x.tenants = "unreadable" -> "unknown"
           [] x.tenants = "listed"     -> "yes"
           [] OTHER                    -> "no"

SHARED_IMAGE == "fuze-a2a"

\* I1 to I4 of one values file.
image_findings(x, d) ==
    When("I1", d.image # "" /\ d.image # SHARED_IMAGE)
    \cup IF d.image = "" \/ d.tag = "" THEN {Fatal("I1")}
         ELSE When("I3", d.prod /\ d.tag = "latest")
              \cup (IF ~x.online THEN {}
                    ELSE CASE registry_manifest_status(x, d) = "unreachable" -> {<<"I2", FALSE>>}
                           [] registry_manifest_status(x, d) = "gone"        -> {Fatal("I2")}
                           [] OTHER                                          -> {})
              \cup When("I4", d.tenants = 1 /\ ~d.url)

check_image(x) ==
    When("I0", find_values_docs(x) = {} /\ _tenant_entry_verified(x) # "yes")
    \cup UNION {image_findings(x, d) : d \in find_values_docs(x)}

\* The skills of the serving roles: S1 a role or a skill that is not there, S2 a card id,
\* S3 no skill at all, S4 no product context.
check_skills(x, hard) ==
    LET roles == x.manifest.roles
        named == UNION {r.skills : r \in {r \in roles : r.exists}}
    IN  When("S1", \E r \in roles : ~r.exists)
        \cup When("S1", \E s \in named : s \notin x.skills /\ s # "card.id")
        \cup When("S2", "card.id" \in named)
        \cup {f \in {<<"S3", hard>>} : roles # {} /\ named \ {"card.id"} = {}}
        \cup {f \in {<<"S4", hard>>} : ~x.context}

\* Mutant: a sealed secret has every key.
ref_findings_name(x, ref) == When("C1", ref[1] \notin DOMAIN x.sealed /\ ref[1] \notin load_policy(x).external)

\* A reference resolves to a sealed key, or to a secret provisioned elsewhere for a reason.
ref_findings(x, ref) ==
    LET p == load_policy(x)
    IN  IF ref[1] \in p.external THEN When("C1", ref[1] \in p.unexplained)
        ELSE When("C1", ref[1] \notin DOMAIN x.sealed \/ ref[2] \notin x.sealed[ref[1]])

check_creds(x) ==
    UNION {When("C4", d.tenants = 1 /\ d.auth = "none") \cup When("C3", d.auth = "noIssuer")
           \cup UNION {ref_findings(x, ref) : ref \in d.refs} : d \in find_values_docs(x)}

check_env(x) == When("E1", \E d \in find_values_docs(x) : d.inline)
check_api_surface(x) == When("A1", \E d \in find_values_docs(x) : d.rest)
check_forks(x) == When("F1", x.fork)
check_memory(x) == When("M1", x.chromaServer)

\* The ratchet softens only the repositories it names.
adoption_hard(x) == ~(load_policy(x).state = "warn" /\ x.manifest.id \in load_policy(x).known)

findings(x) == check_image(x) \cup check_skills(x, adoption_hard(x)) \cup check_creds(x) \cup check_env(x)
               \cup check_memory(x) \cup check_api_surface(x) \cup check_forks(x)

\* main, all families.
ExitCode(x) == IF load_manifest(x).enabled /\ (\E f \in findings(x) : f[2]) THEN 1 ELSE 0

------------------------------------------------------------------------------
(* Inputs                                                                  *)

Doc == [parses |-> TRUE, full |-> TRUE, prod |-> TRUE, image |-> SHARED_IMAGE, tag |-> "v1", tenants |-> 1,
        auth |-> "oidc", url |-> TRUE, refs |-> {<<"key", "k">>}, inline |-> FALSE, rest |-> FALSE]
Docs == {[Doc EXCEPT !.parses = p, !.full = f, !.image = i, !.tag = t, !.tenants = n, !.url = u] :
            p \in BOOLEAN, f \in BOOLEAN, i \in {SHARED_IMAGE, "fork", ""}, t \in {"v1", "latest", "v9"}, n \in {1, 2}, u \in BOOLEAN}
CredDocs == {[Doc EXCEPT !.auth = a, !.refs = r, !.inline = i] :
            a \in {"oidc", "noIssuer", "none"}, r \in SUBSET {<<"key", "k">>, <<"key", "z">>, <<"vendor", "k">>}, i \in BOOLEAN}
Role(exists, skills) == [exists |-> exists, skills |-> skills]
Good == [manifest |-> [parses |-> TRUE, enabled |-> TRUE, served |-> FALSE, id |-> "x", roles |-> {Role(TRUE, {"s"})}],
         policy |-> [state |-> "absent", known |-> {}, external |-> {}, unexplained |-> {}], docs |-> {Doc},
         tenants |-> "absent", registry |-> "up", published |-> {"v1", "latest"}, online |-> TRUE,
         sealed |-> [key |-> {"k"}], skills |-> {"s"}, context |-> TRUE, fork |-> FALSE, chromaServer |-> FALSE]
Policies == {[state |-> s, known |-> k, external |-> e, unexplained |-> u] :
                s \in {"absent", "unreadable", "warn", "fail"}, k \in {{}, {"x"}}, e \in {{}, {"vendor"}}, u \in {{}, {"vendor"}}}

Inputs ==
    {[Good EXCEPT !.docs = {d, e}, !.registry = r, !.online = o] : d \in Docs, e \in {Doc, [Doc EXCEPT !.parses = FALSE]},
        r \in {"up", "down"}, o \in BOOLEAN}
    \cup {[Good EXCEPT !.docs = d, !.manifest.served = s, !.tenants = t, !.manifest.parses = p, !.manifest.enabled = e] :
        d \in {{}, {[Doc EXCEPT !.parses = FALSE]}, {[Doc EXCEPT !.full = FALSE]}}, s \in BOOLEAN,
        t \in {"absent", "listed", "disabled", "unreadable"}, p \in BOOLEAN, e \in BOOLEAN}
    \cup {[Good EXCEPT !.docs = {d}, !.policy = p] : d \in CredDocs, p \in Policies}
    \cup {[Good EXCEPT !.manifest.roles = r, !.policy = p, !.context = c, !.fork = f] :
        r \in SUBSET {Role(TRUE, {"s"}), Role(TRUE, {}), Role(FALSE, {}), Role(TRUE, {"card.id"}), Role(TRUE, {"t"})},
        p \in Policies, c \in BOOLEAN, f \in BOOLEAN}

------------------------------------------------------------------------------
(* Properties of a repository                                              *)

\* "a card that routes to a pod that does not exist": where an enabled surface passes with
\* a registry that answers, it is served, by the shared image at a tag that can be pulled
\* or as a tenant the serving repository lists.
GreenIsServed(x) ==
    ExitCode(x) = 0 /\ x.manifest.parses /\ x.manifest.enabled /\ x.online /\ x.registry = "up" =>
        \/ \E d \in x.docs : d.parses /\ d.full /\ d.image = SHARED_IMAGE /\ d.tag \in x.published
        \/ x.manifest.served /\ x.tenants = "listed"

\* "The pod will start and fail to mount it": where the gate passes every secret a values
\* file refers to has that key, or is provisioned elsewhere with a reason in a policy
\* that can be read.
GreenSecretsResolve(x) ==
    ExitCode(x) = 0 /\ x.manifest.parses /\ x.manifest.enabled =>
        \A d \in x.docs : d.parses /\ d.full => \A ref \in d.refs :
            \/ ref[1] \in DOMAIN x.sealed /\ ref[2] \in x.sealed[ref[1]]
            \/ /\ x.policy.state \in {"warn", "fail"}
               /\ ref[1] \in x.policy.external \ x.policy.unexplained

\* "otherwise warn would be a fleet-wide opt-out": a repository passes without a skill or
\* its context only when a policy that can be read is in warn mode and names it.
SoftOnlyWhereNamed(x) ==
    ExitCode(x) = 0 /\ x.manifest.parses /\ x.manifest.enabled
        /\ (~x.context \/ (x.manifest.roles # {} /\ \A r \in x.manifest.roles : r.skills \cap x.skills = {})) =>
            x.policy.state = "warn" /\ x.manifest.id \in x.policy.known
=============================================================================

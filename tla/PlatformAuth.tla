---------------------------- MODULE PlatformAuth ----------------------------
(***************************************************************************)
(* scripts/gate_platform_auth.py: a service authenticates its callers, as  *)
(* a whole (families F, D, S, Z, R, A) and route by route (family E).      *)
(*                                                                         *)
(* A repository x is a sequence of files [kind, lang, parses, has, items,  *)
(* wired], what its package.json declares, its declaration files and its   *)
(* manifest.  "has" is the set of features the line scans look for.  Items *)
(* are, in order, routes [what, owner, key, mutating, names] and, in a     *)
(* JavaScript file, app.use(guard) [what, names]; "wired" are the names in *)
(* the dependencies of a Python app, "mounts" the names a router file is   *)
(* mounted behind elsewhere.                                               *)
(***************************************************************************)
EXTENDS Integers, Sequences, SequencesExt, FiniteSets

BUILTIN_GUARDS == {"requireAuth"}

\* The files of the repository's own: neither skipped nor those that governance installs,
\* nor this gate.
source_files(x) == {i \in DOMAIN x.files : x.files[i].kind \in {"product", "impl"}}

\* Those of a package that is itself the auth client.
auth_impl_dirs(x) == {i \in DOMAIN x.files : x.files[i].kind = "impl"}

Scanned(x) == source_files(x) \ auth_impl_dirs(x)
Has(x, files, feature) == \E i \in files : feature \in x.files[i].has

------------------------------------------------------------------------------
(* The families about the repository                                       *)

declares_auth(x) == x.declared
imports_auth(x) == Has(x, source_files(x), "imports")

Routes(file) == {n \in DOMAIN file.items : file.items[n].what = "route"}
Routed(x) == \E i \in source_files(x) : Routes(x.files[i]) # {} \/ "textual" \in x.files[i].has

\* A handler of a failed import that lets requests through.
check_fail_open(x) ==
    {f \in {"F1"} : \E i \in Scanned(x) : {"mentions", "permissiveCatch"} \subseteq x.files[i].has}

\* A guard in a file that never denies.
check_permissive_guard(x) ==
    {f \in {"F2"} : \E i \in source_files(x) : "guardDef" \in x.files[i].has /\ "denial" \notin x.files[i].has}

\* Mutant: an inert dependency is fine.
check_declared_used(x) == {f \in {"D1"} : imports_auth(x) /\ ~declares_auth(x)}

check_declared(x) ==
    {f \in {"D1"} : imports_auth(x) /\ ~declares_auth(x)}
    \cup {f \in {"D2"} : declares_auth(x) /\ ~imports_auth(x)}

check_secrets(x) ==
    {f \in {"S1"} : Has(x, Scanned(x), "secret")}
    \cup {f \in {"S3"} : Has(x, Scanned(x), "unpinned")}
    \cup {f \in {"S2"} : Has(x, Scanned(x), "legacy") /\ ~Has(x, Scanned(x), "jwks")}

\* The one repository that answers authorization checks may talk to the vendor.
serves_authz_api(x) == Has(x, source_files(x), "servesAuthz")

check_authz(x) ==
    {f \in {"Z3"} : Has(x, Scanned(x), "permit") /\ ~serves_authz_api(x)}
    \cup {f \in {"Z2"} : Has(x, Scanned(x), "unavailableAllowed")}
    \cup {f \in {"Z1"} : /\ \E i \in source_files(x) : \E n \in Routes(x.files[i]) : x.files[i].items[n].mutating
                         /\ ~Has(x, Scanned(x), "permission")}

check_rate_limit(x) == {f \in {"R1"} : Routed(x) /\ ~Has(x, source_files(x), "limiter")}

check_adoption(x) == {f \in {"A1"} : Routed(x) /\ ~declares_auth(x) /\ ~imports_auth(x)}

------------------------------------------------------------------------------
(* The routes                                                              *)

\* Mutant: an entry without a reason counts.
_parse_decls_any(entries) == [values |-> {e.value : e \in entries}, found |-> {}]

\* An entry without a reason does not apply, and is a finding.
_parse_decls(entries) ==
    [values |-> {e.value : e \in {e \in entries : e.reason}},
     found  |-> {f \in {"E4"} : \E e \in entries : ~e.reason}]

guards(x) == BUILTIN_GUARDS \cup _parse_decls(x.guardFile).values

\* Guarded by the dependencies of the app it is registered on, or by a name in the
\* decorator, the signature or the body.
_py_routes(x, i, n) ==
    LET r == x.files[i].items[n]
    IN  (r.owner = "app" /\ x.files[i].wired \cap guards(x) # {}) \/ r.names \cap guards(x) # {}

\* The first app.use of a guard; 0 for none.
file_guard_at(x, i) ==
    LET at == {m \in DOMAIN x.files[i].items : x.files[i].items[m].what = "use" /\ x.files[i].items[m].names \cap guards(x) # {}}
    IN  IF at = {} THEN 0 ELSE Min(at)

_mount_guarded_files(x, i) == x.files[i].mounts \cap guards(x) # {}

\* Mutant: app.use guards the whole file.
_js_routes_file(x, i, n) ==
    \/ x.files[i].items[n].names \cap guards(x) # {}
    \/ file_guard_at(x, i) # 0
    \/ _mount_guarded_files(x, i)

\* Guarded by a name in the call, by an app.use earlier in the file, or where it is mounted.
_js_routes(x, i, n) ==
    \/ x.files[i].items[n].names \cap guards(x) # {}
    \/ file_guard_at(x, i) # 0 /\ n > file_guard_at(x, i)
    \/ _mount_guarded_files(x, i)

\* Every route found, as <<file, item>>: none in a Python file that does not parse.
Found(x) == UNION {{i} \X Routes(x.files[i]) : i \in {k \in Scanned(x) : x.files[k].lang = "py" => x.files[k].parses}}
Key(x, r) == x.files[r[1]].items[r[2]].key
GuardedBy(x, r) == IF x.files[r[1]].lang = "py" THEN _py_routes(x, r[1], r[2]) ELSE _js_routes(x, r[1], r[2])

\* Mutant: the line that names the path is all there is to a route.
span_line(r) == {<<r, "path">>}

\* The lines of a route, from its decorator to the end of its handler.
span(r) == {<<r, "path">>, <<r, "handler">>}

\* Mutant: a diff that cannot be had touched nothing.
changed_lines_empty(x) == IF x.diff[1] = "lines" THEN x.diff[2] ELSE {}

\* The lines that a diff touched; a diff that cannot be had leaves nothing out.
changed_lines(x) == IF x.diff[1] = "lines" THEN x.diff[2] ELSE UNION {span(r) : r \in Found(x)}

check_routes(x) ==
    LET public == _parse_decls(x.publicFile)
        decls == _parse_decls(x.guardFile).found \cup public.found
        bare == {r \in Found(x) : ~GuardedBy(x, r)}
        fallow == {i \in Scanned(x) : x.files[i].lang = "py" /\ ~x.files[i].parses}
    IN  IF Found(x) = {} THEN decls \cup {f \in {"E2"} : \E i \in Scanned(x) : Routes(x.files[i]) # {} \/ "textual" \in x.files[i].has}
        ELSE decls
             \cup {f \in {"E1"} : \E r \in bare : Key(x, r) \notin public.values /\ span(r) \cap changed_lines(x) # {}}
             \cup {f \in {"E3"} : public.values \ {Key(x, r) : r \in bare} # {}}
             \cup {f \in {"E2"} : fallow # {}}

------------------------------------------------------------------------------
\* Only an explicit false with a reason opts out.
enforcing(x) == ~(x.enforce = "false" /\ x.reason)

findings(x) ==
    check_fail_open(x) \cup check_permissive_guard(x) \cup check_declared(x) \cup check_secrets(x)
    \cup check_authz(x) \cup check_rate_limit(x) \cup check_adoption(x) \cup check_routes(x)

\* main, all families.
ExitCode(x) == IF findings(x) # {} /\ enforcing(x) THEN 1 ELSE 0

------------------------------------------------------------------------------
(* Inputs                                                                  *)

Route(owner, key, mutating, names) ==
    [what |-> "route", owner |-> owner, key |-> key, mutating |-> mutating, names |-> names]
Use(names) == [what |-> "use", names |-> names]
NameSets == {{}, {"requireAuth"}, {"myGuard"}, {"helper"}}
Whole == {"imports", "mentions", "limiter", "permission", "denial"}
File(kind, lang, parses, has, items, wired, mounts) ==
    [kind |-> kind, lang |-> lang, parses |-> parses, has |-> has, items |-> items, wired |-> wired, mounts |-> mounts]
Main == File("product", "js", TRUE, Whole, <<>>, {}, {})
Repo(files, declared, guardFile, publicFile, diff, enforce, reason) ==
    [files |-> files, declared |-> declared, guardFile |-> guardFile, publicFile |-> publicFile, diff |-> diff,
     enforce |-> enforce, reason |-> reason]

PyFiles == {File("product", "py", p, {}, <<Route(o, "GET /a", FALSE, n), Route("router", "POST /b", TRUE, m)>>, w, {}) :
                p \in BOOLEAN, o \in {"app", "router"}, n, m \in NameSets, w \in NameSets}
JsFiles == {File(k, "js", TRUE, {}, <<Route("app", "GET /a", FALSE, n), Use(u), Route("app", "POST /b", TRUE, m)>>, {}, t) :
                k \in {"product", "governed"}, n, m, u \in NameSets, t \in {{}, {"myGuard"}}}
GuardFiles == {{}, {[value |-> "myGuard", reason |-> TRUE]}, {[value |-> "myGuard", reason |-> FALSE]}}
PublicFiles == {{}, {[value |-> "GET /a", reason |-> TRUE]}, {[value |-> "GET /a", reason |-> FALSE]}}
Features == {"imports", "mentions", "limiter", "permission", "denial", "guardDef", "permissiveCatch", "permit", "servesAuthz"}

RouteInputs ==
    {Repo(<<Main, f>>, TRUE, g, p, d, "absent", FALSE) : f \in PyFiles \cup JsFiles, g \in GuardFiles, p \in PublicFiles,
        d \in {<<"none">>, <<"unavailable">>, <<"lines", {}>>}}
AdoptionInputs ==
    {Repo(<<File(k, "js", TRUE, h, i, {}, {})>>, dc, {}, {}, <<"none">>, e, r) :
            k \in {"product", "impl", "governed"}, h \in SUBSET Features,
            i \in {<<>>, <<Route("app", "POST /b", TRUE, {"requireAuth"})>>}, dc \in BOOLEAN,
            e \in {"absent", "false"}, r \in BOOLEAN}

------------------------------------------------------------------------------
(* Properties of a repository                                              *)

\* Whether a request to a route meets a guard when the service runs.
RealGuards == {"requireAuth", "myGuard"}
MeetsGuard(x, i, n) ==
    LET f == x.files[i]
        r == f.items[n]
    IN  \/ r.names \cap RealGuards # {}
        \/ f.lang = "py" /\ r.owner = "app" /\ f.wired \cap RealGuards # {}
        \/ f.lang = "js" /\ f.mounts \cap RealGuards # {}
        \/ f.lang = "js" /\ \E m \in 1..(n - 1) : f.items[m].what = "use" /\ f.items[m].names \cap RealGuards # {}
Declared(x, i, n) == \E e \in x.publicFile : e.reason /\ e.value = x.files[i].items[n].key

\* "There is no fourth bucket": of a repository that passes in full, every route of every
\* product file, the unreadable ones included, meets a guard or is public for a reason.
GreenRoutesGuarded(x) ==
    ExitCode(x) = 0 /\ enforcing(x) /\ x.diff[1] # "lines" =>
        \A i \in DOMAIN x.files : \A n \in Routes(x.files[i]) :
            x.files[i].kind = "product" => MeetsGuard(x, i, n) \/ Declared(x, i, n)

\* "a standard satisfied by non-adoption is not a standard": the families together leave
\* a passing service with auth that is declared and imported, a limiter and, where it
\* changes state, permission checks.
GreenIsAdopted(x) ==
    ExitCode(x) = 0 /\ enforcing(x) =>
        \A i \in DOMAIN x.files : x.files[i].kind = "product" /\ Routes(x.files[i]) # {} =>
            /\ x.declared
            /\ \E j \in DOMAIN x.files : "imports" \in x.files[j].has
            /\ \E j \in DOMAIN x.files : "limiter" \in x.files[j].has
            /\ (\E n \in Routes(x.files[i]) : x.files[i].items[n].mutating) =>
                   \E j \in DOMAIN x.files : "permission" \in x.files[j].has

\* "a route that LOSES its guard is a changed line, and changed lines always fail": a
\* change to a passing repository that takes the guard off a route fails with the ratchet.
LostGuardFails(x) ==
    findings(x) = {} /\ enforcing(x) =>
        \A r \in Found(x) :
            LET head == [x EXCEPT !.files[r[1]].items[r[2]].names = {}, !.diff = <<"lines", {<<r, "handler">>}>>]
            IN  ~MeetsGuard(head, r[1], r[2]) /\ ~Declared(x, r[1], r[2]) => ExitCode(head) = 1
=============================================================================

------------------------- MODULE FederationContract -------------------------
(***************************************************************************)
(* scripts/gate_federation_contract.py: the layers that publish a          *)
(* federated panel agree: the registration manifest, the bundler, the      *)
(* Ingress, the web server and the image.                                  *)
(*                                                                         *)
(* A path is the sequence of its segments.  A repository x has a manifest, *)
(* vendored copies of it, bundler configs, Ingress paths, nginx confs      *)
(* (each a server root and a sequence of locations [mod, pat, how, dir]),  *)
(* at most one Node server and Dockerfiles (what their final stage copies  *)
(* where).  A finding is a pair of the layer and what is wrong.            *)
(***************************************************************************)
EXTENDS Integers, Sequences, SequencesExt, FiniteSets

None == <<"none">>
Dir(path) == <<"dir", path>>
Handles(pat, path) == IsPrefix(pat, path)
Tail_(path, pat) == SubSeq(path, Len(pat) + 1, Len(path))

------------------------------------------------------------------------------
(* Layer 1: the manifest and its vendored copies                           *)

\* A copy under a chart of this repository, or with its slug, is its own.
find_registration_manifests(x) ==
    {c \in x.copies : c.chart \/ (c.parses /\ x.manifest.parses /\ c.slug = x.manifest.slug)}

\* What a copy is found to differ in.
copy_findings(x, c) ==
    IF ~c.parses THEN {<<"L1", "copy">>}
    ELSE {f \in {<<"L1", "slug">>} : c.slug # x.manifest.slug}
         \cup {f \in {<<"L1", "copy">>} : c.differs # "nowhere"}

\* The findings, and the advertised path.
check_manifest(x) ==
    LET m == x.manifest
        copies == UNION {copy_findings(x, c) : c \in find_registration_manifests(x)}
    IN  IF ~m.parses THEN [found |-> {<<"L1", "parse">>}, entry |-> None]
        ELSE IF m.type = "noIntegration" THEN [found |-> copies \cup {<<"L1", "integration">>}, entry |-> None]
        ELSE IF m.entry = None THEN [found |-> copies \cup {<<"L1", "entry">>}, entry |-> None]
        ELSE [found |-> copies, entry |-> m.entry]

------------------------------------------------------------------------------
(* Layer 2: the bundler                                                    *)

\* Where a config publishes the entry: base, assets directory, file.
entry_path(cfg) == cfg.base \o cfg.assets \o <<cfg.file>>

FirstWhere(s, Test(_)) == s[CHOOSE i \in DOMAIN s : Test(s[i]) /\ \A j \in 1..(i - 1) : ~Test(s[j])]

\* By the scope, else by the path, else the shallowest.
pick_build_config(x, entry) ==
    LET scoped(c) == c.scope = x.manifest.scope
        exact(c) == entry # None /\ entry = Dir(entry_path(c))
        shallow(c) == \A i \in DOMAIN x.configs : c.depth <= x.configs[i].depth
    IN  IF \E i \in DOMAIN x.configs : scoped(x.configs[i]) THEN FirstWhere(x.configs, scoped)
        ELSE IF \E i \in DOMAIN x.configs : exact(x.configs[i]) THEN FirstWhere(x.configs, exact)
        ELSE FirstWhere(x.configs, shallow)

check_build_config(x, entry) ==
    IF x.configs = <<>> THEN {<<"L2", "missing">>}
    ELSE {f \in {<<"L2", "path">>} : entry # None /\ Dir(entry_path(pick_build_config(x, entry))) # entry}

\* The base of the chosen config; without one, the directory of the entry.
serve_root(x, entry) ==
    IF x.configs # <<>> THEN pick_build_config(x, entry).base
    ELSE IF entry # None THEN Front(entry[2]) ELSE <<>>

------------------------------------------------------------------------------
(* Layer 3: the Ingress                                                    *)

\* A literal, or the literal default of a template; a template without one is unresolved.
ingress_paths(x) == {p[2] : p \in {p \in x.ingress : p[1] \in {"literal", "default"}}}

check_ingress(x, entry, root) ==
    LET target == IF entry # None THEN entry[2] ELSE root
    IN  IF x.ingress = {} THEN {<<"L3", "missing">>}
        ELSE IF \E p \in ingress_paths(x) : Handles(p, target) THEN {}
        ELSE IF ingress_paths(x) # {} THEN {<<"L3", "route">>} ELSE {<<"L3", "unresolved">>}

------------------------------------------------------------------------------
(* Layer 4a: nginx, or a Node server                                       *)

\* The locations of all confs in order, each with the root of its server.
Locations(x) == FlattenSeq([i \in DOMAIN x.nginx |->
    [j \in DOMAIN x.nginx[i].locs |-> x.nginx[i].locs[j] @@ [server |-> x.nginx[i].root]]])

\* Of the prefix and exact locations the first of the longest ones; 0 for none.
handling(locs, root) ==
    LET fit == {i \in DOMAIN locs : /\ locs[i].mod # "~"
                                    /\ IF locs[i].mod = "=" THEN root = locs[i].pat ELSE Handles(locs[i].pat, root)}
    IN  IF fit = {} THEN 0
        ELSE CHOOSE i \in fit : \A j \in fit : Len(locs[j].pat) < Len(locs[i].pat)
                                               \/ (Len(locs[j].pat) = Len(locs[i].pat) /\ i <= j)

\* alias replaces the matched prefix, root appends the whole path; the root of the
\* server stands in for that of the location.
location_dir(loc, root) ==
    CASE loc.how = "proxy" -> None
      [] loc.how = "alias" -> Dir(loc.dir \o Tail_(root, loc.pat))
      [] loc.how = "root"  -> Dir(loc.dir \o root)
      [] OTHER             -> IF loc.server = None THEN None ELSE Dir(loc.server[2] \o root)

resolve_nginx_dir(x, root) ==
    IF x.nginx = <<>> THEN [dir |-> None, found |-> {}]
    ELSE LET best == handling(Locations(x), root)
             dir == IF best = 0 THEN None ELSE location_dir(Locations(x)[best], root)
         IN  [dir |-> dir, found |-> {f \in {<<"L4A", "nginx">>} : dir = None}]

\* The value of a variable some Dockerfile sets, or a literal; anything else is dynamic.
_resolve_root_expr(x, expr) ==
    CASE expr[1] = "env" /\ expr[2] \in DOMAIN x.env -> Dir(x.env[expr[2]])
      [] expr[1] = "literal"                         -> Dir(expr[2])
      [] OTHER                                       -> None

\* The Express mounts, then the one by hand; the latter is left out when its root is
\* among the former, and, being dynamic, when there is any.
node_static_mounts(x) ==
    IF x.node = <<>> THEN <<>>
    ELSE LET express == [i \in DOMAIN x.node[1].express |->
                          [pat |-> x.node[1].express[i].pat, dir |-> _resolve_root_expr(x, x.node[1].express[i].expr)]]
             hand == [i \in DOMAIN x.node[1].hand |->
                          [pat |-> x.node[1].hand[i].pat, dir |-> _resolve_root_expr(x, x.node[1].hand[i].expr)]]
             added(m) == IF m.dir = None THEN express = <<>> ELSE m.dir \notin {express[i].dir : i \in DOMAIN express}
         IN  express \o SelectSeq(hand, added)

resolve_node_dir(x, root) ==
    LET fit == SelectSeq(node_static_mounts(x), LAMBDA m : Handles(m.pat, root))
        best == CHOOSE i \in DOMAIN fit : \A j \in DOMAIN fit : Len(fit[j].pat) < Len(fit[i].pat)
                                                                \/ (Len(fit[j].pat) = Len(fit[i].pat) /\ i <= j)
    IN  IF fit = <<>> THEN [dir |-> None, found |-> {}]
        ELSE IF \E i \in DOMAIN fit : fit[i].dir = None THEN [dir |-> None, found |-> {<<"L4A", "dynamic">>}]
        ELSE [dir |-> Dir(fit[best].dir[2] \o Tail_(root, fit[best].pat)), found |-> {}]

\* Mounts of the form /apps/<name>/ that do not handle the path, and where each would
\* have served it from.
MOUNT_PREFIX_RE(pat) == Len(pat) = 2 /\ pat[1] = "apps"

orphan_mounts(x, root) ==
    LET served(l) == IF l.how = "alias" THEN Dir(l.dir) ELSE location_dir(l, root)
    IN  {<<i, served(Locations(x)[i])>> : i \in {i \in DOMAIN Locations(x) :
            LET l == Locations(x)[i] IN l.mod # "~" /\ MOUNT_PREFIX_RE(l.pat) /\ ~Handles(l.pat, root)}}

node_orphan_mounts(x, root) ==
    {<<i, node_static_mounts(x)[i].dir>> : i \in {i \in DOMAIN node_static_mounts(x) :
        LET m == node_static_mounts(x)[i] IN MOUNT_PREFIX_RE(m.pat) /\ ~Handles(m.pat, root)}}

------------------------------------------------------------------------------
(* Layer 4b: the image                                                     *)

\* Mutant: the copies of every image count.
serving_dockerfiles_all(x, dialect) == x.docker

\* The Dockerfiles of the serving image; all of them when none can be told to be one.
serving_dockerfiles(x, dialect) ==
    LET hits == SelectSeq(x.docker, LAMBDA d : d.base = dialect)
    IN  IF hits = <<>> THEN x.docker ELSE hits

copy_pairs(files) == FlattenSeq([i \in DOMAIN files |-> files[i].copies])

\* Mutant: without a Dockerfile there is nothing to compare with.
resolve_image_dir_absent(files, dir, root) ==
    IF files = <<>> THEN [dir |-> dir, found |-> {}]
    ELSE [dir |-> IF copy_pairs(files) = <<>> THEN None ELSE Dir(copy_pairs(files)[1]), found |-> {}]

\* Of the places a build is copied to, the one that is served, else one under the
\* serve path, else the first.
resolve_image_dir(files, dir, root) ==
    LET copies == copy_pairs(files)
        under(c) == root # <<>> /\ IsSuffix(root, c)
    IN  IF copies = <<>> THEN [dir |-> None, found |-> {<<"L4B", "missing">>}]
        ELSE [dir |-> IF dir # None /\ Contains(copies, dir[2]) THEN dir
                      ELSE IF \E i \in DOMAIN copies : under(copies[i]) THEN Dir(FirstWhere(copies, under))
                      ELSE Dir(copies[1]),
              found |-> {}]

\* Mutant: any dead mount is blamed, wherever it points.
attribution_any(x, root, served, image, orphans) ==
    IF orphans # {} THEN {<<"L4A", "orphan">>} ELSE {<<"L4B", "flat">>}

\* Which half is blamed when the server and the image disagree.
attribution(x, root, served, image, orphans) ==
    LET imageOk == root # <<>> /\ IsSuffix(root, image[2])
        flat == image[2] \o root = served[2]
    IN  IF \E o \in orphans : o[2] = image THEN {<<"L4A", "orphan">>}
        ELSE {f \in {<<"L4A", "dead">>} : orphans # {}}
             \cup IF flat /\ ~imageOk THEN {<<"L4B", "flat">>}
                  ELSE IF imageOk /\ ~flat THEN {<<"L4A", "elsewhere">>} ELSE {<<"L4A", "mount">>}

\* nginx first; the Node server where nginx says nothing.
check_layer4(x, root) ==
    LET nginx == resolve_nginx_dir(x, root)
        node == resolve_node_dir(x, root)
        byNode == nginx.dir = None /\ nginx.found = {}
        served == IF byNode THEN node.dir ELSE nginx.dir
        failed == nginx.found \cup IF byNode THEN node.found ELSE {}
        dialect == IF byNode /\ node.dir # None THEN "node" ELSE "nginx"
        orphans == IF byNode THEN node_orphan_mounts(x, root) ELSE orphan_mounts(x, root)
        image == resolve_image_dir(serving_dockerfiles(x, dialect), served, root)
    IN  failed \cup {f \in {<<"L4A", "nothing">>} : served = None /\ failed = {}} \cup image.found
        \cup IF served = None \/ image.dir = None \/ served = image.dir THEN {}
             ELSE attribution(x, root, served, image.dir, orphans)

------------------------------------------------------------------------------
(* The driver                                                              *)

MF_TYPES == {"module-federation"}

\* <<status, findings>>.  Only a declared type that is no federation is skipped.
evaluate(x) ==
    LET m == check_manifest(x)
        declared == IF x.manifest.parses THEN x.manifest.type ELSE "absent"
        root == serve_root(x, m.entry)
    IN  IF ~x.manifest.present THEN <<"SKIPPED", {}>>
        ELSE IF declared \in {"absent", "noIntegration"} THEN <<"CHECKED", m.found \cup {<<"L1", "type">>}>>
        ELSE IF declared \notin MF_TYPES THEN <<"SKIPPED", {}>>
        ELSE <<"CHECKED", m.found \cup check_build_config(x, m.entry) \cup check_ingress(x, m.entry, root)
                          \cup check_layer4(x, root)>>

\* main: in mode "fail" every finding fails; in a ramp the layers of the ratchet do not;
\* "warn" fails nothing.
ExitCode(x) ==
    IF \E f \in evaluate(x)[2] : x.mode = "fail" \/ (x.mode # "warn" /\ f[1] \notin x.ramped) THEN 1 ELSE 0

------------------------------------------------------------------------------
(* Inputs: a panel meant for /apps/x/, and repositories around it          *)

AppsX == <<"apps", "x">>
AppsY == <<"apps", "y">>
Html == <<"html">>

Manifest == [present |-> TRUE, parses |-> TRUE, slug |-> "x", type |-> "module-federation",
             entry |-> Dir(AppsX \o <<"remoteEntry">>), scope |-> "x"]
Config(depth, scope, base, assets) ==
    [depth |-> depth, scope |-> scope, base |-> base, assets |-> assets, file |-> "remoteEntry"]
Loc(mod, pat, how, dir) == [mod |-> mod, pat |-> pat, how |-> how, dir |-> dir]
Image(base, copies) == [base |-> base, copies |-> copies]

Base == [manifest |-> Manifest, copies |-> {}, configs |-> <<Config(1, "x", AppsX, <<>>)>>,
         ingress |-> {<<"literal", <<>>>>}, nginx |-> <<>>, node |-> <<>>, env |-> [W |-> <<"web">>],
         docker |-> <<>>, mode |-> "fail", ramped |-> {}]

LocSet == {Loc(mod, pat, how, dir) : mod \in {"", "~"}, pat \in {<<>>, <<"apps">>, AppsX, AppsY},
                                     how \in {"alias", "root", "proxy", "try"}, dir \in {Html}}
Confs == {[root |-> r, locs |-> <<l>>] : r \in {None, Dir(Html)}, l \in LocSet}
         \cup {[root |-> Dir(Html), locs |-> <<k, l>>] : k, l \in LocSet}
Dests == {Html, Html \o AppsX, <<"web">>, <<"web", "apps", "x">>}
Exprs == {<<"env", "W">>, <<"env", "V">>, <<"literal", Html>>}
Nodes == {[express |-> e, hand |-> h] :
             e \in {<<>>} \cup {<<[pat |-> p, expr |-> r]>> : p \in {<<>>, AppsX, AppsY}, r \in Exprs},
             h \in {<<>>} \cup {<<[pat |-> p, expr |-> r]>> : p \in {<<>>, AppsX}, r \in Exprs}}
Images(base) == {<<Image(base, <<d>>)>> : d \in Dests}
                \cup {<<Image("job", <<Html>>), Image(base, <<d, <<"web">>>>)>> : d \in Dests}
                \cup {<<>>, <<Image(base, <<>>)>>}

NginxInputs == {[Base EXCEPT !.nginx = <<c>>, !.docker = d] : c \in Confs, d \in Images("nginx")}
ServerInputs ==
    {[Base EXCEPT !.nginx = <<c>>, !.docker = d, !.node = <<n>>] :
            c \in {[root |-> None, locs |-> <<Loc("", AppsY, "alias", Html)>>]}, d \in Images("nginx"), n \in Nodes}
    \cup {[Base EXCEPT !.node = <<n>>, !.docker = d] : n \in Nodes, d \in Images("node")}

Served == [Base EXCEPT !.nginx = <<[root |-> Dir(Html), locs |-> <<Loc("", <<>>, "try", Html)>>]>>,
                       !.docker = <<Image("nginx", <<Html \o AppsX>>)>>]
Configs == {<<>>} \cup {<<Config(1, s, b, a), Config(2, t, c, <<>>)>> :
            s, t \in {"x", "y"}, b, c \in {AppsX, AppsY, <<>>}, a \in {<<>>, <<"assets">>}}
Entries == {None, Dir(AppsX \o <<"remoteEntry">>), Dir(AppsX \o <<"assets", "remoteEntry">>), Dir(<<"remoteEntry">>)}
Copies == {{}} \cup {{[chart |-> ch, parses |-> p, slug |-> s, differs |-> d]} :
            ch \in BOOLEAN, p \in BOOLEAN, s \in {"x", "z"}, d \in {"nowhere", "format", "integration", "else"}}

LayerInputs ==
    {[Served EXCEPT !.manifest.entry = e, !.configs = c, !.ingress = i] : e \in Entries, c \in Configs,
        i \in {{}, {<<"literal", <<>>>>}, {<<"literal", AppsX>>}, {<<"default", AppsY>>}, {<<"template", <<>>>>}}}
    \cup {[Served EXCEPT !.manifest = [Manifest EXCEPT !.present = pr, !.parses = pa, !.type = t], !.copies = c] :
            pr \in BOOLEAN, pa \in BOOLEAN, t \in {"module-federation", "iframe", "absent", "noIntegration"}, c \in Copies}
    \cup {[Served EXCEPT !.configs = c, !.ingress = {<<"literal", AppsY>>}, !.mode = m, !.ramped = r] :
            c \in Configs, m \in {"fail", "ramp", "warn"}, r \in SUBSET {"L2", "L3"}}

------------------------------------------------------------------------------
(* Properties of a repository                                              *)

\* The file a request for a path gets of the web server: nginx takes the longest prefix
\* of the path itself; a Node server tries its mounts of the longest prefix in turn.
Longest(pats, path) == {i \in DOMAIN pats : Handles(pats[i], path)
                          /\ \A j \in DOMAIN pats : Handles(pats[j], path) => Len(pats[j]) <= Len(pats[i])}
FileOf(x, path) ==
    LET locs == SelectSeq(Locations(x), LAMBDA l : l.mod # "~")
        mounts == node_static_mounts(x)
    IN  IF x.nginx # <<>> THEN {location_dir(locs[i], path) : i \in Longest([i \in DOMAIN locs |-> locs[i].pat], path)}
        ELSE {IF mounts[i].dir = None THEN None ELSE Dir(mounts[i].dir[2] \o Tail_(path, mounts[i].pat))
              : i \in Longest([i \in DOMAIN mounts |-> mounts[i].pat], path)}

\* "a blank panel behind a green healthcheck": where the gate checks and passes, the
\* advertised path is routed to the server, and the server answers with the entry file of
\* the build, which the serving image holds there.  (Regex and exact locations aside.)
GreenServesEntry(x) ==
    ExitCode(x) = 0 /\ evaluate(x)[1] = "CHECKED" /\ x.mode = "fail" =>
        LET path == x.manifest.entry[2]
            files == FileOf(x, path)
            copies == copy_pairs(SelectSeq(x.docker, LAMBDA d : d.base # "job"))
        IN  /\ \E p \in x.ingress : p[1] # "template" /\ IsPrefix(p[2], path)
            /\ \E f \in files, i \in DOMAIN copies, c \in DOMAIN x.configs :
                    /\ f = Dir(copies[i] \o x.configs[c].assets \o <<x.configs[c].file>>)
                    /\ x.configs[c].base \o x.configs[c].assets \o <<x.configs[c].file>> = path

\* The advice of a finding is right: it names the half to fix, so doing that
\* and no more brings layer 4 to agree.  A dead mount gets the prefix of the other
\* layers, a flat copy is moved to where the server looks.  (Where the path has a
\* location of its own already the mount of another panel may be blamed.)
AdviceWorks(x) ==
    LET root == x.configs[1].base
        found == check_layer4(x, root)
        orphans == orphan_mounts(x, root)
        taken == \E i \in DOMAIN Locations(x) : Locations(x)[i].pat = root
        fixed(o) == [x EXCEPT !.nginx = <<[root |-> x.nginx[1].root,
                                           locs |-> [x.nginx[1].locs EXCEPT ![o[1]].pat = root]]>>]
        moved == [x EXCEPT !.docker = [i \in DOMAIN x.docker |-> [x.docker[i] EXCEPT
                                         !.copies = <<resolve_nginx_dir(x, root).dir[2]>>]]]
    IN  x.nginx # <<>> =>
            /\ <<"L4A", "orphan">> \in found /\ ~taken => \E o \in orphans : check_layer4(fixed(o), root) = {}
            /\ <<"L4B", "flat">> \in found => check_layer4(moved, root) = {}

\* "A MISSING FILE IS NEVER A REASON TO PASS": taking a layer away from a repository
\* never turns its verdict to green.
AbsenceNeverHelps(x) ==
    ExitCode(x) = 1 /\ x.mode = "fail" =>
        /\ ExitCode([x EXCEPT !.configs = <<>>]) = 1
        /\ ExitCode([x EXCEPT !.ingress = {}]) = 1
        /\ ExitCode([x EXCEPT !.docker = <<>>]) = 1
        /\ ExitCode([x EXCEPT !.nginx = <<>>, !.node = <<>>]) = 1
=============================================================================

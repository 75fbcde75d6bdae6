--------------------------- MODULE CustomHostname ---------------------------
(***************************************************************************)
(* The custom hostname API: services/custom-hostname-api/app (service.py,  *)
(* routing.py, providers/).  A customer domain works when two halves       *)
(* agree: its registration at the provider (Cloudflare for SaaS, or the    *)
(* stub) and the Ingress that routes it to a profile's Service.  The       *)
(* service keeps no state: each request reads and writes both through      *)
(* awaits, between which other requests run.  Which profile owns a domain  *)
(* is read off the routes.                                                 *)
(*                                                                         *)
(* list repeats the reads of get for each record and changes nothing; it   *)
(* is left out, and so are the domains that validate_domain refuses.       *)
(***************************************************************************)
EXTENDS Integers, Sequences, FiniteSets

CONSTANTS
    Domains,      \* normalized customer domains
    Profiles,     \* settings.profiles, a sequence; each has a namespace of its own
    Calls,        \* requests in progress at the same time
    MaxHostnames, \* max_custom_hostnames, 0 for none
    Backends      \* <<provider, routing_enabled>> of the deployments to look at

ASSUME CallsAssumption == IsFiniteSet(Calls) /\ IsFiniteSet(Domains)
ASSUME MaxAssumption == MaxHostnames \in Nat
ASSUME ProfilesAssumption == Profiles \in Seq(STRING) /\ Len(Profiles) > 0
ASSUME BackendsAssumption == Backends \subseteq {"cloudflare", "stub"} \X BOOLEAN

VARIABLES
    provider, routed,  \* the deployment's configuration
    edge,              \* the provider: domain -> registration
    routes,            \* Kubernetes: the <<domain, profile>> that have an Ingress
    call,              \* the local variables of each request
    messy              \* history: domains on which requests overlapped or a call
                       \* failed, and no tidy create succeeded since

vars == <<provider, routed, edge, routes, call, messy>>

Profile == {Profiles[i] : i \in 1..Len(Profiles)}

\* The statuses of a registration, as _DNS_STATUS and _TLS_STATUS map them:
\* "active" when both are active, "pending" for all the others.
Statuses == {"pending", "active"}

\* CloudflareProvider.list
Registered == {d \in Domains : edge[d] \in Statuses}

\* The Ingress of a domain in a profile's namespace, by its deterministic name.
Route(d, p) == <<d, p>>
exists(d, p) == Route(d, p) \in routes

\* k: the candidate _owner_of asks about; seen: the record read; held: what the
\* request refers to (resourceVersion, hostname id) is unchanged since it read it.
\* History: the profiles that alone have had a route since the request came;
\* whether a route was misread; whether other requests, or a failure, came in;
\* whether another registration was made since the listing.
Idle == [pc |-> "idle", op |-> "get", d |-> CHOOSE d \in Domains : TRUE, p |-> Profiles[1],
         k |-> 1, seen |-> "absent", held |-> FALSE, ans |-> "none",
         rivals |-> {}, misread |-> FALSE, disturbed |-> FALSE, crowded |-> FALSE]

Active(c) == call[c].pc # "idle"

Init ==
    /\ \E b \in Backends : provider = b[1] /\ routed = b[2]
    /\ edge = [d \in Domains |-> "absent"]
    /\ routes = {}
    /\ call = [c \in Calls |-> Idle]
    /\ messy = {}

------------------------------------------------------------------------------
(* Steps of a request                                                      *)

\* Among the routes r, q has one for d and p has none.
Rival(r, d, p, q) == <<d, q>> \in r /\ <<d, p>> \notin r

\* The request goes on as rec.  What others hold is stale after a change of it,
\* and rivals whose route is gone are none.
Goto(c, rec) ==
    LET d == call[c].d
        gone == edge'[d] = "absent" /\ edge[d] # "absent"
        Stale(x) == /\ x.d = d
                    /\ \/ x.pc = "delete" /\ gone
                       \/ x.pc = "put" /\ routes' # routes /\ x.p = call[c].p
    IN  call' = [x \in Calls |->
            LET now == IF x = c THEN rec ELSE call[x]
            IN  [now EXCEPT !.held = @ /\ (x = c \/ ~Stale(now)),
                            !.rivals = {q \in @ : Rival(routes', now.d, now.p, q)},
                            !.crowded = now.pc = "post" /\ (@ \/ (x # c /\ edge[d] = "absent" /\ edge'[d] # "absent"))]]

At(c, pc) == Goto(c, [call[c] EXCEPT !.pc = pc])

\* Nothing disturbed the request, and nobody else has a route for its domain.
Tidy(c) == ~call[c].disturbed /\ \A q \in Profile : exists(call[c].d, q) => q = call[c].p

\* The request ends with an answer.
End(c, ans) ==
    /\ Goto(c, [Idle EXCEPT !.ans = ans])
    /\ messy' = IF call[c].op = "create" /\ ans = "ok" /\ Tidy(c)
                THEN messy \ {call[c].d} ELSE messy

\* The request ends with an upstream error: the call was refused, or failed.
Break(c, ans) ==
    /\ Goto(c, [Idle EXCEPT !.ans = ans])
    /\ messy' = messy \cup {call[c].d}

\* The first step of an operation after the owner is known.
Entry(op) == IF op = "delete" THEN "remove" ELSE "find"

\* caller_profile has resolved the token; from here on two requests on the same
\* domain disturb each other.
Request(c) ==
    /\ ~Active(c)
    /\ \E op \in {"create", "get", "delete"}, d \in Domains, p \in Profile :
         LET others == {x \in Calls : Active(x) /\ call[x].d = d}
         IN  /\ call' = [x \in Calls |->
                    IF x = c
                    THEN [Idle EXCEPT !.pc = IF routed THEN "owner" ELSE Entry(op), !.op = op,
                                      !.d = d, !.p = p, !.disturbed = others # {},
                                      !.rivals = {q \in Profile : Rival(routes, d, p, q)}]
                    ELSE IF x \in others THEN [call[x] EXCEPT !.disturbed = TRUE] ELSE call[x]]
             /\ messy' = IF others # {} THEN messy \cup {d} ELSE messy
    /\ UNCHANGED <<provider, routed, edge, routes>>

\* Mutant: only the first candidate is asked about.
AskedOne(c, there) ==
    IF there THEN (IF Profiles[call[c].k] = call[c].p THEN "mine" ELSE "other") ELSE "nobody"

\* What one more answer tells _owner_of.
Asked(c, there) ==
    IF there THEN (IF Profiles[call[c].k] = call[c].p THEN "mine" ELSE "other")
    ELSE IF call[c].k < Len(Profiles) THEN "next" ELSE "nobody"

\* _owner_of: one GET per candidate.  Any status but 200 reads as "no route".
Owner(c) ==
    /\ call[c].pc = "owner"
    /\ \E misread \in BOOLEAN :
         LET there == exists(call[c].d, Profiles[call[c].k])
             asked == Asked(c, there /\ ~misread)
         IN  /\ misread => there
             /\ UNCHANGED <<edge, routes>>
             /\ IF asked = "other" THEN End(c, "forbidden")
                ELSE /\ Goto(c, [call[c] EXCEPT
                            !.pc = IF asked = "next" THEN @ ELSE Entry(call[c].op),
                            !.k = IF asked = "next" THEN @ + 1 ELSE 1,
                            !.misread = @ \/ misread,
                            !.disturbed = @ \/ misread])
                     /\ messy' = IF misread THEN messy \cup {call[c].d} ELSE messy
    /\ UNCHANGED <<provider, routed>>

------------------------------------------------------------------------------
(* create                                                                  *)

\* Mutant: a domain that is registered is taken for done.
FindDone(c) ==
    /\ call[c].pc = "find" /\ call[c].op = "create" /\ provider = "cloudflare"
    /\ UNCHANGED <<edge, routes>>
    /\ IF edge[call[c].d] # "absent" THEN End(c, "ok")
       ELSE At(c, IF MaxHostnames = 0 THEN "post" ELSE "quota") /\ UNCHANGED messy
    /\ UNCHANGED <<provider, routed>>

\* CloudflareProvider.create: the domain may be registered already.
Find(c) ==
    /\ call[c].pc = "find" /\ call[c].op = "create" /\ provider = "cloudflare"
    /\ UNCHANGED <<edge, routes>>
    /\ At(c, IF edge[call[c].d] # "absent" THEN "ensure"
             ELSE IF MaxHostnames = 0 THEN "post" ELSE "quota")
    /\ UNCHANGED <<provider, routed, messy>>

\* Mutant: the cap is off by one.
QuotaOneMore(c) ==
    /\ call[c].pc = "quota"
    /\ UNCHANGED <<edge, routes>>
    /\ IF Cardinality(Registered) > MaxHostnames THEN End(c, "quota")
       ELSE At(c, "post") /\ UNCHANGED messy
    /\ UNCHANGED <<provider, routed>>

\* The listing and the cap on it.
Quota(c) ==
    /\ call[c].pc = "quota"
    /\ UNCHANGED <<edge, routes>>
    /\ IF Cardinality(Registered) >= MaxHostnames THEN End(c, "quota")
       ELSE At(c, "post") /\ UNCHANGED messy
    /\ UNCHANGED <<provider, routed>>

\* The registration.  Cloudflare refuses a domain it has.
Post(c) ==
    /\ call[c].pc = "post" /\ edge[call[c].d] = "absent"
    /\ edge' = [edge EXCEPT ![call[c].d] = "pending"]
    /\ routes' = routes
    /\ At(c, "ensure")
    /\ UNCHANGED <<provider, routed, messy>>

\* A 404 is handed back as an empty payload, and create takes it for a record.
PostNotFound(c) ==
    /\ call[c].pc = "post"
    /\ UNCHANGED <<edge, routes>>
    /\ Goto(c, [call[c] EXCEPT !.pc = "ensure", !.disturbed = TRUE])
    /\ messy' = messy \cup {call[c].d}
    /\ UNCHANGED <<provider, routed>>

PostRefused(c) ==
    /\ call[c].pc = "post" /\ edge[call[c].d] # "absent"
    /\ UNCHANGED <<edge, routes>>
    /\ Break(c, "error")
    /\ UNCHANGED <<provider, routed>>

\* StubProvider.create, in one critical section, without a cap.
StubCreate(c) ==
    /\ call[c].pc = "find" /\ call[c].op = "create" /\ provider = "stub"
    /\ edge' = [edge EXCEPT ![call[c].d] = IF @ = "absent" THEN "pending" ELSE @]
    /\ routes' = routes
    /\ At(c, "ensure")
    /\ UNCHANGED <<provider, routed, messy>>

\* Mutant: a route that is there already is an upstream error.
EnsureOnce(c) ==
    LET route == Route(call[c].d, call[c].p)
    IN  /\ call[c].pc = "ensure"
        /\ edge' = edge
        /\ \/ ~routed /\ routes' = routes /\ End(c, "ok")
           \/ routed /\ route \notin routes /\ routes' = routes \cup {route} /\ End(c, "ok")
           \/ routed /\ route \in routes /\ routes' = routes /\ Break(c, "error")
        /\ UNCHANGED <<provider, routed>>

\* IngressRouter.ensure: POST, and on a 409 GET and PUT of what is there.
Ensure(c) ==
    LET route == Route(call[c].d, call[c].p)
    IN  /\ call[c].pc = "ensure"
        /\ edge' = edge
        /\ \/ ~routed /\ routes' = routes /\ End(c, "ok")
           \/ routed /\ route \notin routes /\ routes' = routes \cup {route} /\ End(c, "ok")
           \/ routed /\ route \in routes /\ routes' = routes /\ At(c, "read") /\ UNCHANGED messy
        /\ UNCHANGED <<provider, routed>>

Read(c) ==
    /\ call[c].pc = "read"
    /\ UNCHANGED <<edge, routes>>
    /\ IF exists(call[c].d, call[c].p)
       THEN Goto(c, [call[c] EXCEPT !.pc = "put", !.held = TRUE]) /\ UNCHANGED messy
       ELSE Break(c, "error")
    /\ UNCHANGED <<provider, routed>>

\* The API server takes the PUT only with the current resourceVersion, and
\* gives the object another one.
Put(c) ==
    /\ call[c].pc = "put"
    /\ UNCHANGED <<edge, routes>>
    /\ \/ /\ call[c].held
          /\ call' = [x \in Calls |->
                IF x = c THEN [Idle EXCEPT !.ans = "ok"]
                ELSE [call[x] EXCEPT !.held =
                        @ /\ ~(call[x].pc = "put" /\ call[x].d = call[c].d /\ call[x].p = call[c].p)]]
          /\ messy' = IF Tidy(c) THEN messy \ {call[c].d} ELSE messy
       \/ ~call[c].held /\ Break(c, "error")
    /\ UNCHANGED <<provider, routed>>

------------------------------------------------------------------------------
(* get                                                                     *)

\* _to_record: what a record says of a registration.
toRecord(d) == edge[d]

GetFind(c) ==
    /\ call[c].pc = "find" /\ call[c].op = "get"
    /\ UNCHANGED <<edge, routes>>
    /\ IF edge[call[c].d] = "absent" THEN End(c, "missing")
       ELSE Goto(c, [call[c] EXCEPT !.pc = "exists", !.seen = toRecord(call[c].d)]) /\ UNCHANGED messy
    /\ UNCHANGED <<provider, routed>>

\* _compose: active only when the record says so and the route is there.
compose(c, ingress_ready) ==
    IF call[c].seen = "active" /\ (ingress_ready \/ ~routed) THEN "active" ELSE "ok"

GetExists(c) ==
    /\ call[c].pc = "exists"
    /\ UNCHANGED <<edge, routes>>
    /\ \E there \in {FALSE, exists(call[c].d, call[c].p)} : End(c, compose(c, there))
    /\ UNCHANGED <<provider, routed>>

------------------------------------------------------------------------------
(* delete                                                                  *)

\* IngressRouter.remove; a 404 is as good as a 200.
Remove(c) ==
    /\ call[c].pc = "remove"
    /\ edge' = edge
    /\ routes' = routes \ {Route(call[c].d, call[c].p)}
    /\ At(c, "lookup")
    /\ UNCHANGED <<provider, routed, messy>>

\* The hostname id to delete.  The stub looks up and deletes in one step.
Lookup(c) ==
    /\ call[c].pc = "lookup"
    /\ routes' = routes
    /\ IF edge[call[c].d] = "absent" \/ provider = "stub"
       THEN edge' = [edge EXCEPT ![call[c].d] = "absent"] /\ End(c, "ok")
       ELSE /\ edge' = edge
            /\ Goto(c, [call[c] EXCEPT !.pc = "delete", !.held = TRUE])
            /\ UNCHANGED messy
    /\ UNCHANGED <<provider, routed>>

\* The id may be gone meanwhile, which is fine, and the domain registered anew.
Delete(c) ==
    /\ call[c].pc = "delete"
    /\ routes' = routes
    /\ edge' = IF call[c].held THEN [edge EXCEPT ![call[c].d] = "absent"] ELSE edge
    /\ End(c, "ok")
    /\ UNCHANGED <<provider, routed>>

------------------------------------------------------------------------------
(* Failures and the outside                                                *)

\* A call to Cloudflare or Kubernetes fails, having done nothing or all of it.
Fail(c) ==
    LET d == call[c].d
        p == call[c].p
    IN  /\ Active(c)
        /\ routes' \in {routes, CASE call[c].pc = "ensure" /\ routed -> routes \cup {<<d, p>>}
                                  [] call[c].pc = "remove" -> routes \ {<<d, p>>}
                                  [] OTHER -> routes}
        /\ edge' \in {edge, CASE call[c].pc = "post" -> [edge EXCEPT ![d] = IF @ = "absent" THEN "pending" ELSE @]
                              [] call[c].pc = "delete" /\ call[c].held -> [edge EXCEPT ![d] = "absent"]
                              [] OTHER -> edge}
        /\ Break(c, "failed")
        /\ UNCHANGED <<provider, routed>>

\* The stub's timer: a registration becomes active some time after it was made.
StubProgress(d) ==
    /\ provider = "stub" /\ edge[d] = "pending"
    /\ edge' = [edge EXCEPT ![d] = "active"]
    /\ UNCHANGED <<provider, routed, routes, call, messy>>

\* Validation and issuance at the edge go on, or back (moved, blocked, expired).
Progress(d) ==
    /\ provider = "cloudflare" /\ edge[d] # "absent"
    /\ edge' = [edge EXCEPT ![d] = IF @ = "active" THEN "pending" ELSE "active"]
    /\ UNCHANGED <<provider, routed, routes, call, messy>>

Next ==
    \/ \E c \in Calls :
         \/ Request(c) \/ Owner(c) \/ Fail(c)
         \/ Find(c) \/ Quota(c) \/ Post(c) \/ PostNotFound(c) \/ PostRefused(c) \/ StubCreate(c)
         \/ Ensure(c) \/ Read(c) \/ Put(c)
         \/ GetFind(c) \/ GetExists(c)
         \/ Remove(c) \/ Lookup(c) \/ Delete(c)
    \/ \E d \in Domains : Progress(d) \/ StubProgress(d)

Spec == Init /\ [][Next]_vars

------------------------------------------------------------------------------
(* Properties                                                              *)

Quiet(d) == \A c \in Calls : Active(c) => call[c].d # d

\* "Guard against one consumer hijacking a domain another already owns"
\* (HostnameService.create), and the same in get and delete: a request gets past
\* the owner check only if the domain has not been another's all along, or the API
\* server's answer about a route was no answer.
RivalsKeepOut ==
    \A c \in Calls : routed /\ call[c].pc \notin {"idle", "owner"} =>
        call[c].rivals = {} \/ call[c].misread

\* The two halves agree on every domain at rest: it has a route if and only if
\* it is registered.  Only requests that overlap and calls that fail can leave
\* them apart, and "POST is idempotent so the consumer just retries" (create): an
\* undisturbed create puts them together again, unless two profiles have routes.
HalvesAgree ==
    routed => \A d \in Domains \ messy :
        Quiet(d) => (d \in Registered <=> \E p \in Profile : exists(d, p))

\* Whatever earlier requests have left behind, a request that nothing disturbs is
\* not refused by Cloudflare or Kubernetes.
UndisturbedSucceed ==
    [][\A c \in Calls : Active(c) /\ call'[c].ans = "error" => call[c].disturbed]_vars

\* The listing and the registration are not atomic, and that is all that can take
\* the account past the cap: a registration beyond it, also one whose answer is
\* lost, is of a request during whose wait another one took the last place.
CapUnlessCrowded ==
    [][\A c \in Calls :
         (/\ provider = "cloudflare" /\ MaxHostnames > 0
          /\ call[c].pc = "post" /\ call'[c].pc # "post"
          /\ Cardinality(Registered') > MaxHostnames
          /\ Cardinality(Registered') > Cardinality(Registered)) => call[c].crowded]_vars
=============================================================================

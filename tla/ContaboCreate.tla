---------------------------- MODULE ContaboCreate ----------------------------
(***************************************************************************)
(* The Contabo client's Create and Delete: cluster-autoscaler/             *)
(* contabo-externalgrpc/internal/contabo/client.go.  Creates run at the    *)
(* same time (detached goroutines) and share the cached token and the tag  *)
(* cache.  Every HTTP call is a step: Contabo is eventually consistent, so *)
(* that the GET, the tag and the network subsystems learn of an instance,  *)
(* and the tag listing of a tag, some time after the call that made it.    *)
(***************************************************************************)
EXTENDS Integers, FiniteSets

CONSTANTS
    Names,      \* display names, one create for each
    Attempts,   \* stands for instancePoll-, tagAssignRetry- and cancelRetryAttempts
    Private,    \* CreateReq.PrivateNetworking with a network id
    MaxFaults,  \* bound on failed calls, lost answers and revoked tokens
    MaxExpired  \* bound on the creates whose context runs out

VARIABLES
    cloud,     \* Contabo: name -> order status, tagged, attached, cancelled
    tagState,  \* the elastic tag: "none", "made", "listed" by GET /v1/tags
    tok,       \* the client's cached token: "none", "good", "revoked"
    tagCache,  \* the client's tagCache entry: "none", "id", "zero"
    call,      \* the local variables of each Create
    faults, expiries

vars == <<cloud, tagState, tok, tagCache, call, faults, expiries>>

Outcomes == {"ok", "failed"}

IdleCall == [pc |-> "idle", tok |-> "none", tries |-> 0, tag |-> "none",
             expired |-> FALSE, hit |-> FALSE]

Init ==
    /\ cloud = [n \in Names |-> [st |-> "none", tagged |-> FALSE,
                                 attached |-> FALSE, cancelled |-> FALSE]]
    /\ tagState = "none" /\ tok = "none" /\ tagCache = "none"
    /\ call = [n \in Names |-> IdleCall]
    /\ faults = MaxFaults /\ expiries = MaxExpired

At(n, pc) == call[n].pc = pc

\* How a call of create n goes: Contabo answers it, or something goes wrong on
\* the way (a 5xx, a broken connection, a timeout), so that Contabo may have
\* acted on it.  With an expired context the call is not even sent.
Answered(n) == ~call[n].expired /\ UNCHANGED faults
Lost(n) == ~call[n].expired /\ faults > 0 /\ faults' = faults - 1
Fails(n) == Lost(n) \/ (call[n].expired /\ UNCHANGED faults)

GoTo(n, pc) == [call EXCEPT ![n] = [call[n] EXCEPT !.pc = pc, !.tries = 0]]
HitAt(n, pc) == [call EXCEPT ![n] = [call[n] EXCEPT !.pc = pc, !.tries = 0, !.hit = TRUE]]

\* A failed attempt of a bounded loop: once more, or on to "then".  The sleep
\* before another attempt ends at once when the context has expired.
Retry(n, hit, then) ==
    [call EXCEPT ![n] =
        IF call[n].tries + 1 < Attempts /\ ~call[n].expired
        THEN [call[n] EXCEPT !.tries = @ + 1, !.hit = @ \/ hit]
        ELSE [call[n] EXCEPT !.tries = 0, !.hit = @ \/ hit, !.pc = then]]

------------------------------------------------------------------------------
(* Create: the token and the order                                         *)

Create(n) ==
    /\ At(n, "idle")
    /\ call' = GoTo(n, "token")
    /\ UNCHANGED <<cloud, tagState, tok, tagCache, faults, expiries>>

\* token(): the cached one, or a new one.
token(n) ==
    /\ call[n].pc \in {"token", "retoken"}
    /\ \/ /\ tok # "none"
          /\ UNCHANGED <<tok, faults>>
          /\ call' = [call EXCEPT ![n] = [call[n] EXCEPT !.tok = tok,
                        !.pc = IF @ = "token" THEN "post" ELSE "repost"]]
       \/ /\ tok = "none" /\ Answered(n)
          /\ tok' = "good"
          /\ call' = [call EXCEPT ![n] = [call[n] EXCEPT !.tok = "good",
                        !.pc = IF @ = "token" THEN "post" ELSE "repost"]]
       \/ /\ tok = "none" /\ Fails(n)
          /\ call' = HitAt(n, "failed")
          /\ UNCHANGED tok
    /\ UNCHANGED <<cloud, tagState, tagCache, expiries>>

invalidateToken(n) ==
    /\ At(n, "invalidate")
    /\ tok' = "none"
    /\ call' = GoTo(n, "retoken")
    /\ UNCHANGED <<cloud, tagState, tagCache, faults, expiries>>

\* POST /v1/compute/instances, the second time after a 401.
Post(n) ==
    /\ call[n].pc \in {"post", "repost"}
    /\ \/ /\ Answered(n) /\ call[n].tok = "good"
          /\ \/ cloud' = [cloud EXCEPT ![n].st = "hidden"] /\ call' = GoTo(n, "poll")
             \/ cloud' = cloud /\ call' = GoTo(n, "failed")   \* refused
       \/ /\ Answered(n) /\ call[n].tok # "good"
          /\ call' = GoTo(n, IF At(n, "post") THEN "invalidate" ELSE "failed")
          /\ UNCHANGED cloud
       \/ Fails(n) /\ call' = HitAt(n, "failed") /\ UNCHANGED cloud
       \/ /\ Lost(n) /\ call[n].tok = "good"   \* accepted, the answer is lost
          /\ cloud' = [cloud EXCEPT ![n].st = "hidden"] /\ call' = HitAt(n, "failed")
    /\ UNCHANGED <<tagState, tok, tagCache, expiries>>

------------------------------------------------------------------------------
(* waitForInstanceVisible                                                  *)

\* Mutant: the tags follow the order at once.
PollNever(n) ==
    /\ At(n, "poll")
    /\ call' = GoTo(n, "resolve")
    /\ UNCHANGED <<cloud, tagState, tok, tagCache, faults, expiries>>

\* One GET.  Any error, a 401 too, is one more attempt used.
Poll(n) ==
    /\ At(n, "poll")
    /\ \/ /\ Answered(n)
          /\ call' = IF cloud[n].st = "shown" /\ call[n].tok = "good"
                     THEN GoTo(n, "resolve") ELSE Retry(n, call[n].tok # "good", "rollback")
       \/ Fails(n) /\ call' = Retry(n, TRUE, "rollback")
    /\ UNCHANGED <<cloud, tagState, tok, tagCache, expiries>>

------------------------------------------------------------------------------
(* applyTags: resolveTagID and assignTagWithRetry                          *)

resolveTagID(n) ==
    /\ At(n, "resolve")
    /\ call' = IF tagCache = "none" THEN GoTo(n, "lookup")
               ELSE [call EXCEPT ![n] = [call[n] EXCEPT !.pc = "assign", !.tag = tagCache]]
    /\ UNCHANGED <<cloud, tagState, tok, tagCache, faults, expiries>>

\* The id found is memoized.
Resolved(n, id) ==
    /\ tagCache' = id
    /\ call' = [call EXCEPT ![n] = [call[n] EXCEPT !.pc = "assign", !.tag = id]]

\* GET /v1/tags: when it follows a 409, an empty answer is the id 0.
lookupTagID(n) ==
    /\ call[n].pc \in {"lookup", "relookup"}
    /\ \/ /\ Answered(n) /\ call[n].tok = "good"
          /\ \/ tagState = "listed" /\ Resolved(n, "id")
             \/ tagState # "listed" /\ At(n, "relookup") /\ Resolved(n, "zero")
             \/ tagState # "listed" /\ At(n, "lookup") /\ call' = GoTo(n, "createTag")
                                    /\ UNCHANGED tagCache
       \/ Answered(n) /\ call[n].tok # "good" /\ call' = HitAt(n, "rollback") /\ UNCHANGED tagCache
       \/ Fails(n) /\ call' = HitAt(n, "rollback") /\ UNCHANGED tagCache
    /\ UNCHANGED <<cloud, tagState, tok, expiries>>

\* POST /v1/tags; 409 when another caller has made it.
createTag(n) ==
    /\ At(n, "createTag")
    /\ \/ /\ Answered(n) /\ call[n].tok = "good"
          /\ \/ tagState = "none" /\ tagState' = "made" /\ Resolved(n, "id")
             \/ tagState # "none" /\ call' = GoTo(n, "relookup") /\ UNCHANGED <<tagState, tagCache>>
       \/ /\ Answered(n) /\ call[n].tok # "good"
          /\ call' = HitAt(n, "rollback") /\ UNCHANGED <<tagState, tagCache>>
       \/ Fails(n) /\ call' = HitAt(n, "rollback") /\ UNCHANGED <<tagState, tagCache>>
       \/ /\ Lost(n) /\ call[n].tok = "good" /\ tagState = "none"
          /\ tagState' = "made" /\ call' = HitAt(n, "rollback") /\ UNCHANGED tagCache
    /\ UNCHANGED <<cloud, tok, expiries>>

\* The steps of Create once the tags are on: the network, if asked for.
AfterTags == IF Private THEN "attach" ELSE "ok"

\* One bounded attempt to have Contabo set a flag of the instance.  404 and 5xx
\* are retried (the subsystem may lag behind the GET); a 401 and a broken
\* connection are not.
Assign(n, known, done, then) ==
    \/ /\ Answered(n) /\ call[n].tok = "good" /\ known
       /\ cloud' = done /\ call' = GoTo(n, then)
    \/ /\ Answered(n) /\ call[n].tok = "good" /\ ~known
       /\ cloud' = cloud /\ call' = Retry(n, FALSE, "rollback")
    \/ /\ Answered(n) /\ call[n].tok # "good"
       /\ cloud' = cloud /\ call' = HitAt(n, "rollback")
    \/ Lost(n) /\ cloud' = cloud /\ call' = Retry(n, TRUE, "rollback")
    \/ Fails(n) /\ cloud' = cloud /\ call' = HitAt(n, "rollback")
    \/ /\ Lost(n) /\ call[n].tok = "good" /\ known
       /\ cloud' = done /\ call' = HitAt(n, "rollback")

\* Mutant: running out of attempts is not an error.
assignTagOptional(n) ==
    /\ At(n, "assign")
    /\ \/ Assign(n, call[n].tag = "id", [cloud EXCEPT ![n].tagged = TRUE], AfterTags)
       \/ Lost(n) /\ call[n].tries + 1 = Attempts
          /\ call' = HitAt(n, AfterTags) /\ UNCHANGED cloud
    /\ UNCHANGED <<tagState, tok, tagCache, expiries>>

\* Mutant: the attempts are not counted.
assignTagForEver(n) ==
    /\ At(n, "assign")
    /\ Answered(n) /\ call[n].tok = "good" /\ call[n].tag = "id"
    /\ cloud' = [cloud EXCEPT ![n].tagged = TRUE] /\ call' = GoTo(n, AfterTags)
    /\ UNCHANGED <<tagState, tok, tagCache, expiries>>

assignTagWithRetry(n) ==
    /\ At(n, "assign")
    /\ Assign(n, call[n].tag = "id", [cloud EXCEPT ![n].tagged = TRUE], AfterTags)
    /\ UNCHANGED <<tagState, tok, tagCache, expiries>>

assignPrivateNetworkWithRetry(n) ==
    /\ At(n, "attach")
    /\ Assign(n, TRUE, [cloud EXCEPT ![n].attached = TRUE], "ok")
    /\ UNCHANGED <<tagState, tok, tagCache, expiries>>

------------------------------------------------------------------------------
(* Delete, as the rollback calls it: cancelOnce, again on 404 and 5xx      *)

\* Mutant: a failed create is returned as it is, without a rollback.
DeleteForgotten(n) ==
    /\ At(n, "rollback")
    /\ call' = GoTo(n, "failed")
    /\ UNCHANGED <<cloud, tagState, tok, tagCache, faults, expiries>>

\* A revoked token is replaced on the way (cancelOnce's own 401 retry).
Delete(n) ==
    /\ At(n, "rollback")
    /\ \/ /\ Answered(n)
          /\ tok' = "good"
          /\ \/ /\ cloud' = [cloud EXCEPT ![n].cancelled = TRUE]
                /\ call' = GoTo(n, "failed")
             \/ /\ cloud[n].st = "hidden"   \* 404
                /\ cloud' = cloud /\ call' = Retry(n, FALSE, "failed")
       \/ Lost(n) /\ UNCHANGED <<tok, cloud>> /\ call' = Retry(n, TRUE, "failed")
       \/ Fails(n) /\ UNCHANGED <<tok, cloud>> /\ call' = HitAt(n, "failed")
       \/ /\ Lost(n) /\ tok' = "good"
          /\ cloud' = [cloud EXCEPT ![n].cancelled = TRUE] /\ call' = HitAt(n, "failed")
    /\ UNCHANGED <<tagState, tagCache, expiries>>

------------------------------------------------------------------------------
(* Contabo and the clock                                                   *)

Show(n) ==
    /\ cloud[n].st = "hidden"
    /\ cloud' = [cloud EXCEPT ![n].st = "shown"]
    /\ UNCHANGED <<tagState, tok, tagCache, call, faults, expiries>>

ShowTag ==
    /\ tagState = "made"
    /\ tagState' = "listed"
    /\ UNCHANGED <<cloud, tok, tagCache, call, faults, expiries>>

\* Contabo stops accepting every token it has given out.
Revoke ==
    /\ faults > 0 /\ faults' = faults - 1
    /\ tok' = IF tok = "none" THEN "none" ELSE "revoked"
    /\ call' = [n \in Names |-> [call[n] EXCEPT !.tok = IF @ = "none" THEN "none" ELSE "revoked"]]
    /\ UNCHANGED <<cloud, tagState, tagCache, expiries>>

\* The cached token reaches its tokExpiry; calls under way go on with theirs.
Lapse ==
    /\ tok # "none" /\ tok' = "none"
    /\ UNCHANGED <<cloud, tagState, tagCache, call, faults, expiries>>

\* The deadline of the create's context passes.
Expire(n) ==
    /\ expiries > 0 /\ expiries' = expiries - 1
    /\ call[n].pc \notin Outcomes \cup {"idle"} /\ ~call[n].expired
    /\ call' = [call EXCEPT ![n].expired = TRUE]
    /\ UNCHANGED <<cloud, tagState, tok, tagCache, faults>>

CreateStep(n) ==
    \/ token(n) \/ invalidateToken(n) \/ Post(n) \/ Poll(n)
    \/ resolveTagID(n) \/ lookupTagID(n) \/ createTag(n)
    \/ assignTagWithRetry(n) \/ assignPrivateNetworkWithRetry(n) \/ Delete(n)

Done == \A n \in Names : call[n].pc \in Outcomes /\ cloud[n].st # "hidden"

Next ==
    \/ \E n \in Names : Create(n) \/ CreateStep(n) \/ Show(n) \/ Expire(n)
    \/ ShowTag \/ Revoke \/ Lapse
    \/ Done /\ UNCHANGED vars

Spec == Init /\ [][Next]_vars

\* A create that runs goes on: each call is bounded by the client's timeout.
FairSpec == Spec /\ \A n \in Names : WF_vars(CreateStep(n))

------------------------------------------------------------------------------
(* Properties                                                              *)

\* A create that ends well leaves a machine that listings show, that carries
\* the elastic tag, is attached to the private network when there is one, and
\* was not rolled back, whatever other creates do to the shared token and tag
\* cache meanwhile.
OkIsComplete ==
    \A n \in Names : At(n, "ok") =>
        /\ cloud[n].st = "shown" /\ cloud[n].tagged /\ ~cloud[n].cancelled
        /\ Private => cloud[n].attached

\* Create and Delete implement the contract the provider is built on.
Contract == INSTANCE CreateContract WITH
    order <- [n \in Names |-> cloud[n].st],
    cancelled <- {n \in Names : cloud[n].cancelled},
    broken <- {n \in Names : call[n].expired \/ call[n].hit},
    result <- [n \in Names |-> IF call[n].pc \in Outcomes \cup {"idle"}
                               THEN call[n].pc ELSE "running"]
ImplementsContract == Contract!Spec

\* Every create comes back, so that its reservation is released.
CreatesEnd == \A n \in Names : (call[n].pc # "idle") ~> (call[n].pc \in Outcomes)

\* "the instance must end up either tagged, or gone" (Create).
TaggedOrGone ==
    \A n \in Names : call[n].pc \in Outcomes /\ cloud[n].st # "none" =>
        cloud[n].tagged \/ cloud[n].cancelled
=============================================================================

----------------------------- MODULE MCServices -----------------------------
(***************************************************************************)
(* The parts that serve requests, for TLC: the Contabo client's create,    *)
(* NodeGroupDeleteNodes, the calendar by which the reaper releases, the    *)
(* relay between cloud sessions and the sessions themselves.  They share   *)
(* nothing, so a behaviour is of the one that mode names, and the others   *)
(* stay as they begin; a property of a part that does not run holds by     *)
(* that.                                                                   *)
(***************************************************************************)
EXTENDS Integers, FiniteSets, Sequences

CONSTANTS
    Names, Attempts, Private, MaxFaults, MaxExpired,         \* ContaboCreate
    Foreign, Dels, CancelForms,                              \* DeleteNodes
    Sessions, Frames, MaxConns, MaxDrops,                    \* A2ARelay
    Asks, Notes, MaxBreaks,                                  \* AgentSessions
    RenewalDays, Windows, TicksPerDay, Years,                \* RenewalCalendar
    sa, sb, c1, c2

ASSUME CreateAssumption ==
    /\ Attempts \in Nat \ {0} /\ Private \in BOOLEAN
    /\ MaxFaults \in Nat /\ MaxExpired \in Nat
ASSUME DeleteAssumption == Foreign \notin Names /\ CancelForms \subseteq {"parsed", "raw"}
ASSUME RelayAssumption ==
    /\ {sa, sb} \subseteq Sessions
    /\ MaxConns \in Nat /\ MaxDrops \in Nat
\* The calls are of one kind each, and "shared" is the one session that is no call's own.
ASSUME SessionsAssumption ==
    /\ c1 # c2 /\ MaxBreaks \in Nat
    /\ Asks \cap Notes = {} /\ {c1, c2} \cap (Asks \cup Notes) = {}
    /\ "shared" \notin {c1, c2} \cup Asks \cup Notes
ASSUME CalendarAssumption ==
    /\ RenewalDays \subseteq 1..31 /\ Windows \subseteq Nat \ {0}
    /\ TicksPerDay \in Nat \ {0} /\ Years \in Nat \ {0}

\* Frames from one session to the other, and a chain of two steps.
From == [f \in Frames |-> sa]
To == [f \in Frames |-> sb]
Chain == <<c1, c2>>

VARIABLES
    mode,
    cloud, tagState, tok, tagCache, call, faults, expiries,
    inst, del,
    peers, conns, bridges, posts, inbox, errors, dialled, drops,
    calls, agents, breaks, ran, granted, excuses,
    now, renewalDay, releaseWindow

createVars == <<cloud, tagState, tok, tagCache, call, faults, expiries>>
deleteVars == <<inst, del>>
relayVars == <<peers, conns, bridges, posts, inbox, errors, dialled, drops>>
sessionVars == <<calls, agents, breaks, ran, granted, excuses>>
calendarVars == <<now, renewalDay, releaseWindow>>
vars == <<mode, createVars, deleteVars, relayVars, sessionVars, calendarVars>>

Create == INSTANCE ContaboCreate
Remove == INSTANCE DeleteNodes
Relay == INSTANCE A2ARelay
Turns == INSTANCE AgentSessions
Calendar == INSTANCE RenewalCalendar

Modes == {"create", "delete", "relay", "sessions", "calendar"}

\* A part that does not run begins in one way.
First(x, S) == x = CHOOSE s \in S : TRUE

Init ==
    /\ mode \in Modes
    /\ Create!Init /\ Remove!Init /\ Relay!Init
    /\ Turns!Init /\ (mode # "sessions" => \A c \in Asks : calls[c].pc = "done")
    /\ Calendar!Init /\ (mode # "calendar" => First(renewalDay, RenewalDays) /\ First(releaseWindow, Windows))

\* The step is one of m, and leaves the other parts alone.
Only(m) ==
    /\ mode = m /\ UNCHANGED mode
    /\ IF m = "create" THEN TRUE ELSE UNCHANGED createVars
    /\ IF m = "delete" THEN TRUE ELSE UNCHANGED deleteVars
    /\ IF m = "relay" THEN TRUE ELSE UNCHANGED relayVars
    /\ IF m = "sessions" THEN TRUE ELSE UNCHANGED sessionVars
    /\ IF m = "calendar" THEN TRUE ELSE UNCHANGED calendarVars

Next ==
    \/ Only("create") /\ Create!Next
    \/ Only("delete") /\ Remove!Next
    \/ Only("relay") /\ Relay!Next
    \/ Only("sessions") /\ Turns!Next
    \/ Only("calendar") /\ Calendar!Next

\* The fairness each part's own specification states, for the part that runs.
Fairness ==
    /\ \A n \in Names : WF_createVars(mode = "create" /\ Create!CreateStep(n))
    /\ \A d \in Dels : WF_deleteVars(mode = "delete" /\ Remove!RequestStep(d))
    /\ \A s \in Sessions : WF_relayVars(mode = "relay" /\ Relay!Steps(s))
    /\ \A c \in Asks \cup {c1, c2} : WF_sessionVars(mode = "sessions" /\ Turns!Driving(c))
    /\ \A c \in Asks : WF_sessionVars(mode = "sessions" /\ Turns!approve(c))
    /\ \A s \in {"shared", c1, c2} : WF_sessionVars(mode = "sessions" /\ Turns!Serving(s))

Spec == Init /\ [][Next]_vars /\ Fairness

------------------------------------------------------------------------------
(* Properties                                                              *)

\* Create and Delete of the Contabo client implement what the provider relies on
\* (CreateContract), and a create that ends well left a machine that is listed, tagged,
\* attached and not rolled back, whatever other creates do to the shared token and tag.
CreatesKeepTheirContract == Create!ImplementsContract /\ []Create!OkIsComplete

\* NodeGroupDeleteNodes cancels nothing for a request with a foreign node, no instance
\* that has been running since the request arrived, and none a second time.
DeletesAreGuarded == Remove!RejectedWhole /\ Remove!RunningKept /\ Remove!CancelledOnce

\* The relay keeps a live session reachable when the handler of its older connection
\* ends late, starts one turn per message in the session it is for, and loses no
\* accepted message but with a connection or an inbox write that failed.
MessagesAreRouted == Relay!OpenIsRegistered /\ Relay!DeliveredOnce /\ Relay!LossNeedsDrop

\* ask_agent returns the answer to the question it asked, a tool runs only after somebody
\* allowed it, and the chain archives a session that has come to rest, whatever streams
\* open late, end early or are shared, but where that is the excuse.
TurnsAreTheCallers == Turns!OwnAnswer /\ Turns!OnlyGrantedRuns /\ Turns!ArchivedAtRest

\* decideByRenewal sees every renewal coming, on time and not too early.
RenewalsAreSeen ==
    /\ []Calendar!NextRenewalIsFirst /\ []Calendar!ReleasedOnlyNear /\ Calendar!NoRenewalMissed

\* What is called comes back: creates, deletes and turns of agents, whatever
\* fails in them.
CallsComeBack ==
    /\ Create!CreatesEnd /\ Remove!RequestsAnswered /\ Turns!CallsReturn

\* Once connections hold, each session is registered with the connection its bridge
\* uses, and no message is on its way for ever.
RelaySettles == mode = "relay" => Relay!Reachable /\ Relay!Settled
=============================================================================

----------------------------- MODULE A2ARelay -----------------------------
(***************************************************************************)
(* Messages between cloud sessions: the relay (a2a_relay/relay.py) and the *)
(* bridges of the sessions (a2a-bridge/wss_bridge.py).  A bridge keeps one *)
(* outbound WebSocket to the relay, and an HTTP thread takes messages for  *)
(* it; the relay routes frames by session.  A connection that is lost is   *)
(* noticed by each side in its own time, and the bridge dials again.       *)
(*                                                                         *)
(* Texts, tokens and health probes are left out.  A frame is a model       *)
(* value; an error frame is the pair of "error" and the frame it is about. *)
(***************************************************************************)
EXTENDS Integers, Sequences, SequencesExt

CONSTANTS
    Sessions, Frames,
    From, To,         \* frame -> session
    MaxConns,         \* bound: connections that are ever dialled
    MaxDrops          \* bound: connections that are lost and inbox writes that fail

VARIABLES
    peers,      \* PEERS of the relay: session -> connection, 0 for none
    conns,      \* connection -> its two ends and what is on its way
    bridges,    \* session -> the bridge's connection, queue and sender task
    posts,      \* frame -> how far its do_POST is
    inbox,      \* session -> frames written to its messaging socket
    errors,     \* frames whose sender was told of an error
    dialled, drops

relayVars == <<peers, conns, bridges, posts, inbox, errors, dialled, drops>>

Conns == 1..MaxConns

\* srv: open, closing (replaced by a newer connection, or lost), ended; up and down:
\* frames that were sent and not yet read.
NoConn == [owner |-> "none", cli |-> "closed", srv |-> "ended", up |-> <<>>, down |-> <<>>]

\* connected is the flag the HTTP threads read; held: taken from the queue, not sent.
NoBridge == [conn |-> 0, connected |-> FALSE, out |-> <<>>, held |-> <<>>]

Init ==
    /\ peers = [s \in Sessions |-> 0]
    /\ conns = [c \in Conns |-> NoConn]
    /\ bridges = [s \in Sessions |-> NoBridge]
    /\ posts = [f \in Frames |-> "new"]
    /\ inbox = [s \in Sessions |-> <<>>]
    /\ errors = {} /\ dialled = 0 /\ drops = 0

------------------------------------------------------------------------------
(* The bridge of a session                                                 *)

\* do_POST: the flag is read, and after that the frame is queued for the loop.
PostChecked(f) ==
    /\ posts[f] = "new"
    /\ posts' = [posts EXCEPT ![f] = IF bridges[From[f]].connected THEN "checked" ELSE "refused"]
    /\ UNCHANGED <<peers, conns, bridges, inbox, errors, dialled, drops>>

PostQueued(f) ==
    /\ posts[f] = "checked"
    /\ posts' = [posts EXCEPT ![f] = "accepted"]
    /\ bridges' = [bridges EXCEPT ![From[f]].out = Append(@, f)]
    /\ UNCHANGED <<peers, conns, inbox, errors, dialled, drops>>

\* Mutant: the last frame stays in the queue.
SenderTakesAllButOne(s) ==
    /\ bridges[s].connected /\ Len(bridges[s].out) > 1 /\ bridges[s].held = <<>>
    /\ bridges' = [bridges EXCEPT ![s].held = <<Head(bridges[s].out)>>, ![s].out = Tail(@)]
    /\ UNCHANGED <<peers, conns, posts, inbox, errors, dialled, drops>>

\* The sender task takes a frame, and sends it; a lost connection ends the task.
SenderTakes(s) ==
    /\ bridges[s].connected /\ bridges[s].out # <<>> /\ bridges[s].held = <<>>
    /\ bridges' = [bridges EXCEPT ![s].held = <<Head(bridges[s].out)>>, ![s].out = Tail(@)]
    /\ UNCHANGED <<peers, conns, posts, inbox, errors, dialled, drops>>

\* Mutant: the frame goes back to the queue although it was sent.
SenderSendsAgain(s) ==
    /\ bridges[s].connected /\ bridges[s].held # <<>> /\ conns[bridges[s].conn].cli = "up"
    /\ conns' = [conns EXCEPT ![bridges[s].conn].up = @ \o bridges[s].held]
    /\ bridges' = [bridges EXCEPT ![s].held = <<>>, ![s].out = IF drops > 0 THEN @ ELSE bridges[s].held \o @]
    /\ UNCHANGED <<peers, posts, inbox, errors, dialled, drops>>

SenderSends(s) ==
    /\ bridges[s].connected /\ bridges[s].held # <<>> /\ conns[bridges[s].conn].cli = "up"
    /\ conns' = [conns EXCEPT ![bridges[s].conn].up = @ \o bridges[s].held]
    /\ bridges' = [bridges EXCEPT ![s].held = <<>>]
    /\ UNCHANGED <<peers, posts, inbox, errors, dialled, drops>>

\* The reading loop: a frame is written to the session's inbox, which may fail.
Receive(s) ==
    /\ bridges[s].connected
    /\ LET c == bridges[s].conn IN
         /\ conns[c].cli = "up" /\ conns[c].down # <<>>
         /\ conns' = [conns EXCEPT ![c].down = Tail(@)]
         /\ IF Head(conns[c].down)[1] = "error"
            THEN errors' = errors \cup {Head(conns[c].down)[2]} /\ UNCHANGED inbox
            ELSE UNCHANGED errors /\ \/ inbox' = [inbox EXCEPT ![s] = Append(@, Head(conns[c].down)[2])]
                                     \/ UNCHANGED inbox
         /\ drops' = IF errors' = errors /\ inbox' = inbox THEN drops + 1 ELSE drops
         /\ drops' <= MaxDrops
    /\ UNCHANGED <<peers, bridges, posts, dialled>>

\* The connection is found to be gone: what the sender held is gone with its task.
BridgeLoses(s) ==
    /\ bridges[s].connected /\ conns[bridges[s].conn].cli = "lost"
    /\ bridges' = [bridges EXCEPT ![s].connected = FALSE, ![s].held = <<>>, ![s].conn = 0]
    /\ UNCHANGED <<peers, conns, posts, inbox, errors, dialled, drops>>

------------------------------------------------------------------------------
(* The relay                                                               *)

\* A bridge dials; the handler registers the connection and closes the one before it.
Connect(s) ==
    /\ ~bridges[s].connected /\ dialled < MaxConns
    /\ dialled' = dialled + 1
    /\ LET c == dialled + 1 IN
         /\ conns' = [k \in Conns |->
                        IF k = c THEN [NoConn EXCEPT !.owner = s, !.cli = "up", !.srv = "open"]
                        ELSE IF k = peers[s] THEN [conns[k] EXCEPT !.srv = "closing"] ELSE conns[k]]
         /\ peers' = [peers EXCEPT ![s] = c]
         /\ bridges' = [bridges EXCEPT ![s].conn = c, ![s].connected = TRUE]
    /\ UNCHANGED <<posts, inbox, errors, drops>>

\* Appends a message to what goes down a connection, if there is one.
Send(cs, c, m) == IF c = 0 THEN cs ELSE [cs EXCEPT ![c].down = Append(@, m)]

\* Mutant: a frame for a peer that is not there is dropped.
RouteQuietly(c) ==
    /\ conns[c].srv \in {"open", "closing"} /\ conns[c].up # <<>>
    /\ LET f == Head(conns[c].up)
       IN  conns' = Send([conns EXCEPT ![c].up = Tail(@)], peers[To[f]], <<"frame", f>>)
    /\ UNCHANGED <<peers, bridges, posts, inbox, errors, dialled, drops>>

\* A handler reads a frame and sends it to the connection its target has now, or an
\* error to the connection its sender has now.
Route(c) ==
    /\ conns[c].srv \in {"open", "closing"} /\ conns[c].up # <<>>
    /\ LET f == Head(conns[c].up)
           read == [conns EXCEPT ![c].up = Tail(@)]
       IN  conns' = IF peers[To[f]] # 0 THEN Send(read, peers[To[f]], <<"frame", f>>)
                    ELSE Send(read, peers[conns[c].owner], <<"error", f>>)
    /\ UNCHANGED <<peers, bridges, posts, inbox, errors, dialled, drops>>

\* Mutant: a handler that ends forgets its session, whoever is registered.
EndUnchecked(c) ==
    /\ conns[c].srv = "closing" /\ conns[c].up = <<>>
    /\ conns' = [conns EXCEPT ![c].srv = "ended"]
    /\ peers' = [peers EXCEPT ![conns[c].owner] = 0]
    /\ UNCHANGED <<bridges, posts, inbox, errors, dialled, drops>>

\* A handler ends, and takes its connection out of PEERS if it is still there.
End(c) ==
    /\ conns[c].srv = "closing" /\ conns[c].up = <<>>
    /\ conns' = [conns EXCEPT ![c].srv = "ended"]
    /\ peers' = [s \in Sessions |-> IF peers[s] = c THEN 0 ELSE peers[s]]
    /\ UNCHANGED <<bridges, posts, inbox, errors, dialled, drops>>

------------------------------------------------------------------------------
(* The network                                                             *)

\* A connection is lost, with what was on its way up to some point.
Drop(c) ==
    /\ drops < MaxDrops /\ conns[c].cli = "up"
    /\ drops' = drops + 1
    /\ \E n \in 0..Len(conns[c].up) :
         conns' = [conns EXCEPT ![c].cli = "lost", ![c].up = SubSeq(@, 1, n)]
    /\ UNCHANGED <<peers, bridges, posts, inbox, errors, dialled>>

\* The relay's keepalive finds that out.
Noticed(c) ==
    /\ conns[c].cli = "lost" /\ conns[c].srv = "open"
    /\ conns' = [conns EXCEPT ![c].srv = "closing"]
    /\ UNCHANGED <<peers, bridges, posts, inbox, errors, dialled, drops>>

OfSession(s) == SenderTakes(s) \/ SenderSends(s) \/ Receive(s) \/ BridgeLoses(s) \/ Connect(s)
OfConn(c) == Route(c) \/ End(c) \/ Noticed(c)

Next ==
    \/ \E f \in Frames : PostChecked(f) \/ PostQueued(f)
    \/ \E s \in Sessions : OfSession(s)
    \/ \E c \in Conns : OfConn(c) \/ Drop(c)

\* Tasks and handlers run, and keepalive pings find lost connections.
Steps(s) == OfSession(s) \/ (\E f \in Frames : From[f] = s /\ PostQueued(f))
                         \/ (\E c \in Conns : conns[c].owner = s /\ OfConn(c))

Spec == Init /\ [][Next]_relayVars /\ \A s \in Sessions : WF_relayVars(Steps(s))

------------------------------------------------------------------------------
(* Properties                                                              *)

\* Where a frame is on its way.
InTransit(f) ==
    \/ \E s \in Sessions : Contains(bridges[s].out \o bridges[s].held, f)
    \/ \E c \in Conns :
         \/ conns[c].srv # "ended" /\ Contains(conns[c].up, f)
         \/ conns[c].cli = "up" /\ \E i \in DOMAIN conns[c].down : conns[c].down[i][2] = f

\* A session whose handler runs, and was not replaced, can be reached: the late end of
\* an older connection does not take it out of PEERS.
OpenIsRegistered == \A c \in Conns : conns[c].srv = "open" => peers[conns[c].owner] = c

\* A frame starts at most one turn in one session, the one it is for.
DeliveredOnce ==
    \A f \in Frames : \A s \in Sessions :
        LET at == {i \in DOMAIN inbox[s] : inbox[s][i] = f}
        IN  at # {} => s = To[f] /\ \A i, j \in at : i = j

\* A message that a2a was told is accepted (200) arrives, or its sender hears of an
\* error, unless a connection or an inbox write failed: _route forgets nothing.
LossNeedsDrop ==
    \A f \in Frames : posts[f] = "accepted" =>
        InTransit(f) \/ Contains(inbox[To[f]], f) \/ f \in errors \/ drops > 0

\* Once connections are not lost any more, every session is registered with the
\* connection its bridge uses.
Reachable ==
    \A s \in Sessions : <>[](bridges[s].connected /\ peers[s] = bridges[s].conn)

\* A frame does not travel for ever: it ends in an inbox, with an error, or lost.
Settled == \A f \in Frames : posts[f] = "accepted" ~> ~InTransit(f)
=============================================================================

--------------------------- MODULE AgentSessions ---------------------------
(***************************************************************************)
(* Turns of managed-agent sessions: sync/driver.py, driven by the hand-off *)
(* server (handoff_mcp/server.py: ask_agent, approve, spawn_agent,         *)
(* resume_session), by the hand-forward chain (orchestration/relay.py) and *)
(* by launch_session.py.  A call starts a thread that reads the session's  *)
(* event stream, sends its message and waits for events.  The stream shows *)
(* what happens from the moment it is open, to every call that has one.    *)
(*                                                                         *)
(* Texts, vaults, memory and the files with ids are left out.              *)
(***************************************************************************)
EXTENDS Integers, Sequences

CONSTANTS
    Chain,        \* the calls of relay.py, one after the other
    Asks,         \* calls of ask_agent on one session that exists
    Notes,        \* messages sent without waiting: spawn_agent, resume_session
    MaxBreaks     \* bound: streams that end early

VARIABLES
    calls,        \* what a call has done and seen
    agents,       \* session -> its state at Anthropic
    breaks,
    ran,          \* history: tools that ran, as <<session, call that was worked on>>
    granted,      \* history: tools somebody allowed
    excuses       \* history: call -> why it may not have seen its answer

sessionVars == <<calls, agents, breaks, ran, granted, excuses>>

ChainCalls == {Chain[i] : i \in 1..Len(Chain)}
Calls == ChainCalls \cup Asks \cup Notes

\* The chain has a session per step; the others share one.
On(c) == IF c \in ChainCalls THEN c ELSE "shared"
AgentSet == ChainCalls \cup {"shared"}

NewCall == [pc |-> "new", stream |-> "off", q |-> <<>>, got |-> {}, status |-> "none"]
NewAgent == [st |-> "idle", inbox |-> <<>>, cur |-> "none", asked |-> FALSE]

\* Either the chain or the others: their sessions are apart.
Init ==
    /\ \E live \in {ChainCalls, Asks \cup Notes} :
         calls = [c \in Calls |-> [NewCall EXCEPT !.pc = IF c \in live THEN "new" ELSE "done"]]
    /\ agents = [s \in AgentSet |-> NewAgent]
    /\ breaks = 0 /\ ran = {} /\ granted = {}
    /\ excuses = [c \in Calls |-> {}]

\* The calls as they are when session s has emitted events.
Emit(s, events) ==
    [c \in Calls |-> IF On(c) = s /\ calls[c].stream = "open"
                     THEN [calls[c] EXCEPT !.q = @ \o events] ELSE calls[c]]

\* Calls that wait for events of s and have no stream yet do not see them.
Missing(s) ==
    [c \in Calls |-> IF On(c) = s /\ calls[c].pc = "wait" /\ calls[c].stream = "opening"
                     THEN excuses[c] \cup {"late"} ELSE excuses[c]]

------------------------------------------------------------------------------
(* The driver                                                              *)

\* The thread of the stream is started before the message is sent, not awaited.
Start(c) ==
    /\ calls[c].pc = "new"
    /\ calls' = [calls EXCEPT ![c].pc = "send", ![c].stream = "opening"]
    /\ excuses' = [excuses EXCEPT ![c] = IF agents[On(c)] = NewAgent THEN {} ELSE {"shared"}]
    /\ UNCHANGED <<agents, breaks, ran, granted>>

ask_agent(c) == c \in Asks /\ Start(c)

\* A step of the chain begins when the one before it is over, with its text.
relay_step(c) ==
    /\ c \in ChainCalls
    /\ \A i \in 2..Len(Chain) : c = Chain[i] => calls[Chain[i - 1]].pc = "done"
    /\ Start(c)

StreamOpens(c) ==
    /\ calls[c].stream = "opening"
    /\ calls' = [calls EXCEPT ![c].stream = "open"]
    /\ UNCHANGED <<agents, breaks, ran, granted, excuses>>

\* A message goes to the session; others that use it share what its stream shows.
Deliver(c) ==
    /\ agents' = [agents EXCEPT ![On(c)].inbox = Append(@, c)]
    /\ LET busy == {d \in Calls \ {c} : On(d) = On(c) /\ calls[d].pc \in {"send", "wait"}}
       IN  excuses' = [d \in Calls |-> IF d \in busy \/ (d = c /\ busy # {})
                                       THEN excuses[d] \cup {"shared"} ELSE excuses[d]]
    /\ UNCHANGED <<breaks, ran, granted>>

send_message(c) ==
    /\ calls[c].pc = "send"
    /\ calls' = [calls EXCEPT ![c].pc = "wait"]
    /\ Deliver(c)

\* Fire and forget: spawn_agent without wait, and resume_session.
resume_session(c) ==
    /\ c \in Notes /\ calls[c].pc = "new"
    /\ calls' = [calls EXCEPT ![c].pc = "done"]
    /\ Deliver(c)

\* The stream is dropped, with an error, or ends; either is the last event.
StreamEnds(c) ==
    /\ breaks < MaxBreaks /\ calls[c].stream = "open"
    /\ breaks' = breaks + 1
    /\ \E last \in {<<<<"error", c>>, <<"end", c>>>>, <<<<"end", c>>>>} :
         calls' = [calls EXCEPT ![c].stream = "off", ![c].q = @ \o last]
    /\ excuses' = [excuses EXCEPT ![c] = @ \cup {"closed"}]
    /\ UNCHANGED <<agents, ran, granted>>

\* A call that comes back; its stream is not read any more.
Back(c, status) == [calls[c] EXCEPT !.pc = "done", !.status = status, !.stream = "off", !.q = <<>>]

\* Mutant: an approval that is asked for ends the call like the end of the turn.
run_until_block_idle(c, e) ==
    CASE e[1] = "text" -> [calls[c] EXCEPT !.got = @ \cup {e[2]}, !.q = Tail(@)]
      [] e[1] = "error" -> Back(c, "error")
      [] OTHER -> Back(c, "idle")

\* An event in run_until_block: an approval that is asked for ends the call as blocked.
run_until_block(c, e) ==
    CASE e[1] = "text" -> [calls[c] EXCEPT !.got = @ \cup {e[2]}, !.q = Tail(@)]
      [] e[1] = "ask" -> Back(c, "blocked")
      [] e[1] = "error" -> Back(c, "error")
      [] e[1] \in {"idle", "end"} -> Back(c, "idle")

\* Mutants: the question about a tool ends the turn; the end of a turn is not seen.
run_turn_ask(c, e) ==
    IF e[1] = "text" THEN [calls[c] EXCEPT !.got = @ \cup {e[2]}, !.q = Tail(@)]
    ELSE [calls[c] EXCEPT !.pc = "archive", !.stream = "off", !.q = <<>>]

run_turn_open(c, e) ==
    IF e[1] \in {"end", "error"} THEN [calls[c] EXCEPT !.pc = "archive", !.stream = "off", !.q = <<>>]
    ELSE [calls[c] EXCEPT !.q = Tail(@)]

\* An event in run_turn: every end gives the text there is.
run_turn(c, e) ==
    CASE e[1] = "text" -> [calls[c] EXCEPT !.got = @ \cup {e[2]}, !.q = Tail(@)]
      [] e[1] = "ask" -> [calls[c] EXCEPT !.q = Tail(@)]
      [] e[1] \in {"idle", "end", "error"} -> [calls[c] EXCEPT !.pc = "archive", !.stream = "off", !.q = <<>>]

\* The agents as they are when the tool s waits for is confirmed.
Confirmed(s) == IF agents[s].st = "blocked" THEN [agents EXCEPT ![s].st = "running"] ELSE agents

\* One event from the queue; run_turn answers an approval through its approver.
GetEvent(c) ==
    /\ calls[c].pc = "wait" /\ calls[c].q # <<>>
    /\ LET e == Head(calls[c].q) IN
         /\ calls' = [calls EXCEPT ![c] = IF c \in Asks THEN run_until_block(c, e) ELSE run_turn(c, e)]
         /\ IF c \in ChainCalls /\ e[1] = "ask"
            THEN /\ agents' = Confirmed(On(c))
                 /\ \/ granted' = granted \cup {<<On(c), e[2]>>} /\ ran' = ran \cup {<<On(c), e[2]>>}
                    \/ UNCHANGED <<granted, ran>>
            ELSE UNCHANGED <<agents, granted, ran>>
    /\ UNCHANGED <<breaks, excuses>>

\* relay.py: the step's session is archived, best effort, and the next step begins.
archive_session(c) ==
    /\ calls[c].pc = "archive"
    /\ calls' = [calls EXCEPT ![c].pc = "done"]
    /\ \/ agents' = [agents EXCEPT ![c].st = IF @ = "running" THEN "cut" ELSE "archived"]
       \/ agents' = agents
    /\ UNCHANGED <<breaks, ran, granted, excuses>>

\* Mutant: the server approves for itself what blocks the session.
approve_all(c) ==
    /\ agents["shared"].st = "blocked"
    /\ agents' = Confirmed("shared")
    /\ ran' = ran \cup {<<"shared", agents["shared"].cur>>}
    /\ UNCHANGED <<calls, breaks, granted, excuses>>

\* handoff_mcp: an operator answers what a call was told blocks the session.
approve(c) ==
    /\ calls[c].status = "blocked" /\ agents["shared"].st = "blocked"
    /\ agents' = Confirmed("shared")
    /\ \/ /\ granted' = granted \cup {<<"shared", agents["shared"].cur>>}
          /\ ran' = ran \cup {<<"shared", agents["shared"].cur>>}
       \/ UNCHANGED <<granted, ran>>
    /\ UNCHANGED <<calls, breaks, excuses>>

------------------------------------------------------------------------------
(* The sessions at Anthropic                                               *)

Work(s) ==
    /\ agents[s].st = "idle" /\ agents[s].inbox # <<>>
    /\ agents' = [agents EXCEPT ![s] = [st |-> "running", inbox |-> Tail(@.inbox), cur |-> Head(@.inbox), asked |-> FALSE]]
    /\ UNCHANGED <<calls, breaks, ran, granted, excuses>>

AskApproval(s) ==
    /\ agents[s].st = "running" /\ ~agents[s].asked
    /\ agents' = [agents EXCEPT ![s].st = "blocked", ![s].asked = TRUE]
    /\ calls' = Emit(s, <<<<"ask", agents[s].cur>>>>)
    /\ excuses' = Missing(s)
    /\ UNCHANGED <<breaks, ran, granted>>

EndTurn(s) ==
    /\ agents[s].st = "running"
    /\ agents' = [agents EXCEPT ![s].st = "idle", ![s].cur = "none", ![s].asked = FALSE]
    /\ calls' = Emit(s, <<<<"text", agents[s].cur>>, <<"idle", s>>>>)
    /\ excuses' = Missing(s)
    /\ UNCHANGED <<breaks, ran, granted>>

Driving(c) == StreamOpens(c) \/ send_message(c) \/ GetEvent(c) \/ archive_session(c)
Serving(s) == Work(s) \/ EndTurn(s)

Next ==
    \/ \E c \in Calls : ask_agent(c) \/ relay_step(c) \/ resume_session(c)
    \/ \E c \in Calls : Driving(c) \/ StreamEnds(c)
    \/ \E c \in Asks : approve(c)
    \/ \E s \in AgentSet : Serving(s) \/ AskApproval(s)

\* Threads run, turns end, and what blocks a session is answered.
Spec ==
    /\ Init /\ [][Next]_sessionVars
    /\ \A c \in Calls : WF_sessionVars(Driving(c))
    /\ \A c \in Asks : WF_sessionVars(approve(c))
    /\ \A s \in AgentSet : WF_sessionVars(Serving(s))

------------------------------------------------------------------------------
(* Properties                                                              *)

\* "Returns the agent's reply text, or a 'blocked' status" (ask_agent): an idle reply
\* holds the answer to the question that was asked, and no other, unless the stream
\* was late or closed or others used the session.
OwnAnswer ==
    \A c \in Asks : calls[c].status = "idle" /\ excuses[c] = {} => calls[c].got = {c}

\* "NEVER auto-decides an approval" (run_until_block): a tool of a session that is
\* driven over the hand-off server runs only after an operator allowed it.
OnlyGrantedRuns == ran \subseteq granted

\* The chain archives the session of a step, and hands its text forward, when the turn
\* has ended, unless the stream was late or closed: then the agent may be cut off.
ArchivedAtRest ==
    \A c \in ChainCalls : agents[c].st = "cut" => excuses[c] # {}

\* A call comes back, unless its stream opened too late to see its turn end.
CallsReturn ==
    \A c \in Asks \cup ChainCalls : (calls[c].pc = "wait") ~> (calls[c].pc # "wait" \/ excuses[c] # {})
=============================================================================

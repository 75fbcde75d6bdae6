--------------------------- MODULE AlertDispatcher ---------------------------
(***************************************************************************)
(* The alert session dispatcher: State, decide, reserve, close_fault and   *)
(* Dispatcher.handle_alert of                                              *)
(* helm/fuzeinfra/files/alert-session-dispatcher/ dispatcher.py.  Each     *)
(* webhook is served by a thread of its own.  An alert is stamped when its *)
(* handling starts, then waits for State.lock, which is held over the      *)
(* request for a session.  The state lives in memory and in a file that is *)
(* replaced as a whole; there is one replica, and a new process starts     *)
(* from the file.                                                          *)
(*                                                                         *)
(* Alerts that are malformed, not critical or not on the allowlist change  *)
(* nothing and are left out, and so is the audit issue.                    *)
(***************************************************************************)
EXTENDS Integers, FiniteSets

CONSTANTS
    Faults,            \* the dedup keys: (alertname, namespace) on the allowlist
    Threads,           \* threads of the ThreadingHTTPServer
    CooldownSeconds, OpenTtlSeconds, DailySpawnCap,
    DailySpendCapUsd, EstimatedSessionCostUsd,
    DayLength,         \* seconds of a UTC day
    MaxTime            \* bound on the clock

VARIABLES
    clock,  \* utcnow()
    armed,  \* the process's configuration: neither paused nor dryRun
    mem,    \* State.data
    disk,   \* the state file
    th,     \* the local variables of each thread
    made,   \* history: the requests for a session sent, by the day of their stamp
    last    \* history: the last request sent for a fault, and whether a resolved
            \* notification was handled since

vars == <<clock, armed, mem, disk, th, made, last>>

------------------------------------------------------------------------------
(* State                                                                   *)

Day(now) == now \div DayLength
Days == 0..Day(MaxTime)

\* A day without a bucket counts 0 spawns.  session: sessionId is known.
NoFault == [status |-> "none", spawnedAt |-> 0, session |-> FALSE]
NoData == [days |-> [d \in Days |-> 0], faults |-> [f \in Faults |-> NoFault]]
Idle == [pc |-> "idle", fault |-> CHOOSE f \in Faults : TRUE, status |-> "firing", now |-> 0]


Init ==
    /\ clock = 0 /\ armed \in BOOLEAN
    /\ mem = NoData /\ disk = NoData
    /\ th = [t \in Threads |-> Idle]
    /\ made = [d \in Days |-> 0]
    /\ last = [f \in Faults |-> [status |-> "none", spawnedAt |-> 0]]

Locked == \E t \in Threads : th[t].pc \in {"reserved", "sent"}

Return(t) == th' = [th EXCEPT ![t] = Idle]

------------------------------------------------------------------------------
(* Policy                                                                  *)

\* Mutant: an open fault is suppressed no longer than a closed one.
RecentInCooldown(f, now) ==
    mem.faults[f].status # "none" /\ now - mem.faults[f].spawnedAt < CooldownSeconds

Recent(f, now) ==
    LET age == now - mem.faults[f].spawnedAt
    IN  /\ mem.faults[f].status # "none"
        /\ \/ mem.faults[f].status = "open" /\ age < OpenTtlSeconds
           \/ age < CooldownSeconds

WithinCaps(spawns) ==
    /\ spawns < DailySpawnCap
    /\ (spawns + 1) * EstimatedSessionCostUsd <= DailySpendCapUsd

\* Spawn rather than skip; the dryRun test of handle_alert included.
decide(f, now) == armed /\ ~Recent(f, now) /\ WithinCaps(mem.days[Day(now)])

\* The data reserve leaves: the attempt counted, older days dropped, the fault open.
Reserved(f, now) ==
    [days |-> [d \in Days |-> IF d < Day(now) THEN 0
                              ELSE IF d = Day(now) THEN mem.days[d] + 1 ELSE mem.days[d]],
     faults |-> [mem.faults EXCEPT ![f] =
                    [status |-> "open", spawnedAt |-> now, session |-> FALSE]]]

\* Mutant: a resolved fault is forgotten.
Forgotten(f) == IF mem.faults[f].status = "open"
                THEN [mem EXCEPT !.faults[f] = NoFault] ELSE mem

\* The data close_fault leaves.
Closed(f) == IF mem.faults[f].status = "open"
             THEN [mem EXCEPT !.faults[f].status = "closed"] ELSE mem

------------------------------------------------------------------------------
(* handle_alert                                                            *)

\* An alert of some payload, sent, sent again or late: its stamp is taken here.
Receive(t) ==
    /\ th[t].pc = "idle"
    /\ \E f \in Faults, s \in {"firing", "resolved"} :
         th' = [th EXCEPT ![t] = [pc |-> "lock", fault |-> f, status |-> s, now |-> clock]]
    /\ UNCHANGED <<clock, armed, mem, disk, made, last>>

\* The lock is taken and the alert turns out to be of this status.
Enter(t, s) == th[t].pc = "lock" /\ th[t].status = s /\ ~Locked

\* close_fault; its commit can fail, and then only memory has changed.
Resolved(t) ==
    LET f == th[t].fault
    IN  /\ Enter(t, "resolved")
        /\ mem' = Closed(f)
        /\ disk' \in (IF Closed(f) = mem THEN {disk} ELSE {disk, Closed(f)})
        /\ last' = [last EXCEPT ![f].status = IF @ = "none" THEN @ ELSE "closed"]
        /\ Return(t)
        /\ UNCHANGED <<clock, armed, made>>

Skip(t) ==
    /\ Enter(t, "firing")
    /\ ~decide(th[t].fault, th[t].now)
    /\ Return(t)
    /\ UNCHANGED <<clock, armed, mem, disk, made, last>>

\* Mutant: the reservation is written with the session, not before it is asked for.
ReserveInMemory(t) ==
    /\ Enter(t, "firing")
    /\ decide(th[t].fault, th[t].now)
    /\ mem' = Reserved(th[t].fault, th[t].now)
    /\ th' = [th EXCEPT ![t].pc = "reserved"]
    /\ UNCHANGED <<clock, armed, disk, made, last>>

\* decide, then reserve with its commit; the lock is kept.
Reserve(t) ==
    /\ Enter(t, "firing")
    /\ decide(th[t].fault, th[t].now)
    /\ mem' = Reserved(th[t].fault, th[t].now)
    /\ disk' = mem'
    /\ th' = [th EXCEPT ![t].pc = "reserved"]
    /\ UNCHANGED <<clock, armed, made, last>>

\* The commit in reserve raises: nothing is sent, memory keeps the attempt.
ReserveFails(t) ==
    /\ Enter(t, "firing")
    /\ decide(th[t].fault, th[t].now)
    /\ mem' = Reserved(th[t].fault, th[t].now)
    /\ Return(t)
    /\ UNCHANGED <<clock, armed, disk, made, last>>

\* create_session fails before the request: no workload token.
MintFails(t) ==
    /\ th[t].pc = "reserved"
    /\ Return(t)
    /\ UNCHANGED <<clock, armed, mem, disk, made, last>>

\* The request for a session leaves.
Send(t) ==
    LET f == th[t].fault
    IN  /\ th[t].pc = "reserved"
        /\ th' = [th EXCEPT ![t].pc = "sent"]
        /\ made' = [made EXCEPT ![Day(th[t].now)] = @ + 1]
        /\ last' = [last EXCEPT ![f] = [status |-> "open", spawnedAt |-> th[t].now]]
        /\ UNCHANGED <<clock, armed, mem, disk>>

\* The session's id comes back and is committed; the commit can fail.
Answered(t) ==
    /\ th[t].pc = "sent"
    /\ mem' = [mem EXCEPT !.faults[th[t].fault].session = TRUE]
    /\ disk' \in {disk, mem'}
    /\ Return(t)
    /\ UNCHANGED <<clock, armed, made, last>>

\* Mutant: a failed attempt is not counted.
CreateFailsUncounted(t) ==
    /\ th[t].pc = "sent"
    /\ mem' = [mem EXCEPT !.days[Day(th[t].now)] = IF @ = 0 THEN 0 ELSE @ - 1]
    /\ disk' = mem'
    /\ Return(t)
    /\ UNCHANGED <<clock, armed, made, last>>

\* Mutant: the request is sent again as long as it fails.
CreateFailsRetries(t) ==
    /\ th[t].pc = "sent"
    /\ th' = [th EXCEPT ![t].pc = "reserved"]
    /\ UNCHANGED <<clock, armed, mem, disk, made, last>>

\* An error, a timeout or an unusable answer: the session may exist all the
\* same.  The reservation stays.
CreateFails(t) ==
    /\ th[t].pc = "sent"
    /\ Return(t)
    /\ UNCHANGED <<clock, armed, mem, disk, made, last>>

------------------------------------------------------------------------------
(* The process and the clock                                               *)

\* The process ends anywhere and another one loads the file; its configuration
\* may be another one.
Restart ==
    /\ mem' = disk
    /\ th' = [t \in Threads |-> Idle]
    /\ armed' \in BOOLEAN
    /\ UNCHANGED <<clock, disk, made, last>>

Tick ==
    /\ clock < MaxTime
    /\ clock' = clock + 1
    /\ UNCHANGED <<armed, mem, disk, th, made, last>>

Next ==
    \/ \E t \in Threads :
         \/ Receive(t) \/ Resolved(t) \/ Skip(t) \/ Reserve(t) \/ ReserveFails(t)
         \/ MintFails(t) \/ Send(t) \/ Answered(t) \/ CreateFails(t)
    \/ Restart \/ Tick

Spec == Init /\ [][Next]_vars

------------------------------------------------------------------------------
(* Properties                                                              *)

\* "Count the attempt BEFORE the network call so a crash or timeout can never
\* double-spawn" (reserve): what a process started now would load knows of every
\* request that was sent, today's for the caps and the last of each fault for
\* the cooldown, whatever saves failed meanwhile.
CountedBeforeSent ==
    /\ disk.days[Day(clock)] >= made[Day(clock)]
    /\ \A f \in Faults : last[f].status # "none" =>
         /\ disk.faults[f].status # "none"
         /\ disk.faults[f].spawnedAt >= last[f].spawnedAt

\* The daily caps hold for the requests sent, as long as the day lasts: across
\* restarts, failed saves and lost answers.
CapWithinDay ==
    /\ made[Day(clock)] <= DailySpawnCap
    /\ made[Day(clock)] * EstimatedSessionCostUsd <= DailySpendCapUsd

\* After midnight reserve drops the bucket of a day whose alerts may still wait
\* for the lock, and they are counted from 0 again.  The day's requests go past
\* the cap by no more than the alerts that were waiting.
OvershootBounded ==
    \A d \in Days : made[d] <= DailySpawnCap + Cardinality(Threads) - 1

\* Of two requests for the same fault, the second is stamped at least the
\* cooldown after the first, and at least the open TTL if no resolved
\* notification was handled in between; in whatever order stamped alerts get the
\* lock, and whatever is lost in a crash.
NoDoubleSpawn ==
    [][\A t \in Threads :
         LET sent == last[th[t].fault]
             gap == th[t].now - sent.spawnedAt
         IN  th[t].pc = "reserved" /\ th'[t].pc = "sent" /\ sent.status # "none" =>
                gap >= CooldownSeconds /\ (sent.status = "open" => gap >= OpenTtlSeconds)]_vars
=============================================================================

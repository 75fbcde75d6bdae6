--------------------------- MODULE CreateContract ---------------------------
(***************************************************************************)
(* What the provider relies on when it calls contabo.Client.Create: the    *)
(* call ends well only for a machine every listing shows, and when it ends *)
(* badly there is no machine, or it has been cancelled.  An order can be   *)
(* left behind only when a call of this create failed, its context ran     *)
(* out, or Contabo had not shown the machine to any GET.                   *)
(***************************************************************************)
CONSTANT Names   \* one create per display name

VARIABLES
    order,      \* Names -> "none", "hidden" (accepted), "shown" (listed)
    cancelled,  \* the orders that were rolled back
    broken,     \* the creates that had a call fail or their context end
    result      \* Names -> "idle", "running", "ok", "failed"

vars == <<order, cancelled, broken, result>>

Init ==
    /\ order = [n \in Names |-> "none"]
    /\ cancelled = {} /\ broken = {}
    /\ result = [n \in Names |-> "idle"]

Begin(n) ==
    /\ result[n] = "idle"
    /\ result' = [result EXCEPT ![n] = "running"]
    /\ UNCHANGED <<order, cancelled, broken>>

Break(n) ==
    /\ result[n] = "running"
    /\ broken' = broken \cup {n}
    /\ UNCHANGED <<order, cancelled, result>>

\* The order is accepted.  The same call may break here: the answer is lost.
Accept(n) ==
    /\ result[n] = "running" /\ order[n] = "none"
    /\ order' = [order EXCEPT ![n] = "hidden"]
    /\ \/ UNCHANGED <<broken, result>>
       \/ broken' = broken \cup {n} /\ result' = [result EXCEPT ![n] = "failed"]
    /\ UNCHANGED cancelled

Show(n) ==
    /\ order[n] = "hidden"
    /\ order' = [order EXCEPT ![n] = "shown"]
    /\ UNCHANGED <<cancelled, broken, result>>

\* A rollback.  Its answer too may be lost.
Cancel(n) ==
    /\ result[n] = "running" /\ order[n] # "none"
    /\ cancelled' = cancelled \cup {n}
    /\ \/ UNCHANGED broken
       \/ broken' = broken \cup {n}
    /\ result' = [result EXCEPT ![n] = "failed"]
    /\ UNCHANGED order

Succeed(n) ==
    /\ result[n] = "running" /\ order[n] = "shown" /\ n \notin cancelled
    /\ result' = [result EXCEPT ![n] = "ok"]
    /\ UNCHANGED <<order, cancelled, broken>>

Fail(n) ==
    /\ result[n] = "running"
    /\ \/ UNCHANGED broken
       \/ broken' = broken \cup {n}
    /\ order[n] = "none" \/ order[n] = "hidden" \/ n \in broken'
    /\ result' = [result EXCEPT ![n] = "failed"]
    /\ UNCHANGED <<order, cancelled>>

Next == \E n \in Names : \/ Begin(n) \/ Break(n) \/ Accept(n) \/ Show(n)
                         \/ Cancel(n) \/ Succeed(n) \/ Fail(n)

Spec == Init /\ [][Next]_vars
=============================================================================

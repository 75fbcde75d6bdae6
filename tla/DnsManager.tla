----------------------------- MODULE DnsManager -----------------------------
(***************************************************************************)
(* tools/dns-manager/dns-manager.py: names of local projects in the hosts  *)
(* file, or in dnsmasq when its container runs.  Every call is a process   *)
(* of its own that reads the file, and writes all of it back later.        *)
(*                                                                         *)
(* A line of the hosts file is [domain, ours, comment]: the domain it      *)
(* holds, whether it carries the tool's comment, whether it is commented   *)
(* out.                                                                    *)
(***************************************************************************)
EXTENDS Integers, FiniteSets

CONSTANTS
    Domains,
    Inside,             \* pairs <<d, e>>: d is a part of the text of e
    Callers,
    MaxCalls            \* bound: calls of the tool

VARIABLES
    hostsFile,          \* the lines
    dnsmasq,            \* container: its address lines; it may be "down"
    callers,            \* callers[c]: the call c is in, after its read
    calls,
    wanted,             \* history: domains added and not removed since
    raced               \* history: domains a call overlapped another's write of

dnsVars == <<hostsFile, dnsmasq, callers, calls, wanted, raced>>

NoCall == [op |-> "none", domain |-> "none", read |-> {}]

In(domain, line) == domain = line.domain \/ <<domain, line.domain>> \in Inside

Managed(domain) == [domain |-> domain, ours |-> TRUE, comment |-> FALSE]

\* Mutant: a line that is commented out counts.
_entry_exists_any(lines, domain) == \E line \in lines : In(domain, line)

_entry_exists(lines, domain) == \E line \in lines : In(domain, line) /\ ~line.comment

\* Mutant: every line of the domain goes.
removed_all(lines, domain) == {line \in lines : In(domain, line)}

removed(lines, domain) == {line \in lines : In(domain, line) /\ line.ours}

\* What the process writes back.
Written(call) ==
    IF call.op = "add" THEN call.read \cup {Managed(call.domain)}
    ELSE call.read \ removed(call.read, call.domain)

Init ==
    /\ hostsFile \in SUBSET {[domain |-> d, ours |-> FALSE, comment |-> c] : d \in Domains, c \in BOOLEAN}
    /\ dnsmasq \in {[up |-> u, names |-> {}] : u \in BOOLEAN}
    /\ callers = [c \in Callers |-> NoCall] /\ calls = 0 /\ wanted = {} /\ raced = {}

\* add_dns_entry, with dnsmasq: a line is appended, a name already there or not.
_add_dnsmasq_entry(c, d) ==
    /\ callers[c] = NoCall /\ calls < MaxCalls /\ calls' = calls + 1
    /\ dnsmasq.up /\ dnsmasq' = [dnsmasq EXCEPT !.names = @ \cup {d}]
    /\ wanted' = wanted \cup {d}
    /\ UNCHANGED <<hostsFile, callers, raced>>

\* _add_hosts_entry and remove_dns_entry up to their read; nothing is written when the
\* entry is there, or there is none to remove.
Read(c, op, d) ==
    /\ callers[c] = NoCall /\ calls < MaxCalls /\ calls' = calls + 1
    /\ op = "add" => ~dnsmasq.up
    /\ IF IF op = "add" THEN _entry_exists(hostsFile, d) ELSE removed(hostsFile, d) = {}
       THEN /\ wanted' = (IF op = "add" THEN wanted \cup {d} ELSE wanted \ {d})
            /\ UNCHANGED callers
       ELSE /\ callers' = [callers EXCEPT ![c] = [op |-> op, domain |-> d, read |-> hostsFile]]
            /\ UNCHANGED wanted
    /\ UNCHANGED <<hostsFile, dnsmasq, raced>>

_write_hosts_file(c) ==
    LET call == callers[c]
        lost == (hostsFile \ call.read) \cup (call.read \ hostsFile) IN
    /\ call # NoCall
    /\ hostsFile' = Written(call)
    /\ wanted' = IF call.op = "add" THEN wanted \cup {call.domain} ELSE wanted \ {call.domain}
    /\ callers' = [callers EXCEPT ![c] = NoCall]
    /\ raced' = raced \cup {line.domain : line \in lost}
    /\ UNCHANGED <<dnsmasq, calls>>

\* The container is stopped or started again, as it was built or as it was left.
Container ==
    /\ dnsmasq' \in {[up |-> ~dnsmasq.up, names |-> n] : n \in {dnsmasq.names, {}}}
    /\ dnsmasq.up \/ calls < MaxCalls
    /\ wanted' = wanted \ (dnsmasq.names \ dnsmasq'.names)
    /\ UNCHANGED <<hostsFile, callers, calls, raced>>

Next ==
    \/ \E c \in Callers, d \in Domains : _add_dnsmasq_entry(c, d) \/ Read(c, "add", d) \/ Read(c, "remove", d)
    \/ \E c \in Callers : _write_hosts_file(c)
    \/ Container

------------------------------------------------------------------------------
(* Properties                                                              *)

Overlaps(d) == \E e \in Domains : <<d, e>> \in Inside \/ <<e, d>> \in Inside

\* A domain that was added, and not removed since, has a line that is in force, or is
\* known to dnsmasq; but for domains that contain one another, which the tool takes
\* for each other, and for calls that overlapped, the later of which writes the file
\* as it was before the earlier.
AddedResolves ==
    \A d \in wanted : \/ \E line \in hostsFile : line.domain = d /\ ~line.comment
                      \/ d \in dnsmasq.names
                      \/ Overlaps(d) \/ d \in raced

\* Lines the tool did not write stay as they are.
ForeignStay ==
    [][{line \in hostsFile : ~line.ours} = {line \in hostsFile' : ~line.ours}]_dnsVars
=============================================================================

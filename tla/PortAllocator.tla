--------------------------- MODULE PortAllocator ----------------------------
(***************************************************************************)
(* tools/port-allocator/port-allocator.py: the variables of a compose file *)
(* that need a port, and the ports it is given.                            *)
(*                                                                         *)
(* A port mapping is <<form, variable>>: "plain" ${V}:80, "default"        *)
(* ${V:-3000}:80, "host" 127.0.0.1:${V}:80, "hard" a number.  An input x:  *)
(* x.compose is the file ("none", "unparsable", "file"), x.mappings its    *)
(* mappings, x.num is --num-ports or 0.                                    *)
(***************************************************************************)
EXTENDS Integers, FiniteSets, SequencesExt, FiniteSetsExt

Ports == 1..7
Variables == {"A_PORT", "B_PORT"}
GenericCount == 5           \* without variables and without --num-ports

\* What is before the first ':' of a mapping; one with a '-' is taken for a range.
_extract_port_variables(mapping) == IF mapping[1] = "plain" THEN {mapping[2]} ELSE {}

port_variables(mappings) == UNION {_extract_port_variables(mp) : mp \in mappings}

\* Mutant: the search range is not cut at the start port.
search_ranges_whole(ranges, start) == SelectSeq(ranges, LAMBDA r : start <= r[2])

search_ranges(ranges, start) ==
    LET cut == [i \in DOMAIN ranges |-> <<Max({start, ranges[i][1]}), ranges[i][2]>>]
    IN SelectSeq(cut, LAMBDA r : r[1] <= r[2])

\* Mutant: reserved ports are given away.
Usable_any(x, port) == port \in x.free

\* _is_port_available binds the port.
Usable(x, port) == port \in x.free /\ port \notin x.excluded

\* Range after range, until there are enough.
_find_available_ports(x, num) ==
    LET ranges == search_ranges(x.ranges, x.start)
        portsOf(r) == SetToSortSeq({p \in r[1]..r[2] : Usable(x, p)}, <)
        found == FlattenSeq([i \in DOMAIN ranges |-> portsOf(ranges[i])])
    IN SubSeq(found, 1, Min({num, Len(found)}))

Generic == <<"frontend", "backend", "database", "cache", "monitoring">>

\* A compose file that cannot be parsed counts as one without variables.
Wanted(x) ==
    IF x.compose # "file" \/ port_variables(x.mappings) = {}
    THEN SubSeq(Generic, 1, IF x.num = 0 THEN GenericCount ELSE x.num)
    ELSE SetToSortSeq(port_variables(x.mappings), LAMBDA a, b : a = "A_PORT" /\ b = "B_PORT")

\* Mutant: what is there is given out, enough or not.
allocate_ports_some(x) ==
    LET names == Wanted(x)
        ports == _find_available_ports(x, Len(names)) IN
    [success |-> ports # <<>>, names |-> names, ports |-> ports]

allocate_ports(x) ==
    LET names == Wanted(x)
        ports == _find_available_ports(x, Len(names)) IN
    [success |-> Len(ports) = Len(names), names |-> names, ports |-> ports]

\* main: --compose-file and --num-ports exclude each other.
Inputs ==
    {x \in [compose : {"none", "unparsable", "file"}, num : {0, 2}, start : {1, 3}, excluded : {{}, {2}},
            mappings : {s \in SUBSET (({"plain", "default", "host"} \X Variables) \cup {<<"hard", "">>}) :
                           Cardinality(s) <= 2},
            ranges : {<<<<1, 3>>, <<5, 7>>>>, <<<<5, 7>>, <<1, 3>>>>, <<<<1, 3>>, <<3, 7>>>>},
            free : SUBSET Ports] :
        (x.compose # "none" => x.num = 0) /\ (x.compose # "file" => x.mappings = {})}

------------------------------------------------------------------------------
(* Properties                                                              *)

Overlap(x) == \E i, j \in DOMAIN x.ranges : i # j /\ x.ranges[i][1] <= x.ranges[j][2] /\ x.ranges[j][1] <= x.ranges[i][2]

\* Ports that are given out are free, not reserved, not below the start, each given
\* once unless the configured ranges overlap, and there is one for every name; and
\* the tool gives up only when there are not enough.
GivesUsablePorts(x) ==
    LET a == allocate_ports(x)
        all == {p \in Ports : /\ p \in x.free \ x.excluded /\ p >= x.start
                              /\ \E i \in DOMAIN x.ranges : x.ranges[i][1] <= p /\ p <= x.ranges[i][2]} IN
    /\ a.success => /\ Len(a.ports) = Len(a.names) /\ ToSet(a.ports) \subseteq all
                    /\ Overlap(x) \/ Cardinality(ToSet(a.ports)) = Len(a.ports)
    /\ Overlap(x) \/ (a.success <=> Cardinality(all) >= Len(a.names))
=============================================================================

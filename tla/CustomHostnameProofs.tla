------------------------ MODULE CustomHostnameProofs ------------------------
(***************************************************************************)
(* Proofs about CustomHostname, for any number of domains, profiles and    *)
(* requests: who gets past the owner check, that the two halves of a       *)
(* domain agree when its requests came one at a time, what a request that  *)
(* nothing disturbs is told, and when the account's cap can be passed.     *)
(***************************************************************************)
EXTENDS CustomHostname, FiniteSetTheorems, TLAPS

------------------------------------------------------------------------------
(* The inductive invariant                                                 *)

Phases == {"idle", "owner", "find", "quota", "post", "ensure", "read", "put", "exists",
           "remove", "lookup", "delete"}
Requests ==
    [pc : Phases, op : {"create", "get", "delete"}, d : Domains \cup {Idle.d}, p : Profile,
     k : 1..Len(Profiles), seen : Statuses \cup {"absent"}, held : BOOLEAN,
     ans : {"none", "ok", "active", "missing", "forbidden", "quota", "error", "failed"},
     rivals : SUBSET Profile, misread : BOOLEAN, disturbed : BOOLEAN, crowded : BOOLEAN]

TypeOK ==
    /\ provider \in {"cloudflare", "stub"} /\ routed \in BOOLEAN
    /\ edge \in [Domains -> Statuses \cup {"absent"}]
    /\ routes \in SUBSET (Domains \X Profile)
    /\ call \in [Calls -> Requests]
    /\ messy \in SUBSET Domains

On(x, d) == Active(x) /\ call[x].d = d

\* Requests that run on the same domain have disturbed each other.
OneAtATime ==
    \A x, y \in Calls : x # y /\ Active(x) /\ On(y, call[x].d) => call[x].disturbed

\* What the request r has seen is so, when nothing has disturbed it.
Steady(r) ==
    /\ r.pc = "owner" => \A i \in 1..(r.k - 1) : ~exists(r.d, Profiles[i])
    /\ r.pc \in {"quota", "post"} => edge[r.d] = "absent"
    /\ r.pc \in {"ensure", "read", "put"} => edge[r.d] # "absent"
    /\ r.pc \in {"read", "put"} => exists(r.d, r.p)
    /\ r.pc \in {"lookup", "delete"} => ~exists(r.d, r.p)
    /\ r.pc \in {"put", "delete"} => r.held

\* A domain whose request is disturbed is messy; the candidates that were asked about are
\* no rivals, and past the owner check nobody is.
RequestOK(c) ==
    Active(c) =>
        /\ call[c].d \in Domains /\ call[c].ans = "none"
        /\ call[c].pc = "exists" => call[c].op = "get"
        /\ call[c].pc \in {"remove", "lookup", "delete"} => call[c].op = "delete"
        /\ call[c].misread => call[c].disturbed
        /\ call[c].disturbed => call[c].d \in messy
        /\ call[c].pc = "owner" =>
               call[c].misread \/ \A i \in 1..(call[c].k - 1) : Profiles[i] \notin call[c].rivals
        /\ routed /\ call[c].pc # "owner" => call[c].rivals = {} \/ call[c].misread
        /\ ~call[c].disturbed => Steady(call[c])

\* A domain that is not messy is of one profile, of the one that is past the owner check if
\* a request is; its halves agree but for the middle of a create or a delete.
agree(d) == edge[d] # "absent" <=> \E p \in Profile : exists(d, p)
DomainOK(d) ==
    routed /\ d \notin messy =>
        /\ \A p, q \in Profile : exists(d, p) /\ exists(d, q) => p = q
        /\ \A c \in Calls : On(c, d) /\ call[c].pc # "owner" =>
               \A q \in Profile : exists(d, q) => q = call[c].p
        /\ (\A c \in Calls : On(c, d) =>
               call[c].pc \in {"owner", "find", "quota", "post", "exists", "remove"}) => agree(d)

\* There is room for a registration that waits, unless another was made meanwhile.
Capped ==
    \A c \in Calls :
        (provider = "cloudflare" /\ MaxHostnames > 0 /\ call[c].pc = "post" /\ ~call[c].crowded) =>
            Cardinality(Registered) < MaxHostnames

IInv ==
    /\ TypeOK /\ OneAtATime /\ Capped
    /\ \A c \in Calls : RequestOK(c)
    /\ \A d \in Domains : DomainOK(d)

------------------------------------------------------------------------------
(* What a step of one request does to the others                           *)

SameRequest(r, s) ==
    /\ s.pc = r.pc /\ s.op = r.op /\ s.d = r.d /\ s.p = r.p /\ s.k = r.k /\ s.ans = r.ans
    /\ s.misread = r.misread /\ s.disturbed = r.disturbed

Others(c) ==
    \A x \in Calls \ {c} :
        /\ SameRequest(call[x], call'[x])
        /\ call'[x].rivals \subseteq call[x].rivals
        /\ call[x].d # call[c].d => call'[x].held = call[x].held
        /\ call[x].pc = "post" => call'[x].crowded =
               (call[x].crowded \/ (edge[call[c].d] = "absent" /\ edge'[call[c].d] # "absent"))

Elsewhere(c) ==
    /\ \A e \in Domains : e # call[c].d => edge'[e] = edge[e]
    /\ \A e \in Domains, q \in Profile : e # call[c].d => exists(e, q)' = exists(e, q)
    /\ \/ messy' \in {messy, messy \cup {call[c].d}}
       \/ messy' = messy \ {call[c].d} /\ ~call[c].disturbed
    /\ UNCHANGED <<provider, routed>>

LEMMA Records ==
    /\ Idle \in Requests /\ Idle.pc = "idle" /\ Idle.rivals = {} /\ Idle.ans = "none" /\ Idle.held = FALSE
    /\ \A a \in {"none", "ok", "active", "missing", "forbidden", "quota", "error", "failed"} :
           [Idle EXCEPT !.ans = a] \in Requests /\ [Idle EXCEPT !.ans = a].pc = "idle"
           /\ [Idle EXCEPT !.ans = a].ans = a
  <1>1. 1 \in 1..Len(Profiles) /\ Profiles[1] \in Profile
    BY ProfilesAssumption DEF Profile
  <1>2. Idle \in Requests
    BY <1>1 DEF Idle, Requests, Phases
  <1>3. Idle.pc = "idle" /\ Idle.rivals = {} /\ Idle.ans = "none" /\ Idle.held = FALSE
    BY DEF Idle
  <1>4. ASSUME NEW a \in {"none", "ok", "active", "missing", "forbidden", "quota", "error", "failed"}
        PROVE  [Idle EXCEPT !.ans = a] \in Requests /\ [Idle EXCEPT !.ans = a].pc = "idle"
               /\ [Idle EXCEPT !.ans = a].ans = a
    BY <1>2, <1>3 DEF Requests
  <1> QED
    BY <1>2, <1>3, <1>4

LEMMA GotoFacts ==
    ASSUME TypeOK, NEW c \in Calls, NEW rec \in Requests, Goto(c, rec)
    PROVE  /\ call' \in [Calls -> Requests]
           /\ Others(c)
           /\ SameRequest(rec, call'[c]) /\ call'[c].held = rec.held /\ call'[c].seen = rec.seen
           /\ call'[c].rivals = {q \in rec.rivals : Rival(routes', rec.d, rec.p, q)}
           /\ call'[c].crowded = (rec.pc = "post" /\ rec.crowded)
  <1> DEFINE d == call[c].d
             gone == edge'[d] = "absent" /\ edge[d] # "absent"
             fresh == edge[d] = "absent" /\ edge'[d] # "absent"
             Stale(x) == /\ x.d = d
                         /\ \/ x.pc = "delete" /\ gone
                            \/ x.pc = "put" /\ routes' # routes /\ x.p = call[c].p
             now(x) == IF x = c THEN rec ELSE call[x]
             new(x) == [now(x) EXCEPT !.held = @ /\ (x = c \/ ~Stale(now(x))),
                            !.rivals = {q \in @ : Rival(routes', now(x).d, now(x).p, q)},
                            !.crowded = now(x).pc = "post" /\ (@ \/ (x # c /\ fresh))]
  <1>1. call' = [x \in Calls |-> new(x)]
    BY ZenonT(30) DEF Goto
  <1>2. \A x \in Calls : now(x) \in Requests
    BY DEF TypeOK
  <1>3. ASSUME NEW x \in Calls
        PROVE  /\ new(x) \in Requests /\ SameRequest(now(x), new(x)) /\ new(x).seen = now(x).seen
               /\ new(x).held = (now(x).held /\ (x = c \/ ~Stale(now(x))))
               /\ new(x).rivals = {q \in now(x).rivals : Rival(routes', now(x).d, now(x).p, q)}
               /\ new(x).crowded = (now(x).pc = "post" /\ (now(x).crowded \/ (x # c /\ fresh)))
    <2> DEFINE h == now(x).held /\ (x = c \/ ~Stale(now(x)))
               r == {q \in now(x).rivals : Rival(routes', now(x).d, now(x).p, q)}
               w == now(x).pc = "post" /\ (now(x).crowded \/ (x # c /\ fresh))
    <2>1. now(x) \in Requests
      BY <1>2
    <2>2. new(x) = [now(x) EXCEPT !.held = h, !.rivals = r, !.crowded = w]
      OBVIOUS
    <2>3. h \in BOOLEAN /\ w \in BOOLEAN /\ r \in SUBSET Profile
      BY <2>1 DEF Requests
    <2> HIDE DEF h, w, r, now, new
    <2>4. /\ new(x) \in Requests /\ SameRequest(now(x), new(x)) /\ new(x).seen = now(x).seen
          /\ new(x).held = h /\ new(x).rivals = r /\ new(x).crowded = w
      BY <2>1, <2>2, <2>3 DEF Requests, SameRequest
    <2> QED
      BY <2>4 DEF h, r, w
  <1>4. now(c) = rec /\ \A x \in Calls \ {c} : now(x) = call[x]
    OBVIOUS
  <1>5. \A x \in Calls : call'[x] = new(x)
    BY <1>1
  <1>6. \A x \in Calls \ {c} : x \in Calls /\ x # c
    OBVIOUS
  <1> HIDE DEF new, now
  <1>7. call' \in [Calls -> Requests]
    BY <1>1, <1>3
  <1>8. Others(c)
    <2>1. ASSUME NEW x \in Calls, x # c
          PROVE  /\ SameRequest(call[x], call'[x]) /\ call'[x].rivals \subseteq call[x].rivals
                 /\ call[x].d # d => call'[x].held = call[x].held
                 /\ call[x].pc = "post" => call'[x].crowded = (call[x].crowded \/ fresh)
      <3>1. now(x) = call[x] /\ call'[x] = new(x)
        BY <2>1, <1>4, <1>5
      <3>2. /\ SameRequest(call[x], call'[x])
            /\ call'[x].rivals = {q \in call[x].rivals : Rival(routes', call[x].d, call[x].p, q)}
            /\ call'[x].held = (call[x].held /\ ~Stale(call[x]))
            /\ call'[x].crowded = (call[x].pc = "post" /\ (call[x].crowded \/ fresh))
        BY <1>3, <2>1, <3>1
      <3>3. call[x] \in Requests
        BY DEF TypeOK
      <3>4. call[x].d # d => call'[x].held = call[x].held
        BY <3>2, <3>3 DEF Requests
      <3> QED
        BY <3>2, <3>4
    <2> QED
      BY <2>1 DEF Others
  <1>9. /\ SameRequest(rec, call'[c]) /\ call'[c].held = rec.held /\ call'[c].seen = rec.seen
        /\ call'[c].rivals = {q \in rec.rivals : Rival(routes', rec.d, rec.p, q)}
        /\ call'[c].crowded = (rec.pc = "post" /\ rec.crowded)
    <2>1. /\ SameRequest(rec, new(c)) /\ new(c).held = (rec.held /\ TRUE) /\ new(c).seen = rec.seen
          /\ new(c).rivals = {q \in rec.rivals : Rival(routes', rec.d, rec.p, q)}
          /\ new(c).crowded = (rec.pc = "post" /\ (rec.crowded \/ FALSE))
      BY <1>3, <1>4
    <2>2. rec.held \in BOOLEAN /\ rec.crowded \in BOOLEAN
      BY DEF Requests
    <2> QED
      BY <2>1, <2>2, <1>5
  <1> QED
    BY <1>7, <1>8, <1>9

\* Registrations that are not more are no more in number.
LEMMA FewerRegistered ==
    ASSUME Registered' \subseteq Registered
    PROVE  IsFiniteSet(Registered) /\ IsFiniteSet(Registered') /\ Cardinality(Registered') <= Cardinality(Registered)
           /\ Cardinality(Registered) \in Nat /\ Cardinality(Registered') \in Nat
  <1>1. IsFiniteSet(Registered)
    BY CallsAssumption, FS_Subset DEF Registered
  <1> QED
    BY <1>1, FS_Subset, FS_CardinalityType

OneCapped(c) ==
    (provider = "cloudflare" /\ MaxHostnames > 0 /\ call[c].pc = "post" /\ ~call[c].crowded) =>
        Cardinality(Registered) < MaxHostnames

\* Another request keeps what holds of it: on the same domain, it is disturbed.
LEMMA OtherRequestOK ==
    ASSUME IInv, NEW c \in Calls, Active(c), Others(c), Elsewhere(c), NEW x \in Calls, x # c
    PROVE  RequestOK(x)'
  <1>1. /\ call[x] \in Requests /\ SameRequest(call[x], call'[x]) /\ call'[x].rivals \subseteq call[x].rivals
        /\ RequestOK(x) /\ RequestOK(c) /\ UNCHANGED routed
    BY DEF Others, Elsewhere, IInv, TypeOK
  <1> SUFFICES ASSUME Active(x) PROVE RequestOK(x)'
    BY <1>1 DEF RequestOK, Active, SameRequest
  <1>2. CASE call[x].d = call[c].d
    <2>1. call[x].disturbed /\ call[c].disturbed
      BY <1>2 DEF IInv, OneAtATime, On
    <2>2. messy \subseteq messy'
      BY <2>1 DEF Elsewhere
    <2> QED
      BY <1>1, <2>1, <2>2 DEF RequestOK, SameRequest, Active
  <1>3. CASE call[x].d # call[c].d
    <2>1. call[x].d \in Domains
      BY <1>1 DEF RequestOK
    <2>2. call[x].d \in messy' <=> call[x].d \in messy
      BY <1>3 DEF Elsewhere
    <2>4. edge'[call[x].d] = edge[call[x].d] /\ call'[x].held = call[x].held
      BY <1>3, <2>1 DEF Elsewhere, Others
    <2>5. \A q \in Profile : <<call[x].d, q>> \in routes' <=> <<call[x].d, q>> \in routes
      BY <1>3, <2>1 DEF Elsewhere, exists, Route
    <2>3. ASSUME Steady(call[x]) PROVE Steady(call[x])'
      <3>1. call[x].p \in Profile /\ \A i \in 1..(call[x].k - 1) : Profiles[i] \in Profile
        BY <1>1 DEF Requests, Profile
      <3>2. /\ call'[x].d = call[x].d /\ call'[x].p = call[x].p /\ call'[x].k = call[x].k
            /\ call'[x].pc = call[x].pc
        BY <1>1 DEF SameRequest
      <3> QED
        BY <2>3, <2>4, <2>5, <3>1, <3>2 DEF Steady, exists, Route
    <2> QED
      BY <1>1, <2>1, <2>2, <2>3 DEF RequestOK, SameRequest, Active
  <1> QED
    BY <1>2, <1>3

LEMMA Frame ==
    ASSUME IInv, NEW c \in Calls, Active(c), NEW d, d = call[c].d, Others(c), Elsewhere(c), TypeOK',
           RequestOK(c)', DomainOK(d)', OneCapped(c)',
           \/ call'[c].pc = "idle"
           \/ call'[c].d = d /\ (call[c].disturbed => call'[c].disturbed)
    PROVE  IInv'
  <1>1. d \in Domains /\ \A x \in Calls \ {c} : SameRequest(call[x], call'[x])
    BY DEF IInv, RequestOK, Others
  <1>2. OneAtATime'
    <2> SUFFICES ASSUME NEW x \in Calls, NEW y \in Calls, x # y, Active(x)', On(y, call[x].d)'
                 PROVE  call'[x].disturbed
      BY DEF OneAtATime
    <2>1. CASE x # c /\ y # c
      BY <2>1, <1>1 DEF IInv, OneAtATime, On, Active, SameRequest
    <2>2. CASE x = c
      BY <2>2, <1>1 DEF IInv, OneAtATime, On, Active, SameRequest
    <2>3. CASE y = c
      BY <2>3, <1>1 DEF IInv, OneAtATime, On, Active, SameRequest
    <2> QED
      BY <2>1, <2>2, <2>3
  <1>3. \A x \in Calls : RequestOK(x)'
    BY OtherRequestOK
  <1>4. ASSUME NEW e \in Domains, e # d PROVE DomainOK(e)'
    <2>1. /\ edge'[e] = edge[e] /\ (e \in messy' <=> e \in messy) /\ UNCHANGED routed
          /\ \A q \in Profile : exists(e, q)' = exists(e, q)
      BY <1>4 DEF Elsewhere
    <2>2. \A x \in Calls : /\ On(x, e)' <=> On(x, e)
                           /\ On(x, e) => call'[x].pc = call[x].pc /\ call'[x].p = call[x].p
      BY <1>1, <1>4 DEF On, Active, SameRequest
    <2>3. DomainOK(e)
      BY DEF IInv
    <2>4. agree(e)' <=> agree(e)
      BY <2>1 DEF agree, exists, Route
    <2> QED
      BY <2>1, <2>2, <2>3, <2>4 DEF DomainOK, exists, Route
  <1>5. Capped'
    <2>1. ASSUME NEW x \in Calls, x # c, provider' = "cloudflare", MaxHostnames > 0, call'[x].pc = "post",
                 ~call'[x].crowded
          PROVE  Cardinality(Registered') < MaxHostnames
      <3>1. /\ call[x].pc = "post" /\ ~call[x].crowded /\ provider = "cloudflare"
            /\ ~(edge[d] = "absent" /\ edge'[d] # "absent")
        BY <2>1, <1>1 DEF Others, SameRequest, Elsewhere
      <3>2. Registered' \subseteq Registered
        BY <3>1 DEF Registered, Elsewhere, IInv, TypeOK, Statuses
      <3>3. Cardinality(Registered) < MaxHostnames
        BY <2>1, <3>1 DEF IInv, Capped
      <3> QED
        BY <3>2, <3>3, FewerRegistered, MaxAssumption
    <2> QED
      BY <2>1 DEF Capped, OneCapped
  <1> QED
    BY <1>1, <1>2, <1>3, <1>4, <1>5 DEF IInv

------------------------------------------------------------------------------
(* A step of the request itself                                            *)

Before == {"owner", "find", "quota", "post", "exists", "remove"}
Single(d) == \A p, q \in Profile : exists(d, p) /\ exists(d, q) => p = q
Mine(d, p) == \A q \in Profile : exists(d, q) => q = p

\* A step writes nothing but the registration and the routes of the request's domain.
Local(c) ==
    /\ UNCHANGED <<provider, routed>>
    /\ edge' \in [Domains -> Statuses \cup {"absent"}] /\ routes' \in SUBSET (Domains \X Profile)
    /\ \A e \in Domains : e # call[c].d => edge'[e] = edge[e]
    /\ \A e \in Domains, q \in Profile : e # call[c].d => exists(e, q)' = exists(e, q)

\* What a request finds; that it is the only one on its domain if nothing disturbs it.
LEMMA Known ==
    ASSUME IInv, NEW c \in Calls, Active(c), NEW d, d = call[c].d
    PROVE  /\ d \in Domains /\ call[c] \in Requests /\ RequestOK(c)
           /\ ~call[c].disturbed => \A x \in Calls : On(x, d) => x = c
           /\ d \notin messy => ~call[c].disturbed
           /\ routed /\ d \notin messy =>
                 /\ Single(d)
                 /\ call[c].pc # "owner" => Mine(d, call[c].p)
                 /\ call[c].pc \in Before => agree(d)
  <1>1. d \in Domains /\ call[c] \in Requests /\ RequestOK(c)
    BY DEF IInv, TypeOK, RequestOK
  <1>2. ~call[c].disturbed => \A x \in Calls : On(x, d) => x = c
    BY DEF IInv, OneAtATime
  <1>3. d \notin messy => ~call[c].disturbed
    BY <1>1 DEF RequestOK
  <1>4. On(c, d)
    BY DEF On
  <1>5. ASSUME routed, d \notin messy
        PROVE  /\ Single(d)
               /\ call[c].pc # "owner" => Mine(d, call[c].p)
               /\ call[c].pc \in Before => agree(d)
    <2>1. DomainOK(d)
      BY <1>1 DEF IInv
    <2>2. \A x \in Calls : On(x, d) => x = c
      BY <1>2, <1>3, <1>5
    <2> QED
      BY <1>4, <1>5, <2>1, <2>2 DEF DomainOK, Single, Mine, Before
  <1> QED
    BY <1>1, <1>2, <1>3, <1>5

LEMMA Moves ==
    ASSUME IInv, NEW c \in Calls, Active(c), NEW d, d = call[c].d, Others(c), Elsewhere(c), TypeOK',
           \/ call'[c].pc = "idle"
           \/ /\ call'[c].d = d /\ (call[c].disturbed => call'[c].disturbed)
              /\ RequestOK(c)' /\ OneCapped(c)',
           routed /\ d \notin messy' =>
               /\ ~call[c].disturbed /\ Single(d)'
               /\ call'[c].pc \notin {"idle", "owner"} => \A q \in Profile : exists(d, q)' => q = call'[c].p
               /\ call'[c].pc \in Before \cup {"idle"} => agree(d)'
    PROVE  IInv'
  <1>1. RequestOK(c)' /\ OneCapped(c)'
    BY DEF RequestOK, OneCapped, Active
  <1>2. ASSUME routed, d \notin messy' PROVE DomainOK(d)'
    <2>1. \A x \in Calls : On(x, d) => x = c
      BY <1>2, Known
    <2>2. \A x \in Calls : On(x, d)' => x = c /\ call'[c].pc # "idle"
      BY <2>1 DEF On, Others, SameRequest, Active
    <2>3. Single(d)' /\ (call'[c].pc \notin {"idle", "owner"} => \A q \in Profile : exists(d, q)' => q = call'[c].p)
      BY <1>2
    <2>4. ASSUME \A x \in Calls : On(x, d)' => call'[x].pc \in Before PROVE agree(d)'
      <3>1. call'[c].pc \in Before \cup {"idle"}
        <4>1. CASE call'[c].pc = "idle"
          BY <4>1
        <4>2. CASE call'[c].pc # "idle"
          BY <2>4, <4>2 DEF On, Active
        <4> QED
          BY <4>1, <4>2
      <3> QED
        BY <1>2, <3>1
    <2> QED
      BY <2>2, <2>3, <2>4 DEF DomainOK, Single, Before
  <1>3. DomainOK(d)'
    BY <1>2 DEF DomainOK, Elsewhere
  <1> QED
    BY <1>1, <1>3, Frame

\* A request that ends with an answer keeps its domain in the messy ones but for a tidy create.
LEMMA Ends ==
    ASSUME IInv, NEW c \in Calls, Active(c),
           NEW ans \in {"ok", "active", "missing", "forbidden", "quota"}, End(c, ans),
           Local(c),
           NEW d, d = call[c].d,
           routed /\ ~call[c].disturbed /\ (d \notin messy \/ (call[c].op = "create" /\ ans = "ok" /\ Tidy(c))) =>
               Single(d)' /\ agree(d)'
    PROVE  IInv'
  <1>1. d \in Domains /\ (d \notin messy => ~call[c].disturbed)
    BY Known
  <1>2. call' \in [Calls -> Requests] /\ Others(c) /\ call'[c].pc = "idle"
    <2>1. [Idle EXCEPT !.ans = ans] \in Requests /\ [Idle EXCEPT !.ans = ans].pc = "idle"
      BY Records
    <2>2. Goto(c, [Idle EXCEPT !.ans = ans]) /\ TypeOK
      BY DEF End, IInv
    <2> QED
      BY <2>1, <2>2, GotoFacts DEF SameRequest
  <1>3. messy' = IF call[c].op = "create" /\ ans = "ok" /\ Tidy(c) THEN messy \ {d} ELSE messy
    BY DEF End
  <1>4. Elsewhere(c)
    BY <1>3 DEF Local, Elsewhere, Tidy
  <1>5. TypeOK'
    BY <1>1, <1>2, <1>3 DEF Local, IInv, TypeOK
  <1>6. routed /\ d \notin messy' => ~call[c].disturbed /\ Single(d)' /\ agree(d)'
    BY <1>1, <1>3 DEF Tidy
  <1> QED
    BY <1>2, <1>4, <1>5, <1>6, Moves

\* An upstream error, whatever the call did before it failed.
LEMMA Breaks ==
    ASSUME IInv, NEW c \in Calls, Active(c), NEW ans \in {"error", "failed"}, Break(c, ans),
           Local(c)
    PROVE  IInv'
  <1> DEFINE d == call[c].d
  <1>1. d \in Domains
    BY Known
  <1>2. call' \in [Calls -> Requests] /\ Others(c) /\ call'[c].pc = "idle"
    <2>1. [Idle EXCEPT !.ans = ans] \in Requests /\ [Idle EXCEPT !.ans = ans].pc = "idle"
      BY Records
    <2>2. Goto(c, [Idle EXCEPT !.ans = ans]) /\ TypeOK
      BY DEF Break, IInv
    <2> QED
      BY <2>1, <2>2, GotoFacts DEF SameRequest
  <1>3. messy' = messy \cup {d}
    BY DEF Break
  <1>4. Elsewhere(c)
    BY <1>3 DEF Local, Elsewhere
  <1>5. TypeOK'
    BY <1>1, <1>2, <1>3 DEF Local, IInv, TypeOK
  <1>6. d \in messy'
    BY <1>3
  <1> QED
    BY <1>2, <1>4, <1>5, <1>6, Moves

\* A request that goes on as rec.
LEMMA Stays ==
    ASSUME IInv, NEW c \in Calls, Active(c), NEW rec \in Requests, Goto(c, rec), Local(c),
           NEW d, d = call[c].d,
           messy' \in {messy, messy \cup {d}},
           rec.pc # "idle", rec.d = d, rec.p = call[c].p, rec.op = call[c].op, rec.ans = call[c].ans,
           rec.rivals \subseteq call[c].rivals,
           call[c].disturbed => rec.disturbed, call[c].misread => rec.misread,
           rec.misread => rec.disturbed, rec.disturbed => d \in messy',
           rec.pc = "exists" => rec.op = "get", rec.pc \in {"remove", "lookup", "delete"} => rec.op = "delete",
           rec.pc = "owner" =>
               rec.misread \/ \A i \in 1..(rec.k - 1), q \in rec.rivals :
                                  Rival(routes', d, rec.p, q) => q # Profiles[i],
           routed /\ rec.pc # "owner" => rec.misread \/ \A q \in rec.rivals : ~Rival(routes', d, rec.p, q),
           ~rec.disturbed => Steady(rec)',
           rec.pc = "post" /\ ~rec.crowded =>
               provider # "cloudflare" \/ MaxHostnames = 0 \/ Cardinality(Registered') < MaxHostnames,
           routed /\ d \notin messy' =>
               Single(d)' /\ (rec.pc # "owner" => Mine(d, rec.p)') /\ (rec.pc \in Before => agree(d)')
    PROVE  IInv'
  <1>1. /\ d \in Domains /\ (d \notin messy => ~call[c].disturbed) /\ RequestOK(c)
    BY Known
  <1>2. /\ call' \in [Calls -> Requests] /\ Others(c)
        /\ SameRequest(rec, call'[c]) /\ call'[c].held = rec.held
        /\ call'[c].rivals = {q \in rec.rivals : Rival(routes', rec.d, rec.p, q)}
        /\ call'[c].crowded = (rec.pc = "post" /\ rec.crowded)
    BY GotoFacts DEF IInv
  <1>3. TypeOK'
    BY <1>1, <1>2 DEF Local, IInv, TypeOK
  <1>4. Elsewhere(c)
    BY DEF Local, Elsewhere
  <1>5. call'[c].d = d /\ call'[c].p = rec.p /\ call'[c].pc = rec.pc /\ (call[c].disturbed => call'[c].disturbed)
    BY <1>2 DEF SameRequest
  <1>6. RequestOK(c)'
    <2>1. Steady(rec)' => Steady(call[c])'
      BY <1>2 DEF Steady, SameRequest, exists, Route
    <2>2. call'[c].pc = "owner" =>
             call'[c].misread \/ \A i \in 1..(call'[c].k - 1) : Profiles[i] \notin call'[c].rivals
      BY <1>2 DEF SameRequest
    <2>3. routed' /\ call'[c].pc # "owner" => call'[c].rivals = {} \/ call'[c].misread
      BY <1>2 DEF SameRequest, Local
    <2>4. call'[c].d \in Domains /\ call'[c].ans = "none"
      BY <1>1, <1>2 DEF SameRequest, RequestOK
    <2>5. /\ call'[c].pc = "exists" => call'[c].op = "get"
          /\ call'[c].pc \in {"remove", "lookup", "delete"} => call'[c].op = "delete"
          /\ call'[c].misread => call'[c].disturbed
          /\ call'[c].disturbed => call'[c].d \in messy'
          /\ ~call'[c].disturbed => Steady(rec)'
      BY <1>2 DEF SameRequest
    <2> QED
      BY <2>1, <2>2, <2>3, <2>4, <2>5 DEF RequestOK
  <1>7. OneCapped(c)'
    <2> SUFFICES ASSUME provider' = "cloudflare", MaxHostnames > 0, call'[c].pc = "post", ~call'[c].crowded
                 PROVE  Cardinality(Registered') < MaxHostnames
      BY DEF OneCapped
    <2>1. rec.pc = "post" /\ ~rec.crowded
      BY <1>2, <1>5
    <2>2. provider = "cloudflare" /\ MaxHostnames # 0
      BY MaxAssumption DEF Local
    <2> QED
      BY <2>1, <2>2
  <1>8. routed /\ d \notin messy' =>
           /\ ~call[c].disturbed /\ Single(d)'
           /\ call'[c].pc \notin {"idle", "owner"} => \A q \in Profile : exists(d, q)' => q = call'[c].p
           /\ call'[c].pc \in Before \cup {"idle"} => agree(d)'
    BY <1>1, <1>5 DEF Mine
  <1> QED
    BY <1>3, <1>4, <1>2, <1>5, <1>6, <1>7, <1>8, Moves

\* A step that writes neither half.
LEMMA Untouched ==
    ASSUME IInv, UNCHANGED <<provider, routed, edge, routes>>
    PROVE  /\ \A c \in Calls : Local(c)
           /\ Registered' = Registered
           /\ \A d \in Domains, q \in Profile : exists(d, q)' = exists(d, q)
           /\ \A d \in Domains : /\ Single(d)' <=> Single(d)
                                 /\ agree(d)' <=> agree(d)
                                 /\ \A p \in Profile : Mine(d, p)' <=> Mine(d, p)
           /\ \A r \in Requests : Steady(r)' <=> Steady(r)
  <1>1. \A d \in Domains, q \in Profile : exists(d, q)' = exists(d, q)
    BY DEF exists, Route
  <1>2. \A c \in Calls : Local(c)
    BY <1>1 DEF Local, IInv, TypeOK
  <1>3. \A r \in Requests : Steady(r)' <=> Steady(r)
    BY DEF Steady, exists, Route
  <1>4. Registered' = Registered
    BY DEF Registered
  <1> QED
    BY <1>1, <1>2, <1>3, <1>4 DEF Single, agree, Mine, exists, Route

\* The request goes on with no more than another pc.
LEMMA Turns ==
    ASSUME IInv, NEW c \in Calls, NEW pc \in Phases, NEW rec, rec = [call[c] EXCEPT !.pc = pc]
    PROVE  /\ rec \in Requests /\ rec.pc = pc /\ rec.op = call[c].op /\ rec.d = call[c].d /\ rec.p = call[c].p
           /\ rec.k = call[c].k /\ rec.ans = call[c].ans /\ rec.held = call[c].held
           /\ rec.rivals = call[c].rivals /\ rec.misread = call[c].misread
           /\ rec.disturbed = call[c].disturbed /\ rec.crowded = call[c].crowded
  <1>1. call[c] \in Requests
    BY DEF IInv, TypeOK
  <1> QED
    BY <1>1 DEF Requests

\* The request goes on past the owner check and writes neither half.
LEMMA GoesOn ==
    ASSUME IInv, NEW c \in Calls, Active(c), call[c].pc # "owner", UNCHANGED <<provider, routed, edge, routes>>,
           NEW rec \in Requests, Goto(c, rec), messy' \in {messy, messy \cup {call[c].d}},
           rec.pc \notin {"idle", "owner"}, rec.d = call[c].d, rec.p = call[c].p, rec.op = call[c].op,
           rec.ans = call[c].ans, rec.rivals = call[c].rivals, rec.misread = call[c].misread,
           call[c].disturbed => rec.disturbed, rec.disturbed => call[c].disturbed \/ call[c].d \in messy',
           rec.pc = "exists" => rec.op = "get", rec.pc \in {"remove", "lookup", "delete"} => rec.op = "delete",
           rec.pc = "post" /\ ~rec.crowded =>
               provider # "cloudflare" \/ MaxHostnames = 0 \/ Cardinality(Registered) < MaxHostnames,
           rec.pc \in Before => call[c].pc \in Before,
           ~rec.disturbed => Steady(rec)
    PROVE  IInv'
  <1>1. PICK d : d = call[c].d
    OBVIOUS
  <1>2. /\ d \in Domains /\ RequestOK(c) /\ (d \notin messy => ~call[c].disturbed)
        /\ routed /\ d \notin messy => /\ Single(d) /\ Mine(d, call[c].p)
                                       /\ call[c].pc \in Before => agree(d)
    BY <1>1, Known
  <1>3. /\ Local(c) /\ Registered' = Registered /\ (Single(d)' <=> Single(d)) /\ (agree(d)' <=> agree(d))
        /\ \A p \in Profile : Mine(d, p)' <=> Mine(d, p)
        /\ Steady(rec)' <=> Steady(rec)
    BY <1>2, Untouched
  <1>4. rec.p \in Profile
    BY DEF Requests
  <1>5. routed => rec.misread \/ rec.rivals = {}
    BY <1>2 DEF RequestOK, Active
  <1>6. rec.misread => rec.disturbed
    BY <1>2 DEF RequestOK, Active
  <1>7. rec.disturbed => d \in messy'
    BY <1>1, <1>2 DEF RequestOK, Active
  <1>8. messy' \in {messy, messy \cup {d}}
    BY <1>1
  <1>9. routed /\ d \notin messy' => Single(d)' /\ Mine(d, rec.p)' /\ (rec.pc \in Before => agree(d)')
    BY <1>2, <1>3, <1>4, <1>8
  <1> QED
    BY <1>1, <1>3, <1>5, <1>6, <1>7, <1>8, <1>9, Stays

LEMMA FindStep ==
    ASSUME IInv, NEW c \in Calls, Find(c)
    PROVE  IInv'
  <1>1. /\ Active(c) /\ call[c].pc = "find" /\ UNCHANGED <<edge, routes, provider, routed, messy>>
    BY DEF Find, Active
  <1>2. PICK pc \in {"ensure", "post", "quota"} :
           /\ At(c, pc)
           /\ pc = "ensure" <=> edge[call[c].d] # "absent"
           /\ pc = "post" => MaxHostnames = 0
    BY DEF Find
  <1>3. PICK rec : rec = [call[c] EXCEPT !.pc = pc]
    OBVIOUS
  <1>4. Goto(c, rec) /\ pc \in Phases
    BY <1>2, <1>3 DEF At, Phases
  <1>5. /\ rec \in Requests /\ rec.pc = pc /\ rec.op = call[c].op /\ rec.d = call[c].d /\ rec.p = call[c].p
        /\ rec.ans = call[c].ans /\ rec.rivals = call[c].rivals /\ rec.misread = call[c].misread
        /\ rec.disturbed = call[c].disturbed
    BY <1>3, <1>4, Turns
  <1>6. Steady(rec)
    BY <1>2, <1>5 DEF Steady
  <1> QED
    BY <1>1, <1>2, <1>4, <1>5, <1>6, GoesOn DEF Before

LEMMA QuotaStep ==
    ASSUME IInv, NEW c \in Calls, Quota(c)
    PROVE  IInv'
  <1>1. /\ Active(c) /\ call[c].pc = "quota" /\ UNCHANGED <<edge, routes, provider, routed>>
    BY DEF Quota, Active
  <1>2. PICK d : d = call[c].d
    OBVIOUS
  <1>3. /\ d \in Domains /\ RequestOK(c) /\ (d \notin messy => ~call[c].disturbed)
        /\ routed /\ d \notin messy => Single(d) /\ agree(d)
    BY <1>1, <1>2, Known DEF Before
  <1>4. CASE Cardinality(Registered) >= MaxHostnames
    <2>1. End(c, "quota")
      BY <1>4 DEF Quota
    <2>2. routed /\ d \notin messy => Single(d)' /\ agree(d)'
      BY <1>1, <1>3, Untouched
    <2> QED
      BY <1>1, <1>2, <2>1, <2>2, Untouched, Ends
  <1>5. CASE ~(Cardinality(Registered) >= MaxHostnames)
    <2>1. At(c, "post") /\ UNCHANGED messy
      BY <1>5 DEF Quota
    <2>2. PICK rec : rec = [call[c] EXCEPT !.pc = "post"]
      OBVIOUS
    <2>3. Goto(c, rec) /\ "post" \in Phases
      BY <2>1, <2>2 DEF At, Phases
    <2>4. Cardinality(Registered) < MaxHostnames
      BY <1>1, <1>5, FewerRegistered, Untouched, MaxAssumption
    <2>5. /\ rec \in Requests /\ rec.pc = "post" /\ rec.op = call[c].op /\ rec.d = call[c].d /\ rec.p = call[c].p
          /\ rec.ans = call[c].ans /\ rec.rivals = call[c].rivals /\ rec.misread = call[c].misread
          /\ rec.disturbed = call[c].disturbed
      BY <2>2, <2>3, Turns
    <2>6. ~rec.disturbed => Steady(rec)
      BY <1>1, <1>3, <2>5 DEF Steady, RequestOK
    <2> QED
      BY <1>1, <2>1, <2>3, <2>4, <2>5, <2>6, GoesOn DEF Before
  <1> QED
    BY <1>4, <1>5
\* The domain is registered, whoever had registered it.
LEMMA Registers ==
    ASSUME IInv, NEW c \in Calls, call[c].pc \in {"find", "post"}, At(c, "ensure"),
           UNCHANGED <<provider, routed, routes, messy>>,
           edge' \in [Domains -> Statuses \cup {"absent"}], edge'[call[c].d] # "absent",
           \A e \in Domains : e # call[c].d => edge'[e] = edge[e]
    PROVE  IInv'
  <1>1. PICK d : d = call[c].d
    OBVIOUS
  <1>2. Active(c) /\ call[c].pc # "owner"
    BY DEF Active
  <1>3. /\ d \in Domains /\ RequestOK(c) /\ (d \notin messy => ~call[c].disturbed)
        /\ routed /\ d \notin messy => Single(d) /\ Mine(d, call[c].p)
    BY <1>1, <1>2, Known
  <1>4. \A e \in Domains, q \in Profile : exists(e, q)' = exists(e, q)
    BY DEF exists, Route
  <1>5. Local(c)
    BY <1>4 DEF Local, IInv, TypeOK
  <1>6. PICK rec : rec = [call[c] EXCEPT !.pc = "ensure"]
    OBVIOUS
  <1>7. Goto(c, rec) /\ "ensure" \in Phases
    BY <1>6 DEF At, Phases
  <1>8. /\ rec \in Requests /\ rec.pc = "ensure" /\ rec.op = call[c].op /\ rec.d = d /\ rec.p = call[c].p
        /\ rec.ans = call[c].ans /\ rec.rivals = call[c].rivals /\ rec.misread = call[c].misread
        /\ rec.disturbed = call[c].disturbed
    BY <1>1, <1>6, <1>7, Turns
  <1>9. Steady(rec)'
    BY <1>1, <1>8 DEF Steady
  <1>10. routed /\ d \notin messy => Single(d)' /\ Mine(d, rec.p)'
    BY <1>3, <1>8 DEF Single, Mine, exists, Route
  <1>11. routed => rec.misread \/ rec.rivals = {}
    BY <1>2, <1>3, <1>8 DEF RequestOK
  <1>12. /\ rec.misread => rec.disturbed
         /\ rec.disturbed => d \in messy'
    BY <1>1, <1>2, <1>3, <1>8 DEF RequestOK
  <1> QED
    BY <1>1, <1>2, <1>5, <1>7, <1>8, <1>9, <1>10, <1>11, <1>12, Stays DEF Before

LEMMA PostStep ==
    ASSUME IInv, NEW c \in Calls, Post(c) \/ StubCreate(c)
    PROVE  IInv'
  <1>1. /\ call[c].pc \in {"find", "post"} /\ At(c, "ensure") /\ UNCHANGED <<provider, routed, routes, messy>>
        /\ edge \in [Domains -> Statuses \cup {"absent"}]
    BY DEF Post, StubCreate, IInv, TypeOK
  <1>2. call[c].d \in Domains
    BY <1>1 DEF IInv, RequestOK, Active
  <1>3. PICK s \in Statuses : edge' = [edge EXCEPT ![call[c].d] = s]
    <2>1. CASE Post(c)
      BY <2>1 DEF Post, Statuses
    <2>2. CASE StubCreate(c)
      BY <2>2, <1>1, <1>2 DEF StubCreate, Statuses
    <2> QED
      BY <2>1, <2>2
  <1> QED
    BY <1>1, <1>2, <1>3, Registers DEF Statuses

LEMMA PostNotFoundStep ==
    ASSUME IInv, NEW c \in Calls, PostNotFound(c)
    PROVE  IInv'
  <1>1. /\ Active(c) /\ call[c].pc = "post" /\ UNCHANGED <<edge, routes, provider, routed>>
        /\ messy' = messy \cup {call[c].d} /\ call[c] \in Requests
    BY DEF PostNotFound, Active, IInv, TypeOK
  <1>2. PICK rec : rec = [call[c] EXCEPT !.pc = "ensure", !.disturbed = TRUE]
    OBVIOUS
  <1>3. /\ rec \in Requests /\ rec.pc = "ensure" /\ rec.op = call[c].op /\ rec.d = call[c].d /\ rec.p = call[c].p
        /\ rec.ans = call[c].ans /\ rec.rivals = call[c].rivals /\ rec.misread = call[c].misread
        /\ rec.disturbed = TRUE
    BY <1>1, <1>2 DEF Requests, Phases
  <1>4. Goto(c, rec)
    BY <1>2 DEF PostNotFound
  <1> QED
    BY <1>1, <1>3, <1>4, GoesOn DEF Before

\* A refusal changes nothing.
LEMMA BreaksHere ==
    ASSUME IInv, NEW c \in Calls, Active(c), Break(c, "error"), UNCHANGED <<provider, routed, edge, routes>>
    PROVE  IInv'
  BY Untouched, Breaks DEF Local

LEMMA EnsureStep ==
    ASSUME IInv, NEW c \in Calls, Ensure(c)
    PROVE  IInv'
  <1> DEFINE p == call[c].p
  <1>1. /\ Active(c) /\ call[c].pc = "ensure" /\ UNCHANGED <<edge, provider, routed>>
    BY DEF Ensure, Active
  <1>2. PICK d : d = call[c].d
    OBVIOUS
  <1>3. /\ d \in Domains /\ p \in Profile /\ RequestOK(c) /\ (d \notin messy => ~call[c].disturbed)
        /\ ~call[c].disturbed => edge[d] # "absent"
        /\ routed /\ d \notin messy => Mine(d, p)
    BY <1>1, <1>2, Known DEF Requests, RequestOK, Steady
  <1>4. CASE End(c, "ok") /\ ((~routed /\ routes' = routes) \/ routes' = routes \cup {Route(d, p)})
    <2>1. Local(c)
      BY <1>1, <1>2, <1>3, <1>4 DEF Local, IInv, TypeOK, exists, Route
    <2>2. ASSUME routed, ~call[c].disturbed, d \notin messy \/ Tidy(c)
          PROVE  Single(d)' /\ agree(d)'
      <3>1. Mine(d, p)
        BY <1>2, <1>3, <2>2 DEF Tidy, Mine
      <3>2. \A q \in Profile : <<d, q>> \in routes' <=> q = p
        BY <1>3, <1>4, <2>2, <3>1 DEF Mine, exists, Route
      <3> QED
        BY <1>1, <1>3, <2>2, <3>2 DEF Single, agree, exists, Route
    <2> QED
      BY <1>1, <1>2, <1>4, <2>1, <2>2, Ends DEF Local
  <1>5. CASE Route(d, p) \in routes /\ UNCHANGED <<routes, messy>> /\ At(c, "read")
    <2>1. PICK rec : rec = [call[c] EXCEPT !.pc = "read"]
      OBVIOUS
    <2>2. Goto(c, rec) /\ "read" \in Phases
      BY <1>5, <2>1 DEF At, Phases
    <2>3. /\ rec \in Requests /\ rec.pc = "read" /\ rec.op = call[c].op /\ rec.d = d /\ rec.p = p
          /\ rec.ans = call[c].ans /\ rec.rivals = call[c].rivals /\ rec.misread = call[c].misread
          /\ rec.disturbed = call[c].disturbed
      BY <1>2, <2>1, <2>2, Turns
    <2>4. ~rec.disturbed => Steady(rec)
      BY <1>3, <1>5, <2>3 DEF Steady, exists
    <2> QED
      BY <1>1, <1>2, <1>5, <2>2, <2>3, <2>4, GoesOn DEF Before
  <1> QED
    BY <1>2, <1>4, <1>5 DEF Ensure
LEMMA ReadStep ==
    ASSUME IInv, NEW c \in Calls, Read(c)
    PROVE  IInv'
  <1>1. /\ Active(c) /\ call[c].pc = "read" /\ UNCHANGED <<edge, routes, provider, routed>>
        /\ call[c] \in Requests /\ RequestOK(c)
    BY DEF Read, Active, IInv, TypeOK
  <1>2. CASE exists(call[c].d, call[c].p)
    <2>1. PICK rec : rec = [call[c] EXCEPT !.pc = "put", !.held = TRUE]
      OBVIOUS
    <2>2. Goto(c, rec) /\ UNCHANGED messy
      BY <1>2, <2>1 DEF Read
    <2>3. /\ rec \in Requests /\ rec.pc = "put" /\ rec.op = call[c].op /\ rec.d = call[c].d /\ rec.p = call[c].p
          /\ rec.ans = call[c].ans /\ rec.rivals = call[c].rivals /\ rec.misread = call[c].misread
          /\ rec.disturbed = call[c].disturbed /\ rec.held = TRUE
      BY <1>1, <2>1 DEF Requests, Phases
    <2>4. ~rec.disturbed => Steady(rec)
      BY <1>1, <1>2, <2>3 DEF RequestOK, Steady
    <2> QED
      BY <1>1, <2>2, <2>3, <2>4, GoesOn DEF Before
  <1>3. CASE ~exists(call[c].d, call[c].p)
    BY <1>1, <1>3, BreaksHere DEF Read
  <1> QED
    BY <1>2, <1>3

LEMMA PutStep ==
    ASSUME IInv, NEW c \in Calls, Put(c)
    PROVE  IInv'
  <1>1. /\ Active(c) /\ call[c].pc = "put" /\ UNCHANGED <<edge, routes, provider, routed>>
        /\ call \in [Calls -> Requests]
    BY DEF Put, Active, IInv, TypeOK
  <1>2. PICK d : d = call[c].d
    OBVIOUS
  <1>3. /\ d \in Domains /\ call[c].p \in Profile /\ (d \notin messy => ~call[c].disturbed)
        /\ ~call[c].disturbed => edge[d] # "absent" /\ exists(d, call[c].p)
        /\ routed /\ d \notin messy => Mine(d, call[c].p)
    BY <1>1, <1>2, Known DEF Requests, RequestOK, Steady
  <1>4. CASE ~call[c].held
    BY <1>1, <1>4, BreaksHere DEF Put
  <1>5. CASE call[c].held
    <2> DEFINE taken(x) == call[x].pc = "put" /\ call[x].d = call[c].d /\ call[x].p = call[c].p
    <2>1. /\ call' = [x \in Calls |-> IF x = c THEN [Idle EXCEPT !.ans = "ok"]
                                      ELSE [call[x] EXCEPT !.held = @ /\ ~taken(x)]]
          /\ messy' = IF Tidy(c) THEN messy \ {d} ELSE messy
      BY <1>2, <1>5 DEF Put
    <2>2. ASSUME NEW x \in Calls, x # c
          PROVE  /\ call'[x] \in Requests /\ SameRequest(call[x], call'[x])
                 /\ call'[x].rivals = call[x].rivals /\ call'[x].crowded = call[x].crowded
                 /\ call'[x].held = (call[x].held /\ ~taken(x))
      <3>1. PICK h \in BOOLEAN : h = (call[x].held /\ ~taken(x))
        OBVIOUS
      <3>2. call'[x] = [call[x] EXCEPT !.held = h]
        BY <2>1, <2>2, <3>1
      <3>3. call[x] \in Requests
        BY <1>1
      <3> HIDE DEF taken
      <3> QED
        BY <3>1, <3>2, <3>3 DEF Requests, SameRequest
    <2>3. call'[c] = [Idle EXCEPT !.ans = "ok"]
      BY <2>1
    <2>4. call'[c] \in Requests /\ call'[c].pc = "idle"
      BY <2>3, Records
    <2>5. call' \in [Calls -> Requests]
      <3>1. \A x \in Calls : call'[x] \in Requests
        BY <2>2, <2>4
      <3>2. call' = [x \in Calls |-> call'[x]]
        BY <2>1
      <3> HIDE DEF taken
      <3> QED
        BY <3>1, <3>2
    <2>6. Others(c)
      <3>1. ASSUME NEW x \in Calls, x # c, call[x].d # call[c].d PROVE call'[x].held = call[x].held
        <4>1. call[x] \in Requests /\ ~taken(x)
          BY <1>1, <3>1
        <4> QED
          BY <2>2, <3>1, <4>1 DEF Requests
      <3>2. ASSUME NEW x \in Calls, x # c
            PROVE  call'[x].crowded = (call[x].crowded \/ (edge[call[c].d] = "absent" /\ edge'[call[c].d] # "absent"))
        <4>1. call[x] \in Requests /\ ~(edge[call[c].d] = "absent" /\ edge'[call[c].d] # "absent")
          BY <1>1
        <4> QED
          BY <2>2, <3>2, <4>1 DEF Requests
      <3> QED
        BY <2>2, <3>1, <3>2 DEF Others
    <2>7. Local(c)
      BY <1>1, Untouched
    <2>8. Elsewhere(c)
      BY <1>2, <2>1, <2>7 DEF Local, Elsewhere, Tidy
    <2>9. TypeOK'
      BY <1>3, <2>1, <2>5, <2>7 DEF Local, IInv, TypeOK
    <2>10. ASSUME routed, d \notin messy' PROVE ~call[c].disturbed /\ Single(d)' /\ agree(d)'
      <3>1. ~call[c].disturbed
        BY <1>3, <2>1, <2>10 DEF Tidy
      <3>2. Mine(d, call[c].p)
        BY <1>2, <1>3, <2>1, <2>10 DEF Tidy, Mine
      <3>3. Single(d) /\ agree(d)
        BY <1>3, <3>1, <3>2 DEF Single, Mine, agree
      <3> QED
        BY <1>1, <1>3, <3>1, <3>3, Untouched
    <2> QED
      BY <1>1, <1>2, <2>4, <2>6, <2>8, <2>9, <2>10, Moves
  <1> QED
    BY <1>4, <1>5
LEMMA GetStep ==
    ASSUME IInv, NEW c \in Calls, GetFind(c) \/ GetExists(c)
    PROVE  IInv'
  <1>1. /\ Active(c) /\ call[c].pc \in {"find", "exists"} /\ UNCHANGED <<edge, routes, provider, routed>>
        /\ call[c] \in Requests /\ RequestOK(c) /\ call[c].op = "get"
    BY DEF GetFind, GetExists, Active, IInv, TypeOK, RequestOK
  <1>2. PICK d : d = call[c].d
    OBVIOUS
  <1>3. /\ d \in Domains /\ edge[d] \in Statuses \cup {"absent"}
        /\ routed /\ d \notin messy => Single(d) /\ agree(d)
    BY <1>1, <1>2, Known DEF IInv, TypeOK, Before
  <1>4. CASE \E ans \in {"missing", "active", "ok"} : End(c, ans)
    <2>1. PICK ans \in {"missing", "active", "ok"} : End(c, ans)
      BY <1>4
    <2>2. routed /\ d \notin messy => Single(d)' /\ agree(d)'
      BY <1>1, <1>3, Untouched
    <2> QED
      BY <1>1, <1>2, <2>1, <2>2, Untouched, Ends
  <1>5. CASE Goto(c, [call[c] EXCEPT !.pc = "exists", !.seen = toRecord(call[c].d)]) /\ UNCHANGED messy
    <2>1. PICK rec : rec = [call[c] EXCEPT !.pc = "exists", !.seen = edge[d]]
      OBVIOUS
    <2>2. Goto(c, rec)
      BY <1>2, <1>5, <2>1 DEF toRecord
    <2>3. /\ rec \in Requests /\ rec.pc = "exists" /\ rec.op = call[c].op /\ rec.d = call[c].d /\ rec.p = call[c].p
          /\ rec.ans = call[c].ans /\ rec.rivals = call[c].rivals /\ rec.misread = call[c].misread
          /\ rec.disturbed = call[c].disturbed
      BY <1>1, <1>3, <2>1 DEF Requests, Phases
    <2>4. Steady(rec)
      BY <2>3 DEF Steady
    <2> QED
      BY <1>1, <1>5, <2>2, <2>3, <2>4, GoesOn DEF Before
  <1> QED
    BY <1>4, <1>5 DEF GetFind, GetExists, compose

LEMMA RemoveStep ==
    ASSUME IInv, NEW c \in Calls, Remove(c)
    PROVE  IInv'
  <1> DEFINE p == call[c].p
  <1>1. /\ Active(c) /\ call[c].pc = "remove" /\ UNCHANGED <<edge, provider, routed, messy>>
        /\ At(c, "lookup")
    BY DEF Remove, Active
  <1>2. PICK d : d = call[c].d
    OBVIOUS
  <1>3. /\ d \in Domains /\ p \in Profile /\ RequestOK(c) /\ (d \notin messy => ~call[c].disturbed)
        /\ routed /\ d \notin messy => Mine(d, p)
    BY <1>1, <1>2, Known DEF Requests
  <1>4. routes' = routes \ {<<d, p>>}
    BY <1>2 DEF Remove, Route
  <1>5. Local(c)
    BY <1>1, <1>2, <1>4 DEF Local, IInv, TypeOK, exists, Route
  <1>6. PICK rec : rec = [call[c] EXCEPT !.pc = "lookup"]
    OBVIOUS
  <1>7. Goto(c, rec) /\ "lookup" \in Phases
    BY <1>1, <1>6 DEF At, Phases
  <1>8. /\ rec \in Requests /\ rec.pc = "lookup" /\ rec.op = call[c].op /\ rec.d = d /\ rec.p = p
        /\ rec.ans = call[c].ans /\ rec.rivals = call[c].rivals /\ rec.misread = call[c].misread
        /\ rec.disturbed = call[c].disturbed
    BY <1>2, <1>6, <1>7, Turns
  <1>9. Steady(rec)'
    BY <1>4, <1>8 DEF Steady, exists, Route
  <1>10. routed /\ d \notin messy => Single(d)' /\ Mine(d, rec.p)'
    BY <1>3, <1>4, <1>8 DEF Single, Mine, exists, Route
  <1>11. routed => rec.misread \/ rec.rivals = {}
    BY <1>1, <1>3, <1>8 DEF RequestOK
  <1>12. /\ rec.misread => rec.disturbed
         /\ rec.disturbed => d \in messy'
         /\ rec.op = "delete"
    BY <1>1, <1>2, <1>3, <1>8 DEF RequestOK
  <1> QED
    BY <1>1, <1>2, <1>5, <1>7, <1>8, <1>9, <1>10, <1>11, <1>12, Stays, ZenonT(30) DEF Before

\* A delete that has removed the route ends when the registration is gone too.
LEMMA Deleted ==
    ASSUME IInv, NEW c \in Calls, call[c].pc \in {"lookup", "delete"}, End(c, "ok"),
           UNCHANGED <<provider, routed, routes>>,
           edge' = edge \/ edge' = [edge EXCEPT ![call[c].d] = "absent"],
           ~call[c].disturbed => edge'[call[c].d] = "absent"
    PROVE  IInv'
  <1>1. Active(c) /\ call[c].pc # "owner"
    BY DEF Active
  <1>2. PICK d : d = call[c].d
    OBVIOUS
  <1>3. /\ d \in Domains /\ call[c].p \in Profile /\ call[c].op = "delete"
        /\ (d \notin messy => ~call[c].disturbed)
        /\ ~call[c].disturbed => ~exists(d, call[c].p)
        /\ routed /\ d \notin messy => Mine(d, call[c].p)
    BY <1>1, <1>2, Known DEF Requests, RequestOK, Steady
  <1>4. Local(c)
    BY <1>2, <1>3 DEF Local, IInv, TypeOK, exists, Route
  <1>5. routed /\ d \notin messy => Single(d)' /\ agree(d)'
    BY <1>2, <1>3 DEF Single, Mine, agree, exists, Route
  <1> QED
    BY <1>1, <1>2, <1>3, <1>4, <1>5, Ends

LEMMA LookupStep ==
    ASSUME IInv, NEW c \in Calls, Lookup(c)
    PROVE  IInv'
  <1>1. /\ Active(c) /\ call[c].pc = "lookup" /\ UNCHANGED <<routes, provider, routed>>
        /\ call[c] \in Requests /\ RequestOK(c) /\ call[c].d \in Domains
        /\ edge \in [Domains -> Statuses \cup {"absent"}]
    BY DEF Lookup, Active, IInv, TypeOK, RequestOK
  <1>2. CASE edge[call[c].d] = "absent" \/ provider = "stub"
    BY <1>1, <1>2, Deleted DEF Lookup
  <1>3. CASE ~(edge[call[c].d] = "absent" \/ provider = "stub")
    <2>1. PICK rec : rec = [call[c] EXCEPT !.pc = "delete", !.held = TRUE]
      OBVIOUS
    <2>2. Goto(c, rec) /\ UNCHANGED <<messy, edge>>
      BY <1>3, <2>1 DEF Lookup
    <2>3. /\ rec \in Requests /\ rec.pc = "delete" /\ rec.op = call[c].op /\ rec.d = call[c].d /\ rec.p = call[c].p
          /\ rec.ans = call[c].ans /\ rec.rivals = call[c].rivals /\ rec.misread = call[c].misread
          /\ rec.disturbed = call[c].disturbed /\ rec.held = TRUE
      BY <1>1, <2>1 DEF Requests, Phases
    <2>4. ~rec.disturbed => Steady(rec)
      BY <1>1, <2>3 DEF RequestOK, Steady
    <2>5. rec.op = "delete"
      BY <1>1, <2>3 DEF RequestOK
    <2> QED
      BY <1>1, <2>2, <2>3, <2>4, <2>5, GoesOn DEF Before
  <1> QED
    BY <1>2, <1>3

LEMMA DeleteStep ==
    ASSUME IInv, NEW c \in Calls, Delete(c)
    PROVE  IInv'
  <1>1. /\ Active(c) /\ call[c].pc = "delete" /\ UNCHANGED <<routes, provider, routed>>
        /\ RequestOK(c) /\ call[c].d \in Domains /\ End(c, "ok")
        /\ edge \in [Domains -> Statuses \cup {"absent"}]
    BY DEF Delete, Active, IInv, TypeOK, RequestOK
  <1>2. ~call[c].disturbed => call[c].held
    BY <1>1 DEF RequestOK, Steady
  <1> QED
    BY <1>1, <1>2, Deleted DEF Delete

\* What a call that failed may have done is to the domain of its request.
LEMMA FailStep ==
    ASSUME IInv, NEW c \in Calls, Fail(c)
    PROVE  IInv'
  <1> DEFINE d == call[c].d
             p == call[c].p
  <1>1. /\ Active(c) /\ Break(c, "failed") /\ UNCHANGED <<provider, routed>>
        /\ d \in Domains /\ p \in Profile
        /\ edge \in [Domains -> Statuses \cup {"absent"}] /\ routes \in SUBSET (Domains \X Profile)
    BY DEF Fail, IInv, TypeOK, RequestOK, Requests
  <1>2. routes' \in {routes, routes \cup {<<d, p>>}, routes \ {<<d, p>>}}
    BY DEF Fail
  <1>3. edge' = edge \/ \E s \in Statuses \cup {"absent"} : edge' = [edge EXCEPT ![d] = s]
    BY <1>1 DEF Fail, Statuses
  <1>4. Local(c)
    BY <1>1, <1>2, <1>3 DEF Local, exists, Route
  <1> QED
    BY <1>1, <1>4, Breaks
\* _owner_of asks on, or lets the caller in when the first route it sees is the caller's or
\* it has seen none.
OwnerTurns(c, rec, misread) ==
    LET there(q) == exists(call[c].d, q)
        asked == Profiles[call[c].k]
    IN  /\ Goto(c, rec)
        /\ messy' = IF misread THEN messy \cup {call[c].d} ELSE messy
        /\ rec.op = call[c].op /\ rec.d = call[c].d /\ rec.p = call[c].p /\ rec.ans = call[c].ans
        /\ rec.rivals = call[c].rivals
        /\ rec.misread = (call[c].misread \/ misread) /\ rec.disturbed = (call[c].disturbed \/ misread)
        /\ rec.pc \in {"owner", "find", "remove"} /\ (rec.pc = "remove" => rec.op = "delete")
        /\ rec.pc = "owner" => rec.k = call[c].k + 1
        /\ ~misread => /\ rec.pc = "owner" => ~there(asked)
                       /\ rec.pc # "owner" => there(call[c].p) \/ (call[c].k = Len(Profiles) /\ ~there(asked))

LEMMA OwnerFacts ==
    ASSUME IInv, NEW c \in Calls, Owner(c)
    PROVE  \/ End(c, "forbidden")
           \/ \E rec \in Requests, misread \in BOOLEAN : OwnerTurns(c, rec, misread)
  <1> DEFINE p == call[c].p
  <1>1. PICK k : k = call[c].k
    OBVIOUS
  <1>2. PICK d : d = call[c].d
    OBVIOUS
  <1>3. PICK there \in BOOLEAN : there <=> exists(d, Profiles[k])
    OBVIOUS
  <1>4. PICK n \in Nat : n = Len(Profiles)
    BY ProfilesAssumption
  <1>5. call[c] \in Requests /\ call[c].pc = "owner" /\ k \in 1..n
    BY <1>1, <1>4 DEF Owner, IInv, TypeOK, Requests
  <1>6. PICK misread \in BOOLEAN :
           LET asked == Asked(c, there /\ ~misread)
           IN  IF asked = "other" THEN End(c, "forbidden")
               ELSE /\ Goto(c, [call[c] EXCEPT
                           !.pc = IF asked = "next" THEN @ ELSE Entry(call[c].op),
                           !.k = IF asked = "next" THEN @ + 1 ELSE 1,
                           !.misread = @ \/ misread,
                           !.disturbed = @ \/ misread])
                    /\ messy' = IF misread THEN messy \cup {d} ELSE messy
    BY <1>1, <1>2, <1>3 DEF Owner
  <1>7. PICK asked : asked = Asked(c, there /\ ~misread)
    OBVIOUS
  <1>8. asked = IF there /\ ~misread THEN (IF Profiles[k] = p THEN "mine" ELSE "other")
                ELSE IF k < n THEN "next" ELSE "nobody"
    BY <1>1, <1>4, <1>7 DEF Asked
  <1>9. IF asked = "other" THEN End(c, "forbidden")
        ELSE /\ Goto(c, [call[c] EXCEPT
                    !.pc = IF asked = "next" THEN @ ELSE Entry(call[c].op),
                    !.k = IF asked = "next" THEN @ + 1 ELSE 1,
                    !.misread = @ \/ misread,
                    !.disturbed = @ \/ misread])
             /\ messy' = IF misread THEN messy \cup {d} ELSE messy
    BY <1>6, <1>7
  <1> SUFFICES ASSUME asked # "other"
               PROVE  \E rec \in Requests : OwnerTurns(c, rec, misread)
    BY <1>9
  <1>10. PICK next \in BOOLEAN : next <=> asked = "next"
    OBVIOUS
  <1>11. PICK rec : rec = [call[c] EXCEPT !.pc = IF next THEN @ ELSE Entry(call[c].op),
                                          !.k = IF next THEN @ + 1 ELSE 1,
                                          !.misread = @ \/ misread, !.disturbed = @ \/ misread]
    OBVIOUS
  <1>12. Goto(c, rec) /\ messy' = IF misread THEN messy \cup {d} ELSE messy
    BY <1>9, <1>10, <1>11
  <1>13. \/ next /\ k < n /\ ~(there /\ ~misread)
         \/ ~next /\ there /\ ~misread /\ Profiles[k] = p
         \/ ~next /\ k = n /\ ~(there /\ ~misread)
    BY <1>5, <1>8, <1>10
  <1>14. PICK pc \in {"owner", "find", "remove"} :
            /\ pc = IF next THEN "owner" ELSE Entry(call[c].op)
            /\ pc = "owner" <=> next
            /\ pc = "remove" => call[c].op = "delete"
    BY DEF Entry
  <1>15. (IF next THEN k + 1 ELSE 1) \in 1..n
    BY <1>4, <1>5, <1>10, <1>13
  <1>16. PICK i \in 1..n : i = IF next THEN k + 1 ELSE 1
    BY <1>15
  <1>17. PICK m \in BOOLEAN : m = (call[c].misread \/ misread)
    OBVIOUS
  <1>18. PICK w \in BOOLEAN : w = (call[c].disturbed \/ misread)
    OBVIOUS
  <1>19. rec = [call[c] EXCEPT !.pc = pc, !.k = i, !.misread = m, !.disturbed = w]
    BY <1>1, <1>5, <1>11, <1>14, <1>16, <1>17, <1>18 DEF Requests
  <1>20. /\ rec \in Requests /\ rec.pc = pc /\ rec.op = call[c].op /\ rec.d = d /\ rec.p = p
         /\ rec.k = i /\ rec.ans = call[c].ans /\ rec.rivals = call[c].rivals
         /\ rec.misread = m /\ rec.disturbed = w
    BY <1>2, <1>4, <1>5, <1>19 DEF Requests, Phases
  <1>21. ~misread => /\ pc = "owner" => ~exists(d, Profiles[k])
                     /\ pc # "owner" => exists(d, p) \/ (k = n /\ ~exists(d, Profiles[k]))
    BY <1>3, <1>13, <1>14
  <1>22. OwnerTurns(c, rec, misread)
    BY <1>1, <1>2, <1>4, <1>12, <1>14, <1>16, <1>17, <1>18, <1>20, <1>21 DEF OwnerTurns
  <1> QED
    BY <1>20, <1>22

LEMMA OwnerStep ==
    ASSUME IInv, NEW c \in Calls, Owner(c)
    PROVE  IInv'
  <1> DEFINE p == call[c].p
  <1>1. PICK k : k = call[c].k
    OBVIOUS
  <1>2. PICK d : d = call[c].d
    OBVIOUS
  <1>3. PICK n \in Nat : n = Len(Profiles)
    BY ProfilesAssumption
  <1>4. /\ Active(c) /\ call[c].pc = "owner" /\ UNCHANGED <<edge, routes, provider, routed>>
        /\ call[c] \in Requests /\ RequestOK(c) /\ p \in Profile /\ k \in 1..n
    BY <1>1, <1>3 DEF Owner, Active, IInv, TypeOK, Requests
  <1>5. /\ d \in Domains /\ (d \notin messy => ~call[c].disturbed)
        /\ routed /\ d \notin messy => Single(d) /\ agree(d)
    BY <1>2, <1>4, Known DEF Before
  <1>6. CASE End(c, "forbidden")
    <2>1. routed /\ d \notin messy => Single(d)' /\ agree(d)'
      BY <1>4, <1>5, Untouched
    <2> QED
      BY <1>2, <1>4, <1>6, <2>1, Untouched, Ends
  <1>7. ASSUME NEW rec \in Requests, NEW misread \in BOOLEAN, OwnerTurns(c, rec, misread)
        PROVE  IInv'
    <2>1. Goto(c, rec) /\ messy' = IF misread THEN messy \cup {d} ELSE messy
      BY <1>2, <1>7 DEF OwnerTurns
    <2>2. /\ rec.pc \in {"owner", "find", "remove"} /\ (rec.pc = "remove" => rec.op = "delete")
          /\ rec.op = call[c].op /\ rec.d = d /\ rec.p = p /\ rec.ans = call[c].ans
          /\ rec.rivals = call[c].rivals
          /\ rec.pc = "owner" => rec.k = k + 1
      BY <1>1, <1>2, <1>7 DEF OwnerTurns
    <2>3. rec.misread = (call[c].misread \/ misread) /\ rec.disturbed = (call[c].disturbed \/ misread)
      BY <1>7 DEF OwnerTurns
    <2>4. ~misread => /\ rec.pc = "owner" => ~exists(d, Profiles[k])
                      /\ rec.pc # "owner" => exists(d, p) \/ (k = n /\ ~exists(d, Profiles[k]))
      BY <1>1, <1>2, <1>3, <1>7 DEF OwnerTurns
    <2>5. ASSUME rec.pc = "owner", ~rec.misread, NEW j \in 1..(rec.k - 1), NEW q \in rec.rivals,
                 Rival(routes', d, rec.p, q)
          PROVE  q # Profiles[j]
      <3>1. ~misread /\ ~call[c].misread
        BY <2>2, <2>3, <2>5
      <3>2. CASE j = k
        BY <1>4, <2>4, <2>5, <3>1, <3>2 DEF Rival, exists, Route
      <3>3. CASE j # k
        <4>1. j \in 1..(k - 1)
          BY <1>4, <2>2, <2>5, <3>3
        <4> QED
          BY <1>1, <1>4, <2>2, <2>5, <3>1, <4>1 DEF RequestOK
      <3> QED
        BY <3>2, <3>3
    <2>6. ASSUME routed, rec.pc # "owner", ~rec.misread, NEW q \in rec.rivals PROVE ~Rival(routes', d, p, q)
      <3>1. ~misread /\ ~call[c].misread
        BY <2>2, <2>3, <2>6
      <3>2. CASE exists(d, p)
        BY <1>4, <3>2 DEF Rival, exists, Route
      <3>3. CASE k = n /\ ~exists(d, Profiles[k])
        <4>1. PICK j \in 1..n : q = Profiles[j]
          BY <1>3, <2>2, <2>6 DEF Requests, Profile
        <4>2. CASE j = k
          BY <1>4, <3>3, <4>1, <4>2 DEF Rival, exists, Route
        <4>3. CASE j # k
          <5>1. j \in 1..(k - 1)
            BY <1>4, <3>3, <4>1, <4>3
          <5> QED
            BY <1>1, <1>4, <2>2, <2>6, <3>1, <4>1, <5>1 DEF RequestOK
        <4> QED
          BY <4>2, <4>3
      <3> QED
        BY <2>4, <2>6, <3>1, <3>2, <3>3
    <2>7. /\ call[c].disturbed => rec.disturbed
          /\ call[c].misread => rec.misread
          /\ rec.misread => rec.disturbed
          /\ rec.disturbed => d \in messy'
      BY <1>4, <1>2, <1>5, <2>1, <2>2, <2>3 DEF RequestOK
    <2>8. ASSUME ~rec.disturbed PROVE Steady(rec)'
      <3>1. ~misread /\ ~call[c].disturbed
        BY <2>2, <2>3, <2>8
      <3>2. ASSUME rec.pc = "owner", NEW j \in 1..(rec.k - 1) PROVE ~exists(d, Profiles[j])
        <4>1. CASE j = k
          BY <2>4, <3>1, <3>2, <4>1
        <4>2. CASE j # k
          <5>1. j \in 1..(k - 1)
            BY <1>4, <2>2, <3>2, <4>2
          <5> QED
            BY <1>1, <1>4, <1>2, <3>1, <5>1 DEF RequestOK, Steady
        <4> QED
          BY <4>1, <4>2
      <3>3. Steady(rec)
        BY <2>2, <3>2 DEF Steady
      <3> QED
        BY <1>4, <2>2, <3>3, Untouched
    <2>9. ASSUME routed, d \notin messy'
          PROVE  Single(d)' /\ agree(d)' /\ (rec.pc # "owner" => Mine(d, rec.p)')
      <3>1. ~misread /\ d \notin messy /\ ~call[c].disturbed
        BY <1>5, <2>1, <2>9
      <3>2. Single(d) /\ agree(d)
        BY <1>5, <2>9, <3>1
      <3>3. ASSUME rec.pc # "owner" PROVE Mine(d, p)
        <4>1. CASE exists(d, p)
          BY <1>4, <3>2, <4>1 DEF Single, Mine
        <4>2. CASE k = n /\ ~exists(d, Profiles[k])
          <5>1. \A j \in 1..n : ~exists(d, Profiles[j])
            <6> SUFFICES ASSUME NEW j \in 1..n, j # k PROVE ~exists(d, Profiles[j])
              BY <4>2
            <6>1. j \in 1..(k - 1)
              BY <1>4, <4>2
            <6> QED
              BY <1>1, <1>4, <1>2, <3>1, <6>1 DEF RequestOK, Steady
          <5> QED
            BY <1>3, <5>1 DEF Mine, Profile
        <4> QED
          BY <2>4, <3>1, <3>3, <4>1, <4>2
      <3> QED
        BY <1>4, <1>5, <2>2, <3>2, <3>3, Untouched
    <2>10. Local(c)
      BY <1>4, Untouched
    <2>11. messy' \in {messy, messy \cup {d}}
      BY <2>1
    <2> QED
      BY <1>2, <1>4, <2>1, <2>2, <2>5, <2>6, <2>7, <2>8, <2>9, <2>10, <2>11, Stays DEF Before
  <1> QED
    BY <1>6, <1>7, OwnerFacts

\* Validation at the edge registers nothing and gives nothing back.
LEMMA ProgressStep ==
    ASSUME IInv, NEW d \in Domains, Progress(d) \/ StubProgress(d)
    PROVE  IInv'
  <1>1. /\ UNCHANGED <<provider, routed, routes, call, messy>> /\ edge[d] # "absent"
        /\ edge' = [edge EXCEPT ![d] = "pending"] \/ edge' = [edge EXCEPT ![d] = "active"]
    BY DEF Progress, StubProgress
  <1>2. /\ edge' \in [Domains -> Statuses \cup {"absent"}]
        /\ \A e \in Domains : edge'[e] = "absent" <=> edge[e] = "absent"
    BY <1>1 DEF IInv, TypeOK, Statuses
  <1>3. TypeOK'
    BY <1>1, <1>2 DEF IInv, TypeOK
  <1>4. OneAtATime'
    BY <1>1 DEF IInv, OneAtATime, On, Active
  <1>5. \A c \in Calls : RequestOK(c)'
    <2> SUFFICES ASSUME NEW c \in Calls, Active(c) PROVE RequestOK(c)'
      BY <1>1 DEF RequestOK, Active
    <2>1. RequestOK(c) /\ call[c].d \in Domains
      BY DEF IInv, RequestOK
    <2>2. Steady(call[c]) => Steady(call[c])'
      BY <1>1, <1>2, <2>1 DEF Steady, exists, Route
    <2> QED
      BY <1>1, <2>1, <2>2 DEF RequestOK, Active
  <1>6. \A e \in Domains : DomainOK(e)'
    <2> SUFFICES ASSUME NEW e \in Domains PROVE DomainOK(e)'
      OBVIOUS
    <2>1. DomainOK(e) /\ (agree(e)' <=> agree(e))
      BY <1>1, <1>2 DEF IInv, agree, exists, Route
    <2> QED
      BY <1>1, <2>1 DEF DomainOK, On, Active, exists, Route
  <1>7. Capped'
    <2>1. Registered' = Registered
      BY <1>2 DEF Registered, IInv, TypeOK, Statuses
    <2> QED
      BY <1>1, <2>1 DEF IInv, Capped
  <1> QED
    BY <1>3, <1>4, <1>5, <1>6, <1>7 DEF IInv
\* caller_profile lets a request in: those that run on its domain are disturbed, and so is it.
LEMMA RequestStep ==
    ASSUME IInv, NEW c \in Calls, Request(c)
    PROVE  IInv'
  <1>1. PICK op \in {"create", "get", "delete"}, d \in Domains, p \in Profile :
           LET others == {x \in Calls : Active(x) /\ call[x].d = d}
           IN  /\ call' = [x \in Calls |->
                      IF x = c
                      THEN [Idle EXCEPT !.pc = IF routed THEN "owner" ELSE Entry(op), !.op = op,
                                        !.d = d, !.p = p, !.disturbed = others # {},
                                        !.rivals = {q \in Profile : Rival(routes, d, p, q)}]
                      ELSE IF x \in others THEN [call[x] EXCEPT !.disturbed = TRUE] ELSE call[x]]
               /\ messy' = IF others # {} THEN messy \cup {d} ELSE messy
    BY DEF Request
  <1>2. /\ ~Active(c) /\ UNCHANGED <<provider, routed, edge, routes>>
        /\ call \in [Calls -> Requests]
    BY DEF Request, IInv, TypeOK
  <1>3. PICK others \in SUBSET Calls : others = {x \in Calls : On(x, d)}
    OBVIOUS
  <1>4. PICK w \in BOOLEAN : w <=> others # {}
    OBVIOUS
  <1>5. PICK pc \in {"owner", "find", "remove"} :
           /\ pc = IF routed THEN "owner" ELSE Entry(op)
           /\ routed => pc = "owner"
           /\ pc = "remove" => op = "delete"
    BY DEF Entry
  <1>6. PICK r \in SUBSET Profile : r = {q \in Profile : Rival(routes, d, p, q)}
    OBVIOUS
  <1>7. /\ call' = [x \in Calls |->
               IF x = c THEN [Idle EXCEPT !.pc = pc, !.op = op, !.d = d, !.p = p, !.disturbed = w, !.rivals = r]
               ELSE IF x \in others THEN [call[x] EXCEPT !.disturbed = TRUE] ELSE call[x]]
        /\ messy' = IF w THEN messy \cup {d} ELSE messy
    BY <1>1, <1>3, <1>4, <1>5, <1>6 DEF On
  <1>8. PICK rec : rec = [Idle EXCEPT !.pc = pc, !.op = op, !.d = d, !.p = p, !.disturbed = w, !.rivals = r]
    OBVIOUS
  <1>9. /\ rec \in Requests /\ rec.pc = pc /\ rec.op = op /\ rec.d = d /\ rec.p = p /\ rec.disturbed = w
        /\ rec.ans = "none" /\ rec.misread = FALSE /\ rec.k = 1
    <2>1. Idle \in Requests /\ Idle.ans = "none" /\ Idle.misread = FALSE /\ Idle.k = 1
      BY Records DEF Idle
    <2> QED
      BY <1>8, <2>1 DEF Requests, Phases
  <1>10. call'[c] = rec /\ c \notin others
    BY <1>2, <1>3, <1>7, <1>8 DEF On
  <1>11. ASSUME NEW x \in Calls, x # c
         PROVE  /\ call'[x] \in Requests /\ call'[x].pc = call[x].pc /\ call'[x].op = call[x].op
                /\ call'[x].d = call[x].d /\ call'[x].p = call[x].p /\ call'[x].k = call[x].k
                /\ call'[x].ans = call[x].ans /\ call'[x].held = call[x].held
                /\ call'[x].rivals = call[x].rivals /\ call'[x].misread = call[x].misread
                /\ call'[x].crowded = call[x].crowded
                /\ call'[x].disturbed = (call[x].disturbed \/ x \in others)
    <2>1. call[x] \in Requests
      BY <1>2
    <2>2. CASE x \in others
      <3>1. call'[x] = [call[x] EXCEPT !.disturbed = TRUE]
        BY <1>7, <1>11, <2>2
      <3> QED
        BY <2>1, <2>2, <3>1 DEF Requests
    <2>3. CASE x \notin others
      <3>1. call'[x] = call[x]
        BY <1>7, <1>11, <2>3
      <3> QED
        BY <2>1, <2>3, <3>1 DEF Requests
    <2> QED
      BY <2>2, <2>3
  <1>12. TypeOK'
    <2>1. \A x \in Calls : call'[x] \in Requests
      BY <1>9, <1>10, <1>11
    <2>2. call' \in [Calls -> Requests]
      BY <1>7, <2>1
    <2> QED
      BY <1>2, <1>7, <2>2 DEF IInv, TypeOK
  <1>13. OneAtATime'
    <2> SUFFICES ASSUME NEW x \in Calls, NEW y \in Calls, x # y, Active(x)', On(y, call[x].d)'
                 PROVE  call'[x].disturbed
      BY DEF OneAtATime
    <2>1. CASE x # c /\ y # c
      <3>1. /\ call'[x].pc = call[x].pc /\ call'[y].pc = call[y].pc
            /\ call'[x].d = call[x].d /\ call'[y].d = call[y].d
            /\ call[x].disturbed => call'[x].disturbed
        BY <2>1, <1>11
      <3>2. Active(x) /\ On(y, call[x].d)
        BY <3>1 DEF On, Active
      <3> QED
        BY <3>1, <3>2 DEF IInv, OneAtATime
    <2>2. CASE x = c
      BY <2>2, <1>3, <1>4, <1>9, <1>10, <1>11 DEF On, Active
    <2>3. CASE y = c
      <3>1. /\ call'[x].pc = call[x].pc /\ call'[x].d = call[x].d
            /\ call'[x].disturbed = (call[x].disturbed \/ x \in others)
        BY <2>3, <1>11
      <3>2. call'[y].d = d
        BY <2>3, <1>9, <1>10
      <3>3. On(x, d)
        BY <3>1, <3>2 DEF On, Active
      <3> QED
        BY <1>3, <3>1, <3>3
    <2> QED
      BY <2>1, <2>2, <2>3
  <1>14. ASSUME NEW x \in Calls, Active(x)' PROVE RequestOK(x)'
    <2>1. CASE x = c
      <3>1. w => d \in messy'
        BY <1>7
      <3>2. \A i \in 1..(rec.k - 1) : FALSE
        BY <1>9
      <3>3. Steady(rec)'
        BY <1>9, <3>2 DEF Steady
      <3> QED
        BY <2>1, <1>2, <1>5, <1>9, <1>10, <3>1, <3>2, <3>3 DEF RequestOK
    <2>2. CASE x # c
      <3>1. RequestOK(x) /\ Active(x) /\ call[x] \in Requests
        BY <2>2, <1>2, <1>11, <1>14 DEF IInv, Active
      <3>2. x \in others => d \in messy' /\ call[x].d = d
        BY <1>3, <1>4, <1>7 DEF On
      <3>3. messy \subseteq messy'
        BY <1>7
      <3>4. Steady(call[x]) => Steady(call[x])'
        BY <2>2, <1>2, <1>11 DEF Steady, exists, Route
      <3>5. ~call'[x].disturbed => ~call[x].disturbed
        BY <2>2, <1>11
      <3>6. call'[x].disturbed => call'[x].d \in messy'
        <4>1. /\ call'[x].d = call[x].d
              /\ call'[x].disturbed = (call[x].disturbed \/ x \in others)
          BY <2>2, <1>11
        <4>2. call[x].disturbed => call[x].d \in messy
          BY <3>1 DEF RequestOK
        <4> QED
          BY <3>2, <3>3, <4>1, <4>2
      <3>7. call'[x].misread => call'[x].disturbed
        BY <2>2, <1>11, <3>1 DEF RequestOK
      <3> QED
        BY <2>2, <1>2, <1>11, <3>1, <3>4, <3>5, <3>6, <3>7 DEF RequestOK
    <2> QED
      BY <2>1, <2>2
  <1>15. ASSUME NEW e \in Domains, routed, e \notin messy' PROVE DomainOK(e)'
    <2>1. e \notin messy /\ DomainOK(e) /\ (e = d => others = {})
      BY <1>4, <1>7, <1>15 DEF IInv
    <2>2. \A x \in Calls : x # c => /\ On(x, e)' <=> On(x, e)
                                   /\ call'[x].pc = call[x].pc /\ call'[x].p = call[x].p
      BY <1>11 DEF On, Active
    <2>3. On(c, e)' => call'[c].pc = "owner"
      BY <1>5, <1>9, <1>10, <1>15
    <2>4. \A q \in Profile : exists(e, q)' = exists(e, q)
      BY <1>2 DEF exists, Route
    <2>5. agree(e)' <=> agree(e)
      BY <1>2 DEF agree, exists, Route
    <2>6. ~On(c, e)
      BY <1>2 DEF On
    <2> QED
      BY <1>2, <1>15, <2>1, <2>2, <2>3, <2>4, <2>5, <2>6 DEF DomainOK
  <1>16. Capped'
    <2>1. Registered' = Registered
      BY <1>2 DEF Registered
    <2>2. call'[c].pc # "post"
      BY <1>5, <1>9, <1>10
    <2> QED
      BY <1>2, <1>11, <2>1, <2>2 DEF IInv, Capped
  <1>17. \A x \in Calls : RequestOK(x)'
    BY <1>14 DEF RequestOK
  <1>18. \A e \in Domains : DomainOK(e)'
    BY <1>2, <1>15 DEF DomainOK
  <1> QED
    BY <1>12, <1>13, <1>16, <1>17, <1>18 DEF IInv
------------------------------------------------------------------------------
(* The theorems                                                            *)

LEMMA InitHolds == Init => IInv
  <1> SUFFICES ASSUME Init PROVE IInv
    OBVIOUS
  <1>1. /\ edge = [d \in Domains |-> "absent"] /\ routes = {} /\ messy = {}
        /\ call = [c \in Calls |-> Idle]
    BY DEF Init
  <1>2. \A c \in Calls : ~Active(c)
    BY <1>1, Records DEF Active
  <1>3. provider \in {"cloudflare", "stub"} /\ routed \in BOOLEAN
    BY BackendsAssumption DEF Init
  <1>4. TypeOK
    BY <1>1, <1>3, Records DEF TypeOK
  <1>5. OneAtATime /\ Capped /\ \A c \in Calls : RequestOK(c)
    BY <1>2 DEF OneAtATime, Capped, RequestOK, Active
  <1>6. \A d \in Domains : DomainOK(d)
    BY <1>1, <1>2 DEF DomainOK, agree, On, exists, Route
  <1> QED
    BY <1>4, <1>5, <1>6 DEF IInv

LEMMA NextHolds == IInv /\ [Next]_vars => IInv'
  <1> SUFFICES ASSUME IInv, [Next]_vars PROVE IInv'
    OBVIOUS
  <1>1. ASSUME NEW c \in Calls, Request(c) \/ Owner(c) \/ Fail(c) PROVE IInv'
    BY <1>1, RequestStep, OwnerStep, FailStep
  <1>2. ASSUME NEW c \in Calls, Find(c) \/ Quota(c) \/ Post(c) \/ PostNotFound(c) \/ StubCreate(c)
        PROVE  IInv'
    BY <1>2, FindStep, QuotaStep, PostStep, PostNotFoundStep
  <1>3. ASSUME NEW c \in Calls, PostRefused(c) PROVE IInv'
    <2>1. Active(c) /\ Break(c, "error") /\ UNCHANGED <<provider, routed, edge, routes>>
      BY <1>3 DEF PostRefused, Active
    <2> QED
      BY <2>1, BreaksHere
  <1>4. ASSUME NEW c \in Calls, Ensure(c) \/ Read(c) \/ Put(c) PROVE IInv'
    BY <1>4, EnsureStep, ReadStep, PutStep
  <1>5. ASSUME NEW c \in Calls, GetFind(c) \/ GetExists(c) \/ Remove(c) \/ Lookup(c) \/ Delete(c)
        PROVE  IInv'
    BY <1>5, GetStep, RemoveStep, LookupStep, DeleteStep
  <1>6. CASE UNCHANGED vars
    <2>1. UNCHANGED <<provider, routed, edge, routes, call, messy>>
      BY <1>6 DEF vars
    <2> QED
      BY <2>1 DEF IInv, TypeOK, OneAtATime, RequestOK, DomainOK, Capped, On, Active, Steady, agree,
                  exists, Route, Registered
  <1> QED
    BY <1>1, <1>2, <1>3, <1>4, <1>5, <1>6, ProgressStep DEF Next

LEMMA Invariant == Spec => []IInv
  BY InitHolds, NextHolds, PTL DEF Spec

\* The state keeps its types.
THEOREM TypeCorrect == Spec => []TypeOK
  <1>1. IInv => TypeOK
    BY DEF IInv
  <1> QED
    BY <1>1, Invariant, PTL

\* create, get and delete let nobody past the owner check of a domain that has been
\* another profile's all along, unless the API server's answer was none.
THEOREM HijackersKeptOut == Spec => []RivalsKeepOut
  <1>1. IInv => RivalsKeepOut
    BY DEF IInv, RequestOK, RivalsKeepOut, Active
  <1> QED
    BY <1>1, Invariant, PTL

\* The registration and the route of a domain at rest agree, whatever requests it has had,
\* if they came one at a time or a create has put the halves together since.
THEOREM OneHalfMeansBoth == Spec => []HalvesAgree
  <1>1. ASSUME IInv PROVE HalvesAgree
    <2> SUFFICES ASSUME routed, NEW d \in Domains \ messy, Quiet(d)
                 PROVE  d \in Registered <=> \E p \in Profile : exists(d, p)
      BY DEF HalvesAgree
    <2>1. agree(d)
      BY <1>1 DEF IInv, DomainOK, Quiet, On
    <2>2. d \in Registered <=> edge[d] # "absent"
      BY <1>1 DEF IInv, TypeOK, Registered, Statuses
    <2> QED
      BY <2>1, <2>2 DEF agree
  <1> QED
    BY <1>1, Invariant, PTL
------------------------------------------------------------------------------
(* What a step may not do                                                  *)

Acts(x) ==
    \/ Owner(x) \/ Fail(x) \/ Find(x) \/ Quota(x) \/ Post(x) \/ PostNotFound(x) \/ PostRefused(x)
    \/ StubCreate(x) \/ Ensure(x) \/ Read(x) \/ Put(x) \/ GetFind(x) \/ GetExists(x)
    \/ Remove(x) \/ Lookup(x) \/ Delete(x)

\* The others neither turn nor get an answer, and an error is for who was disturbed.
Fair(x) ==
    /\ \A c \in Calls \ {x} : call'[c].pc = call[c].pc /\ call'[c].ans = call[c].ans
    /\ call'[x].ans = "error" => call[x].disturbed

LEMMA GotoFair ==
    ASSUME IInv, NEW x \in Calls, NEW rec \in Requests, Goto(x, rec),
           rec.ans = "error" => call[x].disturbed
    PROVE  Fair(x)
  BY GotoFacts DEF IInv, Fair, Others, SameRequest

LEMMA EndFair ==
    ASSUME IInv, NEW x \in Calls,
           \/ \E ans \in {"ok", "active", "missing", "forbidden", "quota"} : End(x, ans)
           \/ Break(x, "failed")
           \/ Break(x, "error") /\ call[x].disturbed
    PROVE  Fair(x)
  <1>1. PICK ans \in {"ok", "active", "missing", "forbidden", "quota", "failed", "error"} :
           Goto(x, [Idle EXCEPT !.ans = ans]) /\ (ans = "error" => call[x].disturbed)
    BY DEF End, Break
  <1>2. [Idle EXCEPT !.ans = ans] \in Requests /\ [Idle EXCEPT !.ans = ans].ans = ans
    BY Records
  <1> QED
    BY <1>1, <1>2, GotoFair

LEMMA AtFair ==
    ASSUME IInv, NEW x \in Calls, Active(x), NEW pc \in Phases, At(x, pc)
    PROVE  Fair(x)
  <1>1. PICK rec : rec = [call[x] EXCEPT !.pc = pc]
    OBVIOUS
  <1>2. rec \in Requests /\ rec.ans = "none" /\ Goto(x, rec)
    BY <1>1, Turns DEF At, IInv, RequestOK
  <1> QED
    BY <1>2, GotoFair

\* Whoever acts is fair to the others.
LEMMA ActsFair ==
    ASSUME IInv, NEW x \in Calls, Acts(x)
    PROVE  Fair(x)
  <1>1. /\ Active(x) /\ call[x] \in Requests /\ RequestOK(x) /\ call[x].ans = "none"
        /\ edge \in [Domains -> Statuses \cup {"absent"}] /\ call[x].d \in Domains
    <2>1. Active(x)
      BY DEF Acts, Active, Owner, Fail, Find, Quota, Post, PostNotFound, PostRefused, StubCreate, Ensure,
             Read, Put, GetFind, GetExists, Remove, Lookup, Delete
    <2> QED
      BY <2>1 DEF IInv, TypeOK, RequestOK
  <1>2. ASSUME NEW rec, Goto(x, rec), rec \in Requests, rec.ans = "none" PROVE Fair(x)
    BY <1>2, GotoFair
  <1>3. CASE Find(x) \/ Post(x) \/ StubCreate(x) \/ Remove(x)
    BY <1>1, <1>3, AtFair DEF Find, Post, StubCreate, Remove, Phases
  <1>4. CASE Quota(x) \/ Ensure(x)
    BY <1>1, <1>4, AtFair, EndFair DEF Quota, Ensure, Phases, RequestOK, Steady, exists
  <1>5. CASE GetExists(x) \/ Delete(x) \/ Fail(x)
    BY <1>1, <1>5, EndFair DEF GetExists, compose, Delete, Fail
  <1>6. CASE PostRefused(x)
    BY <1>1, <1>6, EndFair DEF PostRefused, RequestOK, Steady
  <1>7. CASE PostNotFound(x)
    <2>1. PICK rec : rec = [call[x] EXCEPT !.pc = "ensure", !.disturbed = TRUE]
      OBVIOUS
    <2>2. Goto(x, rec) /\ rec \in Requests /\ rec.ans = "none"
      BY <1>1, <1>7, <2>1 DEF PostNotFound, Requests, Phases
    <2> QED
      BY <1>2, <2>2
  <1>8. CASE Read(x)
    <2>1. CASE exists(call[x].d, call[x].p)
      <3>1. PICK rec : rec = [call[x] EXCEPT !.pc = "put", !.held = TRUE]
        OBVIOUS
      <3>2. Goto(x, rec) /\ rec \in Requests /\ rec.ans = "none"
        BY <1>1, <1>8, <2>1, <3>1 DEF Read, Requests, Phases
      <3> QED
        BY <1>2, <3>2
    <2>2. CASE ~exists(call[x].d, call[x].p)
      BY <1>1, <1>8, <2>2, EndFair DEF Read, RequestOK, Steady
    <2> QED
      BY <2>1, <2>2
  <1>9. CASE GetFind(x)
    <2>1. CASE edge[call[x].d] = "absent"
      BY <1>9, <2>1, EndFair DEF GetFind
    <2>2. CASE edge[call[x].d] # "absent"
      <3>1. PICK s \in Statuses \cup {"absent"} : s = edge[call[x].d]
        BY <1>1
      <3>2. PICK rec : rec = [call[x] EXCEPT !.pc = "exists", !.seen = s]
        OBVIOUS
      <3>3. Goto(x, rec)
        BY <1>9, <2>2, <3>1, <3>2 DEF GetFind, toRecord
      <3>4. rec \in Requests /\ rec.ans = "none"
        BY <1>1, <3>2 DEF Requests, Phases
      <3> QED
        BY <1>2, <3>3, <3>4
    <2> QED
      BY <2>1, <2>2
  <1>10. CASE Lookup(x)
    <2>1. CASE edge[call[x].d] = "absent" \/ provider = "stub"
      BY <1>10, <2>1, EndFair DEF Lookup
    <2>2. CASE ~(edge[call[x].d] = "absent" \/ provider = "stub")
      <3>1. PICK rec : rec = [call[x] EXCEPT !.pc = "delete", !.held = TRUE]
        OBVIOUS
      <3>2. Goto(x, rec) /\ rec \in Requests /\ rec.ans = "none"
        BY <1>1, <1>10, <2>2, <3>1 DEF Lookup, Requests, Phases
      <3> QED
        BY <1>2, <3>2
    <2> QED
      BY <2>1, <2>2
  <1>11. CASE Put(x)
    <2>1. CASE ~call[x].held
      BY <1>1, <1>11, <2>1, EndFair DEF Put, RequestOK, Steady
    <2>2. CASE call[x].held
      <3> DEFINE taken(y) == call[y].pc = "put" /\ call[y].d = call[x].d /\ call[y].p = call[x].p
      <3>1. call' = [y \in Calls |-> IF y = x THEN [Idle EXCEPT !.ans = "ok"]
                                     ELSE [call[y] EXCEPT !.held = @ /\ ~taken(y)]]
        BY <1>11, <2>2 DEF Put
      <3>2. call'[x].ans = "ok"
        BY <3>1, Records
      <3>3. ASSUME NEW c \in Calls, c # x PROVE call'[c].pc = call[c].pc /\ call'[c].ans = call[c].ans
        <4>1. PICK h : h = (call[c].held /\ ~taken(c))
          OBVIOUS
        <4>2. call'[c] = [call[c] EXCEPT !.held = h]
          BY <3>1, <3>3, <4>1
        <4>3. call[c] \in Requests
          BY DEF IInv, TypeOK
        <4> HIDE DEF taken
        <4> QED
          BY <4>2, <4>3 DEF Requests
      <3> QED
        BY <3>2, <3>3 DEF Fair
    <2> QED
      BY <2>1, <2>2
  <1>12. CASE Owner(x)
    <2>1. CASE End(x, "forbidden")
      BY <2>1, EndFair
    <2>2. CASE \E rec \in Requests, misread \in BOOLEAN : OwnerTurns(x, rec, misread)
      BY <1>1, <1>2, <2>2 DEF OwnerTurns
    <2> QED
      BY <1>12, <2>1, <2>2, OwnerFacts
  <1> QED
    BY <1>3, <1>4, <1>5, <1>6, <1>7, <1>8, <1>9, <1>10, <1>11, <1>12 DEF Acts
\* A step that is not of a request that runs changes no answer and no registration.
LEMMA NextSteps ==
    ASSUME IInv, Next
    PROVE  \/ \E x \in Calls : Acts(x)
           \/ \E x \in Calls : Request(x)
           \/ UNCHANGED call
  BY DEF Next, Acts, Progress, StubProgress

LEMMA RequestFair ==
    ASSUME IInv, NEW x \in Calls, Request(x), NEW c \in Calls, Active(c)
    PROVE  call'[c].pc = call[c].pc /\ call'[c].ans = call[c].ans
  <1>1. call[c] \in Requests /\ call \in [Calls -> Requests] /\ c # x
    BY DEF IInv, TypeOK, Request
  <1>2. call'[c] = call[c] \/ call'[c] = [call[c] EXCEPT !.disturbed = TRUE]
    BY <1>1 DEF Request
  <1> QED
    BY <1>1, <1>2 DEF Requests

\* A request that nothing disturbs is told of no upstream error, whatever is left of
\* earlier ones: its registration, or its route, is its own to find or to make.
THEOREM UndisturbedAreServed == Spec => UndisturbedSucceed
  <1>1. ASSUME IInv, [Next]_vars
        PROVE  [\A c \in Calls : Active(c) /\ call'[c].ans = "error" => call[c].disturbed]_vars
    <2> SUFFICES ASSUME Next, NEW c \in Calls, Active(c), call'[c].ans = "error"
                 PROVE  call[c].disturbed
      BY <1>1
    <2>1. call[c].ans = "none"
      BY <1>1 DEF IInv, RequestOK
    <2>2. ASSUME NEW x \in Calls, Acts(x) PROVE call[c].disturbed
      BY <1>1, <2>1, <2>2, ActsFair DEF Fair
    <2> QED
      BY <1>1, <2>1, <2>2, NextSteps, RequestFair
  <1> QED
    BY <1>1, Invariant, PTL DEF Spec, UndisturbedSucceed

\* A step of a request adds at most its own domain to the registered ones.
LEMMA OneMore ==
    ASSUME IInv, NEW c \in Calls, Acts(c)
    PROVE  /\ Cardinality(Registered') <= Cardinality(Registered) + 1
           /\ Cardinality(Registered) \in Nat /\ Cardinality(Registered') \in Nat
  <1>1. edge \in [Domains -> Statuses \cup {"absent"}]
    BY DEF IInv, TypeOK
  <1>2. edge' = edge \/ \E s \in Statuses \cup {"absent"} : edge' = [edge EXCEPT ![call[c].d] = s]
    BY <1>1 DEF Acts, Owner, Find, Quota, Post, PostNotFound, PostRefused, StubCreate, Ensure,
           Read, Put, GetFind, GetExists, Remove, Lookup, Delete, Fail, Statuses
  <1>3. Registered' \subseteq Registered \cup {call[c].d}
    BY <1>1, <1>2 DEF Registered
  <1>4. IsFiniteSet(Registered) /\ IsFiniteSet(Registered \cup {call[c].d})
    BY CallsAssumption, FS_Subset, FS_AddElement DEF Registered
  <1>5. Cardinality(Registered \cup {call[c].d}) <= Cardinality(Registered) + 1
    <2>1. PICK d : d = call[c].d
      OBVIOUS
    <2>2. Cardinality(Registered \cup {d}) =
              IF d \in Registered THEN Cardinality(Registered) ELSE Cardinality(Registered) + 1
      BY <1>4, FS_AddElement
    <2> QED
      BY <1>4, <2>1, <2>2, FS_CardinalityType
  <1>6. Cardinality(Registered') <= Cardinality(Registered \cup {call[c].d}) /\ IsFiniteSet(Registered')
    BY <1>3, <1>4, FS_Subset
  <1> QED
    BY <1>3, <1>4, <1>5, <1>6, FS_Subset, FS_CardinalityType

\* A registration past the cap is of a request that was overtaken between the listing it
\* counted and its own POST.
THEOREM OvertakenOnly == Spec => CapUnlessCrowded
  <1> DEFINE Past(c) == /\ provider = "cloudflare" /\ MaxHostnames > 0
                        /\ call[c].pc = "post" /\ call'[c].pc # "post"
                        /\ Cardinality(Registered') > MaxHostnames
                        /\ Cardinality(Registered') > Cardinality(Registered)
  <1>1. ASSUME IInv, [Next]_vars
        PROVE  [\A c \in Calls : Past(c) => call[c].crowded]_vars
    <2> SUFFICES ASSUME Next, NEW c \in Calls, Past(c), ~call[c].crowded
                 PROVE  FALSE
      BY <1>1
    <2>1. Cardinality(Registered) < MaxHostnames /\ Active(c)
      BY <1>1 DEF IInv, Capped, Active
    <2>2. ASSUME NEW x \in Calls, Acts(x) PROVE FALSE
      <3>1. x = c
        BY <1>1, <2>2, ActsFair DEF Fair
      <3> QED
        BY <1>1, <2>1, <2>2, <3>1, OneMore, MaxAssumption
    <2> QED
      BY <1>1, <2>1, <2>2, NextSteps, RequestFair
  <1> QED
    BY <1>1, Invariant, PTL DEF Spec, CapUnlessCrowded
=============================================================================

------------------------- MODULE CapabilityDelegation -------------------------
(***************************************************************************)
(* The envelope of a delegated turn, the callee's authorisation and the    *)
(* challenge handshake (agent-templates/orchestration/                     *)
(* capability_delegation.py).                                              *)
(*                                                                         *)
(* A turn is a sequence of tokens: a header field is a <<key, value>>, the *)
(* brackets are fields of their own, and a body is what follows the first  *)
(* closing bracket. A body may be a whole turn: agents forward them.       *)
(***************************************************************************)
EXTENDS Naturals, Sequences, FiniteSets, SequencesExt

None == "none"

Open  == <<"[A2A", None>>
Close == <<"]", None>>
Word(w) == <<"word", w>>

CHALLENGE_CAP      == "ping"
CHALLENGE_ECHO_CAP == "ping.echo"

\* A reply_to that is not given is the sender (__post_init__).
Envelope(frm, corr, reply_to, cap, body) ==
    [frm |-> frm, corr |-> corr, reply_to |-> IF reply_to = None THEN frm ELSE reply_to,
     cap |-> cap, body |-> body]

Fields(env) == <<<<"from", env.frm>>, <<"corr", env.corr>>, <<"reply_to", env.reply_to>>,
                 <<"cap", env.cap>>>>

render(env) == <<Open>> \o Fields(env) \o <<Close>> \o env.body

build_envelope(frm, cap, body, corr, reply_to) == render(Envelope(frm, corr, reply_to, cap, body))

\* Mutant: fields are read from the whole text, the body included.
Header_all(text) == Tail(text)

\* What stands between the opening and the first closing bracket ([^\]]*).
Header(text) ==
    LET close == CHOOSE i \in DOMAIN text : text[i] = Close /\ \A j \in 1..(i - 1) : text[j] # Close
    IN  SubSeq(text, 2, close - 1)

\* The pattern is greedy: of two fields of one key the last is read.
Field(header, key) ==
    LET at == {i \in DOMAIN header : header[i][1] = key}
    IN  IF at = {} THEN None ELSE header[CHOOSE i \in at : \A j \in at : j <= i][2]

ENVELOPE_RE(text) == /\ text # <<>> /\ text[1] = Open
                     /\ \E i \in DOMAIN text : text[i] = Close
                     /\ \A k \in {"from", "corr", "cap"} : Field(Header(text), k) # None

\* {} is a turn that is no envelope.
parse_envelope(text) ==
    IF ~ENVELOPE_RE(text) THEN {}
    ELSE LET h == Header(text)
             close == CHOOSE i \in DOMAIN text : text[i] = Close /\ \A j \in 1..(i - 1) : text[j] # Close
         IN  {Envelope(Field(h, "from"), Field(h, "corr"), Field(h, "reply_to"), Field(h, "cap"),
                       SubSeq(text, close + 1, Len(text)))}

authorize(envs, provides_to, allowed_caps) ==
    /\ envs # {}
    /\ provides_to # {}
    /\ \A e \in envs : e.frm \in provides_to /\ e.cap \in allowed_caps

make_challenge(sender, nonce) == build_envelope(sender, CHALLENGE_CAP, <<Word(nonce)>>, nonce, None)

\* Mutant: what is sent back is the body, not the correlation id it is read by.
echo_challenge_body(envs, responder) ==
    {build_envelope(responder, CHALLENGE_ECHO_CAP, e.body, e.corr, e.reply_to) :
        e \in {p \in envs : p.cap = CHALLENGE_CAP}}

\* {} is no reply. The nonce sent back is the correlation id of the challenge, twice.
echo_challenge(envs, responder) ==
    {build_envelope(responder, CHALLENGE_ECHO_CAP, <<Word(e.corr)>>, e.corr, e.reply_to) :
        e \in {p \in envs : p.cap = CHALLENGE_CAP}}

\* Mutant: any envelope that carries the nonce is an echo.
verify_echo_nonce(envs, nonce) == \E e \in envs : e.corr = nonce /\ e.body = <<Word(nonce)>>

verify_echo(envs, nonce) ==
    \E e \in envs : e.cap = CHALLENGE_ECHO_CAP /\ e.corr = nonce /\ e.body = <<Word(nonce)>>

-----------------------------------------------------------------------------
(* Turns: envelopes with their fields in every order, with bodies that are *)
(* empty, a nonce, or a forwarded turn.                                    *)

Sessions == {"s1", "s2"}
Nonces   == {"n1", "n2"}
Caps     == {CHALLENGE_CAP, CHALLENGE_ECHO_CAP, "read"}

Bodies == {<<>>, <<Word("n1")>>, <<Word("n2")>>, build_envelope("s2", "read", <<>>, "n2", None),
           build_envelope("s1", CHALLENGE_ECHO_CAP, <<Word("n1")>>, "n1", "s2")}

Orders == {o \in [1..4 -> 1..4] : \A i, j \in 1..4 : o[i] = o[j] => i = j}

Inputs == {[frm |-> f, corr |-> c, reply_to |-> r, cap |-> k, body |-> b, order |-> o, dropped |-> d] :
             f \in Sessions, c \in Nonces, r \in Sessions \cup {None}, k \in Caps, b \in Bodies,
             o \in Orders, d \in {"nothing", "cap", "reply_to"}}

Env(x) == Envelope(x.frm, x.corr, x.reply_to, x.cap, x.body)

Turn(x) == <<Open>> \o SelectSeq([i \in 1..4 |-> Fields(Env(x))[x.order[i]]], LAMBDA f : f[1] # x.dropped)
             \o <<Close>> \o x.body

-----------------------------------------------------------------------------
(* Properties.                                                             *)

\* Only the header of a turn says who sent it and what it asks for: in whatever order its fields
\* stand, and also when its body is a forwarded turn of another sender, it reads back as what was
\* sent; a turn with no capability is no envelope, and no reply_to is a reply to the sender
\* (parse_envelope, authorize).
OuterHeaderRules(x) ==
    LET sent == CASE x.dropped = "nothing" -> {Env(x)}
                  [] x.dropped = "reply_to" -> {[Env(x) EXCEPT !.reply_to = x.frm]}
                  [] OTHER -> {}
    IN  /\ parse_envelope(Turn(x)) = sent
        /\ authorize(parse_envelope(Turn(x)), {"s2"}, {"read"}) =>
             x.frm = "s2" /\ x.cap = "read" /\ x.dropped # "cap"

\* A turn passes for the answer to a challenge exactly when it says what an echo of that challenge
\* says: the challenge sent back unchanged, an echo of an earlier nonce or a forwarded echo do not,
\* and the echo a peer makes of the challenge does, back at the challenger (verify_echo,
\* echo_challenge).
EchoProves(x) ==
    LET env == parse_envelope(Turn(x))
    IN  \A n \in Nonces :
          LET ping  == parse_envelope(make_challenge(x.frm, n))
              echos == {parse_envelope(e) : e \in echo_challenge(ping, "s2")}
          IN  /\ \A e \in echos : verify_echo(e, n) /\ \A p \in e : p.reply_to = x.frm
              /\ echos # {} /\ ~verify_echo(ping, n)
              /\ verify_echo(env, n) =>
                   /\ \E p \in env : p.cap = CHALLENGE_ECHO_CAP /\ p.corr = n
                   /\ ~\E e \in echo_challenge(env, "s1") : TRUE
              /\ \A e \in echo_challenge(env, "s2") :
                   verify_echo(parse_envelope(e), n) <=> x.corr = n
===============================================================================

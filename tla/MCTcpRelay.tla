----------------------------- MODULE MCTcpRelay -----------------------------
(* Endpoints of two groups: every combination of a connection's options over
   one balancer, and every small balancer over one set of options. *)
EXTENDS TcpRelay

CONSTANTS
    MaxWeight,          \* bound: weight of a peer
    MaxPayload          \* bound: units a client sends after its header

Plain == [strategy |-> "off", weights |-> <<>>, extra |-> 1, hook |-> NoHook,
          accept |-> FALSE, send |-> FALSE, version |-> 2,
          connectTimeout |-> TRUE, acceptTimeout |-> TRUE,
          transport |-> FALSE, splice |-> TRUE, brutal |-> TRUE]

(* A version that make_header does not know matters only where one is sent,
   and a socket that cannot be spliced only where no transport is used.  The
   default features of realm include brutal-shutdown. *)
MCOptions ==
    {[Plain EXCEPT !.hook = h, !.accept = a, !.send = s, !.connectTimeout = ct,
                   !.acceptTimeout = at] :
        h \in {NoHook, 2}, a, s, ct, at \in BOOLEAN}
    \cup {[Plain EXCEPT !.send = TRUE, !.accept = a, !.version = v] : a \in BOOLEAN, v \in {1, 3}}
    \cup {[Plain EXCEPT !.accept = a, !.send = s, !.transport = t, !.splice = FALSE] :
        a, s, t \in BOOLEAN}
    \cup {[Plain EXCEPT !.accept = a, !.send = s, !.splice = p, !.brutal = FALSE] :
        a, s, p \in BOOLEAN}
    \cup {[Plain EXCEPT !.hook = 0]}

MCBalancers ==
    {[Plain EXCEPT !.strategy = "roundrobin", !.weights = w, !.extra = Len(w) - 1] :
        w \in UNION {[1..n -> 0..MaxWeight] : n \in 1..3}}
    \cup {[Plain EXCEPT !.strategy = "iphash", !.weights = w, !.extra = Len(w) - 1] :
        w \in {<<1>>, <<1, 1>>, <<0, 2>>, <<1, 2, 0>>}}

MCConfigs == MCOptions \cup MCBalancers

(* Where the balancer varies, the clients differ only in their address. *)
MCClientsOf(c) ==
    IF c \in MCOptions
    THEN [ip: {1}, hdr: HeaderKinds, payload: 0..MaxPayload]
    ELSE [ip: Ips, hdr: {"none"}, payload: {0}]

MCAddrLists == {<<"accepts">>, <<"refuses", "accepts">>, <<"silent", "accepts">>,
                <<"unusable", "accepts">>, <<"refuses", "silent">>}

(* A client's hash falls between two places of the ring, on one, or past the
   last. *)
MCHashOfVnode == [v \in Vnodes |-> (v * 7) % 5]
MCHashOfIp == <<1, 4, 6>>
=============================================================================

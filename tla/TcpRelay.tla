------------------------------ MODULE TcpRelay ------------------------------
(***************************************************************************)
(* A tcp connection from its accept to its end, one after another, over    *)
(* one balancer: the pre-connect hook, the choice of a peer, the attempts  *)
(* to connect, the PROXY header taken from the client and the one sent to  *)
(* the peer, and the relay of the client's stream.                         *)
(*                                                                         *)
(*   realm_core/src/tcp/middle.rs   connect_and_relay                      *)
(*   realm_core/src/tcp/hook.rs     pre_connect_hook                       *)
(*   realm_core/src/tcp/socket.rs   connect                                *)
(*   realm_core/src/tcp/proxy.rs    handle_proxy                           *)
(*   realm_core/src/tcp/plain.rs, transport.rs   run_relay                 *)
(*                                                                         *)
(* The client is a process of its own: its bytes arrive in pieces, and it  *)
(* closes or resets the connection when it likes.  Its stream is a         *)
(* sequence of numbered units, of which the first HeaderSize are a PROXY   *)
(* header if it sends one.  The peer closes its side when it likes; what   *)
(* it sends is left out.  How the two directions of the relay are copied   *)
(* is in BidiCopy, and how a connection is drained or killed in Cohort.    *)
(***************************************************************************)
EXTENDS Balancer

CONSTANTS
    Configs,            \* endpoints: options of the connection, and the balancer
    ClientsOf(_),       \* of an endpoint: what a client will send, and from where
    AddrLists,          \* what a lookup may return, with each address's manners
    HeaderSize,         \* units of a PROXY header
    PeekSize,           \* units that one peek sees (256 bytes)
    NoHook              \* conf.hook when no hook is loaded

(* How an address meets a connect: it accepts, it refuses, it does not answer,
   or this host cannot even make a socket for it. *)
Manners == {"accepts", "refuses", "silent", "unusable"}

HeaderKinds == {"none", "addresses", "local"}

ASSUME HeaderFits == HeaderSize \in Nat \ {0} /\ PeekSize \in Nat /\ HeaderSize <= PeekSize
ASSUME ClientsSend == \A e \in Configs : \A c \in ClientsOf(e) :
    c.ip \in Ips /\ c.hdr \in HeaderKinds /\ c.payload \in Nat

(* What build accepts: a known strategy, as many weights as peers or none at
   all, and options of any value; with them, of the host, whether sockets can
   be spliced, and of the build, whether it has the feature brutal-shutdown. *)
Built(c) ==
    /\ c.strategy \in {"off", "roundrobin", "iphash"}
    /\ c.extra \in Nat /\ c.weights \in Seq(0..255) /\ Len(c.weights) \in {0, c.extra + 1}
    /\ c.hook \in Nat \cup {NoHook} /\ c.version \in Nat
    /\ {c.accept, c.send, c.connectTimeout, c.acceptTimeout, c.transport} \subseteq BOOLEAN
    /\ {c.splice, c.brutal} \subseteq BOOLEAN

ASSUME ConfigsAreBuilt == \A c \in Configs : Built(c)

VARIABLES
    conf,               \* the endpoint's TcpRuntime
    pc,                 \* where connect_and_relay is
    client,             \* the client of this connection
    fin,                \* its side is open, closed or reset
    arrived,            \* units of its stream that have arrived
    taken,              \* units read from the socket
    addrs,              \* addresses of the peer selected, while connect goes through them
    tried,              \* how many of them were tried in vain
    upstream,           \* the address that accepted, or 0
    peer,               \* its side is open or closed
    source,             \* whose addresses the header sent will carry
    up                  \* what the peer has been sent

clientVars == <<client, fin, arrived>>
vars == <<conf, pc, clientVars, taken, addrs, tried, upstream, peer, source, up, balancerVars>>

Setup == {"hook", "balance", "resolve", "connect", "connected", "peek", "read", "send"}
Relaying == {"splice", "handshake", "copy"}
Over == {"done", "cut", "failed", "panicked"}

(* A unit of the client's stream, and a header made for the peer. *)
Data(k) == [kind |-> "data", n |-> k]
ProxyHeader(s) == [kind |-> s, n |-> 0]

StreamLen == client.payload + (IF client.hdr = "none" THEN 0 ELSE HeaderSize)
Readable == arrived - taken

Init ==
    /\ conf \in Configs
    /\ client \in ClientsOf(conf)
    /\ pc = "hook" /\ fin = "open"
    /\ arrived = 0 /\ taken = 0
    /\ addrs = <<>> /\ tried = 0 /\ upstream = 0 /\ peer = "open"
    /\ source = "real" /\ up = <<>>
    /\ BalancerInit(conf.strategy, conf.weights)

(* The accept loop hands over the next connection. *)
NextConnection ==
    /\ pc \in Over
    /\ client' \in ClientsOf(conf)
    /\ pc' = "hook" /\ fin' = "open"
    /\ arrived' = 0 /\ taken' = 0
    /\ addrs' = <<>> /\ tried' = 0 /\ upstream' = 0 /\ peer' = "open"
    /\ source' = "real" /\ up' = <<>>
    /\ UNCHANGED <<conf, balancerVars>>

-----------------------------------------------------------------------------
(* The client and the peer. *)

Arrive ==
    /\ pc \notin Over
    /\ fin = "open" /\ arrived < StreamLen
    /\ arrived' = arrived + 1
    /\ UNCHANGED <<conf, pc, client, fin, taken, addrs, tried, upstream, peer, source, up, balancerVars>>

(* Once the relay runs, a reset of a side already closed shows at most as an
   error of the relay. *)
Leave(how) ==
    /\ pc \notin Over
    /\ fin = "open" \/ (fin = "closed" /\ how = "reset" /\ pc \in Setup)
    /\ fin' = how
    /\ UNCHANGED <<conf, pc, client, arrived, taken, addrs, tried, upstream, peer, source, up, balancerVars>>

(* The peer closes its side, before the relay has started or later. *)
PeerCloses ==
    /\ pc \notin Over
    /\ upstream > 0 /\ peer = "open"
    /\ peer' = "closed"
    /\ UNCHANGED <<conf, pc, clientVars, taken, addrs, tried, upstream, source, up, balancerVars>>

(* peek, read_exact and peer_addr fail on a socket that was reset. *)
TouchesClient ==
    \/ pc = "hook" /\ conf.hook \notin {NoHook, 0}
    \/ pc \in {"balance", "connected", "peek", "read"}
    \/ pc = "send" /\ source = "real"

ClientError ==
    /\ fin = "reset"
    /\ TouchesClient
    /\ pc' = "failed"
    /\ UNCHANGED <<conf, clientVars, taken, addrs, tried, upstream, peer, source, up, balancerVars>>

-----------------------------------------------------------------------------
(* Before the connect. *)

HookAbsent ==
    /\ pc = "hook"
    /\ conf.hook = NoHook
    /\ pc' = "balance"
    /\ UNCHANGED <<conf, clientVars, taken, addrs, tried, upstream, peer, source, up, balancerVars>>

(* pre_connect_hook peeks until first_pkt_len units are there, without a
   timeout and without noticing that no more can come.  A negative index
   denies; a peer the hook selects is ignored, for the balancer selects; but an
   index past the last peer passes the check and is out of bounds. *)
HookDecides ==
    /\ pc = "hook"
    /\ conf.hook # NoHook
    /\ conf.hook <= Readable
    /\ \E idx \in -1..(conf.extra + 1) :
           pc' = CASE idx < 0 -> "failed"
                   [] idx \in 0..conf.extra -> "balance"
                   [] OTHER -> "panicked"
    /\ UNCHANGED <<conf, clientVars, taken, addrs, tried, upstream, peer, source, up, balancerVars>>

(* Token 0 is the remote and token n the n-th of the extra remotes, if there
   are as many. *)
Balance ==
    /\ pc = "balance"
    /\ BalancerNext(client.ip)
    /\ pc' = IF Pick(client.ip) <= conf.extra + 1 THEN "resolve" ELSE "failed"
    /\ UNCHANGED <<conf, clientVars, taken, addrs, tried, upstream, peer, source, up>>

Resolve ==
    /\ pc = "resolve"
    /\ \/ addrs' \in AddrLists /\ pc' = "connect"
       \/ addrs' = addrs /\ pc' = "failed"
    /\ UNCHANGED <<conf, clientVars, taken, tried, upstream, peer, source, up, balancerVars>>

-----------------------------------------------------------------------------
(* socket::connect: the addresses in turn. *)

AtAddress(how) == pc = "connect" /\ tried < Len(addrs) /\ addrs[tried + 1] = how

Connected ==
    /\ AtAddress("accepts")
    /\ upstream' = tried + 1
    /\ pc' = "connected"
    /\ addrs' = <<>> /\ tried' = 0
    /\ UNCHANGED <<conf, clientVars, taken, peer, source, up, balancerVars>>

TryNext_TimeoutReturns ==
    /\ \/ AtAddress("refuses") /\ tried' = tried + 1 /\ UNCHANGED <<pc, addrs>>
       \/ /\ AtAddress("silent") /\ conf.connectTimeout
          /\ pc' = "failed" /\ addrs' = <<>> /\ tried' = 0
    /\ UNCHANGED <<conf, clientVars, taken, upstream, peer, source, up, balancerVars>>

TryNext ==
    /\ AtAddress("refuses") \/ (AtAddress("silent") /\ conf.connectTimeout)
    /\ tried' = tried + 1
    /\ UNCHANGED <<conf, pc, clientVars, taken, addrs, upstream, peer, source, up, balancerVars>>

(* Without a timeout of realm's own the kernel may give up some day. *)
KernelGivesUp ==
    /\ AtAddress("silent") /\ ~conf.connectTimeout
    /\ tried' = tried + 1
    /\ UNCHANGED <<conf, pc, clientVars, taken, addrs, upstream, peer, source, up, balancerVars>>

(* An error of new_socket, bind or set_tcp_keepalive is returned at once; and
   when no address is left the last error is. *)
ConnectFails ==
    /\ AtAddress("unusable") \/ (pc = "connect" /\ tried = Len(addrs))
    /\ pc' = "failed"
    /\ addrs' = <<>> /\ tried' = 0
    /\ UNCHANGED <<conf, clientVars, taken, upstream, peer, source, up, balancerVars>>

-----------------------------------------------------------------------------
(* handle_proxy. *)

Relay == IF conf.transport THEN "handshake" ELSE "splice"
SendOrRelay == IF conf.send THEN "send" ELSE Relay

StartProxy ==
    /\ pc = "connected"
    /\ pc' = IF conf.accept THEN "peek" ELSE SendOrRelay
    /\ UNCHANGED <<conf, clientVars, taken, addrs, tried, upstream, peer, source, up, balancerVars>>

(* The header must be within the first peek, whole. *)
HeaderSeen ==
    client.hdr # "none" /\ HeaderSize <= (IF Readable < PeekSize THEN Readable ELSE PeekSize)

PeekHeader ==
    /\ pc = "peek"
    /\ Readable > 0 \/ fin # "open"
    /\ pc' = IF HeaderSeen THEN "read" ELSE "failed"
    /\ UNCHANGED <<conf, clientVars, taken, addrs, tried, upstream, peer, source, up, balancerVars>>

PeekTimeout_PeeksAgain ==
    /\ pc = "peek"
    /\ Readable = 0 /\ fin = "open" /\ conf.acceptTimeout
    /\ UNCHANGED vars

PeekTimeout ==
    /\ pc = "peek"
    /\ Readable = 0 /\ fin = "open" /\ conf.acceptTimeout
    /\ pc' = "failed"
    /\ UNCHANGED <<conf, clientVars, taken, addrs, tried, upstream, peer, source, up, balancerVars>>

ReadHeader_NotConsumed ==
    /\ pc = "read"
    /\ source' = IF client.hdr = "addresses" THEN "client" ELSE "real"
    /\ pc' = SendOrRelay
    /\ UNCHANGED <<conf, clientVars, taken, addrs, tried, upstream, peer, up, balancerVars>>

(* handle_header, and read_exact of as much as was parsed.  A header without
   usable addresses leaves the real ones. *)
ReadHeader ==
    /\ pc = "read"
    /\ source' = IF client.hdr = "addresses" THEN "client" ELSE "real"
    /\ taken' = taken + HeaderSize
    /\ pc' = SendOrRelay
    /\ UNCHANGED <<conf, clientVars, addrs, tried, upstream, peer, up, balancerVars>>

(* make_header knows two versions, and takes any other for unreachable. *)
SendHeader ==
    /\ pc = "send"
    /\ IF conf.version \in {1, 2}
       THEN up' = <<ProxyHeader(source)>> /\ pc' = Relay
       ELSE up' = up /\ pc' = "panicked"
    /\ UNCHANGED <<conf, clientVars, taken, addrs, tried, upstream, peer, source, balancerVars>>

(* remote.peer_addr and write_all fail on a peer that has gone. *)
PeerError ==
    /\ pc \in {"connected", "send"}
    /\ pc' = "failed"
    /\ UNCHANGED <<conf, clientVars, taken, addrs, tried, upstream, peer, source, up, balancerVars>>

-----------------------------------------------------------------------------
(* run_relay. *)

(* The first splice fails with InvalidInput where sockets cannot be spliced,
   and the relay starts again with buffers; a transport shakes hands first. *)
StartCopy ==
    /\ pc = "handshake" \/ (pc = "splice" /\ ~conf.splice)
    /\ pc' = "copy"
    /\ UNCHANGED <<conf, clientVars, taken, addrs, tried, upstream, peer, source, up, balancerVars>>

Moving == pc = "copy" \/ (pc = "splice" /\ conf.splice)

Forward ==
    /\ Moving
    /\ Readable > 0
    /\ taken' = taken + 1
    /\ up' = Append(up, Data(taken + 1))
    /\ UNCHANGED <<conf, pc, clientVars, addrs, tried, upstream, peer, source, balancerVars>>

(* A direction is over when its end has been passed on: that of the client
   behind everything it sent, that of the peer once the peer closed. *)
ToPeerOver == Readable = 0 /\ fin = "closed"
ToClientOver == peer = "closed"

(* The copy returns Ok on the end of both directions, or of either in a build
   with brutal-shutdown: what the client has sent by then and the peer has not
   been given is dropped. *)
EndOfStream ==
    /\ Moving
    /\ IF conf.brutal THEN ToPeerOver \/ ToClientOver ELSE ToPeerOver /\ ToClientOver
    /\ pc' = "done"
    /\ UNCHANGED <<conf, clientVars, taken, addrs, tried, upstream, peer, source, up, balancerVars>>

(* Any error of the handshake or of the relay ends the connection, and is
   ignored. *)
RelayFails ==
    /\ pc \in Relaying
    /\ pc' = "cut"
    /\ UNCHANGED <<conf, clientVars, taken, addrs, tried, upstream, peer, source, up, balancerVars>>

Step ==
    \/ HookAbsent \/ HookDecides \/ Balance \/ Resolve
    \/ Connected \/ TryNext \/ ConnectFails
    \/ StartProxy \/ PeekHeader \/ PeekTimeout \/ ReadHeader \/ SendHeader
    \/ StartCopy \/ Forward \/ EndOfStream
    \/ ClientError

Next ==
    \/ Step
    \/ NextConnection
    \/ Arrive
    \/ \E how \in {"closed", "reset"} : Leave(how)
    \/ PeerCloses
    \/ KernelGivesUp \/ PeerError \/ RelayFails

Spec == Init /\ [][Next]_vars

(* The task of a connection is scheduled, and its timers fire. *)
FairSpec == Spec /\ WF_vars(Step)

-----------------------------------------------------------------------------

(* One type invariant: a connection reads no more than has arrived, and no more
   arrives than the client sends. *)
TypeOK ==
    /\ conf \in Configs /\ client \in ClientsOf(conf)
    /\ pc \in Setup \cup Relaying \cup Over
    /\ fin \in {"open", "closed", "reset"}
    /\ arrived \in Nat /\ taken \in Nat /\ taken <= arrived /\ arrived <= StreamLen
    /\ tried \in Nat /\ upstream \in Nat
    /\ addrs \in AddrLists \cup {<<>>}
    /\ peer \in {"open", "closed"}
    /\ source \in {"real", "client"}
    /\ up \in Seq([kind: {"data", "real", "client"}, n: Nat])

(* What the peer is to receive as its i-th unit: a header of realm's own if
   one is configured, with the addresses of the client's header if it had
   some; and then the client's stream, without the header realm accepted. *)
Own == IF conf.send THEN 1 ELSE 0
Skipped == IF conf.accept /\ client.hdr # "none" THEN HeaderSize ELSE 0
Source == IF conf.accept /\ client.hdr = "addresses" THEN "client" ELSE "real"
Due(i) == IF conf.send /\ i = 1 THEN ProxyHeader(Source) ELSE Data(i - Own + Skipped)

(* connect_and_relay gives the peer the client's stream and nothing else, in
   order, whatever the hook peeked at, however the header came in pieces and
   whichever way the relay was started: nothing is lost, repeated or sent
   ahead of the header.  A relay that ends without error has sent all that
   came before the client's close, unless brutal-shutdown ended it on the close
   of the peer (bidi_copy.rs:123). *)
PeerGetsStream ==
    /\ \A i \in 1..Len(up) : up[i] = Due(i)
    /\ pc = "done" => \/ fin = "closed" /\ Len(up) = Own + arrived - Skipped
                      \/ conf.brutal /\ peer = "closed"

(* connect's "try next ip" (socket.rs:101-104): if an address accepts, and
   none before it is one this host has no socket for or one that neither
   answers nor times out, the connection gets through. *)
Reachable ==
    \E k \in 1..Len(addrs) :
        /\ addrs[k] = "accepts"
        /\ \A j \in 1..(k - 1) : \/ addrs[j] \in {"accepts", "refuses"}
                                 \/ addrs[j] = "silent" /\ conf.connectTimeout

AcceptingAddressReached == (pc = "connect" /\ Reachable) ~> (upstream > 0)

(* With both timeouts set a connection is not kept waiting before its relay,
   whatever its client and its peer's addresses do.  The hook is the
   exception: it has no timeout, and a client that sends less than the hook's
   first packet keeps the connection, closed or not. *)
HookStarves == pc = "hook" /\ conf.hook # NoHook /\ conf.hook > Readable

SetupEnds ==
    conf.connectTimeout /\ conf.acceptTimeout /\ pc \in Setup
        ~> (pc \notin Setup \/ HookStarves)
=============================================================================

--------------------------- MODULE TcpRelayProofs ---------------------------
(***************************************************************************)
(* Proofs about TcpRelay and Balancer, for all endpoints, clients, weights *)
(* and sizes.                                                              *)
(*                                                                         *)
(* First the stream: the peer of a connection receives realm's header, if  *)
(* one is configured, and then the client's stream, in order and without   *)
(* the header realm accepted.  PeerGetsStream speaks of what was sent;     *)
(* StreamInv adds why the next unit is the right one: how much has been    *)
(* read at each point, and that nothing has been sent before the header.   *)
(*                                                                         *)
(* Then the balancer: the round robin gives each peer its share.           *)
(***************************************************************************)
EXTENDS TcpRelay, WellFoundedInduction, TLAPS

(* What has been read and sent at each point of connect_and_relay. *)
StreamInv ==
    /\ pc \in Setup \ {"send"} => taken = 0 /\ source = "real" /\ up = <<>>
    /\ pc = "peek" => conf.accept
    /\ pc = "read" => conf.accept /\ client.hdr # "none" /\ HeaderSize <= arrived
    /\ pc = "send" => conf.send /\ taken = Skipped /\ source = Source /\ up = <<>>
    /\ pc \in Relaying \cup {"done"} => Skipped <= taken /\ Len(up) = Own + taken - Skipped
    /\ pc = "done" => \/ fin = "closed" /\ taken = arrived
                      \/ conf.brutal /\ peer = "closed"
    /\ \A i \in 1..Len(up) : up[i] = Due(i)

IInv == TypeOK /\ StreamInv

Unit == [kind: {"data", "real", "client"}, n: Nat]

(* What an endpoint and a client of it are made of. *)
LEMMA Parts ==
    ASSUME TypeOK
    PROVE  /\ conf.accept \in BOOLEAN /\ conf.send \in BOOLEAN
           /\ StreamLen \in Nat
           /\ Skipped \in Nat /\ Own \in {0, 1}
           /\ Source \in {"real", "client"}
<1>1. conf.accept \in BOOLEAN /\ conf.send \in BOOLEAN
  BY ConfigsAreBuilt DEF TypeOK, Built
<1>2. client.payload \in Nat
  BY ClientsSend DEF TypeOK
<1>3. StreamLen \in Nat
  BY <1>2, HeaderFits DEF StreamLen
<1>4. Skipped \in Nat /\ Own \in {0, 1} /\ Source \in {"real", "client"}
  BY HeaderFits DEF Skipped, Own, Source
<1> QED BY <1>1, <1>3, <1>4

(* A step that leaves what was read and sent, the endpoint and the client's
   plans alone keeps the types. *)
LEMMA QuietType ==
    ASSUME TypeOK, UNCHANGED <<conf, client, taken, source, up>>,
           pc' \in Setup \cup Relaying \cup Over,
           fin' \in {"open", "closed", "reset"},
           arrived' \in Nat, arrived <= arrived', arrived' <= StreamLen,
           tried' \in Nat, upstream' \in Nat, addrs' \in AddrLists \cup {<<>>},
           peer' \in {"open", "closed"}
    PROVE  TypeOK'
<1>1. StreamLen' = StreamLen
  BY DEF StreamLen
<1> QED BY <1>1 DEF TypeOK

(* What is due to the peer depends on the endpoint and the client alone. *)
LEMMA QuietDue ==
    ASSUME StreamInv, UNCHANGED <<conf, client, taken, source, up>>
    PROVE  /\ Skipped' = Skipped /\ Own' = Own /\ Source' = Source
           /\ (\A i \in 1..Len(up) : up[i] = Due(i))'
<1>1. Skipped' = Skipped /\ Own' = Own /\ Source' = Source
  BY DEF Skipped, Own, Source
<1>2. \A i \in 1..Len(up) : up[i] = Due(i)
  BY DEF StreamInv
<1>3. ASSUME NEW i PROVE Due(i)' = Due(i)
  BY <1>1 DEF Due, ProxyHeader, Data
<1>4. up' = up
  OBVIOUS
<1> QED BY <1>1, <1>2, <1>3, <1>4

(* Every step of a connection keeps the types. *)
LEMMA TypeStep == IInv /\ [Next]_vars => TypeOK'
<1> SUFFICES ASSUME TypeOK, StreamInv, [Next]_vars PROVE TypeOK'
  BY DEF IInv
<1> DEFINE Pcs == Setup \cup Relaying \cup Over
<1>0. /\ pc \in Pcs /\ fin \in {"open", "closed", "reset"}
      /\ arrived \in Nat /\ taken \in Nat /\ taken <= arrived /\ arrived <= StreamLen
      /\ tried \in Nat /\ upstream \in Nat /\ addrs \in AddrLists \cup {<<>>}
      /\ peer \in {"open", "closed"} /\ StreamLen \in Nat
  BY Parts DEF TypeOK
<1>1. ASSUME UNCHANGED <<conf, client, arrived, taken, source, up>>,
             pc' \in Pcs, fin' \in {"open", "closed", "reset"},
             tried' \in Nat, upstream' \in Nat, addrs' \in AddrLists \cup {<<>>},
             peer' \in {"open", "closed"}
      PROVE  TypeOK'
  <2>1. arrived' \in Nat /\ arrived <= arrived' /\ arrived' <= StreamLen
    BY <1>0, <1>1
  <2> QED BY <1>1, <2>1, QuietType
<1>2. CASE HookAbsent \/ HookDecides \/ Balance
  BY <1>0, <1>1, <1>2 DEF HookAbsent, HookDecides, Balance, Setup, Over, clientVars
<1>3. CASE Resolve
  BY <1>0, <1>1, <1>3 DEF Resolve, Setup, Over, clientVars
<1>4. CASE Connected \/ TryNext \/ KernelGivesUp \/ ConnectFails
  BY <1>0, <1>1, <1>4 DEF Connected, TryNext, KernelGivesUp, ConnectFails, Setup, Over, clientVars
<1>5. CASE StartProxy \/ PeekHeader \/ PeekTimeout \/ PeerError
  BY <1>0, <1>1, <1>5
  DEF StartProxy, PeekHeader, PeekTimeout, PeerError, SendOrRelay, Relay, Setup, Relaying, Over, clientVars
<1>6. CASE StartCopy \/ EndOfStream \/ RelayFails \/ ClientError
  BY <1>0, <1>1, <1>6
  DEF StartCopy, EndOfStream, RelayFails, ClientError, Relaying, Over, clientVars
<1>7. CASE Arrive
  BY <1>0, <1>7, QuietType DEF Arrive
<1>8. ASSUME NEW how \in {"closed", "reset"}, Leave(how) PROVE TypeOK'
  BY <1>0, <1>1, <1>8 DEF Leave
<1>9. CASE PeerCloses
  BY <1>0, <1>1, <1>9 DEF PeerCloses, clientVars
<1>10. CASE NextConnection
  <2>1. conf' \in Configs /\ client' \in ClientsOf(conf')
    BY <1>10 DEF NextConnection, TypeOK
  <2>2. StreamLen' \in Nat
    BY <2>1, ClientsSend, HeaderFits DEF StreamLen
  <2>3. up' \in Seq(Unit)
    BY <1>10 DEF NextConnection, Unit
  <2> QED BY <1>10, <2>1, <2>2, <2>3 DEF NextConnection, TypeOK, Unit, Setup
<1>11. CASE ReadHeader
  <2>1. taken = 0 /\ HeaderSize <= arrived
    BY <1>11 DEF ReadHeader, StreamInv, Setup
  <2>2. taken' \in Nat /\ taken' <= arrived'
    BY <1>0, <1>11, <2>1, HeaderFits DEF ReadHeader, clientVars
  <2>3. StreamLen' = StreamLen
    BY <1>11 DEF ReadHeader, StreamLen, clientVars
  <2>4. pc' \in Pcs /\ source' \in {"real", "client"}
    BY <1>11 DEF ReadHeader, SendOrRelay, Relay, Setup, Relaying
  <2> QED BY <1>11, <2>2, <2>3, <2>4 DEF ReadHeader, TypeOK, clientVars
<1>12. CASE SendHeader
  <2>1. up' \in Seq(Unit) /\ pc' \in Pcs
    <3>1. ProxyHeader(source) \in Unit /\ up \in Seq(Unit)
      BY DEF TypeOK, ProxyHeader, Unit
    <3>2. <<ProxyHeader(source)>> \in Seq(Unit)
      BY <3>1
    <3> QED BY <1>12, <3>1, <3>2, Zenon DEF SendHeader, Relay, Relaying, Over
  <2>2. StreamLen' = StreamLen
    BY <1>12 DEF SendHeader, StreamLen, clientVars
  <2> QED BY <1>12, <2>1, <2>2 DEF SendHeader, TypeOK, Unit, clientVars
<1>13. CASE Forward
  <2>1. up' \in Seq(Unit)
    <3>1. Data(taken + 1) \in Unit /\ up \in Seq(Unit)
      BY <1>0 DEF TypeOK, Data, Unit
    <3> QED BY <1>13, <3>1 DEF Forward
  <2>2. StreamLen' = StreamLen
    BY <1>13 DEF Forward, StreamLen, clientVars
  <2>3. taken' \in Nat /\ taken' <= arrived
    BY <1>0, <1>13 DEF Forward, Readable
  <2> QED BY <1>13, <2>1, <2>2, <2>3 DEF Forward, TypeOK, Unit, clientVars
<1>14. CASE UNCHANGED vars
  BY <1>0, <1>1, <1>14 DEF vars, clientVars
<1> QED
  BY <1>2, <1>3, <1>4, <1>5, <1>6, <1>7, <1>8, <1>9, <1>10, <1>11, <1>12, <1>13, <1>14
  DEF Next, Step

(* Every step of a connection keeps what was read and sent in agreement. *)
LEMMA StreamStep == IInv /\ [Next]_vars => StreamInv'
<1> SUFFICES ASSUME TypeOK, StreamInv, [Next]_vars PROVE StreamInv'
  BY DEF IInv
<1>0. /\ arrived \in Nat /\ taken \in Nat /\ taken <= arrived
      /\ Skipped \in Nat /\ Own \in {0, 1} /\ up \in Seq(Unit)
      /\ conf.accept \in BOOLEAN /\ conf.send \in BOOLEAN
  BY Parts DEF TypeOK, Unit
<1>1. ASSUME UNCHANGED <<conf, client, taken, source, up>>,
             pc' \in (Setup \ {"peek", "read", "send"}) \cup {"cut", "failed", "panicked"},
             pc' \in Setup => pc \in Setup \ {"send"}
      PROVE  StreamInv'
  BY <1>1, QuietDue DEF StreamInv, Setup, Relaying
<1>2. CASE HookAbsent \/ HookDecides \/ Balance \/ Resolve
  BY <1>1, <1>2 DEF HookAbsent, HookDecides, Balance, Resolve, Setup, clientVars
<1>3. CASE Connected \/ TryNext \/ KernelGivesUp \/ ConnectFails
  BY <1>1, <1>3
  DEF Connected, TryNext, KernelGivesUp, ConnectFails, AtAddress, Setup, clientVars
<1>4. CASE PeekTimeout \/ PeerError \/ RelayFails \/ ClientError
  BY <1>1, <1>4 DEF PeekTimeout, PeerError, RelayFails, ClientError, Setup, clientVars
<1>5. CASE StartProxy
  <2>1. taken = 0 /\ source = "real" /\ up = <<>>
    BY <1>5 DEF StartProxy, StreamInv, Setup
  <2>2. UNCHANGED <<conf, client, taken, source, up, arrived>>
    BY <1>5 DEF StartProxy, clientVars
  <2>3. CASE conf.accept
    BY <1>5, <2>1, <2>2, <2>3, QuietDue DEF StartProxy, StreamInv, Setup, Relaying
  <2>4. CASE ~conf.accept
    <3>1. Skipped = 0 /\ Source = "real" /\ Own = IF conf.send THEN 1 ELSE 0
      BY <2>4 DEF Skipped, Source, Own
    <3> QED
      BY <1>0, <1>5, <2>1, <2>2, <2>4, <3>1, QuietDue
      DEF StartProxy, SendOrRelay, Relay, StreamInv, Setup, Relaying
  <2> QED BY <2>3, <2>4
<1>6. CASE PeekHeader
  <2>1. taken = 0 /\ source = "real" /\ up = <<>> /\ conf.accept
    BY <1>6 DEF PeekHeader, StreamInv, Setup
  <2>2. UNCHANGED <<conf, client, taken, source, up, arrived>>
    BY <1>6 DEF PeekHeader, clientVars
  <2>3. HeaderSeen => client.hdr # "none" /\ HeaderSize <= arrived
    BY <1>0, <2>1, HeaderFits DEF HeaderSeen, Readable
  <2> QED
    BY <1>6, <2>1, <2>2, <2>3, QuietDue DEF PeekHeader, StreamInv, Setup, Relaying
<1>7. CASE ReadHeader
  <2>1. taken = 0 /\ up = <<>> /\ conf.accept /\ client.hdr # "none"
    BY <1>7 DEF ReadHeader, StreamInv, Setup
  <2>2. UNCHANGED <<conf, client, up, arrived>> /\ taken' = HeaderSize /\ pc' = SendOrRelay
    BY <1>7, <2>1, HeaderFits DEF ReadHeader, clientVars
  <2>3. Skipped' = HeaderSize /\ source' = Source' /\ Own' = IF conf.send THEN 1 ELSE 0
    BY <1>7, <2>1, <2>2 DEF ReadHeader, Skipped, Source, Own
  <2> QED
    BY <1>0, <2>1, <2>2, <2>3, HeaderFits DEF SendOrRelay, Relay, StreamInv, Setup, Relaying
<1>8. CASE SendHeader
  <2>1. conf.send /\ taken = Skipped /\ source = Source /\ up = <<>>
    BY <1>8 DEF SendHeader, StreamInv
  <2>2. UNCHANGED <<conf, client, taken, source, arrived>>
    BY <1>8 DEF SendHeader, clientVars
  <2>3. Skipped' = Skipped /\ Own' = 1 /\ Source' = Source
    BY <2>1, <2>2 DEF Skipped, Own, Source
  <2>4. CASE conf.version \in {1, 2}
    <3>1. up' = <<ProxyHeader(source)>> /\ pc' \in {"handshake", "splice"}
      BY <1>8, <2>4 DEF SendHeader, Relay
    <3>2. Len(up') = 1 /\ up'[1] = Due(1)'
      BY <2>1, <2>2, <2>3, <3>1 DEF Due, ProxyHeader
    <3> QED
      BY <1>0, <2>1, <2>2, <2>3, <3>1, <3>2 DEF StreamInv, Setup, Relaying
  <2>5. CASE conf.version \notin {1, 2}
    BY <1>1, <1>8, <2>2, <2>5 DEF SendHeader, Setup
  <2> QED BY <2>4, <2>5
<1>9. CASE StartCopy
  BY <1>9, QuietDue DEF StartCopy, StreamInv, Setup, Relaying, clientVars
<1>10. CASE EndOfStream
  <2>1. pc \in Relaying
    BY <1>10 DEF EndOfStream, Moving, Relaying
  <2>2. (fin = "closed" /\ taken = arrived) \/ (conf.brutal /\ peer = "closed")
    BY <1>0, <1>10 DEF EndOfStream, ToPeerOver, ToClientOver, Readable
  <2> QED
    BY <1>10, <2>1, <2>2, QuietDue DEF EndOfStream, StreamInv, Setup, Relaying, clientVars
<1>11. CASE Forward
  <2>1. pc \in Relaying /\ pc' = pc
    BY <1>11 DEF Forward, Moving, Relaying
  <2>2. Skipped <= taken /\ Len(up) = Own + taken - Skipped /\ Len(up) \in Nat
    BY <1>0, <2>1 DEF StreamInv
  <2>3. taken' = taken + 1 /\ UNCHANGED <<conf, client, source, arrived>>
    BY <1>11 DEF Forward, clientVars
  <2>4. Skipped' = Skipped /\ Own' = Own
    BY <2>3 DEF Skipped, Own
  <2>5. Len(up') = Len(up) + 1 /\ up'[Len(up) + 1] = Data(taken + 1)
           /\ \A i \in 1..Len(up) : up'[i] = up[i]
    BY <1>0, <1>11 DEF Forward
  <2>6. \A i : Due(i)' = Due(i)
    BY <2>3, <2>4 DEF Due, ProxyHeader, Data, Source
  <2>7. Due(Len(up) + 1) = Data(taken + 1)
    BY <1>0, <2>2 DEF Due, Own
  <2>8. \A i \in 1..Len(up) : up[i] = Due(i)
    BY DEF StreamInv
  <2>9. \A i \in 1..Len(up') : up'[i] = Due(i)'
    BY <1>0, <2>2, <2>5, <2>6, <2>7, <2>8
  <2> QED
    BY <1>0, <2>1, <2>2, <2>3, <2>4, <2>5, <2>9 DEF StreamInv, Setup, Relaying
<1>12. CASE Arrive
  <2>1. /\ UNCHANGED <<conf, client, taken, source, up, pc>> /\ pc \notin Over
        /\ arrived' \in Nat /\ arrived <= arrived'
    BY <1>0, <1>12 DEF Arrive
  <2> QED
    BY <1>0, <2>1, QuietDue, HeaderFits DEF StreamInv, Setup, Relaying, Over
<1>13. ASSUME NEW how \in {"closed", "reset"}, Leave(how) PROVE StreamInv'
  BY <1>13, QuietDue DEF Leave, StreamInv, Setup, Relaying, Over
<1>14. CASE PeerCloses
  BY <1>14, QuietDue DEF PeerCloses, StreamInv, Setup, Relaying, Over, clientVars
<1>15. CASE NextConnection
  BY <1>15 DEF NextConnection, StreamInv, Setup, Relaying
<1>16. CASE UNCHANGED vars
  BY <1>16, QuietDue DEF vars, clientVars, StreamInv, Setup, Relaying
<1> QED
  BY <1>2, <1>3, <1>4, <1>5, <1>6, <1>7, <1>8, <1>9, <1>10, <1>11, <1>12, <1>13, <1>14,
     <1>15, <1>16
  DEF Next, Step

(* The invariant of a connection, for every instance. *)
THEOREM TcpRelayInv == Spec => []IInv
<1>1. Init => IInv
  <2> SUFFICES ASSUME Init PROVE TypeOK /\ StreamInv
    BY DEF IInv
  <2>1. conf \in Configs /\ client \in ClientsOf(conf)
    BY DEF Init
  <2>2. StreamLen \in Nat
    BY <2>1, ClientsSend, HeaderFits DEF StreamLen
  <2>3. TypeOK
    BY <2>1, <2>2 DEF Init, TypeOK, Setup
  <2>4. StreamInv
    BY DEF Init, StreamInv, Setup, Relaying
  <2> QED BY <2>3, <2>4
<1>2. IInv /\ [Next]_vars => IInv'
  BY TypeStep, StreamStep DEF IInv
<1> QED
  BY <1>1, <1>2, PTL DEF Spec

(* connect_and_relay: the peer receives the header due and the client's stream
   in order, and all of it when the relay ends without error, unless a brutal
   build ended it on the close of the peer. *)
THEOREM PeerGetsStreamHolds == Spec => []PeerGetsStream
<1>1. IInv => PeerGetsStream
  BY DEF IInv, StreamInv, PeerGetsStream
<1> QED
  BY <1>1, TcpRelayInv, PTL

-----------------------------------------------------------------------------
(* Recursive functions. *)

(* Induction over a set of numbers, from the well-foundedness of < on Nat. *)
LEMMA SetInduction ==
    ASSUME NEW S, 0 \in S, \A n \in Nat : n \in S => n + 1 \in S
    PROVE  Nat \subseteq S
<1> DEFINE R == OpToRel(<, Nat)
           T == Nat \ S
<1>1. IsWellFoundedOn(R, Nat)
  BY NatLessThanWellFounded, Zenon
<1>2. ASSUME T # {} PROVE FALSE
  <2>1. PICK x \in T : \A y \in T : ~(<<y, x>> \in R)
    <3> HIDE DEF R
    <3> QED
      BY <1>1, <1>2, WFMin, Zenon
  <2>2. x \in Nat /\ x # 0 /\ x - 1 \in Nat /\ x - 1 < x
    OBVIOUS
  <2>3. <<x - 1, x>> \in R
    BY <2>2, Zenon DEF OpToRel
  <2>4. x - 1 \in S
    BY <2>1, <2>2, <2>3, Zenon
  <2>5. (x - 1) + 1 = x
    BY <2>2
  <2> QED
    BY <2>2, <2>4, <2>5
<1> QED
  BY <1>2

(* Induction from a up to b. *)
LEMMA IntervalInduction ==
    ASSUME NEW S, NEW a \in Nat, NEW b \in Nat, a \in S,
           \A p \in a .. b : p # b /\ p \in S => p + 1 \in S
    PROVE  a .. b \subseteq S
<1> DEFINE T == {k \in Nat : a + k <= b => a + k \in S}
<1>1. 0 \in T
  OBVIOUS
<1>2. ASSUME NEW k \in Nat, k \in T PROVE k + 1 \in T
  <2> SUFFICES ASSUME a + (k + 1) <= b PROVE a + (k + 1) \in S
    OBVIOUS
  <2>1. a + k \in a .. b /\ a + k # b /\ a + k \in S
    BY <1>2
  <2>2. (a + k) + 1 \in S
    BY <2>1
  <2> QED
    BY <2>2
<1>3. Nat \subseteq T
  <2> HIDE DEF T
  <2> QED
    BY <1>1, <1>2, SetInduction
<1>4. ASSUME NEW p \in a .. b PROVE p \in S
  <2>1. p - a \in T
    BY <1>3
  <2> QED
    BY <2>1
<1> QED
  BY <1>4

(* f is the recursive function on a .. b that starts with c and applies K[p] to
   its value at p - 1. *)
Iterates(f, a, b, c, K) == f = [p \in a .. b |-> IF p = a THEN c ELSE K[p][f[p - 1]]]

(* Such a function exists, so what a recursive definition of this form chooses
   satisfies its own equation. *)
LEMMA RecursionExists ==
    ASSUME NEW a \in Nat, NEW b \in Nat, a <= b, NEW c, NEW K
    PROVE  \E f : Iterates(f, a, b, c, K)
<1> USE DEF Iterates
<1> DEFINE Runs(f, m) == f = [p \in a .. m |-> IF p = a THEN c ELSE K[p][f[p - 1]]]
           S == {m \in Nat : \E f : Runs(f, m)}
<1>1. a \in S
  <2> DEFINE f == [p \in a .. a |-> c]
  <2>1. f = [p \in a .. a |-> IF p = a THEN c ELSE K[p][f[p - 1]]]
    OBVIOUS
  <2> QED
    BY <2>1, Zenon
<1>2. ASSUME NEW m \in a .. b, m # b, m \in S PROVE m + 1 \in S
  <2>1. PICK f : Runs(f, m)
    BY <1>2
  <2> DEFINE g == [p \in a .. (m + 1) |-> IF p = m + 1 THEN K[p][f[m]] ELSE f[p]]
             h == [p \in a .. (m + 1) |-> IF p = a THEN c ELSE K[p][g[p - 1]]]
  <2>2. ASSUME NEW p \in a .. (m + 1) PROVE g[p] = h[p]
    <3>1. CASE p = m + 1
      <4>1. p # a /\ p - 1 = m /\ g[p] = K[p][f[m]] /\ g[m] = f[m]
        BY <3>1
      <4> QED
        BY <4>1
    <3>2. CASE p # m + 1
      <4>1. p \in a .. m /\ g[p] = f[p]
        BY <3>2
      <4>2. f[p] = IF p = a THEN c ELSE K[p][f[p - 1]]
        BY <2>1, <4>1
      <4>3. p # a => g[p - 1] = f[p - 1]
        BY <3>2
      <4> QED
        BY <4>1, <4>2, <4>3
    <3> QED
      BY <3>1, <3>2
  <2>3. g = [p \in a .. (m + 1) |-> g[p]] /\ h = [p \in a .. (m + 1) |-> h[p]]
    OBVIOUS
  <2>4. g = h
    <3> HIDE DEF g, h
    <3> QED
      BY <2>2, <2>3
  <2>5. Runs(g, m + 1)
    BY <2>4, Zenon
  <2>6. m + 1 \in Nat
    OBVIOUS
  <2> HIDE DEF Runs, g
  <2> QED
    BY <2>5, <2>6
<1>3. a .. b \subseteq S
  <2> HIDE DEF S
  <2> QED
    BY <1>1, <1>2, IntervalInduction
<1>4. b \in S
  <2> HIDE DEF S
  <2> QED
    BY <1>3
<1> QED
  BY <1>4, Zenon

(* A function on 1 .. n is a sequence of length n. *)
LEMMA FunctionIsSeq ==
    ASSUME NEW S, NEW n \in Nat, NEW f \in [1 .. n -> S]
    PROVE  f \in Seq(S) /\ Len(f) = n
OBVIOUS

-----------------------------------------------------------------------------
(* Sums. *)

(* P[k] is the sum of the first k values of f. *)
Adds(P, n, f) ==
    /\ P \in [0 .. n -> Int]
    /\ P[0] = 0
    /\ \A k \in 1 .. n : P[k] = P[k - 1] + f[k]

(* Sum is the last of the partial sums (the total that RoundRobin::next adds up). *)
LEMMA SumAdds ==
    ASSUME NEW n \in Nat, NEW f \in [1 .. n -> Int]
    PROVE  \E P : Adds(P, n, f) /\ Sum(f) = P[n]
<1> DEFINE K == [p \in 0 .. n |-> [x \in Int |-> x + f[p]]]
           Runs(P) == P = [p \in 0 .. n |-> IF p = 0 THEN 0 ELSE P[p - 1] + f[p]]
           Q == CHOOSE P : Runs(P)
<1>1. \E P : Runs(P)
  <2>1. PICK P : Iterates(P, 0, n, 0, K)
    <3>1. 0 \in Nat /\ 0 <= n
      OBVIOUS
    <3> HIDE DEF K
    <3> QED
      BY <3>1, RecursionExists, Zenon
  <2>2. /\ P = [p \in 0 .. n |-> P[p]]
        /\ P[0] = 0
        /\ \A p \in 0 .. n : p # 0 => P[p] = K[p][P[p - 1]]
    <3> HIDE DEF K
    <3> QED
      BY <2>1 DEF Iterates
  <2>3. \A p \in 0 .. n : \A x \in Int : K[p][x] = x + f[p]
    OBVIOUS
  <2> HIDE DEF K
  <2> DEFINE S == {p \in Nat : P[p] \in Int}
  <2>4. 0 \in S
    BY <2>2
  <2>5. ASSUME NEW p \in 0 .. n, p # n, p \in S PROVE p + 1 \in S
    <3>1. p + 1 \in 0 .. n /\ p + 1 # 0 /\ (p + 1) - 1 = p /\ p + 1 \in 1 .. n
      BY <2>5
    <3>2. P[p + 1] = P[p] + f[p + 1]
      BY <2>2, <2>3, <2>5, <3>1, ZenonT(40)
    <3> QED
      BY <2>5, <3>1, <3>2
  <2>6. 0 .. n \subseteq S
    <3> HIDE DEF S
    <3> QED
      BY <2>4, <2>5, IntervalInduction, Zenon
  <2>7. \A p \in 0 .. n : p # 0 => P[p] = P[p - 1] + f[p]
    <3> TAKE p \in 0 .. n
    <3> HAVE p # 0
    <3>1. p - 1 \in 0 .. n
      OBVIOUS
    <3>2. P[p - 1] \in Int
      BY <2>6, <3>1
    <3> QED
      BY <2>2, <2>3, <3>2, Zenon
  <2>8. Runs(P)
    BY <2>2, <2>7, Zenon
  <2> QED
    BY <2>8
<1>2. Runs(Q)
  BY <1>1, Zenon
<1>3. Sum(f) = Q[n]
  <2>1. Len(f) = n
    BY FunctionIsSeq
  <2> QED
    BY <2>1, Zenon DEF Sum
<1> HIDE DEF Q
<1>4. /\ Q[0] = 0
      /\ \A k \in 1 .. n : Q[k] = Q[k - 1] + f[k]
      /\ Q = [p \in 0 .. n |-> Q[p]]
  BY <1>2
<1> DEFINE S == {p \in Nat : Q[p] \in Int}
<1>5. 0 \in S
  BY <1>4
<1>6. ASSUME NEW p \in 0 .. n, p # n, p \in S PROVE p + 1 \in S
  <2>1. p + 1 \in 1 .. n /\ (p + 1) - 1 = p
    BY <1>6
  <2>2. Q[p + 1] = Q[p] + f[p + 1]
    BY <1>4, <2>1, Zenon
  <2> QED
    BY <1>6, <2>1, <2>2
<1>7. 0 .. n \subseteq S
  <2> HIDE DEF S
  <2> QED
    BY <1>5, <1>6, IntervalInduction, Zenon
<1>8. Q \in [0 .. n -> Int]
  BY <1>4, <1>7
<1> QED
  BY <1>3, <1>4, <1>8, Zenon DEF Adds

(* A sum of integers is one. *)
LEMMA SumType ==
    ASSUME NEW n \in Nat, NEW f \in [1 .. n -> Int]
    PROVE  Sum(f) \in Int
BY SumAdds DEF Adds

(* Sum is monotonic. *)
LEMMA SumAtMost ==
    ASSUME NEW n \in Nat, NEW f \in [1 .. n -> Int], NEW g \in [1 .. n -> Int],
           \A i \in 1 .. n : f[i] <= g[i]
    PROVE  Sum(f) <= Sum(g)
<1>1. PICK P : Adds(P, n, f) /\ Sum(f) = P[n]
  BY SumAdds
<1>2. PICK Q : Adds(Q, n, g) /\ Sum(g) = Q[n]
  BY SumAdds
<1> DEFINE S == {p \in Nat : P[p] <= Q[p]}
<1>3. 0 \in S
  BY <1>1, <1>2 DEF Adds
<1>4. ASSUME NEW p \in 0 .. n, p # n, p \in S PROVE p + 1 \in S
  <2>1. p + 1 \in 1 .. n /\ (p + 1) - 1 = p /\ p \in 0 .. n /\ p + 1 \in 0 .. n
    BY <1>4
  <2>2. P[p + 1] = P[p] + f[p + 1] /\ Q[p + 1] = Q[p] + g[p + 1]
    BY <1>1, <1>2, <2>1 DEF Adds
  <2>3. P[p] \in Int /\ Q[p] \in Int /\ f[p + 1] \in Int /\ g[p + 1] \in Int
        /\ f[p + 1] <= g[p + 1] /\ P[p] <= Q[p]
    BY <1>1, <1>2, <1>4, <2>1 DEF Adds
  <2> QED
    BY <2>1, <2>2, <2>3
<1>5. n \in S
  <2> HIDE DEF S
  <2>1. 0 .. n \subseteq S
    BY <1>3, <1>4, IntervalInduction, Zenon
  <2> QED
    BY <2>1
<1> QED
  BY <1>1, <1>2, <1>5

(* The sum of a pointwise sum. *)
LEMMA SumOfSums ==
    ASSUME NEW n \in Nat, NEW f \in [1 .. n -> Int], NEW g \in [1 .. n -> Int],
           NEW h \in [1 .. n -> Int], \A i \in 1 .. n : h[i] = f[i] + g[i]
    PROVE  Sum(h) = Sum(f) + Sum(g)
<1>1. PICK P : Adds(P, n, f) /\ Sum(f) = P[n]
  BY SumAdds
<1>2. PICK Q : Adds(Q, n, g) /\ Sum(g) = Q[n]
  BY SumAdds
<1>3. PICK R : Adds(R, n, h) /\ Sum(h) = R[n]
  BY SumAdds
<1> DEFINE S == {p \in Nat : R[p] = P[p] + Q[p]}
<1>4. 0 \in S
  BY <1>1, <1>2, <1>3 DEF Adds
<1>5. ASSUME NEW p \in 0 .. n, p # n, p \in S PROVE p + 1 \in S
  <2>1. p + 1 \in 1 .. n /\ (p + 1) - 1 = p /\ p \in 0 .. n /\ p + 1 \in 0 .. n
    BY <1>5
  <2>2. /\ P[p + 1] = P[p] + f[p + 1] /\ Q[p + 1] = Q[p] + g[p + 1]
        /\ R[p + 1] = R[p] + h[p + 1]
    BY <1>1, <1>2, <1>3, <2>1, Zenon DEF Adds
  <2>3. P[p] \in Int /\ Q[p] \in Int /\ f[p + 1] \in Int /\ g[p + 1] \in Int
        /\ h[p + 1] = f[p + 1] + g[p + 1] /\ R[p] = P[p] + Q[p]
    BY <1>1, <1>2, <1>5, <2>1, SMTT(30) DEF Adds
  <2> QED
    BY <2>1, <2>2, <2>3
<1>6. n \in S
  <2> HIDE DEF S
  <2>1. 0 .. n \subseteq S
    BY <1>4, <1>5, IntervalInduction, Zenon
  <2> QED
    BY <2>1
<1> QED
  BY <1>1, <1>2, <1>3, <1>6

(* The sum of a function that is zero but at one place. *)
LEMMA SumOfOne ==
    ASSUME NEW n \in Nat, NEW b \in 1 .. n, NEW c \in Int, NEW h \in [1 .. n -> Int],
           \A i \in 1 .. n : h[i] = IF i = b THEN c ELSE 0
    PROVE  Sum(h) = c
<1>1. PICK P : Adds(P, n, h) /\ Sum(h) = P[n]
  BY SumAdds
<1> DEFINE S == {p \in Nat : P[p] = IF p < b THEN 0 ELSE c}
<1>2. 0 \in S
  BY <1>1 DEF Adds
<1>3. ASSUME NEW p \in 0 .. n, p # n, p \in S PROVE p + 1 \in S
  <2>1. p + 1 \in 1 .. n /\ (p + 1) - 1 = p
    BY <1>3
  <2>2. P[p + 1] = P[p] + h[p + 1]
    BY <1>1, <2>1 DEF Adds
  <2>3. P[p] = (IF p < b THEN 0 ELSE c) /\ h[p + 1] = IF p + 1 = b THEN c ELSE 0
    BY <1>3, <2>1
  <2> QED
    BY <2>1, <2>2, <2>3
<1>4. n \in S
  <2> HIDE DEF S
  <2>1. 0 .. n \subseteq S
    BY <1>2, <1>3, IntervalInduction, Zenon
  <2> QED
    BY <2>1
<1> QED
  BY <1>1, <1>4

(* The sum of the multiples of a function. *)
LEMMA SumOfMultiples ==
    ASSUME NEW n \in Nat, NEW f \in [1 .. n -> Int], NEW c \in Int, NEW h \in [1 .. n -> Int],
           \A i \in 1 .. n : h[i] = f[i] * c
    PROVE  Sum(h) = Sum(f) * c
<1>1. PICK P : Adds(P, n, f) /\ Sum(f) = P[n]
  BY SumAdds
<1>2. PICK R : Adds(R, n, h) /\ Sum(h) = R[n]
  BY SumAdds
<1> DEFINE S == {p \in Nat : R[p] = P[p] * c}
<1>3. 0 \in S
  BY <1>1, <1>2 DEF Adds
<1>4. ASSUME NEW p \in 0 .. n, p # n, p \in S PROVE p + 1 \in S
  <2>1. p + 1 \in 1 .. n /\ (p + 1) - 1 = p /\ p \in 0 .. n
    BY <1>4
  <2>2. P[p + 1] = P[p] + f[p + 1] /\ R[p + 1] = R[p] + h[p + 1]
    BY <1>1, <1>2, <2>1 DEF Adds
  <2>3. P[p] \in Int /\ f[p + 1] \in Int /\ h[p + 1] = f[p + 1] * c /\ R[p] = P[p] * c
    BY <1>1, <1>4, <2>1 DEF Adds
  <2>4. (P[p] + f[p + 1]) * c = P[p] * c + f[p + 1] * c
    BY <2>3
  <2> QED
    BY <2>1, <2>2, <2>3, <2>4
<1>5. n \in S
  <2> HIDE DEF S
  <2>1. 0 .. n \subseteq S
    BY <1>3, <1>4, IntervalInduction, Zenon
  <2> QED
    BY <2>1
<1> QED
  BY <1>1, <1>2, <1>5

(* n values of at most one add up to at most n. *)
LEMMA OnesAddUp ==
    ASSUME NEW n \in Nat, NEW u \in [1 .. n -> Int], \A i \in 1 .. n : u[i] <= 1
    PROVE  Sum(u) <= n
<1>1. PICK P : Adds(P, n, u) /\ Sum(u) = P[n]
  BY SumAdds
<1> DEFINE S == {p \in Nat : P[p] <= p}
<1>2. 0 \in S
  BY <1>1 DEF Adds
<1>3. ASSUME NEW p \in 0 .. n, p # n, p \in S PROVE p + 1 \in S
  <2>1. p + 1 \in 1 .. n /\ (p + 1) - 1 = p /\ p \in 0 .. n
    BY <1>3
  <2>2. P[p + 1] = P[p] + u[p + 1]
    BY <1>1, <2>1 DEF Adds
  <2>3. P[p] \in Int /\ P[p] <= p /\ u[p + 1] \in Int /\ u[p + 1] <= 1
    BY <1>1, <1>3, <2>1 DEF Adds
  <2> QED
    BY <2>1, <2>2, <2>3
<1>4. n \in S
  <2> HIDE DEF S
  <2>1. 0 .. n \subseteq S
    BY <1>2, <1>3, IntervalInduction, Zenon
  <2> QED
    BY <2>1
<1> QED
  BY <1>1, <1>4

(* If f is nowhere above g, and its sum is not below, they are equal: the last
   pick of a cycle leaves no peer short. *)
LEMMA SumsDecide ==
    ASSUME NEW n \in Nat, NEW f \in [1 .. n -> Int], NEW g \in [1 .. n -> Int],
           \A i \in 1 .. n : f[i] <= g[i], Sum(f) >= Sum(g)
    PROVE  f = g
<1> SUFFICES ASSUME NEW b \in 1 .. n, f[b] # g[b] PROVE FALSE
  OBVIOUS
<1> DEFINE d == [i \in 1 .. n |-> IF i = b THEN 1 ELSE 0]
           h == [i \in 1 .. n |-> f[i] + d[i]]
<1>1. d \in [1 .. n -> Int] /\ h \in [1 .. n -> Int]
  OBVIOUS
<1>2. \A i \in 1 .. n : d[i] = IF i = b THEN 1 ELSE 0
  OBVIOUS
<1>3. \A i \in 1 .. n : h[i] = f[i] + d[i]
  OBVIOUS
<1>4. \A i \in 1 .. n : h[i] <= g[i]
  OBVIOUS
<1> HIDE DEF h, d
<1>5. Sum(d) = 1
  BY <1>1, <1>2, 1 \in Int, SumOfOne, Zenon
<1>7. Sum(h) = Sum(f) + Sum(d)
  BY <1>1, <1>3, SumOfSums, Zenon
<1>8. Sum(h) <= Sum(g)
  BY <1>1, <1>4, SumAtMost, Zenon
<1>6. Sum(f) \in Int /\ Sum(g) \in Int
  BY SumType
<1> QED
  BY <1>5, <1>6, <1>7, <1>8

(* A bound on a multiple is a bound on the quotient. *)
LEMMA DivisionBound ==
    ASSUME NEW x \in Int, NEW y \in Nat, NEW d \in Nat, d > 0, d * x <= y
    PROVE  x <= y \div d
<1>1. y \div d \in Int /\ y < d * (y \div d) + d
  OBVIOUS
<1> DEFINE q == y \div d
<1> HIDE DEF q
<1>2. SUFFICES ASSUME x >= q + 1 PROVE FALSE
  BY <1>1 DEF q
<1>3. d * x >= d * (q + 1)
  BY <1>1, <1>2 DEF q
<1>4. d * (q + 1) = d * q + d
  BY <1>1 DEF q
<1> QED
  BY <1>1, <1>3, <1>4 DEF q

(* A quotient of natural numbers is one. *)
LEMMA QuotientIsNatural ==
    ASSUME NEW y \in Nat, NEW d \in Nat, d > 0
    PROVE  y \div d \in Nat
OBVIOUS

-----------------------------------------------------------------------------
(* The counters of the round robin. *)

(* T has the bounds of Together: T[j] is for n - j counters. *)
Caps(T, n, W) ==
    /\ T \in [0 .. (n - 1) -> Nat]
    /\ T[0] = 0
    /\ \A j \in 1 .. (n - 1) : T[j] = ((n - j) * (T[j - 1] + W)) \div (n - j + 1)

(* Together satisfies its own equation. *)
LEMMA TogetherCaps ==
    ASSUME NEW w, NEW n \in Nat, n = Len(w), n > 0, NEW W \in Nat, W = Sum(w)
    PROVE  Caps(Together(w), n, W)
<1> DEFINE l == n - 1
           Cap(j, x) == ((n - j) * (x + W)) \div (n - j + 1)
           K == [j \in 0 .. l |-> [x \in Nat |-> Cap(j, x)]]
           Runs(P) == P = [j \in 0 .. l |-> IF j = 0 THEN 0 ELSE Cap(j, P[j - 1])]
           Q == CHOOSE P : Runs(P)
<1>1. l \in Nat /\ 0 \in Nat /\ 0 <= l
  OBVIOUS
<1>2. \A j \in 1 .. l : \A x \in Nat : Cap(j, x) \in Nat
  <2> TAKE j \in 1 .. l, x \in Nat
  <2> DEFINE y == (n - j) * (x + W)
             d == n - j + 1
  <2>1. n - j \in Nat /\ d \in Nat /\ d > 0 /\ x + W \in Nat
    OBVIOUS
  <2>2. y \in Nat
    BY <2>1
  <2> HIDE DEF y, d
  <2>3. y \div d \in Nat
    BY <2>1, <2>2, QuotientIsNatural
  <2> QED
    BY <2>3 DEF y, d
<1>3. \A j \in 1 .. l : \A x \in Nat : K[j][x] = Cap(j, x)
  <2> HIDE DEF Cap
  <2> QED
    BY <1>1
<1> HIDE DEF Cap
<1>4. \E P : Runs(P)
  <2>1. PICK P : Iterates(P, 0, l, 0, K)
    <3> HIDE DEF K, l
    <3> QED
      BY <1>1, RecursionExists, Zenon
  <2> HIDE DEF K
  <2>2. /\ P = [p \in 0 .. l |-> P[p]]
        /\ P[0] = 0
        /\ \A p \in 1 .. l : P[p] = K[p][P[p - 1]]
    BY <1>1, <2>1 DEF Iterates
  <2> DEFINE S == {p \in Nat : P[p] \in Nat}
  <2> HIDE DEF l
  <2>3. 0 \in S
    BY <2>2
  <2>4. ASSUME NEW p \in 0 .. l, p # l, p \in S PROVE p + 1 \in S
    <3>1. p + 1 \in 1 .. l /\ (p + 1) - 1 = p
      BY <1>1, <2>4
    <3>2. P[p + 1] = Cap(p + 1, P[p])
      BY <1>3, <2>2, <2>4, <3>1
    <3>3. Cap(p + 1, P[p]) \in Nat
      BY <1>2, <2>4, <3>1, Zenon
    <3> QED
      BY <2>4, <3>2, <3>3
  <2>5. 0 .. l \subseteq S
    <3> HIDE DEF S
    <3> QED
      BY <1>1, <2>3, <2>4, IntervalInduction, Zenon
  <2>6. \A p \in 0 .. l : p # 0 => P[p] = Cap(p, P[p - 1])
    <3> TAKE p \in 0 .. l
    <3> HAVE p # 0
    <3>1. p - 1 \in 0 .. l /\ p \in 1 .. l
      BY <1>1
    <3>2. P[p - 1] \in Nat
      BY <2>5, <3>1
    <3> QED
      BY <1>3, <2>2, <3>1, <3>2, ZenonT(40)
  <2>7. Runs(P)
    BY <2>2, <2>6, Zenon
  <2> QED
    BY <2>7, Zenon
<1>5. Runs(Q)
  BY <1>4, Zenon
<1>6. Together(w) = Q
  BY Zenon DEF Together, Cap
<1> HIDE DEF Q, l
<1>7. /\ Q[0] = 0
      /\ \A k \in 1 .. l : Q[k] = Cap(k, Q[k - 1])
      /\ Q = [p \in 0 .. l |-> Q[p]]
  <2>1. \A k \in 0 .. l : Q[k] = IF k = 0 THEN 0 ELSE Cap(k, Q[k - 1])
    BY <1>5, Zenon
  <2>2. Q = [p \in 0 .. l |-> Q[p]]
    BY <1>5, Zenon
  <2>3. 0 \in 0 .. l /\ \A k \in 1 .. l : k \in 0 .. l /\ k # 0
    BY <1>1
  <2> HIDE DEF Runs
  <2> QED
    BY <2>1, <2>2, <2>3, Zenon
<1> DEFINE S == {p \in Nat : Q[p] \in Nat}
<1>8. 0 \in S
  BY <1>7
<1>9. ASSUME NEW p \in 0 .. l, p # l, p \in S PROVE p + 1 \in S
  <2>1. p + 1 \in 1 .. l /\ (p + 1) - 1 = p
    BY <1>1, <1>9
  <2>2. Q[p + 1] = Cap(p + 1, Q[p])
    BY <1>7, <2>1, Zenon
  <2>3. Cap(p + 1, Q[p]) \in Nat
    BY <1>2, <1>9, <2>1, Zenon
  <2> QED
    BY <1>9, <2>2, <2>3
<1>10. 0 .. l \subseteq S
  <2> HIDE DEF S
  <2> QED
    BY <1>1, <1>8, <1>9, IntervalInduction, Zenon
<1>11. Q \in [0 .. l -> Nat]
  BY <1>7, <1>10
<1> QED
  BY <1>6, <1>7, <1>11, Zenon DEF Caps, Cap, l

(* An i16 that does not overflow is not changed by it. *)
LEMMA WrapFits ==
    ASSUME NEW x \in Int, -Half <= x, x < Half
    PROVE  Wrap(x) = x
<1>1. Half \in Nat /\ Half > 0 /\ x + Half \in 0 .. (2 * Half - 1)
  BY HalfPositive
<1>2. (x + Half) % (2 * Half) = x + Half
  BY <1>1
<1> QED
  BY <1>1, <1>2 DEF Wrap

(* One of the values is the first of the largest ones: what the loop of
   RoundRobin::next finds. *)
LEMMA FirstLargest ==
    ASSUME NEW n \in Nat, n > 0, NEW r \in [1 .. n -> Int]
    PROVE  \E i \in 1 .. n : \A j \in 1 .. n : r[j] <= r[i] /\ (j < i => r[j] < r[i])
<1> DEFINE Leads(i, k) == \A j \in 1 .. k : r[j] <= r[i] /\ (j < i => r[j] < r[i])
           S == {k \in Nat : \E i \in 1 .. k : Leads(i, k)}
<1>1. 1 \in S
  OBVIOUS
<1>2. ASSUME NEW k \in 1 .. n, k # n, k \in S PROVE k + 1 \in S
  <2>1. PICK i \in 1 .. k : Leads(i, k)
    BY <1>2
  <2>2. k + 1 \in 1 .. n /\ i \in 1 .. n /\ k \in Nat
    BY <1>2
  <2>3. CASE r[k + 1] <= r[i]
    <3>1. Leads(i, k + 1)
      BY <2>1, <2>2, <2>3
    <3>2. i \in 1 .. (k + 1)
      BY <2>2
    <3> QED
      BY <2>2, <3>1, <3>2
  <2>4. CASE ~(r[k + 1] <= r[i])
    <3>1. \A j \in 1 .. k : r[j] \in Int /\ r[j] <= r[i]
      BY <1>2, <2>1
    <3>2. Leads(k + 1, k + 1)
      <4> TAKE j \in 1 .. (k + 1)
      <4>1. CASE j = k + 1
        BY <2>2, <4>1
      <4>2. CASE j # k + 1
        <5>1. j \in 1 .. k /\ r[i] \in Int /\ r[k + 1] \in Int
          BY <2>2, <4>2
        <5> QED
          BY <2>4, <3>1, <5>1
      <4> QED
        BY <4>1, <4>2
    <3>3. k + 1 \in 1 .. (k + 1)
      BY <2>2
    <3> QED
      BY <2>2, <3>2, <3>3
  <2> QED
    BY <2>3, <2>4
<1>3. n \in S
  <2> HIDE DEF S
  <2>1. 1 .. n \subseteq S
    BY <1>1, <1>2, IntervalInduction, Zenon
  <2> QED
    BY <2>1
<1> QED
  BY <1>3

(* Sets of counters, as their characteristic functions: Sum is their size. *)
Subsets(n) == [1 .. n -> {0, 1}]

(* The counters c of the set m, and zero for the others. *)
Part(m, c, n) == [i \in 1 .. n |-> IF m[i] = 1 THEN c[i] ELSE 0]

(* The counters of RoundRobin between two picks: they add up to zero, none is a
   whole sum of weights below it, and no n - j of them together exceed T[j]. *)
Even(T, n, W, c) ==
    /\ c \in [1 .. n -> Int]
    /\ Sum(c) = 0
    /\ \A i \in 1 .. n : c[i] > -W
    /\ \A j \in 0 .. (n - 1) : \A m \in Subsets(n) :
         Sum(m) = n - j => Sum(Part(m, c, n)) <= T[j]

(* Raising the counters raises what a set of them adds up to. *)
LEMMA PartOfSum ==
    ASSUME NEW n \in Nat, NEW m \in Subsets(n), NEW f \in [1 .. n -> Int],
           NEW g \in [1 .. n -> Int], NEW h \in [1 .. n -> Int],
           \A i \in 1 .. n : h[i] = f[i] + g[i]
    PROVE  /\ Sum(Part(m, h, n)) = Sum(Part(m, f, n)) + Sum(Part(m, g, n))
           /\ Sum(Part(m, f, n)) \in Int
<1> DEFINE F == Part(m, f, n)
           G == Part(m, g, n)
           H == Part(m, h, n)
<1>1. F \in [1 .. n -> Int] /\ G \in [1 .. n -> Int] /\ H \in [1 .. n -> Int]
  BY DEF Part
<1>2. \A i \in 1 .. n : H[i] = F[i] + G[i]
  BY DEF Part
<1> HIDE DEF F, G, H
<1>3. Sum(H) = Sum(F) + Sum(G) /\ Sum(F) \in Int
  BY <1>1, <1>2, SumOfSums, SumType, Zenon
<1> QED
  BY <1>3 DEF F, G, H

(* h is c at b and zero elsewhere. *)
Single(h, b, c, n) ==
    /\ h \in [1 .. n -> Int] /\ b \in 1 .. n /\ c \in Int
    /\ \A i \in 1 .. n : h[i] = IF i = b THEN c ELSE 0

(* The sum of such a function. *)
LEMMA SumOfSingle ==
    ASSUME NEW n \in Nat, NEW b, NEW c, NEW h, Single(h, b, c, n)
    PROVE  Sum(h) = c
BY SumOfOne, Zenon DEF Single

(* Its share of a set. *)
LEMMA PartOfOne ==
    ASSUME NEW n \in Nat, NEW m \in Subsets(n), NEW b, NEW c, NEW h, Single(h, b, c, n)
    PROVE  Sum(Part(m, h, n)) = IF m[b] = 1 THEN c ELSE 0
<1> DEFINE H == Part(m, h, n)
           e == IF m[b] = 1 THEN c ELSE 0
<1>0. /\ h \in [1 .. n -> Int] /\ b \in 1 .. n /\ c \in Int
      /\ \A i \in 1 .. n : h[i] = IF i = b THEN c ELSE 0
  BY DEF Single
<1>1. H \in [1 .. n -> Int] /\ e \in Int
  BY <1>0 DEF Part
<1>2. \A i \in 1 .. n : H[i] = IF i = b THEN e ELSE 0
  BY <1>0 DEF Part
<1> HIDE DEF H, e
<1>3. Sum(H) = e
  BY <1>0, <1>1, <1>2, SumOfOne, Zenon
<1> QED
  BY <1>3 DEF H, e

(* No set of peers has more than the sum of all weights. *)
LEMMA PartOfWeights ==
    ASSUME NEW n \in Nat, NEW m \in Subsets(n), NEW w \in [1 .. n -> Nat]
    PROVE  Sum(Part(m, w, n)) <= Sum(w) /\ Sum(Part(m, w, n)) \in Int
<1> DEFINE H == Part(m, w, n)
<1>1. H \in [1 .. n -> Int] /\ w \in [1 .. n -> Int]
  BY DEF Part
<1>2. \A i \in 1 .. n : H[i] <= w[i]
  BY DEF Part
<1> HIDE DEF H
<1>3. Sum(H) <= Sum(w) /\ Sum(H) \in Int
  BY <1>1, <1>2, SumAtMost, SumType, Zenon
<1> QED
  BY <1>3 DEF H

(* A set of counters, none above x, adds up to at most its size times x. *)
LEMMA PartBelow ==
    ASSUME NEW n \in Nat, NEW m \in Subsets(n), NEW f \in [1 .. n -> Int], NEW x \in Int,
           \A i \in 1 .. n : f[i] <= x
    PROVE  Sum(Part(m, f, n)) <= Sum(m) * x
<1> DEFINE F == Part(m, f, n)
           H == [i \in 1 .. n |-> m[i] * x]
<1>1. m \in [1 .. n -> Int] /\ \A i \in 1 .. n : m[i] = 0 \/ m[i] = 1
  BY DEF Subsets
<1>2. F \in [1 .. n -> Int] /\ H \in [1 .. n -> Int]
  BY <1>1 DEF Part
<1>3. \A i \in 1 .. n : H[i] = m[i] * x
  OBVIOUS
<1>4. \A i \in 1 .. n : F[i] <= H[i]
  <2> TAKE i \in 1 .. n
  <2>1. CASE m[i] = 0
    BY <2>1 DEF Part
  <2>2. CASE m[i] = 1
    BY <2>2 DEF Part
  <2> QED
    BY <1>1, <2>1, <2>2
<1> HIDE DEF F, H
<1>5. Sum(H) = Sum(m) * x
  BY <1>1, <1>2, <1>3, SumOfMultiples, Zenon
<1>6. Sum(F) <= Sum(H)
  BY <1>2, <1>4, SumAtMost, Zenon
<1> QED
  BY <1>5, <1>6 DEF F

(* The bound of one more counter: if x is the sum of n - j counters of at most r,
   and adding one of r stays within the bound before, x is within T[j]. *)
LEMMA CapStep ==
    ASSUME NEW n \in Nat, NEW W \in Nat, NEW T, Caps(T, n, W), NEW j \in 1 .. (n - 1),
           NEW x \in Int, NEW r \in Int, x <= (n - j) * r, x + r <= T[j - 1] + W
    PROVE  x <= T[j]
<1> DEFINE k == n - j
           t == T[j - 1]
           y == k * (t + W)
<1>1. k \in Nat /\ j - 1 \in 0 .. (n - 1)
  OBVIOUS
<1>2. t \in Nat /\ T[j] = y \div (k + 1)
  BY <1>1 DEF Caps
<1> HIDE DEF t, k
<1>3. y \in Nat /\ k * (x + r) <= y
  <2>1. t + W \in Nat /\ x + r \in Int /\ x + r <= t + W
    BY <1>2 DEF t
  <2> DEFINE a == x + r
             b == t + W
  <2>2. k * a <= k * b /\ k * b \in Nat
    <3> HIDE DEF a, b
    <3>1. a \in Int /\ b \in Nat /\ a <= b
      BY <2>1 DEF a, b
    <3> QED
      BY <1>1, <3>1
  <2> QED
    BY <2>2
<1>4. k * (x + r) = k * x + k * r
  BY <1>1
<1>5. (k + 1) * x = k * x + x
  BY <1>1
<1> HIDE DEF y
<1>6. (k + 1) * x <= y
  <2> DEFINE kx == k * x
             kr == k * r
  <2>1. kx \in Int /\ kr \in Int /\ x <= kr
    BY <1>1 DEF k
  <2>2. kx + kr <= y /\ (k + 1) * x = kx + x
    BY <1>3, <1>4, <1>5
  <2> HIDE DEF kx, kr
  <2> QED
    BY <1>3, <2>1, <2>2
<1>7. k + 1 \in Nat /\ k + 1 > 0
  BY <1>1
<1> DEFINE d == k + 1
<1> HIDE DEF d
<1>8. x <= y \div d
  BY <1>3, <1>6, <1>7, DivisionBound DEF d
<1> QED
  BY <1>2, <1>8 DEF d

(* e is r after the pick of b: its counter is lowered by W, the sum of the weights. *)
Lowered(e, r, b, W, n) ==
    /\ r \in [1 .. n -> Int] /\ e \in [1 .. n -> Int] /\ b \in 1 .. n /\ W \in Int
    /\ \A i \in 1 .. n : e[i] = r[i] - (IF i = b THEN W ELSE 0)

(* What a pick does to the sum of a set of counters. *)
LEMMA LoweredSums ==
    ASSUME NEW n \in Nat, NEW r, NEW b, NEW W, NEW e, Lowered(e, r, b, W, n)
    PROVE  /\ Sum(e) = Sum(r) - W
           /\ \A m \in Subsets(n) :
                /\ Sum(Part(m, r, n)) \in Int
                /\ Sum(Part(m, e, n)) = Sum(Part(m, r, n)) - (IF m[b] = 1 THEN W ELSE 0)
<1> DEFINE v == -W
           d == [i \in 1 .. n |-> IF i = b THEN v ELSE 0]
<1>0. /\ r \in [1 .. n -> Int] /\ e \in [1 .. n -> Int] /\ b \in 1 .. n /\ W \in Int
      /\ \A i \in 1 .. n : e[i] = r[i] - (IF i = b THEN W ELSE 0)
  BY DEF Lowered
<1>1. v \in Int /\ d \in [1 .. n -> Int]
  BY <1>0
<1>2. \A i \in 1 .. n : d[i] = IF i = b THEN v ELSE 0
  BY <1>0
<1>3. \A i \in 1 .. n : e[i] = r[i] + d[i]
  BY <1>0
<1> HIDE DEF d, v
<1>4. Sum(e) = Sum(r) - W
  <2>1. Sum(d) = v
    BY <1>0, <1>1, <1>2, SumOfOne, Zenon
  <2>2. Sum(e) = Sum(r) + Sum(d)
    BY <1>0, <1>1, <1>3, SumOfSums, Zenon
  <2>3. Sum(r) \in Int
    BY <1>0, SumType
  <2> QED
    BY <1>0, <2>1, <2>2, <2>3 DEF v
<1>5. ASSUME NEW m \in Subsets(n)
      PROVE  /\ Sum(Part(m, r, n)) \in Int
             /\ Sum(Part(m, e, n)) = Sum(Part(m, r, n)) - (IF m[b] = 1 THEN W ELSE 0)
  <2>1. /\ Sum(Part(m, r, n)) \in Int
        /\ Sum(Part(m, e, n)) = Sum(Part(m, r, n)) + Sum(Part(m, d, n))
    BY <1>0, <1>1, <1>3, PartOfSum, Zenon
  <2>2. Sum(Part(m, d, n)) = IF m[b] = 1 THEN v ELSE 0
    <3>1. Single(d, b, v, n)
      BY <1>0, <1>1, <1>2 DEF Single
    <3> QED
      BY <3>1, PartOfOne
  <2> QED
    BY <1>0, <2>1, <2>2 DEF v
<1> QED
  BY <1>4, <1>5

(* What raising the counters by the weights does to the sum of a set of them. *)
LEMMA RaisedSums ==
    ASSUME NEW n \in Nat, NEW c \in [1 .. n -> Int], NEW w \in [1 .. n -> Nat],
           NEW r \in [1 .. n -> Int], \A i \in 1 .. n : r[i] = c[i] + w[i]
    PROVE  /\ Sum(r) = Sum(c) + Sum(w)
           /\ \A m \in Subsets(n) :
                /\ Sum(Part(m, c, n)) \in Int /\ Sum(Part(m, r, n)) \in Int
                /\ Sum(Part(m, r, n)) <= Sum(Part(m, c, n)) + Sum(w)
<1>1. w \in [1 .. n -> Int]
  OBVIOUS
<1>2. Sum(r) = Sum(c) + Sum(w) /\ Sum(w) \in Int
  BY <1>1, SumOfSums, SumType, Zenon
<1>3. ASSUME NEW m \in Subsets(n)
      PROVE  /\ Sum(Part(m, c, n)) \in Int /\ Sum(Part(m, r, n)) \in Int
             /\ Sum(Part(m, r, n)) <= Sum(Part(m, c, n)) + Sum(w)
  <2>1. /\ Sum(Part(m, r, n)) = Sum(Part(m, c, n)) + Sum(Part(m, w, n))
        /\ Sum(Part(m, c, n)) \in Int
    BY <1>1, PartOfSum, Zenon
  <2>2. Sum(Part(m, w, n)) <= Sum(w) /\ Sum(Part(m, w, n)) \in Int
    BY PartOfWeights, SMTT(30)
  <2> QED
    BY <1>2, <2>1, <2>2
<1> QED
  BY <1>2, <1>3

(* One call of RoundRobin::next without overflow: the counters c are raised by
   the weights to r, the largest of them is picked and lowered to e. *)
Turn(n, w, W, c, r, b, e) ==
    /\ n \in Nat /\ n > 1 /\ w \in [1 .. n -> Nat] /\ W \in Nat /\ W = Sum(w) /\ W > 0
    /\ r \in [1 .. n -> Int] /\ \A i \in 1 .. n : r[i] = c[i] + w[i]
    /\ b \in 1 .. n /\ \A i \in 1 .. n : r[i] <= r[b]
    /\ e \in [1 .. n -> Int] /\ \A i \in 1 .. n : e[i] = r[i] - (IF i = b THEN W ELSE 0)

(* RoundRobin::next keeps the counters even.  A set with the counter picked loses
   what raising added at most; a set of n - j without it is made of counters not
   above the one picked, so that with it, one set larger, it is within T[j - 1]
   and the weights. *)
LEMMA NextIsEven ==
    ASSUME NEW n, NEW w, NEW W, NEW c, NEW r, NEW b, NEW e, Turn(n, w, W, c, r, b, e),
           NEW T, Caps(T, n, W), Even(T, n, W, c)
    PROVE  Even(T, n, W, e)
<1> SUFFICES ASSUME n \in Nat, n > 1, w \in [1 .. n -> Nat], W \in Nat, W = Sum(w), W > 0,
                    r \in [1 .. n -> Int], \A i \in 1 .. n : r[i] = c[i] + w[i],
                    b \in 1 .. n, \A i \in 1 .. n : r[i] <= r[b],
                    e \in [1 .. n -> Int],
                    \A i \in 1 .. n : e[i] = r[i] - (IF i = b THEN W ELSE 0)
             PROVE  Even(T, n, W, e)
  BY Zenon DEF Turn
<1>1. c \in [1 .. n -> Int] /\ Sum(c) = 0 /\ \A i \in 1 .. n : c[i] > -W
  BY Zenon DEF Even
<1>2. /\ Sum(r) = Sum(c) + W
      /\ \A m \in Subsets(n) :
            /\ Sum(Part(m, c, n)) \in Int /\ Sum(Part(m, r, n)) \in Int
            /\ Sum(Part(m, r, n)) <= Sum(Part(m, c, n)) + W
  BY <1>1, RaisedSums, ZenonT(40)
<1>3. /\ Sum(e) = Sum(r) - W
      /\ \A m \in Subsets(n) :
            Sum(Part(m, e, n)) = Sum(Part(m, r, n)) - (IF m[b] = 1 THEN W ELSE 0)
  <2>1. Lowered(e, r, b, W, n)
    BY SMTT(30) DEF Lowered
  <2> QED
    BY <2>1, LoweredSums
<1>4. Sum(r) = W
  BY <1>1, <1>2
<1>5. Sum(e) = 0
  BY <1>3, <1>4
<1>6. r[b] > 0
  <2> SUFFICES ASSUME r[b] <= 0 PROVE FALSE
    OBVIOUS
  <2> DEFINE z == [i \in 1 .. n |-> IF i = b THEN 0 ELSE 0]
  <2>1. z \in [1 .. n -> Int] /\ \A i \in 1 .. n : z[i] = IF i = b THEN 0 ELSE 0
    OBVIOUS
  <2>2. \A i \in 1 .. n : r[i] <= z[i]
    OBVIOUS
  <2> HIDE DEF z
  <2>3. Sum(z) = 0
    BY <2>1, 0 \in Int, SumOfOne, Zenon
  <2>4. Sum(r) <= Sum(z)
    BY <2>1, <2>2, SumAtMost, Zenon
  <2> QED
    BY <1>4, <2>3, <2>4
<1>7. \A i \in 1 .. n : e[i] > -W
  <2> TAKE i \in 1 .. n
  <2>1. e[i] = r[i] - (IF i = b THEN W ELSE 0) /\ r[i] = c[i] + w[i]
    OBVIOUS
  <2>2. c[i] \in Int /\ w[i] \in Nat /\ c[i] > -W
    BY <1>1, Zenon
  <2>3. CASE i = b
    BY <1>6, <2>1, <2>3
  <2>4. CASE i # b
    BY <2>1, <2>2, <2>4, SMTT(30)
  <2> QED
    BY <2>3, <2>4
<1>8. ASSUME NEW j \in 0 .. (n - 1), NEW m \in Subsets(n), Sum(m) = n - j
      PROVE  Sum(Part(m, e, n)) <= T[j]
  <2> DEFINE x == Sum(Part(m, e, n))
             y == Sum(Part(m, r, n))
  <2>1. y \in Int /\ x = y - (IF m[b] = 1 THEN W ELSE 0)
    BY <1>2, <1>3
  <2> HIDE DEF x, y
  <2>3. CASE m[b] = 1
    <3> DEFINE p == Sum(Part(m, c, n))
               z == T[j]
    <3>1. x = y - W
      BY <2>1, <2>3
    <3>2. p \in Int /\ y <= p + W
      BY <1>2 DEF y
    <3>3. p <= z
      BY <1>8, Zenon DEF Even
    <3>4. z \in Int
      BY DEF Caps
    <3> HIDE DEF p, z
    <3>5. x <= z
      BY <2>1, <3>1, <3>2, <3>3, <3>4, SMTT(30)
    <3> QED
      BY <3>5 DEF x, z
  <2>4. CASE m[b] # 1
    <3>1. x = y
      BY <2>1, <2>4
    <3> DEFINE u == [i \in 1 .. n |-> IF i = b THEN 1 ELSE m[i]]
               o == [i \in 1 .. n |-> IF i = b THEN 1 ELSE 0]
    <3>2. /\ u \in Subsets(n) /\ o \in [1 .. n -> Int] /\ m \in [1 .. n -> Int]
          /\ u \in [1 .. n -> Int]
      BY DEF Subsets
    <3>3. \A i \in 1 .. n : u[i] = m[i] + o[i]
      <4> TAKE i \in 1 .. n
      <4>1. m[i] \in {0, 1} /\ m[b] \in {0, 1}
        BY DEF Subsets
      <4>2. u[i] = (IF i = b THEN 1 ELSE m[i]) /\ o[i] = IF i = b THEN 1 ELSE 0
        OBVIOUS
      <4> HIDE DEF u, o
      <4> QED
        BY <2>4, <4>1, <4>2, SMTT(30)
    <3>4. \A i \in 1 .. n : o[i] = IF i = b THEN 1 ELSE 0
      OBVIOUS
    <3>5. u[b] = 1
      OBVIOUS
    <3>6. Part(u, r, n) \in [1 .. n -> Int] /\ Part(m, r, n) \in [1 .. n -> Int]
      BY DEF Part
    <3> DEFINE q == [i \in 1 .. n |-> IF i = b THEN r[b] ELSE 0]
    <3>7. q \in [1 .. n -> Int] /\ \A i \in 1 .. n : q[i] = IF i = b THEN r[b] ELSE 0
      OBVIOUS
    <3>8. \A i \in 1 .. n : Part(u, r, n)[i] = Part(m, r, n)[i] + q[i]
      BY <2>4, SMTT(30) DEF Part
    <3> HIDE DEF u, o, q
    <3>9. Sum(u) = n - j + 1
      <4>1. Sum(o) = 1
        BY <3>2, <3>4, 1 \in Int, SumOfOne, ZenonT(40)
      <4>2. Sum(u) = Sum(m) + Sum(o)
        BY <3>2, <3>3, SumOfSums, Zenon
      <4> QED
        BY <1>8, <4>1, <4>2
    <3>10. Sum(Part(u, r, n)) = y + r[b]
      <4>1. r[b] \in Int
        OBVIOUS
      <4>2. Sum(q) = r[b]
        BY <3>7, <4>1, SumOfOne, Zenon
      <4>3. Sum(Part(u, r, n)) = Sum(Part(m, r, n)) + Sum(q)
        BY <3>6, <3>7, <3>8, SumOfSums, Zenon
      <4> QED
        BY <4>2, <4>3 DEF y
    <3>11. j # 0
      <4> SUFFICES ASSUME j = 0 PROVE FALSE
        OBVIOUS
      <4>2. \A i \in 1 .. n : u[i] <= 1
        <5> TAKE i \in 1 .. n
        <5>1. u[i] \in {0, 1}
          BY <3>2 DEF Subsets
        <5> QED
          BY <5>1, SMTT(30)
      <4>3. Sum(u) <= n
        BY <3>2, <4>2, OnesAddUp, Zenon
      <4> QED
        BY <3>9, <4>3
    <3>12. j \in 1 .. (n - 1) /\ j - 1 \in 0 .. (n - 1) /\ Sum(u) = n - (j - 1)
      BY <3>9, <3>11
    <3>13. y + r[b] <= T[j - 1] + W
      <4>1. Sum(Part(u, c, n)) \in Int /\ Sum(Part(u, r, n)) <= Sum(Part(u, c, n)) + W
        BY <1>2, <3>2
      <4>3. Sum(Part(u, c, n)) <= T[j - 1] /\ T[j - 1] \in Int
        <5>1. Sum(Part(u, c, n)) <= T[j - 1]
          BY <3>2, <3>12, Zenon DEF Even
        <5>2. T[j - 1] \in Int
          BY <3>12 DEF Caps
        <5> QED
          BY <5>1, <5>2, SMTT(30)
      <4> DEFINE p == Sum(Part(u, c, n))
                 v == Sum(Part(u, r, n))
                 z == T[j - 1]
                 s == r[b]
      <4>4. p \in Int /\ v <= p + W /\ p <= z /\ z \in Int /\ v = y + s /\ s \in Int
        BY <3>10, <4>1, <4>3, SMTT(30)
      <4> HIDE DEF p, v, z, s
      <4>5. y + s <= z + W
        BY <2>1, <4>4
      <4> QED
        BY <4>5 DEF s, z
    <3>14. y <= (n - j) * r[b]
      <4>1. r[b] \in Int
        OBVIOUS
      <4>2. y <= Sum(m) * r[b]
        BY <4>1, PartBelow, Zenon DEF y
      <4> QED
        BY <1>8, <4>2
    <3>15. y <= T[j]
      BY <2>1, <3>12, <3>13, <3>14, CapStep, Zenon
    <3> QED
      BY <3>1, <3>15 DEF x
  <2> QED
    BY <2>3, <2>4
<1> QED
  BY <1>5, <1>7, <1>8 DEF Even

(* A single counter is a set of one, and within the last of the bounds. *)
LEMMA CounterBelowLag ==
    ASSUME NEW n \in Nat, n > 1, NEW W \in Nat, NEW T, NEW c, Even(T, n, W, c),
           NEW i \in 1 .. n
    PROVE  c[i] <= T[n - 1]
<1> DEFINE m == [k \in 1 .. n |-> IF k = i THEN 1 ELSE 0]
           p == Part(m, c, n)
<1>1. m \in Subsets(n) /\ m \in [1 .. n -> Int] /\ c \in [1 .. n -> Int] /\ c[i] \in Int
  BY DEF Subsets, Even
<1>2. p \in [1 .. n -> Int]
  BY <1>1 DEF Part
<1>3. \A k \in 1 .. n : m[k] = IF k = i THEN 1 ELSE 0
  OBVIOUS
<1>4. \A k \in 1 .. n : p[k] = IF k = i THEN c[i] ELSE 0
  BY DEF Part
<1> HIDE DEF m, p
<1>5. Sum(m) = 1 /\ Sum(p) = c[i]
  BY <1>1, <1>2, <1>3, <1>4, 1 \in Int, SumOfOne, Zenon
<1>6. n - 1 \in 0 .. (n - 1) /\ n - (n - 1) = 1
  OBVIOUS
<1> QED
  BY <1>1, <1>5, <1>6 DEF Even, p

(* Zeros add up to zero. *)
LEMMA SumOfNone ==
    ASSUME NEW n \in Nat, n > 0, NEW z \in [1 .. n -> Int], \A i \in 1 .. n : z[i] = 0
    PROVE  Sum(z) = 0
<1>1. 1 \in 1 .. n /\ \A i \in 1 .. n : z[i] = IF i = 1 THEN 0 ELSE 0
  OBVIOUS
<1> QED
  BY <1>1, 0 \in Int, SumOfOne, Zenon

(* The counters of RoundRobin::new are even. *)
LEMMA StartsEven ==
    ASSUME NEW n \in Nat, n > 1, NEW W \in Nat, W > 0, NEW T, Caps(T, n, W),
           NEW c \in [1 .. n -> Int], \A i \in 1 .. n : c[i] = 0
    PROVE  Even(T, n, W, c)
<1>1. Sum(c) = 0
  BY SumOfNone
<1>2. \A i \in 1 .. n : c[i] > -W
  OBVIOUS
<1>3. ASSUME NEW j \in 0 .. (n - 1), NEW m \in Subsets(n) PROVE Sum(Part(m, c, n)) <= T[j]
  <2> DEFINE p == Part(m, c, n)
  <2>1. p \in [1 .. n -> Int] /\ \A i \in 1 .. n : p[i] = 0
    BY DEF Part
  <2> HIDE DEF p
  <2>2. Sum(p) = 0
    BY <2>1, SumOfNone
  <2>3. T[j] \in Nat
    BY SMTT(30) DEF Caps
  <2> QED
    BY <2>2, <2>3 DEF p
<1> QED
  BY <1>1, <1>2, <1>3 DEF Even

(* No weight is above the largest. *)
LEMMA LargestBounds ==
    ASSUME NEW n \in Nat, n > 0, NEW w \in [1 .. n -> Nat]
    PROVE  Largest(w) \in Nat /\ \A i \in 1 .. n : w[i] <= Largest(w)
<1>1. DOMAIN w = 1 .. n /\ w \in [1 .. n -> Int]
  OBVIOUS
<1>2. PICK i \in 1 .. n : \A j \in 1 .. n : w[j] <= w[i]
  BY <1>1, FirstLargest, Zenon
<1> DEFINE V == {w[k] : k \in DOMAIN w}
<1>3. w[i] \in V /\ \A k \in DOMAIN w : w[k] <= w[i]
  BY <1>1, <1>2
<1>4. Largest(w) \in V /\ \A k \in DOMAIN w : w[k] <= Largest(w)
  BY <1>3, Zenon DEF Largest
<1> QED
  BY <1>1, <1>4

-----------------------------------------------------------------------------
(* The picks of a cycle. *)

(* The counters tell the picks q of the cycle: what a peer was due less what it
   got. *)
Accounted(n, w, W, c, q) ==
    /\ q \in [1 .. n -> Nat]
    /\ Sum(q) <= W
    /\ \A i \in 1 .. n : Sum(q) * w[i] - W * q[i] = c[i]

(* Less than a whole pick ahead at the end of a cycle is not ahead at all. *)
LEMMA ShareNotExceeded ==
    ASSUME NEW W \in Nat, W > 0, NEW x \in Nat, NEW y \in Nat, W * x - W * y > -W
    PROVE  y <= x
<1> SUFFICES ASSUME y >= x + 1 PROVE FALSE
  OBVIOUS
<1>1. W * y >= W * (x + 1)
  OBVIOUS
<1>2. W * (x + 1) = W * x + W
  OBVIOUS
<1> QED
  BY <1>1, <1>2

(* A cycle ends with every peer picked as often as its weight, and the counters
   back at zero. *)
LEMMA CycleEnds ==
    ASSUME NEW n \in Nat, NEW w \in [1 .. n -> Nat], NEW W \in Nat, W = Sum(w), W > 0,
           NEW c, NEW q, Accounted(n, w, W, c, q), \A i \in 1 .. n : c[i] > -W, Sum(q) >= W
    PROVE  q = w /\ \A i \in 1 .. n : c[i] = 0
<1>1. /\ q \in [1 .. n -> Nat] /\ q \in [1 .. n -> Int] /\ w \in [1 .. n -> Int]
      /\ Sum(q) <= W
      /\ \A i \in 1 .. n : Sum(q) * w[i] - W * q[i] = c[i]
  BY DEF Accounted
<1>2. Sum(q) = W
  <2>1. Sum(q) \in Int
    BY <1>1, SumType
  <2> QED
    BY <1>1, <2>1
<1>3. \A i \in 1 .. n : W * w[i] - W * q[i] = c[i]
  BY <1>1, <1>2
<1>4. \A i \in 1 .. n : q[i] <= w[i]
  <2> TAKE i \in 1 .. n
  <2>1. w[i] \in Nat /\ q[i] \in Nat /\ W * w[i] - W * q[i] > -W
    BY <1>1, <1>3
  <2> QED
    BY <2>1, ShareNotExceeded, Zenon
<1>5. q = w
  BY <1>1, <1>2, <1>4, SumsDecide, Zenon
<1>6. \A i \in 1 .. n : c[i] = 0
  <2> TAKE i \in 1 .. n
  <2>1. w[i] \in Nat /\ W * w[i] - W * w[i] = c[i]
    BY <1>3, <1>5
  <2>2. W * w[i] \in Int
    BY <2>1
  <2> QED
    BY <2>1, <2>2
<1> QED
  BY <1>5, <1>6

(* The counter of a peer of weight x, picked y times in s picks. *)
Account(s, x, W, y) == s * x - W * y

(* One more pick, of the peer or not, moves its counter from u to v. *)
Moves(s, x, W, y, z, u, v) ==
    /\ s \in Int /\ x \in Nat /\ W \in Nat /\ y \in Nat /\ z \in {0, 1}
    /\ Account(s, x, W, y) = u
    /\ v = u + x - (IF z = 1 THEN W ELSE 0)

(* The counter after one more pick tells the picks again. *)
LEMMA OneMore ==
    ASSUME NEW s, NEW x, NEW W, NEW y, NEW z, NEW u, NEW v, Moves(s, x, W, y, z, u, v)
    PROVE  Account(s + 1, x, W, y + z) = v
<1>0. /\ s \in Int /\ x \in Nat /\ W \in Nat /\ y \in Nat /\ z \in {0, 1}
      /\ Account(s, x, W, y) = u
      /\ v = u + x - (IF z = 1 THEN W ELSE 0)
  BY DEF Moves
<1>1. (s + 1) * x = s * x + x /\ W * (y + 1) = W * y + W /\ s * x \in Int /\ W * y \in Int
  BY <1>0
<1>2. CASE z = 0
  BY <1>0, <1>1, <1>2 DEF Account
<1>3. CASE z = 1
  BY <1>0, <1>1, <1>3 DEF Account
<1> QED
  BY <1>0, <1>2, <1>3

(* o has the pick of b counted, in a new cycle if the one before was complete. *)
Counted(n, W, b, q, o) ==
    LET p == IF Sum(q) >= W THEN [j \in 1 .. n |-> 0] ELSE q
    IN  o = [j \in 1 .. n |-> p[j] + (IF b = j THEN 1 ELSE 0)]

(* Every counter has been raised, and the one of b lowered. *)
Advanced(n, w, W, c, b, e) ==
    \A i \in 1 .. n : e[i] = c[i] + w[i] - (IF i = b THEN W ELSE 0)

(* Counting a pick keeps the counters telling the picks. *)
LEMMA CountAdvances ==
    ASSUME NEW n \in Nat, n > 0, NEW w \in [1 .. n -> Nat], NEW W \in Nat, W = Sum(w), W > 0,
           NEW c, NEW q, Accounted(n, w, W, c, q), \A i \in 1 .. n : c[i] > -W,
           NEW b \in 1 .. n, NEW o, Counted(n, W, b, q, o), NEW e, Advanced(n, w, W, c, b, e)
    PROVE  Accounted(n, w, W, e, o)
<1> DEFINE p == IF Sum(q) >= W THEN [j \in 1 .. n |-> 0] ELSE q
<1>0. /\ Sum(q) >= W => p = [j \in 1 .. n |-> 0]
      /\ ~(Sum(q) >= W) => p = q
      /\ o = [j \in 1 .. n |-> p[j] + (IF b = j THEN 1 ELSE 0)]
  BY DEF Counted
<1> HIDE DEF p
<1>1. /\ q \in [1 .. n -> Nat] /\ q \in [1 .. n -> Int]
      /\ \A i \in 1 .. n : Sum(q) * w[i] - W * q[i] = c[i]
      /\ Sum(q) \in Int
  <2>1. /\ q \in [1 .. n -> Nat]
        /\ \A i \in 1 .. n : Sum(q) * w[i] - W * q[i] = c[i]
    BY DEF Accounted
  <2>2. q \in [1 .. n -> Int]
    BY <2>1
  <2>3. Sum(q) \in Int
    BY <2>2, SumType
  <2> QED
    BY <2>1, <2>2, <2>3, Zenon
<1>2. /\ p \in [1 .. n -> Nat] /\ Sum(p) \in Int /\ Sum(p) < W
      /\ \A i \in 1 .. n : Sum(p) * w[i] - W * p[i] = c[i]
  <2>1. CASE Sum(q) >= W
    <3>1. \A i \in 1 .. n : c[i] = 0
      BY <2>1, CycleEnds
    <3>2. p \in [1 .. n -> Nat] /\ p \in [1 .. n -> Int] /\ \A i \in 1 .. n : p[i] = 0
      BY <1>0, <2>1
    <3>3. Sum(p) = 0
      BY <3>2, SumOfNone
    <3>4. \A i \in 1 .. n : 0 * w[i] - W * 0 = 0
      OBVIOUS
    <3> QED
      BY <3>1, <3>2, <3>3, <3>4, Zenon
  <2>2. CASE ~(Sum(q) >= W)
    <3>1. p = q /\ Sum(q) < W
      BY <1>0, <1>1, <2>2
    <3> QED
      BY <1>1, <3>1, Zenon
  <2> QED
    BY <2>1, <2>2
<1> DEFINE d == [j \in 1 .. n |-> IF j = b THEN 1 ELSE 0]
<1>3. /\ d \in [1 .. n -> Int] /\ p \in [1 .. n -> Int] /\ o \in [1 .. n -> Int]
      /\ o \in [1 .. n -> Nat]
  <2>0. p \in [1 .. n -> Nat]
    BY <1>2, Zenon
  <2>1. \A j \in 1 .. n : p[j] + (IF b = j THEN 1 ELSE 0) \in Nat
    BY <2>0
  <2>2. o \in [1 .. n -> Nat]
    BY <1>0, <2>1, Zenon
  <2>3. d \in [1 .. n -> Int]
    OBVIOUS
  <2>4. p \in [1 .. n -> Int] /\ o \in [1 .. n -> Int]
    BY <2>0, <2>2
  <2> QED
    BY <2>2, <2>3, <2>4, Zenon
<1>4. \A j \in 1 .. n : d[j] = IF j = b THEN 1 ELSE 0
  OBVIOUS
<1>5. \A j \in 1 .. n : o[j] = p[j] + d[j]
  BY <1>0, <1>2, Zenon
<1> HIDE DEF d
<1>6. Sum(o) = Sum(p) + 1
  <2>1. Sum(d) = 1
    <3>1. Single(d, b, 1, n)
      BY <1>3, <1>4, 1 \in Int, Zenon DEF Single
    <3> QED
      BY <3>1, SumOfSingle
  <2>2. Sum(o) = Sum(p) + Sum(d)
    BY <1>3, <1>5, SumOfSums, Zenon
  <2> QED
    BY <2>1, <2>2
<1>7. ASSUME NEW i \in 1 .. n PROVE Sum(o) * w[i] - W * o[i] = e[i]
  <2>1. Sum(p) \in Int /\ w[i] \in Nat /\ p[i] \in Nat
    BY <1>2, Zenon
  <2>2. Account(Sum(p), w[i], W, p[i]) = c[i]
    BY <1>2, Zenon DEF Account
  <2>3. d[i] \in {0, 1} /\ e[i] = c[i] + w[i] - (IF d[i] = 1 THEN W ELSE 0)
    <3>1. CASE i = b
      <4>1. d[i] = 1 /\ e[i] = c[i] + w[i] - W
        BY <1>4, <3>1, Zenon DEF Advanced
      <4> QED
        BY <4>1, Zenon
    <3>2. CASE i # b
      <4>1. d[i] = 0 /\ e[i] = c[i] + w[i] - 0
        BY <1>4, <3>2, Zenon DEF Advanced
      <4> QED
        BY <4>1, 0 # 1, Zenon
    <3> QED
      BY <3>1, <3>2, Zenon
  <2>4. Account(Sum(p) + 1, w[i], W, p[i] + d[i]) = e[i]
    <3>1. Moves(Sum(p), w[i], W, p[i], d[i], c[i], e[i])
      BY <2>1, <2>2, <2>3, Zenon DEF Moves
    <3> QED
      BY <3>1, OneMore
  <2>5. Account(Sum(o), w[i], W, o[i]) = e[i]
    BY <1>5, <1>6, <2>4, Zenon
  <2> QED
    BY <2>5, Zenon DEF Account
<1>8. Sum(o) <= W
  BY <1>2, <1>6
<1> QED
  BY <1>3, <1>7, <1>8, Zenon DEF Accounted

(* RoundRobin::next keeps the counters telling the picks. *)
LEMMA CountKeeps ==
    ASSUME NEW n, NEW w, NEW W, NEW c, NEW r, NEW b, NEW e, Turn(n, w, W, c, r, b, e),
           NEW T, Even(T, n, W, c), NEW q, Accounted(n, w, W, c, q),
           NEW o, Counted(n, W, b, q, o)
    PROVE  Accounted(n, w, W, e, o)
<1>1. /\ n \in Nat /\ n > 0 /\ w \in [1 .. n -> Nat] /\ W \in Nat /\ W = Sum(w) /\ W > 0
      /\ b \in 1 .. n /\ r \in [1 .. n -> Int] /\ \A i \in 1 .. n : r[i] = c[i] + w[i]
      /\ \A i \in 1 .. n : e[i] = r[i] - (IF i = b THEN W ELSE 0)
  BY DEF Turn
<1>2. c \in [1 .. n -> Int] /\ \A i \in 1 .. n : c[i] > -W
  BY DEF Even
<1>3. ASSUME NEW i \in 1 .. n PROVE e[i] = c[i] + w[i] - (IF i = b THEN W ELSE 0)
  <2>1. /\ r[i] \in Int /\ c[i] \in Int /\ w[i] \in Nat
        /\ e[i] = r[i] - (IF i = b THEN W ELSE 0) /\ r[i] = c[i] + w[i]
    BY <1>1, <1>2, SMTT(30)
  <2> QED
    BY <1>1, <2>1, SMTT(30)
<1>4. Advanced(n, w, W, c, b, e)
  BY <1>3 DEF Advanced
<1> QED
  BY <1>1, <1>2, <1>4, CountAdvances, Zenon

-----------------------------------------------------------------------------
(* The balancer. *)

(* The case PicksFollowWeights is about. *)
Governed ==
    /\ balancer.strategy = "roundrobin"
    /\ Len(balancer.weights) > 1 /\ Sum(balancer.weights) > 0
    /\ WeightsFit

(* The invariant of the round robin. *)
Rotation ==
    LET w == balancer.weights
    IN  /\ w \in Seq(Nat)
        /\ Governed =>
             /\ Even(Together(w), Len(w), Sum(w), cw)
             /\ Accounted(Len(w), w, Sum(w), cw, picked)

(* What a list of weights is. *)
LEMMA WeightsOf ==
    ASSUME NEW w \in Seq(Nat)
    PROVE  /\ Len(w) \in Nat /\ w \in [1 .. Len(w) -> Nat] /\ DOMAIN w = 1 .. Len(w)
           /\ Sum(w) \in Int
           /\ Len(w) > 1 /\ Sum(w) > 0 => Sum(w) \in Nat /\ Caps(Together(w), Len(w), Sum(w))
<1>1. Len(w) \in Nat /\ w \in [1 .. Len(w) -> Nat] /\ DOMAIN w = 1 .. Len(w)
  OBVIOUS
<1>2. w \in [1 .. Len(w) -> Int]
  BY <1>1
<1>3. Sum(w) \in Int
  BY <1>1, <1>2, SumType
<1>4. ASSUME Len(w) > 1, Sum(w) > 0
      PROVE  Sum(w) \in Nat /\ Caps(Together(w), Len(w), Sum(w))
  <2>1. Sum(w) \in Nat /\ Len(w) > 0
    BY <1>1, <1>3, <1>4
  <2> QED
    BY <1>1, <2>1, TogetherCaps
<1> QED
  BY <1>1, <1>3, <1>4

(* Balancer::new establishes it. *)
LEMMA RotationStarts ==
    ASSUME NEW strategy, NEW w \in Seq(Nat), BalancerInit(strategy, w)
    PROVE  Rotation
<1>1. /\ balancer.weights = w
      /\ cw = [i \in DOMAIN w |-> 0] /\ picked = [i \in DOMAIN w |-> 0]
  BY DEF BalancerInit
<1> DEFINE n == Len(w)
           W == Sum(w)
<1> SUFFICES ASSUME n > 1, W > 0
             PROVE  Even(Together(w), n, W, cw) /\ Accounted(n, w, W, cw, picked)
  BY <1>1 DEF Rotation, Governed
<1>2. /\ n \in Nat /\ w \in [1 .. n -> Nat] /\ DOMAIN w = 1 .. n
      /\ W \in Nat /\ Caps(Together(w), n, W)
  BY WeightsOf
<1>3. /\ cw \in [1 .. n -> Int] /\ \A i \in 1 .. n : cw[i] = 0
      /\ picked \in [1 .. n -> Nat] /\ picked \in [1 .. n -> Int]
      /\ \A i \in 1 .. n : picked[i] = 0
  BY <1>1, <1>2
<1> HIDE DEF n, W
<1>4. Even(Together(w), n, W, cw)
  BY <1>2, <1>3, StartsEven
<1>5. Sum(picked) = 0
  BY <1>2, <1>3, SumOfNone
<1>6. \A i \in 1 .. n : 0 * w[i] - W * 0 = 0
  BY <1>2
<1>7. Accounted(n, w, W, cw, picked)
  <2>1. \A i \in 1 .. n : Sum(picked) * w[i] - W * picked[i] = cw[i]
    BY <1>3, <1>5, <1>6, Zenon
  <2>2. Sum(picked) <= W
    BY <1>2, <1>5
  <2> QED
    BY <1>3, <2>1, <2>2, Zenon DEF Accounted
<1> QED
  BY <1>4, <1>7

(* It implies the shares: a peer's lead is its counter, negated. *)
LEMMA RotationShares == Rotation => PicksFollowWeights
<1> DEFINE w == balancer.weights
           n == Len(w)
           W == Sum(w)
<1> SUFFICES ASSUME w \in Seq(Nat), n > 1, W > 0,
                    Even(Together(w), n, W, cw), Accounted(n, w, W, cw, picked)
             PROVE  /\ \A i \in DOMAIN w :
                         LET lead == W * picked[i] - Sum(picked) * w[i]
                         IN  lead < W /\ -lead <= Lag(w)
                    /\ Sum(picked) = W => picked = w
  BY SMTT(30) DEF Rotation, Governed, PicksFollowWeights
<1>2. /\ n \in Nat /\ w \in [1 .. n -> Nat] /\ DOMAIN w = 1 .. n
      /\ W \in Nat /\ Caps(Together(w), n, W)
  BY WeightsOf
<1>3. Lag(w) = Together(w)[n - 1]
  BY DEF Lag
<1> HIDE DEF w, n, W
<1>4. /\ cw \in [1 .. n -> Int] /\ \A i \in 1 .. n : cw[i] > -W
      /\ picked \in [1 .. n -> Nat] /\ picked \in [1 .. n -> Int]
      /\ \A i \in 1 .. n : Sum(picked) * w[i] - W * picked[i] = cw[i]
  BY DEF Even, Accounted
<1>5. Sum(picked) \in Int
  BY <1>2, <1>4, SumType
<1>6. ASSUME NEW i \in 1 .. n
      PROVE  /\ W * picked[i] - Sum(picked) * w[i] < W
             /\ -(W * picked[i] - Sum(picked) * w[i]) <= Lag(w)
  <2>1. cw[i] <= Lag(w)
    BY <1>2, <1>3, CounterBelowLag
  <2>2. cw[i] \in Int /\ cw[i] > -W /\ Sum(picked) * w[i] - W * picked[i] = cw[i]
    BY <1>4
  <2>3. Sum(picked) * w[i] \in Int /\ W * picked[i] \in Int
    <3>1. w[i] \in Int /\ picked[i] \in Int /\ W \in Int
      BY <1>2, <1>4
    <3> HIDE DEF Even, Accounted
    <3> QED
      BY <1>5, <3>1
  <2> QED
    BY <1>2, <2>1, <2>2, <2>3
<1>7. ASSUME Sum(picked) = W PROVE picked = w
  <2>1. Sum(picked) >= W
    BY <1>2, <1>7
  <2>2. W = Sum(w)
    BY DEF W
  <2> QED
    BY <1>2, <1>4, <2>1, <2>2, CycleEnds, ZenonT(40)
<1> QED
  BY <1>2, <1>6, <1>7, SMTT(30)

(* Values with a positive sum are not all below one. *)
LEMMA SomePositive ==
    ASSUME NEW n \in Nat, n > 0, NEW r \in [1 .. n -> Int], Sum(r) > 0
    PROVE  \E i \in 1 .. n : r[i] > 0
<1> SUFFICES ASSUME \A i \in 1 .. n : ~(r[i] > 0) PROVE FALSE
  OBVIOUS
<1> DEFINE z == [i \in 1 .. n |-> 0]
<1>1. z \in [1 .. n -> Int] /\ \A i \in 1 .. n : z[i] = 0
  OBVIOUS
<1> HIDE DEF z
<1>2. \A i \in 1 .. n : r[i] <= z[i]
  BY <1>1
<1>3. Sum(r) <= Sum(z)
  BY <1>1, <1>2, SumAtMost
<1>4. Sum(z) = 0 /\ Sum(r) \in Int
  BY <1>1, SumOfNone, SumType
<1> QED
  BY <1>3, <1>4

(* With weights that fit, nothing RoundRobin::next computes overflows, and its
   loop picks a largest counter. *)
LEMMA CountersFit ==
    ASSUME NEW w \in Seq(Nat), NEW n, n = Len(w), NEW W, W = Sum(w), n > 1, W > 0,
           W < Half, Lag(w) + Largest(w) < Half, Even(Together(w), n, W, cw)
    PROVE  /\ Raised(w) \in [1 .. n -> Int]
           /\ \A i \in 1 .. n : Raised(w)[i] = cw[i] + w[i]
           /\ Best(w) \in 1 .. n
           /\ \A i \in 1 .. n : Raised(w)[i] <= Raised(w)[Best(w)]
           /\ Wrap(Raised(w)[Best(w)] - Wrap(W)) = Raised(w)[Best(w)] - W
<1>1. /\ n \in Nat /\ w \in [1 .. n -> Nat] /\ DOMAIN w = 1 .. n
      /\ W \in Nat /\ Caps(Together(w), n, W)
  BY WeightsOf
<1>2. Half \in Nat
  BY HalfPositive
<1>3. cw \in [1 .. n -> Int] /\ \A i \in 1 .. n : cw[i] > -W
  BY DEF Even
<1>4. Largest(w) \in Nat /\ \A i \in 1 .. n : w[i] <= Largest(w)
  BY <1>1, LargestBounds
<1>5. Lag(w) \in Nat /\ \A i \in 1 .. n : cw[i] <= Lag(w)
  <2>1. Lag(w) = Together(w)[n - 1] /\ n - 1 \in 0 .. (n - 1)
    BY <1>1 DEF Lag
  <2>2. Lag(w) \in Nat
    BY <1>1, <2>1 DEF Caps
  <2> QED
    BY <1>1, <2>1, <2>2, CounterBelowLag
<1>6. ASSUME NEW i \in 1 .. n
      PROVE  /\ Wrap(cw[i] + w[i]) = cw[i] + w[i]
             /\ cw[i] + w[i] \in Int /\ cw[i] + w[i] < Half
  <2>1. /\ cw[i] \in Int /\ w[i] \in Nat /\ cw[i] > -W /\ cw[i] <= Lag(w)
        /\ w[i] <= Largest(w)
    BY <1>1, <1>3, <1>4, <1>5
  <2>2. cw[i] + w[i] \in Int /\ -Half <= cw[i] + w[i] /\ cw[i] + w[i] < Half
    BY <1>1, <1>2, <1>4, <1>5, <2>1, SMTT(30)
  <2> QED
    BY <2>2, WrapFits
<1>7. /\ Raised(w) \in [1 .. n -> Int]
      /\ \A i \in 1 .. n : Raised(w)[i] = cw[i] + w[i]
  <2>1. Raised(w) = [i \in 1 .. n |-> Wrap(cw[i] + w[i])]
    BY <1>1 DEF Raised
  <2> HIDE DEF Raised, Wrap
  <2> QED
    BY <1>6, <2>1
<1>8. /\ Best(w) \in 1 .. n
      /\ \A i \in 1 .. n : Raised(w)[i] <= Raised(w)[Best(w)]
  <2>1. n > 0
    BY <1>1
  <2>2. \E i \in 1 .. n : \A j \in 1 .. n :
           Raised(w)[j] <= Raised(w)[i] /\ (j < i => Raised(w)[j] < Raised(w)[i])
    BY <1>1, <1>7, <2>1, FirstLargest, Zenon
  <2>3. Best(w) = CHOOSE i \in 1 .. n : \A j \in 1 .. n :
           Raised(w)[j] <= Raised(w)[i] /\ (j < i => Raised(w)[j] < Raised(w)[i])
    BY <1>1, Zenon DEF Best
  <2> QED
    BY <2>2, <2>3, Zenon
<1>9. Wrap(W) = W
  BY <1>1, <1>2, WrapFits
<1>10. Raised(w)[Best(w)] > 0
  <2>1. \E i \in 1 .. n : Raised(w)[i] > 0
    <3>1. Sum(Raised(w)) = Sum(cw) + W
      BY <1>1, <1>3, <1>7, RaisedSums, Zenon
    <3>2. Sum(cw) = 0
      BY DEF Even
    <3>3. Sum(Raised(w)) > 0 /\ n > 0
      BY <1>1, <3>1, <3>2
    <3> QED
      BY <1>1, <1>7, <3>3, SomePositive, Zenon
  <2>2. PICK i \in 1 .. n : Raised(w)[i] > 0
    BY <2>1
  <2>3. /\ Raised(w)[i] \in Int /\ Raised(w)[Best(w)] \in Int
        /\ Raised(w)[i] <= Raised(w)[Best(w)]
    BY <1>7, <1>8
  <2> QED
    BY <2>2, <2>3
<1>11. Wrap(Raised(w)[Best(w)] - Wrap(W)) = Raised(w)[Best(w)] - W
  <2>1. Raised(w)[Best(w)] \in Int /\ Raised(w)[Best(w)] < Half
    BY <1>6, <1>7, <1>8
  <2>2. /\ Raised(w)[Best(w)] - W \in Int /\ -Half <= Raised(w)[Best(w)] - W
        /\ Raised(w)[Best(w)] - W < Half
    BY <1>1, <1>2, <1>10, <2>1
  <2> QED
    BY <1>9, <2>2, WrapFits
<1> QED
  BY <1>7, <1>8, <1>11

(* Balancer::next keeps it. *)
LEMMA RotationStep ==
    ASSUME Rotation, NEW ip, BalancerNext(ip)
    PROVE  Rotation'
<1> DEFINE w == balancer.weights
           n == Len(w)
           W == Sum(w)
           b == Best(w)
<1>1. balancer' = balancer /\ w \in Seq(Nat)
  BY DEF BalancerNext, Rotation
<1>2. Governed' <=> Governed
  BY <1>1 DEF Governed, WeightsFit
<1> SUFFICES ASSUME Governed
             PROVE  Even(Together(w), n, W, cw') /\ Accounted(n, w, W, cw', picked')
  BY <1>1, <1>2 DEF Rotation
<1>3. /\ Even(Together(w), n, W, cw) /\ Accounted(n, w, W, cw, picked)
      /\ n > 1 /\ W > 0 /\ W < Half /\ Lag(w) + Largest(w) < Half
  BY DEF Rotation, Governed, WeightsFit
<1>4. /\ n \in Nat /\ n > 0 /\ w \in [1 .. n -> Nat] /\ DOMAIN w = 1 .. n
      /\ W \in Nat /\ Caps(Together(w), n, W)
  <2>1. /\ n \in Nat /\ w \in [1 .. n -> Nat] /\ DOMAIN w = 1 .. n
        /\ W \in Nat /\ Caps(Together(w), n, W)
    BY <1>1, <1>3, WeightsOf, ZenonT(40)
  <2>2. n > 0
    <3> HIDE DEF n
    <3> QED
      BY <1>3, <2>1
  <2> QED
    BY <2>1, <2>2, Zenon
<1>5. /\ cw' = [Raised(w) EXCEPT ![b] = Wrap(@ - Wrap(W))]
      /\ Count(b)
  <2>1. RoundRobinNext(w) /\ Count(Pick(ip)) /\ Pick(ip) = RoundRobinPick(w)
    BY SMTT(30) DEF Governed, BalancerNext, Pick
  <2>2. ~(n <= 1)
    BY <1>3, <1>4
  <2>3. RoundRobinPick(w) = b
    BY <2>2, Zenon DEF RoundRobinPick
  <2>4. cw' = [Raised(w) EXCEPT ![b] = Wrap(@ - Wrap(W))]
    BY <2>1, <2>2, ZenonT(40) DEF RoundRobinNext
  <2> QED
    BY <2>1, <2>3, <2>4, Zenon
<1>6. /\ Raised(w) \in [1 .. n -> Int]
      /\ \A i \in 1 .. n : Raised(w)[i] = cw[i] + w[i]
      /\ b \in 1 .. n
      /\ \A i \in 1 .. n : Raised(w)[i] <= Raised(w)[b]
      /\ Wrap(Raised(w)[b] - Wrap(W)) = Raised(w)[b] - W
  <2>1. w \in Seq(Nat) /\ n = Len(w) /\ W = Sum(w) /\ b = Best(w)
    BY <1>1
  <2> HIDE DEF w, n, W, b
  <2> QED
    BY ONLY <1>3, <2>1, CountersFit, ZenonT(40)
<1>7. W = Sum(w)
  OBVIOUS
<1>8. Counted(n, W, b, picked, picked')
  BY <1>4, <1>5, SMTT(30) DEF Count, Counted
<1> DEFINE r == Raised(w)
<1>9. r \in [1 .. n -> Int] /\ cw' = [r EXCEPT ![b] = r[b] - W]
  BY <1>5, <1>6
<1>10. /\ (\A i \in 1 .. n : r[i] = cw[i] + w[i])
       /\ \A i \in 1 .. n : r[i] <= r[b]
  BY <1>6
<1> HIDE DEF w, n, W, b, r
<1>11. /\ cw' \in [1 .. n -> Int]
       /\ \A i \in 1 .. n : cw'[i] = r[i] - (IF i = b THEN W ELSE 0)
  BY <1>4, <1>6, <1>9, SMTT(30)
<1>12. Turn(n, w, W, cw, r, b, cw')
  BY <1>3, <1>4, <1>6, <1>7, <1>9, <1>10, <1>11, Zenon DEF Turn
<1>13. Even(Together(w), n, W, cw')
  BY <1>3, <1>4, <1>12, NextIsEven
<1>14. Accounted(n, w, W, cw', picked')
  BY <1>3, <1>8, <1>12, CountKeeps
<1> QED
  BY <1>13, <1>14

(* A sequence of bytes is one of numbers. *)
LEMMA BytesAreNumbers ==
    ASSUME NEW S, S \subseteq Nat, NEW w \in Seq(S)
    PROVE  w \in Seq(Nat)
<1>1. Len(w) \in Nat /\ w \in [1 .. Len(w) -> S]
  OBVIOUS
<1>2. w \in [1 .. Len(w) -> Nat]
  BY <1>1, Zenon
<1> QED
  BY <1>1, <1>2, FunctionIsSeq

(* No step but Balance touches the balancer. *)
LEMMA BalancerStep ==
    ASSUME TypeOK, [Next]_vars
    PROVE  UNCHANGED balancerVars \/ BalancerNext(client.ip)
<1>1. CASE Balance
  BY <1>1 DEF Balance
<1>2. CASE HookAbsent \/ HookDecides \/ Resolve \/ Connected \/ TryNext \/ KernelGivesUp \/ ConnectFails
  BY <1>2 DEF HookAbsent, HookDecides, Resolve, Connected, TryNext, KernelGivesUp, ConnectFails
<1>3. CASE StartProxy \/ PeekHeader \/ PeekTimeout \/ ReadHeader \/ SendHeader \/ PeerError
  BY <1>3 DEF StartProxy, PeekHeader, PeekTimeout, ReadHeader, SendHeader, PeerError
<1>4. CASE StartCopy \/ Forward \/ EndOfStream \/ RelayFails \/ ClientError
  BY <1>4 DEF StartCopy, Forward, EndOfStream, RelayFails, ClientError
<1>5. CASE NextConnection \/ Arrive \/ (\E how \in {"closed", "reset"} : Leave(how))
        \/ PeerCloses \/ UNCHANGED vars
  BY <1>5 DEF NextConnection, Arrive, Leave, PeerCloses, vars
<1> QED
  BY <1>1, <1>2, <1>3, <1>4, <1>5 DEF Next, Step

(* RoundRobin::next, over any number of connections and whatever becomes of
   them: a peer is never a whole pick ahead of the share its weight is due, never
   behind it by more than Lag, and a complete cycle gives each peer exactly its
   weight, for any weights that fit the counters. *)
THEOREM PicksFollowWeightsHolds == Spec => []PicksFollowWeights
<1>1. Init => Rotation
  <2> SUFFICES ASSUME Init PROVE Rotation
    OBVIOUS
  <2>1. conf.weights \in Seq(0..255) /\ BalancerInit(conf.strategy, conf.weights)
    BY ConfigsAreBuilt DEF Init, Built
  <2>2. conf.weights \in Seq(Nat)
    <3>1. 0..255 \subseteq Nat
      OBVIOUS
    <3> QED
      BY <2>1, <3>1, BytesAreNumbers, Zenon
  <2> QED
    BY <2>1, <2>2, RotationStarts
<1>2. TypeOK /\ Rotation /\ [Next]_vars => Rotation'
  <2> SUFFICES ASSUME TypeOK, Rotation, [Next]_vars PROVE Rotation'
    OBVIOUS
  <2>1. CASE UNCHANGED balancerVars
    BY <2>1 DEF balancerVars, Rotation, Governed, WeightsFit
  <2>2. CASE BalancerNext(client.ip)
    BY <2>2, RotationStep
  <2> QED
    BY <2>1, <2>2, BalancerStep
<1>3. IInv => TypeOK
  BY DEF IInv
<1> QED
  BY <1>1, <1>2, <1>3, RotationShares, TcpRelayInv, PTL DEF Spec
=============================================================================

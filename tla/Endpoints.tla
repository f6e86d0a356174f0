------------------------------ MODULE Endpoints ------------------------------
(***************************************************************************)
(* What the lifecycle knows of an endpoint: the description a caller       *)
(* submits, the source the reconciler diffs (a description and a digest of *)
(* the files it names), and the spec that building it gives the manager.   *)
(*                                                                         *)
(*   realm_core/src/lifecycle/manager.rs    EndpointSpec, Proto            *)
(*   realm_core/src/lifecycle/reconcile.rs  EndpointSource                 *)
(*   src/conf/endpoint.rs                   refresh and build              *)
(***************************************************************************)
EXTENDS Naturals, FiniteSets

CONSTANTS
    NumIds,             \* ids are 1..NumIds, in the order of a BTreeMap
    Addrs,              \* listen addresses
    Peers,              \* everything else Endpoint's Display renders
    Weights,            \* weights of the balancer, which it does not render
    Materials,          \* contents of the certificate files
    Descs,              \* the descriptions callers submit
    None                \* Option::None

Ids    == 1 .. NumIds
Protos == {"tcp", "udp"}

ASSUME NumIdsIsNat == NumIds \in Nat

ASSUME DescsAreDescriptions ==
    Descs \subseteq [addr: Addrs, peer: Peers, weights: Weights,
                     protos: SUBSET Protos, tls: BOOLEAN]

ASSUME NoneIsNoValue ==
    /\ None \notin Descs
    /\ None \notin Materials
    /\ None \notin Nat

Option(S) == S \cup {None}

(* A description with the digest that refresh computed. *)
Source == [desc: Descs, digest: Option(Materials)]

(* EndpointConf::refresh: digest the files the description names, as they are
   on disk now.  A digest is as good as the content it stands for. *)
Refreshed(d, file) ==
    [desc |-> d, digest |-> IF d.tls THEN file ELSE None]

(* What a listener runs: the endpoint as configured, and the material that
   its transport was built from. *)
Endpoint ==
    [addr: Addrs, peer: Peers, weights: Weights, tls: BOOLEAN,
     content: Option(Materials)]

(* EndpointSpec: the endpoint, its protocols and the digest of its source. *)
EndpointSpec ==
    [endpoint: Endpoint, protos: SUBSET Protos, material: Option(Materials)]

ASSUME NoneIsNoSpec == None \notin Source /\ None \notin EndpointSpec

(* EndpointConf::build: reads the files again, later than refresh did, and
   hands over the digest that refresh left in the source. *)
Build(source, file) ==
    LET d == source.desc
    IN  [endpoint |-> [addr    |-> d.addr,
                       peer    |-> d.peer,
                       weights |-> d.weights,
                       tls     |-> d.tls,
                       content |-> IF d.tls THEN file ELSE None],
         protos   |-> d.protos,
         material |-> source.digest]

EndpointUnchanged_IgnoresAddr(e, f) ==
    /\ e.peer = f.peer
    /\ e.tls = f.tls

(* endpoint_unchanged compares what Display renders: of a balancer that is its
   strategy, and of a transport its options, not what it was built from. *)
EndpointUnchanged(e, f) ==
    /\ e.addr = f.addr
    /\ e.peer = f.peer
    /\ e.tls = f.tls

(* The endpoint e is the one the description d asks for. *)
Describes(d, e) ==
    /\ e.addr = d.addr
    /\ e.peer = d.peer
    /\ e.weights = d.weights
    /\ e.tls = d.tls
==============================================================================

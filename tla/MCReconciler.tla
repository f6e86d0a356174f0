---------------------------- MODULE MCReconciler ----------------------------
(* Instances of Reconciler.  Each set of descriptions makes one kind of change
   possible and leaves the others out. *)
EXTENDS Reconciler, TLC

(* tcp endpoints that change their address *)
SwapDescs == [addr: Addrs, peer: Peers, weights: Weights,
              protos: {{"tcp"}}, tls: {FALSE}]

(* endpoints that add udp to tcp or give it up, and read certificate files or
   do not *)
ListenDescs == [addr: Addrs, peer: Peers, weights: Weights,
                protos: {{"tcp"}, {"tcp", "udp"}}, tls: BOOLEAN]

(* endpoints that read certificate files, and one that does not *)
TlsDescs == [addr: Addrs, peer: Peers, weights: Weights,
             protos: {{"tcp"}}, tls: BOOLEAN]

EmptyStatic == [i \in Ids |-> None]

(* a static configuration of one endpoint *)
OneStatic == [i \in Ids |-> IF i = 1 THEN CHOOSE d \in Descs : TRUE ELSE None]

(* addresses, peers and materials are interchangeable *)
Symmetry == Permutations(Addrs) \cup Permutations(Peers) \cup Permutations(Materials)
==============================================================================

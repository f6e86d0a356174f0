---------------------------- MODULE RelayContract ----------------------------
(***************************************************************************)
(* What the relay of two streams promises, whatever buffers, partial       *)
(* writes and polls it is made of: each direction delivers what was sent,  *)
(* in order, and passes the end on after the last byte; and when it        *)
(* returns Ok it has passed on the end of both directions, or of one of    *)
(* them in a build with brutal-shutdown (realm_io/src/lib.rs, "About       *)
(* Brutal Shutdown").  What it had not delivered of the other direction by *)
(* then never is.  Module BidiCopy refines it, and the relay of TcpRelay   *)
(* ends by its rule.                                                       *)
(***************************************************************************)
EXTENDS Naturals, Sequences

CONSTANT Dirs           \* the directions of the relay

VARIABLES
    brutal,             \* built with the feature brutal-shutdown
    sent,               \* sent[d]: how many bytes the source of d has sent
    closed,             \* closed[d]: it has closed its side
    delivered,          \* delivered[d]: the bytes that reached the other side
    ended,              \* ended[d]: and the end of the stream did
    outcome             \* what the relay returned, and the bytes it reports

contractVars == <<brutal, sent, closed, delivered, ended, outcome>>

(* The first n bytes of a stream, each known by its place. *)
FirstBytes(n) == [k \in 1 .. n |-> k]

Running == outcome.kind = "none"

ContractInit ==
    /\ brutal \in BOOLEAN
    /\ sent = [d \in Dirs |-> 0]
    /\ closed = [d \in Dirs |-> FALSE]
    /\ delivered = [d \in Dirs |-> FirstBytes(0)]
    /\ ended = [d \in Dirs |-> FALSE]
    /\ outcome = [kind |-> "none", count |-> [d \in Dirs |-> 0]]

Send(d) ==
    /\ Running /\ ~closed[d]
    /\ sent' = [sent EXCEPT ![d] = @ + 1]
    /\ UNCHANGED <<brutal, closed, delivered, ended, outcome>>

Close(d) ==
    /\ Running /\ ~closed[d]
    /\ closed' = [closed EXCEPT ![d] = TRUE]
    /\ UNCHANGED <<brutal, sent, delivered, ended, outcome>>

Deliver(d, n) ==
    /\ Running /\ ~ended[d]
    /\ Len(delivered[d]) <= n /\ n <= sent[d]
    /\ delivered' = [delivered EXCEPT ![d] = FirstBytes(n)]
    /\ UNCHANGED <<brutal, sent, closed, ended, outcome>>

PassEnd(d) ==
    /\ Running /\ ~ended[d]
    /\ closed[d] /\ Len(delivered[d]) = sent[d]
    /\ ended' = [ended EXCEPT ![d] = TRUE]
    /\ UNCHANGED <<brutal, sent, closed, delivered, outcome>>

ReturnOk ==
    /\ Running
    /\ IF brutal THEN \E d \in Dirs : ended[d] ELSE \A d \in Dirs : ended[d]
    /\ outcome' = [kind |-> "ok", count |-> [d \in Dirs |-> IF ended[d] THEN sent[d] ELSE 0]]
    /\ UNCHANGED <<brutal, sent, closed, delivered, ended>>

ReturnError ==
    /\ Running
    /\ outcome' = [kind |-> "error", count |-> [d \in Dirs |-> 0]]
    /\ UNCHANGED <<brutal, sent, closed, delivered, ended>>

ContractNext ==
    \/ \E d \in Dirs : \/ Send(d) \/ Close(d) \/ PassEnd(d)
                       \/ \E n \in 1 .. sent[d] : Deliver(d, n)
    \/ ReturnOk
    \/ ReturnError

ContractSpec == ContractInit /\ [][ContractNext]_contractVars
==============================================================================

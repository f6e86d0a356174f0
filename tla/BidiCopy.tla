------------------------------- MODULE BidiCopy -------------------------------
(***************************************************************************)
(* The relay of one tcp connection: two half-duplex copies, each with its  *)
(* own buffer, that one task polls in turn.                                *)
(*                                                                         *)
(*   realm_io/src/bidi_copy.rs   transfer, transfer2, BidiCopy::poll       *)
(*   realm_io/src/buf.rs         CopyBuffer::poll_copy                     *)
(*   realm_io/src/mem_copy.rs    the userspace buffer                      *)
(*                                                                         *)
(* Bytes are numbered in the order in which a peer sends them, so that a   *)
(* byte lost, repeated or moved shows.  Each poll of a stream is a step,   *)
(* because the peers act in between: they send, close and take delivery on *)
(* their own.  A writer may hold bytes back until it is flushed, as that   *)
(* of a tls transport does, and a write may take part of what it is given. *)
(***************************************************************************)
EXTENDS Naturals, Sequences

CONSTANTS
    Total,              \* bound: bytes to send in each direction
    BufSize,            \* buf_size(), in bytes
    Window              \* bytes that wait for a peer before writes block

ASSUME SizesPositive ==
    /\ Total \in [{"ab", "ba"} -> Nat]
    /\ BufSize \in Nat \ {0}
    /\ Window \in Nat \ {0}

(* Directions: from the client to the remote and back. *)
Dirs == {"ab", "ba"}
Back(d) == IF d = "ab" THEN "ba" ELSE "ab"

VARIABLES
    brutal,             \* built with the feature brutal-shutdown
    lockstep,           \* the peers wait for each other (see PeerSends)
    turn,               \* which transfer the poll is in, or "end"
    state,              \* state[d]: TransferState
    copy,               \* copy[d]: CopyBuffer
    sent,               \* sent[d]: bytes the source of d has sent
    closed,             \* closed[d]: the source of d has closed its side
    out,                \* out[d]: bytes handed to the writer of d
    flushed,            \* flushed[d]: how many of them reached the peer's side
    taken,              \* taken[d]: how many the peer has taken
    shut,               \* shut[d]: the writer of d was shut down
    result              \* what the future returned

peerVars == <<sent, closed, taken>>
vars == <<brutal, lockstep, turn, state, copy, peerVars, out, flushed, shut, result>>

(* CopyBuffer, with the content of its buffer. *)
CopyBuffer ==
    [read_done: BOOLEAN, need_flush: BOOLEAN, pos: Nat, cap: Nat, amt: Nat,
     buf: [1 .. BufSize -> Nat]]

NewBuffer ==
    [read_done |-> FALSE, need_flush |-> FALSE, pos |-> 0, cap |-> 0, amt |-> 0,
     buf |-> [k \in 1 .. BufSize |-> 0]]

Results == {"none", "ok", "error"}

Init ==
    /\ brutal \in BOOLEAN
    /\ lockstep \in BOOLEAN
    /\ turn = "ab"
    /\ state = [d \in Dirs |-> "running"]
    /\ copy = [d \in Dirs |-> NewBuffer]
    /\ sent = [d \in Dirs |-> 0]
    /\ closed = [d \in Dirs |-> FALSE]
    /\ out = [d \in Dirs |-> <<>>]
    /\ flushed = [d \in Dirs |-> 0]
    /\ taken = [d \in Dirs |-> 0]
    /\ shut = [d \in Dirs |-> FALSE]
    /\ result = [kind |-> "none", ab |-> 0, ba |-> 0]

-------------------------------------------------------------------------------
(* CopyBuffer::poll_copy, while the poll is in transfer d. *)

(* what the poll goes on with when transfer d returns *)
After(d) == IF d = "ab" THEN "ba" ELSE "end"

Copying(d) == result.kind = "none" /\ turn = d /\ state[d] = "running"

(* how many bytes of d were read into the buffer so far *)
Fetched(d) == copy[d].amt + copy[d].cap - copy[d].pos

Reading(d) == copy[d].pos = copy[d].cap /\ ~copy[d].read_done

ReadPending(d) == sent[d] = Fetched(d) /\ ~closed[d]

(* the n bytes that follow byte m come to the front of the buffer *)
Refill(c, m, n) ==
    [read_done |-> c.read_done, need_flush |-> c.need_flush,
     pos |-> 0, cap |-> n, amt |-> c.amt,
     buf |-> [k \in 1 .. BufSize |-> IF k <= n THEN m + k ELSE c.buf[k]]]

(* poll_read_buf returned n bytes *)
ReadSome(d, n) ==
    /\ Copying(d) /\ Reading(d)
    /\ n <= sent[d] - Fetched(d)
    /\ copy' = [copy EXCEPT ![d] = Refill(copy[d], Fetched(d), n)]
    /\ UNCHANGED <<brutal, lockstep, turn, state, peerVars, out, flushed, shut, result>>

(* ... or 0: the end of the stream *)
ReadEof(d) ==
    /\ Copying(d) /\ Reading(d)
    /\ sent[d] = Fetched(d)
    /\ closed[d]
    /\ copy' = [copy EXCEPT ![d].read_done = TRUE]
    /\ UNCHANGED <<brutal, lockstep, turn, state, peerVars, out, flushed, shut, result>>

FlushIdle_Skipped(d) ==
    /\ Copying(d) /\ Reading(d) /\ ReadPending(d)
    /\ copy[d].need_flush
    /\ copy' = [copy EXCEPT ![d].need_flush = FALSE]
    /\ turn' = After(d)
    /\ UNCHANGED <<brutal, lockstep, state, peerVars, out, flushed, shut, result>>

(* the reader has nothing: flush, "to avoid deadlock when the reader depends
   on buffered writer", and return Pending *)
FlushIdle(d) ==
    /\ Copying(d) /\ Reading(d) /\ ReadPending(d)
    /\ copy[d].need_flush
    /\ flushed' = [flushed EXCEPT ![d] = Len(out[d])]
    /\ copy' = [copy EXCEPT ![d].need_flush = FALSE]
    /\ turn' = After(d)
    /\ UNCHANGED <<brutal, lockstep, state, peerVars, out, shut, result>>

Writing(d) == copy[d].pos < copy[d].cap

(* the writer takes nothing more while so much waits for the peer *)
WritePending(d) == flushed[d] - taken[d] >= Window

(* i bytes of the buffer are written *)
Advance(c, i) ==
    [read_done |-> c.read_done, need_flush |-> TRUE,
     pos |-> c.pos + i, cap |-> c.cap, amt |-> c.amt + i, buf |-> c.buf]

WriteSome_FromStart(d, i) ==
    /\ Copying(d) /\ Writing(d) /\ ~WritePending(d)
    /\ i <= copy[d].cap - copy[d].pos
    /\ out' = [out EXCEPT ![d] = @ \o SubSeq(copy[d].buf, 1, i)]
    /\ copy' = [copy EXCEPT ![d] = Advance(copy[d], i)]
    /\ \E f \in flushed[d] .. Len(out'[d]) : flushed' = [flushed EXCEPT ![d] = f]
    /\ UNCHANGED <<brutal, lockstep, turn, state, peerVars, shut, result>>

(* poll_write_buf took i bytes of the pending slice; the writer passes on as
   many bytes as it likes and holds the others until it is flushed *)
WriteSome(d, i) ==
    /\ Copying(d) /\ Writing(d) /\ ~WritePending(d)
    /\ i <= copy[d].cap - copy[d].pos
    /\ out' = [out EXCEPT ![d] = @ \o SubSeq(copy[d].buf, copy[d].pos + 1, copy[d].pos + i)]
    /\ copy' = [copy EXCEPT ![d] = Advance(copy[d], i)]
    /\ \E f \in flushed[d] .. Len(out'[d]) : flushed' = [flushed EXCEPT ![d] = f]
    /\ UNCHANGED <<brutal, lockstep, turn, state, peerVars, shut, result>>

-------------------------------------------------------------------------------
(* transfer and transfer2: copy, shut the writer down, done. *)

Finish_NoFlush(d) ==
    /\ Copying(d)
    /\ ~Writing(d) /\ copy[d].read_done
    /\ state' = [state EXCEPT ![d] = "shutting"]
    /\ UNCHANGED <<brutal, lockstep, turn, copy, peerVars, out, flushed, shut, result>>

(* everything is written and the reader is at its end: the last flush *)
Finish(d) ==
    /\ Copying(d)
    /\ ~Writing(d) /\ copy[d].read_done
    /\ flushed' = [flushed EXCEPT ![d] = Len(out[d])]
    /\ state' = [state EXCEPT ![d] = "shutting"]
    /\ UNCHANGED <<brutal, lockstep, turn, copy, peerVars, out, shut, result>>

Shutdown(d) ==
    /\ result.kind = "none" /\ turn = d /\ state[d] = "shutting"
    /\ shut' = [shut EXCEPT ![d] = TRUE]
    /\ state' = [state EXCEPT ![d] = "done"]
    /\ UNCHANGED <<brutal, lockstep, turn, copy, peerVars, out, flushed, result>>

Fail_AsEnd(d) ==
    /\ result.kind = "none" /\ turn = d /\ state[d] # "done"
    /\ state' = [state EXCEPT ![d] = "done"]
    /\ UNCHANGED <<brutal, lockstep, turn, copy, peerVars, out, flushed, shut, result>>

(* an error of any stream ends the future: dropping it drops both copies *)
Fail(d) ==
    /\ result.kind = "none" /\ turn = d /\ state[d] # "done"
    /\ result' = [kind |-> "error", ab |-> 0, ba |-> 0]
    /\ UNCHANGED <<brutal, lockstep, turn, state, copy, peerVars, out, flushed, shut>>

(* transfer returns: it is done, or the stream it polls would block; a flush
   or a shutdown may block at any time *)
Blocked(d) ==
    \/ state[d] # "running"
    \/ IF Reading(d) THEN ReadPending(d)
       ELSE Writing(d) => WritePending(d)

Yield(d) ==
    /\ result.kind = "none" /\ turn = d
    /\ Blocked(d)
    /\ turn' = After(d)
    /\ UNCHANGED <<brutal, lockstep, state, copy, peerVars, out, flushed, shut, result>>

Count(d) == IF state[d] = "done" THEN copy[d].amt ELSE 0

Ready_Any == \E d \in Dirs : state[d] = "done"

(* BidiCopy::poll, once both transfers returned: one that is done is enough
   for a brutal shutdown *)
Ready ==
    IF brutal THEN \E d \in Dirs : state[d] = "done"
    ELSE \A d \in Dirs : state[d] = "done"

Return ==
    /\ result.kind = "none" /\ turn = "end"
    /\ result' = IF Ready
                 THEN [kind |-> "ok", ab |-> Count("ab"), ba |-> Count("ba")]
                 ELSE result
    /\ turn' = "ab"
    /\ UNCHANGED <<brutal, lockstep, state, copy, peerVars, out, flushed, shut>>

-------------------------------------------------------------------------------
(* The peers.  In lockstep the remote answers only when it has the whole
   request, and the client closes only when it has the whole answer.  What a
   peer sends when the relay is over meets a closed socket. *)

Served(d) ==
    ~lockstep \/ (d = "ba" => taken["ab"] = Total["ab"])

PeerSends(d) ==
    /\ result.kind = "none"
    /\ sent[d] < Total[d]
    /\ ~closed[d]
    /\ Served(d)
    /\ sent' = [sent EXCEPT ![d] = @ + 1]
    /\ UNCHANGED <<brutal, lockstep, turn, state, copy, closed, taken, out, flushed,
                   shut, result>>

PeerCloses(d) ==
    /\ result.kind = "none"
    /\ ~closed[d]
    /\ lockstep => sent[d] = Total[d] /\ taken[Back(d)] = Total[Back(d)]
    /\ closed' = [closed EXCEPT ![d] = TRUE]
    /\ UNCHANGED <<brutal, lockstep, turn, state, copy, sent, taken, out, flushed,
                   shut, result>>

PeerTakes(d) ==
    /\ taken[d] < flushed[d]
    /\ taken' = [taken EXCEPT ![d] = @ + 1]
    /\ UNCHANGED <<brutal, lockstep, turn, state, copy, sent, closed, out, flushed,
                   shut, result>>

Terminated ==
    /\ result.kind # "none"
    /\ UNCHANGED vars

-------------------------------------------------------------------------------

Transfer(d) ==
    \/ \E n \in 1 .. BufSize : ReadSome(d, n)
    \/ ReadEof(d)
    \/ FlushIdle(d)
    \/ \E i \in 1 .. BufSize : WriteSome(d, i)
    \/ Finish(d)
    \/ Shutdown(d)
    \/ Yield(d)

Next ==
    \/ \E d \in Dirs : Transfer(d) \/ Fail(d)
    \/ Return
    \/ \E d \in Dirs : PeerSends(d) \/ PeerCloses(d) \/ PeerTakes(d)
    \/ Terminated

Spec == Init /\ [][Next]_vars

(***************************************************************************)
(* The task is polled whenever a stream can go on, and a flush or shutdown *)
(* that is tried again and again gets done.  Peers in lockstep send what   *)
(* they have, take what arrives and close in the end; others promise       *)
(* nothing.  No stream has to fail.                                        *)
(***************************************************************************)
Fairness ==
    /\ WF_vars(\E d \in Dirs : Transfer(d))
    /\ WF_vars(Return)
    /\ \A d \in Dirs : /\ SF_vars(FlushIdle(d)) /\ SF_vars(Finish(d))
                       /\ SF_vars(Shutdown(d))
                       /\ WF_vars(lockstep /\ PeerSends(d))
                       /\ WF_vars(lockstep /\ PeerCloses(d))
                       /\ WF_vars(lockstep /\ PeerTakes(d))

FairSpec == Spec /\ Fairness

-------------------------------------------------------------------------------
(* Properties *)

(* Type invariant of the two copies and of what the peers see. *)
TypeOK ==
    /\ brutal \in BOOLEAN /\ lockstep \in BOOLEAN
    /\ turn \in Dirs \cup {"end"}
    /\ state \in [Dirs -> {"running", "shutting", "done"}]
    /\ copy \in [Dirs -> CopyBuffer]
    /\ \A d \in Dirs : copy[d].pos <= copy[d].cap /\ copy[d].cap <= BufSize
    /\ sent \in [Dirs -> Nat]
    /\ closed \in [Dirs -> BOOLEAN]
    /\ out \in [Dirs -> Seq(Nat)]
    /\ flushed \in [Dirs -> Nat]
    /\ taken \in [Dirs -> Nat]
    /\ shut \in [Dirs -> BOOLEAN]
    /\ result \in [kind: Results, ab: Nat, ba: Nat]

(* What a writer is given is what the other side sent, byte by byte: nothing
   is lost, repeated or moved by refilling the buffer, by partial writes or by
   a poll that stops in between (poll_copy). *)
RelaysInOrder ==
    \A d \in Dirs :
      /\ Len(out[d]) <= sent[d]
      /\ \A k \in DOMAIN out[d] : out[d][k] = k

(* A peer sees the end of the stream only when the other one closed its side
   and everything it sent has been passed on, flush included: a half-closed
   connection loses nothing. *)
ShutAfterEverything ==
    \A d \in Dirs : shut[d] => closed[d] /\ flushed[d] = sent[d]

(* A relay that returns Ok reports exactly what it delivered: without the
   brutal shutdown all of both directions, with it all of the direction that
   came to its end. *)
ReportsWhatItDelivered ==
    result.kind = "ok" =>
      /\ \E d \in Dirs : shut[d] /\ result[d] = sent[d]
      /\ \A d \in Dirs : IF shut[d] THEN result[d] = flushed[d]
                         ELSE brutal /\ result[d] = 0

(* Peers that wait for each other are never left waiting for bytes that a
   writer holds back: their exchange runs to its end, whatever the sizes of
   reads and writes, and even under the brutal shutdown the whole answer has
   been delivered by then. *)
LockstepCompletes ==
    lockstep ~> \/ result.kind = "error"
                \/ /\ result.kind = "ok"
                   /\ \A d \in Dirs : taken[d] = Total[d]

(***************************************************************************)
(* Refinement: a byte is delivered when it is flushed, and the end of a    *)
(* direction is passed on by the shutdown of its writer.                   *)
(***************************************************************************)
Delivered == [d \in Dirs |-> [k \in 1 .. flushed[d] |-> out[d][k]]]
Outcome == [kind |-> result.kind, count |-> [d \in Dirs |-> result[d]]]

Contract ==
    INSTANCE RelayContract WITH
        delivered <- Delivered, ended <- shut, outcome <- Outcome

(* BidiCopy::poll with its buffers implements RelayContract: what was delivered
   only grows, by the next bytes, and not after the end was passed on; Ok is
   returned on the end of both directions, or of one in a brutal build, and an
   error of one direction is never taken for its end. *)
KeepsContract == Contract!ContractSpec
===============================================================================

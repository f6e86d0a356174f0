----------------------------- MODULE BidiProofs -----------------------------
(***************************************************************************)
(* Proofs about BidiCopy, for every buffer size, every number of bytes and *)
(* every build.                                                            *)
(***************************************************************************)
EXTENDS BidiCopy, Integers, TLAPS

(* Of one direction: what was written is counted, in order, and what the buffer
   still holds goes on from there; the end of the stream is seen with an empty
   buffer; everything is flushed before the shutdown. *)
Half(c, st, s, cl, o, f, sh) ==
    /\ c.pos <= c.cap
    /\ c.cap <= BufSize
    /\ Len(o) = c.amt
    /\ \A k \in 1 .. Len(o) : o[k] = k
    /\ c.amt + c.cap - c.pos <= s
    /\ \A k \in 1 .. BufSize : c.pos < k /\ k <= c.cap => c.buf[k] = c.amt - c.pos + k
    /\ f <= Len(o)
    /\ c.read_done => cl /\ c.pos = c.cap /\ s = c.amt
    /\ st # "running" => c.read_done /\ f = Len(o)
    /\ sh <=> st = "done"

Halves ==
    \A d \in Dirs :
      Half(copy[d], state[d], sent[d], closed[d], out[d], flushed[d], shut[d])

IInv == TypeOK /\ Halves /\ ReportsWhatItDelivered

(* A buffer has room for some bytes. *)
LEMMA BufSizeIsNat == BufSize \in Nat /\ 1 <= BufSize
BY SizesPositive

(* The fields of a buffer. *)
LEMMA Fields ==
    ASSUME NEW c \in CopyBuffer
    PROVE  /\ c.pos \in Nat /\ c.cap \in Nat /\ c.amt \in Nat
           /\ c.buf \in [1 .. BufSize -> Nat]
BY DEF CopyBuffer

(* A fresh relay satisfies the invariant. *)
LEMMA InitEstablishes == Init => IInv
<1> SUFFICES ASSUME Init PROVE IInv
  OBVIOUS
<1> USE BufSizeIsNat
<1>1. NewBuffer \in CopyBuffer
  BY DEF NewBuffer, CopyBuffer
<1>2. NewBuffer.pos = 0 /\ NewBuffer.cap = 0 /\ NewBuffer.amt = 0 /\ ~NewBuffer.read_done
  BY DEF NewBuffer
<1>3. TypeOK
  BY <1>1, <1>2 DEF Init, TypeOK, Dirs, Results
<1>4. Halves
  BY <1>2 DEF Init, Halves, Half
<1>5. ReportsWhatItDelivered
  BY DEF Init, ReportsWhatItDelivered
<1> QED BY <1>3, <1>4, <1>5 DEF IInv

(* What a read leaves in the buffer. *)
LEMMA Refilled ==
    ASSUME NEW c \in CopyBuffer, NEW m \in Nat, NEW n \in 1 .. BufSize
    PROVE  LET v == Refill(c, m, n)
           IN  /\ v \in CopyBuffer
               /\ v.pos = 0 /\ v.cap = n /\ v.amt = c.amt /\ v.read_done = c.read_done
               /\ \A k \in 1 .. BufSize : k <= n => v.buf[k] = m + k
<1> DEFINE b == [k \in 1 .. BufSize |-> IF k <= n THEN m + k ELSE c.buf[k]]
<1>1. b \in [1 .. BufSize -> Nat]
  BY SizesPositive DEF CopyBuffer
<1>2. \A k \in 1 .. BufSize : k <= n => b[k] = m + k
  OBVIOUS
<1>3. Refill(c, m, n) = [read_done |-> c.read_done, need_flush |-> c.need_flush,
                         pos |-> 0, cap |-> n, amt |-> c.amt, buf |-> b]
  BY DEF Refill
<1>4. n \in Nat
  BY SizesPositive
<1> HIDE DEF b
<1> QED BY <1>1, <1>2, <1>3, <1>4 DEF CopyBuffer

(* What a write leaves of it. *)
LEMMA Advanced ==
    ASSUME NEW c \in CopyBuffer, NEW i \in Nat
    PROVE  LET v == Advance(c, i)
           IN  /\ v \in CopyBuffer
               /\ v.pos = c.pos + i /\ v.cap = c.cap /\ v.amt = c.amt + i
               /\ v.read_done = c.read_done /\ v.buf = c.buf
BY DEF Advance, CopyBuffer

(* The slice of the buffer that is handed to a writer. *)
LEMMA Slice ==
    ASSUME NEW buf \in [1 .. BufSize -> Nat], NEW p \in Nat, NEW i \in Nat,
           p + i <= BufSize
    PROVE  LET piece == SubSeq(buf, p + 1, p + i)
           IN  /\ piece \in Seq(Nat)
               /\ Len(piece) = i
               /\ \A k \in 1 .. i : piece[k] = buf[p + k]
<1>1. buf \in Seq(Nat) /\ Len(buf) = BufSize
  BY SizesPositive
<1> QED BY <1>1, SizesPositive

(* Appending the next i numbers to the first m. *)
LEMMA Joined ==
    ASSUME NEW a \in Seq(Nat), NEW b \in Seq(Nat),
           \A k \in 1 .. Len(a) : a[k] = k,
           \A k \in 1 .. Len(b) : b[k] = Len(a) + k
    PROVE  /\ a \o b \in Seq(Nat)
           /\ Len(a \o b) = Len(a) + Len(b)
           /\ \A k \in 1 .. Len(a \o b) : (a \o b)[k] = k
<1>1. a \o b \in Seq(Nat) /\ Len(a \o b) = Len(a) + Len(b)
  OBVIOUS
<1>2. ASSUME NEW k \in 1 .. Len(a \o b) PROVE (a \o b)[k] = k
  <2>1. CASE k <= Len(a)
    BY <2>1
  <2>2. CASE k > Len(a)
    <3>1. k - Len(a) \in 1 .. Len(b) /\ (a \o b)[k] = b[k - Len(a)]
      BY <1>1, <2>2
    <3> QED BY <3>1
  <2> QED BY <1>1, <2>1, <2>2
<1> QED BY <1>1, <1>2

(* Refilling the empty buffer keeps it. *)
LEMMA ReadSomeKeeps ==
    ASSUME IInv, NEW d \in Dirs, NEW n \in 1 .. BufSize, ReadSome(d, n)
    PROVE  IInv'
<1> USE BufSizeIsNat
<1> DEFINE c == copy[d]
           v == Refill(c, c.amt, n)
<1>1. c \in CopyBuffer /\ sent[d] \in Nat /\ c.amt \in Nat /\ c.cap \in Nat
  BY Fields DEF IInv, TypeOK
<1>2. c.pos = c.cap /\ ~c.read_done /\ n <= sent[d] - c.amt /\ Fetched(d) = c.amt
  BY <1>1 DEF ReadSome, Reading, Fetched
<1>3. copy' = [copy EXCEPT ![d] = v]
  BY <1>2 DEF ReadSome
<1>4. /\ v \in CopyBuffer
      /\ v.pos = 0 /\ v.cap = n /\ v.amt = c.amt /\ v.read_done = c.read_done
      /\ \A k \in 1 .. BufSize : k <= n => v.buf[k] = c.amt + k
  <2> HIDE DEF c
  <2> QED BY <1>1, Refilled, Zenon
<1>5. Half(c, state[d], sent[d], closed[d], out[d], flushed[d], shut[d])
  BY DEF IInv, Halves
<1>6. Half(v, state[d], sent[d], closed[d], out[d], flushed[d], shut[d])
  <2>1. n \in Nat /\ n <= BufSize /\ c.amt - 0 = c.amt /\ c.amt + n - 0 <= sent[d]
    BY <1>1, <1>2
  <2>2. \A k \in 1 .. BufSize : v.pos < k /\ k <= v.cap => v.buf[k] = v.amt - v.pos + k
    BY <1>4, <2>1
  <2> HIDE DEF v, c
  <2> QED BY <1>1, <1>2, <1>4, <1>5, <2>1, <2>2 DEF Half
<1> HIDE DEF v
<1>7. UNCHANGED <<brutal, lockstep, turn, state, sent, closed, taken, out, flushed,
                  shut, result>>
  BY DEF ReadSome, peerVars
<1>8. \A e \in Dirs : copy'[e] = IF e = d THEN v ELSE copy[e]
  BY <1>3 DEF IInv, TypeOK
<1>9. Halves'
  BY <1>6, <1>7, <1>8 DEF IInv, Halves
<1>10. TypeOK'
  BY SMTT(40), <1>3, <1>4, <1>7, <1>8 DEF IInv, TypeOK
<1>11. ReportsWhatItDelivered'
  BY <1>7 DEF IInv, ReportsWhatItDelivered
<1> QED BY <1>9, <1>10, <1>11 DEF IInv

(* A partial write moves the bytes at the front of the buffer to the writer. *)
LEMMA WriteSomeKeeps ==
    ASSUME IInv, NEW d \in Dirs, NEW i \in 1 .. BufSize, WriteSome(d, i)
    PROVE  IInv'
<1> USE BufSizeIsNat
<1> DEFINE c == copy[d]
           v == Advance(c, i)
           piece == SubSeq(c.buf, c.pos + 1, c.pos + i)
           o == out[d] \o piece
<1>1. c \in CopyBuffer /\ sent[d] \in Nat /\ out[d] \in Seq(Nat) /\ flushed[d] \in Nat
  BY DEF IInv, TypeOK
<1>2. /\ c.pos \in Nat /\ c.cap \in Nat /\ c.amt \in Nat /\ i \in Nat
      /\ c.buf \in [1 .. BufSize -> Nat]
  <2> HIDE DEF c
  <2> QED BY <1>1, Fields
<1>3. Half(c, state[d], sent[d], closed[d], out[d], flushed[d], shut[d])
  BY DEF IInv, Halves
<1>4. c.pos + i <= c.cap /\ c.cap <= BufSize /\ c.pos + i <= BufSize
  <2>1. i <= c.cap - c.pos
    BY DEF WriteSome
  <2>2. c.cap <= BufSize
    BY <1>3 DEF Half
  <2> HIDE DEF c
  <2> QED BY <1>2, <2>1, <2>2
<1>7. /\ piece \in Seq(Nat) /\ Len(piece) = i
      /\ \A k \in 1 .. i : piece[k] = c.buf[c.pos + k]
  <2> HIDE DEF c
  <2> QED BY ONLY <1>2, <1>4, Slice, Zenon
<1>8. \A k \in 1 .. i : piece[k] = c.amt + k
  <2> HIDE DEF piece, c
  <2> TAKE k \in 1 .. i
  <2>1. c.pos + k \in 1 .. BufSize /\ c.pos < c.pos + k /\ c.pos + k <= c.cap
    <3>1. \A p, cap, j, m, b \in Nat :
            1 <= m /\ m <= j /\ p + j <= cap /\ cap <= b
            => p + m \in 1 .. b /\ p < p + m /\ p + m <= cap
      BY ONLY TRUE
    <3>2. k \in Nat /\ 1 <= k /\ k <= i /\ BufSize \in Nat
      BY <1>2
    <3> QED BY ONLY <1>2, <1>4, <3>1, <3>2, Zenon
  <2>2. c.buf[c.pos + k] = c.amt - c.pos + (c.pos + k)
    BY <1>3, <2>1 DEF Half
  <2>3. c.amt - c.pos + (c.pos + k) = c.amt + k
    BY <1>2
  <2>4. piece[k] = c.buf[c.pos + k]
    BY <1>7
  <2> QED BY <2>2, <2>3, <2>4
<1>9. out' = [out EXCEPT ![d] = o] /\ copy' = [copy EXCEPT ![d] = v]
  BY DEF WriteSome
<1>10. PICK f \in flushed[d] .. Len(out'[d]) : flushed' = [flushed EXCEPT ![d] = f]
  BY Zenon DEF WriteSome
<1>11. /\ v \in CopyBuffer
       /\ v.pos = c.pos + i /\ v.cap = c.cap /\ v.amt = c.amt + i
       /\ v.read_done = c.read_done /\ v.buf = c.buf
  <2> HIDE DEF c
  <2> QED BY <1>1, <1>2, Advanced, Zenon
<1>12. o \in Seq(Nat) /\ Len(o) = c.amt + i /\ \A k \in 1 .. Len(o) : o[k] = k
  <2>1. Len(out[d]) = c.amt /\ \A k \in 1 .. Len(out[d]) : out[d][k] = k
    BY <1>3 DEF Half
  <2> HIDE DEF piece, c
  <2>2. \A k \in 1 .. Len(piece) : piece[k] = Len(out[d]) + k
    BY <1>7, <1>8, <2>1
  <2>3. Len(o) = Len(out[d]) + Len(piece) /\ o \in Seq(Nat)
        /\ \A k \in 1 .. Len(o) : o[k] = k
    BY ONLY <1>1, <1>7, <2>1, <2>2, Joined, Zenon
  <2> HIDE DEF o
  <2> QED BY <1>7, <2>1, <2>3
<1>13. out'[d] = o /\ f \in Nat /\ f <= Len(o)
  <2> HIDE DEF o
  <2>1. out'[d] = o
    BY <1>9 DEF IInv, TypeOK
  <2> QED BY <1>1, <1>10, <1>12, <2>1
<1>14. ~c.read_done /\ state[d] = "running" /\ result.kind = "none"
  <2>1. c.pos < c.cap /\ state[d] = "running" /\ result.kind = "none"
    BY DEF WriteSome, Copying, Writing
  <2>2. c.read_done => c.pos = c.cap
    BY <1>3 DEF Half
  <2> HIDE DEF c
  <2> QED BY <1>2, <2>1, <2>2
<1>15. Half(v, state[d], sent[d], closed[d], o, f, shut[d])
  <2> HIDE DEF v, o, c
  <2>1. /\ c.amt + c.cap - c.pos <= sent[d]
        /\ \A k \in 1 .. BufSize : c.pos < k /\ k <= c.cap => c.buf[k] = c.amt - c.pos + k
        /\ shut[d] <=> state[d] = "done"
    BY <1>3 DEF Half
  <2>2. v.pos <= v.cap /\ v.cap <= BufSize /\ v.amt + v.cap - v.pos <= sent[d]
    BY SMTT(40), <1>1, <1>2, <1>4, <1>11, <2>1
  <2>3. \A k \in 1 .. BufSize : v.pos < k /\ k <= v.cap => v.buf[k] = v.amt - v.pos + k
    <3> SUFFICES ASSUME NEW k \in 1 .. BufSize, v.pos < k, k <= v.cap
                 PROVE  v.buf[k] = v.amt - v.pos + k
      OBVIOUS
    <3>1. v.amt - v.pos = c.amt - c.pos /\ c.pos < k /\ k <= c.cap
      BY SMTT(40), <1>2, <1>11
    <3> QED BY <1>11, <2>1, <3>1
  <2> QED BY <1>11, <1>12, <1>13, <1>14, <2>1, <2>2, <2>3 DEF Half
<1> HIDE DEF v, o
<1>16. UNCHANGED <<brutal, lockstep, turn, state, sent, closed, taken, shut, result>>
  BY DEF WriteSome, peerVars
<1>17. \A e \in Dirs : /\ copy'[e] = IF e = d THEN v ELSE copy[e]
                       /\ out'[e] = IF e = d THEN o ELSE out[e]
                       /\ flushed'[e] = IF e = d THEN f ELSE flushed[e]
  BY <1>9, <1>10 DEF IInv, TypeOK
<1>18. Halves'
  BY <1>15, <1>16, <1>17 DEF IInv, Halves
<1>19. copy' \in [Dirs -> CopyBuffer] /\ out' \in [Dirs -> Seq(Nat)]
       /\ flushed' \in [Dirs -> Nat]
  BY <1>9, <1>10, <1>11, <1>12, <1>13 DEF IInv, TypeOK
<1>20. \A e \in Dirs : copy'[e].pos <= copy'[e].cap /\ copy'[e].cap <= BufSize
  BY <1>18 DEF Halves, Half
<1>21. TypeOK'
  BY SMTT(40), <1>16, <1>19, <1>20 DEF IInv, TypeOK
<1>22. ReportsWhatItDelivered'
  BY <1>14, <1>16 DEF ReportsWhatItDelivered
<1> QED BY <1>18, <1>21, <1>22 DEF IInv

(* The end of the stream is seen with an empty buffer. *)
LEMMA ReadEofKeeps ==
    ASSUME IInv, NEW d \in Dirs, ReadEof(d)
    PROVE  IInv'
<1> DEFINE c == copy[d]
           v == [c EXCEPT !.read_done = TRUE]
<1>1. c \in CopyBuffer /\ sent[d] \in Nat
  BY DEF IInv, TypeOK
<1>2. c.pos = c.cap /\ closed[d] /\ sent[d] = c.amt
  BY <1>1 DEF ReadEof, Reading, Fetched, CopyBuffer
<1>3. copy' = [copy EXCEPT ![d] = v]
  BY DEF ReadEof
<1>4. /\ v \in CopyBuffer /\ v.read_done
      /\ v.pos = c.pos /\ v.cap = c.cap /\ v.amt = c.amt /\ v.buf = c.buf
  BY <1>1, Zenon DEF CopyBuffer
<1>5. Half(c, state[d], sent[d], closed[d], out[d], flushed[d], shut[d])
  BY DEF IInv, Halves
<1>6. Half(v, state[d], sent[d], closed[d], out[d], flushed[d], shut[d])
  <2> HIDE DEF v
  <2> QED BY <1>2, <1>4, <1>5 DEF Half
<1> HIDE DEF v
<1>7. UNCHANGED <<brutal, lockstep, turn, state, sent, closed, taken, out, flushed,
                  shut, result>>
  BY DEF ReadEof, peerVars
<1>8. \A e \in Dirs : copy'[e] = IF e = d THEN v ELSE copy[e]
  BY <1>3 DEF IInv, TypeOK
<1>9. Halves'
  BY <1>6, <1>7, <1>8 DEF IInv, Halves
<1>10. TypeOK'
  BY SMTT(40), <1>3, <1>4, <1>7, <1>8 DEF IInv, TypeOK
<1>11. ReportsWhatItDelivered'
  BY <1>7 DEF IInv, ReportsWhatItDelivered
<1> QED BY <1>9, <1>10, <1>11 DEF IInv

(* Flushing an idle writer loses nothing. *)
LEMMA FlushIdleKeeps ==
    ASSUME IInv, NEW d \in Dirs, FlushIdle(d)
    PROVE  IInv'
<1> DEFINE c == copy[d]
           v == [c EXCEPT !.need_flush = FALSE]
<1>1. c \in CopyBuffer /\ out[d] \in Seq(Nat)
  BY DEF IInv, TypeOK
<1>2. state[d] = "running" /\ result.kind = "none"
  BY DEF FlushIdle, Copying
<1>3. copy' = [copy EXCEPT ![d] = v] /\ flushed' = [flushed EXCEPT ![d] = Len(out[d])]
  BY DEF FlushIdle
<1>4. /\ v \in CopyBuffer /\ v.read_done = c.read_done
      /\ v.pos = c.pos /\ v.cap = c.cap /\ v.amt = c.amt /\ v.buf = c.buf
  BY <1>1, Zenon DEF CopyBuffer
<1>5. Half(c, state[d], sent[d], closed[d], out[d], flushed[d], shut[d])
  BY DEF IInv, Halves
<1>6. Len(out[d]) \in Nat
  BY <1>1
<1>7. Half(v, state[d], sent[d], closed[d], out[d], Len(out[d]), shut[d])
  <2> HIDE DEF v
  <2> QED BY <1>2, <1>4, <1>5, <1>6 DEF Half
<1> HIDE DEF v
<1>8. UNCHANGED <<brutal, lockstep, state, sent, closed, taken, out, shut, result>>
  BY DEF FlushIdle, peerVars
<1>9. \A e \in Dirs : /\ copy'[e] = IF e = d THEN v ELSE copy[e]
                      /\ flushed'[e] = IF e = d THEN Len(out[d]) ELSE flushed[e]
  BY <1>3 DEF IInv, TypeOK
<1>10. Halves'
  BY <1>7, <1>8, <1>9 DEF IInv, Halves
<1>11. turn' \in Dirs \cup {"end"}
  BY DEF FlushIdle, After, Dirs
<1>12. copy' \in [Dirs -> CopyBuffer] /\ flushed' \in [Dirs -> Nat]
  BY <1>3, <1>4, <1>6 DEF IInv, TypeOK
<1>13. \A e \in Dirs : copy'[e].pos <= copy'[e].cap /\ copy'[e].cap <= BufSize
  BY <1>10 DEF Halves, Half
<1>14. TypeOK'
  BY SMTT(40), <1>8, <1>11, <1>12, <1>13 DEF IInv, TypeOK
<1>15. ReportsWhatItDelivered'
  BY <1>2, <1>8 DEF ReportsWhatItDelivered
<1> QED BY <1>10, <1>14, <1>15 DEF IInv

(* The last flush comes before the shutdown. *)
LEMMA FinishKeeps ==
    ASSUME IInv, NEW d \in Dirs, Finish(d)
    PROVE  IInv'
<1>1. Len(out[d]) \in Nat
  BY DEF IInv, TypeOK
<1>2. state[d] = "running" /\ copy[d].read_done /\ result.kind = "none"
  BY DEF Finish, Copying
<1>3. /\ flushed' = [flushed EXCEPT ![d] = Len(out[d])]
      /\ state' = [state EXCEPT ![d] = "shutting"]
      /\ UNCHANGED <<brutal, lockstep, turn, copy, sent, closed, taken, out, shut, result>>
  BY DEF Finish, peerVars
<1>4. Half(copy[d], "shutting", sent[d], closed[d], out[d], Len(out[d]), shut[d])
  BY <1>1, <1>2 DEF IInv, Halves, Half
<1>5. \A e \in Dirs : /\ state'[e] = IF e = d THEN "shutting" ELSE state[e]
                      /\ flushed'[e] = IF e = d THEN Len(out[d]) ELSE flushed[e]
  BY <1>3 DEF IInv, TypeOK
<1>6. Halves'
  BY <1>3, <1>4, <1>5 DEF IInv, Halves
<1>7. TypeOK'
  BY SMTT(40), <1>1, <1>3 DEF IInv, TypeOK
<1>8. ReportsWhatItDelivered'
  BY <1>2, <1>3 DEF ReportsWhatItDelivered
<1> QED BY <1>6, <1>7, <1>8 DEF IInv

(* The shutdown finds everything flushed. *)
LEMMA ShutdownKeeps ==
    ASSUME IInv, NEW d \in Dirs, Shutdown(d)
    PROVE  IInv'
<1>1. state[d] = "shutting" /\ result.kind = "none"
  BY DEF Shutdown
<1>2. /\ shut' = [shut EXCEPT ![d] = TRUE]
      /\ state' = [state EXCEPT ![d] = "done"]
      /\ UNCHANGED <<brutal, lockstep, turn, copy, sent, closed, taken, out, flushed, result>>
  BY DEF Shutdown, peerVars
<1>3. Half(copy[d], "done", sent[d], closed[d], out[d], flushed[d], TRUE)
  BY <1>1 DEF IInv, Halves, Half
<1>4. \A e \in Dirs : /\ state'[e] = IF e = d THEN "done" ELSE state[e]
                      /\ shut'[e] = IF e = d THEN TRUE ELSE shut[e]
  BY <1>2 DEF IInv, TypeOK
<1>5. Halves'
  BY <1>2, <1>3, <1>4, Zenon DEF IInv, Halves
<1>6. TypeOK'
  BY SMTT(40), <1>2 DEF IInv, TypeOK
<1>7. ReportsWhatItDelivered'
  BY <1>1, <1>2 DEF ReportsWhatItDelivered
<1> QED BY <1>5, <1>6, <1>7 DEF IInv

(* A transfer that returns early, and one that fails, change no copy. *)
LEMMA YieldKeeps ==
    ASSUME IInv, NEW d \in Dirs, Yield(d) \/ Fail(d)
    PROVE  IInv'
<1>1. UNCHANGED <<brutal, lockstep, state, copy, sent, closed, taken, out, flushed, shut>>
  BY DEF Yield, Fail, peerVars
<1>2. turn' \in Dirs \cup {"end"}
  BY DEF Yield, Fail, After, Dirs, IInv, TypeOK
<1>3. result' = result \/ result' = [kind |-> "error", ab |-> 0, ba |-> 0]
  BY DEF Yield, Fail
<1>4. TypeOK'
  <2>1. result' \in [kind: Results, ab: Nat, ba: Nat]
    BY <1>3 DEF IInv, TypeOK, Results
  <2> QED BY SMTT(40), <1>1, <1>2, <2>1 DEF IInv, TypeOK
<1>5. Halves'
  BY <1>1 DEF IInv, Halves
<1>6. ReportsWhatItDelivered'
  BY <1>1, <1>3 DEF IInv, ReportsWhatItDelivered
<1> QED BY <1>4, <1>5, <1>6 DEF IInv

(* The end of a poll reports what was flushed. *)
LEMMA ReturnKeeps == ASSUME IInv, Return PROVE IInv'
<1>1. UNCHANGED <<brutal, lockstep, state, copy, sent, closed, taken, out, flushed, shut>>
  BY DEF Return, peerVars
<1>2. Halves'
  BY <1>1 DEF IInv, Halves
<1>3. \A d \in Dirs : copy[d].amt \in Nat
  BY DEF IInv, TypeOK, CopyBuffer
<1>4. Count("ab") \in Nat /\ Count("ba") \in Nat
  BY <1>3 DEF Count, Dirs
<1>5. \/ result' = result
      \/ Ready /\ result' = [kind |-> "ok", ab |-> Count("ab"), ba |-> Count("ba")]
  BY DEF Return
<1>6. TypeOK'
  <2>1. turn' = "ab"
    BY DEF Return
  <2>2. result' \in [kind: Results, ab: Nat, ba: Nat]
    BY <1>4, <1>5 DEF IInv, TypeOK, Results
  <2> QED BY <1>1, <2>1, <2>2 DEF IInv, TypeOK, Dirs
<1>7. \A d \in Dirs : /\ state[d] = "done" => sent[d] = copy[d].amt /\ flushed[d] = copy[d].amt
                      /\ shut[d] <=> state[d] = "done"
  BY DEF IInv, Halves, Half
<1>8. ReportsWhatItDelivered'
  <2>1. CASE result' = result
    BY <1>1, <2>1 DEF IInv, ReportsWhatItDelivered
  <2>2. CASE Ready /\ result' = [kind |-> "ok", ab |-> Count("ab"), ba |-> Count("ba")]
    <3>1. \A d \in Dirs : result'[d] = Count(d)
      BY <2>2 DEF Dirs
    <3>2. \E d \in Dirs : state[d] = "done"
      BY <2>2 DEF Ready, Dirs
    <3>3. ~brutal => \A d \in Dirs : state[d] = "done"
      BY <2>2 DEF Ready
    <3> QED BY <1>1, <1>7, <3>1, <3>2, <3>3 DEF ReportsWhatItDelivered, Count
  <2> QED BY <1>5, <2>1, <2>2
<1> QED BY <1>2, <1>6, <1>8 DEF IInv

(* The peers only add to what is to be read, as long as they have not closed. *)
LEMMA PeersKeep ==
    ASSUME IInv, NEW d \in Dirs, PeerSends(d) \/ PeerCloses(d) \/ PeerTakes(d)
    PROVE  IInv'
<1> USE BufSizeIsNat
<1>1. CASE PeerSends(d)
  <2>1. /\ sent' = [sent EXCEPT ![d] = @ + 1] /\ ~closed[d] /\ result.kind = "none"
        /\ UNCHANGED <<brutal, lockstep, turn, state, copy, closed, taken, out, flushed,
                       shut, result>>
    BY <1>1 DEF PeerSends
  <2>2. \A e \in Dirs : sent'[e] = IF e = d THEN sent[d] + 1 ELSE sent[e]
    BY <2>1 DEF IInv, TypeOK
  <2>3. Half(copy[d], state[d], sent[d] + 1, closed[d], out[d], flushed[d], shut[d])
    <3>1. sent[d] \in Nat /\ copy[d] \in CopyBuffer
      BY DEF IInv, TypeOK
    <3>2. copy[d].amt + copy[d].cap - copy[d].pos \in Int
      BY <3>1, Fields
    <3>3. Half(copy[d], state[d], sent[d], closed[d], out[d], flushed[d], shut[d])
      BY DEF IInv, Halves
    <3>4. copy[d].amt + copy[d].cap - copy[d].pos <= sent[d] + 1
      BY <3>1, <3>2, <3>3 DEF Half
    <3> QED BY <2>1, <3>3, <3>4 DEF Half
  <2>4. Halves'
    BY <2>1, <2>2, <2>3 DEF IInv, Halves
  <2>5. TypeOK'
    BY SMTT(40), <2>1 DEF IInv, TypeOK
  <2>6. ReportsWhatItDelivered'
    BY <2>1 DEF ReportsWhatItDelivered
  <2> QED BY <2>4, <2>5, <2>6 DEF IInv
<1>2. CASE PeerCloses(d)
  <2>1. /\ closed' = [closed EXCEPT ![d] = TRUE]
        /\ UNCHANGED <<brutal, lockstep, turn, state, copy, sent, taken, out, flushed,
                       shut, result>>
    BY <1>2 DEF PeerCloses
  <2>2. \A e \in Dirs : closed'[e] = IF e = d THEN TRUE ELSE closed[e]
    BY SMTT(40), <2>1 DEF IInv, TypeOK
  <2>3. Half(copy[d], state[d], sent[d], TRUE, out[d], flushed[d], shut[d])
    BY DEF IInv, Halves, Half
  <2>4. Halves'
    BY <2>1, <2>2, <2>3, Zenon DEF IInv, Halves
  <2>5. TypeOK'
    BY SMTT(40), <2>1 DEF IInv, TypeOK
  <2>6. ReportsWhatItDelivered'
    BY <2>1 DEF IInv, ReportsWhatItDelivered
  <2> QED BY <2>4, <2>5, <2>6 DEF IInv
<1>3. CASE PeerTakes(d)
  <2>1. /\ taken' = [taken EXCEPT ![d] = @ + 1]
        /\ UNCHANGED <<brutal, lockstep, turn, state, copy, sent, closed, out, flushed,
                       shut, result>>
    BY <1>3 DEF PeerTakes
  <2>2. TypeOK'
    BY SMTT(40), <2>1 DEF IInv, TypeOK
  <2> QED BY <2>1, <2>2 DEF IInv, Halves, ReportsWhatItDelivered
<1> QED BY <1>1, <1>2, <1>3

(* Every step keeps the invariant. *)
LEMMA StepKeeps == IInv /\ [Next]_vars => IInv'
<1> SUFFICES ASSUME IInv, [Next]_vars PROVE IInv'
  OBVIOUS
<1>1. CASE UNCHANGED vars
  BY <1>1 DEF vars, peerVars, IInv, TypeOK, Halves, ReportsWhatItDelivered
<1>2. CASE \E d \in Dirs : Transfer(d) \/ Fail(d)
  BY <1>2, ReadSomeKeeps, WriteSomeKeeps, ReadEofKeeps, FlushIdleKeeps, FinishKeeps,
     ShutdownKeeps, YieldKeeps DEF Transfer
<1>3. CASE Return
  BY <1>3, ReturnKeeps
<1>4. CASE \E d \in Dirs : PeerSends(d) \/ PeerCloses(d) \/ PeerTakes(d)
  BY <1>4, PeersKeep
<1>5. CASE Terminated
  BY <1>1, <1>5 DEF Terminated
<1> QED BY <1>1, <1>2, <1>3, <1>4, <1>5 DEF Next

(* IInv is an invariant of the relay. *)
LEMMA Invariance == Spec => []IInv
BY InitEstablishes, StepKeeps, PTL DEF Spec

(* Type correctness; in particular pos never passes cap, which poll_copy only
   asserts in debug builds. *)
THEOREM TypeCorrect == Spec => []TypeOK
BY Invariance, PTL DEF IInv

(* Whatever the buffer size and however reads and writes are cut, a writer is
   given exactly the bytes the other side sent, in their order. *)
THEOREM InOrder == Spec => []RelaysInOrder
<1>1. IInv => RelaysInOrder
  <2> SUFFICES ASSUME IInv, NEW d \in Dirs
               PROVE  /\ Len(out[d]) <= sent[d]
                      /\ \A k \in DOMAIN out[d] : out[d][k] = k
    BY DEF RelaysInOrder
  <2>1. copy[d] \in CopyBuffer /\ out[d] \in Seq(Nat) /\ sent[d] \in Nat
    BY DEF IInv, TypeOK
  <2>2. copy[d].pos \in Nat /\ copy[d].cap \in Nat /\ copy[d].amt \in Nat
    BY <2>1, Fields
  <2>3. Half(copy[d], state[d], sent[d], closed[d], out[d], flushed[d], shut[d])
    BY DEF IInv, Halves
  <2>4. /\ copy[d].pos <= copy[d].cap
        /\ copy[d].amt + copy[d].cap - copy[d].pos <= sent[d]
        /\ Len(out[d]) = copy[d].amt
        /\ \A k \in 1 .. Len(out[d]) : out[d][k] = k
    BY <2>3 DEF Half
  <2>5. Len(out[d]) <= sent[d]
    BY <2>1, <2>2, <2>4
  <2>6. DOMAIN out[d] = 1 .. Len(out[d])
    BY <2>1
  <2> QED BY <2>4, <2>5, <2>6
<1> QED BY <1>1, Invariance, PTL

(* Nobody sees the end of a stream before everything sent on it. *)
THEOREM HalfClose == Spec => []ShutAfterEverything
<1>1. IInv => ShutAfterEverything
  BY DEF IInv, Halves, Half, ShutAfterEverything
<1> QED BY <1>1, Invariance, PTL

(* The numbers a finished relay returns are those of the bytes it delivered. *)
THEOREM Accounting == Spec => []ReportsWhatItDelivered
BY Invariance, PTL DEF IInv

-----------------------------------------------------------------------------
(* BidiCopy implements RelayContract. *)

(* The first f of the numbers in order. *)
LEMMA FirstOnes ==
    ASSUME NEW o \in Seq(Nat), NEW f \in Nat, f <= Len(o), \A k \in 1 .. Len(o) : o[k] = k
    PROVE  /\ [k \in 1 .. f |-> o[k]] = Contract!FirstBytes(f)
           /\ Len(Contract!FirstBytes(f)) = f
<1>1. \A k \in 1 .. f : o[k] = k
  OBVIOUS
<1>2. Len([k \in 1 .. f |-> k]) = f
  OBVIOUS
<1> QED BY <1>1, <1>2 DEF Contract!FirstBytes

(* The bytes delivered are the first of those sent. *)
LEMMA DeliveredAre ==
    ASSUME IInv
    PROVE  /\ Delivered = [d \in Dirs |-> Contract!FirstBytes(flushed[d])]
           /\ \A d \in Dirs : /\ Len(Delivered[d]) = flushed[d]
                              /\ flushed[d] \in Nat /\ sent[d] \in Nat
                              /\ flushed[d] <= sent[d]
<1>1. ASSUME NEW d \in Dirs
      PROVE  /\ out[d] \in Seq(Nat) /\ flushed[d] \in Nat /\ flushed[d] <= Len(out[d])
             /\ \A k \in 1 .. Len(out[d]) : out[d][k] = k
  BY DEF IInv, TypeOK, Halves, Half
<1>2. ASSUME NEW d \in Dirs
      PROVE  /\ [k \in 1 .. flushed[d] |-> out[d][k]] = Contract!FirstBytes(flushed[d])
             /\ Len(Contract!FirstBytes(flushed[d])) = flushed[d]
  BY <1>1, FirstOnes, Zenon
<1>3. Delivered = [d \in Dirs |-> Contract!FirstBytes(flushed[d])]
  BY <1>2, Zenon DEF Delivered
<1>4. \A d \in Dirs : Len(Delivered[d]) = flushed[d]
  BY <1>2, <1>3, Zenon
<1>5. ASSUME NEW d \in Dirs
      PROVE  flushed[d] \in Nat /\ sent[d] \in Nat /\ flushed[d] <= sent[d]
  <2>1. copy[d] \in CopyBuffer /\ sent[d] \in Nat /\ Len(out[d]) \in Nat
    BY <1>1 DEF IInv, TypeOK
  <2>2. copy[d].pos \in Nat /\ copy[d].cap \in Nat /\ copy[d].amt \in Nat
    BY <2>1, Fields
  <2>3. /\ copy[d].pos <= copy[d].cap
        /\ copy[d].amt + copy[d].cap - copy[d].pos <= sent[d]
        /\ Len(out[d]) = copy[d].amt
    BY DEF IInv, Halves, Half
  <2> QED BY <1>1, <2>1, <2>2, <2>3
<1> QED BY <1>3, <1>4, <1>5

(* The same after a step. *)
LEMMA DeliveredNext ==
    ASSUME IInv'
    PROVE  Delivered' = [d \in Dirs |-> Contract!FirstBytes(flushed'[d])]
<1>1. ASSUME NEW d \in Dirs
      PROVE  /\ out'[d] \in Seq(Nat) /\ flushed'[d] \in Nat /\ flushed'[d] <= Len(out'[d])
             /\ \A k \in 1 .. Len(out'[d]) : out'[d][k] = k
  BY DEF IInv, TypeOK, Halves, Half
<1>2. ASSUME NEW d \in Dirs
      PROVE  [k \in 1 .. flushed'[d] |-> out'[d][k]] = Contract!FirstBytes(flushed'[d])
  BY <1>1, FirstOnes, Zenon
<1> QED BY <1>2, Zenon DEF Delivered

(* A step that flushes bytes of d, and changes no more that the contract speaks
   of, delivers the next ones. *)
LEMMA FlushDelivers ==
    ASSUME IInv, IInv', NEW d \in Dirs, result.kind = "none", state[d] = "running",
           UNCHANGED <<brutal, sent, closed, shut, result>>,
           NEW f \in Nat, flushed[d] <= f, flushed' = [flushed EXCEPT ![d] = f]
    PROVE  [Contract!ContractNext]_(Contract!contractVars)
<1>1. /\ Delivered = [e \in Dirs |-> Contract!FirstBytes(flushed[e])]
      /\ Len(Delivered[d]) = flushed[d] /\ flushed[d] \in Nat /\ sent[d] \in Nat
  BY DeliveredAre
<1>2. Delivered' = [e \in Dirs |-> Contract!FirstBytes(flushed'[e])]
  BY DeliveredNext
<1>3. \A e \in Dirs : flushed'[e] = IF e = d THEN f ELSE flushed[e]
  BY DEF IInv, TypeOK
<1>4. f <= sent[d]
  <2>1. copy'[d] \in CopyBuffer /\ sent'[d] \in Nat /\ Len(out'[d]) \in Nat
    BY DEF IInv, TypeOK
  <2>2. copy'[d].pos \in Nat /\ copy'[d].cap \in Nat /\ copy'[d].amt \in Nat
    BY <2>1, Fields
  <2>3. /\ copy'[d].pos <= copy'[d].cap
        /\ copy'[d].amt + copy'[d].cap - copy'[d].pos <= sent'[d]
        /\ Len(out'[d]) = copy'[d].amt
        /\ flushed'[d] <= Len(out'[d])
    BY DEF IInv, Halves, Half
  <2> QED BY <1>3, <2>1, <2>2, <2>3
<1>5. Outcome' = Outcome /\ Outcome.kind = "none" /\ ~shut[d]
  BY DEF Outcome, IInv, Halves, Half
<1>6. CASE f = flushed[d]
  <2>1. Delivered' = Delivered
    BY <1>1, <1>2, <1>3, <1>6
  <2> QED BY <1>5, <2>1 DEF Contract!contractVars
<1>7. CASE f # flushed[d]
  <2>1. f \in 1 .. sent[d]
    BY <1>1, <1>4, <1>7
  <2>2. Delivered' = [Delivered EXCEPT ![d] = Contract!FirstBytes(f)]
    <3> HIDE DEF Contract!FirstBytes
    <3> QED BY <1>1, <1>2, <1>3
  <2>3. Contract!Deliver(d, f)
    BY <1>1, <1>4, <1>5, <2>2 DEF Contract!Deliver, Contract!Running
  <2> QED BY <2>1, <2>3, Zenon DEF Contract!ContractNext
<1> QED BY <1>6, <1>7

(* A step that changes nothing the contract speaks of. *)
LEMMA QuietSteps ==
    ASSUME IInv, IInv', UNCHANGED <<brutal, sent, closed, flushed, shut, result>>
    PROVE  UNCHANGED Contract!contractVars
<1>1. Delivered' = Delivered
  BY DeliveredAre, DeliveredNext
<1> QED BY <1>1 DEF Contract!contractVars, Outcome

(* A transfer delivers, passes the end on, fails, or does nothing that shows. *)
LEMMA TransferRefines ==
    ASSUME IInv, IInv', NEW d \in Dirs, Transfer(d) \/ Fail(d)
    PROVE  [Contract!ContractNext]_(Contract!contractVars)
<1>0. out[d] \in Seq(Nat) /\ flushed[d] \in Nat /\ flushed[d] <= Len(out[d])
  BY DEF IInv, TypeOK, Halves, Half
<1>1. CASE (\E n \in 1 .. BufSize : ReadSome(d, n)) \/ ReadEof(d) \/ Yield(d)
  <2>1. UNCHANGED <<brutal, sent, closed, flushed, shut, result>>
    BY <1>1 DEF ReadSome, ReadEof, Yield, peerVars
  <2> QED BY <2>1, QuietSteps
<1>2. CASE FlushIdle(d) \/ Finish(d)
  <2>1. /\ result.kind = "none" /\ state[d] = "running"
        /\ UNCHANGED <<brutal, sent, closed, shut, result>>
        /\ flushed' = [flushed EXCEPT ![d] = Len(out[d])]
    BY <1>2 DEF FlushIdle, Finish, Copying, peerVars
  <2>2. Len(out[d]) \in Nat
    BY <1>0
  <2> QED BY <1>0, <2>1, <2>2, FlushDelivers, Zenon
<1>3. ASSUME NEW i \in 1 .. BufSize, WriteSome(d, i)
      PROVE  [Contract!ContractNext]_(Contract!contractVars)
  <2>1. /\ result.kind = "none" /\ state[d] = "running"
        /\ UNCHANGED <<brutal, sent, closed, shut, result>>
    BY <1>3 DEF WriteSome, Copying, peerVars
  <2>2. PICK f \in flushed[d] .. Len(out'[d]) : flushed' = [flushed EXCEPT ![d] = f]
    BY <1>3, Zenon DEF WriteSome
  <2>3. f \in Nat /\ flushed[d] <= f
    <3>1. Len(out'[d]) \in Nat
      BY DEF IInv, TypeOK
    <3> QED BY <1>0, <2>2, <3>1
  <2> QED BY <2>1, <2>2, <2>3, FlushDelivers, Zenon
<1>4. CASE Shutdown(d)
  <2>1. /\ result.kind = "none" /\ state[d] = "shutting"
        /\ shut' = [shut EXCEPT ![d] = TRUE]
        /\ UNCHANGED <<brutal, sent, closed, flushed, result>>
    BY <1>4 DEF Shutdown, peerVars
  <2>2. closed[d] /\ flushed[d] = sent[d] /\ ~shut[d]
    BY <2>1 DEF IInv, Halves, Half
  <2>3. Delivered' = Delivered /\ Len(Delivered[d]) = flushed[d]
    BY <2>1, DeliveredAre, DeliveredNext
  <2>4. Contract!PassEnd(d)
    BY <2>1, <2>2, <2>3 DEF Contract!PassEnd, Contract!Running, Outcome
  <2> QED BY <2>4 DEF Contract!ContractNext
<1>5. CASE Fail(d)
  <2>1. /\ result.kind = "none" /\ result' = [kind |-> "error", ab |-> 0, ba |-> 0]
        /\ UNCHANGED <<brutal, sent, closed, flushed, shut>>
    BY <1>5 DEF Fail, peerVars
  <2>2. Delivered' = Delivered
    BY <2>1, DeliveredAre, DeliveredNext
  <2>3. Outcome' = [kind |-> "error", count |-> [e \in Dirs |-> 0]]
    BY <2>1 DEF Outcome, Dirs
  <2>4. Contract!ReturnError
    BY <2>1, <2>2, <2>3 DEF Contract!ReturnError, Contract!Running, Outcome
  <2> QED BY <2>4 DEF Contract!ContractNext
<1> QED BY <1>1, <1>2, <1>3, <1>4, <1>5 DEF Transfer

(* A poll that returns Ok does so by the rule of the build, and reports what the
   directions that ended delivered. *)
LEMMA ReturnRefines ==
    ASSUME IInv, IInv', Return
    PROVE  [Contract!ContractNext]_(Contract!contractVars)
<1>1. result.kind = "none" /\ UNCHANGED <<brutal, sent, closed, flushed, shut>>
  BY DEF Return, peerVars
<1>2. CASE ~Ready
  <2>1. result' = result
    BY <1>2 DEF Return
  <2> QED BY <1>1, <2>1, QuietSteps
<1>3. CASE Ready
  <2>1. result' = [kind |-> "ok", ab |-> Count("ab"), ba |-> Count("ba")]
    BY <1>3 DEF Return
  <2>2. \A d \in Dirs : /\ shut[d] <=> state[d] = "done"
                        /\ state[d] = "done" => copy[d].amt = sent[d]
    BY DEF IInv, Halves, Half
  <2>3. \A d \in Dirs : result'[d] = IF shut[d] THEN sent[d] ELSE 0
    BY <2>1, <2>2 DEF Count, Dirs
  <2>4. Outcome' = [kind |-> "ok", count |-> [d \in Dirs |-> IF shut[d] THEN sent[d] ELSE 0]]
    BY <2>1, <2>3 DEF Outcome
  <2>5. IF brutal THEN \E d \in Dirs : shut[d] ELSE \A d \in Dirs : shut[d]
    BY <1>3, <2>2 DEF Ready
  <2>6. Delivered' = Delivered
    BY <1>1, DeliveredAre, DeliveredNext
  <2>7. Contract!ReturnOk
    BY <1>1, <2>4, <2>5, <2>6 DEF Contract!ReturnOk, Contract!Running, Outcome
  <2> QED BY <2>7 DEF Contract!ContractNext
<1> QED BY <1>2, <1>3

(* The peers send and close while the relay runs; what they take of what was
   delivered does not show. *)
LEMMA PeersRefine ==
    ASSUME IInv, IInv', NEW d \in Dirs, PeerSends(d) \/ PeerCloses(d) \/ PeerTakes(d)
    PROVE  [Contract!ContractNext]_(Contract!contractVars)
<1>1. CASE PeerSends(d)
  <2>1. Delivered' = Delivered
    BY <1>1, DeliveredAre, DeliveredNext DEF PeerSends
  <2>2. Contract!Send(d)
    BY <1>1, <2>1 DEF PeerSends, Contract!Send, Contract!Running, Outcome
  <2> QED BY <2>2 DEF Contract!ContractNext
<1>2. CASE PeerCloses(d)
  <2>1. Delivered' = Delivered
    BY <1>2, DeliveredAre, DeliveredNext DEF PeerCloses
  <2>2. Contract!Close(d)
    BY <1>2, <2>1 DEF PeerCloses, Contract!Close, Contract!Running, Outcome
  <2> QED BY <2>2 DEF Contract!ContractNext
<1>3. CASE PeerTakes(d)
  BY <1>3, QuietSteps DEF PeerTakes
<1> QED BY <1>1, <1>2, <1>3

(* bidi_copy_buf implements RelayContract, for every buffer size, window and
   number of bytes, and however reads and writes are cut: bytes are delivered in
   order, an end is passed on behind the last of them, and Ok means the end of
   both directions, or of at least one in a build with brutal-shutdown. *)
THEOREM BidiCopyKeepsContract == Spec => KeepsContract
<1>1. Init => Contract!ContractInit
  <2> SUFFICES ASSUME Init PROVE Contract!ContractInit
    OBVIOUS
  <2>1. Delivered = [d \in Dirs |-> Contract!FirstBytes(0)]
    <3>1. IInv /\ \A d \in Dirs : flushed[d] = 0
      BY InitEstablishes DEF Init
    <3> QED BY <3>1, DeliveredAre
  <2>2. Outcome = [kind |-> "none", count |-> [d \in Dirs |-> 0]]
    BY DEF Init, Outcome, Dirs
  <2> QED BY <2>1, <2>2 DEF Init, Contract!ContractInit
<1>2. IInv /\ [Next]_vars => [Contract!ContractNext]_(Contract!contractVars)
  <2> SUFFICES ASSUME IInv, [Next]_vars, IInv'
               PROVE  [Contract!ContractNext]_(Contract!contractVars)
    BY StepKeeps
  <2>1. CASE UNCHANGED vars \/ Terminated
    BY <2>1, QuietSteps DEF Terminated, vars, peerVars
  <2>2. CASE \E d \in Dirs : Transfer(d) \/ Fail(d)
    BY <2>2, TransferRefines
  <2>3. CASE Return
    BY <2>3, ReturnRefines
  <2>4. CASE \E d \in Dirs : PeerSends(d) \/ PeerCloses(d) \/ PeerTakes(d)
    BY <2>4, PeersRefine
  <2> QED BY <2>1, <2>2, <2>3, <2>4 DEF Next
<1> QED
  BY <1>1, <1>2, Invariance, PTL DEF Spec, KeepsContract, Contract!ContractSpec
===============================================================================

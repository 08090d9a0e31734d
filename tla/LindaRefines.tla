----------------------------- MODULE LindaRefines -----------------------------
(***************************************************************************)
(* Proof that Linda.tla implements LindaQueue.tla: whatever the threads do *)
(* around it, every linda call takes effect in one step, and that step is  *)
(* an operation on first-in first-out queues. The invariant is that of     *)
(* LindaProofs; what is new is what the operators on fifos do to the       *)
(* queue of values that a fifo stands for.                                 *)
(***************************************************************************)
EXTENDS LindaProofs

\* The values of a fifo, oldest first, as the users of the linda see them.
Contents(f) == fromKeeper(fifo_peek(f, f.count))

UserVal == Val \cup {Nil}
FromSlot(v) == IF v = NilSentinel THEN Nil ELSE v

-------------------------------------------------------------------------------
(* The operators on fifos, seen as operations on queues *)

\* fifo_peek() and the exchange of the sentinel give the values in the slots
\* from first on, in order.
LEMMA PeekIs ==
  ASSUME NEW f, FifoOK(f), NEW n \in 0..f.count
  PROVE  /\ fromKeeper(fifo_peek(f, n)) \in Seq(UserVal)
         /\ Len(fromKeeper(fifo_peek(f, n))) = n
         /\ \A i \in 1..n : fromKeeper(fifo_peek(f, n))[i] = FromSlot(f.tab[f.first + i - 1])
<1>1. /\ f.count \in Nat /\ f.first \in Nat \ {0} /\ n \in Nat
      /\ DOMAIN f.tab = f.first..(f.first + f.count - 1)
      /\ \A i \in DOMAIN f.tab : f.tab[i] \in Stored
  BY DEF FifoOK, FifoType, Stored
<1>2. \A i \in 1..n : f.first + i - 1 \in DOMAIN f.tab
  BY <1>1
<1>3. fifo_peek(f, n) = [i \in 1..n |-> f.tab[f.first + i - 1]]
  BY <1>2 DEF fifo_peek
<1>4. DOMAIN fifo_peek(f, n) = 1..n /\ \A i \in 1..n : fifo_peek(f, n)[i] = f.tab[f.first + i - 1]
  BY <1>3
<1>5. fromKeeper(fifo_peek(f, n)) = [i \in 1..n |-> FromSlot(f.tab[f.first + i - 1])]
  BY <1>4 DEF fromKeeper, FromSlot
<1>6. \A i \in 1..n : FromSlot(f.tab[f.first + i - 1]) \in UserVal
  BY <1>1, <1>2 DEF FromSlot, UserVal, Stored
<1>7. fromKeeper(fifo_peek(f, n)) \in [1..n -> UserVal]
  BY <1>5, <1>6
<1>8. /\ fromKeeper(fifo_peek(f, n)) \in Seq(UserVal)
      /\ Len(fromKeeper(fifo_peek(f, n))) = n
  BY <1>1, <1>7
<1> QED BY <1>5, <1>8

\* What a fifo holds.
LEMMA ContentsIs ==
  ASSUME NEW f, FifoOK(f)
  PROVE  /\ Contents(f) \in Seq(UserVal) /\ Len(Contents(f)) = f.count /\ f.count \in Nat
         /\ \A i \in 1..f.count : Contents(f)[i] = FromSlot(f.tab[f.first + i - 1])
<1>1. f.count \in 0..f.count /\ f.count \in Nat BY DEF FifoOK, FifoType
<1> QED BY <1>1, PeekIs DEF Contents

\* A new fifo is empty.
LEMMA ContentsNew == Contents(fifo_new) = <<>>
<1>1. Len(Contents(fifo_new)) = 0 /\ Contents(fifo_new) \in Seq(UserVal)
  BY NewShape, ContentsIs DEF fifo_new
<1> QED BY <1>1

\* The limit does not matter to what a fifo holds.
LEMMA ContentsLimit ==
  ASSUME NEW f, FifoOK(f), NEW n
  PROVE  Contents([f EXCEPT !.limit = n]) = Contents(f)
<1>1. /\ [f EXCEPT !.limit = n].count = f.count
      /\ [f EXCEPT !.limit = n].first = f.first
      /\ [f EXCEPT !.limit = n].tab = f.tab
  BY DEF FifoOK, FifoType
<1> QED BY <1>1 DEF Contents, fifo_peek

\* fifo_peek() of n values gives the n oldest.
LEMMA PeekFront ==
  ASSUME NEW f, FifoOK(f), NEW n \in 0..f.count
  PROVE  fromKeeper(fifo_peek(f, n)) = SubSeq(Contents(f), 1, n)
<1> DEFINE p == fromKeeper(fifo_peek(f, n))
           q == SubSeq(Contents(f), 1, n)
<1>1. f.count \in Nat /\ n \in Nat /\ n <= f.count BY DEF FifoOK, FifoType
<1>2. p \in Seq(UserVal) /\ Len(p) = n /\ \A i \in 1..n : p[i] = FromSlot(f.tab[f.first + i - 1])
  BY PeekIs
<1>3. /\ Contents(f) \in Seq(UserVal) /\ Len(Contents(f)) = f.count
      /\ \A i \in 1..f.count : Contents(f)[i] = FromSlot(f.tab[f.first + i - 1])
  BY ContentsIs
<1>4. q \in Seq(UserVal) /\ Len(q) = n /\ \A i \in 1..n : q[i] = Contents(f)[i]
  BY <1>1, <1>3
<1>5. \A i \in 1..n : p[i] = q[i]
  BY <1>1, <1>2, <1>3, <1>4
<1> HIDE DEF p, q
<1>6. p = q BY <1>2, <1>4, <1>5, SeqEqual
<1> QED BY <1>6 DEF p, q

\* fifo_pop() takes the n oldest away.
LEMMA PopDrops ==
  ASSUME NEW f, FifoOK(f), NEW n \in 0..f.count
  PROVE  Contents(fifo_pop(f, n)) = SubSeq(Contents(f), n + 1, Len(Contents(f)))
<1> DEFINE g == fifo_pop(f, n)
           q == SubSeq(Contents(f), n + 1, f.count)
<1>1. /\ f.count \in Nat /\ n \in Nat /\ n <= f.count /\ f.first \in Nat \ {0}
      /\ DOMAIN f.tab = f.first..(f.first + f.count - 1)
  BY DEF FifoOK, FifoType
<1>2. FifoOK(g) BY PopShape
<1>3. /\ Contents(f) \in Seq(UserVal) /\ Len(Contents(f)) = f.count
      /\ \A i \in 1..f.count : Contents(f)[i] = FromSlot(f.tab[f.first + i - 1])
  BY ContentsIs
<1>4. g.count = f.count - n BY PopCount
<1>5. /\ Contents(g) \in Seq(UserVal) /\ Len(Contents(g)) = f.count - n
      /\ \A i \in 1..(f.count - n) : Contents(g)[i] = FromSlot(g.tab[g.first + i - 1])
  BY <1>2, <1>4, ContentsIs
<1>6. /\ q \in Seq(UserVal) /\ Len(q) = f.count - n
      /\ \A i \in 1..(f.count - n) : q[i] = Contents(f)[n + i]
  BY <1>1, <1>3
<1>7. ASSUME NEW i \in 1..(f.count - n) PROVE g.tab[g.first + i - 1] = f.tab[f.first + (n + i) - 1]
  <2>1. f.count # n BY <1>1
  <2>2. g.first = f.first + n BY <2>1 DEF fifo_pop, FifoOK, FifoType
  <2>3. g.tab = Restrict(f.tab, DOMAIN f.tab \ (f.first..(f.first + n - 1)))
    BY DEF fifo_pop, FifoOK, FifoType
  <2>4. f.first + (n + i) - 1 \in DOMAIN f.tab \ (f.first..(f.first + n - 1))
    BY <1>1
  <2>5. g.first + i - 1 = f.first + (n + i) - 1 BY <1>1, <2>2
  <2> QED BY <2>3, <2>4, <2>5 DEF Restrict
<1>8. ASSUME NEW i \in 1..(f.count - n) PROVE Contents(g)[i] = q[i]
  <2>1. n + i \in 1..f.count BY <1>1
  <2>2. Contents(f)[n + i] = FromSlot(f.tab[f.first + (n + i) - 1]) BY <1>3, <2>1
  <2>3. Contents(g)[i] = FromSlot(g.tab[g.first + i - 1]) BY <1>5
  <2> QED BY <1>6, <1>7, <2>2, <2>3
<1> HIDE DEF g, q
<1>9. Contents(g) = q BY <1>5, <1>6, <1>8, SeqEqual
<1> QED BY <1>3, <1>9 DEF g, q

\* fifo_push() appends the values, and the two exchanges of the nil sentinel
\* undo each other.
LEMMA PushAppends ==
  ASSUME NEW f, FifoOK(f), NEW t,
         NEW vs \in Seq(Val \cup {Nil, Unsupported}), Copyable(t, vs)
  PROVE  Contents(fifo_push(f, toKeeper(vs))) = Contents(f) \o vs
<1> DEFINE ws == toKeeper(vs)
           g == fifo_push(f, ws)
           q == Contents(f) \o vs
           m == f.count + Len(vs)
<1>1. /\ f.count \in Nat /\ f.first \in Nat \ {0} /\ Len(vs) \in Nat /\ DOMAIN vs = 1..Len(vs)
      /\ DOMAIN f.tab = f.first..(f.first + f.count - 1)
  BY DEF FifoOK, FifoType
<1>2. ws \in Seq(Stored) /\ Len(ws) = Len(vs) BY ToKeeper
<1>3. \A i \in 1..Len(vs) : vs[i] \in UserVal /\ FromSlot(ws[i]) = vs[i] /\ ws[i] # Nil
  BY <1>1, SentinelsDistinct DEF toKeeper, FromSlot, UserVal, Copyable
<1>4. vs \in Seq(UserVal)
  BY <1>1, <1>3
<1>5. FifoOK(g) BY <1>2, PushShape
<1>6. /\ Contents(f) \in Seq(UserVal) /\ Len(Contents(f)) = f.count
      /\ \A i \in 1..f.count : Contents(f)[i] = FromSlot(f.tab[f.first + i - 1])
  BY ContentsIs
<1>7. g.count = m BY <1>2, PushCount
<1>8. /\ Contents(g) \in Seq(UserVal) /\ Len(Contents(g)) = m
      /\ \A i \in 1..m : Contents(g)[i] = FromSlot(g.tab[g.first + i - 1])
  BY <1>5, <1>7, ContentsIs
<1>9. /\ q \in Seq(UserVal) /\ Len(q) = m
      /\ \A i \in 1..m : q[i] = IF i <= f.count THEN Contents(f)[i] ELSE vs[i - f.count]
  <2>1. PICK c \in Seq(UserVal) : c = Contents(f) BY <1>6
  <2>2. c \o vs \in Seq(UserVal) BY <1>4
  <2>3. Len(c \o vs) = Len(c) + Len(vs) BY <1>4
  <2>4. \A i \in 1..(Len(c) + Len(vs)) :
          (c \o vs)[i] = IF i <= Len(c) THEN c[i] ELSE vs[i - Len(c)]
    BY <1>4
  <2>5. Len(c) = f.count BY <1>6, <2>1
  <2> QED BY <2>1, <2>2, <2>3, <2>4, <2>5
<1> DEFINE start == f.first + f.count - 1
           new == (start + 1)..(start + Len(ws))
           full == {j \in new : ws[j - start] # Nil}
           tab == [j \in (DOMAIN f.tab \ new) \cup full |->
                     IF j \in full THEN ws[j - start] ELSE f.tab[j]]
<1>10. g.first = f.first /\ g.tab = tab
  BY DEF fifo_push, storeAfter, FifoOK, FifoType
<1>11. ASSUME NEW i \in 1..m PROVE Contents(g)[i] = q[i]
  <2>1. CASE i <= f.count
    <3>1. f.first + i - 1 \in DOMAIN f.tab \ new BY <1>1, <1>2, <2>1
    <3>2. f.first + i - 1 \notin full BY <3>1
    <3>3. tab[f.first + i - 1] = f.tab[f.first + i - 1] BY <3>1, <3>2
    <3>4. g.tab[g.first + i - 1] = f.tab[f.first + i - 1] BY <1>10, <3>3
    <3>5. i \in 1..f.count BY <1>1, <2>1
    <3> QED BY <1>6, <1>8, <1>9, <2>1, <3>4, <3>5
  <2>2. CASE ~(i <= f.count)
    <3>1. i - f.count \in 1..Len(vs) BY <1>1, <2>2
    <3>2. f.first + i - 1 \in new /\ (f.first + i - 1) - start = i - f.count
      BY <1>1, <1>2, <2>2
    <3>3. f.first + i - 1 \in full BY <1>3, <3>1, <3>2
    <3>4. tab[f.first + i - 1] = ws[i - f.count] BY <3>2, <3>3
    <3>5. g.tab[g.first + i - 1] = ws[i - f.count] BY <1>10, <3>4
    <3>6. FromSlot(ws[i - f.count]) = vs[i - f.count] BY <1>3, <3>1
    <3> QED BY <1>8, <1>9, <2>2, <3>5, <3>6
  <2> QED BY <2>1, <2>2
<1> HIDE DEF g, q, m
<1>12. Contents(g) = q BY <1>8, <1>9, <1>11, SeqEqual
<1> QED BY <1>12 DEF g, q

-------------------------------------------------------------------------------
(* The mapping *)

QueueMap == [k \in Key |-> Queue(k)]
LimitMap == [k \in Key |-> Capacity(fifoOf(k).limit)]

\* A step of the abstract linda, or none.
QueueStep == [Abs!QueueNext]_<<QueueMap, LimitMap, ret>>

\* What the mapping makes of a key.
LEMMA MapIs ==
  ASSUME FifosOK(fifos), NEW k \in Key
  PROVE  /\ QueueMap[k] = Contents(fifoOf(k)) /\ LimitMap[k] = Capacity(fifoOf(k).limit)
         /\ FifoOK(fifoOf(k)) /\ Len(QueueMap[k]) = fifoOf(k).count
         /\ fifoOf(k).count \in Nat /\ fifoOf(k).limit \in Int
         /\ QueueMap[k] \in Seq(UserVal)
<1>1. FifoOK(fifoOf(k)) BY FifoOfShape
<1>2. QueueMap[k] = Contents(fifoOf(k)) /\ LimitMap[k] = Capacity(fifoOf(k).limit)
  BY DEF QueueMap, LimitMap, Queue, Contents
<1> QED BY <1>1, <1>2, ContentsIs DEF FifoOK, FifoType

\* The mapping follows the fifos.
LEMMA MapSame ==
  ASSUME \A k \in Key : fifoOf(k)' = fifoOf(k)
  PROVE  QueueMap' = QueueMap /\ LimitMap' = LimitMap
  BY DEF QueueMap, LimitMap, Queue

\* It stays when the fifos do.
LEMMA MapFifosSame ==
  ASSUME fifos' = fifos
  PROVE  QueueMap' = QueueMap /\ LimitMap' = LimitMap
<1>1. \A k \in Key : fifoOf(k)' = fifoOf(k) BY DEF fifoOf
<1> QED BY <1>1, MapSame

\* It changes at one key when the fifo of that key does.
LEMMA MapOne ==
  ASSUME NEW k \in Key, NEW f, \A j \in Key : fifoOf(j)' = IF j = k THEN f ELSE fifoOf(j)
  PROVE  /\ QueueMap' = [QueueMap EXCEPT ![k] = Contents(f)]
         /\ LimitMap' = [LimitMap EXCEPT ![k] = Capacity(f.limit)]
<1>1. \A j \in Key : QueueMap'[j] = IF j = k THEN Contents(f) ELSE QueueMap[j]
  BY DEF QueueMap, Queue, Contents
<1>2. \A j \in Key : LimitMap'[j] = IF j = k THEN Capacity(f.limit) ELSE LimitMap[j]
  BY DEF LimitMap
<1>3. QueueMap' = [j \in Key |-> QueueMap'[j]] /\ QueueMap = [j \in Key |-> QueueMap[j]]
  BY DEF QueueMap
<1>4. LimitMap' = [j \in Key |-> LimitMap'[j]] /\ LimitMap = [j \in Key |-> LimitMap[j]]
  BY DEF LimitMap
<1>5. QueueMap' = [QueueMap EXCEPT ![k] = Contents(f)] BY <1>1, <1>3
<1>6. LimitMap' = [LimitMap EXCEPT ![k] = Capacity(f.limit)] BY <1>2, <1>4
<1> QED BY <1>5, <1>6

\* A function with one value replaced by what it was.
LEMMA LimitUntouched ==
  ASSUME NEW k \in Key, NEW n, LimitMap' = [LimitMap EXCEPT ![k] = n], LimitMap[k] = n
  PROVE  LimitMap' = LimitMap
  BY DEF LimitMap

\* The calls of the threads carry batches and limits of the abstract linda.
LEMMA CallBatch ==
  ASSUME IInv, NEW t \in Thread, pc[t] = "try"
  PROVE  call[t] \in UNION Range(Calls)
<1>1. call[t] \in Calls[t] BY DEF IInv, CallOK
<1>2. t \in DOMAIN Calls BY CallsWellFormed DEF Thread
<1> QED BY <1>1, <1>2 DEF Range

-------------------------------------------------------------------------------
(* The steps *)

\* A step that changes neither the fifos nor the results.
LEMMA Stutter ==
  ASSUME \A k \in Key : fifoOf(k)' = fifoOf(k), ret' = ret
  PROVE  QueueStep
  BY MapSame DEF QueueStep

\* A call that has no effect, or that is over.
LEMMA NoEffect ==
  ASSUME NEW t \in Thread, \A k \in Key : fifoOf(k)' = fifoOf(k),
         \/ ret' = [ret EXCEPT ![t] = <<"nothing">>]
         \/ ret' = [ret EXCEPT ![t] = NoResult]
  PROVE  QueueStep
<1>1. QueueMap' = QueueMap /\ LimitMap' = LimitMap BY MapSame
<1>2. Abs!Refuse(t) \/ Abs!Forget(t)
  BY <1>1 DEF Abs!Refuse, Abs!Forget, Abs!Returns, Abs!NoResult, NoResult, QueueMap, LimitMap
<1> QED BY <1>2 DEF QueueStep, Abs!QueueNext

\* A blocked call stutters or gives up.
LEMMA BlockedStep ==
  ASSUME NEW t \in Thread, \A k \in Key : fifoOf(k)' = fifoOf(k), Blocked(t)
  PROVE  QueueStep
  BY Stutter, NoEffect DEF Blocked, Finish

\* So does an error before anything has changed.
LEMMA RaiseStutters ==
  ASSUME NEW t \in Thread, fifos' = fifos, Raise(t)
  PROVE  QueueStep
  BY Stutter DEF Raise, fifoOf

\* send()
LEMMA SendQueue ==
  ASSUME IInv, NEW t \in Thread, Send(t)
  PROVE  QueueStep
<1> DEFINE c == call[t]
           f == fifoOf(c.key)
<1>1. pc[t] = "try" /\ c.f = "send" BY DEF Send, InCall
<1>2. c.key \in Key /\ c.vals \in Seq(Val \cup {Nil, Unsupported})
  BY <1>1, InCallWellFormed DEF WellFormed
<1>3. FifosOK(fifos) BY DEF IInv
<1>4. CASE fifos' = fifos /\ Finish(t, <<"nothing">>)
  BY <1>4, NoEffect DEF Finish, fifoOf
<1>5. CASE fifos' = fifos /\ (Blocked(t) \/ Raise(t))
  BY <1>5, BlockedStep, RaiseStutters DEF fifoOf
<1>6. CASE /\ Copyable(t, c.vals)
           /\ Accepts(f, Len(c.vals))
           /\ fifos' = withFifo(c.key, fifo_push(f, toKeeper(c.vals)))
           /\ Finish(t, <<"sent">>)
  <2>1. PICK k : k = c.key OBVIOUS
  <2>2. PICK vs : vs = c.vals OBVIOUS
  <2>3. /\ QueueMap[k] = Contents(f) /\ LimitMap[k] = Capacity(f.limit) /\ FifoOK(f)
        /\ Len(QueueMap[k]) = f.count /\ f.count \in Nat /\ f.limit \in Int
    BY <1>2, <1>3, <2>1, MapIs
  <2>4. PICK g : g = fifo_push(f, toKeeper(vs)) OBVIOUS
  <2>5. Contents(g) = QueueMap[k] \o vs
    BY <1>2, <1>6, <2>2, <2>3, <2>4, PushAppends
  <2>6. g.limit = f.limit
    BY <1>2, <1>6, <2>2, <2>3, <2>4, ToKeeper, PushCount
  <2>7. \A j : fifoOf(j)' = IF j = k THEN g ELSE fifoOf(j)
    BY <1>6, <2>1, <2>2, <2>4, FifoOfWith
  <2>8. /\ QueueMap' = [QueueMap EXCEPT ![k] = Contents(g)]
        /\ LimitMap' = [LimitMap EXCEPT ![k] = Capacity(g.limit)]
    BY <1>2, <2>1, <2>7, MapOne
  <2>9. LimitMap' = LimitMap
    BY <1>2, <2>1, <2>3, <2>6, <2>8, LimitUntouched
  <2>10. QueueMap' = [QueueMap EXCEPT ![k] = QueueMap[k] \o vs]
    BY <2>5, <2>8
  <2>11. LimitMap[k] < 0 \/ Len(QueueMap[k]) + Len(vs) <= LimitMap[k]
    <3>1. Len(vs) \in Nat BY <1>2, <2>2
    <3>2. f.limit < 0 \/ f.count + Len(vs) <= f.limit
      BY <1>6, <2>2, <2>3, <3>1 DEF Accepts
    <3> QED BY <2>3, <3>1, <3>2 DEF Capacity
  <2>12. ret' = [ret EXCEPT ![t] = <<"sent">>] BY <1>6 DEF Finish
  <2>13. Abs!Send(t, k, vs)
    BY <2>9, <2>10, <2>11, <2>12 DEF Abs!Send, Abs!Room, Abs!Returns, QueueMap, LimitMap
  <2>14. vs \in {d.vals : d \in {e \in UNION Range(Calls) : e.f \in {"send", "set"}}}
    BY <1>1, <2>2, CallBatch
  <2> QED BY <1>2, <2>1, <2>13, <2>14 DEF QueueStep, Abs!QueueNext
<1> QED BY <1>4, <1>5, <1>6 DEF Send

\* What receive() and a batched receive() take: n values of key k.
LEMMA TakeQueue ==
  ASSUME FifosOK(fifos), NEW t \in Thread, NEW k \in Key, NEW n \in 1..fifoOf(k).count,
         \A j \in Key : fifoOf(j)' = IF j = k THEN fifo_pop(fifoOf(k), n) ELSE fifoOf(j),
         ret' = [ret EXCEPT ![t] = <<"received", k>> \o fromKeeper(fifo_peek(fifoOf(k), n))]
  PROVE  QueueStep
<1>1. /\ QueueMap[k] = Contents(fifoOf(k)) /\ LimitMap[k] = Capacity(fifoOf(k).limit)
      /\ FifoOK(fifoOf(k)) /\ Len(QueueMap[k]) = fifoOf(k).count /\ fifoOf(k).count \in Nat
  BY MapIs
<1>2. n \in 0..fifoOf(k).count BY <1>1
<1>3. PICK g : g = fifo_pop(fifoOf(k), n) OBVIOUS
<1>4. Contents(g) = SubSeq(QueueMap[k], n + 1, Len(QueueMap[k]))
  BY <1>1, <1>2, <1>3, PopDrops
<1>5. g.limit = fifoOf(k).limit BY <1>1, <1>3, PopCount
<1>6. /\ QueueMap' = [QueueMap EXCEPT ![k] = Contents(g)]
      /\ LimitMap' = [LimitMap EXCEPT ![k] = Capacity(g.limit)]
  BY <1>3, MapOne
<1>7. LimitMap' = LimitMap BY <1>1, <1>5, <1>6, LimitUntouched
<1>8. QueueMap' = [QueueMap EXCEPT ![k] = SubSeq(QueueMap[k], n + 1, Len(QueueMap[k]))]
  BY <1>4, <1>6
<1>9. ret' = [ret EXCEPT ![t] = <<"received", k>> \o SubSeq(QueueMap[k], 1, n)]
  BY <1>1, <1>2, PeekFront
<1>10. n \in 1..Len(QueueMap[k]) /\ n \in 0..Len(QueueMap[k]) BY <1>1
<1>11. Abs!ReceiveBatched(t, k, n)
  BY <1>7, <1>8, <1>9, <1>10
     DEF Abs!ReceiveBatched, Abs!Drop, Abs!Front, Abs!Returns, QueueMap, LimitMap
<1>12. \E m \in 0..Len(QueueMap[k]) : Abs!ReceiveBatched(t, k, m)
  BY <1>10, <1>11
<1> QED BY <1>12 DEF QueueStep, Abs!QueueNext, QueueMap

\* When the copy out of the keeper raises an error, the values are gone.
LEMMA LoseQueue ==
  ASSUME FifosOK(fifos), NEW t \in Thread, NEW k \in Key, NEW n \in 1..fifoOf(k).count,
         \A j \in Key : fifoOf(j)' = IF j = k THEN fifo_pop(fifoOf(k), n) ELSE fifoOf(j),
         CopyRaises(t, fifo_peek(fifoOf(k), n)), Raise(t)
  PROVE  QueueStep
<1>1. /\ QueueMap[k] = Contents(fifoOf(k)) /\ LimitMap[k] = Capacity(fifoOf(k).limit)
      /\ FifoOK(fifoOf(k)) /\ Len(QueueMap[k]) = fifoOf(k).count /\ fifoOf(k).count \in Nat
  BY MapIs
<1>2. n \in 0..fifoOf(k).count BY <1>1
<1>3. PICK g : g = fifo_pop(fifoOf(k), n) OBVIOUS
<1>4. Contents(g) = SubSeq(QueueMap[k], n + 1, Len(QueueMap[k]))
  BY <1>1, <1>2, <1>3, PopDrops
<1>5. g.limit = fifoOf(k).limit BY <1>1, <1>3, PopCount
<1>6. /\ QueueMap' = [QueueMap EXCEPT ![k] = Contents(g)]
      /\ LimitMap' = [LimitMap EXCEPT ![k] = Capacity(g.limit)]
  BY <1>3, MapOne
<1>7. LimitMap' = LimitMap BY <1>1, <1>5, <1>6, LimitUntouched
<1>8. QueueMap' = [QueueMap EXCEPT ![k] = SubSeq(QueueMap[k], n + 1, Len(QueueMap[k]))]
  BY <1>4, <1>6
<1>9. n \in 1..Len(QueueMap[k]) /\ n \in 0..Len(QueueMap[k]) BY <1>1
<1>10. \E i \in 1..n : QueueMap[k][i] \in Foreign[t]
  <2>1. PICK f : f = fifoOf(k) OBVIOUS
  <2>2. DOMAIN fifo_peek(f, n) = 1..n BY DEF fifo_peek
  <2>3. PICK i \in 1..n : fifo_peek(f, n)[i] \in Foreign[t]
    BY <2>1, <2>2 DEF CopyRaises
  <2>4. i \in 1..f.count BY <1>1, <2>1
  <2>5. f.first + i - 1 \in DOMAIN f.tab
    BY <1>1, <2>1, <2>4 DEF FifoOK, FifoType
  <2>6. fifo_peek(f, n)[i] = f.tab[f.first + i - 1]
    BY <2>5 DEF fifo_peek
  <2>7. QueueMap[k][i] = FromSlot(f.tab[f.first + i - 1])
    BY <1>1, <2>1, <2>4, ContentsIs
  <2>8. Foreign[t] \subseteq Val BY ForeignValues DEF Thread
  <2>9. FromSlot(f.tab[f.first + i - 1]) = f.tab[f.first + i - 1]
    BY <2>3, <2>6, <2>8, SentinelsDistinct DEF FromSlot
  <2> QED BY <2>3, <2>6, <2>7, <2>9
<1>11. Abs!Lose(t, k, n)
  BY <1>7, <1>8, <1>9, <1>10 DEF Abs!Lose, Abs!Drop, Raise, QueueMap, LimitMap
<1>12. \E m \in 0..Len(QueueMap[k]) : Abs!Lose(t, k, m)
  BY <1>9, <1>11
<1> QED BY <1>12 DEF QueueStep, Abs!QueueNext, QueueMap

\* receive(): of the keys in its list only the one it answers with is popped.
LEMMA ReceiveQueue ==
  ASSUME IInv, NEW t \in Thread, Receive(t)
  PROVE  QueueStep
<1> DEFINE ks == call[t].keys
           hits == {i \in DOMAIN ks : HasData(ks[i]) /\ Oldest(ks[i]) # Nil}
           pop(i) == [k \in DOMAIN fifos |->
                        IF HasData(k) /\ \E j \in 1..i : ks[j] = k
                        THEN fifo_pop(fifos[k], 1) ELSE fifos[k]]
<1>1. pc[t] = "try" /\ call[t].f = "receive" BY DEF Receive, InCall
<1>2. ks \in Seq(Key) /\ Len(ks) \in Nat /\ DOMAIN ks = 1..Len(ks)
  BY <1>1, InCallWellFormed DEF WellFormed
<1>3. FifosOK(fifos) BY DEF IInv
<1>4. \A k \in DOMAIN fifos : FifoOK(fifos[k]) BY <1>3 DEF FifosOK
<1>5. \A k \in DOMAIN fifos : HasData(k) => Oldest(k) # Nil
  <2> SUFFICES ASSUME NEW k \in DOMAIN fifos, HasData(k) PROVE Oldest(k) # Nil
    OBVIOUS
  <2>1. fifos[k].first \in DOMAIN fifos[k].tab
    BY <1>4 DEF HasData, FifoOK, FifoType
  <2>2. Oldest(k) = fifos[k].tab[fifos[k].first]
    BY <1>4, <2>1 DEF Oldest, fifo_peek, FifoOK, FifoType
  <2>3. fifos[k].tab[fifos[k].first] \in Stored
    BY <1>4, <2>1 DEF FifoOK, FifoType, Stored
  <2> QED BY <2>2, <2>3, SentinelsDistinct DEF Stored
<1>6. \A i \in DOMAIN ks : HasData(ks[i]) => i \in hits
  BY <1>5 DEF HasData
<1>7. CASE hits = {} /\ fifos' = pop(Len(ks)) /\ Blocked(t)
  <2>1. \A k \in DOMAIN fifos : pop(Len(ks))[k] = fifos[k]
    BY <1>2, <1>6, <1>7
  <2>2. \A k \in Key : fifoOf(k)' = fifoOf(k)
    BY <1>7, <2>1 DEF fifoOf
  <2> QED BY <1>7, <2>2, BlockedStep
<1>8. ASSUME NEW i \in hits, \A j \in hits : i <= j, fifos' = pop(i),
             Deliver(t, <<"received", ks[i]>>, <<Oldest(ks[i])>>)
      PROVE  QueueStep
  <2>1. PICK k : k = ks[i] OBVIOUS
  <2>2. i \in 1..Len(ks) /\ k \in Key /\ k \in DOMAIN fifos /\ HasData(k)
    BY <1>2, <1>8, <2>1 DEF HasData
  <2>3. \A j \in 1..i : HasData(ks[j]) => j = i
    <3> SUFFICES ASSUME NEW j \in 1..i, HasData(ks[j]) PROVE j = i
      OBVIOUS
    <3>1. j \in DOMAIN ks BY <1>2, <2>2
    <3>2. j \in hits BY <1>6, <3>1
    <3>3. i <= j BY <1>8, <3>2
    <3> QED BY <2>2, <3>3
  <2>4. i \in 1..i BY <2>2
  <2>5. \A m \in DOMAIN fifos : pop(i)[m] = IF m = k THEN fifo_pop(fifos[k], 1) ELSE fifos[m]
    BY <2>1, <2>2, <2>3, <2>4
  <2>6. fifoOf(k) = fifos[k] BY <2>2 DEF fifoOf
  <2>7. \A j \in Key : fifoOf(j)' = IF j = k THEN fifo_pop(fifoOf(k), 1) ELSE fifoOf(j)
    <3>1. DOMAIN fifos' = DOMAIN fifos BY <1>8
    <3>2. \A m \in DOMAIN fifos : fifos'[m] = IF m = k THEN fifo_pop(fifos[k], 1) ELSE fifos[m]
      BY <1>8, <2>5
    <3> QED BY <2>2, <2>6, <3>1, <3>2 DEF fifoOf
  <2>8. 1 \in 1..fifoOf(k).count
    BY <1>4, <2>2, <2>6 DEF HasData, FifoOK, FifoType
  <2>9. fifo_peek(fifoOf(k), 1) = <<Oldest(k)>>
    BY <2>6 DEF Oldest, fifo_peek
  <2>10. CASE CopyRaises(t, fifo_peek(fifoOf(k), 1))
    <3>1. Raise(t) BY <1>8, <2>1, <2>9, <2>10 DEF Deliver
    <3> QED BY <1>3, <2>2, <2>7, <2>8, <2>10, <3>1, LoseQueue
  <2>11. CASE ~CopyRaises(t, fifo_peek(fifoOf(k), 1))
    <3>1. ret' = [ret EXCEPT ![t] = <<"received", k>> \o fromKeeper(fifo_peek(fifoOf(k), 1))]
      BY <1>8, <2>1, <2>9, <2>11 DEF Deliver, Finish
    <3> QED BY <1>3, <2>2, <2>7, <2>8, <3>1, TakeQueue
  <2> QED BY <2>10, <2>11
<1> QED BY <1>7, <1>8 DEF Receive

\* A batched receive() takes between min and max values of its key.
LEMMA ReceiveBatchedQueue ==
  ASSUME IInv, NEW t \in Thread, ReceiveBatched(t)
  PROVE  QueueStep
<1> DEFINE c == call[t]
           f == fifoOf(c.key)
           n == IF c.max < f.count THEN c.max ELSE f.count
<1>1. pc[t] = "try" /\ c.f = "receive_batched" BY DEF ReceiveBatched, InCall
<1>2. c.key \in Key /\ c.min \in Int /\ c.max \in Int /\ c.min <= c.max
  BY <1>1, InCallWellFormed DEF WellFormed
<1>3. FifosOK(fifos) BY DEF IInv
<1>4. CASE Blocked(t) /\ fifos' = fifos
  BY <1>4, BlockedStep DEF fifoOf
<1>5. CASE /\ Enough(f, c.min)
           /\ fifos' = withFifo(c.key, fifo_pop(f, n))
           /\ Deliver(t, <<"received", c.key>>, fifo_peek(f, n))
  <2>1. FifoOK(f) BY <1>3, FifoOfShape
  <2>2. n \in 1..f.count BY <1>2, <1>5, <2>1 DEF Enough, FifoOK, FifoType
  <2>3. PICK m : m = n OBVIOUS
  <2>4. PICK k : k = c.key OBVIOUS
  <2>5. \A j : fifoOf(j)' = IF j = k THEN fifo_pop(fifoOf(k), m) ELSE fifoOf(j)
    BY <1>5, <2>3, <2>4, FifoOfWith
  <2>6. k \in Key /\ m \in 1..fifoOf(k).count BY <1>2, <2>2, <2>3, <2>4
  <2>7. CASE CopyRaises(t, fifo_peek(fifoOf(k), m))
    <3>1. Raise(t) BY <1>5, <2>3, <2>4, <2>7 DEF Deliver
    <3> QED BY <1>3, <2>5, <2>6, <2>7, <3>1, LoseQueue
  <2>8. CASE ~CopyRaises(t, fifo_peek(fifoOf(k), m))
    <3>1. ret' = [ret EXCEPT ![t] = <<"received", k>> \o fromKeeper(fifo_peek(fifoOf(k), m))]
      BY <1>5, <2>3, <2>4, <2>8 DEF Deliver, Finish
    <3> QED BY <1>3, <2>5, <2>6, <3>1, TakeQueue
  <2> QED BY <2>7, <2>8
<1> QED BY <1>4, <1>5 DEF ReceiveBatched

\* set(): the values replace what the key held, and its limit stays.
LEMMA SetQueue ==
  ASSUME IInv, NEW t \in Thread, Set(t)
  PROVE  QueueStep
<1> DEFINE c == call[t]
           f == fifoOf(c.key)
           new == fifo_push([fifo_new EXCEPT !.limit = f.limit], toKeeper(c.vals))
<1>1. pc[t] = "try" /\ c.f = "set" BY DEF Set, Refused, InCall
<1>2. c.key \in Key /\ c.vals \in Seq(Val \cup {Nil, Unsupported})
  BY <1>1, InCallWellFormed DEF WellFormed
<1>3. FifosOK(fifos) BY DEF IInv
<1>4. CASE fifos' = fifos /\ (Finish(t, <<"nothing">>) \/ Raise(t))
  BY <1>4, NoEffect, RaiseStutters DEF Finish, fifoOf
<1>5. CASE Copyable(t, c.vals) /\ fifos' = keepercall_set(c.key, c.vals) /\ Finish(t, <<"set">>)
  <2>1. PICK k : k = c.key OBVIOUS
  <2>2. PICK vs : vs = c.vals OBVIOUS
  <2>3. LimitMap[k] = Capacity(f.limit) /\ FifoOK(f) /\ f.limit \in Int
    BY <1>2, <1>3, <2>1, MapIs
  <2>4. \E g : /\ \A j \in Key : fifoOf(j)' = IF j = k THEN g ELSE fifoOf(j)
               /\ Contents(g) = vs /\ Capacity(g.limit) = Capacity(f.limit)
    <3>1. CASE vs = <<>> /\ (Unlimited(k) \/ k \notin DOMAIN fifos)
      <4>1. fifos' = Restrict(fifos, DOMAIN fifos \ {k})
        BY <1>5, <2>1, <2>2, <3>1 DEF keepercall_set
      <4>2. \A j : fifoOf(j)' = IF j = k THEN fifo_new ELSE fifoOf(j)
        BY <4>1 DEF fifoOf, Restrict
      <4>3. f.limit < 0
        BY <2>1, <3>1 DEF fifoOf, fifo_new, Unlimited
      <4>4. Capacity(fifo_new.limit) = Capacity(f.limit)
        BY <4>3 DEF Capacity, fifo_new
      <4> QED BY <3>1, <4>2, <4>4, ContentsNew
    <3>2. CASE ~(vs = <<>> /\ (Unlimited(k) \/ k \notin DOMAIN fifos))
      <4>1. fifos' = withFifo(k, new)
        BY <1>5, <2>1, <2>2, <3>2 DEF keepercall_set
      <4>2. \A j : fifoOf(j)' = IF j = k THEN new ELSE fifoOf(j)
        BY <4>1, FifoOfWith
      <4>3. PICK e : e = [fifo_new EXCEPT !.limit = f.limit] OBVIOUS
      <4>4. FifoOK(e) /\ e.limit = f.limit
        BY <2>3, <4>3, NewShape, LimitShape DEF fifo_new
      <4>5. Contents(e) = <<>> BY <4>3, NewShape, ContentsNew, ContentsLimit
      <4>6. Contents(new) = <<>> \o vs
        BY <1>2, <1>5, <2>2, <4>3, <4>4, <4>5, PushAppends
      <4>7. <<>> \o vs = vs BY <1>2, <2>2
      <4>8. new.limit = f.limit
        BY <1>2, <1>5, <4>3, <4>4, ToKeeper, PushCount
      <4> HIDE DEF new
      <4> QED BY <4>2, <4>6, <4>7, <4>8
    <3> QED BY <3>1, <3>2
  <2>5. PICK g : /\ \A j \in Key : fifoOf(j)' = IF j = k THEN g ELSE fifoOf(j)
                 /\ Contents(g) = vs /\ Capacity(g.limit) = Capacity(f.limit)
    BY <2>4
  <2>6. /\ QueueMap' = [QueueMap EXCEPT ![k] = vs]
        /\ LimitMap' = [LimitMap EXCEPT ![k] = Capacity(f.limit)]
    BY <1>2, <2>1, <2>5, MapOne
  <2>7. LimitMap' = LimitMap BY <1>2, <2>1, <2>3, <2>6, LimitUntouched
  <2>8. ret' = [ret EXCEPT ![t] = <<"set">>] BY <1>5 DEF Finish
  <2>9. Abs!Set(t, k, vs)
    BY <2>6, <2>7, <2>8 DEF Abs!Set, Abs!Returns, QueueMap, LimitMap
  <2>10. vs \in {d.vals : d \in {e \in UNION Range(Calls) : e.f \in {"send", "set"}}}
    BY <1>1, <2>2, CallBatch
  <2> QED BY <1>2, <2>1, <2>9, <2>10 DEF QueueStep, Abs!QueueNext
<1> QED BY <1>4, <1>5 DEF Set, Refused

\* limit(): the values stay.
LEMMA LimitQueue ==
  ASSUME IInv, NEW t \in Thread, Limit(t)
  PROVE  QueueStep
<1> DEFINE c == call[t]
           f == fifoOf(c.key)
<1>1. pc[t] = "try" /\ c.f = "limit" BY DEF Limit, Refused, InCall
<1>2. c.key \in Key /\ c.n \in Int BY <1>1, InCallWellFormed DEF WellFormed
<1>3. FifosOK(fifos) BY DEF IInv
<1>4. CASE fifos' = fifos /\ Finish(t, <<"nothing">>)
  BY <1>4, NoEffect DEF Finish, fifoOf
<1>5. CASE fifos' = withFifo(c.key, [f EXCEPT !.limit = c.n]) /\ Finish(t, <<"limit">>)
  <2>1. PICK k : k = c.key OBVIOUS
  <2>2. PICK n : n = Capacity(c.n) OBVIOUS
  <2>3. PICK g : g = [f EXCEPT !.limit = c.n] OBVIOUS
  <2>4. QueueMap[k] = Contents(f) /\ FifoOK(f) BY <1>2, <1>3, <2>1, MapIs
  <2>5. Contents(g) = QueueMap[k] /\ g.limit = c.n
    BY <2>3, <2>4, ContentsLimit DEF FifoOK, FifoType
  <2>6. \A j : fifoOf(j)' = IF j = k THEN g ELSE fifoOf(j)
    BY <1>5, <2>1, <2>3, FifoOfWith
  <2>7. /\ QueueMap' = [QueueMap EXCEPT ![k] = QueueMap[k]]
        /\ LimitMap' = [LimitMap EXCEPT ![k] = n]
    BY <1>2, <2>1, <2>2, <2>5, <2>6, MapOne
  <2>8. QueueMap' = QueueMap BY <2>7 DEF QueueMap
  <2>9. ret' = [ret EXCEPT ![t] = <<"limit">>] BY <1>5 DEF Finish
  <2>10. Abs!Limit(t, k, n)
    BY <2>7, <2>8, <2>9 DEF Abs!Limit, Abs!Returns, QueueMap, LimitMap
  <2>11. n \in {Capacity(d.n) : d \in {e \in UNION Range(Calls) : e.f = "limit"}}
    BY <1>1, <2>2, CallBatch
  <2> QED BY <1>2, <2>1, <2>10, <2>11 DEF QueueStep, Abs!QueueNext
<1> QED BY <1>4, <1>5 DEF Limit, Refused

\* get() answers with the oldest values, which stay.
LEMMA GetQueue ==
  ASSUME IInv, NEW t \in Thread, Get(t)
  PROVE  QueueStep
<1> DEFINE c == call[t]
           f == fifoOf(c.key)
           n == IF c.n < f.count THEN c.n ELSE f.count
<1>1. pc[t] = "try" /\ c.f = "get" BY DEF Get, Refused, InCall
<1>2. c.key \in Key /\ c.n \in Nat \ {0} BY <1>1, InCallWellFormed DEF WellFormed
<1>3. FifosOK(fifos) BY DEF IInv
<1>4. fifos' = fifos BY DEF Get, Refused
<1>5. CASE Finish(t, <<"nothing">>) \/ Raise(t)
  BY <1>4, <1>5, NoEffect, RaiseStutters DEF Finish, fifoOf
<1>6. CASE Finish(t, <<"got">> \o fromKeeper(fifo_peek(f, n)))
  <2>1. PICK k : k = c.key OBVIOUS
  <2>2. PICK m : m = n OBVIOUS
  <2>3. /\ QueueMap[k] = Contents(f) /\ FifoOK(f) /\ QueueMap[k] \in Seq(UserVal)
        /\ Len(QueueMap[k]) = f.count /\ f.count \in Nat
    BY <1>2, <1>3, <2>1, MapIs
  <2>4. m \in 0..f.count /\ (m = 0 => f.count = 0) BY <1>2, <2>2, <2>3
  <2>5. m \in 0..Len(QueueMap[k]) /\ (m = 0 => QueueMap[k] = <<>>) BY <2>3, <2>4
  <2>6. ret' = [ret EXCEPT ![t] = <<"got">> \o SubSeq(QueueMap[k], 1, m)]
    BY <1>6, <2>2, <2>3, <2>4, PeekFront DEF Finish
  <2>7. QueueMap' = QueueMap /\ LimitMap' = LimitMap BY <1>4, MapFifosSame
  <2>8. Abs!Get(t, k, m)
    BY <2>5, <2>6, <2>7 DEF Abs!Get, Abs!Front, Abs!Returns, QueueMap, LimitMap
  <2>9. \E i \in 0..Len(QueueMap[k]) : Abs!Get(t, k, i) BY <2>5, <2>8
  <2> QED BY <1>2, <2>1, <2>9 DEF QueueStep, Abs!QueueNext, QueueMap
<1> QED BY <1>5, <1>6 DEF Get, Refused, keepercall_get

\* count(): a key that the keeper does not know is empty and unlimited.
LEMMA CountQueue ==
  ASSUME IInv, NEW t \in Thread, Count(t)
  PROVE  QueueStep
<1>1. pc[t] = "try" /\ call[t].f = "count" BY DEF Count, InCall
<1>2. PICK ks : ks = call[t].keys OBVIOUS
<1>3. ks \subseteq Key BY <1>1, <1>2, InCallWellFormed DEF WellFormed
<1>4. FifosOK(fifos) /\ fifos' = fifos BY DEF IInv, Count
<1>5. PICK known : known = ks \cap DOMAIN fifos OBVIOUS
<1>6. \A k \in known : Len(QueueMap[k]) = fifos[k].count
  <2> TAKE k \in known
  <2>1. k \in Key /\ fifoOf(k) = fifos[k] BY <1>3, <1>5 DEF fifoOf
  <2> QED BY <1>4, <2>1, MapIs
<1>7. \A k \in ks \ known : QueueMap[k] = <<>> /\ LimitMap[k] < 0
  <2> TAKE k \in ks \ known
  <2>1. k \in Key /\ fifoOf(k) = fifo_new BY <1>3, <1>5 DEF fifoOf
  <2>2. QueueMap[k] = Contents(fifo_new) /\ LimitMap[k] = Capacity(fifo_new.limit)
    BY <1>4, <2>1, MapIs
  <2> QED BY <2>2, ContentsNew DEF Capacity, fifo_new
<1>8. keepercall_count(ks) = [k \in known |-> Len(QueueMap[k])]
  BY <1>5, <1>6 DEF keepercall_count
<1>9. ret' = [ret EXCEPT ![t] = <<"count", [k \in known |-> Len(QueueMap[k])]>>]
  BY <1>2, <1>8 DEF Count, Finish
<1>10. QueueMap' = QueueMap /\ LimitMap' = LimitMap BY <1>4, MapFifosSame
<1>11. known \in SUBSET ks BY <1>5
<1>12. Abs!Count(t, ks)
  BY <1>7, <1>9, <1>10, <1>11 DEF Abs!Count, Abs!Returns, QueueMap, LimitMap
<1> QED BY <1>3, <1>12 DEF QueueStep, Abs!QueueNext

\* The other steps change no fifo, and at most end the call.
LEMMA OtherQueue ==
  ASSUME NEW t \in Thread,
         \/ \E c \in Calls[t] : Call(t, c)
         \/ keeper_acquire(t) \/ keeper_release(t) \/ luaL_error(t) \/ Check(t) \/ Mark(t) \/ Sleep(t)
         \/ Timeout(t) \/ Spurious(t) \/ Wake(t)
         \/ cancelRequest(t) \/ cancelPeek(t) \/ cancelPoke(t) \/ Cancel(t) \/ Dump(t)
  PROVE  QueueStep
<1>1. fifos' = fifos
  BY DEF Call, keeper_acquire, keeper_release, luaL_error, Check, Mark, Sleep, Timeout, Spurious, Wake,
         cancelRequest, cancelPeek, cancelPoke, Cancel, Dump
<1>2. \/ ret' = ret
      \/ ret' = [ret EXCEPT ![t] = <<"nothing">>]
      \/ ret' = [ret EXCEPT ![t] = NoResult]
  BY DEF Call, keeper_acquire, keeper_release, luaL_error, Check, Mark, Sleep, Timeout, Spurious, Wake,
         cancelRequest, cancelPeek, cancelPoke, Cancel, Dump, Finish
<1>3. \A k \in Key : fifoOf(k)' = fifoOf(k) BY <1>1 DEF fifoOf
<1> QED BY <1>2, <1>3, Stutter, NoEffect

\* Every step of the linda is a step of the queues, or none.
LEMMA NextQueue == IInv /\ [Next]_vars => QueueStep
<1> SUFFICES ASSUME IInv, [Next]_vars PROVE QueueStep
  OBVIOUS
<1>1. CASE UNCHANGED vars
  BY <1>1, Stutter DEF vars, fifoOf
<1>2. CASE Next
  <2>1. PICK t \in Thread : \/ \E c \in Calls[t] : Call(t, c)
                            \/ keeper_acquire(t) \/ Step(t)
                            \/ Timeout(t) \/ Spurious(t) \/ Wake(t)
    BY <1>2 DEF Next
  <2> QED BY <2>1, SendQueue, ReceiveQueue, ReceiveBatchedQueue, SetQueue, LimitQueue,
             GetQueue, CountQueue, OtherQueue DEF Step, Try
<1> QED BY <1>1, <1>2

\* The initial states.
LEMMA InitQueue == Init => Abs!QueueInit
<1> SUFFICES ASSUME Init PROVE Abs!QueueInit
  OBVIOUS
<1>1. fifos = <<>> /\ ret = [t \in Thread |-> NoResult] BY DEF Init, InitLinda
<1>2. \A k \in Key : fifoOf(k) = fifo_new BY <1>1 DEF fifoOf
<1>3. \A k \in Key : Queue(k) = <<>> BY <1>2, ContentsNew DEF Queue, Contents
<1>4. \A k \in Key : Capacity(fifoOf(k).limit) = -1 BY <1>2 DEF Capacity, fifo_new
<1> QED BY <1>1, <1>3, <1>4 DEF Abs!QueueInit, Abs!NoResult, NoResult

\* A linda is a set of first-in first-out queues whose operations are atomic
\* (LindaQueue), whatever the number of threads, keys, values and calls and
\* however their steps interleave: nothing is lost, duplicated or reordered
\* by the keeper's circular use of its tables, by nil values, by limits, by
\* timeouts or by cancellation.
THEOREM QueueImplemented == Spec => QueueRefined
<1>1. IInv /\ [Next]_vars => [Abs!QueueNext]_<<QueueMap, LimitMap, ret>>
  BY NextQueue DEF QueueStep
<1>2. IInv /\ [Next]_vars => [Abs!QueueNext]_Abs!queueVars
  BY <1>1 DEF Abs!queueVars, QueueMap, LimitMap
<1> QED BY <1>2, InitQueue, Invariant, PTL DEF Spec, QueueRefined, Abs!QueueSpec
===============================================================================

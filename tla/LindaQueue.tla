------------------------------ MODULE LindaQueue ------------------------------
(***************************************************************************)
(* What a linda promises its users (Lanes documentation, "Lindas"): every  *)
(* key is a first-in first-out queue with an optional limit, and every     *)
(* operation takes effect at one instant, whatever the other threads do.   *)
(* Nothing here mentions locks, signals, retries or the way the keeper     *)
(* state stores a queue; Linda.tla implements this specification.          *)
(***************************************************************************)
EXTENDS Integers, Sequences

CONSTANTS Thread, Key,
          Batch,   \* the sequences of values a call may carry
          Bound,   \* the limits a call may set
          Rejects  \* Rejects[t]: the values thread t cannot be given

VARIABLES queue,  \* queue[k]: the values of key k, oldest first
          limit,  \* limit[k]: how many values k may hold, negative = any
          result  \* result[t]: what t's call is about to return

queueVars == <<queue, limit, result>>

\* The call of thread t has no result yet.
NoResult == <<>>

QueueInit ==
  /\ queue = [k \in Key |-> <<>>]
  /\ limit = [k \in Key |-> -1]
  /\ result = [t \in Thread |-> NoResult]

Returns(t, r) == result' = [result EXCEPT ![t] = r]

Front(k, n) == SubSeq(queue[k], 1, n)
Drop(k, n) == queue' = [queue EXCEPT ![k] = SubSeq(@, n + 1, Len(@))]

Room(k, n) == limit[k] < 0 \/ Len(queue[k]) + n <= limit[k]

\* All the values are queued, or none.
Send(t, k, vs) ==
  /\ Room(k, Len(vs))
  /\ queue' = [queue EXCEPT ![k] = @ \o vs]
  /\ Returns(t, <<"sent">>)
  /\ UNCHANGED limit

\* The oldest value of k, a key asked for.
Receive(t, k) ==
  /\ queue[k] # <<>>
  /\ Drop(k, 1)
  /\ Returns(t, <<"received", k>> \o Front(k, 1))
  /\ UNCHANGED limit

\* The n oldest values of one key, in order.
ReceiveBatched(t, k, n) ==
  /\ n \in 1..Len(queue[k])
  /\ Drop(k, n)
  /\ Returns(t, <<"received", k>> \o Front(k, n))
  /\ UNCHANGED limit

\* One of them is a value that t cannot be given: the call has no result, and
\* they are gone.
Lose(t, k, n) ==
  /\ n \in 1..Len(queue[k])
  /\ \E i \in 1..n : queue[k][i] \in Rejects[t]
  /\ Drop(k, n)
  /\ UNCHANGED <<limit, result>>

Set(t, k, vs) ==
  /\ queue' = [queue EXCEPT ![k] = vs]
  /\ Returns(t, <<"set">>)
  /\ UNCHANGED limit

Limit(t, k, n) ==
  /\ limit' = [limit EXCEPT ![k] = n]
  /\ Returns(t, <<"limit">>)
  /\ UNCHANGED queue

\* The n oldest values of k, which stay where they are; nothing for an
\* empty key.
Get(t, k, n) ==
  /\ n \in 0..Len(queue[k])
  /\ n = 0 => queue[k] = <<>>
  /\ Returns(t, <<"got">> \o Front(k, n))
  /\ UNCHANGED <<queue, limit>>

\* How many values the keys ks hold. A key that is empty and unlimited may
\* be missing from the answer.
Count(t, ks) ==
  /\ \E known \in SUBSET ks :
       /\ \A k \in ks \ known : queue[k] = <<>> /\ limit[k] < 0
       /\ Returns(t, <<"count", [k \in known |-> Len(queue[k])]>>)
  /\ UNCHANGED <<queue, limit>>

\* A call that ends with no effect: refused, timed out, cancelled or given
\* values it cannot carry.
Refuse(t) ==
  /\ Returns(t, <<"nothing">>)
  /\ UNCHANGED <<queue, limit>>

\* The call of t is over.
Forget(t) ==
  /\ Returns(t, NoResult)
  /\ UNCHANGED <<queue, limit>>

QueueNext ==
  \E t \in Thread :
    \/ Refuse(t)
    \/ Forget(t)
    \/ \E ks \in SUBSET Key : Count(t, ks)
    \/ \E k \in Key :
         \/ Receive(t, k)
         \/ \E n \in 0..Len(queue[k]) : ReceiveBatched(t, k, n) \/ Lose(t, k, n) \/ Get(t, k, n)
         \/ \E vs \in Batch : Send(t, k, vs) \/ Set(t, k, vs)
         \/ \E n \in Bound : Limit(t, k, n)

QueueSpec == QueueInit /\ [][QueueNext]_queueVars
===============================================================================

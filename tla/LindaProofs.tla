------------------------------ MODULE LindaProofs -----------------------------
(***************************************************************************)
(* Proofs about Linda.tla, for any lanes, threads, keys, values and calls. *)
(*                                                                         *)
(* FifoShape is not inductive alone: what fifo_pop() takes away must be    *)
(* there, which is what the guards of the keeper functions see to, and     *)
(* what is pushed must not be nil, which is what the exchange of nil for   *)
(* the sentinel sees to. The types need to know which call a thread is in  *)
(* at each step, and that it holds the mutex that it releases.             *)
(***************************************************************************)
EXTENDS Linda, SequenceTheorems, TLAPS

Stored == Val \cup {NilSentinel}

\* A fifo of the right type without holes.
FifoOK(f) ==
  /\ FifoType(f)
  /\ DOMAIN f.tab = f.first..(f.first + f.count - 1)

\* A table of such fifos.
FifosOK(g) ==
  /\ DOMAIN g \subseteq Key
  /\ \A k \in DOMAIN g : FifoOK(g[k])

Labels == {"idle", "acquire", "check", "try", "mark", "sleep", "asleep", "release", "raise",
           "request", "peek", "poke"}

\* Where a thread may be in a call, and that it holds the keeper there.
CallOK ==
  /\ pc \in [Thread -> Labels]
  /\ DOMAIN call = Thread
  /\ \A t \in Thread :
       /\ pc[t] # "idle" => call[t] \in Calls[t]
       /\ pc[t] \in {"mark", "sleep", "asleep"} => call[t].f \in Blocking
       /\ pc[t] \in {"request", "peek", "poke"} => call[t].f = "thread_cancel"
       /\ pc[t] \in {"check", "try", "mark", "sleep", "release"} => held[t] > 0

\* TypeOK without the fifos.
TypeRest ==
  /\ storage \in BOOLEAN
  /\ simulate_cancel \in {"NONE", "SOFT"}
  /\ held \in [Thread -> Nat]
  /\ waiters \in [Signal -> SUBSET Thread]
  /\ cancel_request \in [Lane -> {"NONE", "SOFT", "HARD"}]
  /\ status \in [Lane -> {"RUNNING", "WAITING"}]
  /\ waiting_on \in [Lane -> Signal \cup {"NULL"}]
  /\ try_again \in [Thread -> BOOLEAN]
  /\ peeked \in [Thread -> Signal \cup {"NULL"}]
  /\ made \in [Thread -> 0..MaxCalls]

IInv == FifosOK(fifos) /\ TypeRest /\ CallOK

-------------------------------------------------------------------------------
(* The operators on fifos *)

\* fifo_new() makes an empty fifo of the right shape.
LEMMA NewShape == FifoOK(fifo_new)
  BY DEF FifoOK, FifoType, fifo_new

\* fifo_push() of values that are not nil leaves no hole.
LEMMA PushShape ==
  ASSUME NEW f, FifoOK(f), NEW vs \in Seq(Stored)
  PROVE  FifoOK(fifo_push(f, vs))
<1> DEFINE start == f.first + f.count - 1
           new == (start + 1)..(start + Len(vs))
           full == {i \in new : vs[i - start] # Nil}
           tab == [i \in (DOMAIN f.tab \ new) \cup full |->
                     IF i \in full THEN vs[i - start] ELSE f.tab[i]]
<1>1. /\ Len(vs) \in Nat
      /\ \A i \in new : vs[i - start] \in Stored
  BY DEF FifoOK, FifoType
<1>2. full = new
  BY <1>1, SentinelsDistinct DEF Stored
<1>3. DOMAIN tab = f.first..(start + Len(vs))
  <2>1. (f.first..start) \cap new = {}
    BY <1>1 DEF FifoOK, FifoType
  <2>2. DOMAIN f.tab = f.first..start
    BY DEF FifoOK
  <2>3. DOMAIN tab = (f.first..start) \cup new
    BY <1>2, <2>1, <2>2
  <2> QED BY <1>1, <2>3 DEF FifoOK, FifoType
<1>4. \A i \in DOMAIN tab : i \in Nat /\ tab[i] \in Stored
  <2> HIDE DEF new, full
  <2> TAKE i \in DOMAIN tab
  <2>1. i \in Nat
    BY <1>1, <1>3 DEF FifoOK, FifoType
  <2>2. CASE i \in full
    <3>1. tab[i] = vs[i - start]
      BY <2>2
    <3> QED BY <1>1, <1>2, <2>1, <2>2, <3>1
  <2>3. CASE i \notin full
    <3>1. i \in DOMAIN f.tab /\ tab[i] = f.tab[i]
      BY <2>3
    <3>2. f.tab[i] \in Stored
      BY <3>1 DEF FifoOK, FifoType, Stored
    <3> QED BY <2>1, <3>1, <3>2
  <2> QED BY <2>1, <2>2, <2>3
<1>5. fifo_push(f, vs) = [f EXCEPT !.tab = tab, !.count = @ + Len(vs)]
  BY DEF fifo_push, storeAfter
<1>6. LET g == [f EXCEPT !.tab = tab, !.count = @ + Len(vs)]
      IN /\ DOMAIN g = DOMAIN f
         /\ g.first = f.first /\ g.limit = f.limit
         /\ g.tab = tab /\ g.count = f.count + Len(vs)
  <2> HIDE DEF tab
  <2> QED BY DEF FifoOK, FifoType
<1> HIDE DEF tab
<1> QED BY <1>1, <1>3, <1>4, <1>5, <1>6 DEF FifoOK, FifoType, Stored

\* fifo_pop() of values that are there leaves no hole.
LEMMA PopShape ==
  ASSUME NEW f, FifoOK(f), NEW n \in 0..f.count
  PROVE  FifoOK(fifo_pop(f, n))
<1> DEFINE gone == f.first..(f.first + n - 1)
           tab == Restrict(f.tab, DOMAIN f.tab \ gone)
           first == IF f.count = n THEN 1 ELSE f.first + n
<1>1. fifo_pop(f, n) = [f EXCEPT !.tab = tab, !.first = first, !.count = f.count - n]
  BY DEF fifo_pop, FifoOK, FifoType
<1>2. LET g == [f EXCEPT !.tab = tab, !.first = first, !.count = f.count - n]
      IN /\ DOMAIN g = DOMAIN f
         /\ g.first = first /\ g.limit = f.limit
         /\ g.tab = tab /\ g.count = f.count - n
  <2> HIDE DEF tab, first
  <2> QED BY DEF FifoOK, FifoType
<1>3. DOMAIN tab = (f.first..(f.first + f.count - 1)) \ gone
  BY DEF Restrict, FifoOK
<1>4. DOMAIN tab = first..(first + (f.count - n) - 1)
  <2> HIDE DEF tab
  <2>1. f.first \in Nat \ {0} /\ f.count \in Nat /\ n \in Nat /\ n <= f.count
    BY DEF FifoOK, FifoType
  <2>2. CASE f.count = n
    BY <1>3, <2>1, <2>2
  <2>3. CASE f.count # n
    BY <1>3, <2>1, <2>3
  <2> QED BY <2>2, <2>3
<1>5. \A i \in DOMAIN tab : i \in Nat /\ tab[i] \in Stored
  BY DEF Restrict, FifoOK, FifoType, Stored
<1>6. first \in Nat \ {0} /\ f.count - n \in Nat
  BY DEF FifoOK, FifoType
<1> HIDE DEF tab, first
<1> QED BY <1>1, <1>2, <1>4, <1>5, <1>6 DEF FifoOK, FifoType, Stored

\* The limit does not matter to the shape.
LEMMA LimitShape ==
  ASSUME NEW f, FifoOK(f), NEW n \in Int
  PROVE  FifoOK([f EXCEPT !.limit = n])
  BY DEF FifoOK, FifoType

\* keeper_toggle_nil_sentinels() leaves no nil in what goes to the keeper.
LEMMA ToKeeper ==
  ASSUME NEW t, NEW vs \in Seq(Val \cup {Nil, Unsupported}), Copyable(t, vs)
  PROVE  toKeeper(vs) \in Seq(Stored) /\ Len(toKeeper(vs)) = Len(vs)
<1>1. Len(vs) \in Nat /\ DOMAIN vs = 1..Len(vs)
  OBVIOUS
<1>2. toKeeper(vs) \in [1..Len(vs) -> Stored]
  BY <1>1 DEF toKeeper, Copyable, Stored
<1> QED BY <1>1, <1>2

\* A table of fifos with one of them replaced, added or removed.
LEMMA WithFifoShape ==
  ASSUME FifosOK(fifos), NEW k \in Key, NEW f, FifoOK(f)
  PROVE  FifosOK(withFifo(k, f))
  BY DEF FifosOK, withFifo

\* A key that the keeper does not know reads as a new fifo.
LEMMA FifoOfShape ==
  ASSUME FifosOK(fifos), NEW k
  PROVE  FifoOK(fifoOf(k))
  BY NewShape DEF FifosOK, fifoOf

\* Forgetting keys harms no fifo.
LEMMA RestrictShape ==
  ASSUME FifosOK(fifos), NEW S, S \subseteq DOMAIN fifos
  PROVE  FifosOK(Restrict(fifos, S))
  BY DEF FifosOK, Restrict

-------------------------------------------------------------------------------
(* The steps *)

\* The steps that leave the data of the keeper alone.
LEMMA CallStep ==
  ASSUME IInv, NEW t \in Thread, NEW c \in Calls[t], Call(t, c)
  PROVE  IInv'
<1>1. WellFormed(c) BY CallsWellFormed DEF Thread
<1>2. FifosOK(fifos)' BY DEF IInv, Call
<1>3. TypeRest' BY ThreadKinds DEF IInv, Call, TypeRest, Goto, lane
<1>4. CallOK' BY <1>1 DEF IInv, Call, CallOK, TypeRest, Goto, Labels, WellFormed
<1> QED BY <1>2, <1>3, <1>4 DEF IInv

\* keeper_acquire() takes the mutex.
LEMMA AcquireStep ==
  ASSUME IInv, NEW t \in Thread, keeper_acquire(t)
  PROVE  IInv'
<1>2. FifosOK(fifos)' BY DEF IInv, keeper_acquire
<1>3. TypeRest' BY DEF IInv, keeper_acquire, TypeRest, Goto, Lock, lane
<1>4. CallOK' BY DEF IInv, keeper_acquire, CallOK, TypeRest, Goto, Lock, Labels, Blocking
<1> QED BY <1>2, <1>3, <1>4 DEF IInv

\* keeper_release() gives back a mutex that is held.
LEMMA ReleaseStep ==
  ASSUME IInv, NEW t \in Thread, keeper_release(t)
  PROVE  IInv'
<1>2. FifosOK(fifos)' BY DEF IInv, keeper_release
<1>3. TypeRest' BY DEF IInv, keeper_release, CallOK, TypeRest, Goto, Unlock, lane
<1>4. CallOK' BY DEF IInv, keeper_release, CallOK, TypeRest, Goto, Unlock, Labels, Blocking
<1> QED BY <1>2, <1>3, <1>4 DEF IInv

\* The head of the loop of send() and receive().
LEMMA CheckStep ==
  ASSUME IInv, NEW t \in Thread, Check(t)
  PROVE  IInv'
<1>2. FifosOK(fifos)' BY DEF IInv, Check
<1>3. TypeRest' BY DEF IInv, Check, TypeRest, lane
<1>4. CallOK' BY DEF IInv, Check, CallOK, TypeRest, Goto, Finish, Labels, Blocking
<1> QED BY <1>2, <1>3, <1>4 DEF IInv

\* Only a call that may block gets to its wait.
LEMMA MarkStep ==
  ASSUME IInv, NEW t \in Thread, Mark(t)
  PROVE  IInv'
<1>2. FifosOK(fifos)' BY DEF IInv, Mark
<1>3. TypeRest' BY DEF IInv, Mark, TypeRest, sleepsOn, Signal
<1>4. CallOK' BY DEF IInv, Mark, CallOK, TypeRest, Goto, Labels, Blocking
<1> QED BY <1>2, <1>3, <1>4 DEF IInv

\* SIGNAL_WAIT gives the mutex back.
LEMMA SleepStep ==
  ASSUME IInv, NEW t \in Thread, Sleep(t)
  PROVE  IInv'
<1>2. FifosOK(fifos)' BY DEF IInv, Sleep
<1>3. TypeRest' BY DEF IInv, Sleep, CallOK, TypeRest, Unlock, sleepsOn, Signal, lane
<1>4. CallOK' BY DEF IInv, Sleep, CallOK, TypeRest, Unlock, Goto, Labels, Blocking
<1> QED BY <1>2, <1>3, <1>4 DEF IInv

\* A wait ends with the mutex taken again.
LEMMA WakeStep ==
  ASSUME IInv, NEW t \in Thread, Wake(t)
  PROVE  IInv'
<1>2. FifosOK(fifos)' BY DEF IInv, Wake
<1>3. TypeRest' BY DEF IInv, Wake, TypeRest, Lock, Signal
<1>4. CallOK' BY DEF IInv, Wake, CallOK, TypeRest, Lock, Goto, Labels, Blocking
<1> QED BY <1>2, <1>3, <1>4 DEF IInv

\* A wait that ends without a signal.
LEMMA WaitEndStep ==
  ASSUME IInv, NEW t \in Thread, Timeout(t) \/ Spurious(t)
  PROVE  IInv'
<1>2. FifosOK(fifos)' BY DEF IInv, Timeout, Spurious
<1>3. TypeRest' BY DEF IInv, Timeout, Spurious, TypeRest, LeaveWaiters, lane
<1>4. CallOK' BY DEF IInv, Timeout, Spurious, CallOK
<1> QED BY <1>2, <1>3, <1>4 DEF IInv

\* thread_cancel().
LEMMA ThreadCancelStep ==
  ASSUME IInv, NEW t \in Thread, cancelRequest(t) \/ cancelPeek(t) \/ cancelPoke(t)
  PROVE  IInv'
<1>1. pc[t] \in {"request", "peek", "poke"} /\ call[t] \in Calls[t]
      /\ call[t].f = "thread_cancel"
  BY DEF IInv, CallOK, cancelRequest, cancelPeek, cancelPoke
<1>2. call[t].lane \in Lane /\ call[t].how \in {"SOFT", "HARD"}
  BY <1>1, CallsWellFormed DEF WellFormed, Thread
<1>3. CASE cancelRequest(t)
  <2>1. FifosOK(fifos)' BY <1>3 DEF IInv, cancelRequest
  <2>2. TypeRest' BY <1>2, <1>3 DEF IInv, cancelRequest, TypeRest
  <2>3. CallOK' BY <1>1, <1>3 DEF IInv, cancelRequest, CallOK, Goto, Labels, NoCall
  <2> QED BY <2>1, <2>2, <2>3 DEF IInv
<1>4. CASE cancelPeek(t)
  <2>1. FifosOK(fifos)' BY <1>4 DEF IInv, cancelPeek
  <2>2. TypeRest' BY <1>2, <1>4 DEF IInv, cancelPeek, TypeRest, lane
  <2>3. CallOK' BY <1>1, <1>4 DEF IInv, cancelPeek, CallOK, Goto, Labels
  <2> QED BY <2>1, <2>2, <2>3 DEF IInv
<1>5. CASE cancelPoke(t)
  <2>1. FifosOK(fifos)' BY <1>5 DEF IInv, cancelPoke
  <2>2. TypeRest' BY <1>2, <1>5 DEF IInv, cancelPoke, TypeRest, SIGNAL_ALL, lane
  <2>3. CallOK' BY <1>1, <1>5 DEF IInv, cancelPoke, CallOK, Goto, Labels, NoCall
  <2> QED BY <2>1, <2>2, <2>3 DEF IInv
<1> QED BY <1>3, <1>4, <1>5

\* An error leaves the mutex as it is.
LEMMA ErrorStep ==
  ASSUME IInv, NEW t \in Thread, luaL_error(t)
  PROVE  IInv'
<1>2. FifosOK(fifos)' BY DEF IInv, luaL_error
<1>3. TypeRest' BY DEF IInv, luaL_error, TypeRest, lane
<1>4. CallOK' BY DEF IInv, luaL_error, CallOK, TypeRest, Goto, Labels, Blocking
<1> QED BY <1>2, <1>3, <1>4 DEF IInv

\* What the steps inside the keeper have in common: they end in the release
\* of the keeper, in an error, or on the way to sleep.
LEMMA TryEnds ==
  ASSUME IInv, NEW t \in Thread, pc[t] = "try", TryUnchanged,
         FifosOK(fifos)', storage' \in BOOLEAN, waiters' \in [Signal -> SUBSET Thread],
         \/ pc' = [pc EXCEPT ![t] = "release"] \/ pc' = [pc EXCEPT ![t] = "raise"]
         \/ pc' = [pc EXCEPT ![t] = "mark"] /\ call[t].f \in Blocking
  PROVE  IInv'
<1>1. TypeRest' BY DEF IInv, TypeRest, TryUnchanged, lane
<1>2. CallOK' BY DEF IInv, TypeRest, CallOK, TryUnchanged, Labels
<1> QED BY <1>1, <1>2 DEF IInv

\* A broadcast leaves sets of threads.
LEMMA SignalType ==
  ASSUME TypeRest, NEW sigs
  PROVE  SIGNAL_ALL(sigs) => waiters' \in [Signal -> SUBSET Thread]
  BY DEF TypeRest, SIGNAL_ALL

\* A call that a thread is in has the arguments that its method lets through.
LEMMA InCallWellFormed ==
  ASSUME IInv, NEW t \in Thread, pc[t] = "try"
  PROVE  WellFormed(call[t])
  BY CallsWellFormed DEF IInv, CallOK, Thread

\* linda_send() pushes values without nil.
LEMMA SendStep ==
  ASSUME IInv, NEW t \in Thread, Send(t)
  PROVE  IInv'
<1> DEFINE c == call[t]
           f == fifoOf(c.key)
<1>1. pc[t] = "try" /\ c.f = "send" /\ TryUnchanged
  BY DEF Send, InCall
<1>2. c.key \in Key /\ c.vals \in Seq(Val \cup {Nil, Unsupported})
  BY <1>1, InCallWellFormed DEF WellFormed
<1>3. FifosOK(fifos) /\ TypeRest /\ storage \in BOOLEAN
      /\ waiters \in [Signal -> SUBSET Thread]
  BY DEF IInv, TypeRest
<1>4. CASE /\ Raise(t) \/ Finish(t, <<"nothing">>)
           /\ UNCHANGED <<storage, fifos, waiters>>
  BY <1>1, <1>3, <1>4, TryEnds DEF Raise, Finish, Goto
<1>5. CASE /\ Copyable(t, c.vals)
           /\ fifos' = withFifo(c.key, fifo_push(f, toKeeper(c.vals)))
           /\ push_table
           /\ SIGNAL_ALL({"write_happened"})
           /\ Finish(t, <<"sent">>)
  <2>1. FifoOK(fifo_push(f, toKeeper(c.vals)))
    BY <1>2, <1>3, <1>5, ToKeeper, FifoOfShape, PushShape
  <2>2. FifosOK(fifos')
    BY <1>2, <1>3, <1>5, <2>1, WithFifoShape
  <2>3. waiters' \in [Signal -> SUBSET Thread]
    BY <1>3, <1>5, SignalType
  <2> QED BY <1>1, <1>5, <2>2, <2>3, TryEnds DEF push_table, Finish, Goto
<1>6. CASE Blocked(t) /\ push_table /\ UNCHANGED <<fifos, waiters>>
  BY <1>1, <1>3, <1>6, TryEnds DEF push_table, Blocked, Blocking, Finish, Goto
<1> QED BY <1>4, <1>5, <1>6 DEF Send

\* linda_receive() pops only from fifos with a value.
LEMMA ReceiveStep ==
  ASSUME IInv, NEW t \in Thread, Receive(t)
  PROVE  IInv'
<1> DEFINE ks == call[t].keys
           pop(i) == [k \in DOMAIN fifos |->
                        IF HasData(k) /\ \E j \in 1..i : ks[j] = k
                        THEN fifo_pop(fifos[k], 1) ELSE fifos[k]]
<1>1. pc[t] = "try" /\ call[t].f = "receive" /\ TryUnchanged /\ push_table
  BY DEF Receive, InCall
<1>2. FifosOK(fifos) /\ TypeRest /\ waiters \in [Signal -> SUBSET Thread]
  BY DEF IInv, TypeRest
<1>3. ASSUME NEW i PROVE FifosOK(pop(i))
  <2>1. ASSUME NEW k \in DOMAIN fifos, HasData(k) PROVE FifoOK(fifo_pop(fifos[k], 1))
    <3>1. FifoOK(fifos[k]) BY <1>2 DEF FifosOK
    <3>2. 1 \in 0..fifos[k].count BY <2>1, <3>1 DEF HasData, FifoOK, FifoType
    <3> QED BY <3>1, <3>2, PopShape
  <2> QED BY <1>2, <2>1 DEF FifosOK
<1>4. \/ /\ \E i : fifos' = pop(i)
         /\ SIGNAL_ALL({"read_happened"})
         /\ pc' = [pc EXCEPT ![t] = "release"]
      \/ /\ \E i : fifos' = pop(i)
         /\ Blocked(t) \/ Raise(t)
         /\ UNCHANGED waiters
  BY DEF Receive, Deliver, Finish, Goto
<1>5. FifosOK(fifos')
  BY <1>3, <1>4
<1>6. waiters' \in [Signal -> SUBSET Thread]
  BY <1>2, <1>4, SignalType
<1>7. \/ pc' = [pc EXCEPT ![t] = "release"] \/ pc' = [pc EXCEPT ![t] = "raise"]
      \/ pc' = [pc EXCEPT ![t] = "mark"] /\ call[t].f \in Blocking
  BY <1>1, <1>4 DEF Blocked, Blocking, Raise, Finish, Goto
<1> QED BY <1>1, <1>5, <1>6, <1>7, TryEnds DEF push_table

\* A batched receive pops no more than there is.
LEMMA ReceiveBatchedStep ==
  ASSUME IInv, NEW t \in Thread, ReceiveBatched(t)
  PROVE  IInv'
<1> DEFINE c == call[t]
           f == fifoOf(c.key)
           n == IF c.max < f.count THEN c.max ELSE f.count
<1>1. pc[t] = "try" /\ c.f = "receive_batched" /\ TryUnchanged
  BY DEF ReceiveBatched, InCall
<1>2. c.key \in Key /\ c.min \in Int /\ c.max \in Int /\ c.min <= c.max
  BY <1>1, InCallWellFormed DEF WellFormed
<1>3. FifosOK(fifos) /\ TypeRest /\ storage \in BOOLEAN
      /\ waiters \in [Signal -> SUBSET Thread]
  BY DEF IInv, TypeRest
<1>4. storage' = (storage \/ c.min > 0)
  BY DEF ReceiveBatched
<1>5. storage' \in BOOLEAN
  BY <1>4
<1>6. CASE /\ Enough(f, c.min)
           /\ fifos' = withFifo(c.key, fifo_pop(f, n))
           /\ \/ SIGNAL_ALL({"read_happened"}) /\ pc' = [pc EXCEPT ![t] = "release"]
              \/ UNCHANGED waiters /\ pc' = [pc EXCEPT ![t] = "raise"]
  <2>1. FifoOK(f) BY <1>3, FifoOfShape
  <2>2. n \in 0..f.count BY <1>2, <1>6, <2>1 DEF Enough, FifoOK, FifoType
  <2>3. FifosOK(fifos') BY <1>2, <1>3, <1>6, <2>1, <2>2, PopShape, WithFifoShape
  <2>4. waiters' \in [Signal -> SUBSET Thread] BY <1>3, <1>6, SignalType
  <2> QED BY <1>1, <1>5, <1>6, <2>3, <2>4, TryEnds
<1>7. CASE Blocked(t) /\ UNCHANGED <<fifos, waiters>>
  BY <1>1, <1>3, <1>5, <1>7, TryEnds DEF Blocked, Blocking, Finish, Goto
<1> QED BY <1>6, <1>7 DEF ReceiveBatched, Deliver, Raise, Finish, Goto

\* linda_set() starts from an empty fifo.
LEMMA SetStep ==
  ASSUME IInv, NEW t \in Thread, Set(t)
  PROVE  IInv'
<1> DEFINE c == call[t]
<1>1. pc[t] = "try" /\ c.f = "set" /\ TryUnchanged
  BY DEF Set, Refused, InCall
<1>2. c.key \in Key /\ c.vals \in Seq(Val \cup {Nil, Unsupported})
  BY <1>1, InCallWellFormed DEF WellFormed
<1>3. FifosOK(fifos) /\ TypeRest /\ storage \in BOOLEAN
      /\ waiters \in [Signal -> SUBSET Thread]
  BY DEF IInv, TypeRest
<1>4. CASE /\ pc' = [pc EXCEPT ![t] = "release"] \/ pc' = [pc EXCEPT ![t] = "raise"]
           /\ UNCHANGED <<storage, fifos, waiters>>
  BY <1>1, <1>3, <1>4, TryEnds
<1>5. CASE /\ Copyable(t, c.vals)
           /\ fifos' = keepercall_set(c.key, c.vals)
           /\ push_table
           /\ \E sigs : SIGNAL_ALL(sigs)
           /\ pc' = [pc EXCEPT ![t] = "release"]
  <2>1. FifoOK(fifoOf(c.key)) BY <1>3, FifoOfShape
  <2>2. FifoOK([fifo_new EXCEPT !.limit = fifoOf(c.key).limit])
    BY <2>1, NewShape, LimitShape DEF FifoOK, FifoType
  <2>3. FifoOK(fifo_push([fifo_new EXCEPT !.limit = fifoOf(c.key).limit], toKeeper(c.vals)))
    BY <1>2, <1>5, <2>2, ToKeeper, PushShape
  <2>4. FifosOK(keepercall_set(c.key, c.vals))
    BY <1>2, <1>3, <2>3, WithFifoShape, RestrictShape DEF keepercall_set
  <2>5. waiters' \in [Signal -> SUBSET Thread] BY <1>3, <1>5, SignalType
  <2> QED BY <1>1, <1>5, <2>4, <2>5, TryEnds DEF push_table
<1> QED BY <1>4, <1>5 DEF Set, Refused, Raise, Finish, Goto

\* linda_limit() leaves the values alone.
LEMMA LimitStep ==
  ASSUME IInv, NEW t \in Thread, Limit(t)
  PROVE  IInv'
<1> DEFINE c == call[t]
           f == fifoOf(c.key)
<1>1. pc[t] = "try" /\ c.f = "limit" /\ TryUnchanged
  BY DEF Limit, Refused, InCall
<1>2. c.key \in Key /\ c.n \in Int
  BY <1>1, InCallWellFormed DEF WellFormed
<1>3. FifosOK(fifos) /\ TypeRest /\ storage \in BOOLEAN
      /\ waiters \in [Signal -> SUBSET Thread]
  BY DEF IInv, TypeRest
<1>4. CASE pc' = [pc EXCEPT ![t] = "release"] /\ UNCHANGED <<storage, fifos, waiters>>
  BY <1>1, <1>3, <1>4, TryEnds
<1>5. CASE /\ fifos' = withFifo(c.key, [f EXCEPT !.limit = c.n])
           /\ push_table
           /\ \E sigs : SIGNAL_ALL(sigs)
           /\ pc' = [pc EXCEPT ![t] = "release"]
  <2>1. FifosOK(fifos')
    BY <1>2, <1>3, <1>5, FifoOfShape, LimitShape, WithFifoShape
  <2>2. waiters' \in [Signal -> SUBSET Thread] BY <1>3, <1>5, SignalType
  <2> QED BY <1>1, <1>5, <2>1, <2>2, TryEnds DEF push_table
<1> QED BY <1>4, <1>5 DEF Limit, Refused, Finish, Goto

\* get(), count(): nothing changes but the table that push_table() makes.
LEMMA ReadStep ==
  ASSUME IInv, NEW t \in Thread, Get(t) \/ Count(t)
  PROVE  IInv'
<1>1. /\ pc[t] = "try" /\ TryUnchanged /\ UNCHANGED <<fifos, waiters>>
      /\ pc' = [pc EXCEPT ![t] = "release"] \/ pc' = [pc EXCEPT ![t] = "raise"]
      /\ (storage' = storage \/ storage' = TRUE)
  BY DEF Get, Count, Refused, InCall, push_table, Raise, Finish, Goto
<1> QED BY <1>1, TryEnds DEF IInv, TypeRest

\* linda_cancel() sets the flag and broadcasts.
LEMMA CancelStep ==
  ASSUME IInv, NEW t \in Thread, Cancel(t)
  PROVE  IInv'
<1>1. FifosOK(fifos)' BY DEF IInv, Cancel
<1>2. simulate_cancel' \in {"NONE", "SOFT"} /\ \E sigs : SIGNAL_ALL(sigs)
  BY DEF Cancel
<1>3. waiters' \in [Signal -> SUBSET Thread] BY <1>2, SignalType DEF IInv
<1>4. TypeRest' BY <1>2, <1>3 DEF IInv, TypeRest, Cancel, lane
<1>5. CallOK' BY DEF IInv, TypeRest, CallOK, Cancel, InCall, Finish, Goto, Labels
<1> QED BY <1>1, <1>4, <1>5 DEF IInv

\* linda_dump() may return with the mutex held, but not inside a call.
LEMMA DumpStep ==
  ASSUME IInv, NEW t \in Thread, Dump(t)
  PROVE  IInv'
<1>1. FifosOK(fifos)' BY DEF IInv, Dump
<1>2. TypeRest' BY DEF IInv, TypeRest, Dump, lane
<1>3. CallOK' BY DEF IInv, TypeRest, CallOK, Dump, InCall, Finish, Goto, Labels, NoCall
<1> QED BY <1>1, <1>2, <1>3 DEF IInv

-------------------------------------------------------------------------------
\* The invariant holds in the beginning.
LEMMA InitInvariant == Init => IInv
<1> SUFFICES ASSUME Init PROVE IInv
  OBVIOUS
<1>1. FifosOK(<<>>) BY DEF FifosOK
<1>2. FifosOK(fifos) BY <1>1 DEF Init, InitLinda
<1>3. storage \in BOOLEAN /\ try_again \in [Thread -> BOOLEAN]
  BY DEF Init, InitLinda
<1>4. TypeRest BY <1>3, ThreadKinds DEF Init, InitLinda, TypeRest
<1>5. CallOK BY DEF Init, InitLinda, CallOK, Labels
<1> QED BY <1>2, <1>4, <1>5 DEF IInv

\* Every step of every thread keeps it.
LEMMA NextInvariant == IInv /\ [Next]_vars => IInv'
<1> SUFFICES ASSUME IInv, [Next]_vars PROVE IInv'
  OBVIOUS
<1>1. CASE UNCHANGED vars
  BY <1>1 DEF vars, lane, IInv, FifosOK, TypeRest, CallOK
<1>2. ASSUME NEW t \in Thread, \E c \in Calls[t] : Call(t, c) PROVE IInv'
  BY <1>2, CallStep
<1>3. ASSUME NEW t \in Thread, keeper_acquire(t) PROVE IInv'
  BY <1>3, AcquireStep
<1>4. ASSUME NEW t \in Thread, Step(t) PROVE IInv'
  <2>1. CASE Try(t)
    BY <2>1, SendStep, ReceiveStep, ReceiveBatchedStep, SetStep, LimitStep, ReadStep,
       CancelStep, DumpStep DEF Try
  <2> QED BY <1>4, <2>1, CheckStep, MarkStep, SleepStep, ReleaseStep, ErrorStep,
             ThreadCancelStep
          DEF Step
<1>5. ASSUME NEW t \in Thread, Timeout(t) \/ Spurious(t) \/ Wake(t) PROVE IInv'
  BY <1>5, WaitEndStep, WakeStep
<1> QED BY <1>1, <1>2, <1>3, <1>4, <1>5 DEF Next

\* The invariant holds, for any threads, keys, values and calls.
THEOREM Invariant == Spec => []IInv
  BY InitInvariant, NextInvariant, PTL DEF Spec

\* Every field keeps its type, whatever the threads do.
THEOREM TypeCorrect == Spec => []TypeOK
<1>1. IInv => TypeOK
  BY DEF IInv, TypeRest, FifosOK, FifoOK, TypeOK
<1> QED BY <1>1, Invariant, PTL

\* A fifo has no holes, whatever the threads do: the values of a key are in
\* the slots first .. first + count - 1 (fifo_push, fifo_pop).
THEOREM NoHoles == Spec => []FifoShape
<1>1. IInv => FifoShape
  BY DEF IInv, FifosOK, FifoOK, FifoShape
<1> QED BY <1>1, Invariant, PTL

-------------------------------------------------------------------------------
(* No wake-up is lost. NoLostWakeup speaks of threads asleep; to be          *)
(* inductive it must also speak of a thread that has found that it cannot    *)
(* proceed and is on its way to sleep. That this stays true until it sleeps  *)
(* is what the keeper mutex is for. An error raised while values leave the   *)
(* keeper makes room and wakes nobody, but it also leaves the keeper locked, *)
(* for ever: what is proved holds until then, and so whenever it is free.    *)

\* One thread at a time is between keeper_acquire() and keeper_release().
Mutex == \A t, u \in Thread : pc[t] \in InKeeper /\ u # t => held[u] = 0

Stuck(c) == (c.f = "send" => Len(c.vals) = 1) => ~CanProceed(c)

Waits(t) == Asleep(t) \/ pc[t] \in {"mark", "sleep"}

StuckInv == \A t \in Thread : Waits(t) => Stuck(call[t])

WInv == IInv /\ Mutex /\ StuckInv

NoneAbandoned == \A t \in Thread : ~Abandoned(t)

KeeperInv == IInv /\ Mutex /\ (NoneAbandoned => StuckInv)

\* A step of thread t.
ThreadStep(t) == \/ \E c \in Calls[t] : Call(t, c)
                 \/ keeper_acquire(t) \/ Step(t)
                 \/ Timeout(t) \/ Spurious(t) \/ Wake(t)

\* A step that does not take the mutex, and is inside only if it was.
LEMMA MutexKept ==
  ASSUME IInv, Mutex, NEW t \in Thread,
         \A u \in Thread \ {t} : pc'[u] = pc[u] /\ held'[u] = held[u],
         pc[t] \in InKeeper \/ (pc'[t] \notin InKeeper /\ held'[t] = held[t])
  PROVE  Mutex'
<1>1. \A u \in Thread : pc[u] \in InKeeper => held[u] > 0 /\ held[u] \in Nat
  BY DEF IInv, CallOK, TypeRest, InKeeper
<1>2. CASE pc[t] \in InKeeper
  <2>1. \A u \in Thread \ {t} : held[u] = 0 /\ pc[u] \notin InKeeper
    BY <1>1, <1>2 DEF Mutex
  <2> QED BY <2>1 DEF Mutex
<1>3. CASE pc'[t] \notin InKeeper /\ held'[t] = held[t]
  BY <1>3 DEF Mutex
<1> QED BY <1>2, <1>3

\* A step that takes it.
LEMMA MutexTaken ==
  ASSUME IInv, Mutex, NEW t \in Thread, Lock(t), \A u \in Thread \ {t} : pc'[u] = pc[u]
  PROVE  Mutex'
<1>1. \A u \in Thread : pc[u] \in InKeeper => held[u] > 0
  BY DEF IInv, CallOK, InKeeper
<1>2. \A u \in Thread \ {t} : held[u] = 0 /\ pc[u] \notin InKeeper
  BY <1>1 DEF Lock, Free
<1>3. \A u \in Thread \ {t} : held'[u] = held[u]
  BY DEF Lock, IInv, TypeRest
<1> QED BY <1>2, <1>3 DEF Mutex

\* Where a step inside the keeper takes its thread.
LEMMA TryGoes ==
  ASSUME NEW t \in Thread, Try(t)
  PROVE  /\ pc[t] = "try" /\ held' = held
         /\ \E l : pc' = [pc EXCEPT ![t] = l]
<1>1. CASE Send(t) \/ Receive(t) \/ ReceiveBatched(t)
  BY <1>1 DEF Send, Receive, ReceiveBatched, Deliver, Blocked, InCall, TryUnchanged, Raise,
              Finish, Goto
<1>2. CASE Set(t) \/ Limit(t) \/ Get(t) \/ Count(t)
  BY <1>2 DEF Set, Limit, Get, Count, Refused, InCall, TryUnchanged, Raise, Finish, Goto
<1>3. CASE Cancel(t) \/ Dump(t)
  BY <1>3 DEF Cancel, Dump, InCall, Finish, Goto
<1> QED BY <1>1, <1>2, <1>3 DEF Try

\* Every step keeps the keeper to one thread, an error included.
LEMMA MutexStep ==
  ASSUME IInv, Mutex, NEW t \in Thread, ThreadStep(t)
  PROVE  Mutex'
<1>0. /\ pc \in [Thread -> Labels] /\ held \in [Thread -> Nat]
  BY DEF IInv, CallOK, TypeRest
<1>1. CASE \E c \in Calls[t] : Call(t, c)
  BY <1>0, <1>1, MutexKept DEF Call, Goto, InKeeper
<1>2. CASE keeper_acquire(t) \/ Wake(t)
  BY <1>0, <1>2, MutexTaken DEF keeper_acquire, Wake, Goto
<1>3. CASE keeper_release(t) \/ Check(t) \/ Mark(t) \/ Sleep(t) \/ luaL_error(t)
  BY <1>0, <1>3, MutexKept
     DEF keeper_release, Check, Mark, Sleep, luaL_error, Unlock, Finish, Goto, InKeeper
<1>4. CASE Timeout(t) \/ Spurious(t)
  BY <1>0, <1>4, MutexKept DEF Timeout, Spurious, Asleep, InKeeper
<1>5. CASE cancelRequest(t) \/ cancelPeek(t) \/ cancelPoke(t)
  BY <1>0, <1>5, MutexKept DEF cancelRequest, cancelPeek, cancelPoke, Goto, InKeeper
<1>6. CASE Try(t)
  <2>1. pc[t] \in InKeeper BY <1>6, TryGoes DEF InKeeper
  <2>2. \A u \in Thread \ {t} : pc'[u] = pc[u] /\ held'[u] = held[u]
    BY <1>0, <1>6, TryGoes
  <2> QED BY <2>1, <2>2, MutexKept
<1> QED BY <1>1, <1>2, <1>3, <1>4, <1>5, <1>6 DEF ThreadStep, Step

\* A keeper that has been left locked stays so.
LEMMA AbandonedStays ==
  ASSUME IInv, NEW t \in Thread, ThreadStep(t), NoneAbandoned'
  PROVE  NoneAbandoned
<1>0. /\ pc \in [Thread -> Labels] /\ held \in [Thread -> Nat]
      /\ pc[t] \in InKeeper => held[t] > 0
  BY DEF IInv, CallOK, TypeRest, InKeeper
<1> DEFINE In(l) == IF l \in InKeeper THEN 1 ELSE 0
<1>1. SUFFICES ASSUME \A u \in Thread \ {t} : pc'[u] = pc[u] /\ held'[u] = held[u],
                      held'[t] - In(pc'[t]) >= held[t] - In(pc[t]), held'[t] \in Nat
               PROVE  NoneAbandoned
  <2>1. CASE \E c \in Calls[t] : Call(t, c)
    BY <1>0, <1>1, <2>1 DEF Call, Goto, InKeeper
  <2>2. CASE keeper_acquire(t) \/ Wake(t)
    BY <1>0, <1>1, <2>2 DEF keeper_acquire, Wake, Lock, Goto, InKeeper
  <2>3. CASE keeper_release(t) \/ Sleep(t)
    BY <1>0, <1>1, <2>3 DEF keeper_release, Sleep, Unlock, Goto, InKeeper
  <2>4. CASE Check(t) \/ Mark(t) \/ luaL_error(t)
    BY <1>0, <1>1, <2>4 DEF Check, Mark, luaL_error, Finish, Goto, InKeeper
  <2>5. CASE Timeout(t) \/ Spurious(t)
    BY <1>0, <1>1, <2>5 DEF Timeout, Spurious
  <2>6. CASE cancelRequest(t) \/ cancelPeek(t) \/ cancelPoke(t)
    BY <1>0, <1>1, <2>6 DEF cancelRequest, cancelPeek, cancelPoke, Goto, InKeeper
  <2>7. CASE Try(t)
    BY <1>0, <1>1, <2>7, TryGoes DEF InKeeper
  <2> QED BY <2>1, <2>2, <2>3, <2>4, <2>5, <2>6, <2>7 DEF ThreadStep, Step
<1>2. ~Abandoned(t)
  BY <1>0, <1>1 DEF NoneAbandoned, Abandoned
<1> QED BY <1>1, <1>2 DEF NoneAbandoned, Abandoned

\* An error inside the keeper leaves it locked.
LEMMA RaiseAbandons ==
  ASSUME IInv, NEW t \in Thread, Try(t), pc'[t] = "raise"
  PROVE  ~NoneAbandoned'
<1>1. held[t] > 0 /\ held' = held
  BY TryGoes DEF IInv, CallOK
<1> QED BY <1>1 DEF NoneAbandoned, Abandoned, InKeeper

\* While the fifos do not change, what a call cannot do it still cannot.
LEMMA StuckSame ==
  ASSUME fifos' = fifos, NEW u, call'[u] = call[u]
  PROVE  Stuck(call[u])' <=> Stuck(call[u])
  BY DEF Stuck, CanProceed, fifoOf, HasData

\* A step of t that leaves the fifos alone and puts nobody else to sleep.
LEMMA QuietStep ==
  ASSUME WInv, NEW t \in Thread, fifos' = fifos,
         \A u \in Thread \ {t} : pc'[u] = pc[u] /\ call'[u] = call[u],
         \A g \in Signal : waiters'[g] \subseteq waiters[g] \cup {t},
         Waits(t)' => Stuck(call[t])'
  PROVE  StuckInv'
<1> SUFFICES ASSUME NEW u \in Thread, Waits(u)', u # t PROVE Stuck(call[u])'
  BY DEF StuckInv
<1>1. Waits(u)
  BY DEF Waits, Asleep, sleepsOn, Signal
<1> QED BY <1>1, StuckSame DEF WInv, StuckInv

\* The same for a step that leaves t awake, or where it was.
LEMMA AwakeStep ==
  ASSUME WInv, NEW t \in Thread, fifos' = fifos,
         \A u \in Thread \ {t} : pc'[u] = pc[u] /\ call'[u] = call[u],
         \A g \in Signal : waiters'[g] \subseteq waiters[g],
         pc'[t] \notin {"asleep", "mark", "sleep"} \/ (pc'[t] = pc[t] /\ call'[t] = call[t])
  PROVE  StuckInv'
<1>1. Waits(t)' => Stuck(call[t])'
  <2> SUFFICES ASSUME Waits(t)' PROVE Stuck(call[t])'
    OBVIOUS
  <2>1. pc'[t] = pc[t] /\ call'[t] = call[t]
    BY DEF Waits, Asleep
  <2>2. Waits(t)
    BY <2>1 DEF Waits, Asleep, sleepsOn, Signal
  <2> QED BY <2>1, <2>2, StuckSame DEF WInv, StuckInv
<1> QED BY <1>1, QuietStep

\* The steps that leave the fifos alone and put nobody to sleep.
LEMMA QuietActions ==
  ASSUME WInv, NEW t \in Thread,
         \/ \E c \in Calls[t] : Call(t, c)
         \/ keeper_acquire(t) \/ keeper_release(t) \/ luaL_error(t) \/ Check(t)
         \/ Timeout(t) \/ Spurious(t) \/ Wake(t)
         \/ cancelRequest(t) \/ cancelPeek(t) \/ cancelPoke(t)
         \/ Get(t) \/ Count(t) \/ Cancel(t) \/ Dump(t)
  PROVE  StuckInv'
<1>0. /\ pc \in [Thread -> Labels] /\ DOMAIN call = Thread
      /\ waiters \in [Signal -> SUBSET Thread]
  BY DEF WInv, IInv, CallOK, TypeRest
<1>1. CASE \E c \in Calls[t] : Call(t, c)
  <2>1. PICK c \in Calls[t] : Call(t, c) BY <1>1
  <2> QED BY <1>0, <2>1, AwakeStep DEF Call, Goto
<1>2. CASE keeper_acquire(t) BY <1>0, <1>2, AwakeStep DEF keeper_acquire, Goto
<1>3. CASE keeper_release(t) BY <1>0, <1>3, AwakeStep DEF keeper_release, Goto
<1>4. CASE luaL_error(t) BY <1>0, <1>4, AwakeStep DEF luaL_error, Goto
<1>5. CASE Check(t) BY <1>0, <1>5, AwakeStep DEF Check, Finish, Goto
<1>6. CASE Timeout(t) \/ Spurious(t)
  BY <1>0, <1>6, AwakeStep DEF Timeout, Spurious, LeaveWaiters
<1>7. CASE Wake(t) BY <1>0, <1>7, AwakeStep DEF Wake, Goto
<1>8. CASE cancelRequest(t) \/ cancelPeek(t) \/ cancelPoke(t)
  BY <1>0, <1>8, AwakeStep DEF cancelRequest, cancelPeek, cancelPoke, SIGNAL_ALL, Goto
<1>9. CASE Get(t) \/ Count(t)
  <2>1. /\ UNCHANGED <<fifos, waiters, call>>
        /\ pc' = [pc EXCEPT ![t] = "release"] \/ pc' = [pc EXCEPT ![t] = "raise"]
    BY <1>9 DEF Get, Count, Refused, TryUnchanged, Raise, Finish, Goto
  <2> QED BY <1>0, <2>1, AwakeStep
<1>10. CASE Cancel(t)
  <2>1. \A g \in Signal : waiters'[g] \subseteq waiters[g]
    BY <1>10 DEF Cancel, SIGNAL_ALL
  <2> QED BY <1>0, <1>10, <2>1, AwakeStep DEF Cancel, Finish, Goto
<1>11. CASE Dump(t) BY <1>0, <1>11, AwakeStep DEF Dump, Finish, Goto
<1> QED BY <1>1, <1>2, <1>3, <1>4, <1>5, <1>6, <1>7, <1>8, <1>9, <1>10, <1>11

\* Going to sleep: the thread was stuck and nobody has changed the fifos.
LEMMA SleepActions ==
  ASSUME WInv, NEW t \in Thread, Mark(t) \/ Sleep(t)
  PROVE  StuckInv'
<1>0. /\ pc \in [Thread -> Labels] /\ waiters \in [Signal -> SUBSET Thread]
  BY DEF WInv, IInv, CallOK, TypeRest
<1>1. Waits(t) /\ fifos' = fifos /\ call' = call
  BY DEF Mark, Sleep, Waits
<1>2. Stuck(call[t])'
  BY <1>1, StuckSame DEF WInv, StuckInv
<1> QED BY <1>0, <1>1, <1>2, QuietStep DEF Mark, Sleep, Goto

\* A step inside the keeper: nobody else is on the way to sleep.
LEMMA KeeperStep ==
  ASSUME WInv, NEW t \in Thread, pc[t] = "try", TryUnchanged,
         NEW l \in {"release", "mark"}, pc' = [pc EXCEPT ![t] = l],
         l = "mark" => Stuck(call[t])',
         \A u \in Thread \ {t} : Asleep(u)' => Stuck(call[u])'
  PROVE  StuckInv'
<1>0. /\ pc \in [Thread -> Labels] /\ held' = held /\ call' = call
      /\ \A u \in Thread \ {t} : pc'[u] = pc[u]
  BY DEF WInv, IInv, CallOK, TryUnchanged
<1>2. ASSUME NEW u \in Thread, Waits(u)' PROVE Stuck(call[u])'
  <2>1. CASE u = t
    BY <1>0, <1>2, <2>1 DEF Waits, Asleep
  <2>2. CASE u # t
    <3>1. pc[u] \notin InKeeper
      BY <2>2 DEF WInv, IInv, CallOK, Mutex, InKeeper
    <3>2. Asleep(u)'
      BY <1>0, <1>2, <2>2, <3>1 DEF Waits, InKeeper
    <3> QED BY <2>2, <3>2
  <2> QED BY <2>1, <2>2
<1> QED BY <1>2 DEF StuckInv

\* A sleeper stays stuck when no key gets room for one value (a sender), or
\* when no key gets more values (a receiver).
LEMMA StuckKept ==
  ASSUME NEW u, call'[u] = call[u], WellFormed(call[u]), call[u].f \in Blocking,
         Stuck(call[u]), FifosOK(fifos), FifosOK(fifos)',
         call[u].f = "send" =>
           \A k \in Key : Accepts(fifoOf(k), 1)' => Accepts(fifoOf(k), 1),
         call[u].f # "send" => \A k \in Key : fifoOf(k)'.count <= fifoOf(k).count
  PROVE  Stuck(call[u])'
<1>1. \A k \in Key : /\ fifoOf(k).count \in Nat /\ fifoOf(k)'.count \in Nat
                     /\ HasData(k) <=> fifoOf(k).count > 0
                     /\ HasData(k)' <=> fifoOf(k)'.count > 0
  BY DEF FifosOK, FifoOK, FifoType, HasData, fifoOf, fifo_new
<1>2. CASE call[u].f = "send"
  BY <1>2 DEF Stuck, CanProceed, WellFormed
<1>3. CASE call[u].f = "receive"
  <2>1. \A i \in DOMAIN call[u].keys : call[u].keys[i] \in Key
    BY <1>3 DEF WellFormed
  <2>2. \A i \in DOMAIN call[u].keys : ~HasData(call[u].keys[i])
    BY <1>3 DEF Stuck, CanProceed
  <2>3. \A i \in DOMAIN call[u].keys : ~HasData(call[u].keys[i])'
    BY <1>1, <1>3, <2>1, <2>2
  <2> QED BY <1>3, <2>3 DEF Stuck, CanProceed
<1>4. CASE call[u].f = "receive_batched"
  BY <1>1, <1>4 DEF Stuck, CanProceed, WellFormed, Enough
<1> QED BY <1>2, <1>3, <1>4 DEF Blocking

\* What is known of a thread that is asleep after a step inside the keeper.
LEMMA Sleeper ==
  ASSUME WInv, NEW t \in Thread, TryUnchanged, NEW u \in Thread \ {t}, pc'[u] = pc[u],
         Asleep(u)', \A g \in Signal : waiters'[g] \subseteq waiters[g]
  PROVE  /\ call'[u] = call[u] /\ WellFormed(call[u]) /\ call[u].f \in Blocking
         /\ Stuck(call[u]) /\ waiters'[sleepsOn(call[u])] # {}
<1>1. pc[u] = "asleep" /\ call' = call
  BY DEF Asleep, TryUnchanged
<1>2. WellFormed(call[u]) /\ call[u].f \in Blocking
  BY <1>1, CallsWellFormed DEF WInv, IInv, CallOK, Thread
<1>3. u \in waiters'[sleepsOn(call[u])]
  BY <1>1 DEF Asleep, sleepsOn
<1>4. Asleep(u)
  BY <1>1, <1>3 DEF Asleep, sleepsOn, Signal
<1> QED BY <1>1, <1>2, <1>3, <1>4 DEF WInv, StuckInv, Waits

\* What the keys read as when one fifo is replaced.
LEMMA FifoOfWith ==
  ASSUME NEW k, NEW f, fifos' = withFifo(k, f)
  PROVE  \A j : fifoOf(j)' = IF j = k THEN f ELSE fifoOf(j)
  BY DEF withFifo, fifoOf

\* What the operators on fifos do to the counters.
LEMMA PushCount ==
  ASSUME NEW f, FifoOK(f), NEW vs \in Seq(Stored)
  PROVE  fifo_push(f, vs).count = f.count + Len(vs) /\ fifo_push(f, vs).limit = f.limit
  BY DEF fifo_push, storeAfter, FifoOK, FifoType

\* fifo_pop() takes n off the count and leaves the limit.
LEMMA PopCount ==
  ASSUME NEW f, FifoOK(f), NEW n
  PROVE  fifo_pop(f, n).count = f.count - n /\ fifo_pop(f, n).limit = f.limit
  BY DEF fifo_pop, FifoOK, FifoType

\* A send() wakes the receivers, and makes no room.
LEMMA SendWakes ==
  ASSUME WInv, NEW t \in Thread, Send(t), pc'[t] # "raise"
  PROVE  StuckInv'
<1> DEFINE c == call[t]
           f == fifoOf(c.key)
<1>1. pc[t] = "try" /\ c.f = "send" /\ TryUnchanged /\ call' = call
  BY DEF Send, InCall, TryUnchanged
<1>2. c.key \in Key /\ c.vals \in Seq(Val \cup {Nil, Unsupported})
  BY <1>1, InCallWellFormed DEF WInv, WellFormed
<1>3. IInv' BY SendStep DEF WInv
<1>4. FifosOK(fifos) /\ FifosOK(fifos)' /\ waiters \in [Signal -> SUBSET Thread]
      /\ pc \in [Thread -> Labels]
  BY <1>3 DEF WInv, IInv, TypeRest, CallOK
<1>5. CASE fifos' = fifos /\ waiters' = waiters /\ pc' = [pc EXCEPT ![t] = "release"]
  <2>1. \A u \in Thread \ {t} : Asleep(u)' => Stuck(call[u])'
    BY <1>1, <1>4, <1>5, Sleeper, StuckSame
  <2> QED BY <1>1, <1>5, <2>1, KeeperStep
<1>6. CASE /\ Copyable(t, c.vals)
           /\ fifos' = withFifo(c.key, fifo_push(f, toKeeper(c.vals)))
           /\ SIGNAL_ALL({"write_happened"})
           /\ pc' = [pc EXCEPT ![t] = "release"]
  <2>1. FifoOK(f) /\ toKeeper(c.vals) \in Seq(Stored)
    BY <1>2, <1>4, <1>6, FifoOfShape, ToKeeper
  <2>2. \A k \in Key : /\ fifoOf(k)'.limit = fifoOf(k).limit
                       /\ fifoOf(k)'.count >= fifoOf(k).count
    <3>1. fifo_push(f, toKeeper(c.vals)).count >= f.count
      <4>1. fifo_push(f, toKeeper(c.vals)).count = f.count + Len(toKeeper(c.vals))
        BY <2>1, PushCount
      <4>2. f.count \in Nat /\ Len(toKeeper(c.vals)) \in Nat
        BY <2>1 DEF FifoOK, FifoType
      <4> QED BY <4>1, <4>2
    <3>2. fifo_push(f, toKeeper(c.vals)).limit = f.limit
      BY <2>1, PushCount
    <3> TAKE k \in Key
    <3>3. fifoOf(k)' = IF k = c.key THEN fifo_push(f, toKeeper(c.vals)) ELSE fifoOf(k)
      BY <1>6, FifoOfWith
    <3>4. fifoOf(k).count \in Nat
      BY <1>4, FifoOfShape DEF FifoOK, FifoType
    <3> QED BY <3>1, <3>2, <3>3, <3>4
  <2>3. \A k \in Key : Accepts(fifoOf(k), 1)' => Accepts(fifoOf(k), 1)
    <3> TAKE k \in Key
    <3>1. FifoOK(fifoOf(k)) /\ FifoOK(fifoOf(k)')
      BY <1>4, FifoOfShape DEF FifosOK, fifoOf, FifoOK, FifoType, fifo_new
    <3> QED BY <2>2, <3>1 DEF Accepts, FifoOK, FifoType
  <2>4. \A u \in Thread \ {t} : Asleep(u)' => Stuck(call[u])'
    <3> SUFFICES ASSUME NEW u \in Thread \ {t}, Asleep(u)' PROVE Stuck(call[u])'
      OBVIOUS
    <3>1. \A g \in Signal : waiters'[g] \subseteq waiters[g]
      BY <1>6 DEF SIGNAL_ALL
    <3>2. /\ call'[u] = call[u] /\ WellFormed(call[u]) /\ call[u].f \in Blocking
          /\ Stuck(call[u]) /\ waiters'[sleepsOn(call[u])] # {}
      BY <1>1, <1>4, <1>6, <3>1, Sleeper
    <3>3. call[u].f = "send"
      BY <1>6, <3>2 DEF SIGNAL_ALL, sleepsOn, Signal
    <3> QED BY <1>4, <2>3, <3>2, <3>3, StuckKept
  <2> QED BY <1>1, <1>6, <2>4, KeeperStep
<1>7. CASE ~Accepts(f, Len(c.vals)) /\ Blocked(t) /\ UNCHANGED <<fifos, waiters>>
           /\ pc' # [pc EXCEPT ![t] = "release"]
  <2>1. pc' = [pc EXCEPT ![t] = "mark"]
    BY <1>7 DEF Blocked, Finish, Goto
  <2>2. Stuck(call[t])
    BY <1>1, <1>7 DEF Stuck, CanProceed
  <2>3. Stuck(call[t])'
    BY <1>1, <1>7, <2>2, StuckSame
  <2>4. \A u \in Thread \ {t} : Asleep(u)' => Stuck(call[u])'
    BY <1>1, <1>4, <1>7, <2>1, Sleeper, StuckSame
  <2> QED BY <1>1, <2>1, <2>3, <2>4, KeeperStep
<1> QED BY <1>4, <1>5, <1>6, <1>7 DEF Send, Raise, Finish, Goto

\* receive() and receive(batched) wake the senders when they take values, and
\* else change no fifo.
LEMMA PopWakes ==
  ASSUME WInv, NEW t \in Thread, pc[t] = "try", TryUnchanged, FifosOK(fifos)',
         \A k \in Key : fifoOf(k)'.count <= fifoOf(k).count,
         \/ SIGNAL_ALL({"read_happened"}) /\ pc' = [pc EXCEPT ![t] = "release"]
         \/ /\ \A k \in Key : fifoOf(k)' = fifoOf(k)
            /\ waiters' = waiters
            /\ \/ pc' = [pc EXCEPT ![t] = "release"]
               \/ pc' = [pc EXCEPT ![t] = "mark"] /\ call[t].f \in Blocking /\ Stuck(call[t])
  PROVE  StuckInv'
<1>1. FifosOK(fifos) /\ call' = call /\ pc \in [Thread -> Labels]
  BY DEF WInv, IInv, CallOK, TryUnchanged
<1>2. \A g \in Signal : waiters'[g] \subseteq waiters[g]
  BY DEF SIGNAL_ALL
<1>3. ASSUME NEW u \in Thread \ {t}, Asleep(u)' PROVE Stuck(call[u])'
  <2>1. /\ call'[u] = call[u] /\ WellFormed(call[u]) /\ call[u].f \in Blocking
        /\ Stuck(call[u]) /\ waiters'[sleepsOn(call[u])] # {}
    BY <1>1, <1>2, <1>3, Sleeper
  <2>2. CASE \A k \in Key : fifoOf(k)' = fifoOf(k)
    BY <1>1, <2>1, <2>2, StuckKept DEF Accepts
  <2>3. CASE SIGNAL_ALL({"read_happened"})
    <3>1. call[u].f # "send"
      BY <2>1, <2>3 DEF SIGNAL_ALL, sleepsOn, Signal
    <3> QED BY <1>1, <2>1, <3>1, StuckKept
  <2> QED BY <2>2, <2>3
<1>4. CASE pc' = [pc EXCEPT ![t] = "release"]
  BY <1>3, <1>4, KeeperStep
<1>5. CASE /\ \A k \in Key : fifoOf(k)' = fifoOf(k)
           /\ pc' = [pc EXCEPT ![t] = "mark"] /\ call[t].f \in Blocking /\ Stuck(call[t])
  <2>1. WellFormed(call[t]) BY InCallWellFormed DEF WInv
  <2>2. Stuck(call[t])' BY <1>1, <1>5, <2>1, StuckKept DEF Accepts
  <2> QED BY <1>3, <1>5, <2>2, KeeperStep
<1> QED BY <1>4, <1>5

\* A receive() makes room, and wakes the senders.
LEMMA ReceiveWakes ==
  ASSUME WInv, NEW t \in Thread, Receive(t), pc'[t] # "raise"
  PROVE  StuckInv'
<1> DEFINE ks == call[t].keys
           hits == {i \in DOMAIN ks : HasData(ks[i]) /\ Oldest(ks[i]) # Nil}
           pop(i) == [k \in DOMAIN fifos |->
                        IF HasData(k) /\ \E j \in 1..i : ks[j] = k
                        THEN fifo_pop(fifos[k], 1) ELSE fifos[k]]
<1>1. pc[t] = "try" /\ call[t].f = "receive" /\ TryUnchanged
  BY DEF Receive, InCall
<1>2. ks \in Seq(Key) BY <1>1, InCallWellFormed DEF WInv, WellFormed
<1>3. IInv' BY ReceiveStep DEF WInv
<1>4. FifosOK(fifos) /\ FifosOK(fifos)' BY <1>3 DEF WInv, IInv
<1>5. \A k \in DOMAIN fifos : FifoOK(fifos[k]) BY <1>4 DEF FifosOK
<1>6. ASSUME NEW i, fifos' = pop(i)
      PROVE  \A k \in Key : fifoOf(k)'.count <= fifoOf(k).count
  <2> TAKE k \in Key
  <2>1. CASE k \in DOMAIN fifos
    <3>1. fifos[k].count \in Nat BY <1>5, <2>1 DEF FifoOK, FifoType
    <3>2. fifo_pop(fifos[k], 1).count = fifos[k].count - 1
      BY <1>5, <2>1, PopCount
    <3>3. fifoOf(k) = fifos[k] /\ fifoOf(k)' = pop(i)[k]
      BY <1>6, <2>1 DEF fifoOf
    <3> QED BY <2>1, <3>1, <3>2, <3>3
  <2>2. CASE k \notin DOMAIN fifos
    BY <1>6, <2>2 DEF fifoOf, fifo_new
  <2> QED BY <2>1, <2>2
<1>7. CASE /\ \E i \in hits : fifos' = pop(i)
           /\ SIGNAL_ALL({"read_happened"})
           /\ pc' = [pc EXCEPT ![t] = "release"]
  BY <1>1, <1>4, <1>6, <1>7, PopWakes
<1>8. CASE hits = {} /\ fifos' = pop(Len(ks)) /\ Blocked(t) /\ UNCHANGED waiters
  \* a value that the keeper holds is not nil, so there is none
  <2>1. \A k \in DOMAIN fifos : HasData(k) => Oldest(k) # Nil
    <3> SUFFICES ASSUME NEW k \in DOMAIN fifos, HasData(k) PROVE Oldest(k) # Nil
      OBVIOUS
    <3>1. fifos[k].first \in DOMAIN fifos[k].tab
      BY <1>5 DEF HasData, FifoOK, FifoType
    <3>2. Oldest(k) = fifos[k].tab[fifos[k].first]
      BY <1>5, <3>1 DEF Oldest, fifo_peek, FifoOK, FifoType
    <3>3. fifos[k].tab[fifos[k].first] \in Stored
      BY <1>5, <3>1 DEF FifoOK, FifoType, Stored
    <3> QED BY <3>2, <3>3, SentinelsDistinct DEF Stored
  <2>2. \A i \in DOMAIN ks : ~HasData(ks[i])
    BY <1>8, <2>1 DEF HasData
  <2>3. Stuck(call[t])
    BY <1>1, <2>2 DEF Stuck, CanProceed
  <2>4. \A k \in DOMAIN fifos : pop(Len(ks))[k] = fifos[k]
    BY <1>2, <2>2
  <2>5. \A k \in Key : fifoOf(k)' = fifoOf(k)
    BY <1>8, <2>4 DEF fifoOf
  <2>6. \A k \in Key : fifoOf(k)'.count <= fifoOf(k).count
    BY <1>6, <1>8
  <2>7. pc' = [pc EXCEPT ![t] = "release"] \/ pc' = [pc EXCEPT ![t] = "mark"]
    BY <1>8 DEF Blocked, Finish, Goto
  <2> QED BY <1>1, <1>4, <1>8, <2>3, <2>5, <2>6, <2>7, PopWakes DEF Blocking
<1>9. ~Raise(t) BY DEF Raise, Goto, WInv, IInv, CallOK
<1> QED BY <1>7, <1>8, <1>9 DEF Receive, Deliver, Finish, Goto

\* So does a batched one.
LEMMA ReceiveBatchedWakes ==
  ASSUME WInv, NEW t \in Thread, ReceiveBatched(t), pc'[t] # "raise"
  PROVE  StuckInv'
<1> DEFINE c == call[t]
           f == fifoOf(c.key)
           n == IF c.max < f.count THEN c.max ELSE f.count
<1>1. pc[t] = "try" /\ c.f = "receive_batched" /\ TryUnchanged
  BY DEF ReceiveBatched, InCall
<1>2. c.key \in Key /\ c.min \in Int /\ c.max \in Int /\ c.min <= c.max
  BY <1>1, InCallWellFormed DEF WInv, WellFormed
<1>3. IInv' BY ReceiveBatchedStep DEF WInv
<1>4. FifosOK(fifos) /\ FifosOK(fifos)' BY <1>3 DEF WInv, IInv
<1>5. \A k : fifoOf(k).count \in Nat /\ FifoOK(fifoOf(k))
  BY <1>4, FifoOfShape DEF FifoOK, FifoType
<1>6. CASE /\ Enough(f, c.min)
           /\ fifos' = withFifo(c.key, fifo_pop(f, n))
           /\ SIGNAL_ALL({"read_happened"})
           /\ pc' = [pc EXCEPT ![t] = "release"]
  <2>1. fifo_pop(f, n).count = f.count - n BY <1>5, PopCount
  <2>2. n \in Nat /\ f.count \in Nat BY <1>2, <1>5, <1>6 DEF Enough
  <2>3. \A k : fifoOf(k)' = IF k = c.key THEN fifo_pop(f, n) ELSE fifoOf(k)
    BY <1>6, FifoOfWith
  <2>4. \A k \in Key : fifoOf(k)'.count <= fifoOf(k).count
    <3> TAKE k \in Key
    <3>1. CASE k = c.key
      <4>1. fifoOf(k)' = fifo_pop(f, n) /\ fifoOf(k) = f BY <2>3, <3>1
      <4> HIDE DEF f, n
      <4> QED BY <2>1, <2>2, <4>1
    <3>2. CASE k # c.key
      <4>1. fifoOf(k)' = fifoOf(k) BY <2>3, <3>2
      <4> QED BY <1>5, <4>1
    <3> QED BY <3>1, <3>2
  <2> QED BY <1>1, <1>4, <1>6, <2>4, PopWakes
<1>7. CASE ~Enough(f, c.min) /\ Blocked(t) /\ UNCHANGED <<fifos, waiters>>
  <2>1. Stuck(call[t]) BY <1>1, <1>7 DEF Stuck, CanProceed
  <2>2. \A k \in Key : fifoOf(k)' = fifoOf(k) BY <1>7 DEF fifoOf
  <2>3. \A k \in Key : fifoOf(k)'.count <= fifoOf(k).count BY <1>5, <2>2
  <2>4. pc' = [pc EXCEPT ![t] = "release"] \/ pc' = [pc EXCEPT ![t] = "mark"]
    BY <1>7 DEF Blocked, Finish, Goto
  <2> QED BY <1>1, <1>4, <1>7, <2>1, <2>2, <2>3, <2>4, PopWakes DEF Blocking
<1>8. ~Raise(t) BY DEF Raise, Goto, WInv, IInv, CallOK
<1> QED BY <1>6, <1>7, <1>8 DEF ReceiveBatched, Deliver, Finish, Goto

\* set() and limit(): those who are not signalled stay stuck.
LEMMA SignalStep ==
  ASSUME WInv, NEW t \in Thread, pc[t] = "try", TryUnchanged, FifosOK(fifos)',
         pc' = [pc EXCEPT ![t] = "release"], NEW sigs, SIGNAL_ALL(sigs),
         "read_happened" \notin sigs =>
           \A k \in Key : Accepts(fifoOf(k), 1)' => Accepts(fifoOf(k), 1),
         "write_happened" \notin sigs =>
           \A k \in Key : fifoOf(k)'.count <= fifoOf(k).count
  PROVE  StuckInv'
<1>1. FifosOK(fifos) /\ call' = call /\ pc \in [Thread -> Labels]
  BY DEF WInv, IInv, CallOK, TryUnchanged
<1>2. \A g \in Signal : waiters'[g] \subseteq waiters[g]
  BY DEF SIGNAL_ALL
<1>3. ASSUME NEW u \in Thread \ {t}, Asleep(u)' PROVE Stuck(call[u])'
  <2>1. /\ call'[u] = call[u] /\ WellFormed(call[u]) /\ call[u].f \in Blocking
        /\ Stuck(call[u]) /\ waiters'[sleepsOn(call[u])] # {}
    BY <1>1, <1>2, <1>3, Sleeper
  <2>2. sleepsOn(call[u]) \notin sigs
    BY <2>1 DEF SIGNAL_ALL, sleepsOn, Signal
  <2> QED BY <1>1, <2>1, <2>2, StuckKept DEF sleepsOn
<1> QED BY <1>3, KeeperStep

\* A step of t inside the keeper that changes no fifo and signals nobody.
LEMMA NothingStep ==
  ASSUME WInv, NEW t \in Thread, pc[t] = "try", TryUnchanged,
         pc' = [pc EXCEPT ![t] = "release"], UNCHANGED <<fifos, waiters>>
  PROVE  StuckInv'
<1>1. call' = call /\ pc \in [Thread -> Labels]
  BY DEF WInv, IInv, CallOK, TryUnchanged
<1>2. \A u \in Thread \ {t} : Asleep(u)' => Stuck(call[u])'
  BY <1>1, Sleeper, StuckSame
<1> QED BY <1>2, KeeperStep

\* A set() wakes the receivers if it brings values, and the senders if it makes room.
LEMMA SetWakes ==
  ASSUME WInv, NEW t \in Thread, Set(t), pc'[t] # "raise"
  PROVE  StuckInv'
<1> DEFINE c == call[t]
           old == fifoOf(c.key)
           new == fifo_push([fifo_new EXCEPT !.limit = old.limit], toKeeper(c.vals))
           sigs == {g \in Signal : CASE g = "write_happened" -> c.vals # <<>>
                                      [] g = "read_happened" -> SetMakesRoom(c.key, Len(c.vals))}
<1>1. pc[t] = "try" /\ c.f = "set" /\ TryUnchanged
  BY DEF Set, Refused, InCall
<1>2. c.key \in Key /\ c.vals \in Seq(Val \cup {Nil, Unsupported})
  BY <1>1, InCallWellFormed DEF WInv, WellFormed
<1>3. IInv' BY SetStep DEF WInv
<1>4. FifosOK(fifos) /\ FifosOK(fifos)' BY <1>3 DEF WInv, IInv
<1>5. \A k : fifoOf(k).count \in Nat /\ fifoOf(k).limit \in Int /\ FifoOK(fifoOf(k))
  BY <1>4, FifoOfShape DEF FifoOK, FifoType
<1>6. CASE pc' = [pc EXCEPT ![t] = "release"] /\ UNCHANGED <<fifos, waiters>>
  BY <1>1, <1>6, NothingStep
<1>7. CASE /\ Copyable(t, c.vals)
           /\ fifos' = keepercall_set(c.key, c.vals)
           /\ SIGNAL_ALL(sigs)
           /\ pc' = [pc EXCEPT ![t] = "release"]
  <2>1. /\ "read_happened" \in sigs <=> SetMakesRoom(c.key, Len(c.vals))
        /\ "write_happened" \in sigs <=> c.vals # <<>>
    BY DEF Signal
  <2>2. new.count = Len(c.vals) /\ new.limit = old.limit /\ Len(c.vals) \in Nat
    <3>1. FifoOK([fifo_new EXCEPT !.limit = old.limit])
      BY <1>5, NewShape, LimitShape
    <3>2. /\ [fifo_new EXCEPT !.limit = old.limit].count = 0
          /\ [fifo_new EXCEPT !.limit = old.limit].limit = old.limit
      BY DEF fifo_new
    <3>3. toKeeper(c.vals) \in Seq(Stored) /\ Len(toKeeper(c.vals)) = Len(c.vals)
          /\ Len(c.vals) \in Nat
      BY <1>2, <1>7, ToKeeper
    <3>4. /\ new.count = [fifo_new EXCEPT !.limit = old.limit].count + Len(toKeeper(c.vals))
          /\ new.limit = [fifo_new EXCEPT !.limit = old.limit].limit
      BY <3>1, <3>3, PushCount
    <3> HIDE DEF new, old
    <3> QED BY <3>2, <3>3, <3>4
  <2>3. CASE c.vals = <<>> /\ (Unlimited(c.key) \/ c.key \notin DOMAIN fifos)
    <3>1. fifos' = Restrict(fifos, DOMAIN fifos \ {c.key})
      BY <1>7, <2>3 DEF keepercall_set
    <3>2. \A k \in Key \ {c.key} : fifoOf(k)' = fifoOf(k)
      BY <3>1 DEF fifoOf, Restrict
    <3>3. (\A k : k = c.key => fifoOf(k)'.count = 0) /\ old.limit < 0
      <4>1. DOMAIN fifos' = DOMAIN fifos \ {c.key}
        BY <3>1 DEF Restrict
      <4>2. \A k : k = c.key => fifoOf(k)' = fifo_new
        BY <4>1 DEF fifoOf, fifo_new
      <4>3. fifo_new.count = 0 /\ fifo_new.limit = -1
        BY DEF fifo_new
      <4>4. CASE c.key \notin DOMAIN fifos
        BY <4>2, <4>3, <4>4 DEF fifoOf
      <4>5. CASE c.key \in DOMAIN fifos
        <5>1. Unlimited(c.key) BY <2>3, <4>5
        <5>2. old = fifos[c.key] BY <4>5 DEF fifoOf
        <5> QED BY <4>2, <4>3, <5>1, <5>2 DEF Unlimited
      <4> QED BY <4>4, <4>5
    <3>4. \A k \in Key : fifoOf(k)'.count <= fifoOf(k).count
      <4> TAKE k \in Key
      <4>1. fifoOf(k).count \in Nat BY <1>5
      <4>2. CASE k = c.key BY <3>3, <4>1, <4>2
      <4>3. CASE k # c.key
        <5>1. fifoOf(k)' = fifoOf(k) BY <3>2, <4>3
        <5> QED BY <4>1, <5>1
      <4> QED BY <4>2, <4>3
    <3>5. \A k \in Key : Accepts(fifoOf(k), 1)' => Accepts(fifoOf(k), 1)
      BY <1>5, <3>2, <3>3 DEF Accepts
    <3> QED BY <1>1, <1>4, <1>7, <3>4, <3>5, SignalStep
  <2>4. CASE ~(c.vals = <<>> /\ (Unlimited(c.key) \/ c.key \notin DOMAIN fifos))
    <3>1. fifos' = withFifo(c.key, new)
      BY <1>7, <2>4 DEF keepercall_set
    <3>2. \A k : fifoOf(k)' = IF k = c.key THEN new ELSE fifoOf(k)
      BY <3>1, FifoOfWith
    <3>3. c.vals = <<>> => \A k \in Key : fifoOf(k)'.count <= fifoOf(k).count
      <4> HIDE DEF new
      <4>1. c.vals = <<>> => Len(c.vals) = 0 OBVIOUS
      <4> QED BY <1>5, <2>2, <3>2, <4>1
    <3>4. ~SetMakesRoom(c.key, Len(c.vals)) => (Accepts(new, 1) => Accepts(old, 1))
      <4> HIDE DEF new
      <4>1. c.key \in DOMAIN fifos => old = fifos[c.key] BY DEF fifoOf
      <4>2. c.key \notin DOMAIN fifos => old.limit = -1 BY DEF fifoOf, fifo_new
      <4> QED BY <1>5, <2>2, <4>1, <4>2 DEF Accepts, SetMakesRoom
    <3>5. ~SetMakesRoom(c.key, Len(c.vals)) =>
            \A k \in Key : Accepts(fifoOf(k), 1)' => Accepts(fifoOf(k), 1)
      <4> HIDE DEF new
      <4> QED BY <3>2, <3>4 DEF Accepts
    <3> QED BY <1>1, <1>4, <1>7, <2>1, <3>3, <3>5, SignalStep
  <2> QED BY <2>3, <2>4
<1>8. ~Raise(t) BY DEF Raise, Goto, WInv, IInv, CallOK
<1> QED BY <1>6, <1>7, <1>8 DEF Set, Refused, Finish, Goto

\* A limit() wakes the senders if it makes room.
LEMMA LimitWakes ==
  ASSUME WInv, NEW t \in Thread, Limit(t)
  PROVE  StuckInv'
<1> DEFINE c == call[t]
           f == fifoOf(c.key)
           sigs == IF LimitMakesRoom(f, c.n) THEN {"read_happened"} ELSE {}
<1>1. pc[t] = "try" /\ c.f = "limit" /\ TryUnchanged
  BY DEF Limit, Refused, InCall
<1>2. c.key \in Key /\ c.n \in Int
  BY <1>1, InCallWellFormed DEF WInv, WellFormed
<1>3. IInv' BY LimitStep DEF WInv
<1>4. FifosOK(fifos) /\ FifosOK(fifos)' BY <1>3 DEF WInv, IInv
<1>5. \A k : fifoOf(k).count \in Nat /\ fifoOf(k).limit \in Int /\ FifoOK(fifoOf(k))
  BY <1>4, FifoOfShape DEF FifoOK, FifoType
<1>6. CASE pc' = [pc EXCEPT ![t] = "release"] /\ UNCHANGED <<fifos, waiters>>
  BY <1>1, <1>6, NothingStep
<1>7. CASE /\ fifos' = withFifo(c.key, [f EXCEPT !.limit = c.n])
           /\ SIGNAL_ALL(sigs)
           /\ pc' = [pc EXCEPT ![t] = "release"]
  <2>1. [f EXCEPT !.limit = c.n].count = f.count /\ [f EXCEPT !.limit = c.n].limit = c.n
    BY <1>5 DEF FifoOK, FifoType
  <2>2. \A k : fifoOf(k)' = IF k = c.key THEN [f EXCEPT !.limit = c.n] ELSE fifoOf(k)
    BY <1>7, FifoOfWith
  <2>3. \A k \in Key : fifoOf(k)'.count <= fifoOf(k).count
    <3> TAKE k \in Key
    <3>1. fifoOf(k).count \in Nat BY <1>5
    <3>2. fifoOf(k)'.count = fifoOf(k).count
      <4>1. CASE k = c.key BY <2>1, <2>2, <4>1
      <4>2. CASE k # c.key BY <2>2, <4>2
      <4> QED BY <4>1, <4>2
    <3> QED BY <3>1, <3>2
  <2>4. ~LimitMakesRoom(f, c.n) => (Accepts([f EXCEPT !.limit = c.n], 1) => Accepts(f, 1))
    BY <1>2, <1>5, <2>1 DEF Accepts, LimitMakesRoom
  <2>5. ~LimitMakesRoom(f, c.n) =>
          \A k \in Key : Accepts(fifoOf(k), 1)' => Accepts(fifoOf(k), 1)
    BY <2>2, <2>4 DEF Accepts
  <2> QED BY <1>1, <1>4, <1>7, <2>3, <2>5, SignalStep
<1> QED BY <1>6, <1>7 DEF Limit, Refused, Finish, Goto

-------------------------------------------------------------------------------
\* The strengthened invariant holds.
THEOREM WakeupInvariant == Spec => []KeeperInv
<1>1. Init => KeeperInv
  <2> SUFFICES ASSUME Init PROVE KeeperInv
    OBVIOUS
  <2>1. IInv BY InitInvariant
  <2>2. Mutex /\ StuckInv
    BY DEF Init, InitLinda, Mutex, StuckInv, Waits, Asleep, InKeeper
  <2> QED BY <2>1, <2>2 DEF KeeperInv
<1>2. KeeperInv /\ [Next]_vars => KeeperInv'
  <2> SUFFICES ASSUME KeeperInv, [Next]_vars PROVE KeeperInv'
    OBVIOUS
  <2>1. IInv' BY NextInvariant DEF KeeperInv
  <2>2. CASE UNCHANGED vars
    <3>1. Mutex' BY <2>2 DEF vars, KeeperInv, Mutex
    <3>2. \A t \in Thread : Stuck(call[t])' <=> Stuck(call[t])
      BY <2>2, StuckSame DEF vars
    <3>3. NoneAbandoned' => NoneAbandoned BY <2>2 DEF vars, NoneAbandoned, Abandoned
    <3>4. NoneAbandoned' => StuckInv'
      BY <2>2, <3>2, <3>3 DEF vars, KeeperInv, StuckInv, Waits, Asleep
    <3> QED BY <2>1, <3>1, <3>4 DEF KeeperInv
  <2>3. CASE Next
    <3>1. PICK t \in Thread : ThreadStep(t) BY <2>3 DEF Next, ThreadStep
    <3>2. Mutex' BY <3>1, MutexStep DEF KeeperInv
    <3>3. ASSUME NoneAbandoned' PROVE StuckInv'
      <4>1. WInv BY <3>1, <3>3, AbandonedStays DEF KeeperInv, WInv
      <4>2. Try(t) => pc'[t] # "raise" BY <3>3, RaiseAbandons DEF KeeperInv
      <4> QED BY <3>1, <4>1, <4>2, QuietActions, SleepActions, SendWakes, ReceiveWakes,
                 ReceiveBatchedWakes, SetWakes, LimitWakes DEF ThreadStep, Step, Try
    <3> QED BY <2>1, <3>2, <3>3 DEF KeeperInv
  <2> QED BY <2>2, <2>3
<1> QED BY <1>1, <1>2, PTL DEF Spec

\* No wake-up of a receiver, or of a sender of one value, is lost, however
\* many threads, keys and values there are: whoever makes it able to proceed
\* signals it (the SIGNAL_ALL calls of the linda methods), or dies of an
\* error with the keeper locked.
THEOREM NoWakeupLost == Spec => []NoLostWakeup
<1>1. KeeperInv => NoLostWakeup
  <2> SUFFICES ASSUME KeeperInv, KeeperFree PROVE NoLostWakeup
    BY DEF NoLostWakeup
  <2>1. NoneAbandoned BY DEF KeeperFree, NoneAbandoned, Abandoned
  <2> QED BY <2>1 DEF KeeperInv, StuckInv, Waits, Stuck, NoLostWakeup
<1> QED BY <1>1, WakeupInvariant, PTL

-------------------------------------------------------------------------------
(* Nobody goes to sleep on a cancelled linda. send() and receive() look at   *)
(* the flag of the linda at the head of their loop and go to sleep at its    *)
(* end; linda_cancel() needs the keeper mutex, which they keep in between.   *)

\* The calls that may still go to sleep have seen a linda that is not
\* cancelled.
SeenUncancelled ==
  \A t \in Thread :
    pc[t] \in {"try", "mark", "sleep"} /\ call[t].f \in Blocking => simulate_cancel = "NONE"

\* Where a step other than linda_cancel() may take the threads.
LEMMA SeenKept ==
  ASSUME KeeperInv, SeenUncancelled, NEW t \in Thread, simulate_cancel' = simulate_cancel,
         \A u \in Thread \ {t} : pc'[u] = pc[u] /\ call'[u] = call[u],
         \/ pc'[t] \notin {"try", "mark", "sleep"}
         \/ call'[t].f \notin Blocking
         \/ pc[t] \in {"try", "mark", "sleep"} /\ call'[t] = call[t]
         \/ simulate_cancel = "NONE"
  PROVE  SeenUncancelled'
  BY DEF SeenUncancelled

\* Every step keeps it.
LEMMA SeenStep ==
  ASSUME KeeperInv, SeenUncancelled, [Next]_vars
  PROVE  SeenUncancelled'
<1>0. pc \in [Thread -> Labels] /\ DOMAIN call = Thread
  BY DEF KeeperInv, IInv, CallOK
<1>1. CASE UNCHANGED vars
  BY <1>1 DEF vars, SeenUncancelled
<1>2. ASSUME NEW t \in Thread, NEW c \in Calls[t], Call(t, c) PROVE SeenUncancelled'
  BY <1>0, <1>2, SeenKept DEF Call, Goto
<1>3. ASSUME NEW t \in Thread, keeper_acquire(t) PROVE SeenUncancelled'
  BY <1>0, <1>3, SeenKept DEF keeper_acquire, Goto
<1>4. ASSUME NEW t \in Thread, Check(t) PROVE SeenUncancelled'
  <2>1. \/ pc' = [pc EXCEPT ![t] = "release"]
        \/ pc' = [pc EXCEPT ![t] = "try"] /\ simulate_cancel = "NONE"
    BY <1>4 DEF Check, Finish, Goto, cancelOf
  <2> QED BY <1>0, <1>4, <2>1, SeenKept DEF Check
<1>5. ASSUME NEW t \in Thread, Mark(t) \/ Sleep(t) \/ keeper_release(t) \/ luaL_error(t)
      PROVE  SeenUncancelled'
  BY <1>0, <1>5, SeenKept DEF Mark, Sleep, keeper_release, luaL_error, Goto
<1>6. ASSUME NEW t \in Thread, cancelRequest(t) \/ cancelPeek(t) \/ cancelPoke(t)
      PROVE  SeenUncancelled'
  BY <1>0, <1>6, SeenKept DEF cancelRequest, cancelPeek, cancelPoke, Goto
<1>7. ASSUME NEW t \in Thread, Timeout(t) \/ Spurious(t) \/ Wake(t) PROVE SeenUncancelled'
  <2>1. /\ pc[t] = "asleep" /\ UNCHANGED <<simulate_cancel, call>>
        /\ UNCHANGED pc \/ pc' = [pc EXCEPT ![t] = "check"]
    BY <1>7 DEF Timeout, Spurious, Wake, Asleep, Goto
  <2> QED BY <1>0, <2>1, SeenKept
<1>8. ASSUME NEW t \in Thread, Try(t) PROVE SeenUncancelled'
  <2>1. CASE Cancel(t)
    <3>1. \A u \in Thread : pc[u] \in InKeeper => held[u] > 0 /\ held[u] \in Nat
      BY DEF KeeperInv, IInv, CallOK, TypeRest, InKeeper
    <3>2. \A u \in Thread \ {t} : pc[u] \notin InKeeper
      BY <2>1, <3>1 DEF Cancel, InCall, KeeperInv, Mutex, InKeeper
    <3>3. pc' = [pc EXCEPT ![t] = "release"]
      BY <2>1 DEF Cancel, Finish, Goto
    <3> QED BY <1>0, <3>2, <3>3 DEF SeenUncancelled, InKeeper
  <2>2. CASE Dump(t)
    BY <1>0, <2>2, SeenKept DEF Dump, InCall, Finish, Goto
  <2>3. CASE ~Cancel(t) /\ ~Dump(t)
    <3>1. pc[t] = "try" /\ TryUnchanged
      BY <1>8, <2>3 DEF Try, Send, Receive, ReceiveBatched, Set, Limit, Get, Count,
                        Refused, InCall
    <3>2. \E l : pc' = [pc EXCEPT ![t] = l]
      BY <1>8, <2>3 DEF Try, Send, Receive, ReceiveBatched, Set, Limit, Get, Count,
                        Refused, Deliver, Blocked, Raise, Finish, Goto
    <3> QED BY <1>0, <3>1, <3>2, SeenKept DEF TryUnchanged
  <2> QED BY <2>1, <2>2, <2>3
<1> QED BY <1>1, <1>2, <1>3, <1>4, <1>5, <1>6, <1>7, <1>8 DEF Next, Step

\* Only the steps into SIGNAL_WAIT add to the wait sets.
LEMMA OnlySleepWaits ==
  ASSUME KeeperInv, NEW t \in Thread, NEW s \in Signal,
         \/ \E c \in Calls[t] : Call(t, c)
         \/ keeper_acquire(t) \/ Step(t) \/ Timeout(t) \/ Spurious(t) \/ Wake(t),
         ~Sleep(t)
  PROVE  waiters'[s] \subseteq waiters[s]
<1>0. waiters \in [Signal -> SUBSET Thread]
  BY DEF KeeperInv, IInv, TypeRest
<1>1. CASE UNCHANGED waiters
  BY <1>1
<1>2. CASE \E sigs : SIGNAL_ALL(sigs)
  BY <1>2 DEF SIGNAL_ALL
<1>3. CASE LeaveWaiters(t)
  BY <1>0, <1>3 DEF LeaveWaiters
<1>4. CASE Try(t)
  <2>1. (\E sigs : SIGNAL_ALL(sigs)) \/ UNCHANGED waiters
    <3>1. CASE Send(t) \/ Receive(t) \/ ReceiveBatched(t)
      BY <3>1 DEF Send, Receive, ReceiveBatched, Deliver
    <3>2. CASE Set(t) BY <3>2 DEF Set, Refused
    <3>3. CASE Limit(t) BY <3>3 DEF Limit, Refused
    <3>4. CASE Get(t) \/ Count(t) \/ Cancel(t) \/ Dump(t)
      BY <3>4 DEF Get, Count, Cancel, Dump, Refused
    <3> QED BY <1>4, <3>1, <3>2, <3>3, <3>4 DEF Try
  <2> QED BY <1>1, <1>2, <2>1
<1>5. CASE ~Try(t)
  <2>1. UNCHANGED waiters \/ (\E sigs : SIGNAL_ALL(sigs)) \/ LeaveWaiters(t)
    BY <1>5 DEF Call, keeper_acquire, Step, Check, Mark, keeper_release, luaL_error, cancelRequest,
                cancelPeek, cancelPoke, Timeout, Spurious, Wake
  <2> QED BY <1>1, <1>2, <1>3, <2>1
<1> QED BY <1>4, <1>5

\* Nobody goes to sleep on a cancelled linda (linda_send, linda_receive,
\* linda_cancel), however many threads use it and whatever they call.
THEOREM CancelledNeverSlept == Spec => NoSleepOnCancelled
<1>1. Init => SeenUncancelled
  BY DEF Init, InitLinda, SeenUncancelled
<1>2. KeeperInv /\ SeenUncancelled /\ [Next]_vars =>
        [simulate_cancel = "SOFT" => \A s \in Signal : waiters'[s] \subseteq waiters[s]]_vars
  <2> SUFFICES ASSUME KeeperInv, SeenUncancelled, Next, simulate_cancel = "SOFT", NEW s \in Signal
               PROVE  waiters'[s] \subseteq waiters[s]
    OBVIOUS
  <2>1. PICK t \in Thread : \/ \E c \in Calls[t] : Call(t, c)
                            \/ keeper_acquire(t) \/ Step(t)
                            \/ Timeout(t) \/ Spurious(t) \/ Wake(t)
    BY DEF Next
  <2>2. ~Sleep(t)
    BY DEF Sleep, SeenUncancelled, KeeperInv, IInv, CallOK
  <2> QED BY <2>1, <2>2, OnlySleepWaits
<1>3. KeeperInv /\ SeenUncancelled /\ [Next]_vars => SeenUncancelled'
  BY SeenStep
<1> QED BY <1>1, <1>2, <1>3, WakeupInvariant, PTL DEF Spec, NoSleepOnCancelled
===============================================================================

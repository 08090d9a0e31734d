-------------------------------- MODULE Linda ---------------------------------
(***************************************************************************)
(* A Lanes linda shared by several OS threads (lanes.c, "Linda") and the   *)
(* keeper state that stores its data (keeper.c), on the pthread build.     *)
(*                                                                         *)
(* A thread that calls a linda method takes the mutex of the linda's       *)
(* keeper, runs the keeper function, wakes the other side's waiters and    *)
(* lets the mutex go; send() and receive() sleep on a condition variable   *)
(* when they cannot proceed. Whatever happens between two points where     *)
(* another thread can see or change the state is one action: the keeper    *)
(* mutex protects the data, but the cancellation of a lane                 *)
(* (thread_cancel) reads and writes the lane's record without it, so the   *)
(* steps of send() and receive() that touch that record are apart.         *)
(*                                                                         *)
(* Values are opaque. nil cannot be an element of a Lua table, so the      *)
(* methods exchange it for a sentinel on the way in and back on the way    *)
(* out.                                                                    *)
(***************************************************************************)
EXTENDS Integers, Sequences, Functions

CONSTANTS Lane,        \* threads made by lanes.gen()
          Main,        \* threads with no s_lane record
          Key, Val,    \* the keys, and the values the keeper can hold
          Nil,         \* Lua's nil
          NilSentinel, \* NIL_SENTINEL, what the keeper holds for a nil
          Unsupported, \* a value luaG_inter_copy refuses
          Foreign,     \* Foreign[t]: the values whose copy between the state
                       \* of t and the keeper raises an error
          Calls,       \* Calls[t]: the calls thread t may make
          MaxCalls     \* bound: how many calls a thread makes

ASSUME SentinelsDistinct ==
  /\ {Nil, NilSentinel, Unsupported} \cap Val = {}
  /\ Nil # NilSentinel /\ Unsupported \notin {Nil, NilSentinel}
WellFormed(c) ==
  /\ c.f \in {"send", "receive", "receive_batched", "set", "limit", "get", "count",
              "cancel", "dump", "thread_cancel"}
  /\ c.f \in {"send", "receive", "receive_batched"} => c.wait \in {"never", "timed", "forever"}
  /\ c.f \in {"send", "receive_batched", "set", "limit", "get"} => c.key \in Key
  /\ c.f \in {"send", "set"} => c.vals \in Seq(Val \cup {Nil, Unsupported})
  /\ c.f = "send" => c.vals # <<>>
  /\ c.f = "receive" => c.keys \in Seq(Key)
  /\ c.f = "receive_batched" => c.min \in Int /\ c.max \in Int /\ c.min <= c.max
  /\ c.f = "limit" => c.n \in Int
  /\ c.f = "get" => c.n \in Nat \ {0}
  /\ c.f = "count" => c.keys \subseteq Key
  /\ c.f = "thread_cancel" => /\ c.lane \in Lane /\ c.how \in {"SOFT", "HARD"}
                              /\ c.force \in BOOLEAN

\* The arguments that the methods let through to the keeper: "no data to
\* send", "batched min/max error", "count should be >= 1".
ASSUME CallsWellFormed ==
  /\ DOMAIN Calls = Lane \cup Main
  /\ \A t \in Lane \cup Main : \A c \in Calls[t] : WellFormed(c)
ASSUME ThreadKinds == Lane \cap Main = {} /\ MaxCalls \in Nat
ASSUME ForeignValues == Foreign \in [Lane \cup Main -> SUBSET Val]

Thread == Lane \cup Main
Signal == {"read_happened", "write_happened"}

VARIABLES
  storage,         \* the keeper has a fifos table for this linda
  fifos,           \* that table: key -> [first, count, limit, tab]
  simulate_cancel, \* linda->simulate_cancel
  held,            \* held[t]: how often t has locked keeper_cs (recursive)
  waiters,         \* the threads asleep on each condition variable
  cancel_request,  \* s->cancel_request of each lane
  status,          \* s->status
  waiting_on,      \* s->waiting_on
  pc, call,        \* where each thread is, and in which call
  try_again,       \* the local of send() and receive()
  peeked,          \* the local waiting_on of thread_cancel()
  ret,             \* what the call is about to return
  made             \* how many calls each thread has made

lane == <<cancel_request, status, waiting_on>>
vars == <<storage, fifos, simulate_cancel, held, waiters, lane, pc, call,
          try_again, peeked, ret, made>>

NoCall == [f |-> "none"]
NoResult == <<>>

-------------------------------------------------------------------------------
(* The keeper's fifos *)

\* The keeper functions make the table of the linda when it is missing.
push_table == storage' = TRUE

\* tab is the Lua table of the fifo: a slot that holds nil is not in its
\* domain.
fifo_new == [first |-> 1, count |-> 0, limit |-> -1, tab |-> <<>>]

fifoOf(k) == IF k \in DOMAIN fifos THEN fifos[k] ELSE fifo_new
withFifo(k, f) == [j \in DOMAIN fifos \cup {k} |-> IF j = k THEN f ELSE fifos[j]]

\* The values vs in the slots after number start.
storeAfter(f, vs, start) ==
  LET new  == (start + 1)..(start + Len(vs))
      full == {i \in new : vs[i - start] # Nil}
  IN [f EXCEPT !.tab = [i \in (DOMAIN f.tab \ new) \cup full |->
                          IF i \in full THEN vs[i - start] ELSE f.tab[i]],
               !.count = @ + Len(vs)]

\* A fifo_push() that forgets that first has moved.
fifo_pushFromOne(f, vs) == storeAfter(f, vs, f.count)
fifo_push(f, vs) == storeAfter(f, vs, f.first + f.count - 1)

fifo_peek(f, n) ==
  [i \in 1..n |-> LET at == f.first + i - 1
                  IN IF at \in DOMAIN f.tab THEN f.tab[at] ELSE Nil]

fifo_pop(f, n) ==
  [f EXCEPT !.tab = Restrict(@, DOMAIN @ \ (f.first..(f.first + n - 1))),
            !.first = IF f.count = n THEN 1 ELSE @ + n,
            !.count = @ - n]

\* keeper_toggle_nil_sentinels(), the two directions.
toKeeperRaw(vs) == vs
toKeeper(vs) == [i \in DOMAIN vs |-> IF vs[i] = Nil THEN NilSentinel ELSE vs[i]]
fromKeeper(vs) == [i \in DOMAIN vs |-> IF vs[i] = NilSentinel THEN Nil ELSE vs[i]]

\* luaG_inter_copy() takes the values in turn. At a thread it stops and
\* reports that. It raises an error in t, from inside keeper_call(), at a
\* function that t's state does not know and, on the way in, at a full
\* userdata or a table that holds what cannot be copied.
Copyable(t, vs) == \A i \in DOMAIN vs : vs[i] # Unsupported /\ vs[i] \notin Foreign[t]
CopyRaises(t, vs) ==
  \E i \in DOMAIN vs : vs[i] \in Foreign[t] /\ \A j \in 1..(i - 1) : vs[j] # Unsupported

-------------------------------------------------------------------------------
(* The keeper mutex, the signals, and the shape of a call *)

Free(t) == \A u \in Thread \ {t} : held[u] = 0
Lock(t) == Free(t) /\ held' = [held EXCEPT ![t] = @ + 1]
Unlock(t) == held' = [held EXCEPT ![t] = @ - 1]

\* pthread_cond_broadcast() on each signal of sigs.
SIGNAL_ALL(sigs) == waiters' = [s \in Signal |-> IF s \in sigs THEN {} ELSE waiters[s]]

Goto(t, l) == pc' = [pc EXCEPT ![t] = l]
Finish(t, r) == Goto(t, "release") /\ ret' = [ret EXCEPT ![t] = r]
InCall(t, l, f) == pc[t] = l /\ call[t].f = f

\* An error raised inside keeper_call().
Raise(t) == Goto(t, "raise") /\ UNCHANGED ret

Blocking == {"send", "receive", "receive_batched"}
\* The condition variable a blocked call sleeps on.
sleepsOn(c) == IF c.f = "send" THEN "read_happened" ELSE "write_happened"

\* A call that cannot proceed ends at once when its timeout is 0, and else
\* prepares to wait.
Blocked(t) ==
  IF call[t].wait = "never" THEN Finish(t, <<"nothing">>)
  ELSE Goto(t, "mark") /\ UNCHANGED ret

\* The checks that precede keeper_acquire() raise errors and change nothing,
\* so a call starts at the mutex; thread_cancel() does not take it.
Call(t, c) ==
  /\ pc[t] = "idle"
  /\ made[t] < MaxCalls
  /\ made' = [made EXCEPT ![t] = @ + 1]
  /\ call' = [call EXCEPT ![t] = c]
  /\ try_again' = [try_again EXCEPT ![t] = TRUE]
  /\ Goto(t, IF c.f = "thread_cancel" THEN "request" ELSE "acquire")
  /\ UNCHANGED <<storage, fifos, simulate_cancel, held, waiters, lane, peeked, ret>>

keeper_acquire(t) ==
  /\ pc[t] = "acquire"
  /\ Lock(t)
  /\ Goto(t, IF call[t].f \in Blocking THEN "check" ELSE "try")
  /\ UNCHANGED <<storage, fifos, simulate_cancel, waiters, lane, call, try_again,
                 peeked, ret, made>>

\* keeper_release(), and the return of the result.
keeper_release(t) ==
  /\ pc[t] = "release"
  /\ Unlock(t)
  /\ Goto(t, "idle")
  /\ call' = [call EXCEPT ![t] = NoCall]
  /\ try_again' = [try_again EXCEPT ![t] = TRUE]
  /\ ret' = [ret EXCEPT ![t] = NoResult]
  /\ UNCHANGED <<storage, fifos, simulate_cancel, waiters, lane, peeked, made>>

\* The error leaves the method: keeper_release() is jumped over, and the
\* keeper stays locked.
luaL_error(t) ==
  /\ pc[t] = "raise"
  /\ Goto(t, "idle")
  /\ call' = [call EXCEPT ![t] = NoCall]
  /\ try_again' = [try_again EXCEPT ![t] = TRUE]
  /\ UNCHANGED <<storage, fifos, simulate_cancel, held, waiters, lane, peeked, ret, made>>

-------------------------------------------------------------------------------
(* send() and receive() *)

\* A lane that forgets the flag of the linda.
cancelOfLane(t) == IF t \in Lane THEN cancel_request[t] ELSE simulate_cancel
cancelOf(t) == IF t \in Lane /\ cancel_request[t] # "NONE"
               THEN cancel_request[t] ELSE simulate_cancel

\* The head of the for(;;) loop.
Check(t) ==
  /\ pc[t] = "check"
  /\ IF ~try_again[t] \/ cancelOf(t) # "NONE"
     THEN Finish(t, <<"nothing">>)
     ELSE Goto(t, "try") /\ UNCHANGED ret
  /\ UNCHANGED <<storage, fifos, simulate_cancel, held, waiters, lane, call,
                 try_again, peeked, made>>

TryUnchanged == UNCHANGED <<simulate_cancel, held, lane, call, try_again, peeked, made>>

\* keepercall_send()'s test.
Accepts(f, n) == ~(f.limit >= 0 /\ f.count + n > f.limit)

Send(t) ==
  /\ InCall(t, "try", "send")
  /\ LET c == call[t]
         f == fifoOf(c.key)
     IN \/ /\ ~Copyable(t, c.vals)
           /\ IF CopyRaises(t, c.vals) THEN Raise(t) ELSE Finish(t, <<"nothing">>)
           /\ UNCHANGED <<storage, fifos, waiters>>
        \/ /\ Copyable(t, c.vals)
           /\ Accepts(f, Len(c.vals))
           /\ fifos' = withFifo(c.key, fifo_push(f, toKeeper(c.vals)))
           /\ push_table
           /\ SIGNAL_ALL({"write_happened"})
           /\ Finish(t, <<"sent">>)
        \/ /\ Copyable(t, c.vals)
           /\ ~Accepts(f, Len(c.vals))
           /\ Blocked(t)
           /\ push_table
           /\ UNCHANGED <<fifos, waiters>>
  /\ TryUnchanged

\* The values vs leave the keeper, where they are no more, and the answer is
\* r and vs. When their copy raises an error nobody is told of the room.
Deliver(t, r, vs) ==
  IF CopyRaises(t, vs)
  THEN Raise(t) /\ UNCHANGED waiters
  ELSE SIGNAL_ALL({"read_happened"}) /\ Finish(t, r \o fromKeeper(vs))

\* keepercall_receive() pops one value from each non-empty key in turn until
\* one gives something that is not nil: it stops at key number hit.
HasDataAny(k) == k \in DOMAIN fifos
HasData(k) == k \in DOMAIN fifos /\ fifos[k].count > 0
Oldest(k) == fifo_peek(fifos[k], 1)[1]

Receive(t) ==
  /\ InCall(t, "try", "receive")
  /\ LET ks     == call[t].keys
         hits   == {i \in DOMAIN ks : HasData(ks[i]) /\ Oldest(ks[i]) # Nil}
         \* popped when the loop stops at key number i
         pop(i) == [k \in DOMAIN fifos |->
                      IF HasData(k) /\ \E j \in 1..i : ks[j] = k
                      THEN fifo_pop(fifos[k], 1) ELSE fifos[k]]
     IN \/ \E i \in hits :
             /\ \A j \in hits : i <= j
             /\ fifos' = pop(i)
             /\ Deliver(t, <<"received", ks[i]>>, <<Oldest(ks[i])>>)
        \/ /\ hits = {}
           /\ fifos' = pop(Len(ks))
           /\ Blocked(t)
           /\ UNCHANGED waiters
  /\ push_table
  /\ TryUnchanged

\* keepercall_receive_batched(); with a min_count of 0 it does not look at the
\* fifo and cannot succeed.
Enough(f, min) == min > 0 /\ f.count >= min

ReceiveBatched(t) ==
  /\ InCall(t, "try", "receive_batched")
  /\ LET c == call[t]
         f == fifoOf(c.key)
         n == IF c.max < f.count THEN c.max ELSE f.count
     IN /\ storage' = (storage \/ c.min > 0)
        /\ \/ /\ Enough(f, c.min)
              /\ fifos' = withFifo(c.key, fifo_pop(f, n))
              /\ Deliver(t, <<"received", c.key>>, fifo_peek(f, n))
           \/ /\ ~Enough(f, c.min)
              /\ Blocked(t)
              /\ UNCHANGED <<fifos, waiters>>
  /\ TryUnchanged

\* The lane says that it waits, and on what. (Its two stores are one action:
\* thread_cancel() reads them in the other order, so a reader between them
\* acts as one before both.)
Mark(t) ==
  /\ pc[t] = "mark"
  /\ IF t \in Lane
     THEN /\ status' = [status EXCEPT ![t] = "WAITING"]
          /\ waiting_on' = [waiting_on EXCEPT ![t] = sleepsOn(call[t])]
     ELSE UNCHANGED <<status, waiting_on>>
  /\ Goto(t, "sleep")
  /\ UNCHANGED <<storage, fifos, simulate_cancel, held, waiters, cancel_request,
                 call, try_again, peeked, ret, made>>

\* SIGNAL_WAIT: pthread_cond_wait() enters the wait set and lets the mutex go.
Sleep(t) ==
  /\ pc[t] = "sleep"
  /\ waiters' = [waiters EXCEPT ![sleepsOn(call[t])] = @ \cup {t}]
  /\ Unlock(t)
  /\ Goto(t, "asleep")
  /\ UNCHANGED <<storage, fifos, simulate_cancel, lane, call, try_again, peeked,
                 ret, made>>

Asleep(t) == pc[t] = "asleep" /\ t \in waiters[sleepsOn(call[t])]
LeaveWaiters(t) == waiters' = [waiters EXCEPT ![sleepsOn(call[t])] = @ \ {t}]

\* A wait that forgets that it timed out.
TimeoutRetries(t) ==
  /\ Asleep(t) /\ call[t].wait = "timed"
  /\ LeaveWaiters(t)
  /\ UNCHANGED <<storage, fifos, simulate_cancel, held, lane, pc, call, peeked,
                 ret, made, try_again>>

\* The absolute time of the call is reached before a signal is.
Timeout(t) ==
  /\ Asleep(t)
  /\ call[t].wait = "timed"
  /\ LeaveWaiters(t)
  /\ try_again' = [try_again EXCEPT ![t] = FALSE]
  /\ UNCHANGED <<storage, fifos, simulate_cancel, held, lane, pc, call, peeked,
                 ret, made>>

\* pthread_cond_wait() may return without a signal.
Spurious(t) ==
  /\ Asleep(t)
  /\ LeaveWaiters(t)
  /\ UNCHANGED <<storage, fifos, simulate_cancel, held, lane, pc, call, try_again,
                 peeked, ret, made>>

\* The wait returns with the mutex locked again.
Wake(t) ==
  /\ pc[t] = "asleep" /\ ~Asleep(t)
  /\ Lock(t)
  /\ IF t \in Lane
     THEN /\ waiting_on' = [waiting_on EXCEPT ![t] = "NULL"]
          /\ status' = [status EXCEPT ![t] = "RUNNING"]
     ELSE UNCHANGED <<status, waiting_on>>
  /\ Goto(t, "check")
  /\ UNCHANGED <<storage, fifos, simulate_cancel, waiters, cancel_request, call,
                 try_again, peeked, ret, made>>

-------------------------------------------------------------------------------
(* set(), limit(), get(), count(), cancel(), dump() *)

\* set(), limit() and get() do nothing on a cancelled linda.
Refused(t, f) ==
  /\ InCall(t, "try", f)
  /\ simulate_cancel # "NONE"
  /\ Finish(t, <<"nothing">>)
  /\ UNCHANGED <<storage, fifos, waiters>>
  /\ TryUnchanged

Unlimited(k) == k \in DOMAIN fifos /\ fifos[k].limit < 0

\* A set() that wakes no writer.
SetMakesRoomNever(k, n) == FALSE
\* The fifo was full and is not when it holds n values.
SetMakesRoom(k, n) ==
  /\ k \in DOMAIN fifos
  /\ fifos[k].limit > 0 /\ fifos[k].count >= fifos[k].limit /\ n < fifos[k].limit

\* keepercall_set() without a value forgets an unlimited key, and empties a
\* limited one; with values it replaces what the key holds.
keepercall_set(k, vs) ==
  IF vs = <<>> /\ (Unlimited(k) \/ k \notin DOMAIN fifos)
  THEN Restrict(fifos, DOMAIN fifos \ {k})
  ELSE withFifo(k, fifo_push([fifo_new EXCEPT !.limit = fifoOf(k).limit], toKeeper(vs)))

Set(t) ==
  \/ Refused(t, "set")
  \/ /\ InCall(t, "try", "set")
     /\ simulate_cancel = "NONE"
     /\ LET c == call[t]
        IN \/ /\ ~Copyable(t, c.vals)
              /\ IF CopyRaises(t, c.vals) THEN Raise(t) ELSE Finish(t, <<"nothing">>)
              /\ UNCHANGED <<storage, fifos, waiters>>
           \/ /\ Copyable(t, c.vals)
              /\ fifos' = keepercall_set(c.key, c.vals)
              /\ push_table
              /\ SIGNAL_ALL({s \in Signal :
                     CASE s = "write_happened" -> c.vals # <<>>
                       [] s = "read_happened"  -> SetMakesRoom(c.key, Len(c.vals))})
              /\ Finish(t, <<"set">>)
     /\ TryUnchanged

\* keepercall_limit(): the key was full, and with limit n it is not. (In the
\* first form with > for >=.)
LimitMakesRoomLate(f, n) ==
  /\ f.limit >= 0 /\ f.count > f.limit
  /\ n < 0 \/ f.count < n
LimitMakesRoom(f, n) ==
  /\ f.limit >= 0 /\ f.count >= f.limit
  /\ n < 0 \/ f.count < n

Limit(t) ==
  \/ Refused(t, "limit")
  \/ /\ InCall(t, "try", "limit")
     /\ simulate_cancel = "NONE"
     /\ LET c == call[t]
            f == fifoOf(c.key)
        IN /\ fifos' = withFifo(c.key, [f EXCEPT !.limit = c.n])
           /\ SIGNAL_ALL(IF LimitMakesRoom(f, c.n) THEN {"read_happened"} ELSE {})
     /\ push_table
     /\ Finish(t, <<"limit">>)
     /\ TryUnchanged

\* At most n values, which stay in the fifo.
keepercall_get(f, n) == fifo_peek(f, IF n < f.count THEN n ELSE f.count)

Get(t) ==
  \/ Refused(t, "get")
  \/ /\ InCall(t, "try", "get")
     /\ simulate_cancel = "NONE"
     /\ LET vs == keepercall_get(fifoOf(call[t].key), call[t].n)
        IN IF CopyRaises(t, vs) THEN Raise(t) ELSE Finish(t, <<"got">> \o fromKeeper(vs))
     /\ push_table
     /\ UNCHANGED <<fifos, waiters>>
     /\ TryUnchanged

\* Unknown keys are left out.
keepercall_count(ks) == [k \in ks \cap DOMAIN fifos |-> fifos[k].count]

\* count() answers on a cancelled linda too.
Count(t) ==
  /\ InCall(t, "try", "count")
  /\ Finish(t, <<"count", keepercall_count(call[t].keys)>>)
  /\ push_table
  /\ UNCHANGED <<fifos, waiters>>
  /\ TryUnchanged

\* linda_cancel(): every hint but "none" cancels the whole linda; the hint
\* says who is woken to see it. An unknown hint is an error raised after the
\* flag is set.
Cancel(t) ==
  /\ InCall(t, "try", "cancel")
  /\ LET who == call[t].who
     IN /\ simulate_cancel' = IF who = "none" THEN "NONE" ELSE "SOFT"
        /\ SIGNAL_ALL(CASE who = "both"  -> Signal
                        [] who = "read"  -> {"write_happened"}
                        [] who = "write" -> {"read_happened"}
                        [] OTHER         -> {})
  /\ Finish(t, <<"nothing">>)
  /\ UNCHANGED <<storage, fifos, held, lane, call, try_again, peeked, made>>

\* keeper_push_linda_storage(): dump() and __towatch. When the keeper has no
\* table for the linda the function returns without keeper_release().
Dump(t) ==
  /\ InCall(t, "try", "dump")
  /\ IF storage
     THEN Finish(t, <<"nothing">>) /\ UNCHANGED call
     ELSE Goto(t, "idle") /\ call' = [call EXCEPT ![t] = NoCall] /\ UNCHANGED ret
  /\ UNCHANGED <<storage, fifos, simulate_cancel, held, waiters, lane, try_again,
                 peeked, made>>

-------------------------------------------------------------------------------
(* thread_cancel(), in the thread that owns the lane. The lane has not ended *)
(* (status < DONE); the wait for it to end and the kill that follow are the  *)
(* life of the lane, not of the linda.                                       *)

cancelRequest(t) ==
  /\ pc[t] = "request"
  /\ cancel_request' = [cancel_request EXCEPT ![call[t].lane] = call[t].how]
  /\ IF call[t].how = "HARD" \/ call[t].force
     THEN Goto(t, "peek") /\ UNCHANGED call
     ELSE Goto(t, "idle") /\ call' = [call EXCEPT ![t] = NoCall]
  /\ UNCHANGED <<storage, fifos, simulate_cancel, held, waiters, status, waiting_on,
                 try_again, peeked, ret, made>>

cancelPeek(t) ==
  /\ pc[t] = "peek"
  /\ peeked' = [peeked EXCEPT ![t] = waiting_on[call[t].lane]]
  /\ Goto(t, "poke")
  /\ UNCHANGED <<storage, fifos, simulate_cancel, held, waiters, lane, call,
                 try_again, ret, made>>

cancelPoke(t) ==
  /\ pc[t] = "poke"
  /\ SIGNAL_ALL(IF status[call[t].lane] = "WAITING" THEN {peeked[t]} \cap Signal ELSE {})
  /\ Goto(t, "idle")
  /\ call' = [call EXCEPT ![t] = NoCall]
  /\ peeked' = [peeked EXCEPT ![t] = "NULL"]
  /\ UNCHANGED <<storage, fifos, simulate_cancel, held, lane, try_again, ret, made>>

-------------------------------------------------------------------------------
\* A linda that no keeper function has touched (used = FALSE), or one whose
\* table exists but is empty.
InitLinda(used) ==
  /\ storage = used
  /\ fifos = <<>>
  /\ simulate_cancel = "NONE"
  /\ held = [t \in Thread |-> 0]
  /\ waiters = [s \in Signal |-> {}]
  /\ cancel_request = [l \in Lane |-> "NONE"]
  /\ status = [l \in Lane |-> "RUNNING"]
  /\ waiting_on = [l \in Lane |-> "NULL"]
  /\ pc = [t \in Thread |-> "idle"]
  /\ call = [t \in Thread |-> NoCall]
  /\ try_again = [t \in Thread |-> TRUE]
  /\ peeked = [t \in Thread |-> "NULL"]
  /\ ret = [t \in Thread |-> NoResult]
  /\ made = [t \in Thread |-> 0]

Init == InitLinda(FALSE)

Try(t) == \/ Send(t) \/ Receive(t) \/ ReceiveBatched(t)
          \/ Set(t) \/ Limit(t) \/ Get(t) \/ Count(t) \/ Cancel(t) \/ Dump(t)

\* What a thread does by itself once it is in a call.
Step(t) == \/ Check(t) \/ Try(t) \/ Mark(t) \/ Sleep(t) \/ keeper_release(t)
           \/ luaL_error(t)
           \/ cancelRequest(t) \/ cancelPeek(t) \/ cancelPoke(t)

Next == \E t \in Thread :
          \/ \E c \in Calls[t] : Call(t, c)
          \/ keeper_acquire(t)
          \/ Step(t)
          \/ Timeout(t) \/ Spurious(t) \/ Wake(t)

Spec == Init /\ [][Next]_vars

-------------------------------------------------------------------------------
(* Properties *)

FifoType(f) ==
  /\ DOMAIN f = {"first", "count", "limit", "tab"}
  /\ f.first \in Nat \ {0} /\ f.count \in Nat /\ f.limit \in Int
  /\ \A i \in DOMAIN f.tab : i \in Nat /\ f.tab[i] \in Val \cup {NilSentinel}

\* The types of the fields of the keeper's fifos, of s_Linda and s_lane.
TypeOK ==
  /\ storage \in BOOLEAN
  /\ DOMAIN fifos \subseteq Key
  /\ \A k \in DOMAIN fifos : FifoType(fifos[k])
  /\ simulate_cancel \in {"NONE", "SOFT"}
  /\ held \in [Thread -> Nat]
  /\ waiters \in [Signal -> SUBSET Thread]
  /\ cancel_request \in [Lane -> {"NONE", "SOFT", "HARD"}]
  /\ status \in [Lane -> {"RUNNING", "WAITING"}]
  /\ waiting_on \in [Lane -> Signal \cup {"NULL"}]
  /\ try_again \in [Thread -> BOOLEAN]
  /\ peeked \in [Thread -> Signal \cup {"NULL"}]
  /\ made \in [Thread -> 0..MaxCalls]

\* The slots of a fifo that are in use are first .. first + count - 1, with
\* no hole: fifo_peek(), fifo_pop() and keepercall_receive()'s test for nil
\* rely on it, however many calls have moved first.
FifoShape ==
  \A k \in DOMAIN fifos :
    LET f == fifos[k] IN DOMAIN f.tab = f.first..(f.first + f.count - 1)

CanProceed(c) ==
  CASE c.f = "send"            -> Accepts(fifoOf(c.key), Len(c.vals))
    [] c.f = "receive"         -> \E i \in DOMAIN c.keys : HasData(c.keys[i])
    [] c.f = "receive_batched" -> Enough(fifoOf(c.key), c.min)

\* Between keeper_acquire() and keeper_release() or SIGNAL_WAIT.
InKeeper == {"check", "try", "mark", "sleep", "release"}

\* The thread has left a method without keeper_release(): it holds the mutex
\* where it should not, or once more than it should.
Abandoned(t) == held[t] > IF pc[t] \in InKeeper THEN 1 ELSE 0

KeeperFree == \A t \in Thread : held[t] = 0

\* When nobody is inside the keeper, no receiver sleeps on data that is
\* there, and no sender of one value on room that is there: every operation
\* that makes a waiter able to proceed has woken it (the SIGNAL_ALL calls of
\* linda_send, linda_receive, linda_set and linda_limit).
NoLostWakeup ==
  KeeperFree => \A t \in Thread :
    Asleep(t) /\ (call[t].f = "send" => Len(call[t].vals) = 1) => ~CanProceed(call[t])

\* The same for senders of any number of values: the documentation of
\* limit() and set() promises to wake write-blocked threads when writes can
\* occur again.
WritersWoken ==
  KeeperFree => \A t \in Thread : Asleep(t) => ~CanProceed(call[t])

\* Nobody goes to sleep on a cancelled linda (linda_cancel sets the flag and
\* broadcasts in one critical section; send and receive look at the flag and
\* go to sleep in one).
NoSleepOnCancelled ==
  [][simulate_cancel = "SOFT" => \A s \in Signal : waiters'[s] \subseteq waiters[s]]_vars

\* A lane that has been told to stop, by a thread_cancel() that wakes it and
\* that is over, is not asleep in send() or receive().
CancelAwakens ==
  \A l \in Lane :
    /\ cancel_request[l] # "NONE"
    /\ \A t \in Thread : call[t].f # "thread_cancel"
    => ~Asleep(l)

\* Every negative limit means no limit, and a key that keepercall_set()
\* forgets comes back with -1 whichever it had.
Capacity(n) == IF n < 0 THEN -1 ELSE n

\* The fifos as the queues of LindaQueue.
Queue(k) == fromKeeper(fifo_peek(fifoOf(k), fifoOf(k).count))
Abs == INSTANCE LindaQueue WITH
         queue <- [k \in Key |-> Queue(k)],
         limit <- [k \in Key |-> Capacity(fifoOf(k).limit)],
         result <- ret,
         Rejects <- Foreign,
         Batch <- {c.vals : c \in {d \in UNION Range(Calls) : d.f \in {"send", "set"}}},
         Bound <- {Capacity(c.n) : c \in {d \in UNION Range(Calls) : d.f = "limit"}}

\* Every operation takes effect at once and as on a queue: values come out in
\* the order they went in, each once, all those of a send() or none, nil
\* included; a call that times out or is cancelled has no effect. Only a
\* receive() that raises an error loses what it took.
QueueRefined == Abs!QueueSpec

\* Every thread keeps executing, none starves on the mutex, and time passes:
\* a deadline is absolute, so a thread that spurious wake-ups send back to
\* its timed wait again and again meets it in the end.
Fairness ==
  \A t \in Thread : /\ WF_vars(Step(t))
                    /\ SF_vars(Timeout(t))
                    /\ SF_vars(keeper_acquire(t) \/ Wake(t))

\* A call that need not wait, or not for ever, returns, unless another
\* thread has left the keeper locked.
CallsEnd ==
  \A t \in Thread :
    (pc[t] # "idle" /\ (call[t].f \in Blocking => call[t].wait # "forever"))
      ~> (pc[t] = "idle" \/ \E u \in Thread \ {t} : Abandoned(u))

\* A receive(), or a send() of one value, is not stuck for ever while it
\* could proceed all along and nobody else has left the keeper locked.
Served ==
  \A t \in Thread :
    ~ <>[](/\ pc[t] = "asleep"
           /\ (call[t].f = "send" => Len(call[t].vals) = 1)
           /\ CanProceed(call[t])
           /\ \A u \in Thread \ {t} : ~Abandoned(u))
===============================================================================

--------------------------------- MODULE Deep ---------------------------------
(***************************************************************************)
(* Deep userdata (deep.c): a linda is one C object that many Lua states    *)
(* use, each through a proxy of its own. A proxy is ordinary userdata; its *)
(* finalizer takes one from the reference count, and the last one deletes  *)
(* the linda, for which it has to enter the linda's keeper.                *)
(*                                                                         *)
(* Lindas are sent through lindas, so that a proxy can sit in a keeper,    *)
(* and the collector of a keeper runs in the thread that has locked it:    *)
(* a deletion can start inside a call on another linda. A thread is        *)
(* therefore in a stack of calls, the one it executes last.                *)
(*                                                                         *)
(* A lane and its Lua state have one name. Lane says how lanes end; here   *)
(* an ended lane is joined or collected, and its state closed.             *)
(***************************************************************************)
EXTENDS Integers, Sequences, FiniteSets

CONSTANTS Lane, Main,  \* the states with a thread
          Keeper,      \* the keeper states
          Linda,       \* addresses of lindas; a freed one is used again
          Timer,       \* U->timer_deep
          KeeperOf,    \* LINDA_KEEPER_HASHSEED( linda) % nb_keepers
          None,
          MaxPending   \* bound on the proxies of one linda in one state
                       \* that wait for their finalizer

Thread == Lane \cup {Main}
State  == Thread \cup Keeper

ASSUME Names == /\ Main \notin Lane /\ Thread \cap Keeper = {}
                /\ Timer \in Linda /\ None \notin Linda
ASSUME Keepers == KeeperOf \in [Linda -> Keeper]
ASSUME Bound == MaxPending \in Nat \ {0}

VARIABLES
  live,      \* the lindas that are allocated
  refcount,  \* of each DEEP_PRELUDE
  proxies,   \* the proxies whose finalizer has not run
  cached,    \* those found through DEEP_PROXY_CACHE_KEY, a weak table
  holds,     \* the lindas that the program of each thread can name
  stored,    \* the lindas in the fifos of each linda
  frames,    \* the calls each thread is in
  phase,     \* of each thread: how far its state is
  keepers    \* the keepers: "up", "closing" (nb_keepers is 0) or "freed"

vars == <<live, refcount, proxies, cached, holds, stored, frames, phase, keepers>>

Proxy == [at : State, deep : Linda, n : 1 .. MaxPending + 1]
Of(d) == {p \in proxies : p.deep = d}
In(x) == {p \in proxies : p.at = x}

-------------------------------------------------------------------------------
(* Calls *)

Top(t) == frames[t][Len(frames[t])]
At(t, l) == frames[t] # <<>> /\ Top(t).pc = l
InF(t, f) == frames[t] # <<>> /\ Top(t).f = f

\* The thread runs its program, between two calls.
Running(t) == phase[t] = "run" /\ frames[t] = <<>>

Goto(t, l) == frames' = [frames EXCEPT ![t][Len(frames[t])].pc = l]
Call(t, f, d, e, x, l) ==
  frames' = [frames EXCEPT ![t] = Append(@, [f |-> f, d |-> d, e |-> e, at |-> x, pc |-> l])]
Return(t) == frames' = [frames EXCEPT ![t] = SubSeq(@, 1, Len(@) - 1)]

InKeeper == {"enter", "copied", "move"}
Holds(t, k) == \E i \in DOMAIN frames[t] :
                 frames[t][i].pc \in InKeeper /\ KeeperOf[frames[t][i].d] = k

\* keeper_cs as a plain mutex, and as the recursive one it is.
LockPlain(t, k) == \A u \in Thread : ~Holds(u, k)
Lock(t, k) == \A u \in Thread \ {t} : ~Holds(u, k)

\* A deletion takes the keeper; so does a call, in Begin.
keeper_acquire(t) ==
  /\ At(t, "acquire") /\ keepers = "up"
  /\ Lock(t, KeeperOf[Top(t).d])
  /\ Goto(t, "enter")
  /\ UNCHANGED <<live, refcount, proxies, cached, holds, stored, phase, keepers>>

-------------------------------------------------------------------------------
(* Proxies *)

\* A free address for the proxy: the first, since they are all alike.
FreshProxy(x, d) ==
  {p \in Proxy \ proxies : /\ p.at = x /\ p.deep = d
                           /\ \A q \in Proxy \ proxies : q.at = x /\ q.deep = d => p.n <= q.n}

Cached(x) == {p.deep : p \in {q \in cached : q.at = x}}

MakeProxy(x, d) ==
  \E p \in FreshProxy(x, d) : proxies' = proxies \cup {p} /\ cached' = cached \cup {p}

\* One that does not count the proxies of keepers, as docs/index.html has it,
\* and one that counts every use of a proxy.
push_uncounted(x, d, rc) ==
  IF d \in Cached(x) THEN refcount' = rc /\ UNCHANGED <<proxies, cached>>
  ELSE refcount' = (IF x \in Keeper THEN rc ELSE [rc EXCEPT ![d] = @ + 1]) /\ MakeProxy(x, d)
push_counted(x, d, rc) ==
  /\ refcount' = [rc EXCEPT ![d] = @ + 1]
  /\ IF d \in Cached(x) THEN UNCHANGED <<proxies, cached>> ELSE MakeProxy(x, d)
\* The counts are rc before the call. What linda_id() does for a new state
\* cannot fail.
push_deep_proxy(x, d, rc) ==
  IF d \in Cached(x) THEN refcount' = rc /\ UNCHANGED <<proxies, cached>>
  ELSE refcount' = [rc EXCEPT ![d] = @ + 1] /\ MakeProxy(x, d)

luaG_newdeepuserdata(t, d) ==
  /\ Running(t) /\ d \notin live \cup {Timer}
  /\ live' = live \cup {d}
  /\ push_deep_proxy(t, d, [refcount EXCEPT ![d] = 0])
  /\ holds' = [holds EXCEPT ![t] = @ \cup {d}]
  /\ UNCHANGED <<stored, frames, phase, keepers>>

\* The program forgets a linda; lanes.lua keeps timer_gateway.
Drop(t, d) ==
  /\ Running(t) /\ d \in holds[t] \ {Timer}
  /\ holds' = [holds EXCEPT ![t] = @ \ {d}]
  /\ UNCHANGED <<live, refcount, proxies, cached, stored, frames, phase, keepers>>

-------------------------------------------------------------------------------
(* Collection *)

\* What keeps the proxies of a state alive: variables, or the fifos of its
\* lindas and the stack of a call.
InCalls(k) == UNION {{frames[t][i].e : i \in {j \in DOMAIN frames[t] :
                         frames[t][j].pc \in {"copied", "move"} /\ KeeperOf[frames[t][j].d] = k}}
                     : t \in Thread}
Roots(x) == IF x \in Keeper
            THEN InCalls(x) \cup UNION {stored[d] : d \in {e \in Linda : KeeperOf[e] = x}}
            ELSE holds[x]

\* The thread may allocate in the state, and so step its collector: in its
\* own, between calls and when it takes a result, and in a keeper that it has
\* entered. A finalizer that runs keeps the collector of its state still.
Collects(t, x) ==
  /\ \A i \in DOMAIN frames[t] : ~(frames[t][i].f = "delete" /\ frames[t][i].at = x)
  /\ \/ x = t /\ (Running(t) \/ At(t, "move"))
     \/ (At(t, "enter") \/ At(t, "copied")) /\ x = KeeperOf[Top(t).d]

\* lj_gc_separateudata() and gc_clearweak(): a dead proxy leaves the cache
\* and waits for its finalizer.
Separate(t, x, p) ==
  /\ Collects(t, x)
  /\ p \in cached /\ p.at = x /\ p.deep \notin Roots(x)
  /\ Cardinality({q \in In(x) \ cached : q.deep = p.deep}) < MaxPending
  /\ cached' = cached \ {p}
  /\ UNCHANGED <<live, refcount, proxies, holds, stored, frames, phase, keepers>>

\* lua_close() runs all the finalizers of the state.
Closes(t, x) == /\ frames[t] = <<>>
                /\ \/ x = t /\ phase[t] = "closing"
                   \/ t = Main /\ keepers = "closing" /\ x \in Keeper

\* A test that is off by one, or made before the decrement.
LastOne(d) == refcount[d] = 2
LastZero(d) == refcount[d] = 0
\* v == 0, where v = -- (p->refcount)
Last(d) == refcount[d] = 1

deep_userdata_gc(t, x, p) ==
  /\ Collects(t, x) \/ Closes(t, x)
  /\ p \in proxies \ cached /\ p.at = x
  /\ proxies' = proxies \ {p}
  /\ refcount' = [refcount EXCEPT ![p.deep] = @ - 1]
  /\ IF Last(p.deep) THEN Call(t, "delete", p.deep, None, x, "acquire") ELSE UNCHANGED frames
  /\ UNCHANGED <<live, cached, holds, stored, phase, keepers>>

\* linda_id( eDO_delete). keepercall_clear() forgets the fifos, which are
\* known by the address of the linda.
clearNot(d) == stored' = stored
keepercall_clear(d) == stored' = [stored EXCEPT ![d] = {}]

Clear(t) ==
  /\ InF(t, "delete") /\ At(t, "enter")
  /\ keepercall_clear(Top(t).d)
  /\ Goto(t, "free")
  /\ UNCHANGED <<live, refcount, proxies, cached, holds, phase, keepers>>

\* keeper_acquire() has returned NULL: there is nothing left to clear.
NoKeeper(t) ==
  /\ At(t, "acquire") /\ keepers = "closing"
  /\ Goto(t, "free")
  /\ UNCHANGED <<live, refcount, proxies, cached, holds, stored, phase, keepers>>

Free(t) ==
  /\ At(t, "free")
  /\ live' = live \ {Top(t).d}
  /\ Return(t)
  /\ UNCHANGED <<refcount, proxies, cached, holds, stored, phase, keepers>>

-------------------------------------------------------------------------------
(* Operations on a linda that move lindas. One that waits tries again.  *)

\* A send(), or one of receive(), get() and set(): which one shows in the
\* keeper. timer_gateway belongs to lanes.lua and is not sent anywhere.
Begin(t, f, d, e) ==
  /\ Running(t) /\ d \in holds[t]
  /\ e \in IF f = "send" THEN holds[t] \ {Timer} ELSE {None}
  /\ Lock(t, KeeperOf[d])
  /\ Call(t, f, d, e, t, "enter")
  /\ UNCHANGED <<live, refcount, proxies, cached, holds, stored, phase, keepers>>

SendCopy(t) ==
  /\ InF(t, "send") /\ At(t, "enter")
  /\ push_deep_proxy(KeeperOf[Top(t).d], Top(t).e, refcount)
  /\ Goto(t, "copied")
  /\ UNCHANGED <<live, holds, stored, phase, keepers>>

\* Into the fifo, unless it is full.
SendPush(t) ==
  /\ At(t, "copied")
  /\ \/ stored' = [stored EXCEPT ![Top(t).d] = @ \cup {Top(t).e}]
     \/ UNCHANGED stored
  /\ Return(t)
  /\ UNCHANGED <<live, refcount, proxies, cached, holds, phase, keepers>>

\* receive() takes the value out of the fifo, unless it is there twice, and
\* get() leaves it there. None is a value that is no linda.
ReceivePop(t, e) ==
  /\ InF(t, "receive") /\ At(t, "enter")
  /\ e \in stored[Top(t).d] \cup {None}
  /\ \/ stored' = [stored EXCEPT ![Top(t).d] = @ \ {e}]
     \/ UNCHANGED stored
  /\ frames' = [frames EXCEPT ![t][Len(frames[t])].pc = "move",
                              ![t][Len(frames[t])].e = e]
  /\ UNCHANGED <<live, refcount, proxies, cached, holds, phase, keepers>>

ReceiveMove(t) ==
  /\ At(t, "move")
  /\ IF Top(t).e = None THEN UNCHANGED <<refcount, proxies, cached, holds>>
     ELSE /\ push_deep_proxy(t, Top(t).e, refcount)
          /\ holds' = [holds EXCEPT ![t] = @ \cup {Top(t).e}]
  /\ Return(t)
  /\ UNCHANGED <<live, stored, phase, keepers>>

ReceiveNothing(t) ==
  /\ InF(t, "receive") /\ At(t, "enter")
  /\ Return(t)
  /\ UNCHANGED <<live, refcount, proxies, cached, holds, stored, phase, keepers>>

\* set( key) empties the fifo.
Set(t, es) ==
  /\ InF(t, "receive") /\ At(t, "enter")
  /\ es \subseteq stored[Top(t).d] /\ es # stored[Top(t).d]
  /\ stored' = [stored EXCEPT ![Top(t).d] = es]
  /\ Return(t)
  /\ UNCHANGED <<live, refcount, proxies, cached, holds, phase, keepers>>

-------------------------------------------------------------------------------
(* Lanes come and go *)

\* The arguments and upvalues of the lane are copied to its new state, and
\* lanes.core opened there has a proxy of the timer linda.
lane_new(t, u, ds) ==
  /\ Running(t) /\ phase[u] = "none"
  /\ ds \subseteq holds[t] \cup {Timer}
  /\ phase' = [phase EXCEPT ![u] = "run"]
  /\ holds' = [holds EXCEPT ![u] = ds]
  /\ proxies' = proxies \cup {[at |-> u, deep |-> d, n |-> 1] : d \in ds}
  /\ cached' = cached \cup {[at |-> u, deep |-> d, n |-> 1] : d \in ds}
  /\ refcount' = [d \in Linda |-> IF d \in ds THEN refcount[d] + 1 ELSE refcount[d]]
  /\ UNCHANGED <<live, stored, frames, keepers>>

\* The body returns, and what it returns stays in its state.
EndBody(u) ==
  /\ Running(u)
  /\ phase' = [phase EXCEPT ![u] = "done"]
  /\ UNCHANGED <<live, refcount, proxies, cached, holds, stored, frames, keepers>>

\* thread_join() copies a result.
JoinMove(t, u, e) ==
  /\ Running(t) /\ phase[u] = "done" /\ e \in holds[u]
  /\ push_deep_proxy(t, e, refcount)
  /\ holds' = [holds EXCEPT ![t] = @ \cup {e}]
  /\ UNCHANGED <<live, stored, frames, phase, keepers>>

\* lua_close(), which the joining or collecting thread calls for the lane.
lua_close(x) ==
  /\ phase' = [phase EXCEPT ![x] = "closing"]
  /\ holds' = [holds EXCEPT ![x] = {}]
  /\ cached' = {p \in cached : p.at # x}
  /\ UNCHANGED <<live, refcount, proxies, stored, frames, keepers>>

Close(u) == phase[u] = "done" /\ lua_close(u)
MainClose == Running(Main) /\ lua_close(Main)

Closed(u) ==
  /\ phase[u] = "closing" /\ frames[u] = <<>> /\ In(u) = {}
  /\ phase' = [phase EXCEPT ![u] = "closed"]
  /\ UNCHANGED <<live, refcount, proxies, cached, holds, stored, frames, keepers>>

\* The end of selfdestruct_gc(): the timer linda goes, counted or not.
TimerGone ==
  /\ phase[Main] = "closing" /\ frames[Main] = <<>> /\ In(Main) = {}
  /\ \A u \in Lane : phase[u] \in {"none", "closed"}
  /\ refcount' = [refcount EXCEPT ![Timer] = @ - 1]
  /\ Call(Main, "delete", Timer, None, Main, "acquire")
  /\ phase' = [phase EXCEPT ![Main] = "keepers"]
  /\ UNCHANGED <<live, proxies, cached, holds, stored, keepers>>

\* nb_keepers is set to 0 first, so that the order in which their states are
\* closed does not matter.
close_keepers ==
  /\ phase[Main] = "keepers" /\ frames[Main] = <<>> /\ keepers = "up"
  /\ keepers' = "closing"
  /\ stored' = [d \in Linda |-> {}]
  /\ cached' = {p \in cached : p.at \notin Keeper}
  /\ UNCHANGED <<live, refcount, proxies, holds, frames, phase>>

KeepersClosed ==
  /\ keepers = "closing" /\ frames[Main] = <<>> /\ \A k \in Keeper : In(k) = {}
  /\ keepers' = "freed"
  /\ phase' = [phase EXCEPT ![Main] = "end"]
  /\ UNCHANGED <<live, refcount, proxies, cached, holds, stored, frames>>

-------------------------------------------------------------------------------
\* lanes.configure() has made the timer linda, with a proxy in the main state
\* and a reference of the universe.
Init ==
  /\ live = {Timer}
  /\ refcount = [d \in Linda |-> IF d = Timer THEN 2 ELSE 0]
  /\ proxies = {[at |-> Main, deep |-> Timer, n |-> 1]}
  /\ cached = proxies
  /\ holds = [t \in Thread |-> IF t = Main THEN {Timer} ELSE {}]
  /\ stored = [d \in Linda |-> {}]
  /\ frames = [t \in Thread |-> <<>>]
  /\ phase = [t \in Thread |-> IF t = Main THEN "run" ELSE "none"]
  /\ keepers = "up"

Program(t) ==
  \/ \E d \in Linda : luaG_newdeepuserdata(t, d) \/ Drop(t, d)
  \/ \E f \in {"send", "receive"}, d \in Linda, e \in Linda \cup {None} :
       Begin(t, f, d, e)
  \/ \E u \in Lane, ds \in SUBSET Linda : lane_new(t, u, ds)
  \/ \E u \in Lane, e \in Linda : JoinMove(t, u, e)

\* What a thread has to do next.
Step(t) ==
  \/ keeper_acquire(t) \/ NoKeeper(t) \/ Clear(t) \/ Free(t)
  \/ SendCopy(t) \/ SendPush(t) \/ ReceiveMove(t) \/ ReceiveNothing(t)
  \/ \E e \in Linda \cup {None} : ReceivePop(t, e)
  \/ \E es \in SUBSET Linda : Set(t, es)

Collector(t) ==
  \E x \in State, p \in proxies : Separate(t, x, p) \/ deep_userdata_gc(t, x, p)

Next ==
  \/ \E t \in Thread : Program(t) \/ Step(t) \/ Collector(t)
  \/ \E u \in Lane : EndBody(u) \/ Close(u) \/ Closed(u)
  \/ MainClose \/ TimerGone \/ close_keepers \/ KeepersClosed

Spec == Init /\ [][Next]_vars

\* A thread goes on with the call it is in, and a keeper that is free again
\* and again is acquired.
Fairness == \A t \in Thread : WF_vars(Step(t)) /\ SF_vars(keeper_acquire(t))

FairSpec == Spec /\ Fairness

-------------------------------------------------------------------------------
(* Properties *)

Frame == [f : {"send", "receive", "delete"}, d : Linda,
          e : Linda \cup {None}, at : State,
          pc : {"acquire", "enter", "copied", "move", "free"}]

\* The types of the variables; a count is never negative.
TypeOK ==
  /\ live \subseteq Linda
  /\ refcount \in [Linda -> Nat]
  /\ cached \subseteq proxies /\ proxies \subseteq Proxy
  /\ holds \in [Thread -> SUBSET Linda]
  /\ stored \in [Linda -> SUBSET Linda]
  /\ frames \in [Thread -> Seq(Frame)]
  /\ phase \in [Thread -> {"none", "run", "done", "closing", "closed", "keepers", "end"}]
  /\ keepers \in {"up", "closing", "freed"}

\* The reference of U->timer_deep.
UniverseRef(d) == IF d = Timer /\ phase[Main] \in {"run", "done", "closing"} THEN 1 ELSE 0

Deleting(d) == {t \in Thread : \E i \in DOMAIN frames[t] :
                                 frames[t][i].f = "delete" /\ frames[t][i].d = d}

\* refcount is the number of proxies, those in keepers and those that wait
\* for their finalizer included; for the timer linda, the universe is one
\* more.
RefcountExact ==
  \A d \in live : refcount[d] = Cardinality(Of(d)) + UniverseRef(d)

\* No proxy, variable, fifo or call refers to a linda that has been freed or
\* is being deleted, except the deletion itself.
NoStalePointer ==
  /\ \A p \in proxies : p.deep \in live /\ Deleting(p.deep) = {}
  /\ \A t \in Thread : \A d \in holds[t] : d \in live /\ Deleting(d) = {}
  /\ \A c \in Linda : \A d \in stored[c] : d \in live /\ Deleting(d) = {}
  /\ \A t \in Thread : \A i \in DOMAIN frames[t] : frames[t][i].d \in live

\* A linda that is made at a used address finds no values of the old one.
FreshEmpty == \A d \in Linda \ live : stored[d] = {}

\* A linda that is alive has a proxy, or one thread deletes it; when the
\* universe is gone, so are all lindas, those stored in one another too.
NoneLeaked ==
  /\ \A d \in live : Of(d) # {} \/ UniverseRef(d) = 1 \/ Cardinality(Deleting(d)) = 1
  /\ keepers = "freed" => live = {} /\ proxies = {}

\* keeper.c has one recursive mutex for each keeper and no order among them:
\* threads that have each entered a keeper, and delete there a linda of a
\* keeper that another of them has entered, wait for each other for ever.
WaitsFor(t, u) == /\ u # t /\ keepers = "up"
                  /\ At(t, "acquire") /\ Holds(u, KeeperOf[Top(t).d])
Deadlocked == \E S \in SUBSET Thread \ {{}} : \A t \in S : \E u \in S : WaitsFor(t, u)

\* A call ends, whatever is collected and deleted inside it, also inside the
\* same keeper, unless threads wait for each other's keepers, which takes two
\* keepers.
CallsEnd == \A t \in Thread : frames[t] # <<>> ~> (frames[t] = <<>> \/ Deadlocked)

\* docs/index.html: "Deep userdata in transit inside keeper states (sent in a
\* linda but not yet consumed) don't call idfunc(eDO_delete) and aren't
\* considered by reference counting". push_deep_proxy() counts them.
KeepersUncounted ==
  \A d \in live : refcount[d] = Cardinality({p \in Of(d) : p.at \notin Keeper}) + UniverseRef(d)
===============================================================================

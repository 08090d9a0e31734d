# Verification of LuaJIT for Android: collector and lanes

This directory models the parts of the repository where several activities
meet in shared state: the incremental garbage collector of the bundled LuaJIT,
which runs between any two operations of the program it collects for; the
lindas of the bundled Lanes library, through which OS threads talk to each
other; the life of those threads, from `lane_new` to the end of the process;
and the reference counts of the objects that several Lua states share. TLC
checks the models on small instances, TLAPS proves the central invariants for
every instance.

    LjGc ── LjGcHeap ──(implements)── GcHeap         Linda ──(implements)── LindaQueue
     │ └─── LjGcApi                                    └── LindaProofs ── LindaRefines
     └── LjGcProofs ── LjGcSafety ── LjGcRefines     Lane ── LaneProofs
                                      └ LjGcHeap     Deep ── DeepProofs
    runs: MCLjGc, MCLjGcTables,                      runs: MCLinda, Lane, MCDeep
          MCLjGcClosures, MCLjGcApi

## 1. Inventory

The repository cross-compiles LuaJIT 2.1 and some thirty Lua libraries for
Android. Its own files are build scripts and patches; the logic is in
`src/luajit/src/src` (the runtime), in `src/lanes/src/src` (threads and message
passing, patched for Android in `threading.c`) and in small bindings.

| component | state | operations | interacts with |
|---|---|---|---|
| collector (`lj_gc.c`, `lj_gc.h`) | `g->gc`: state, current white, gray lists, sweep position, mmudata | `gc_onestep`, `atomic`, `lj_gc_fullgc`, barriers | every store and allocation of the VM and the API |
| closures and upvalues (`lj_func.c`) | open upvalue list per thread, closed upvalues | `func_finduv`, `lj_func_closeuv`, closure creation | collector colors, thread stacks |
| strings (`lj_str.c`) | hash table of interned strings | `lj_str_new`, `lj_str_resize` | string sweep |
| threads (`lj_state.c`) | stack, top, openupval | new, free, grow, shrink | collector, upvalues |
| tables (`lj_tab.c`) | array and hash part | get, set, rehash | barriers, weak clearing |
| traces (`lj_trace.c` and below) | trace table, `jit_base` | record, compile, enter, exit | hold up `atomic()` and finalizers |
| parser, bytecode, FFI, libraries | | sequential | |
| lindas (`lanes.c`) | `simulate_cancel`, two condition variables | send, receive, set, get, count, limit, cancel, dump | keepers, lanes |
| keepers (`keeper.c`) | one Lua state and recursive mutex each; per linda and key a fifo | `keepercall_*`, acquire, release | lindas |
| lanes (`lanes.c`) | `s_lane`: status, cancel_request, waiting_on; selfdestruct chain | start, join, cancel, kill, gc | lindas, the end of the process |
| deep userdata (`deep.c`) | reference counts under `deep_lock` | proxies in several states | lindas |
| copies between states (`tools.c`) | caches in the registry | `luaG_inter_copy/move` | keepers, lanes |
| timers, locks (`lanes.lua`) | a timer lane and its linda | timer, genlock, genatomic | lindas |
| llthreads2, lua-ev, luasocket, sensors, luajava, ... | bindings | | |

What is hard about them: a collection cycle is cut into steps that interleave
with arbitrary stores, so that a color read at one step is stale at the next; a
store, a scope that ends, a thread that dies, a resurrected string or upvalue, a
finalizer and a full collection each hit the cycle at any point. In Lanes, a
thread tests a condition and goes to sleep while another makes the condition
true, cancels it, or changes the limit it was tested against; some of the state
involved (`cancel_request`, `status`, `waiting_on`) is touched without any lock.
A lane ends while its handle is collected, joined, cancelled or killed from
another thread; the collector of a keeper deletes a linda in the middle of a call
on another one. `PROJECT.json` lists each of these hazards with its line and the property that
would notice it.

What makes the parts correct:

* collector: nothing reachable is freed, nothing freed is reachable; it changes
  nothing a program can see, weak tables excepted; garbage is freed and
  finalizers are called in the end; a cycle ends.
* linda: every operation acts at one instant on first-in first-out queues; no
  wake-up is lost; calls with a timeout return; a cancelled call ends.
* lane: its Lua state is used by one thread at a time and closed once; its record
  is freed once, by someone, and not used afterwards; the end of the process
  stops or waits for every lane.
* deep object: it lives as long as a proxy of it does, in whichever state, and no
  longer; deleting it blocks nobody.

## 2. Modules

### LjGc: the collector and its mutator

An object is an address. The constants `Thread`, `Tab`, `Func`, `Upval`, `Udata`
and `Str` partition the addresses by type; a freed address can be used again. The
content of an object is what refers to other objects: stack slots and `top`,
table nodes and metatable, the upvalue of a closure, the slot or cell of an
upvalue, the metatable of a userdata. `WeakKeyTab`, `WeakValTab` and `FinMeta`
say which tables are weak and which hold a `__gc`.

| model | code |
|---|---|
| `marked[o]` "white" / "other" / "gray" / "black" | color bits relative to `currentwhite`; "other" is what `isdead()` tests |
| `gray`, `grayagain`, `weak` | the lists linked by `gclist`; sets, since the order of visits does not matter to the properties |
| `tosweep`, `sweepstr` | what `g->gc.sweep` has not visited; next string chain |
| `mmudata`, `finalized` | userdata awaiting its finalizer; the finalized bit |
| `aphase` | how far `atomic()` is. Its gray list is emptied object by object, and nothing else runs meanwhile |
| `jit` "off" / "on" / "exit" | outside compiled code; `jit_base` set; between a trace exit and the collector step it makes |
| `full` | inside `lj_gc_fullgc()`: finishing the sweep, then a whole cycle |
| `MarkStart` .. `FinalizeEnd` | one `gc_onestep()` each, by state |
| `TabSet`, `RawSetI`, `SetMetatable`, `UdSetMetatable`, `SetRoot`, `UvSet`, `UpvalueJoin` | stores, with the barrier that the code at that place uses |
| `NewObject`, `InternStr`, `NewClosure*` | allocations, with the resurrection of dead strings and upvalues |
| `LeaveScope`, `EnterScope`, `XMove`, `Switch` | `lj_func_closeuv()`, a frame that covers old slots, transfers between stacks, resume and yield |

`Load` and the stores act on what the running thread can name (`Operand`); that
the model allows more programs than the bytecode compiler emits is harmless to
safety. A collector step may happen at any time the code may allocate; the
threshold and debt arithmetic that picks the time is abstracted away. A
finalizer is ordinary mutator code that starts with its userdata on the stack.

Strings live in a hash table that doubles in `InternStr` and shrinks at the end
of a cycle (`lj_str_resize`); the sweep walks its chains by index, and
`resize` moves every string. A finalizer may fail (`FinalizerError`), which
ends a full collection where it is.

`GcHeap` is the abstract heap: objects, roots, references; nothing reachable is
freed and everything reachable is allocated. Reachability is a search in rounds,
as many as there are objects (`Reach`). `LjGcHeap` maps `LjGc` to it
(references = what the traversal marks; userdata with a pending finalizer
belongs to the roots) and states the liveness properties. `LjGcApi` adds
`lua_setupvalue()` and a claim of the source that the code does not keep.

### Linda: lindas, keepers and the cancellation of a waiting lane

One linda, its keeper with the recursive mutex `keeper_cs`, any number of lanes
(threads with an `s_lane` record) and of main threads (without one). `Calls[t]`
is the set of calls thread `t` may make. A call runs through the labels

    idle → acquire → check → try → (mark → sleep → asleep → check → try)* → release → idle

`check` reads `cancel_request` and `simulate_cancel`; `try` is the keeper
function with its `SIGNAL_ALL`; `mark` writes `status` and `waiting_on`; `sleep`
enters the condition variable and gives the mutex back at once. They are apart
because `thread_cancel()` (`cancelRequest`, `cancelPeek`, `cancelPoke`) reads and
writes those fields without the mutex; the labels merge everything no other
thread can observe. `waiters` holds the threads asleep on each condition
variable; `Timeout` and `Spurious` take them out without a signal.

A fifo is the record of `keeper.c` (`first`, `count`, `limit`, uservalue table as
a function with a domain: a nil is a missing index), so that holes, stale slots
and index drift are possible in principle. A nil is exchanged for the sentinel
on the way in, and back on the way out. A copy can fail in two ways. `Unsupported` is a
thread, at which `luaG_inter_copy` stops and reports a failure; the method releases the
keeper and raises the error after that. `Foreign[t]` are the values at which it *raises*
an error in thread `t`, from inside `keeper_call()`: on the way in a full userdata, a
table that holds what cannot be copied, or a function that the transfer database of `t`
does not have (tools.c:1471, 1566, 1109); on the way out a function unknown to `t`
(tools.c:1142). The call goes to the label "raise" and from there (`luaL_error`) to
"idle", past `keeper_release()`: the thread keeps the mutex, a `receive()` has popped its
values, and nobody is signalled (`Deliver`). A thread that has left a method in this way
is `Abandoned`; since the mutex is recursive it can go on to call the linda itself.

`LindaQueue` is the abstract linda: a sequence per key and a limit, and each
operation atomic with its result; one operation, `Lose`, drops the front of a queue that
holds a value the thread rejects, which is what a `receive()` that raises does.
`Linda!QueueRefined` is the refinement. All negative
limits are one in it (`Capacity`): `linda:limit(k, -5)` stores -5, and a `linda:set(k)`
that forgets the key brings it back with -1.

### Lane: the life of a lane

A lane record, its thread and its Lua state have one name; `Main` is the main
state. `owner[s]` is the state whose handle points to lane `s`, `luaState[x]` how
far the state is (open, being closed by whom, closed), `stack[t]` the states that
thread `t` is inside: a `lua_close()` collects the handles in the state it closes, and
`thread_gc()` of one of these may close another state, in the same thread. `op[t]` is
the operation on a handle that the thread is in (join, cancel, kill, gc, or the
cancel and kill of the shutdown) with its step in `THREAD_WAIT`.

| model | code |
|---|---|
| `lane_new`, `lane_main`, `EndBody`, `Remove` .. `CleanupSelf`, `Finish`, `Signal` | a lane from its creation to its end, in the chain (it closes and frees itself) or not (it leaves results and signals) |
| `WaitLoop`, `WaitTimeout`, `Spurious` | `THREAD_WAIT` under `done_lock` |
| `thread_join` .. `CloseJoined`, `Cancel*` | join and cancel, soft, hard and forced; `THREAD_KILL` ends the process or does nothing (`KillOutcome`) |
| `thread_gc` .. `CleanupCollected`, `selfdestruct_add` | a handle is collected: the lane is freed, or goes into the chain |
| `MainClose` .. `ShutdownFree` | `lua_close()` of the main state and `selfdestruct_gc()`: cancel, yield, wait for the count, kill, free |

`selfdestruct_cs` is a variable (`cs`) because the shutdown holds it over several
steps; `done_lock` is held by the lane exactly while it is at "signal".

### Deep: lindas as shared objects

A proxy is a record (state, linda, number). `proxies` are those whose finalizer has
not run, `cached` those the weak table `DEEP_PROXY_CACHE_KEY` still knows: when the
collector of the state has found a proxy dead, it leaves the cache, and the state may
get a second proxy of the same linda before the finalizer of the first one runs.
`holds` is what a program can name and `stored` what the fifos hold; both keep the
proxy of their state alive. A freed linda's address may be used again.

`frames[t]` is a stack of calls: inside a call that has entered a keeper, the
collector of the keeper, or that of the caller when it takes a result, may run
`deep_userdata_gc`, and the last proxy starts a deletion, which enters the keeper of
its own linda. That keepers are locked follows from the frames. `WaitsFor` and
`Deadlocked` say that threads wait for each other's keepers. `TimerGone`,
`close_keepers` and `KeepersClosed` are the end of `selfdestruct_gc()`.

## 3. Runs

| run | instance | shows |
|---|---|---|
| gc_tables | registry and one table, one string, 1 slot, compiled code, hooks; or three strings in a table of 1, 2 or 4 chains; or a userdata, a table that is weak and a metatable with `__gc`, a string, 2 slots | barriers of tables, metatables and roots, full collections, resizing between the steps of a cycle; finalizers that resurrect or fail, weak clearing, full collections while finalizers wait: `NoDangling`, `TriColor`, `ListsSound`, `SweepComplete` |
| gc_closures | two closures and two upvalues on one thread; or a coroutine with a closure and an upvalue | open, closed, inherited, joined upvalues and closures that outlive their thread: `NoDangling`, `TriColor`, `OpenUvHasThread`, refinement of `GcHeap` (`HeapSafe`), `CollectorInvisible` |
| gc_progress | a userdata, a metatable, compiled code, fairness | `Reclaimed`, `FinalizersRun`, `CyclesEnd` |
| linda_safety | a sender, a receiver, a main thread with all the other calls, 2 keys, 2 calls each, copies that fail and that raise | refinement of `LindaQueue`, `FifoShape`, `NoLostWakeup`, `NoSleepOnCancelled` |
| linda_progress | the same three threads on a linda not yet used, calls that wait, that end waits and that leave the keeper locked, fairness | `CallsEnd`, `Served` |
| lane_safety | two lanes, made by the main state or by one another, fairness | `StateExclusive`, `FreedUnused`, `NoLaneLost`, `ChainSound`, `NoMissedSignal`, and `ShutdownEnds` |
| deep_safety | the main state and a lane; one keeper, the timer linda and another, to the end of the universe; or two keepers with two lindas each; fairness | `RefcountExact`, `NoStalePointer`, `FreshEmpty`, `NoneLeaked`, and `CallsEnd` |
| gc_setupvalue, linda_limit_wakeup, linda_lane_cancel, lane_shutdown, deep_refcount | violations | findings 1 to 5 |

Bounds and why they are enough to be interesting. The collector properties
relate an object, what refers to it, and a position in the cycle: with one object
beyond the registry per kind, every pair of colors, every list membership and
every phase occurs, and an address is reused after it was freed. Two closures
and two upvalues are needed for sharing (join, inherit). A run of a collector
leaves out the mutator operations that do not concern its kind of object
(`NextTab`, `NextUv`, ...), and the runs with a variable `instance` are several such
instances over one set of constants, of which the initial state picks one (`MaxTop`
bounds the stack slots each uses); between them they take every action of `LjGc`. Two
calls per thread (`MaxCalls`) let a fifo be filled, limited, drained and refilled
so that `first` moves, and let a sleeper be overtaken by a second call of each of
the others. Two lanes suffice for a handle that is collected while another state is being
closed, and for a chain of which one lane is killed while the other ends; the proofs
cover any number. In `deep_safety` the timer linda and one more give a deletion
inside a call, a linda stored in itself and a reused address; `MaxPending` = 1
allows one proxy of a linda per state to wait for its finalizer beside a new one. One
keeper is the default of `lanes.configure()` and carries the whole specification; the
instance with two keepers has the four lindas that two threads need to wait for each
other, and only the operations that lead there (`NextTwo`), the collectors unrestricted.
The Lanes runs switch the deadlock check off: when all calls are made, the rest
sleeps without a partner, or the process is over, the system has stopped
legitimately.

Fairness. Collector: `WF(Collector)`, because the program keeps allocating and an
allocation steps the collector; `WF(TraceExit)`, because `lj_gc_step_jit` returns
1 in GCSatomic and GCSfinalize and the compiled code then leaves the trace.
`Hooked` is FALSE in that run: with a hook set at every single exit the step is
skipped each time. Lindas: weak fairness of a thread's own steps, strong fairness
of taking the mutex (pthread mutexes starve nobody for ever in practice; without
it nothing can be promised) and of a timed wait reaching its deadline, which is
absolute, so that spurious wake-ups cannot postpone it. Lanes: weak fairness of
the steps a thread has to make and of the shutdown, strong fairness of
`WaitTimeout` for the same reason; nothing is assumed of the programs, and a lane may
run, or wait in a linda, for ever. Deep: weak fairness of a call, strong fairness of
acquiring a keeper; collections are not assumed to happen.

Four places where a property says less than one would like, because the code does.
`CallsEnd` and `Served` of the lindas have the exception that *another* thread has left
the keeper locked: after an error that a copy raises inside `keeper_call()`, or a
`linda:dump()` of an unused linda (keeper.c:202), every call of another thread on that
keeper waits for ever. The comment at keeper.c:802 knows of the error on the way out;
CHANGES ("Fixed application hang-up because keeper state was not released in case of
errors thrown by inter-state data copy for unsupported types") is true only of the
failure that is reported, not of the errors that are raised. The exception is narrow: the
thread must hold the mutex outside a call, or twice inside one, and `linda_progress`
reaches it through `set()` of a full userdata, `receive()` of an unknown function and
`dump()`. `NoLostWakeup` speaks of moments at which nobody holds the keeper, which for
the same reason do not come back after such an error. `CallsEnd` of deep userdata has the
exception that threads wait for each other's keepers, which `deep_safety` reaches in 15
steps with two keepers: each is inside one and deletes a linda of the other. The
recursive mutex that keeper.c:669 introduces against a deletion inside a call helps when
the keeper is the same, and a plain mutex violates `CallsEnd`.
`ShutdownEnds` leaves out a shutdown that waits for a lane it has killed: when the
signal is ignored, `selfdestruct_gc` waits with `selfdestruct_cs` locked, and the
lane needs that mutex to end. `FreedUnused` leaves out the lane's own last step:
it sets its status, signals and unlocks `done_lock`, and a `thread_gc()` that reads the
status in between frees the record under the unlock.

## 4. What the violations show

1. `lua_setupvalue` (lj_api.c:1013) passes the *function* to `lj_gc_barrier`, but
   the value goes into the *upvalue*. If the closed upvalue is black, marked
   through another closure that shares it, and the function is not, no barrier
   runs, and a black upvalue refers to a white object.
2. `linda:limit()` and `linda:set()` wake writers only if the key *was full*, while
   a `send()` of n values blocks as soon as `count + n > limit`: a blocked sender of
   two values is not woken when the limit is raised. `NoLostWakeup` shows that a
   sender of one value is always woken.
3. `lane:cancel()` broadcasts without the keeper mutex: a lane between its test of
   `cancel_request` and its wait misses it and sleeps on.
4. `selfdestruct_gc()` waits for the lanes that are in their own `lua_close()` only
   inside the loop over the chain. When the last lane has just left the chain, the
   loop is not entered, and keepers and mutexes are freed under the lane.
5. docs/index.html (1537) says that deep userdata inside keepers "aren't considered by
   reference counting" and do not call `idfunc(eDO_delete)`. `push_deep_proxy()` counts
   them like all others, and the finalizer of a proxy in a keeper may be the one that
   deletes. The code is right and the text is not: what holds is `RefcountExact`, and
   `NoStalePointer`, against the text's "stale pointers", depends on it.

Also noticed, without a run of its own: `linda:count()` and `linda:dump()` do not
look at `simulate_cancel`, although docs/index.html says that a cancelled linda makes
all its operations return `cancel_error`.
`lj_gc_barrierf` asserts that it never runs in GCSfinalize (lj_gc.c:750), which the
finalizer of one userdata can do to another that still waits for its own.
`timer_gateway` sent through a linda and not received would
be freed at the end of the process with a proxy left in the keeper (lanes.c:1719,
"should be 0 now"); `Begin` excludes it, since only lanes.lua has it.

## 5. Proofs

Every invariant, action property and refinement that a passing run checks is also
proved, for all values of the constants that satisfy the assumptions the modules
name; only the liveness properties are not.

### The collector

`LjGcProofs` proves `TypeCorrect`, `Spec => []TypeOK`, for all constants that
satisfy `ConstAssumption` and `TypesDisjoint`. `TypeOK` is inductive by itself:
the delicate parts are that marking colors only objects, that the sweep position
stays inside the string table (`gcstate = "sweepstring" => sweepstr < NChain`,
which the increment before the comparison has to keep), and that an upvalue's
value has the right type whether it is read from a stack slot or from its cell.

`LjGcSafety` proves `NoUseAfterFree` (`NoDangling`), `TriColorHolds` (`TriColor`),
`ListsCorrect` (`ListsSound`), `SweepLeavesNothing` (`SweepComplete`) and `OpenUvSafe`
(`OpenUvHasThread`) under the same assumptions, from one inductive invariant `IInv`.
`NoDangling` is not inductive: a sweep keeps it only if the marking before it was
complete, which takes the tri-color invariant, which takes the meaning of every
list and of every stage of `atomic()`:

* `RefsLive`, `RootsLive`: `NoDangling` by fields, so that each operation disturbs one
  line; `Empty` and `Shape`: a free address has no content, an emptied node no key, a
  closure has its upvalue, an open upvalue its thread;
* `Colors`, `ListsSound`: while marking, the gray objects that have a `gclist` are those
  in a list, threads and weak tables are never black, userdata never gray, an open
  upvalue is never black and a closed one never gray;
* `BlackDark`: `TriColor` by types; the barriers keep it. `AtomicDark`: what each stage
  of `atomic()` has added to it for the objects that have no barrier: open upvalues,
  then weak tables, the running thread and the roots, then all stacks, then userdata
  with a finalizer. When the last stage ends with an empty gray list the two together
  say that no marked object refers to a white one, and the flip of the white turns
  this into `RefsLive`;
* `SweepProgress`: what the sweep has passed has the current white; what it has not is
  in the rest of the root list, an open upvalue of a thread in it, or a string in a
  chain from the sweep position on. The string table is not resized while its
  chains are swept, or a string could move across the position.

`LjGcRefines` proves `HeapImplemented` (`HeapSafe`, the refinement of `GcHeap`) and
`CollectorUnseen` (`CollectorInvisible`), under `FiniteAddresses` in addition: there are
finitely many addresses, so that the search of `Reach` ends. What the
recursive function computes is proved, not assumed: induction over the natural numbers
is derived in its form for sets from the least element of a well-founded order,
`PartExists` and `PartUnique` build the function from its initial parts, and
`ReachClosed` and `ReachLeast` show that `Reach` is the least set that holds the roots
and is closed under references. Then what the roots reach is live (`RefsLive`), what is
freed was dead, and so was not reachable. For `CollectorInvisible` one more invariant is
needed, `InScope`: an open upvalue points to a slot at or below `top`. Without it a step
that closes an upvalue, or that clears the slots above `top`, could change the value a
program reads through it.

### The lindas

`LindaProofs` proves, for any number of threads, keys, values, calls and any
`Calls` that satisfies `CallsWellFormed`:

* `TypeCorrect` and `NoHoles` (`TypeOK`, `FifoShape`). The inductive invariant
  `IInv` joins the shape of every fifo, the types, and `CallOK`: a thread inside a
  call has one of its own calls, and a thread between acquire and release holds
  the mutex. The call matters because the values a push stores are the caller's,
  and a nil among them would make a hole; the lemmas on `fifo_push`, `fifo_pop` and
  `toKeeper` say why the sentinel closes it.
* `NoWakeupLost` (`NoLostWakeup`). Its invariant `KeeperInv` adds `Mutex` (one thread
  inside the keeper) and, as long as no thread has left a method with the keeper
  locked (`NoneAbandoned`), `StuckInv`: a thread that is asleep, *or has decided to
  sleep and not yet done so*, cannot proceed. The second part is the one that a
  lost wake-up would break: no step of another thread can make it false, because
  that thread would have to be inside the keeper as well. Each operation is then
  shown either to make nothing possible for the others, or to empty the set of
  waiters: a send wakes receivers, a receive, a set or a limit wakes senders
  exactly when `Accepts(_, 1)` turns true, and an operation that raises an error, and
  wakes nobody, leaves its thread abandoned (`RaiseAbandons`), which it stays.
* `CancelledNeverSlept` (`NoSleepOnCancelled`). `SeenUncancelled` says that a call that
  may still go to sleep is on a linda that is not cancelled: it looked when it was
  inside, and with `Mutex` nobody has been inside since.

`LindaRefines` proves `QueueImplemented` (`QueueRefined`, the refinement of
`LindaQueue`) from `IInv`. The lemmas say what the keeper's operators do to the sequence
of values that a fifo stands for: `fifo_push` after `toKeeper` appends the caller's values
(`PushAppends`), `fifo_pop` drops a prefix although it resets `first` when the fifo is
empty (`PopDrops`), `fifo_peek` gives a prefix (`PeekFront`). Each action is then one
operation of the queues, a refusal, a loss or a stuttering step. `receive()` with several keys
pops only the key it answers with: it would pop several if a stored value could read as
nil, which `FifoShape` excludes. The proof of `set()` is what showed that the limits must
be mapped through `Capacity`.

The theorems are about `Spec`, a linda that no keeper function has touched yet, where
`linda:dump()` can return with the keeper locked; linda_safety starts from a used one.

### The lanes

`LaneProofs` proves, for any finite set of lanes, `TypeCorrect`, `NoStateShared`
(`StateExclusive`), `NoFreedLaneUsed` (`FreedUnused`), `NoLaneForgotten`
(`NoLaneLost`), `ChainCorrect` (`ChainSound`) and `NoSignalMissed`
(`NoMissedSignal`), all from one inductive invariant, `IInv`. None of them is
inductive alone; the argument is this. `Nesting`: a thread is first in its own
state, and every further state it is inside is that of an ended lane whose handle
is in the state below; so a state is reached along one path of handles, and two
threads cannot meet in it (`StateExclusive` at the next step). `Operations`: the operation of
a thread is on a lane whose handle is in the state it runs in; together with
`StateExclusive` at most one thread operates on a lane, which is why one
`SIGNAL_ONE` is enough, and why freeing the record leaves no operation behind.
`Places` says for each label of a lane what it is inside and that an ended status
belongs to "signal" and "end". `MainThread` ties `cs` to the two walks of the
shutdown, and `Chain` relates the chain, the next pointers and the rest of the walk,
which differ only during the walk that kills.

### Deep userdata

`DeepProofs` proves, for any sets of lanes, keepers and lindas and any depth of nested
calls, `TypeCorrect`, `CountsExact` (`RefcountExact`), `NoPointerStale`
(`NoStalePointer`), `NewIsEmpty` (`FreshEmpty`) and `NoLindaLeaked` (`NoneLeaked`). The
inductive invariant adds to them: `RootsCached`, every name for a linda, in a program or
in a fifo, has a *cached* proxy in its state, so that a finalizer never runs for a proxy
that is still named; `CallsOK`, which says for each step of each call which proxies it
relies on while collections run inside it, and that a linda under deletion has no proxy
left; `DeletedOnce`, no two calls delete the same linda; and `PhaseOK` and `Shutdown`,
in what order states, timer and keepers go. The exact count is what makes the last
finalizer the last reference, and needs that the proxies of a linda are finitely many
at all times (`ProxiesOK`).

### Only model-checked

The liveness properties (`Reclaimed`, `FinalizersRun`, `CyclesEnd`, `CallsEnd` and
`Served` of the lindas, `CallsEnd` of deep userdata, `ShutdownEnds`): the prover does
not reason about fairness. The five violated claims of section 4 are TLC's
counterexamples.

## 6. Not modelled

* Traces, prototypes and cdata as collectable objects; `lj_gc_freeall` and the
  order of finalizers at `lua_close`; pacing (`lim`, threshold and debt decide when a
  step runs, and any moment is allowed); resizing of stacks; the inside of tables.
* Errors raised by an allocation; what becomes of a lane that a raised error ends (its
  OS thread exits with the keeper locked); the errors of
  `lane_new` before the record exists (the new state leaks, nothing is shared yet);
  lane tracking (`lanes.threads()` reads `debug_name` of lanes whose state may be
  closed); priorities; Windows.
* `assert( s->selfdestruct_next)` in `thread_gc()` (lanes.c:2493), which reads the lane
  after `selfdestruct_cs` is released, when the lane may have removed and freed itself.
  build.sh builds Release, where NDEBUG compiles it out; in a debug build it would be a
  use of a freed record that `FreedUnused` does not see.
* `Lane` and `Deep` are separate: in `Deep` an ended lane is closed by an activity of
  its own, and the end of the universe comes after the last lane, which finding 4
  says is not always so.
* Deep userdata of other modules than Lanes: their `idfunc` may fail where
  `linda_id` does not.
* Interpreter, compiler, parser, FFI, allocator, standard library, the other
  bundled libraries: sequential code, I/O, or third-party packages; see the notes
  in `PROJECT.json`. They are by far the largest part of the repository's lines.

## 7. Plan

Done: the collector (LjGc, GcHeap, LjGcHeap, LjGcApi), the lindas (Linda,
LindaQueue), the lanes (Lane), shared objects (Deep); the proofs of all their
invariants, action properties and refinements.

Next, in this order:

1. Proofs: what does hold where section 4 shows a claim violated (the tri-color
   invariant with `lua_setupvalue` on a function that is the only one to share its
   upvalue; a lane that was cancelled while asleep is woken); steps towards the liveness
   properties that are invariants (a ranking of the collector's steps).
2. Timers and locks of `lanes.lua` over `LindaQueue`.
3. Algorithms: insertion and rehash of the hash part of `lj_tab.c` against a map;
   the pacing arithmetic of `lj_gc_step` with its width.

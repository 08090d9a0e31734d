--------------------------------- MODULE Lane ---------------------------------
(***************************************************************************)
(* The life of lanes (lanes.c), on the pthread build with condition        *)
(* variables: lane_new() starts a detached thread that runs in a Lua state *)
(* of its own, the creator holds a handle and may cancel() and join(), the *)
(* handle may be collected while the lane runs on, and at the end of the   *)
(* main state selfdestruct_gc() stops the lanes nobody holds.              *)
(*                                                                         *)
(* A Lua state and the thread that was made to run in it have one name.    *)
(* The handle of a lane is a userdata of the state that made it; closing   *)
(* that state collects the handle, so that thread_gc() runs, nested, in    *)
(* whichever thread calls lua_close().                                     *)
(*                                                                         *)
(* What a thread does between two points where another one can see or      *)
(* change the state is one action. selfdestruct_cs is held over several    *)
(* actions only by the shutdown, and done_lock only by the lane itself.    *)
(***************************************************************************)
EXTENDS Integers, Sequences, FiniteSets

CONSTANTS Lane,        \* the s_lane records, each with its thread and state
          Main,        \* the main state and its thread
          None,        \* NULL
          KillOutcome  \* what the SIGUSR1 of THREAD_KILL may do

ASSUME MainIsNoLane == Main \notin Lane /\ None \notin Lane \cup {Main}
ASSUME LanesFinite == IsFiniteSet(Lane)

\* No code of the repository installs a handler. By default the signal ends
\* the process; in a process that blocks it, it does nothing.
ASSUME Outcomes == KillOutcome \subseteq {"ends", "ignored"} /\ KillOutcome # {}

State == Lane \cup {Main}

VARIABLES
  heap,             \* of each s_lane: not yet malloc'ed, live, or freed
  status, cancel_request, mstatus,  \* fields of the s_lane
  L,                \* s->L is not NULL
  owner,            \* the state whose handle points to the lane
  luaState,         \* the lua_State itself, and who is closing it
  chain,            \* the lanes of the chain at selfdestruct_first
  linked,           \* the lanes whose selfdestruct_next is not NULL
  selfdestructing_count,
  cs,               \* the holder of selfdestruct_cs
  todo,             \* the lanes a walk of selfdestruct_gc() has yet to visit
  universe,         \* the keepers and mutexes: "up", or "freed"
  process,          \* "up", or "killed" by the signal
  pc,               \* where each thread is
  stack,            \* the Lua states it is inside, the one it runs in last
  op                \* the operation on a handle it is in

record == <<heap, status, cancel_request, mstatus, L, owner>>
uni    == <<chain, linked, selfdestructing_count, cs, todo, universe>>
vars   == <<record, luaState, uni, process, pc, stack, op>>

\* status >= DONE; "done" is ERROR_ST too, the results are an error then.
Ended == {"done", "cancelled"}
NoOp  == [f |-> "none", s |-> None, step |-> "none", secs |-> "zero", force |-> FALSE]

-------------------------------------------------------------------------------
(* Threads and what they hold *)

Up == process = "up"
Goto(t, l) == pc' = [pc EXCEPT ![t] = l]

\* It starts to run in a state, enters the lua_close() of one more, or leaves.
Run(t, x) == stack' = [stack EXCEPT ![t] = x]
Enter(t, x) == Run(t, Append(stack[t], x))
Leave(t) == Run(t, SubSeq(stack[t], 1, Len(stack[t]) - 1))
RunsIn(t, x) == stack[t] # <<>> /\ stack[t][Len(stack[t])] = x

Return(t) == op' = [op EXCEPT ![t] = NoOp]

\* MUTEX_LOCK would succeed.
CsFree == cs = None /\ universe = "up"
DoneLockFree(s) == pc[s] # "signal"

\* The thread runs Lua code of its own state.
Ready(t) == /\ Up /\ pc[t] = "body" /\ stack[t] = <<t>> /\ op[t] = NoOp
            /\ t \in Lane => status[t] = "running"

Closing(x) == luaState[x] \in {"close_gc", "close_join", "close_self"}

\* The thread is in the lua_close() of the state x, collecting its handles.
InClose(t, x) == Up /\ RunsIn(t, x) /\ op[t] = NoOp /\ Closing(x)

HandlesOf(x) == {s \in Lane : owner[s] = x}

begin(t, f, s, step, secs, force) ==
  op' = [op EXCEPT ![t] = [f |-> f, s |-> s, step |-> step, secs |-> secs, force |-> force]]
step(t, l) == op' = [op EXCEPT ![t].step = l]
InOp(t, f, l) == Up /\ op[t].f = f /\ op[t].step = l

-------------------------------------------------------------------------------
(* Creation and the body of a lane *)

lane_new(t, s) ==
  /\ Ready(t)
  /\ heap[s] = "none"
  /\ heap' = [heap EXCEPT ![s] = "live"]
  /\ L' = [L EXCEPT ![s] = TRUE]
  /\ owner' = [owner EXCEPT ![s] = t]
  /\ luaState' = [luaState EXCEPT ![s] = "open"]
  /\ Goto(s, "start") /\ Run(s, <<s>>)
  /\ UNCHANGED <<status, cancel_request, mstatus, uni, process, op>>

lane_main(s) ==
  /\ Up /\ pc[s] = "start"
  /\ status' = [status EXCEPT ![s] = "running"]
  /\ Goto(s, "body")
  /\ UNCHANGED <<heap, cancel_request, mstatus, L, owner, luaState, uni, process, stack, op>>

\* A send() or receive() that waits, and whatever ends the wait: data, room,
\* a timeout, or the SIGNAL_ALL of a cancellation (see Linda).
LindaWait(s) ==
  /\ Ready(s)
  /\ status' = [status EXCEPT ![s] = "waiting"]
  /\ UNCHANGED <<heap, cancel_request, mstatus, L, owner, luaState, uni, process, pc, stack, op>>

LindaWake(s) ==
  /\ Up /\ status[s] = "waiting"
  /\ status' = [status EXCEPT ![s] = "running"]
  /\ UNCHANGED <<heap, cancel_request, mstatus, L, owner, luaState, uni, process, pc, stack, op>>

\* lua_pcall() and the finalizers are over, with results or an error.
EndBody(s) ==
  /\ Ready(s)
  /\ Goto(s, "remove")
  /\ UNCHANGED <<record, luaState, uni, process, stack, op>>

-------------------------------------------------------------------------------
(* The end of a lane *)

\* One that believes its pointer and not the list.
selfdestruct_removeKept(s) ==
  /\ chain' = chain
  /\ linked' = linked \ {s}
  /\ selfdestructing_count' = selfdestructing_count + 1
selfdestruct_remove(s) ==
  /\ chain' = chain \ {s}
  /\ linked' = linked \ {s}
  /\ selfdestructing_count' = selfdestructing_count + 1

Remove(s) ==
  /\ Up /\ pc[s] = "remove" /\ CsFree
  /\ IF s \in linked
     THEN /\ selfdestruct_remove(s)
          /\ luaState' = [luaState EXCEPT ![s] = "close_self"]
          /\ Goto(s, "close")
     ELSE /\ Goto(s, "finish")
          /\ UNCHANGED <<luaState, chain, linked, selfdestructing_count>>
  /\ UNCHANGED <<record, cs, todo, universe, process, stack, op>>

\* lua_close() of its own state has collected every handle.
CloseSelf(s) ==
  /\ InClose(s, s) /\ pc[s] = "close" /\ HandlesOf(s) = {}
  /\ luaState' = [luaState EXCEPT ![s] = "closed"]
  /\ Goto(s, "uncount") /\ Run(s, <<>>)
  /\ UNCHANGED <<record, uni, process, op>>

\* A lane that counts both of its ends, or none.
uncountTwice == selfdestructing_count' = selfdestructing_count - 2
uncountNever == selfdestructing_count' = selfdestructing_count
uncount == selfdestructing_count' = selfdestructing_count - 1

Uncount(s) ==
  /\ Up /\ pc[s] = "uncount" /\ CsFree
  /\ uncount
  /\ Goto(s, "cleanup")
  /\ UNCHANGED <<record, luaState, chain, linked, cs, todo, universe, process, stack, op>>

lane_cleanup(s) == heap' = [heap EXCEPT ![s] = "freed"]

CleanupSelf(s) ==
  /\ Up /\ pc[s] = "cleanup"
  /\ lane_cleanup(s)
  /\ Goto(s, "end")
  /\ UNCHANGED <<status, cancel_request, mstatus, L, owner, luaState, uni, process, stack, op>>

\* The lane is not in the chain: it leaves its results in its state and lets
\* the status be seen.
Finish(s, st) ==
  /\ Up /\ pc[s] = "finish"
  /\ status' = [status EXCEPT ![s] = st]
  /\ Goto(s, "signal") /\ Run(s, <<>>)
  /\ UNCHANGED <<heap, cancel_request, mstatus, L, owner, luaState, uni, process, op>>

\* SIGNAL_ONE( &s->done_signal): the thread asleep on it has to lock again.
SleepersOn(s) == {t \in State : op[t].s = s /\ op[t].step = "asleep"}
SIGNAL_NONE(s) == op' = op
SIGNAL_ONE(s) ==
  IF SleepersOn(s) = {} THEN op' = op
  ELSE \E t \in SleepersOn(s) : step(t, "wait")

Signal(s) ==
  /\ Up /\ pc[s] = "signal"
  /\ SIGNAL_ONE(s)
  /\ Goto(s, "end")
  /\ UNCHANGED <<record, luaState, uni, process, stack>>

-------------------------------------------------------------------------------
(* THREAD_WAIT *)

WaitFor(t) == UNCHANGED <<record, luaState, uni, process, pc, stack>>

\* With the lock, before and between the sleeps.
WaitLoop(t) ==
  /\ Up /\ op[t].step = "wait" /\ DoneLockFree(op[t].s)
  /\ step(t, IF status[op[t].s] \in Ended THEN "over"
             ELSE IF op[t].secs = "zero" THEN "timeout" ELSE "asleep")
  /\ WaitFor(t)

WaitTimeout(t) ==
  /\ Up /\ op[t].step = "asleep" /\ op[t].secs = "timed" /\ DoneLockFree(op[t].s)
  /\ step(t, IF status[op[t].s] \in Ended THEN "over" ELSE "timeout")
  /\ WaitFor(t)

\* pthread_cond_wait() may return for no reason.
Spurious(t) ==
  /\ Up /\ op[t].step = "asleep"
  /\ step(t, "wait")
  /\ WaitFor(t)

-------------------------------------------------------------------------------
(* join() and cancel() *)

thread_join(t, s, secs) ==
  /\ Ready(t) /\ owner[s] = t
  /\ begin(t, "join", s, "wait", secs, FALSE)
  /\ UNCHANGED <<record, luaState, uni, process, pc, stack>>

\* A timeout, or a lane that has been joined before: no values.
JoinNothing(t) ==
  /\ InOp(t, "join", "timeout") \/ (InOp(t, "join", "over") /\ ~L[op[t].s])
  /\ Return(t)
  /\ UNCHANGED <<record, luaState, uni, process, pc, stack>>

\* nil, "killed": the state is given up, not closed.
JoinKilled(t) ==
  /\ InOp(t, "join", "over") /\ L[op[t].s] /\ mstatus[op[t].s] = "KILLED"
  /\ L' = [L EXCEPT ![op[t].s] = FALSE]
  /\ Return(t)
  /\ UNCHANGED <<heap, status, cancel_request, mstatus, owner, luaState, uni, process, pc, stack>>

\* The results are moved to the caller's state, and the lane's is closed; or
\* they cannot be copied, and the error leaves the state as it is.
JoinResults(t) ==
  /\ InOp(t, "join", "over") /\ L[op[t].s] /\ mstatus[op[t].s] = "NORMAL"
  /\ Return(t)
  /\ \/ /\ luaState' = [luaState EXCEPT ![op[t].s] = "close_join"]
        /\ Enter(t, op[t].s)
     \/ /\ status[op[t].s] # "cancelled"
        /\ UNCHANGED <<luaState, stack>>
  /\ UNCHANGED <<record, uni, process, pc>>

CloseJoined(t, s) ==
  /\ InClose(t, s) /\ luaState[s] = "close_join" /\ HandlesOf(s) = {}
  /\ luaState' = [luaState EXCEPT ![s] = "closed"]
  /\ L' = [L EXCEPT ![s] = FALSE]
  /\ Leave(t)
  /\ UNCHANGED <<heap, status, cancel_request, mstatus, owner, uni, process, pc, op>>

\* thread_cancel() with a negative timeout: a request, and no wait.
CancelSoft(t, s) ==
  /\ Ready(t) /\ owner[s] = t
  /\ mstatus[s] # "KILLED" /\ status[s] \notin Ended
  /\ cancel_request' = [cancel_request EXCEPT ![s] = "soft"]
  /\ UNCHANGED <<heap, status, mstatus, L, owner, luaState, uni, process, pc, stack, op>>

\* The other answers of thread_cancel(), "killed" and "cancelled" for a lane
\* that has ended, change nothing.
CancelHard(t, s, secs, force) ==
  /\ Ready(t) /\ owner[s] = t
  /\ mstatus[s] # "KILLED" /\ status[s] \notin Ended
  /\ cancel_request' = [cancel_request EXCEPT ![s] = "hard"]
  /\ begin(t, "cancel", s, "wait", secs, force)
  /\ UNCHANGED <<heap, status, mstatus, L, owner, luaState, uni, process, pc, stack>>

CancelOver(t) ==
  /\ \/ InOp(t, "cancel", "over")
     \/ InOp(t, "cancel", "timeout") /\ ~op[t].force
     \/ InOp(t, "kill", "timeout")      \* "failed to terminate", an error
  /\ Return(t)
  /\ UNCHANGED <<record, luaState, uni, process, pc, stack>>

\* pthread_kill() finds no thread when the lane's has ended meanwhile.
THREAD_KILL(s, r) == r \in KillOutcome \/ (pc[s] = "end" /\ r = "ignored")

CancelKill(t, secs) ==
  /\ InOp(t, "cancel", "timeout") /\ op[t].force
  /\ \/ /\ THREAD_KILL(op[t].s, "ends")
        /\ process' = "killed"
        /\ op' = op
     \/ /\ THREAD_KILL(op[t].s, "ignored")
        /\ begin(t, "kill", op[t].s, "wait", secs, TRUE)
        /\ process' = process
  /\ UNCHANGED <<record, luaState, uni, pc, stack>>

CancelKilled(t) ==
  /\ InOp(t, "kill", "over")
  /\ mstatus' = [mstatus EXCEPT ![op[t].s] = "KILLED"]
  /\ Return(t)
  /\ UNCHANGED <<heap, status, cancel_request, L, owner, luaState, uni, process, pc, stack>>

-------------------------------------------------------------------------------
(* thread_gc(): the handle of s is collected *)

\* The mutator's collector, or a lua_close(), has found the handle.
CollectsIn(t, x) == (x = t /\ Ready(t)) \/ InClose(t, x)

\* A thread_gc() that tests for results before it looks at the status.
gcPathClose(s) == IF mstatus[s] = "KILLED" THEN "wait" ELSE IF L[s] THEN "over" ELSE "add"
\* One that frees the record of a lane that still runs.
gcPathFree(s) == IF mstatus[s] = "KILLED" THEN "wait" ELSE IF status[s] \notin Ended THEN "cleanup"
                 ELSE "over"
\* The first test of status is made without a lock.
gcPath(s) == IF mstatus[s] = "KILLED" THEN "wait" ELSE IF status[s] \notin Ended THEN "add"
             ELSE "over"

thread_gc(t, s) ==
  /\ owner[s] \in State /\ CollectsIn(t, owner[s])
  /\ begin(t, "gc", s, gcPath(s), "forever", FALSE)
  /\ UNCHANGED <<record, luaState, uni, process, pc, stack>>

\* A lane that is let go and not added.
linkNone(s) == UNCHANGED <<chain, linked>>
link(s) == chain' = chain \cup {s} /\ linked' = linked \cup {s}

\* thread_gc() is then done with the lane, the Release build that build.sh
\* asks for given: assert( s->selfdestruct_next) would still read it.
selfdestruct_add(t) ==
  /\ InOp(t, "gc", "add") /\ CsFree
  /\ link(op[t].s)
  /\ owner' = [owner EXCEPT ![op[t].s] = None]
  /\ Return(t)
  /\ UNCHANGED <<heap, status, cancel_request, mstatus, L, luaState, selfdestructing_count,
                 cs, todo, universe, process, pc, stack>>

\* The lane has ended: its state is closed, unless a join() has done it.
GcEnded(t) ==
  /\ InOp(t, "gc", "over")
  /\ LET s == op[t].s IN
       IF L[s]
       THEN /\ luaState' = [luaState EXCEPT ![s] = "close_gc"]
            /\ Enter(t, s)
            /\ Return(t)
       ELSE step(t, "cleanup") /\ UNCHANGED <<luaState, stack>>
  /\ UNCHANGED <<record, uni, process, pc>>

CloseCollected(t, s) ==
  /\ InClose(t, s) /\ luaState[s] = "close_gc" /\ HandlesOf(s) = {}
  /\ luaState' = [luaState EXCEPT ![s] = "closed"]
  /\ L' = [L EXCEPT ![s] = FALSE]
  /\ Leave(t)
  /\ begin(t, "gc", s, "cleanup", "forever", FALSE)
  /\ UNCHANGED <<heap, status, cancel_request, mstatus, owner, uni, process, pc>>

CleanupCollected(t) ==
  /\ InOp(t, "gc", "cleanup")
  /\ lane_cleanup(op[t].s)
  /\ owner' = [owner EXCEPT ![op[t].s] = None]
  /\ Return(t)
  /\ UNCHANGED <<status, cancel_request, mstatus, L, luaState, uni, process, pc, stack>>

-------------------------------------------------------------------------------
(* selfdestruct_gc(): the main state is closed *)

sd(l) == Up /\ pc[Main] = l /\ op[Main] = NoOp

\* lua_close() of the main state. The universe is its oldest userdata, so its
\* finalizer runs after those of the handles.
MainClose ==
  /\ Ready(Main)
  /\ luaState' = [luaState EXCEPT ![Main] = "close_self"]
  /\ Goto(Main, "closing")
  /\ UNCHANGED <<record, uni, process, stack, op>>

MainClosed ==
  /\ sd("closing") /\ InClose(Main, Main) /\ HandlesOf(Main) = {}
  /\ Goto(Main, "check")
  /\ UNCHANGED <<record, luaState, uni, process, stack, op>>

\* while( U->selfdestruct_first != SELFDESTRUCT_END)
ShutdownCheck ==
  /\ sd("check")
  /\ Goto(Main, IF chain = {} THEN "free" ELSE "lock")
  /\ UNCHANGED <<record, luaState, uni, process, stack, op>>

\* The order of the chain does not matter: a walk holds the mutex.
ShutdownLock ==
  /\ sd("lock") /\ CsFree
  /\ cs' = Main /\ todo' = chain
  /\ Goto(Main, "cancel")
  /\ UNCHANGED <<record, luaState, chain, linked, selfdestructing_count, universe, process,
                 stack, op>>

\* thread_cancel( L, s, 0.0001, FALSE, 0.0)
ShutdownCancel(s) ==
  /\ sd("cancel") /\ s \in todo
  /\ IF mstatus[s] = "KILLED" \/ status[s] \in Ended
     THEN todo' = todo \ {s} /\ UNCHANGED <<cancel_request, op>>
     ELSE /\ cancel_request' = [cancel_request EXCEPT ![s] = "hard"]
          /\ begin(Main, "sd_cancel", s, "wait", "timed", FALSE)
          /\ UNCHANGED todo
  /\ UNCHANGED <<heap, status, mstatus, L, owner, luaState, chain, linked,
                 selfdestructing_count, cs, universe, process, pc, stack>>

\* In time or not: the walk goes on.
ShutdownCancelled ==
  /\ InOp(Main, "sd_cancel", "over") \/ InOp(Main, "sd_cancel", "timeout")
  /\ todo' = todo \ {op[Main].s}
  /\ Return(Main)
  /\ UNCHANGED <<record, luaState, chain, linked, selfdestructing_count, cs, universe,
                 process, pc, stack>>

ShutdownUnlock ==
  /\ sd("cancel") /\ todo = {}
  /\ cs' = None
  /\ Goto(Main, "yield")
  /\ UNCHANGED <<record, luaState, chain, linked, selfdestructing_count, todo, universe,
                 process, stack, op>>

\* The chain is empty, no lane of it has a request, or shutdown_timeout is
\* over, which may be at any time.
ShutdownYield ==
  /\ sd("yield")
  /\ Goto(Main, "count")
  /\ UNCHANGED <<record, luaState, uni, process, stack, op>>

\* do .. while( again)
ShutdownCount ==
  /\ sd("count") /\ CsFree /\ selfdestructing_count <= 0
  /\ Goto(Main, "kill")
  /\ UNCHANGED <<record, luaState, uni, process, stack, op>>

ShutdownKillLock ==
  /\ sd("kill")
  /\ IF chain = {}
     THEN Goto(Main, "check") /\ UNCHANGED <<cs, todo>>
     ELSE CsFree /\ cs' = Main /\ todo' = chain /\ Goto(Main, "killing")
  /\ UNCHANGED <<record, luaState, chain, linked, selfdestructing_count, universe, process,
                 stack, op>>

ShutdownKill(s) ==
  /\ sd("killing") /\ s \in todo
  /\ linked' = linked \ {s}
  /\ \/ /\ THREAD_KILL(s, "ends")
        /\ process' = "killed"
        /\ op' = op
     \/ /\ THREAD_KILL(s, "ignored")
        /\ begin(Main, "sd_kill", s, "wait", "forever", FALSE)
        /\ process' = process
  /\ UNCHANGED <<record, luaState, chain, selfdestructing_count, cs, todo, universe, pc, stack>>

\* No lua_close(): the lane may have been interrupted anywhere.
ShutdownKilled ==
  /\ InOp(Main, "sd_kill", "over")
  /\ lane_cleanup(op[Main].s)
  /\ todo' = todo \ {op[Main].s}
  /\ Return(Main)
  /\ UNCHANGED <<status, cancel_request, mstatus, L, owner, luaState, chain, linked,
                 selfdestructing_count, cs, universe, process, pc, stack>>

ShutdownKillUnlock ==
  /\ sd("killing") /\ todo = {}
  /\ chain' = {} /\ cs' = None
  /\ Goto(Main, "check")
  /\ UNCHANGED <<record, luaState, linked, selfdestructing_count, todo, universe, process,
                 stack, op>>

\* The timer linda, the keepers, the allocator's lock and the mutexes.
ShutdownFree ==
  /\ sd("free")
  /\ universe' = "freed"
  /\ Goto(Main, "end")
  /\ UNCHANGED <<record, luaState, chain, linked, selfdestructing_count, cs, todo, process,
                 stack, op>>

-------------------------------------------------------------------------------
Init ==
  /\ heap = [s \in Lane |-> "none"]
  /\ status = [s \in Lane |-> "pending"]
  /\ cancel_request = [s \in Lane |-> "none"]
  /\ mstatus = [s \in Lane |-> "NORMAL"]
  /\ L = [s \in Lane |-> FALSE]
  /\ owner = [s \in Lane |-> None]
  /\ luaState = [x \in State |-> IF x = Main THEN "open" ELSE "none"]
  /\ chain = {} /\ linked = {} /\ selfdestructing_count = 0
  /\ cs = None /\ todo = {} /\ universe = "up" /\ process = "up"
  /\ pc = [t \in State |-> IF t = Main THEN "body" ELSE "none"]
  /\ stack = [t \in State |-> IF t = Main THEN <<Main>> ELSE <<>>]
  /\ op = [t \in State |-> NoOp]

\* What the program of a thread chooses to do.
Program(t) ==
  \E s \in Lane :
    \/ lane_new(t, s)
    \/ \E secs \in {"timed", "forever"} : thread_join(t, s, secs)
    \/ CancelSoft(t, s)
    \/ CancelHard(t, s, "timed", FALSE) \/ CancelHard(t, s, "zero", TRUE)
    \/ Ready(t) /\ thread_gc(t, s)

\* What it has to do next.
Step(t) ==
  \/ WaitLoop(t) \/ WaitTimeout(t)
  \/ JoinNothing(t) \/ JoinKilled(t) \/ JoinResults(t)
  \/ CancelOver(t) \/ CancelKilled(t)
  \/ \E secs \in {"zero", "timed"} : CancelKill(t, secs)
  \/ selfdestruct_add(t) \/ GcEnded(t) \/ CleanupCollected(t)
  \/ \E s \in Lane : CloseJoined(t, s) \/ CloseCollected(t, s)
  \/ ~Ready(t) /\ \E s \in Lane : thread_gc(t, s)

LaneStep(s) ==
  \/ lane_main(s) \/ Remove(s) \/ CloseSelf(s) \/ Uncount(s) \/ CleanupSelf(s)
  \/ \E st \in Ended : Finish(s, st)
  \/ Signal(s)

Shutdown ==
  \/ MainClosed \/ ShutdownCheck \/ ShutdownLock \/ ShutdownCancelled \/ ShutdownUnlock
  \/ ShutdownYield \/ ShutdownCount \/ ShutdownKillLock \/ ShutdownKilled
  \/ ShutdownKillUnlock \/ ShutdownFree
  \/ \E s \in Lane : ShutdownCancel(s) \/ ShutdownKill(s)

Next ==
  \/ \E t \in State : Program(t) \/ Step(t) \/ Spurious(t)
  \/ \E s \in Lane : LaneStep(s) \/ LindaWait(s) \/ LindaWake(s) \/ EndBody(s)
  \/ MainClose
  \/ Shutdown

Spec == Init /\ [][Next]_vars

-------------------------------------------------------------------------------
(* Properties *)

LanePc == {"none", "start", "body", "remove", "close", "uncount", "cleanup", "finish",
           "signal", "end"}
MainPc == {"body", "closing", "check", "lock", "cancel", "yield", "count", "kill",
           "killing", "free", "end"}
OpStep == {"none", "wait", "asleep", "over", "timeout", "add", "cleanup"}
Operation == [f : {"none", "join", "cancel", "kill", "gc", "sd_cancel", "sd_kill"},
              s : Lane \cup {None}, step : OpStep,
              secs : {"zero", "timed", "forever"}, force : BOOLEAN]

\* The types of the fields of s_lane and of the universe.
TypeOK ==
  /\ heap \in [Lane -> {"none", "live", "freed"}]
  /\ status \in [Lane -> {"pending", "running", "waiting"} \cup Ended]
  /\ cancel_request \in [Lane -> {"none", "soft", "hard"}]
  /\ mstatus \in [Lane -> {"NORMAL", "KILLED"}]
  /\ L \in [Lane -> BOOLEAN]
  /\ owner \in [Lane -> State \cup {None}]
  /\ luaState \in [State -> {"none", "open", "close_self", "close_join", "close_gc", "closed"}]
  /\ chain \subseteq Lane /\ linked \subseteq Lane /\ todo \subseteq Lane
  /\ selfdestructing_count \in Nat
  /\ cs \in {None, Main} /\ universe \in {"up", "freed"} /\ process \in {"up", "killed"}
  /\ pc \in [State -> LanePc \cup MainPc]
  /\ stack \in [State -> Seq(State)]
  /\ op \in [State -> Operation]

\* No Lua state is entered by two threads, or twice, or once it is closed:
\* join(), thread_gc() and the lane itself close it only when nobody else is
\* inside, however the closing of one state nests in that of another.
StateExclusive ==
  /\ \A t, u \in State : \A i \in DOMAIN stack[t], j \in DOMAIN stack[u] :
       stack[t][i] = stack[u][j] => t = u /\ i = j
  /\ \A t \in State : \A i \in DOMAIN stack[t] :
       luaState[stack[t][i]] \notin {"none", "closed"}

\* Nobody has a pointer to a freed lane: no handle, no operation, not the
\* chain. Its own thread is over, or is about to signal and unlock (the
\* window that the unlocked test in thread_gc() leaves).
FreedUnused ==
  \A s \in Lane : heap[s] = "freed" =>
    /\ owner[s] = None
    /\ s \notin linked \cup todo
    /\ s \in chain => pc[Main] = "killing"
    /\ \A t \in State : op[t].s # s
    /\ pc[s] \in {"signal", "end"}

\* Someone will free every lane: the holder of its handle, in a state that is
\* not closed, the chain, or the lane itself.
NoLaneLost ==
  \A s \in Lane : heap[s] = "live" =>
    \/ owner[s] \in Lane /\ luaState[owner[s]] # "closed"
    \/ owner[s] = Main /\ pc[Main] \in {"body", "closing"}
    \/ s \in chain
    \/ pc[s] \in {"close", "uncount", "cleanup"}

\* The lanes of the chain are those with a next pointer, which no handle
\* refers to; the count is that of the lanes in their last lua_close().
ChainSound ==
  /\ pc[Main] # "killing" => chain = linked
  /\ \A s \in linked : heap[s] = "live" /\ owner[s] = None
  /\ selfdestructing_count = Cardinality({s \in Lane : pc[s] \in {"close", "uncount"}})

\* A thread does not sleep on a lane that has ended, unless the lane is about
\* to signal it: THREAD_WAIT tests the status and goes to sleep under
\* done_lock, under which the lane sets it and signals.
NoMissedSignal ==
  \A s \in Lane : status[s] \in Ended /\ SleepersOn(s) # {} => pc[s] = "signal"

\* The keepers and mutexes go away after the last lane has finished its
\* lua_close().
ShutdownWaits ==
  universe = "freed" => \A s \in Lane : pc[s] \notin {"close", "uncount"}

\* Threads keep executing what they are in, no mutex is held for ever, and
\* time passes: a deadline is absolute, so spurious wake-ups cannot put it off.
Fairness ==
  /\ \A t \in State : WF_vars(Step(t)) /\ SF_vars(WaitTimeout(t))
  /\ \A s \in Lane : WF_vars(LaneStep(s))
  /\ WF_vars(Shutdown)

FairSpec == Spec /\ Fairness

\* selfdestruct_gc() ends, whatever the lanes do, unless THREAD_KILL leaves a
\* thread alive.
ShutdownEnds ==
  (pc[Main] = "closing") ~> (pc[Main] = "end" \/ ~Up \/ op[Main].f = "sd_kill")
===============================================================================

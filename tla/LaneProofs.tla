------------------------------ MODULE LaneProofs ------------------------------
(***************************************************************************)
(* Theorems about Lane, for any number of lanes: no Lua state is used by   *)
(* two threads, no freed lane is referred to, no lane is lost, the chain   *)
(* is sound and no wake-up is missed.                                      *)
(***************************************************************************)
EXTENDS Lane, FiniteSetTheorems, TLAPS

HandleOps == {"join", "cancel", "kill", "gc"}
ShutdownOps == {"sd_cancel", "sd_kill"}

\* A thread is inside its own state first, and then in the states of ended
\* lanes, each closed from the state that holds its handle.
Nesting ==
  \A t \in State : \A i \in DOMAIN stack[t] :
    IF i = 1 THEN stack[t][i] = t
    ELSE /\ stack[t][i] \in Lane
         /\ owner[stack[t][i]] = stack[t][i - 1]
         /\ luaState[stack[t][i]] \in {"close_gc", "close_join"}
         /\ status[stack[t][i]] \in Ended

\* What has not been made yet.
FreshOK(s) ==
  heap[s] = "none" =>
    /\ luaState[s] = "none" /\ owner[s] = None /\ status[s] = "pending"
    /\ pc[s] = "none" /\ stack[s] = <<>> /\ op[s] = NoOp
    /\ s \notin chain \cup linked \cup todo

Fresh == \A s \in Lane : FreshOK(s)

\* Where the thread of a lane is, and what it is inside.
PlaceOK(s) ==
  /\ pc[s] \in LanePc
  /\ pc[s] = "none" => heap[s] = "none"
  /\ pc[s] \in {"start", "body", "remove", "finish"} => luaState[s] = "open"
  /\ pc[s] = "close" => luaState[s] = "close_self"
  /\ pc[s] \in {"start", "remove", "finish"} => stack[s] = <<s>> /\ op[s] = NoOp
  /\ pc[s] \in {"body", "close"} => stack[s] # <<>>
  /\ pc[s] \in {"uncount", "cleanup", "signal", "end"} => stack[s] = <<>> /\ op[s] = NoOp
  /\ status[s] \in Ended => pc[s] \in {"signal", "end"}
  /\ pc[s] = "signal" => status[s] \in Ended
  /\ pc[s] \in {"close", "uncount", "cleanup"} =>
       heap[s] = "live" /\ owner[s] = None /\ s \notin chain \cup linked \cup todo

Places == \A s \in Lane : PlaceOK(s)

\* The operation of a thread: on a lane whose handle is in the state it runs
\* in, or a step of a walk of selfdestruct_gc().
OpOK(t) ==
  /\ op[t].f = "none" => op[t] = NoOp
  /\ op[t].f \in HandleOps => op[t].s \in Lane /\ RunsIn(t, owner[op[t].s])
  /\ op[t].f \in ShutdownOps => t = Main /\ op[t].s \in todo
  /\ op[t].step \in {"over", "cleanup"} => status[op[t].s] \in Ended

Operations == \A t \in State : OpOK(t)

\* The main thread: its mutex, its walks, and nothing left to collect.
MainThread ==
  /\ pc[Main] \in MainPc
  /\ cs = IF pc[Main] \in {"cancel", "killing"} THEN Main ELSE None
  /\ cs = None => todo = {}
  /\ stack[Main] # <<>>
  /\ pc[Main] \notin {"body", "closing"} =>
       HandlesOf(Main) = {} /\ stack[Main] = <<Main>> /\ op[Main].f \in {"none"} \cup ShutdownOps
  /\ op[Main].f = "sd_cancel" => pc[Main] = "cancel"
  /\ op[Main].f = "sd_kill" => pc[Main] = "killing"
  /\ luaState[Main] = IF pc[Main] = "body" THEN "open" ELSE "close_self"

\* The lanes nobody holds, before and during the walk that kills.
Chain ==
  /\ chain \cup linked \cup todo \subseteq {s \in Lane : owner[s] = None /\ heap[s] # "none"}
  /\ todo \subseteq chain
  /\ pc[Main] = "killing" =>
       /\ Up => linked = todo \ (IF op[Main].f = "sd_kill" THEN {op[Main].s} ELSE {})
       /\ \A s \in chain : s \in todo \/ heap[s] = "freed"
  /\ \A s \in todo : heap[s] = "live"

IInv ==
  /\ TypeOK /\ Nesting /\ StateExclusive /\ Fresh /\ Places /\ Operations
  /\ MainThread /\ Chain /\ ChainSound /\ FreedUnused /\ NoLaneLost /\ NoMissedSignal

\* The main state and the lanes are states, None is not.
LEMMA StateFacts == Main \in State /\ Lane \subseteq State /\ None \notin State
  BY MainIsNoLane DEF State

-------------------------------------------------------------------------------
(* Types *)

\* The moves of a thread keep the types of what they change.
LEMMA GotoType ==
  ASSUME TypeOK, NEW t \in State, NEW l \in LanePc \cup MainPc, Goto(t, l)
  PROVE  pc' \in [State -> LanePc \cup MainPc]
  BY DEF Goto, TypeOK

\* Run, Enter and Leave keep the stacks of states.
LEMMA RunType ==
  ASSUME TypeOK, NEW t \in State, NEW x \in Seq(State), Run(t, x)
  PROVE  stack' \in [State -> Seq(State)]
  BY DEF Run, TypeOK

\* The same for a stack with one state, or none.
LEMMA RunTypes ==
  ASSUME TypeOK, NEW t \in State, NEW x \in State, Run(t, <<>>) \/ Run(t, <<x>>)
  PROVE  stack' \in [State -> Seq(State)]
  <1>1. <<>> \in Seq(State) /\ <<x>> \in Seq(State)
    OBVIOUS
  <1> QED BY <1>1, RunType

\* A lua_close() enters the state it closes.
LEMMA EnterType ==
  ASSUME TypeOK, NEW t \in State, NEW x \in State, Enter(t, x)
  PROVE  stack' \in [State -> Seq(State)]
  <1>1. stack[t] \in Seq(State)
    BY DEF TypeOK
  <1>2. Append(stack[t], x) \in Seq(State)
    BY <1>1
  <1> QED BY <1>2, RunType DEF Enter

\* The end of a lua_close() leaves it.
LEMMA LeaveType ==
  ASSUME TypeOK, NEW t \in State, NEW x \in State, RunsIn(t, x), Leave(t)
  PROVE  stack' \in [State -> Seq(State)]
  <1>1. stack[t] \in Seq(State) /\ stack[t] # <<>>
    BY DEF TypeOK, RunsIn
  <1>2. SubSeq(stack[t], 1, Len(stack[t]) - 1) \in Seq(State)
    BY <1>1
  <1> QED BY <1>2, RunType DEF Leave

\* The end of an operation leaves none.
LEMMA ReturnType ==
  ASSUME TypeOK, NEW t \in State, Return(t)
  PROVE  op' \in [State -> Operation]
  BY DEF Return, TypeOK, NoOp, Operation, OpStep

\* The next step of an operation.
LEMMA StepType ==
  ASSUME TypeOK, NEW t \in State, NEW l \in OpStep, step(t, l)
  PROVE  op' \in [State -> Operation]
  <1>1. op[t] \in Operation /\ op \in [State -> Operation]
    BY DEF TypeOK
  <1>2. [op[t] EXCEPT !.step = l] \in Operation
    BY <1>1 DEF Operation
  <1>3. op' = [op EXCEPT ![t] = [op[t] EXCEPT !.step = l]]
    BY <1>1 DEF step
  <1> QED BY <1>1, <1>2, <1>3

\* The begin of an operation.
LEMMA BeginType ==
  ASSUME TypeOK, NEW t \in State, NEW s \in Lane, NEW l \in OpStep, NEW force \in BOOLEAN,
         NEW f \in {"join", "cancel", "kill", "gc", "sd_cancel", "sd_kill"},
         NEW secs \in {"zero", "timed", "forever"}, begin(t, f, s, l, secs, force)
  PROVE  op' \in [State -> Operation]
  BY DEF begin, TypeOK, Operation

-------------------------------------------------------------------------------
(* What the invariant says of an operation *)

\* The state that a thread runs in is the last one of its stack.
LEMMA InnerState ==
  ASSUME TypeOK, NEW t \in State, NEW x, RunsIn(t, x)
  PROVE  /\ Len(stack[t]) \in DOMAIN stack[t] /\ stack[t][Len(stack[t])] = x
         /\ x \in State
  <1>1. stack[t] \in Seq(State) /\ stack[t] # <<>>
    BY DEF TypeOK, RunsIn
  <1>2. Len(stack[t]) \in DOMAIN stack[t]
    BY <1>1
  <1> QED BY <1>1, <1>2 DEF RunsIn

\* Only one thread runs in a state.
LEMMA OneRuns ==
  ASSUME IInv, NEW t \in State, NEW u \in State, NEW x, RunsIn(t, x), RunsIn(u, x)
  PROVE  t = u
  <1>1. TypeOK /\ StateExclusive
    BY DEF IInv
  <1> QED BY <1>1, InnerState DEF StateExclusive

\* A lane somebody operates on is live, held by a handle in the state of the
\* operation, and nobody else operates on it or is closing its state.
LEMMA HandleFacts ==
  ASSUME IInv, NEW t \in State, op[t].f \in HandleOps
  PROVE  /\ op[t].s \in Lane /\ RunsIn(t, owner[op[t].s])
         /\ owner[op[t].s] \in State /\ heap[op[t].s] = "live"
         /\ op[t].s \notin chain \cup linked \cup todo
         /\ \A u \in State : op[u].s = op[t].s => u = t
         /\ \A u \in State : \A i \in DOMAIN stack[u] : stack[u][i] = op[t].s => i = 1
  <1> DEFINE s == op[t].s
  <1>1. TypeOK /\ Operations /\ Chain /\ Fresh /\ FreedUnused /\ Nesting /\ StateExclusive
    BY DEF IInv
  <1>2. s \in Lane /\ RunsIn(t, owner[s])
    BY <1>1 DEF Operations, OpOK
  <1>3. owner[s] \in State /\ owner[s] # None
    BY <1>1, <1>2, InnerState, StateFacts
  <1>4. heap[s] = "live"
    BY <1>1, <1>2, <1>3 DEF Fresh, FreshOK, FreedUnused, TypeOK
  <1>5. s \notin chain \cup linked \cup todo
    BY <1>1, <1>3 DEF Chain
  <1>6. ASSUME NEW u \in State, op[u].s = s PROVE u = t
    <2>1. op[u].f # "none"
      BY <1>1, <1>2, <1>6, StateFacts DEF Operations, OpOK, NoOp
    <2>2. op[u].f \in HandleOps
      BY <1>1, <1>5, <1>6, <2>1 DEF Operations, OpOK, TypeOK, Operation, HandleOps, ShutdownOps
    <2>3. RunsIn(u, owner[s])
      BY <1>1, <1>6, <2>2 DEF Operations, OpOK
    <2> QED BY <1>2, <2>3, OneRuns
  <1>7. ASSUME NEW u \in State, NEW i \in DOMAIN stack[u], stack[u][i] = s, i # 1 PROVE FALSE
    <2>1. owner[s] = stack[u][i - 1]
      BY <1>1, <1>7 DEF Nesting
    <2>2. stack[u] \in Seq(State) /\ stack[t] \in Seq(State)
      BY <1>1 DEF TypeOK
    <2>3. i - 1 \in DOMAIN stack[u] /\ i \in Nat
      BY <1>7, <2>2
    <2>4. Len(stack[t]) \in DOMAIN stack[t] /\ stack[t][Len(stack[t])] = owner[s]
      BY <1>1, <1>2, InnerState
    <2>5. u = t /\ i - 1 = Len(stack[t])
      BY <1>1, <2>1, <2>3, <2>4 DEF StateExclusive
    <2> QED BY <1>7, <2>2, <2>3, <2>5
  <1> QED BY <1>2, <1>3, <1>4, <1>5, <1>6, <1>7

\* A lane the shutdown works on is in the walk, and held by no handle.
LEMMA ShutdownFacts ==
  ASSUME IInv, NEW t \in State, op[t].f \in ShutdownOps
  PROVE  /\ t = Main /\ op[t].s \in Lane /\ op[t].s \in todo
         /\ owner[op[t].s] = None /\ heap[op[t].s] = "live"
         /\ \A u \in State : op[u].s = op[t].s => u = t
  <1> DEFINE s == op[t].s
  <1>1. TypeOK /\ Operations /\ Chain
    BY DEF IInv
  <1>2. t = Main /\ s \in todo /\ s \in Lane /\ owner[s] = None /\ heap[s] = "live"
    BY <1>1 DEF Operations, OpOK, Chain, TypeOK
  <1>3. ASSUME NEW u \in State, op[u].s = s PROVE u = t
    <2>1. op[u].f # "none"
      BY <1>1, <1>2, <1>3, StateFacts DEF Operations, OpOK, NoOp
    <2>2. op[u].f \notin HandleOps
      BY <1>2, <1>3, HandleFacts, StateFacts
    <2> QED BY <1>1, <1>2, <1>3, <2>1, <2>2 DEF Operations, OpOK, TypeOK, Operation, HandleOps, ShutdownOps
  <1> QED BY <1>2, <1>3

\* Every step keeps the types.
LEMMA TypeStep == ASSUME IInv, Next PROVE TypeOK'
  <1> USE StateFacts
  <1>0. TypeOK /\ ChainSound
    BY DEF IInv
  <1>1. ASSUME NEW t \in State, NEW s \in Lane, lane_new(t, s) PROVE TypeOK'
    BY <1>0, <1>1, GotoType, RunTypes DEF lane_new, TypeOK, record, uni, LanePc, MainPc
  <1>2. ASSUME NEW t \in State, NEW s \in Lane, NEW secs \in {"timed", "forever"},
               thread_join(t, s, secs)
        PROVE  TypeOK'
    <2>1. op' \in [State -> Operation]
      BY <1>0, <1>2, BeginType DEF thread_join, OpStep
    <2> QED BY <1>0, <1>2, <2>1 DEF thread_join, TypeOK, record, uni
  <1>3. ASSUME NEW t \in State, NEW s \in Lane, CancelSoft(t, s) PROVE TypeOK'
    BY <1>0, <1>3 DEF CancelSoft, TypeOK, record, uni
  <1>4. ASSUME NEW t \in State, NEW s \in Lane, NEW secs \in {"zero", "timed"}, NEW force \in BOOLEAN,
               CancelHard(t, s, secs, force)
        PROVE  TypeOK'
    BY <1>0, <1>4, BeginType DEF CancelHard, TypeOK, record, uni, OpStep
  <1>5. ASSUME NEW t \in State, NEW s \in Lane, thread_gc(t, s) PROVE TypeOK'
    BY <1>0, <1>5, BeginType DEF thread_gc, gcPath, TypeOK, record, uni, OpStep
  <1>6. ASSUME NEW t \in State, WaitLoop(t) PROVE TypeOK'
    BY <1>0, <1>6, StepType DEF WaitLoop, WaitFor, TypeOK, record, uni, OpStep
  <1>7. ASSUME NEW t \in State, WaitTimeout(t) PROVE TypeOK'
    BY <1>0, <1>7, StepType DEF WaitTimeout, WaitFor, TypeOK, record, uni, OpStep
  <1>8. ASSUME NEW t \in State, Spurious(t) PROVE TypeOK'
    BY <1>0, <1>8, StepType DEF Spurious, WaitFor, TypeOK, record, uni, OpStep
  <1>9. ASSUME NEW t \in State, JoinNothing(t) PROVE TypeOK'
    BY <1>0, <1>9, ReturnType DEF JoinNothing, TypeOK, record, uni
  <1>10. ASSUME NEW t \in State, JoinKilled(t) PROVE TypeOK'
    BY <1>0, <1>10, ReturnType DEF JoinKilled, TypeOK, record, uni
  <1>11. ASSUME NEW t \in State, JoinResults(t) PROVE TypeOK'
    <2>1. op' \in [State -> Operation] /\ op[t].s \in Lane
      BY <1>0, <1>11, ReturnType, HandleFacts DEF JoinResults, InOp, HandleOps
    <2>2. stack' \in [State -> Seq(State)]
      BY <1>0, <1>11, <2>1, EnterType DEF JoinResults, TypeOK
    <2> QED BY <1>0, <1>11, <2>1, <2>2 DEF JoinResults, TypeOK, record, uni
  <1>12. ASSUME NEW t \in State, CancelOver(t) PROVE TypeOK'
    BY <1>0, <1>12, ReturnType DEF CancelOver, TypeOK, record, uni
  <1>13. ASSUME NEW t \in State, CancelKilled(t) PROVE TypeOK'
    BY <1>0, <1>13, ReturnType DEF CancelKilled, TypeOK, record, uni
  <1>14. ASSUME NEW t \in State, NEW secs \in {"zero", "timed"}, CancelKill(t, secs) PROVE TypeOK'
    <2>1. op[t].s \in Lane
      BY <1>14, HandleFacts DEF CancelKill, InOp, HandleOps
    <2>2. op' \in [State -> Operation]
      <3>1. op' = op \/ begin(t, "kill", op[t].s, "wait", secs, TRUE)
        BY <1>14 DEF CancelKill
      <3>2. CASE op' = op
        BY <1>0, <3>2 DEF TypeOK
      <3>3. CASE begin(t, "kill", op[t].s, "wait", secs, TRUE)
        BY <1>0, <2>1, <3>3, BeginType DEF OpStep
      <3> QED BY <3>1, <3>2, <3>3
    <2> QED BY <1>0, <1>14, <2>2 DEF CancelKill, TypeOK, record, uni
  <1>15. ASSUME NEW t \in State, selfdestruct_add(t) PROVE TypeOK'
    <2>1. op' \in [State -> Operation] /\ op[t].s \in Lane
      BY <1>0, <1>15, ReturnType, HandleFacts DEF selfdestruct_add, InOp, HandleOps
    <2> QED BY <1>0, <1>15, <2>1 DEF selfdestruct_add, link, TypeOK, record, uni
  <1>16. ASSUME NEW t \in State, GcEnded(t) PROVE TypeOK'
    <2>1. op' \in [State -> Operation] /\ op[t].s \in Lane
      BY <1>0, <1>16, ReturnType, StepType, HandleFacts DEF GcEnded, InOp, HandleOps, OpStep
    <2>2. stack' \in [State -> Seq(State)]
      BY <1>0, <1>16, <2>1, EnterType DEF GcEnded, TypeOK
    <2> QED BY <1>0, <1>16, <2>1, <2>2 DEF GcEnded, TypeOK, record, uni
  <1>17. ASSUME NEW t \in State, CleanupCollected(t) PROVE TypeOK'
    BY <1>0, <1>17, ReturnType DEF CleanupCollected, lane_cleanup, TypeOK, record, uni
  <1>18. ASSUME NEW t \in State, NEW s \in Lane, CloseJoined(t, s) PROVE TypeOK'
    <2>1. stack' \in [State -> Seq(State)]
      BY <1>0, <1>18, LeaveType DEF CloseJoined, InClose
    <2> QED BY <1>0, <1>18, <2>1 DEF CloseJoined, TypeOK, record, uni
  <1>19. ASSUME NEW t \in State, NEW s \in Lane, CloseCollected(t, s) PROVE TypeOK'
    <2>1. stack' \in [State -> Seq(State)]
      BY <1>0, <1>19, LeaveType DEF CloseCollected, InClose
    <2>2. op' \in [State -> Operation]
      BY <1>0, <1>19, BeginType DEF CloseCollected, OpStep
    <2> QED BY <1>0, <1>19, <2>1, <2>2 DEF CloseCollected, TypeOK, record, uni
  <1>20. ASSUME NEW s \in Lane, lane_main(s) PROVE TypeOK'
    BY <1>0, <1>20, GotoType DEF lane_main, TypeOK, record, uni, LanePc, MainPc
  <1>21. ASSUME NEW s \in Lane, Remove(s) PROVE TypeOK'
    BY <1>0, <1>21, GotoType DEF Remove, selfdestruct_remove, TypeOK, record, uni, LanePc, MainPc
  <1>22. ASSUME NEW s \in Lane, CloseSelf(s) PROVE TypeOK'
    BY <1>0, <1>22, GotoType, RunTypes DEF CloseSelf, TypeOK, record, uni, LanePc, MainPc
  <1>23. ASSUME NEW s \in Lane, Uncount(s) PROVE TypeOK'
    <2> DEFINE C == {x \in Lane : pc[x] \in {"close", "uncount"}}
    <2>1. s \in C /\ IsFiniteSet(C)
      BY <1>23, LanesFinite, FS_Subset DEF Uncount
    <2>2. Cardinality(C) \in Nat /\ Cardinality(C) # 0
      BY <2>1, FS_CardinalityType, FS_EmptySet
    <2>3. selfdestructing_count' \in Nat
      BY <1>0, <1>23, <2>2 DEF Uncount, uncount, ChainSound
    <2> QED BY <1>0, <1>23, <2>3, GotoType DEF Uncount, TypeOK, record, LanePc, MainPc
  <1>24. ASSUME NEW s \in Lane, CleanupSelf(s) PROVE TypeOK'
    BY <1>0, <1>24, GotoType DEF CleanupSelf, lane_cleanup, TypeOK, record, uni, LanePc, MainPc
  <1>25. ASSUME NEW s \in Lane, NEW st \in Ended, Finish(s, st) PROVE TypeOK'
    BY <1>0, <1>25, GotoType, RunTypes DEF Finish, TypeOK, record, uni, LanePc, MainPc
  <1>26. ASSUME NEW s \in Lane, Signal(s) PROVE TypeOK'
    BY <1>0, <1>26, StepType, GotoType DEF Signal, SIGNAL_ONE, SleepersOn, TypeOK, record, uni,
       LanePc, MainPc, OpStep
  <1>27. ASSUME NEW s \in Lane, LindaWait(s) PROVE TypeOK'
    BY <1>0, <1>27 DEF LindaWait, TypeOK, record, uni
  <1>28. ASSUME NEW s \in Lane, LindaWake(s) PROVE TypeOK'
    BY <1>0, <1>28 DEF LindaWake, TypeOK, record, uni
  <1>29. ASSUME NEW s \in Lane, EndBody(s) PROVE TypeOK'
    BY <1>0, <1>29, GotoType DEF EndBody, TypeOK, record, uni, LanePc, MainPc
  <1>30. ASSUME MainClose PROVE TypeOK'
    BY <1>0, <1>30, GotoType DEF MainClose, TypeOK, record, uni, LanePc, MainPc
  <1>31. ASSUME MainClosed PROVE TypeOK'
    BY <1>0, <1>31, GotoType DEF MainClosed, TypeOK, record, uni, LanePc, MainPc
  <1>32. ASSUME ShutdownCheck PROVE TypeOK'
    BY <1>0, <1>32, GotoType DEF ShutdownCheck, TypeOK, record, uni, LanePc, MainPc
  <1>33. ASSUME ShutdownLock PROVE TypeOK'
    BY <1>0, <1>33, GotoType DEF ShutdownLock, TypeOK, record, uni, LanePc, MainPc
  <1>34. ASSUME NEW s \in Lane, ShutdownCancel(s) PROVE TypeOK'
    BY <1>0, <1>34, BeginType DEF ShutdownCancel, TypeOK, record, uni, OpStep
  <1>35. ASSUME ShutdownCancelled PROVE TypeOK'
    BY <1>0, <1>35, ReturnType DEF ShutdownCancelled, TypeOK, record, uni
  <1>36. ASSUME ShutdownUnlock PROVE TypeOK'
    BY <1>0, <1>36, GotoType DEF ShutdownUnlock, TypeOK, record, uni, LanePc, MainPc
  <1>37. ASSUME ShutdownYield PROVE TypeOK'
    BY <1>0, <1>37, GotoType DEF ShutdownYield, TypeOK, record, uni, LanePc, MainPc
  <1>38. ASSUME ShutdownCount PROVE TypeOK'
    BY <1>0, <1>38, GotoType DEF ShutdownCount, TypeOK, record, uni, LanePc, MainPc
  <1>39. ASSUME ShutdownKillLock PROVE TypeOK'
    BY <1>0, <1>39, GotoType DEF ShutdownKillLock, TypeOK, record, uni, LanePc, MainPc
  <1>40. ASSUME NEW s \in Lane, ShutdownKill(s) PROVE TypeOK'
    BY <1>0, <1>40, BeginType DEF ShutdownKill, TypeOK, record, uni, OpStep
  <1>41. ASSUME ShutdownKilled PROVE TypeOK'
    BY <1>0, <1>41, ReturnType DEF ShutdownKilled, lane_cleanup, TypeOK, record, uni
  <1>42. ASSUME ShutdownKillUnlock PROVE TypeOK'
    BY <1>0, <1>42, GotoType DEF ShutdownKillUnlock, TypeOK, record, uni, LanePc, MainPc
  <1>43. ASSUME ShutdownFree PROVE TypeOK'
    BY <1>0, <1>43, GotoType DEF ShutdownFree, TypeOK, record, uni, LanePc, MainPc
  <1> QED BY <1>1, <1>2, <1>3, <1>4, <1>5, <1>6, <1>7, <1>8, <1>9, <1>10, <1>11, <1>12, <1>13,
             <1>14, <1>15, <1>16, <1>17, <1>18, <1>19, <1>20, <1>21, <1>22, <1>23, <1>24, <1>25,
             <1>26, <1>27, <1>28, <1>29, <1>30, <1>31, <1>32, <1>33, <1>34, <1>35, <1>36, <1>37,
             <1>38, <1>39, <1>40, <1>41, <1>42, <1>43 DEF Next, Program, Step, LaneStep, Shutdown

-------------------------------------------------------------------------------
(* The steps by what they change *)

\* A thread operates on a handle: nothing moves but its operation.
Talk ==
  \E t \in State :
    \/ \E s \in Lane :
         \/ \E secs \in {"timed", "forever"} : thread_join(t, s, secs)
         \/ CancelSoft(t, s)
         \/ \E secs \in {"zero", "timed"}, force \in BOOLEAN : CancelHard(t, s, secs, force)
         \/ thread_gc(t, s)
    \/ WaitLoop(t) \/ WaitTimeout(t) \/ Spurious(t)
    \/ JoinNothing(t) \/ JoinKilled(t) \/ CancelOver(t) \/ CancelKilled(t)
    \/ \E secs \in {"zero", "timed"} : CancelKill(t, secs)

\* A step of selfdestruct_gc(), but for the one that frees a lane.
Walk ==
  \/ MainClosed \/ ShutdownCheck \/ ShutdownLock \/ ShutdownCancelled \/ ShutdownUnlock
  \/ ShutdownYield \/ ShutdownCount \/ ShutdownKillLock
  \/ ShutdownKillUnlock \/ ShutdownFree
  \/ \E s \in Lane : ShutdownCancel(s) \/ ShutdownKill(s)

\* The actions, grouped by what they leave alone.
LEMMA NextCases ==
  ASSUME Next
  PROVE  \/ Talk \/ Walk \/ MainClose \/ ShutdownKilled
         \/ \E t \in State : JoinResults(t) \/ selfdestruct_add(t) \/ GcEnded(t)
                             \/ CleanupCollected(t)
         \/ \E t \in State, s \in Lane : lane_new(t, s) \/ CloseJoined(t, s) \/ CloseCollected(t, s)
         \/ \E s \in Lane : lane_main(s) \/ Remove(s) \/ CloseSelf(s) \/ Uncount(s)
                            \/ CleanupSelf(s) \/ Signal(s)
                            \/ LindaWait(s) \/ LindaWake(s) \/ EndBody(s)
         \/ \E s \in Lane, st \in Ended : Finish(s, st)
  BY DEF Next, Program, Step, LaneStep, Shutdown, Talk, Walk

\* What the steps of join, cancel and THREAD_WAIT leave alone.
LEMMA TalkFrame ==
  ASSUME Talk
  PROVE  UNCHANGED <<heap, status, owner, luaState, chain, linked, selfdestructing_count, cs,
                     todo, universe, pc, stack>>
  BY DEF Talk, thread_join, CancelSoft, CancelHard, thread_gc, WaitLoop, WaitTimeout, Spurious,
         WaitFor, JoinNothing, JoinKilled, CancelOver, CancelKilled, CancelKill, record, uni

\* What the steps of selfdestruct_gc() leave alone.
LEMMA WalkFrame ==
  ASSUME Walk
  PROVE  UNCHANGED <<heap, status, owner, luaState, selfdestructing_count, stack>>
  BY DEF Walk, MainClosed, ShutdownCheck, ShutdownLock, ShutdownCancelled, ShutdownUnlock,
         ShutdownYield, ShutdownCount, ShutdownKillLock, ShutdownKillUnlock, ShutdownFree,
         ShutdownCancel, ShutdownKill, record, uni

-------------------------------------------------------------------------------
(* Who is inside which state *)

\* A state that is being closed for its lane: its lane has ended.
LEMMA NestedFacts ==
  ASSUME IInv, NEW t \in State, NEW i \in DOMAIN stack[t], i # 1
  PROVE  /\ i \in Nat /\ i - 1 \in DOMAIN stack[t] /\ stack[t][i] \in Lane
         /\ owner[stack[t][i]] = stack[t][i - 1] /\ owner[stack[t][i]] \in State
         /\ luaState[stack[t][i]] \in {"close_gc", "close_join"}
         /\ status[stack[t][i]] \in Ended /\ pc[stack[t][i]] \in {"signal", "end"}
  <1>1. TypeOK /\ Nesting /\ Places
    BY DEF IInv
  <1>2. stack[t] \in Seq(State)
    BY <1>1 DEF TypeOK
  <1>3. i \in Nat /\ i - 1 \in DOMAIN stack[t]
    BY <1>2
  <1>4. stack[t][i - 1] \in State
    BY <1>2, <1>3
  <1> QED BY <1>1, <1>3, <1>4 DEF Nesting, Places, PlaceOK

\* The bottom of a stack is the thread's own state.
LEMMA BottomFacts ==
  ASSUME IInv, NEW t \in State, stack[t] # <<>>
  PROVE  /\ 1 \in DOMAIN stack[t] /\ stack[t][1] = t
         /\ t \in Lane => luaState[t] \in {"open", "close_self"} /\ status[t] \notin Ended
  <1>1. TypeOK /\ Nesting /\ Places /\ Fresh
    BY DEF IInv
  <1>2. stack[t] \in Seq(State)
    BY <1>1 DEF TypeOK
  <1>3. 1 \in DOMAIN stack[t]
    BY <1>2
  <1>4. stack[t][1] = t
    BY <1>1, <1>3 DEF Nesting
  <1> QED BY <1>1, <1>3, <1>4 DEF Places, PlaceOK, Fresh, FreshOK, LanePc

\* A step that leaves the stacks alone, and the states being closed too.
LEMMA StackKept ==
  ASSUME IInv, UNCHANGED stack,
         \A t \in State : \A i \in DOMAIN stack[t] :
           LET x == stack[t][i] IN
             i # 1 => owner'[x] = owner[x] /\ luaState'[x] = luaState[x] /\ status'[x] = status[x],
         \A x \in State : luaState[x] \notin {"none", "closed"} =>
                            luaState'[x] \notin {"none", "closed"}
  PROVE  Nesting' /\ StateExclusive'
  <1>1. TypeOK /\ Nesting /\ StateExclusive
    BY DEF IInv
  <1>2. Nesting'
    BY <1>1 DEF Nesting
  <1>3. \A t \in State : \A i \in DOMAIN stack[t] : stack[t][i] \in State
    BY <1>1 DEF TypeOK
  <1> QED BY <1>1, <1>2, <1>3 DEF StateExclusive

\* The close of a state begins, from the state that holds the handle.
LEMMA Entered ==
  ASSUME IInv, NEW t \in State, op[t].f \in HandleOps, status[op[t].s] \in Ended,
         NEW c \in {"close_gc", "close_join"},
         Enter(t, op[t].s), luaState' = [luaState EXCEPT ![op[t].s] = c],
         UNCHANGED <<owner, status>>
  PROVE  Nesting' /\ StateExclusive'
  <1> DEFINE s == op[t].s  st == stack[t]  n == Len(stack[t])
  <1>1. TypeOK /\ Nesting /\ StateExclusive
    BY DEF IInv
  <1>2. /\ s \in Lane /\ s \in State /\ RunsIn(t, owner[s])
        /\ \A u \in State : \A i \in DOMAIN stack[u] : stack[u][i] = s => i = 1
    BY HandleFacts, StateFacts
  <1>3. st \in Seq(State) /\ n \in Nat /\ n # 0 /\ st[n] = owner[s]
    BY <1>1, <1>2, InnerState DEF TypeOK
  <1>4. \A u \in State : \A i \in DOMAIN stack[u] : stack[u][i] # s
    BY <1>2, BottomFacts
  <1>5. /\ stack'[t] \in Seq(State) /\ DOMAIN stack'[t] = 1 .. n + 1 /\ stack'[t][n + 1] = s
        /\ \A i \in 1 .. n : stack'[t][i] = st[i]
        /\ DOMAIN st = 1 .. n
    BY <1>1, <1>2, <1>3 DEF Enter, Run, TypeOK
  <1>6. \A u \in State : u # t => stack'[u] = stack[u]
    BY <1>1 DEF Enter, Run, TypeOK
  <1>7. luaState'[s] = c /\ \A x \in State : x # s => luaState'[x] = luaState[x]
    BY <1>1, <1>2 DEF TypeOK
  <1>8. ASSUME NEW u \in State, NEW i \in DOMAIN stack'[u]
        PROVE  \/ i \in DOMAIN stack[u] /\ stack'[u][i] = stack[u][i] /\ stack[u][i] # s
               \/ u = t /\ i = n + 1 /\ stack'[u][i] = s
    BY <1>3, <1>4, <1>5, <1>6, <1>8
  <1>9. Nesting'
    <2> SUFFICES ASSUME NEW u \in State, NEW i \in DOMAIN stack'[u]
                 PROVE  IF i = 1 THEN stack'[u][i] = u
                        ELSE /\ stack'[u][i] \in Lane
                             /\ owner[stack'[u][i]] = stack'[u][i - 1]
                             /\ luaState'[stack'[u][i]] \in {"close_gc", "close_join"}
                             /\ status[stack'[u][i]] \in Ended
      BY DEF Nesting
    <2>1. CASE u = t /\ i = n + 1
      BY <1>2, <1>3, <1>5, <1>7, <2>1
    <2>2. CASE i \in DOMAIN stack[u] /\ stack'[u][i] = stack[u][i] /\ stack[u][i] # s
      <3>1. CASE i = 1
        BY <1>1, <2>2, <3>1 DEF Nesting
      <3>2. CASE i # 1
        <4>1. /\ i - 1 \in DOMAIN stack[u] /\ stack[u][i] \in Lane
              /\ owner[stack[u][i]] = stack[u][i - 1]
              /\ luaState[stack[u][i]] \in {"close_gc", "close_join"}
              /\ status[stack[u][i]] \in Ended
          BY <2>2, <3>2, NestedFacts
        <4>2. stack'[u][i - 1] = stack[u][i - 1]
          BY <1>5, <1>6, <4>1
        <4> QED BY <1>7, <2>2, <3>2, <4>1, <4>2, StateFacts
      <3> QED BY <3>1, <3>2
    <2> QED BY <1>8, <2>1, <2>2
  <1>10. \A u, v \in State : \A i \in DOMAIN stack'[u], j \in DOMAIN stack'[v] :
           stack'[u][i] = stack'[v][j] => u = v /\ i = j
    BY <1>1, <1>8 DEF StateExclusive
  <1>11. \A u \in State : \A i \in DOMAIN stack'[u] :
           luaState'[stack'[u][i]] \notin {"none", "closed"}
    <2>1. \A u \in State : \A i \in DOMAIN stack[u] : stack[u][i] \in State
      BY <1>1 DEF TypeOK
    <2> QED BY <1>1, <1>7, <1>8, <2>1 DEF StateExclusive
  <1> QED BY <1>9, <1>10, <1>11 DEF StateExclusive

\* The close of a state ends.
LEMMA Left ==
  ASSUME IInv, NEW t \in State, NEW s \in Lane, RunsIn(t, s),
         luaState[s] \in {"close_gc", "close_join"}, Leave(t),
         luaState' = [luaState EXCEPT ![s] = "closed"], UNCHANGED <<owner, status>>
  PROVE  /\ Nesting' /\ StateExclusive'
         /\ RunsIn(t, owner[s])' /\ status[s] \in Ended /\ stack'[t] # <<>> /\ stack'[t][1] = t
  <1> DEFINE st == stack[t]  n == Len(stack[t])
  <1>1. TypeOK /\ Nesting /\ StateExclusive
    BY DEF IInv
  <1>2. st \in Seq(State) /\ n \in DOMAIN st /\ st[n] = s /\ n \in Nat /\ DOMAIN st = 1 .. n
    BY <1>1, InnerState DEF TypeOK
  <1>3. n # 1
    BY <1>2, BottomFacts DEF RunsIn
  <1>4. /\ stack'[t] \in Seq(State) /\ Len(stack'[t]) = n - 1 /\ DOMAIN stack'[t] = 1 .. n - 1
        /\ \A i \in 1 .. n - 1 : stack'[t][i] = st[i]
    BY <1>1, <1>2, <1>3 DEF Leave, Run, TypeOK
  <1>5. \A u \in State : u # t => stack'[u] = stack[u]
    BY <1>1 DEF Leave, Run, TypeOK
  <1>6. \A x \in State : x # s => luaState'[x] = luaState[x]
    BY <1>1 DEF TypeOK
  <1>7. ASSUME NEW u \in State, NEW i \in DOMAIN stack'[u]
        PROVE  i \in DOMAIN stack[u] /\ stack'[u][i] = stack[u][i] /\ stack[u][i] # s
    <2>1. i \in DOMAIN stack[u] /\ stack'[u][i] = stack[u][i] /\ (u = t => i # n)
      BY <1>2, <1>4, <1>5, <1>7
    <2> QED BY <1>1, <1>2, <2>1 DEF StateExclusive
  <1>8. \A u \in State : \A i \in DOMAIN stack[u] : stack[u][i] \in State
    BY <1>1 DEF TypeOK
  <1>9. Nesting'
    <2> SUFFICES ASSUME NEW u \in State, NEW i \in DOMAIN stack'[u]
                 PROVE  IF i = 1 THEN stack'[u][i] = u
                        ELSE /\ stack'[u][i] \in Lane
                             /\ owner[stack'[u][i]] = stack'[u][i - 1]
                             /\ luaState'[stack'[u][i]] \in {"close_gc", "close_join"}
                             /\ status[stack'[u][i]] \in Ended
      BY DEF Nesting
    <2>1. i \in DOMAIN stack[u] /\ stack'[u][i] = stack[u][i] /\ stack[u][i] # s
      BY <1>7
    <2>2. CASE i = 1
      BY <1>1, <2>1, <2>2 DEF Nesting
    <2>3. CASE i # 1
      <3>1. /\ i \in Nat /\ i - 1 \in DOMAIN stack[u] /\ stack[u][i] \in Lane
            /\ owner[stack[u][i]] = stack[u][i - 1]
            /\ luaState[stack[u][i]] \in {"close_gc", "close_join"}
            /\ status[stack[u][i]] \in Ended
        BY <2>1, <2>3, NestedFacts
      <3>2. i - 1 \in DOMAIN stack'[u]
        BY <1>2, <1>4, <1>5, <2>1, <3>1
      <3> QED BY <1>6, <1>7, <1>8, <2>1, <2>3, <3>1, <3>2
    <2> QED BY <2>2, <2>3
  <1>10. StateExclusive'
    BY <1>1, <1>6, <1>7, <1>8 DEF StateExclusive
  <1>0. n - 1 \in 1 .. n - 1
    <2>1. \A k \in Nat : k \in 1 .. k /\ k # 1 => k - 1 \in 1 .. k - 1
      OBVIOUS
    <2>2. n \in Nat /\ n \in 1 .. n /\ n # 1
      BY <1>2, <1>3
    <2> HIDE DEF n
    <2> QED BY <2>1, <2>2
  <1>11. owner[s] = st[n - 1] /\ status[s] \in Ended
    <2> HIDE DEF n
    <2> QED BY <1>2, <1>3, NestedFacts
  <1>12. stack'[t] # <<>> /\ RunsIn(t, owner[s])'
    BY <1>0, <1>4, <1>11 DEF RunsIn
  <1>13. stack'[t][1] = t
    BY <1>2, <1>3, <1>4, BottomFacts DEF RunsIn
  <1> QED BY <1>9, <1>10, <1>11, <1>12, <1>13

\* A lane is done with its own state.
LEMMA Dropped ==
  ASSUME IInv, NEW s \in Lane, status[s] \notin Ended, Run(s, <<>>), UNCHANGED owner,
         \A x \in Lane : x # s => status'[x] = status[x],
         \A x \in State : x # s => luaState'[x] = luaState[x],
         stack[s] # <<>>
  PROVE  Nesting' /\ StateExclusive'
  <1>1. TypeOK /\ Nesting /\ StateExclusive
    BY DEF IInv
  <1>2. stack'[s] = <<>> /\ \A u \in State : u # s => stack'[u] = stack[u]
    BY <1>1, StateFacts DEF Run, TypeOK
  <1>3. ASSUME NEW u \in State, NEW i \in DOMAIN stack'[u]
        PROVE  u # s /\ i \in DOMAIN stack[u] /\ stack'[u][i] = stack[u][i] /\ stack[u][i] # s
    <2>1. u # s /\ i \in DOMAIN stack[u] /\ stack'[u] = stack[u]
      BY <1>2, <1>3
    <2>2. stack[u][i] # s
      BY <1>1, <2>1, BottomFacts, StateFacts DEF StateExclusive
    <2> QED BY <2>1, <2>2
  <1>4. \A u \in State : \A i \in DOMAIN stack[u] : stack[u][i] \in State
    BY <1>1 DEF TypeOK
  <1>5. Nesting'
    <2> SUFFICES ASSUME NEW u \in State, NEW i \in DOMAIN stack'[u]
                 PROVE  IF i = 1 THEN stack'[u][i] = u
                        ELSE /\ stack'[u][i] \in Lane
                             /\ owner[stack'[u][i]] = stack'[u][i - 1]
                             /\ luaState'[stack'[u][i]] \in {"close_gc", "close_join"}
                             /\ status'[stack'[u][i]] \in Ended
      BY DEF Nesting
    <2>1. u # s /\ i \in DOMAIN stack[u] /\ stack'[u] = stack[u] /\ stack[u][i] # s
      BY <1>2, <1>3
    <2> QED BY <1>1, <1>4, <2>1 DEF Nesting
  <1> QED BY <1>1, <1>3, <1>4, <1>5 DEF StateExclusive

\* Every step keeps the stacks nested and exclusive.
LEMMA StackStep == ASSUME IInv, Next PROVE Nesting' /\ StateExclusive'
  <1> USE StateFacts
  <1>0. TypeOK /\ Places /\ Fresh /\ Operations /\ MainThread
    BY DEF IInv
  <1>1. ASSUME NEW t \in State, NEW s \in Lane, lane_new(t, s) PROVE Nesting' /\ StateExclusive'
    <2>1. /\ stack[s] = <<>> /\ luaState[s] = "none" /\ owner[s] = None
          /\ stack' = [stack EXCEPT ![s] = <<s>>] /\ status' = status
          /\ owner' = [owner EXCEPT ![s] = t] /\ luaState' = [luaState EXCEPT ![s] = "open"]
      BY <1>0, <1>1 DEF lane_new, Run, Fresh, FreshOK
    <2>2. StateExclusive /\ Nesting
      BY DEF IInv
    <2>3. ASSUME NEW u \in State, NEW i \in DOMAIN stack'[u]
          PROVE  \/ u = s /\ i = 1 /\ stack'[u][i] = s
                 \/ u # s /\ i \in DOMAIN stack[u] /\ stack'[u] = stack[u] /\ stack[u][i] # s
      BY <1>0, <2>1, <2>2, <2>3 DEF TypeOK, StateExclusive
    <2>4. luaState'[s] = "open" /\ \A x \in State : x # s => luaState'[x] = luaState[x]
      BY <1>0, <2>1 DEF TypeOK
    <2>5. \A u \in State : \A i \in DOMAIN stack[u] : stack[u][i] \in State
      BY <1>0 DEF TypeOK
    <2>6. \A x \in Lane : x # s => owner'[x] = owner[x]
      BY <1>0, <2>1 DEF TypeOK
    <2>7. Nesting'
      BY <2>1, <2>2, <2>3, <2>4, <2>5, <2>6 DEF Nesting
    <2> QED BY <2>2, <2>3, <2>4, <2>5, <2>7 DEF StateExclusive
  <1>2. ASSUME NEW t \in State, JoinResults(t) PROVE Nesting' /\ StateExclusive'
    <2>1. op[t].f \in HandleOps /\ op[t].step = "over"
      BY <1>2 DEF JoinResults, InOp, HandleOps
    <2>2. status[op[t].s] \in Ended /\ UNCHANGED <<owner, status>>
      BY <1>0, <1>2, <2>1 DEF Operations, OpOK, JoinResults, record
    <2>3. CASE UNCHANGED <<luaState, stack>>
      BY <2>2, <2>3, StackKept
    <2>4. CASE luaState' = [luaState EXCEPT ![op[t].s] = "close_join"] /\ Enter(t, op[t].s)
      BY <2>1, <2>2, <2>4, Entered
    <2> QED BY <1>2, <2>3, <2>4 DEF JoinResults
  <1>3. ASSUME NEW t \in State, GcEnded(t) PROVE Nesting' /\ StateExclusive'
    <2>1. op[t].f \in HandleOps /\ op[t].step = "over"
      BY <1>3 DEF GcEnded, InOp, HandleOps
    <2>2. status[op[t].s] \in Ended /\ UNCHANGED <<owner, status>>
      BY <1>0, <1>3, <2>1 DEF Operations, OpOK, GcEnded, record
    <2>3. CASE UNCHANGED <<luaState, stack>>
      BY <2>2, <2>3, StackKept
    <2>4. CASE luaState' = [luaState EXCEPT ![op[t].s] = "close_gc"] /\ Enter(t, op[t].s)
      BY <2>1, <2>2, <2>4, Entered
    <2> QED BY <1>3, <2>3, <2>4 DEF GcEnded
  <1>4. ASSUME NEW t \in State, NEW s \in Lane, CloseJoined(t, s) \/ CloseCollected(t, s)
        PROVE  Nesting' /\ StateExclusive'
    BY <1>4, Left DEF CloseJoined, CloseCollected, InClose
  <1>5. ASSUME NEW s \in Lane, CloseSelf(s) PROVE Nesting' /\ StateExclusive'
    <2>1. /\ pc[s] = "close" /\ Run(s, <<>>) /\ UNCHANGED <<owner, status>> /\ stack[s] # <<>>
          /\ luaState' = [luaState EXCEPT ![s] = "closed"]
      BY <1>5 DEF CloseSelf, InClose, RunsIn, record
    <2>2. status[s] \notin Ended /\ \A x \in State : x # s => luaState'[x] = luaState[x]
      BY <1>0, <2>1 DEF Places, PlaceOK, TypeOK
    <2> QED BY <2>1, <2>2, Dropped
  <1>6. ASSUME NEW s \in Lane, NEW st \in Ended, Finish(s, st) PROVE Nesting' /\ StateExclusive'
    <2>1. /\ pc[s] = "finish" /\ Run(s, <<>>) /\ UNCHANGED <<owner, luaState>>
          /\ status' = [status EXCEPT ![s] = st]
      BY <1>6 DEF Finish
    <2>2. /\ status[s] \notin Ended /\ stack[s] = <<s>>
          /\ \A x \in Lane : x # s => status'[x] = status[x]
      BY <1>0, <2>1 DEF Places, PlaceOK, TypeOK
    <2>3. <<s>> # <<>>
      OBVIOUS
    <2> QED BY <2>1, <2>2, <2>3, Dropped
  <1>7. ASSUME NEW t \in State, selfdestruct_add(t) \/ CleanupCollected(t)
        PROVE  Nesting' /\ StateExclusive'
    <2>1. /\ op[t].f \in HandleOps /\ UNCHANGED <<stack, luaState, status>>
          /\ owner' = [owner EXCEPT ![op[t].s] = None]
      BY <1>7 DEF selfdestruct_add, CleanupCollected, InOp, HandleOps
    <2>2. \A u \in State : \A i \in DOMAIN stack[u] : i # 1 => owner'[stack[u][i]] = owner[stack[u][i]]
      BY <1>0, <2>1, HandleFacts, NestedFacts DEF TypeOK
    <2> QED BY <2>1, <2>2, StackKept
  <1>8. ASSUME NEW s \in Lane, Remove(s) PROVE Nesting' /\ StateExclusive'
    <2>1. /\ pc[s] = "remove" /\ UNCHANGED <<stack, owner, status>>
          /\ luaState' = luaState \/ luaState' = [luaState EXCEPT ![s] = "close_self"]
      BY <1>8 DEF Remove, record
    <2>2. \A u \in State : \A i \in DOMAIN stack[u] : i # 1 => stack[u][i] \in State \ {s}
      BY <2>1, NestedFacts
    <2> QED BY <1>0, <2>1, <2>2, StackKept DEF TypeOK
  <1>9. ASSUME MainClose PROVE Nesting' /\ StateExclusive'
    <2>1. /\ UNCHANGED <<stack, owner, status>>
          /\ luaState' = [luaState EXCEPT ![Main] = "close_self"]
      BY <1>9 DEF MainClose, record
    <2>2. \A u \in State : \A i \in DOMAIN stack[u] : i # 1 => stack[u][i] \in State \ {Main}
      BY NestedFacts, MainIsNoLane
    <2> QED BY <1>0, <2>1, <2>2, StackKept DEF TypeOK
  <1>10. ASSUME NEW s \in Lane, lane_main(s) \/ LindaWait(s) \/ LindaWake(s)
         PROVE  Nesting' /\ StateExclusive'
    <2>1. /\ status[s] \notin Ended /\ UNCHANGED <<stack, owner, luaState>>
          /\ status' = [status EXCEPT ![s] = "running"] \/ status' = [status EXCEPT ![s] = "waiting"]
      BY <1>0, <1>10 DEF lane_main, LindaWait, LindaWake, Ready, Places, PlaceOK, Ended
    <2>2. \A u \in State : \A i \in DOMAIN stack[u] : i # 1 => stack[u][i] \in Lane \ {s}
      BY <2>1, NestedFacts
    <2> QED BY <1>0, <2>1, <2>2, StackKept DEF TypeOK
  <1>11. CASE UNCHANGED <<stack, owner, luaState, status>>
    BY <1>11, StackKept
  <1>12. ASSUME NEW s \in Lane, Uncount(s) \/ CleanupSelf(s) \/ Signal(s) \/ EndBody(s)
         PROVE  UNCHANGED <<stack, owner, luaState, status>>
    BY <1>12 DEF Uncount, CleanupSelf, Signal, EndBody, record
  <1>13. ASSUME ShutdownKilled PROVE UNCHANGED <<stack, owner, luaState, status>>
    BY <1>13 DEF ShutdownKilled
  <1> QED BY <1>1, <1>2, <1>3, <1>4, <1>5, <1>6, <1>7, <1>8, <1>9, <1>10, <1>11, <1>12, <1>13,
             NextCases, TalkFrame, WalkFrame

-------------------------------------------------------------------------------
(* Operations *)

\* begin() sets the operation of one thread.
LEMMA BeginEffect ==
  ASSUME TypeOK, NEW t \in State, NEW f, NEW s, NEW l, NEW secs, NEW force,
         begin(t, f, s, l, secs, force)
  PROVE  /\ op'[t] = [f |-> f, s |-> s, step |-> l, secs |-> secs, force |-> force]
         /\ \A u \in State : u # t => op'[u] = op[u]
  BY DEF begin, TypeOK

\* step() moves the operation of one thread.
LEMMA StepEffect ==
  ASSUME TypeOK, NEW t \in State, NEW l, step(t, l)
  PROVE  /\ op'[t].f = op[t].f /\ op'[t].s = op[t].s /\ op'[t].step = l
         /\ \A u \in State : u # t => op'[u] = op[u]
  <1>1. op[t] \in Operation
    BY DEF TypeOK
  <1>2. op' = [op EXCEPT ![t] = [op[t] EXCEPT !.step = l]]
    BY DEF step
  <1> QED BY <1>1, <1>2 DEF TypeOK, Operation

\* Return() ends the operation of one thread.
LEMMA ReturnEffect ==
  ASSUME TypeOK, NEW t \in State, Return(t)
  PROVE  op'[t] = NoOp /\ \A u \in State : u # t => op'[u] = op[u]
  BY DEF Return, TypeOK

\* An operation is on a handle or part of the shutdown, and on a lane.
LEMMA OpCases ==
  ASSUME IInv, NEW t \in State
  PROVE  /\ op[t].f = "none" \/ op[t].f \in HandleOps \/ op[t].f \in ShutdownOps
         /\ op[t].step \notin {"none"} => op[t].f # "none"
         /\ op[t].f # "none" => op[t].s \in Lane
  <1>1. TypeOK /\ Operations /\ Chain
    BY DEF IInv
  <1> QED BY <1>1 DEF TypeOK, Operation, HandleOps, ShutdownOps, Operations, OpOK, NoOp

\* A thread without an operation is in order.
LEMMA NoOpOK ==
  ASSUME NEW t, op'[t] = NoOp
  PROVE  OpOK(t)'
  BY DEF OpOK, NoOp, HandleOps, ShutdownOps

\* The operation of a thread that takes no part in a step.
LEMMA OpKept ==
  ASSUME IInv, NEW u \in State, op'[u] = op[u], stack'[u] = stack[u],
         op[u].f \in HandleOps => owner'[op[u].s] = owner[op[u].s],
         op[u].f \in ShutdownOps => op[u].s \in todo',
         \A x \in Lane : status[x] \in Ended => status'[x] \in Ended
  PROVE  OpOK(u)'
  <1>1. OpOK(u)
    BY DEF IInv, Operations
  <1>2. op[u].step \in {"over", "cleanup"} => op[u].s \in Lane
    BY OpCases
  <1> QED BY <1>1, <1>2 DEF OpOK, RunsIn

\* An operation goes on to the next step.
LEMMA StepOK ==
  ASSUME IInv, NEW t \in State, NEW l, step(t, l), op[t].f # "none",
         l \in {"over", "cleanup"} => status[op[t].s] \in Ended,
         UNCHANGED <<stack, owner, status, todo>>
  PROVE  Operations'
  <1>1. TypeOK /\ Operations
    BY DEF IInv
  <1>2. OpOK(t)'
    BY <1>1, StepEffect DEF Operations, OpOK, RunsIn
  <1>3. \A u \in State : u # t => OpOK(u)'
    BY <1>1, StepEffect, OpKept DEF Operations, OpOK
  <1> QED BY <1>2, <1>3 DEF Operations

\* An operation ends, and nothing else moves.
LEMMA ReturnOK ==
  ASSUME IInv, NEW t \in State, Return(t), UNCHANGED <<stack, owner, status>>,
         op[Main].f \in ShutdownOps /\ t # Main => todo' = todo
  PROVE  Operations'
  <1>1. TypeOK /\ Operations
    BY DEF IInv
  <1>2. OpOK(t)'
    BY <1>1, ReturnEffect, NoOpOK
  <1>3. \A u \in State : u # t => OpOK(u)'
    BY <1>1, ReturnEffect, OpKept DEF Operations, OpOK
  <1> QED BY <1>2, <1>3 DEF Operations

\* An operation begins, and nothing else moves.
LEMMA BeginOK ==
  ASSUME IInv, NEW t \in State, NEW f, NEW s \in Lane, NEW l, NEW secs, NEW force,
         begin(t, f, s, l, secs, force), UNCHANGED <<stack, owner, status, todo>>,
         \/ f \in HandleOps /\ RunsIn(t, owner[s])
         \/ f \in ShutdownOps /\ t = Main /\ s \in todo,
         l \in {"over", "cleanup"} => status[s] \in Ended
  PROVE  Operations'
  <1>1. TypeOK /\ Operations
    BY DEF IInv
  <1>0. /\ op'[t] = [f |-> f, s |-> s, step |-> l, secs |-> secs, force |-> force]
        /\ \A u \in State : u # t => op'[u] = op[u]
    BY <1>1, BeginEffect
  <1>4. op'[t].f = f /\ op'[t].s = s /\ op'[t].step = l
    BY <1>0
  <1>2. OpOK(t)'
    BY <1>4 DEF OpOK, RunsIn, HandleOps, ShutdownOps
  <1>3. \A u \in State : u # t => OpOK(u)'
    BY <1>0, <1>1, OpKept DEF Operations, OpOK
  <1> QED BY <1>2, <1>3 DEF Operations

\* Every step leaves every thread with a sound operation.
LEMMA OpStepOK == ASSUME IInv, Next PROVE Operations'
  <1> USE StateFacts
  <1>0. TypeOK /\ Places /\ Fresh /\ Operations /\ MainThread
    BY DEF IInv
  <1>1. ASSUME Talk PROVE Operations'
    <2>0. UNCHANGED <<stack, owner, status, todo>>
      BY <1>1, TalkFrame
    <2> SUFFICES ASSUME NEW t \in State,
            \/ \E s \in Lane :
                 \/ \E secs \in {"timed", "forever"} : thread_join(t, s, secs)
                 \/ CancelSoft(t, s)
                 \/ \E secs \in {"zero", "timed"}, force \in BOOLEAN : CancelHard(t, s, secs, force)
                 \/ thread_gc(t, s)
            \/ WaitLoop(t) \/ WaitTimeout(t) \/ Spurious(t)
            \/ JoinNothing(t) \/ JoinKilled(t) \/ CancelOver(t) \/ CancelKilled(t)
            \/ \E secs \in {"zero", "timed"} : CancelKill(t, secs)
                 PROVE  Operations'
      BY <1>1 DEF Talk
    <2>1. ASSUME Ready(t) PROVE RunsIn(t, t)
      BY <2>1 DEF Ready, RunsIn
    <2>2. ASSUME NEW s \in Lane, NEW secs \in {"timed", "forever"}, thread_join(t, s, secs)
          PROVE  Operations'
      BY <2>0, <2>1, <2>2, BeginOK DEF thread_join, HandleOps
    <2>3. ASSUME NEW s \in Lane, CancelSoft(t, s) PROVE Operations'
      BY <1>0, <2>0, <2>3, OpKept DEF CancelSoft, Operations, OpOK
    <2>4. ASSUME NEW s \in Lane, NEW secs \in {"zero", "timed"}, NEW force \in BOOLEAN,
                 CancelHard(t, s, secs, force)
          PROVE  Operations'
      BY <2>0, <2>1, <2>4, BeginOK DEF CancelHard, HandleOps
    <2>5. ASSUME NEW s \in Lane, thread_gc(t, s) PROVE Operations'
      <3>1. RunsIn(t, owner[s]) /\ begin(t, "gc", s, gcPath(s), "forever", FALSE)
        BY <2>1, <2>5 DEF thread_gc, CollectsIn, InClose
      <3>2. gcPath(s) \in {"over", "cleanup"} => status[s] \in Ended
        BY DEF gcPath
      <3> QED BY <2>0, <3>1, <3>2, BeginOK DEF HandleOps
    <2>6. ASSUME WaitLoop(t) \/ WaitTimeout(t) \/ Spurious(t) PROVE Operations'
      <3>1. op[t].step \in {"wait", "asleep"} /\ op[t].f # "none"
        BY <2>6, OpCases DEF WaitLoop, WaitTimeout, Spurious
      <3>2. PICK l : step(t, l) /\ (l \in {"over", "cleanup"} => status[op[t].s] \in Ended)
        BY <2>6 DEF WaitLoop, WaitTimeout, Spurious
      <3> QED BY <2>0, <3>1, <3>2, StepOK
    <2>7. ASSUME JoinNothing(t) \/ JoinKilled(t) \/ CancelOver(t) \/ CancelKilled(t)
          PROVE  Operations'
      BY <2>0, <2>7, ReturnOK DEF JoinNothing, JoinKilled, CancelOver, CancelKilled
    <2>8. ASSUME NEW secs \in {"zero", "timed"}, CancelKill(t, secs) PROVE Operations'
      <3>1. op[t].f \in HandleOps /\ op[t].s \in Lane /\ RunsIn(t, owner[op[t].s])
        BY <2>8, HandleFacts DEF CancelKill, InOp, HandleOps
      <3>2. CASE op' = op
        BY <1>0, <2>0, <3>2, OpKept DEF Operations, OpOK
      <3>3. CASE begin(t, "kill", op[t].s, "wait", secs, TRUE)
        BY <2>0, <3>1, <3>3, BeginOK DEF HandleOps
      <3> QED BY <2>8, <3>2, <3>3 DEF CancelKill
    <2> QED BY <2>2, <2>3, <2>4, <2>5, <2>6, <2>7, <2>8
  <1>2. ASSUME NEW t \in State, NEW s \in Lane, lane_new(t, s) PROVE Operations'
    <2>1. /\ op[s] = NoOp /\ owner[s] = None /\ s \notin todo /\ UNCHANGED <<op, status, todo>>
          /\ stack' = [stack EXCEPT ![s] = <<s>>] /\ owner' = [owner EXCEPT ![s] = t]
      BY <1>0, <1>2 DEF lane_new, Fresh, FreshOK, Run, uni
    <2>2. OpOK(s)'
      BY <2>1, NoOpOK
    <2>3. ASSUME NEW u \in State, u # s PROVE OpOK(u)'
      <3>1. stack'[u] = stack[u]
        BY <1>0, <2>1, <2>3 DEF TypeOK
      <3>2. op[u].f \in HandleOps => owner'[op[u].s] = owner[op[u].s]
        BY <1>0, <2>1, HandleFacts DEF TypeOK
      <3>3. op[u].f \in ShutdownOps => op[u].s \in todo'
        BY <2>1, ShutdownFacts
      <3> QED BY <2>1, <3>1, <3>2, <3>3, OpKept
    <2> QED BY <2>2, <2>3 DEF Operations
  <1>3. ASSUME NEW t \in State, JoinResults(t) \/ GcEnded(t) PROVE Operations'
    <2>1. /\ UNCHANGED <<owner, status, todo>> /\ op[t].f # "none" /\ op[t].step = "over"
          /\ \/ Return(t) /\ \A u \in State : u # t => stack'[u] = stack[u]
             \/ step(t, "cleanup") /\ UNCHANGED stack
      BY <1>0, <1>3 DEF JoinResults, GcEnded, InOp, Enter, Run, TypeOK, record, uni
    <2>2. CASE Return(t) /\ \A u \in State : u # t => stack'[u] = stack[u]
      <3>1. OpOK(t)'
        BY <1>0, <2>2, ReturnEffect, NoOpOK
      <3>2. \A u \in State : u # t => OpOK(u)'
        BY <1>0, <2>1, <2>2, ReturnEffect, ShutdownFacts, OpKept
      <3> QED BY <3>1, <3>2 DEF Operations
    <2>3. CASE step(t, "cleanup") /\ UNCHANGED stack
      BY <1>0, <2>1, <2>3, StepOK DEF Operations, OpOK
    <2> QED BY <2>1, <2>2, <2>3
  <1>4. ASSUME NEW t \in State, NEW s \in Lane, CloseJoined(t, s) \/ CloseCollected(t, s)
        PROVE  Operations'
    <2>1. /\ RunsIn(t, s) /\ Leave(t) /\ luaState[s] \in {"close_gc", "close_join"} /\ op[t] = NoOp
          /\ luaState' = [luaState EXCEPT ![s] = "closed"] /\ UNCHANGED <<owner, status, todo>>
          /\ op' = op \/ begin(t, "gc", s, "cleanup", "forever", FALSE)
      BY <1>4 DEF CloseJoined, CloseCollected, InClose, uni
    <2>2. RunsIn(t, owner[s])' /\ status[s] \in Ended
      BY <2>1, Left
    <2>3. ASSUME NEW u \in State, u # t PROVE OpOK(u)'
      <3>1. stack'[u] = stack[u] /\ op'[u] = op[u]
        BY <1>0, <2>1, <2>3, BeginEffect DEF Leave, Run, TypeOK
      <3> QED BY <2>1, <3>1, ShutdownFacts, OpKept
    <2>4. CASE op' = op
      <3>1. OpOK(t)'
        BY <2>1, <2>4, NoOpOK
      <3> QED BY <2>3, <3>1 DEF Operations
    <2>5. CASE begin(t, "gc", s, "cleanup", "forever", FALSE)
      <3>0. op'[t] = [f |-> "gc", s |-> s, step |-> "cleanup", secs |-> "forever", force |-> FALSE]
        BY <1>0, <2>5 DEF begin, TypeOK
      <3>1. op'[t].f = "gc" /\ op'[t].s = s /\ op'[t].step = "cleanup"
        BY <3>0
      <3>2. OpOK(t)'
        BY <2>1, <2>2, <3>1 DEF OpOK, ShutdownOps
      <3> QED BY <2>3, <3>2 DEF Operations
    <2> QED BY <2>1, <2>4, <2>5
  <1>5. ASSUME NEW t \in State, selfdestruct_add(t) \/ CleanupCollected(t) PROVE Operations'
    <2>1. /\ op[t].f \in HandleOps /\ UNCHANGED <<stack, status, todo>> /\ Return(t)
          /\ owner' = [owner EXCEPT ![op[t].s] = None]
      BY <1>5 DEF selfdestruct_add, CleanupCollected, InOp, HandleOps, uni
    <2>2. OpOK(t)'
      BY <1>0, <2>1, ReturnEffect, NoOpOK
    <2>3. ASSUME NEW u \in State, u # t PROVE OpOK(u)'
      <3>1. op'[u] = op[u]
        BY <1>0, <2>1, <2>3, ReturnEffect
      <3>2. op[u].f \in HandleOps => owner'[op[u].s] = owner[op[u].s]
        BY <1>0, <2>1, <2>3, HandleFacts DEF TypeOK
      <3> QED BY <2>1, <3>1, <3>2, ShutdownFacts, OpKept
    <2> QED BY <2>2, <2>3 DEF Operations
  <1>6. ASSUME NEW s \in Lane, CloseSelf(s) PROVE Operations'
    <2>1. /\ op[s] = NoOp /\ UNCHANGED <<op, owner, status, todo>>
          /\ stack' = [stack EXCEPT ![s] = <<>>]
      BY <1>6 DEF CloseSelf, InClose, Run, record, uni
    <2>2. OpOK(s)'
      BY <2>1, NoOpOK
    <2>3. \A u \in State : u # s => OpOK(u)'
      BY <1>0, <2>1, ShutdownFacts, OpKept DEF TypeOK
    <2> QED BY <2>2, <2>3 DEF Operations
  <1>7. ASSUME NEW s \in Lane, NEW st \in Ended, Finish(s, st) PROVE Operations'
    <2>1. /\ op[s] = NoOp /\ UNCHANGED <<op, owner, todo>> /\ stack' = [stack EXCEPT ![s] = <<>>]
          /\ status' = [status EXCEPT ![s] = st]
      BY <1>0, <1>7 DEF Finish, Places, PlaceOK, Run, uni
    <2>2. OpOK(s)'
      BY <2>1, NoOpOK
    <2>4. \A x \in Lane : status[x] \in Ended => status'[x] \in Ended
      BY <1>0, <2>1 DEF TypeOK
    <2>3. \A u \in State : u # s => OpOK(u)'
      BY <1>0, <2>1, <2>4, ShutdownFacts, OpKept DEF TypeOK
    <2> QED BY <2>2, <2>3 DEF Operations
  <1>8. ASSUME NEW s \in Lane, lane_main(s) \/ LindaWait(s) \/ LindaWake(s) PROVE Operations'
    <2>1. /\ status[s] \notin Ended /\ UNCHANGED <<stack, owner, op, todo>>
          /\ \A x \in Lane : x # s => status'[x] = status[x]
      BY <1>0, <1>8 DEF lane_main, LindaWait, LindaWake, Ready, Places, PlaceOK, Ended, uni, TypeOK
    <2> QED BY <2>1, ShutdownFacts, OpKept DEF Operations
  <1>9. ASSUME NEW s \in Lane, Remove(s) \/ Uncount(s) \/ CleanupSelf(s) \/ EndBody(s)
        PROVE  Operations'
    <2>1. UNCHANGED <<stack, owner, status, op, todo>>
      BY <1>9 DEF Remove, Uncount, CleanupSelf, EndBody, record, uni
    <2> QED BY <2>1, ShutdownFacts, OpKept DEF Operations
  <1>10. ASSUME NEW s \in Lane, Signal(s) PROVE Operations'
    <2>1. UNCHANGED <<stack, owner, status, todo>> /\ SIGNAL_ONE(s)
      BY <1>10 DEF Signal, record, uni
    <2>2. CASE op' = op
      BY <2>1, <2>2, ShutdownFacts, OpKept DEF Operations
    <2>3. ASSUME NEW t \in SleepersOn(s), step(t, "wait") PROVE Operations'
      <3>1. t \in State /\ op[t].f # "none"
        BY OpCases DEF SleepersOn
      <3> QED BY <2>1, <2>3, <3>1, StepOK
    <2> QED BY <2>1, <2>2, <2>3 DEF SIGNAL_ONE
  <1>11. ASSUME MainClose PROVE Operations'
    <2>1. UNCHANGED <<stack, owner, status, op, todo>>
      BY <1>11 DEF MainClose, record, uni
    <2> QED BY <2>1, ShutdownFacts, OpKept DEF Operations
  <1>12. ASSUME ShutdownKilled \/ ShutdownCancelled PROVE Operations'
    <2>1. UNCHANGED <<stack, owner, status>> /\ Return(Main)
      BY <1>12 DEF ShutdownKilled, ShutdownCancelled, record
    <2> QED BY <2>1, ReturnOK
  <1>13. ASSUME NEW s \in Lane, ShutdownCancel(s) \/ ShutdownKill(s) PROVE Operations'
    <2>1. UNCHANGED <<stack, owner, status>> /\ op[Main] = NoOp /\ s \in todo
      BY <1>13 DEF ShutdownCancel, ShutdownKill, sd, record
    <2>2. CASE op' = op
      BY <1>0, <2>1, <2>2, OpKept DEF Operations, OpOK, NoOp, ShutdownOps
    <2>3. CASE todo' = todo /\ (begin(Main, "sd_cancel", s, "wait", "timed", FALSE)
                               \/ begin(Main, "sd_kill", s, "wait", "forever", FALSE))
      BY <2>1, <2>3, BeginOK DEF ShutdownOps
    <2> QED BY <1>13, <2>2, <2>3 DEF ShutdownCancel, ShutdownKill
  <1>14. ASSUME \/ MainClosed \/ ShutdownCheck \/ ShutdownLock \/ ShutdownUnlock
                \/ ShutdownYield \/ ShutdownCount \/ ShutdownKillLock
                \/ ShutdownKillUnlock \/ ShutdownFree
         PROVE  Operations'
    <2>1. UNCHANGED <<stack, owner, status, op>> /\ op[Main] = NoOp
      BY <1>14 DEF MainClosed, ShutdownCheck, ShutdownLock, ShutdownUnlock, ShutdownYield,
         ShutdownCount, ShutdownKillLock, ShutdownKillUnlock, ShutdownFree, sd, record
    <2> QED BY <1>0, <2>1, OpKept DEF Operations, OpOK, NoOp, ShutdownOps
  <1> QED BY <1>1, <1>2, <1>3, <1>4, <1>5, <1>6, <1>7, <1>8, <1>9, <1>10, <1>11, <1>12, <1>13,
             <1>14, NextCases DEF Walk

-------------------------------------------------------------------------------
(* Places *)

\* Only a thread that is in an operation, runs Lua code, closes a state or is
\* in selfdestruct_gc() changes its operation, and no other.
LEMMA OpMover ==
  ASSUME IInv, Next
  PROVE  \/ op' = op
         \/ \E t \in State : /\ \A u \in State : u # t => op'[u] = op[u]
                             /\ \/ op[t] # NoOp \/ Ready(t) \/ t = Main
                                \/ \E x \in State : InClose(t, x)
  <1> USE StateFacts
  <1>0. TypeOK
    BY DEF IInv
  <1> DEFINE Moves(t) == /\ \A u \in State : u # t => op'[u] = op[u]
                         /\ \/ op[t] # NoOp \/ Ready(t) \/ t = Main
                            \/ \E x \in State : InClose(t, x)
  <1>1. ASSUME NEW t \in State, NEW l, step(t, l), op[t].step # "none" PROVE Moves(t)
    BY <1>0, <1>1, StepEffect DEF NoOp
  <1>2. ASSUME NEW t \in State, Return(t), op[t].f # "none" PROVE Moves(t)
    BY <1>0, <1>2, ReturnEffect DEF NoOp
  <1>3. ASSUME NEW t \in State, NEW f, NEW s, NEW l, NEW secs, NEW force,
               begin(t, f, s, l, secs, force),
               op[t].f # "none" \/ Ready(t) \/ t = Main \/ \E x \in State : InClose(t, x)
        PROVE  Moves(t)
    <2>1. \A u \in State : u # t => op'[u] = op[u]
      BY <1>0, <1>3 DEF begin, TypeOK
    <2>2. op[t].f # "none" => op[t] # NoOp
      BY DEF NoOp
    <2> QED BY <1>3, <2>1, <2>2
  <1> HIDE DEF Moves
  <1>4. ASSUME Talk PROVE op' = op \/ \E t \in State : Moves(t)
    <2> SUFFICES ASSUME NEW t \in State,
            \/ \E s \in Lane :
                 \/ \E secs \in {"timed", "forever"} : thread_join(t, s, secs)
                 \/ CancelSoft(t, s)
                 \/ \E secs \in {"zero", "timed"}, force \in BOOLEAN : CancelHard(t, s, secs, force)
                 \/ thread_gc(t, s)
            \/ WaitLoop(t) \/ WaitTimeout(t) \/ Spurious(t)
            \/ JoinNothing(t) \/ JoinKilled(t) \/ CancelOver(t) \/ CancelKilled(t)
            \/ \E secs \in {"zero", "timed"} : CancelKill(t, secs)
                 PROVE  op' = op \/ Moves(t)
      BY <1>4 DEF Talk
    <2>1. ASSUME NEW s \in Lane, NEW secs, thread_join(t, s, secs) PROVE Moves(t)
      BY <1>3, <2>1 DEF thread_join
    <2>2. ASSUME NEW s \in Lane, CancelSoft(t, s) PROVE op' = op
      BY <2>2 DEF CancelSoft
    <2>3. ASSUME NEW s \in Lane, NEW secs, NEW force, CancelHard(t, s, secs, force) PROVE Moves(t)
      BY <1>3, <2>3 DEF CancelHard
    <2>4. ASSUME NEW s \in Lane, thread_gc(t, s) PROVE Moves(t)
      BY <1>3, <2>4 DEF thread_gc, CollectsIn
    <2>5. ASSUME WaitLoop(t) \/ WaitTimeout(t) \/ Spurious(t) PROVE Moves(t)
      <3>1. PICK l : step(t, l)
        BY <2>5 DEF WaitLoop, WaitTimeout, Spurious
      <3> QED BY <1>1, <2>5, <3>1 DEF WaitLoop, WaitTimeout, Spurious
    <2>6. ASSUME JoinNothing(t) \/ JoinKilled(t) \/ CancelOver(t) \/ CancelKilled(t) PROVE Moves(t)
      BY <1>2, <2>6 DEF JoinNothing, JoinKilled, CancelOver, CancelKilled, InOp
    <2>7. ASSUME NEW secs, CancelKill(t, secs) PROVE op' = op \/ Moves(t)
      BY <1>3, <2>7 DEF CancelKill, InOp
    <2> QED BY <2>1, <2>2, <2>3, <2>4, <2>5, <2>6, <2>7
  <1>5. ASSUME NEW t \in State,
               JoinResults(t) \/ selfdestruct_add(t) \/ GcEnded(t) \/ CleanupCollected(t)
        PROVE  Moves(t)
    BY <1>1, <1>2, <1>5 DEF JoinResults, selfdestruct_add, GcEnded, CleanupCollected, InOp
  <1>6. ASSUME NEW t \in State, NEW s \in Lane, CloseCollected(t, s) PROVE Moves(t)
    BY <1>3, <1>6 DEF CloseCollected
  <1>7. ASSUME NEW t \in State, NEW s \in Lane, lane_new(t, s) \/ CloseJoined(t, s) PROVE op' = op
    BY <1>7 DEF lane_new, CloseJoined
  <1>8. ASSUME NEW s \in Lane, Signal(s) PROVE op' = op \/ \E t \in State : Moves(t)
    BY <1>1, <1>8 DEF Signal, SIGNAL_ONE, SleepersOn
  <1>9. ASSUME NEW s \in Lane, \/ lane_main(s) \/ Remove(s) \/ CloseSelf(s) \/ Uncount(s)
                               \/ CleanupSelf(s) \/ LindaWait(s) \/ LindaWake(s) \/ EndBody(s)
        PROVE  op' = op
    BY <1>9 DEF lane_main, Remove, CloseSelf, Uncount, CleanupSelf, LindaWait, LindaWake, EndBody
  <1>10. ASSUME NEW s \in Lane, NEW st, Finish(s, st) PROVE op' = op
    BY <1>10 DEF Finish
  <1>11. ASSUME MainClose PROVE op' = op
    BY <1>11 DEF MainClose
  <1>12. ASSUME ShutdownKilled PROVE Moves(Main)
    BY <1>2, <1>12 DEF ShutdownKilled, InOp
  <1>13. ASSUME Walk PROVE op' = op \/ Moves(Main)
    <2>1. ASSUME NEW s \in Lane, ShutdownCancel(s) \/ ShutdownKill(s) PROVE op' = op \/ Moves(Main)
      BY <1>3, <2>1 DEF ShutdownCancel, ShutdownKill
    <2>2. ASSUME ShutdownCancelled PROVE Moves(Main)
      BY <1>2, <2>2 DEF ShutdownCancelled, InOp
    <2>3. ASSUME \/ MainClosed \/ ShutdownCheck \/ ShutdownLock \/ ShutdownUnlock
                 \/ ShutdownYield \/ ShutdownCount \/ ShutdownKillLock
                 \/ ShutdownKillUnlock \/ ShutdownFree
          PROVE  op' = op
      BY <2>3 DEF MainClosed, ShutdownCheck, ShutdownLock, ShutdownUnlock, ShutdownYield,
         ShutdownCount, ShutdownKillLock, ShutdownKillUnlock, ShutdownFree
    <2> QED BY <1>13, <2>1, <2>2, <2>3 DEF Walk
  <1>14. op' = op \/ \E t \in State : Moves(t)
    BY <1>4, <1>5, <1>6, <1>7, <1>8, <1>9, <1>10, <1>11, <1>12, <1>13, NextCases
  <1> QED BY <1>14 DEF Moves

\* A lane that is neither in its body nor closing its state begins nothing.
LEMMA IdleKept ==
  ASSUME IInv, Next, NEW s \in Lane, op[s] = NoOp, pc[s] \notin {"body", "close"}
  PROVE  op'[s] = NoOp
  <1>1. TypeOK /\ Places /\ Fresh
    BY DEF IInv
  <1>2. ~Ready(s) /\ s # Main /\ s \in State
    BY MainIsNoLane, StateFacts DEF Ready
  <1>3. ASSUME NEW x \in State, InClose(s, x) PROVE FALSE
    <2>1. stack[s] = <<>> \/ (stack[s] = <<s>> /\ luaState[s] = "open")
      BY <1>1 DEF Places, PlaceOK, Fresh, FreshOK, LanePc
    <2>2. <<s>>[Len(<<s>>)] = s
      OBVIOUS
    <2> QED BY <1>3, <2>1, <2>2 DEF InClose, RunsIn, Closing
  <1> QED BY <1>2, <1>3, OpMover

\* What a step that touches only other lanes and threads leaves of a lane.
LEMMA PlaceKept ==
  ASSUME IInv, Next, NEW x \in Lane,
         UNCHANGED <<pc[x], heap[x], luaState[x], stack[x], owner[x]>>,
         status'[x] \in Ended <=> status[x] \in Ended,
         x \in chain' \cup linked' \cup todo' => x \in chain \cup linked \cup todo
  PROVE  PlaceOK(x)'
  <1>1. PlaceOK(x)
    BY DEF IInv, Places
  <1>2. pc[x] \notin {"body", "close"} /\ op[x] = NoOp => op'[x] = NoOp
    BY IdleKept
  <1> QED BY <1>1, <1>2 DEF PlaceOK

\* A lane that does not exist yet stays untouched.
LEMMA FreshKept ==
  ASSUME IInv, Next, NEW x \in Lane, heap'[x] = "none" => heap[x] = "none",
         heap[x] = "none" => /\ UNCHANGED <<pc[x], luaState[x], stack[x], owner[x], status[x]>>
                             /\ x \notin chain' \cup linked' \cup todo'
  PROVE  FreshOK(x)'
  <1>1. FreshOK(x)
    BY DEF IInv, Fresh
  <1>2. heap[x] = "none" => op'[x] = NoOp
    BY <1>1, IdleKept DEF FreshOK
  <1> QED BY <1>1, <1>2 DEF FreshOK

\* The main thread walks only the chain.
LEMMA WalkEffect ==
  ASSUME IInv, Walk
  PROVE  /\ \A x \in Lane : pc'[x] = pc[x]
         /\ \A x \in Lane : x \in chain' \cup linked' \cup todo' => x \in chain \cup linked \cup todo
  <1>0. TypeOK /\ \A x \in Lane : x # Main
    BY MainIsNoLane DEF IInv
  <1>1. \A x \in Lane : pc'[x] = pc[x]
    <2>1. pc' = pc \/ \E l : pc' = [pc EXCEPT ![Main] = l]
      BY DEF Walk, MainClosed, ShutdownCheck, ShutdownLock, ShutdownCancelled, ShutdownUnlock,
         ShutdownYield, ShutdownCount, ShutdownKillLock, ShutdownKillUnlock, ShutdownFree,
         ShutdownCancel, ShutdownKill, Goto
    <2> QED BY <1>0, <2>1, StateFacts DEF TypeOK
  <1>2. \A x \in Lane : x \in chain' \cup linked' \cup todo' => x \in chain \cup linked \cup todo
    BY DEF Walk, MainClosed, ShutdownCheck, ShutdownLock, ShutdownCancelled, ShutdownUnlock,
         ShutdownYield, ShutdownCount, ShutdownKillLock, ShutdownKillUnlock, ShutdownFree,
         ShutdownCancel, ShutdownKill, uni
  <1> QED BY <1>1, <1>2

\* Every step keeps what the label of a lane says of it.
LEMMA PlaceStep == ASSUME IInv, Next, NEW x \in Lane PROVE PlaceOK(x)' /\ FreshOK(x)'
  <1> USE StateFacts
  <1>0. /\ TypeOK /\ Places /\ Fresh /\ Operations /\ MainThread /\ Chain /\ ChainSound
        /\ PlaceOK(x) /\ FreshOK(x) /\ x # Main
    BY MainIsNoLane DEF IInv, Places, Fresh
  <1>1. ASSUME Talk PROVE PlaceOK(x)' /\ FreshOK(x)'
    BY <1>0, <1>1, TalkFrame, PlaceKept, FreshKept DEF FreshOK
  <1>2. ASSUME Walk PROVE PlaceOK(x)' /\ FreshOK(x)'
    BY <1>0, <1>2, WalkFrame, WalkEffect, PlaceKept, FreshKept DEF FreshOK
  <1>3. ASSUME MainClose \/ ShutdownKilled PROVE PlaceOK(x)' /\ FreshOK(x)'
    <2>1. /\ UNCHANGED <<pc[x], luaState[x], stack[x], owner[x], status[x]>>
          /\ x \in chain' \cup linked' \cup todo' => x \in chain \cup linked \cup todo
      BY <1>0, <1>3 DEF MainClose, ShutdownKilled, Goto, record, uni, TypeOK
    <2>2. /\ heap'[x] = "none" <=> heap[x] = "none"
          /\ pc[x] \in {"close", "uncount", "cleanup"} => heap'[x] = heap[x]
      BY <1>0, <1>3, ShutdownFacts
         DEF MainClose, ShutdownKilled, lane_cleanup, InOp, record, TypeOK, PlaceOK, ShutdownOps
    <2>3. FreshOK(x)'
      BY <1>0, <2>1, <2>2, FreshKept DEF FreshOK
    <2>4. pc[x] \notin {"body", "close"} /\ op[x] = NoOp => op'[x] = NoOp
      BY IdleKept
    <2> QED BY <1>0, <2>1, <2>2, <2>3, <2>4 DEF PlaceOK
  <1>4. ASSUME NEW t \in State, JoinResults(t) \/ GcEnded(t) PROVE PlaceOK(x)' /\ FreshOK(x)'
    <2>0. op[t].f \in HandleOps /\ op[t].step = "over"
      BY <1>4 DEF JoinResults, GcEnded, InOp, HandleOps
    <2> DEFINE s == op[t].s
    <2>1. s \in Lane /\ heap[s] = "live" /\ status[s] \in Ended /\ pc[s] \in {"signal", "end"}
      BY <1>0, <2>0, HandleFacts DEF Operations, OpOK, Places, PlaceOK
    <2>2. /\ UNCHANGED <<pc, heap, owner, status, chain, linked, todo>>
          /\ \A y \in State : y # s => luaState'[y] = luaState[y]
          /\ \A u \in State : u # t => stack'[u] = stack[u]
          /\ stack'[t] = stack[t] \/ stack'[t] = Append(stack[t], s)
      BY <1>0, <1>4 DEF JoinResults, GcEnded, Enter, Run, TypeOK, record, uni
    <2>3. stack[t] \in Seq(State) /\ stack[t] # <<>>
      BY <1>0, <2>0, HandleFacts DEF TypeOK, RunsIn
    <2>4. Append(stack[t], s) # <<>>
      BY <2>1, <2>3
    <2>5. x = t => pc[x] \in {"body", "close"}
      BY <1>0, <2>0, <2>3 DEF PlaceOK, LanePc, NoOp, HandleOps, FreshOK
    <2>6. pc[x] \notin {"body", "close"} /\ op[x] = NoOp => op'[x] = NoOp
      BY IdleKept
    <2>7. PlaceOK(x)'
      BY <1>0, <2>1, <2>2, <2>4, <2>5, <2>6 DEF PlaceOK
    <2>8. FreshOK(x)'
      BY <1>0, <2>1, <2>2, <2>3, <2>6, FreshKept DEF FreshOK
    <2> QED BY <2>7, <2>8
  <1>5. ASSUME NEW t \in State, selfdestruct_add(t) \/ CleanupCollected(t)
        PROVE  PlaceOK(x)' /\ FreshOK(x)'
    <2>0. op[t].f \in HandleOps
      BY <1>5 DEF selfdestruct_add, CleanupCollected, InOp, HandleOps
    <2> DEFINE s == op[t].s
    <2>1. s \in Lane /\ heap[s] = "live" /\ pc[s] \notin {"close", "uncount", "cleanup"}
      BY <1>0, <2>0, HandleFacts DEF Places, PlaceOK
    <2>2. /\ UNCHANGED <<pc, luaState, status, stack, todo>>
          /\ x # s => UNCHANGED <<owner[x], heap[x]>>
          /\ heap'[s] # "none"
          /\ x # s => (x \in chain' \cup linked' => x \in chain \cup linked)
      BY <1>0, <1>5, <2>1 DEF selfdestruct_add, CleanupCollected, lane_cleanup, link, TypeOK, uni
    <2>3. CASE x = s
      <3>1. pc[x] \notin {"body", "close"} /\ op[x] = NoOp => op'[x] = NoOp
        BY IdleKept
      <3>2. PlaceOK(x)'
        BY <1>0, <2>1, <2>2, <2>3, <3>1 DEF PlaceOK, FreshOK
      <3> QED BY <2>2, <2>3, <3>2 DEF FreshOK
    <2>4. CASE x # s
      BY <1>0, <2>2, <2>4, PlaceKept, FreshKept DEF FreshOK
    <2> QED BY <2>3, <2>4
  <1>6. ASSUME NEW t \in State, NEW s \in Lane, lane_new(t, s) PROVE PlaceOK(x)' /\ FreshOK(x)'
    <2>1. /\ UNCHANGED <<status, chain, linked, todo, op>>
          /\ x # s => UNCHANGED <<pc[x], heap[x], luaState[x], stack[x], owner[x]>>
          /\ x = s => /\ heap[x] = "none" /\ heap'[x] = "live" /\ luaState'[x] = "open"
                      /\ pc'[x] = "start" /\ stack'[x] = <<x>>
      BY <1>0, <1>6 DEF lane_new, Goto, Run, TypeOK, uni
    <2>2. CASE x = s
      <3>1. status[x] = "pending" /\ op[x] = NoOp
        BY <1>0, <2>1, <2>2 DEF FreshOK
      <3> QED BY <2>1, <2>2, <3>1 DEF PlaceOK, FreshOK, LanePc, Ended
    <2>3. CASE x # s
      BY <1>0, <2>1, <2>3, PlaceKept, FreshKept DEF FreshOK
    <2> QED BY <2>2, <2>3
  <1>7. ASSUME NEW t \in State, NEW s \in Lane, CloseJoined(t, s) \/ CloseCollected(t, s)
        PROVE  PlaceOK(x)' /\ FreshOK(x)'
    <2>1. /\ RunsIn(t, s) /\ Leave(t) /\ luaState[s] \in {"close_gc", "close_join"}
          /\ luaState' = [luaState EXCEPT ![s] = "closed"]
          /\ UNCHANGED <<heap, owner, status, pc, chain, linked, todo>>
      BY <1>7 DEF CloseJoined, CloseCollected, InClose, uni
    <2>2. /\ stack'[t] # <<>> /\ status[s] \in Ended /\ pc[s] \in {"signal", "end"} /\ heap[s] # "none"
      BY <1>0, <2>1, Left DEF Places, PlaceOK, Fresh, FreshOK
    <2>3. /\ \A u \in State : u # t => stack'[u] = stack[u]
          /\ x # s => luaState'[x] = luaState[x]
      BY <1>0, <2>1 DEF Leave, Run, TypeOK
    <2>4. x = t => pc[x] \in {"body", "close"} /\ heap[x] # "none"
      <3>1. stack[t] # <<>> /\ (x = t => stack[t] # <<t>>)
        <4>1. <<t>>[Len(<<t>>)] = t
          OBVIOUS
        <4> QED BY <1>0, <2>1, <2>2, <4>1 DEF RunsIn, PlaceOK
      <3> QED BY <1>0, <3>1 DEF PlaceOK, LanePc, FreshOK
    <2>5. pc[x] \notin {"body", "close"} /\ op[x] = NoOp => op'[x] = NoOp
      BY IdleKept
    <2>6. PlaceOK(x)'
      BY <1>0, <2>1, <2>2, <2>3, <2>4, <2>5 DEF PlaceOK
    <2>7. FreshOK(x)'
      BY <1>0, <2>1, <2>2, <2>3, <2>4, <2>5 DEF FreshOK
    <2> QED BY <2>6, <2>7
  <1>8. ASSUME NEW s \in Lane, \/ lane_main(s) \/ Remove(s) \/ CloseSelf(s) \/ Uncount(s)
                               \/ CleanupSelf(s) \/ Signal(s) \/ LindaWait(s) \/ LindaWake(s)
                               \/ EndBody(s) \/ \E st \in Ended : Finish(s, st)
        PROVE  PlaceOK(x)' /\ FreshOK(x)'
    <2>1. CASE x # s
      <3>1. /\ UNCHANGED <<pc[x], heap[x], luaState[x], stack[x], owner[x], status[x]>>
            /\ x \in chain' \cup linked' \cup todo' => x \in chain \cup linked \cup todo
        BY <1>0, <1>8, <2>1 DEF lane_main, Remove, CloseSelf, Uncount, CleanupSelf, Signal, LindaWait,
           LindaWake, EndBody, Finish, selfdestruct_remove, lane_cleanup, Goto, Run, TypeOK, record, uni
      <3> QED BY <1>0, <3>1, PlaceKept, FreshKept DEF FreshOK
    <2>2. CASE x = s
      <3>0. ASSUME LindaWait(s) \/ LindaWake(s) PROVE PlaceOK(s)' /\ FreshOK(s)'
        <4>1. /\ UNCHANGED <<heap, luaState, stack, owner, chain, linked, todo, pc>>
              /\ status[s] \in {"running", "waiting"} /\ status'[s] \in {"running", "waiting"}
          BY <1>0, <3>0 DEF LindaWait, LindaWake, Ready, TypeOK, uni
        <4> QED BY <1>0, <2>2, <4>1, PlaceKept, FreshKept DEF FreshOK, Ended
      <3>1. ASSUME lane_main(s) \/ EndBody(s) PROVE PlaceOK(s)' /\ FreshOK(s)'
        <4>1. /\ UNCHANGED <<heap, luaState, stack, owner, chain, linked, todo, op>>
              /\ pc[s] \in {"start", "body"}
              /\ \/ pc'[s] = "body" /\ status'[s] = "running"
                 \/ pc'[s] = "remove" /\ status' = status /\ stack[s] = <<s>> /\ op[s] = NoOp
          BY <1>0, <3>1 DEF lane_main, EndBody, Ready, Goto, TypeOK, record, uni
        <4>2. /\ heap[s] # "none" /\ stack[s] # <<>> /\ luaState[s] = "open"
              /\ status[s] \notin Ended
          <5>1. <<s>> # <<>>
            OBVIOUS
          <5> QED BY <1>0, <2>2, <4>1, <5>1 DEF PlaceOK, FreshOK
        <4> QED BY <4>1, <4>2 DEF PlaceOK, FreshOK, LanePc, Ended
      <3>2. ASSUME Remove(s) PROVE PlaceOK(s)' /\ FreshOK(s)'
        <4>1. /\ UNCHANGED <<heap, stack, owner, status, op, todo>> /\ pc[s] = "remove" /\ cs = None
              /\ \/ pc'[s] = "finish" /\ UNCHANGED <<luaState, chain, linked>>
                 \/ /\ pc'[s] = "close" /\ luaState'[s] = "close_self" /\ s \in linked
                    /\ chain' = chain \ {s} /\ linked' = linked \ {s}
          BY <1>0, <3>2 DEF Remove, selfdestruct_remove, CsFree, Goto, TypeOK, record
        <4>2. /\ luaState[s] = "open" /\ stack[s] = <<s>> /\ op[s] = NoOp /\ heap[s] # "none"
              /\ status[s] \notin Ended /\ todo = {}
          BY <1>0, <2>2, <4>1 DEF PlaceOK, FreshOK, MainThread
        <4>3. s \in linked => heap[s] = "live" /\ owner[s] = None
          BY <1>0 DEF ChainSound
        <4>4. <<s>> # <<>>
          OBVIOUS
        <4> QED BY <4>1, <4>2, <4>3, <4>4 DEF PlaceOK, FreshOK, LanePc, Ended
      <3>3. ASSUME CloseSelf(s) \/ \E st \in Ended : Finish(s, st) PROVE PlaceOK(s)' /\ FreshOK(s)'
        BY <1>0, <2>2, <3>3 DEF CloseSelf, InClose, Finish, Goto, Run, PlaceOK, FreshOK, LanePc,
           Ended, TypeOK, record, uni
      <3>4. ASSUME Uncount(s) \/ CleanupSelf(s) PROVE PlaceOK(s)' /\ FreshOK(s)'
        BY <1>0, <2>2, <3>4 DEF Uncount, CleanupSelf, lane_cleanup, Goto, PlaceOK, FreshOK, LanePc,
           Ended, TypeOK, record, uni
      <3>5. ASSUME Signal(s) PROVE PlaceOK(s)' /\ FreshOK(s)'
        <4>1. pc[s] = "signal" /\ op[s] = NoOp
          BY <1>0, <2>2, <3>5 DEF Signal, PlaceOK
        <4>2. op'[s] = NoOp
          BY <4>1, IdleKept
        <4> QED BY <1>0, <2>2, <3>5, <4>1, <4>2 DEF Signal, Goto, PlaceOK, FreshOK, LanePc, TypeOK,
               record, uni
      <3> QED BY <1>8, <2>2, <3>0, <3>1, <3>2, <3>3, <3>4, <3>5
    <2> QED BY <2>1, <2>2
  <1> QED BY <1>1, <1>2, <1>3, <1>4, <1>5, <1>6, <1>7, <1>8, NextCases

-------------------------------------------------------------------------------
(* The main thread *)

\* A thread alone in its own state is inside nothing else.
LEMMA AtBottom ==
  ASSUME IInv, NEW t \in State, RunsIn(t, t)
  PROVE  stack[t] = <<t>>
  <1>1. TypeOK /\ StateExclusive
    BY DEF IInv
  <1>2. stack[t] \in Seq(State) /\ stack[t] # <<>>
    BY <1>1 DEF TypeOK, RunsIn
  <1>3. 1 \in DOMAIN stack[t] /\ stack[t][1] = t
    BY <1>2, BottomFacts
  <1>4. Len(stack[t]) = 1
    BY <1>1, <1>3, InnerState DEF StateExclusive
  <1> QED BY <1>2, <1>3, <1>4

\* After its handles are collected the main thread begins nothing of its own.
LEMMA TalkMain ==
  ASSUME IInv, Talk
  PROVE  \/ op'[Main].f = op[Main].f /\ op'[Main].s = op[Main].s
         \/ op'[Main].f \in {"none"} \cup HandleOps /\ pc[Main] \in {"body", "closing"}
  <1> USE StateFacts
  <1>0. TypeOK /\ MainThread
    BY DEF IInv
  <1> DEFINE Fine == \/ op'[Main].f = op[Main].f /\ op'[Main].s = op[Main].s
                     \/ op'[Main].f \in {"none"} \cup HandleOps /\ pc[Main] \in {"body", "closing"}
  <1> SUFFICES ASSUME NEW t \in State,
            \/ \E s \in Lane :
                 \/ \E secs \in {"timed", "forever"} : thread_join(t, s, secs)
                 \/ CancelSoft(t, s)
                 \/ \E secs \in {"zero", "timed"}, force \in BOOLEAN : CancelHard(t, s, secs, force)
                 \/ thread_gc(t, s)
            \/ WaitLoop(t) \/ WaitTimeout(t) \/ Spurious(t)
            \/ JoinNothing(t) \/ JoinKilled(t) \/ CancelOver(t) \/ CancelKilled(t)
            \/ \E secs \in {"zero", "timed"} : CancelKill(t, secs)
                 PROVE  Fine
    BY DEF Talk
  <1>1. ASSUME NEW l, step(t, l) PROVE Fine
    BY <1>0, <1>1, StepEffect
  <1>2. ASSUME Return(t), op[t].f \in HandleOps PROVE Fine
    <2>1. t = Main => pc[Main] \in {"body", "closing"}
      BY <1>0, <1>2 DEF MainThread, HandleOps, ShutdownOps
    <2> QED BY <1>0, <1>2, <2>1, ReturnEffect DEF NoOp
  <1>3. ASSUME NEW f \in HandleOps, NEW s, NEW l, NEW secs, NEW force,
               begin(t, f, s, l, secs, force), t = Main => pc[Main] \in {"body", "closing"}
        PROVE  Fine
    <2>1. CASE t = Main
      <3>1. op'[Main] = [f |-> f, s |-> s, step |-> l, secs |-> secs, force |-> force]
        BY <1>0, <1>3, <2>1 DEF begin, TypeOK
      <3>2. op'[Main].f = f
        BY <3>1
      <3> QED BY <1>3, <2>1, <3>2
    <2>2. CASE t # Main
      BY <1>0, <1>3, <2>2 DEF begin, TypeOK
    <2> QED BY <2>1, <2>2
  <1> HIDE DEF Fine
  <1>4. ASSUME NEW s \in Lane, NEW secs, thread_join(t, s, secs) PROVE Fine
    BY <1>3, <1>4 DEF thread_join, Ready, HandleOps
  <1>5. ASSUME NEW s \in Lane, NEW secs, NEW force, CancelHard(t, s, secs, force) PROVE Fine
    BY <1>3, <1>5 DEF CancelHard, Ready, HandleOps
  <1>6. ASSUME NEW s \in Lane, thread_gc(t, s) PROVE Fine
    <2>1. owner[s] \in State /\ (Ready(t) \/ RunsIn(t, owner[s]))
      BY <1>6 DEF thread_gc, CollectsIn, InClose
    <2>2. ASSUME t = Main, pc[Main] \notin {"body", "closing"} PROVE FALSE
      <3>1. stack[Main] = <<Main>> /\ HandlesOf(Main) = {}
        BY <1>0, <2>2 DEF MainThread
      <3>2. <<Main>>[Len(<<Main>>)] = Main
        OBVIOUS
      <3>3. owner[s] = Main
        BY <2>1, <2>2, <3>1, <3>2 DEF Ready, RunsIn
      <3> QED BY <3>1, <3>3 DEF HandlesOf
    <2> QED BY <1>3, <1>6, <2>2 DEF thread_gc, HandleOps
  <1>7. ASSUME WaitLoop(t) \/ WaitTimeout(t) \/ Spurious(t) PROVE Fine
    BY <1>1, <1>7 DEF WaitLoop, WaitTimeout, Spurious
  <1>8. ASSUME JoinNothing(t) \/ JoinKilled(t) \/ CancelOver(t) \/ CancelKilled(t) PROVE Fine
    BY <1>2, <1>8 DEF JoinNothing, JoinKilled, CancelOver, CancelKilled, InOp, HandleOps
  <1>9. ASSUME NEW secs, CancelKill(t, secs) PROVE Fine
    <2>1. t = Main => pc[Main] \in {"body", "closing"}
      BY <1>0, <1>9 DEF CancelKill, InOp, MainThread, ShutdownOps
    <2>2. CASE op' = op
      BY <2>2 DEF Fine
    <2> QED BY <1>3, <1>9, <2>1, <2>2 DEF CancelKill, HandleOps
  <1>10. ASSUME NEW s \in Lane, CancelSoft(t, s) PROVE Fine
    BY <1>10 DEF CancelSoft, Fine
  <1> QED BY <1>4, <1>5, <1>6, <1>7, <1>8, <1>9, <1>10

\* A step that leaves the main thread where it is.
LEMMA MainKept ==
  ASSUME IInv, UNCHANGED <<pc[Main], luaState[Main], cs>>,
         pc[Main] \notin {"body", "closing"} => stack'[Main] = stack[Main],
         stack'[Main] # <<>>,
         pc[Main] \notin {"body", "closing"} =>
            \A s \in Lane : owner'[s] = Main => owner[s] = Main,
         \/ op'[Main].f = op[Main].f
         \/ op'[Main].f = "none"
         \/ op'[Main].f \in HandleOps /\ pc[Main] \in {"body", "closing"},
         cs = None => todo' = todo
  PROVE  MainThread'
  <1>1. MainThread
    BY DEF IInv
  <1>2. pc[Main] \notin {"body", "closing"} => HandlesOf(Main)' = {}
    BY <1>1 DEF MainThread, HandlesOf
  <1> QED BY <1>1, <1>2 DEF MainThread, HandleOps, ShutdownOps

\* Every step keeps the main thread and selfdestruct_cs in step.
LEMMA MainStep == ASSUME IInv, Next PROVE MainThread'
  <1> USE StateFacts
  <1>0. TypeOK /\ MainThread /\ \A x \in Lane : x # Main
    BY MainIsNoLane DEF IInv
  <1>1. ASSUME Talk PROVE MainThread'
    <2>1. stack'[Main] # <<>>
      BY <1>0, <1>1, TalkFrame DEF MainThread
    <2> QED BY <1>1, <2>1, TalkFrame, TalkMain, MainKept
  <1>2. ASSUME NEW s \in Lane, \/ lane_main(s) \/ Remove(s) \/ CloseSelf(s) \/ Uncount(s)
                               \/ CleanupSelf(s) \/ Signal(s) \/ LindaWait(s) \/ LindaWake(s)
                               \/ EndBody(s) \/ \E st \in Ended : Finish(s, st)
        PROVE  MainThread'
    <2>1. UNCHANGED <<pc[Main], luaState[Main], stack[Main], cs, owner, todo>>
      BY <1>0, <1>2 DEF lane_main, Remove, CloseSelf, Uncount, CleanupSelf, Signal, LindaWait,
           LindaWake, EndBody, Finish, selfdestruct_remove, lane_cleanup, Goto, Run, TypeOK, record, uni
    <2>2. op'[Main].f = op[Main].f
      <3>1. CASE op' = op
        BY <3>1
      <3>2. ASSUME NEW t \in SleepersOn(s), step(t, "wait") PROVE op'[Main].f = op[Main].f
        BY <1>0, <3>2, StepEffect DEF SleepersOn
      <3> QED BY <1>2, <3>1, <3>2 DEF lane_main, Remove, CloseSelf, Uncount, CleanupSelf, Signal,
             LindaWait, LindaWake, EndBody, Finish, SIGNAL_ONE
    <2>3. stack'[Main] # <<>>
      BY <1>0, <2>1 DEF MainThread
    <2> QED BY <2>1, <2>2, <2>3, MainKept
  <1>3. ASSUME NEW t \in State, NEW s \in Lane, lane_new(t, s) PROVE MainThread'
    <2>1. UNCHANGED <<pc[Main], luaState[Main], stack[Main], cs, todo, op>>
      BY <1>0, <1>3 DEF lane_new, Goto, Run, TypeOK, uni
    <2>2. pc[Main] \notin {"body", "closing"} => \A x \in Lane : owner'[x] = Main => owner[x] = Main
      BY <1>0, <1>3 DEF lane_new, Ready, TypeOK
    <2>3. stack'[Main] # <<>>
      BY <1>0, <2>1 DEF MainThread
    <2> QED BY <2>1, <2>2, <2>3, MainKept
  <1>4. ASSUME NEW t \in State, NEW s \in Lane, CloseJoined(t, s) \/ CloseCollected(t, s)
        PROVE  MainThread'
    <2>1. /\ RunsIn(t, s) /\ Leave(t) /\ luaState[s] \in {"close_gc", "close_join"}
          /\ luaState' = [luaState EXCEPT ![s] = "closed"]
          /\ UNCHANGED <<owner, status, pc, cs, todo>>
          /\ op' = op \/ begin(t, "gc", s, "cleanup", "forever", FALSE)
      BY <1>4 DEF CloseJoined, CloseCollected, InClose, uni
    <2>2. stack'[t] # <<>> /\ UNCHANGED luaState[Main]
      BY <1>0, <2>1, Left DEF TypeOK
    <2>3. t = Main => pc[Main] \in {"body", "closing"}
      <3>1. <<Main>>[Len(<<Main>>)] = Main
        OBVIOUS
      <3> QED BY <1>0, <2>1, <3>1 DEF RunsIn, MainThread
    <2>4. t # Main => stack'[Main] = stack[Main]
      BY <1>0, <2>1 DEF Leave, Run, TypeOK
    <2>5. op'[Main].f = op[Main].f \/ (t = Main /\ op'[Main].f = "gc")
      <3>1. CASE begin(t, "gc", s, "cleanup", "forever", FALSE)
        <4>1. CASE t = Main
          <5>1. op'[Main] = [f |-> "gc", s |-> s, step |-> "cleanup", secs |-> "forever", force |-> FALSE]
            BY <1>0, <3>1, <4>1 DEF begin, TypeOK
          <5> QED BY <4>1, <5>1
        <4>2. CASE t # Main
          BY <1>0, <3>1, <4>2 DEF begin, TypeOK
        <4> QED BY <4>1, <4>2
      <3> QED BY <2>1, <3>1
    <2>6. stack'[Main] # <<>>
      BY <1>0, <2>2, <2>4 DEF MainThread
    <2> QED BY <2>1, <2>2, <2>3, <2>4, <2>5, <2>6, MainKept DEF HandleOps
  <1>5. ASSUME NEW t \in State,
               JoinResults(t) \/ GcEnded(t) \/ selfdestruct_add(t) \/ CleanupCollected(t)
        PROVE  MainThread'
    <2>0. op[t].f \in {"join", "gc"} /\ op[t].f \in HandleOps
      BY <1>5 DEF JoinResults, GcEnded, selfdestruct_add, CleanupCollected, InOp, HandleOps
    <2>1. op[t].s \in Lane /\ RunsIn(t, owner[op[t].s]) /\ op[t].s # Main
      BY <1>0, <2>0, HandleFacts
    <2>2. t = Main => pc[Main] \in {"body", "closing"}
      BY <1>0, <2>0 DEF MainThread, ShutdownOps
    <2>3. /\ UNCHANGED <<pc, cs, todo>> /\ luaState'[Main] = luaState[Main]
          /\ \A x \in Lane : owner'[x] = Main => owner[x] = Main
          /\ t # Main => stack'[Main] = stack[Main]
          /\ stack'[t] = stack[t] \/ stack'[t] = Append(stack[t], op[t].s)
      BY <1>0, <1>5, <2>1 DEF JoinResults, GcEnded, selfdestruct_add, CleanupCollected, Enter, Run,
         TypeOK, record, uni
    <2>4. op'[Main].f = op[Main].f \/ op'[Main].f = "none"
      <3>1. CASE Return(t)
        BY <1>0, <3>1, ReturnEffect DEF NoOp
      <3>2. CASE step(t, "cleanup")
        BY <1>0, <3>2, StepEffect
      <3> QED BY <1>5, <3>1, <3>2 DEF JoinResults, GcEnded, selfdestruct_add, CleanupCollected
    <2>5. stack'[Main] # <<>>
      <3>1. stack[t] \in Seq(State) /\ op[t].s \in State
        BY <1>0, <2>1 DEF TypeOK
      <3>2. Append(stack[t], op[t].s) # <<>>
        BY <3>1
      <3> QED BY <1>0, <2>3, <3>2 DEF MainThread
    <2> QED BY <2>2, <2>3, <2>4, <2>5, MainKept
  <1>6. ASSUME MainClose PROVE MainThread'
    <2>1. <<Main>> # <<>>
      OBVIOUS
    <2>2. /\ pc[Main] = "body" /\ pc'[Main] = "closing" /\ luaState'[Main] = "close_self"
          /\ UNCHANGED <<cs, todo, stack, op>> /\ op[Main] = NoOp /\ stack[Main] = <<Main>>
      BY <1>0, <1>6 DEF MainClose, Ready, Goto, TypeOK, uni
    <2> QED BY <1>0, <2>1, <2>2 DEF MainThread, MainPc, NoOp
  <1>7. ASSUME ShutdownKilled \/ ShutdownCancelled PROVE MainThread'
    <2>1. /\ op[Main].f \in ShutdownOps /\ Return(Main)
          /\ UNCHANGED <<cs, pc, stack, luaState, owner>>
      BY <1>7 DEF ShutdownKilled, ShutdownCancelled, InOp, ShutdownOps, record
    <2>2. op'[Main].f = "none"
      BY <1>0, <2>1, ReturnEffect DEF NoOp
    <2>3. cs = Main /\ Main # None
      BY <1>0, <2>1 DEF MainThread, ShutdownOps
    <2>4. stack'[Main] # <<>>
      BY <1>0, <2>1 DEF MainThread
    <2> QED BY <2>1, <2>2, <2>3, <2>4, MainKept
  <1>8. ASSUME NEW s \in Lane, ShutdownCancel(s) \/ ShutdownKill(s) PROVE MainThread'
    <2>1. /\ op[Main] = NoOp /\ UNCHANGED <<pc, stack, luaState, owner, cs>>
          /\ \/ op' = op
             \/ pc[Main] = "cancel" /\ begin(Main, "sd_cancel", s, "wait", "timed", FALSE)
             \/ pc[Main] = "killing" /\ begin(Main, "sd_kill", s, "wait", "forever", FALSE)
          /\ pc[Main] \in {"cancel", "killing"}
      BY <1>8 DEF ShutdownCancel, ShutdownKill, sd, record
    <2>2. \/ op'[Main].f = "none"
          \/ op'[Main].f = "sd_cancel" /\ pc[Main] = "cancel"
          \/ op'[Main].f = "sd_kill" /\ pc[Main] = "killing"
      <3>1. CASE op' = op
        BY <2>1, <3>1 DEF NoOp
      <3>2. CASE begin(Main, "sd_cancel", s, "wait", "timed", FALSE) /\ pc[Main] = "cancel"
        <4>1. op'[Main] = [f |-> "sd_cancel", s |-> s, step |-> "wait", secs |-> "timed", force |-> FALSE]
          BY <1>0, <3>2 DEF begin, TypeOK
        <4> QED BY <3>2, <4>1
      <3>3. CASE begin(Main, "sd_kill", s, "wait", "forever", FALSE) /\ pc[Main] = "killing"
        <4>1. op'[Main] = [f |-> "sd_kill", s |-> s, step |-> "wait", secs |-> "forever", force |-> FALSE]
          BY <1>0, <3>3 DEF begin, TypeOK
        <4> QED BY <3>3, <4>1
      <3> QED BY <2>1, <3>1, <3>2, <3>3
    <2>3. HandlesOf(Main)' = HandlesOf(Main)
      BY <2>1 DEF HandlesOf
    <2>4. cs = Main /\ Main # None
      BY <1>0, <2>1 DEF MainThread
    <2> QED BY <1>0, <2>1, <2>2, <2>3, <2>4 DEF MainThread, ShutdownOps
  <1>9. ASSUME \/ MainClosed \/ ShutdownCheck \/ ShutdownLock \/ ShutdownUnlock
               \/ ShutdownYield \/ ShutdownCount \/ ShutdownKillLock
               \/ ShutdownKillUnlock \/ ShutdownFree
        PROVE  MainThread'
    <2>1. /\ op[Main] = NoOp /\ UNCHANGED <<op, stack, luaState, owner>>
          /\ pc[Main] # "body" /\ pc'[Main] \in MainPc \ {"body", "closing"}
      BY <1>0, <1>9 DEF MainClosed, ShutdownCheck, ShutdownLock, ShutdownUnlock, ShutdownYield,
         ShutdownCount, ShutdownKillLock, ShutdownKillUnlock, ShutdownFree, sd, Goto, record, TypeOK, MainPc
    <2>2. /\ cs' = IF pc'[Main] \in {"cancel", "killing"} THEN Main ELSE None
          /\ cs' = None => todo' = {}
      BY <1>0, <1>9 DEF MainClosed, ShutdownCheck, ShutdownLock, ShutdownUnlock, ShutdownYield,
         ShutdownCount, ShutdownKillLock, ShutdownKillUnlock, ShutdownFree, sd, Goto, uni, TypeOK,
         MainThread, CsFree
    <2>3. HandlesOf(Main)' = {} /\ stack'[Main] = <<Main>>
      <3>1. HandlesOf(Main)' = HandlesOf(Main)
        BY <2>1 DEF HandlesOf
      <3>2. CASE MainClosed
        BY <2>1, <3>1, <3>2, AtBottom DEF MainClosed, InClose
      <3>3. CASE pc[Main] \notin {"body", "closing"}
        BY <1>0, <2>1, <3>1, <3>3 DEF MainThread
      <3> QED BY <1>9, <3>2, <3>3 DEF ShutdownCheck, ShutdownLock, ShutdownUnlock, ShutdownYield,
         ShutdownCount, ShutdownKillLock, ShutdownKillUnlock, ShutdownFree, sd
    <2>4. <<Main>> # <<>>
      OBVIOUS
    <2> QED BY <1>0, <2>1, <2>2, <2>3, <2>4 DEF MainThread, NoOp
  <1> QED BY <1>1, <1>2, <1>3, <1>4, <1>5, <1>6, <1>7, <1>8, <1>9, NextCases DEF Walk

-------------------------------------------------------------------------------
(* The chain *)

\* The chain and its pointers, the count of ChainSound apart.
Linked ==
  /\ pc[Main] # "killing" => chain = linked
  /\ \A s \in linked : heap[s] = "live" /\ owner[s] = None

\* The process does not come back.
LEMMA UpStep == ASSUME Next PROVE Up' => Up
  <1> DEFINE P == process' = process \/ process' = "killed"
  <1>1. ASSUME Talk PROVE P
    BY <1>1 DEF Talk, thread_join, CancelSoft, CancelHard, thread_gc, WaitLoop, WaitTimeout, Spurious,
       WaitFor, JoinNothing, JoinKilled, CancelOver, CancelKilled, CancelKill
  <1>2. ASSUME Walk PROVE P
    BY <1>2 DEF Walk, MainClosed, ShutdownCheck, ShutdownLock, ShutdownCancelled, ShutdownUnlock,
       ShutdownYield, ShutdownCount, ShutdownKillLock, ShutdownKillUnlock, ShutdownFree,
       ShutdownCancel, ShutdownKill
  <1>3. ASSUME MainClose \/ ShutdownKilled PROVE P
    BY <1>3 DEF MainClose, ShutdownKilled
  <1>4. ASSUME NEW t, \/ JoinResults(t) \/ selfdestruct_add(t) \/ GcEnded(t) \/ CleanupCollected(t)
                     \/ \E s \in Lane : lane_new(t, s) \/ CloseJoined(t, s) \/ CloseCollected(t, s)
        PROVE  P
    BY <1>4 DEF JoinResults, selfdestruct_add, GcEnded, CleanupCollected, lane_new, CloseJoined,
       CloseCollected
  <1>5. ASSUME NEW s, \/ lane_main(s) \/ Remove(s) \/ CloseSelf(s) \/ Uncount(s)
                      \/ CleanupSelf(s) \/ Signal(s) \/ LindaWait(s) \/ LindaWake(s)
                      \/ EndBody(s) \/ \E st \in Ended : Finish(s, st)
        PROVE  P
    BY <1>5 DEF lane_main, Remove, CloseSelf, Uncount, CleanupSelf, Signal, LindaWait, LindaWake,
       EndBody, Finish
  <1> HIDE DEF P
  <1>6. P
    BY <1>1, <1>2, <1>3, <1>4, <1>5, NextCases
  <1> QED BY <1>6 DEF P, Up

\* A step that leaves the chain and the lanes in it alone.
LEMMA ChainKept ==
  ASSUME IInv, Next, UNCHANGED <<chain, linked, todo>>,
         \/ pc[Main] # "killing" /\ pc'[Main] # "killing"
         \/ UNCHANGED <<pc[Main], op[Main].f, op[Main].s>>,
         \A x \in chain \cup linked \cup todo : owner'[x] = owner[x] /\ heap'[x] = heap[x]
  PROVE  Chain' /\ Linked'
  <1>1. Chain /\ Linked
    BY DEF IInv, ChainSound, Linked
  <1>2. UNCHANGED pc[Main] \/ pc'[Main] # "killing"
    OBVIOUS
  <1>3. Linked'
    BY <1>1 DEF Linked, Chain
  <1>4. Chain'
    BY <1>1, UpStep DEF Chain
  <1> QED BY <1>3, <1>4

\* Every step keeps the chain, its next pointers and the walk in step.
LEMMA ChainStep == ASSUME IInv, Next PROVE Chain' /\ Linked'
  <1> USE StateFacts
  <1>0. /\ TypeOK /\ Places /\ Fresh /\ Operations /\ MainThread /\ Chain /\ Linked
        /\ \A x \in Lane : x # Main
    BY MainIsNoLane DEF IInv, ChainSound, Linked
  <1>1. ASSUME Talk PROVE Chain' /\ Linked'
    BY <1>1, TalkFrame, TalkMain, ChainKept
  <1>2. ASSUME NEW s \in Lane, \/ lane_main(s) \/ CloseSelf(s) \/ Uncount(s)
                               \/ CleanupSelf(s) \/ Signal(s) \/ LindaWait(s) \/ LindaWake(s)
                               \/ EndBody(s) \/ \E st \in Ended : Finish(s, st)
        PROVE  Chain' /\ Linked'
    <2>1. UNCHANGED <<pc[Main], owner, chain, linked, todo>>
      BY <1>0, <1>2 DEF lane_main, CloseSelf, Uncount, CleanupSelf, Signal, LindaWait,
           LindaWake, EndBody, Finish, Goto, TypeOK, record, uni
    <2>2. op'[Main].f = op[Main].f /\ op'[Main].s = op[Main].s
      <3>1. CASE op' = op
        BY <3>1
      <3>2. ASSUME NEW t \in SleepersOn(s), step(t, "wait")
            PROVE  op'[Main].f = op[Main].f /\ op'[Main].s = op[Main].s
        BY <1>0, <3>2, StepEffect DEF SleepersOn
      <3> QED BY <1>2, <3>1, <3>2 DEF lane_main, CloseSelf, Uncount, CleanupSelf, Signal,
             LindaWait, LindaWake, EndBody, Finish, SIGNAL_ONE
    <2>3. \A x \in chain \cup linked \cup todo : heap'[x] = heap[x]
      BY <1>0, <1>2 DEF lane_main, CloseSelf, Uncount, CleanupSelf, Signal, LindaWait,
           LindaWake, EndBody, Finish, lane_cleanup, TypeOK, record, Places, PlaceOK
    <2> QED BY <2>1, <2>2, <2>3, ChainKept
  <1>3. ASSUME NEW s \in Lane, Remove(s) PROVE Chain' /\ Linked'
    <2>1. /\ cs = None /\ UNCHANGED <<heap, owner, todo>> /\ pc'[Main] = pc[Main]
          /\ \/ UNCHANGED <<chain, linked>>
             \/ chain' = chain \ {s} /\ linked' = linked \ {s}
      BY <1>0, <1>3 DEF Remove, selfdestruct_remove, CsFree, Goto, TypeOK, record
    <2>2. todo = {} /\ pc[Main] # "killing"
      BY <1>0, <2>1 DEF MainThread
    <2> QED BY <1>0, <2>1, <2>2 DEF Chain, Linked
  <1>4. ASSUME NEW t \in State, NEW s \in Lane, lane_new(t, s) PROVE Chain' /\ Linked'
    <2>1. /\ UNCHANGED <<pc[Main], op, chain, linked, todo>>
          /\ \A x \in Lane : x # s => heap'[x] = heap[x] /\ owner'[x] = owner[x]
          /\ s \notin chain \cup linked \cup todo
      BY <1>0, <1>4 DEF lane_new, Goto, TypeOK, uni, Fresh, FreshOK
    <2>2. \A x \in chain \cup linked \cup todo : x \in Lane
      BY <1>0 DEF TypeOK
    <2> QED BY <2>1, <2>2, ChainKept
  <1>5. ASSUME NEW t \in State, NEW s \in Lane, CloseJoined(t, s) \/ CloseCollected(t, s)
        PROVE  Chain' /\ Linked'
    <2>1. /\ RunsIn(t, s) /\ UNCHANGED <<owner, heap, pc, chain, linked, todo>>
          /\ op' = op \/ begin(t, "gc", s, "cleanup", "forever", FALSE)
      BY <1>5 DEF CloseJoined, CloseCollected, InClose, uni
    <2>2. t = Main => pc[Main] # "killing"
      <3>1. <<Main>>[Len(<<Main>>)] = Main
        OBVIOUS
      <3> QED BY <1>0, <2>1, <3>1 DEF RunsIn, MainThread
    <2>3. t = Main \/ op'[Main] = op[Main]
      BY <1>0, <2>1 DEF begin, TypeOK
    <2> QED BY <2>1, <2>2, <2>3, ChainKept
  <1>6. ASSUME NEW t \in State, JoinResults(t) \/ GcEnded(t) \/ CleanupCollected(t)
        PROVE  Chain' /\ Linked'
    <2>0. op[t].f \in {"join", "gc"} /\ op[t].f \in HandleOps
      BY <1>6 DEF JoinResults, GcEnded, CleanupCollected, InOp, HandleOps
    <2>1. op[t].s \in Lane /\ op[t].s \notin chain \cup linked \cup todo
      BY <2>0, HandleFacts
    <2>2. t = Main => pc[Main] # "killing"
      BY <1>0, <2>0 DEF MainThread, ShutdownOps
    <2>3. /\ UNCHANGED <<pc, chain, linked, todo>>
          /\ \A x \in Lane : x # op[t].s => heap'[x] = heap[x] /\ owner'[x] = owner[x]
      BY <1>0, <1>6 DEF JoinResults, GcEnded, CleanupCollected, lane_cleanup, TypeOK, record, uni
    <2>4. t = Main \/ op'[Main] = op[Main]
      <3>1. CASE Return(t)
        BY <1>0, <3>1, ReturnEffect
      <3>2. CASE step(t, "cleanup")
        BY <1>0, <3>2, StepEffect
      <3> QED BY <1>6, <3>1, <3>2 DEF JoinResults, GcEnded, CleanupCollected
    <2>5. \A x \in chain \cup linked \cup todo : x \in Lane
      BY <1>0 DEF TypeOK
    <2> QED BY <2>1, <2>2, <2>3, <2>4, <2>5, ChainKept
  <1>7. ASSUME NEW t \in State, selfdestruct_add(t) PROVE Chain' /\ Linked'
    <2>0. op[t].f \in HandleOps
      BY <1>7 DEF selfdestruct_add, InOp, HandleOps
    <2> DEFINE s == op[t].s
    <2>1. s \in Lane /\ heap[s] = "live"
      BY <2>0, HandleFacts
    <2>2. /\ UNCHANGED <<heap, pc, todo>> /\ cs = None
          /\ chain' = chain \cup {s} /\ linked' = linked \cup {s}
          /\ owner'[s] = None /\ \A x \in Lane : x # s => owner'[x] = owner[x]
      BY <1>0, <1>7, <2>1 DEF selfdestruct_add, link, CsFree, TypeOK
    <2>3. todo = {} /\ pc[Main] # "killing"
      BY <1>0, <2>2 DEF MainThread
    <2>4. chain \subseteq Lane /\ linked \subseteq Lane
      BY <1>0 DEF TypeOK
    <2> QED BY <1>0, <2>1, <2>2, <2>3, <2>4 DEF Chain, Linked
  <1>8. ASSUME \/ MainClose \/ MainClosed \/ ShutdownCheck \/ ShutdownUnlock \/ ShutdownYield
               \/ ShutdownCount \/ ShutdownFree
        PROVE  Chain' /\ Linked'
    <2>1. /\ UNCHANGED <<chain, linked, todo, heap, owner>>
          /\ pc[Main] # "killing" /\ pc'[Main] # "killing"
      BY <1>0, <1>8 DEF MainClose, MainClosed, ShutdownCheck, ShutdownUnlock, ShutdownYield, Ready,
         ShutdownCount, ShutdownFree, sd, Goto, TypeOK, record, uni
    <2> QED BY <2>1, ChainKept
  <1>9. ASSUME ShutdownLock PROVE Chain' /\ Linked'
    <2>1. /\ UNCHANGED <<chain, linked, heap, owner>> /\ todo' = chain
          /\ pc[Main] # "killing" /\ pc'[Main] # "killing"
      BY <1>0, <1>9 DEF ShutdownLock, sd, Goto, TypeOK, record
    <2> QED BY <1>0, <2>1 DEF Chain, Linked
  <1>10. ASSUME NEW s \in Lane, ShutdownCancel(s) PROVE Chain' /\ Linked'
    <2>1. /\ UNCHANGED <<chain, linked, heap, owner, pc>> /\ pc[Main] # "killing"
          /\ todo' = todo \/ todo' = todo \ {s}
      BY <1>10 DEF ShutdownCancel, sd
    <2> QED BY <1>0, <2>1 DEF Chain, Linked
  <1>11. ASSUME ShutdownCancelled PROVE Chain' /\ Linked'
    <2>1. /\ UNCHANGED <<chain, linked, heap, owner, pc>> /\ pc[Main] # "killing"
          /\ todo' = todo \ {op[Main].s}
      BY <1>0, <1>11 DEF ShutdownCancelled, InOp, MainThread, record
    <2> QED BY <1>0, <2>1 DEF Chain, Linked
  <1>12. ASSUME ShutdownKillLock PROVE Chain' /\ Linked'
    <2>1. /\ UNCHANGED <<chain, linked, heap, owner, op>> /\ pc[Main] = "kill" /\ op[Main] = NoOp
          /\ \/ todo' = todo /\ pc'[Main] = "check"
             \/ todo' = chain /\ pc'[Main] = "killing"
      BY <1>0, <1>12 DEF ShutdownKillLock, sd, Goto, TypeOK, record
    <2>2. op'[Main].f = "none"
      BY <2>1 DEF NoOp
    <2> QED BY <1>0, <2>1, <2>2 DEF Chain, Linked
  <1>13. ASSUME NEW s \in Lane, ShutdownKill(s) PROVE Chain' /\ Linked'
    <2>1. /\ UNCHANGED <<chain, todo, heap, owner, pc>> /\ pc[Main] = "killing" /\ op[Main] = NoOp
          /\ linked' = linked \ {s} /\ Up
          /\ process' = "killed" \/ begin(Main, "sd_kill", s, "wait", "forever", FALSE)
      BY <1>13 DEF ShutdownKill, sd, record
    <2>2. linked = todo
      BY <1>0, <2>1 DEF Chain, NoOp
    <2>3. Up' => op'[Main].f = "sd_kill" /\ op'[Main].s = s
      <3>1. CASE begin(Main, "sd_kill", s, "wait", "forever", FALSE)
        <4>1. op'[Main] = [f |-> "sd_kill", s |-> s, step |-> "wait", secs |-> "forever", force |-> FALSE]
          BY <1>0, <3>1 DEF begin, TypeOK
        <4> QED BY <4>1
      <3> QED BY <2>1, <3>1 DEF Up
    <2> QED BY <1>0, <2>1, <2>2, <2>3 DEF Chain, Linked
  <1>14. ASSUME ShutdownKilled PROVE Chain' /\ Linked'
    <2> DEFINE s == op[Main].s
    <2>1. /\ UNCHANGED <<chain, linked, owner, pc>> /\ todo' = todo \ {s} /\ Up
          /\ op[Main].f = "sd_kill" /\ heap' = [heap EXCEPT ![s] = "freed"] /\ Return(Main)
      BY <1>14 DEF ShutdownKilled, lane_cleanup, InOp
    <2>2. op'[Main].f = "none"
      BY <1>0, <2>1, ReturnEffect DEF NoOp
    <2>3. pc[Main] = "killing" /\ linked = todo \ {s}
      BY <1>0, <2>1 DEF MainThread, Chain
    <2>4. s \in Lane /\ heap'[s] = "freed" /\ \A x \in Lane : x # s => heap'[x] = heap[x]
      BY <1>0, <2>1, ShutdownFacts DEF TypeOK, ShutdownOps
    <2>5. chain \subseteq Lane /\ linked \subseteq Lane /\ todo \subseteq Lane
      BY <1>0 DEF TypeOK
    <2> QED BY <1>0, <2>1, <2>2, <2>3, <2>4, <2>5 DEF Chain, Linked
  <1>15. ASSUME ShutdownKillUnlock PROVE Chain' /\ Linked'
    <2>1. /\ UNCHANGED <<linked, owner, heap, todo>> /\ todo = {} /\ chain' = {} /\ Up
          /\ op[Main] = NoOp /\ pc[Main] = "killing" /\ pc'[Main] = "check"
      BY <1>0, <1>15 DEF ShutdownKillUnlock, sd, Goto, TypeOK, record
    <2>2. linked = {}
      BY <1>0, <2>1 DEF Chain, NoOp
    <2> QED BY <1>0, <2>1, <2>2 DEF Chain, Linked
  <1> QED BY <1>1, <1>2, <1>3, <1>4, <1>5, <1>6, <1>7, <1>8, <1>9, <1>10, <1>11, <1>12, <1>13,
             <1>14, <1>15, NextCases DEF Walk

-------------------------------------------------------------------------------
(* The count *)

Closers == {s \in Lane : pc[s] \in {"close", "uncount"}}

\* selfdestructing_count follows the lanes that close themselves.
LEMMA CountStep == ASSUME IInv, Next PROVE selfdestructing_count' = Cardinality(Closers')
  <1> USE StateFacts
  <1>0. /\ TypeOK /\ Places /\ selfdestructing_count = Cardinality(Closers)
        /\ \A x \in Lane : x # Main
    BY MainIsNoLane DEF IInv, ChainSound, Closers
  <1>1. IsFiniteSet(Closers)
    BY LanesFinite, FS_Subset DEF Closers
  <1>2. ASSUME UNCHANGED selfdestructing_count,
               \A x \in Lane : pc'[x] \in {"close", "uncount"} <=> pc[x] \in {"close", "uncount"}
        PROVE  selfdestructing_count' = Cardinality(Closers')
    <2>1. Closers' = Closers
      BY <1>2 DEF Closers
    <2> QED BY <1>0, <1>2, <2>1
  <1>3. CASE Talk
    BY <1>2, <1>3, TalkFrame
  <1>4. CASE Walk
    BY <1>2, <1>4, WalkFrame, WalkEffect
  <1>5. ASSUME NEW s \in Lane, Remove(s) PROVE selfdestructing_count' = Cardinality(Closers')
    <2>1. /\ pc[s] = "remove" /\ \A x \in Lane : x # s => pc'[x] = pc[x]
          /\ \/ pc'[s] = "close" /\ selfdestructing_count' = selfdestructing_count + 1
             \/ pc'[s] = "finish" /\ selfdestructing_count' = selfdestructing_count
      BY <1>0, <1>5 DEF Remove, selfdestruct_remove, Goto, TypeOK
    <2>2. CASE pc'[s] = "finish" /\ selfdestructing_count' = selfdestructing_count
      BY <1>2, <2>1, <2>2
    <2>3. CASE pc'[s] = "close" /\ selfdestructing_count' = selfdestructing_count + 1
      <3>1. Closers' = Closers \cup {s} /\ s \notin Closers
        BY <2>1, <2>3 DEF Closers
      <3>2. Cardinality(Closers \cup {s}) = Cardinality(Closers) + 1
        BY <1>1, <3>1, FS_AddElement
      <3> QED BY <1>0, <2>3, <3>1, <3>2
    <2> QED BY <2>1, <2>2, <2>3
  <1>6. ASSUME NEW s \in Lane, Uncount(s) PROVE selfdestructing_count' = Cardinality(Closers')
    <2>1. /\ pc[s] = "uncount" /\ \A x \in Lane : x # s => pc'[x] = pc[x]
          /\ pc'[s] = "cleanup" /\ selfdestructing_count' = selfdestructing_count - 1
      BY <1>0, <1>6 DEF Uncount, uncount, Goto, TypeOK
    <2>2. Closers' = Closers \ {s} /\ s \in Closers
      BY <2>1 DEF Closers
    <2>3. Cardinality(Closers \ {s}) = Cardinality(Closers) - 1
      BY <1>1, <2>2, FS_RemoveElement
    <2> QED BY <1>0, <2>1, <2>2, <2>3
  <1>7. ASSUME NEW t \in State, NEW s \in Lane, lane_new(t, s)
        PROVE  selfdestructing_count' = Cardinality(Closers')
    <2>1. pc[s] = "none"
      BY <1>7 DEF lane_new, IInv, Fresh, FreshOK
    <2>2. \A x \in Lane : pc'[x] \in {"close", "uncount"} <=> pc[x] \in {"close", "uncount"}
      BY <1>0, <1>7, <2>1 DEF lane_new, Goto, TypeOK
    <2> QED BY <1>2, <1>7, <2>2 DEF lane_new, uni
  <1>8. ASSUME NEW s \in Lane, \/ lane_main(s) \/ CloseSelf(s) \/ CleanupSelf(s) \/ Signal(s)
                               \/ LindaWait(s) \/ LindaWake(s) \/ EndBody(s)
                               \/ \E st \in Ended : Finish(s, st)
        PROVE  selfdestructing_count' = Cardinality(Closers')
    <2>1. \A x \in Lane : pc'[x] \in {"close", "uncount"} <=> pc[x] \in {"close", "uncount"}
      BY <1>0, <1>8 DEF lane_main, CloseSelf, CleanupSelf, Signal, LindaWait, LindaWake, EndBody,
         Finish, Ready, Goto, TypeOK
    <2>2. UNCHANGED selfdestructing_count
      BY <1>8 DEF lane_main, CloseSelf, CleanupSelf, Signal, LindaWait, LindaWake, EndBody, Finish, uni
    <2> QED BY <1>2, <2>1, <2>2
  <1>9. ASSUME \/ MainClose \/ ShutdownKilled
               \/ \E t \in State : JoinResults(t) \/ selfdestruct_add(t) \/ GcEnded(t) \/ CleanupCollected(t)
               \/ \E t \in State, s \in Lane : CloseJoined(t, s) \/ CloseCollected(t, s)
        PROVE  selfdestructing_count' = Cardinality(Closers')
    <2>1. \A x \in Lane : pc'[x] = pc[x]
      BY <1>0, <1>9 DEF MainClose, ShutdownKilled, JoinResults, selfdestruct_add, GcEnded,
         CleanupCollected, CloseJoined, CloseCollected, Goto, TypeOK
    <2>2. UNCHANGED selfdestructing_count
      BY <1>9 DEF MainClose, ShutdownKilled, JoinResults, selfdestruct_add, GcEnded,
         CleanupCollected, CloseJoined, CloseCollected, uni
    <2> QED BY <1>2, <2>1, <2>2
  <1> QED BY <1>3, <1>4, <1>5, <1>6, <1>7, <1>8, <1>9, NextCases

-------------------------------------------------------------------------------
(* The records *)

\* A lane that a step frees is one nobody refers to any more.
LEMMA FreedStep == ASSUME IInv, Next PROVE FreedUnused'
  <1> USE StateFacts
  <1>0. /\ TypeOK /\ Places /\ Fresh /\ Operations /\ FreedUnused
        /\ \A x \in Lane : x # Main
    BY MainIsNoLane DEF IInv
  <1>1. ASSUME NEW x \in Lane, heap'[x] = "freed"
        PROVE  owner'[x] = None /\ pc'[x] \in {"signal", "end"}
    <2> DEFINE Goal == owner'[x] = None /\ pc'[x] \in {"signal", "end"}
    <2>1. CASE Talk
      BY <1>0, <1>1, <2>1, TalkFrame DEF FreedUnused
    <2>2. CASE Walk
      BY <1>0, <1>1, <2>2, WalkFrame, WalkEffect DEF FreedUnused
    <2>3. ASSUME NEW s \in Lane, \/ lane_main(s) \/ Remove(s) \/ CloseSelf(s) \/ Uncount(s)
                                 \/ Signal(s) \/ LindaWait(s) \/ LindaWake(s) \/ EndBody(s)
                                 \/ \E st \in Ended : Finish(s, st)
          PROVE  Goal
      <3>1. heap' = heap /\ owner' = owner
        BY <2>3 DEF lane_main, Remove, CloseSelf, Uncount, Signal, LindaWait, LindaWake, EndBody,
           Finish, record
      <3>2. owner[x] = None /\ pc[x] \in {"signal", "end"}
        BY <1>0, <1>1, <3>1 DEF FreedUnused
      <3>3. pc'[x] = pc[x] \/ pc'[x] = "end"
        BY <1>0, <2>3, <3>2 DEF lane_main, Remove, CloseSelf, Uncount, Signal, LindaWait, LindaWake,
           EndBody, Finish, Ready, Goto, TypeOK
      <3> QED BY <3>1, <3>2, <3>3
    <2>4. ASSUME NEW s \in Lane, CleanupSelf(s) PROVE Goal
      <3>1. /\ pc[s] = "cleanup" /\ pc'[s] = "end" /\ owner' = owner
            /\ x # s => heap'[x] = heap[x] /\ pc'[x] = pc[x]
        BY <1>0, <2>4 DEF CleanupSelf, lane_cleanup, Goto, TypeOK
      <3>2. owner[s] = None
        BY <1>0, <3>1 DEF Places, PlaceOK
      <3> QED BY <1>0, <1>1, <3>1, <3>2 DEF FreedUnused
    <2>5. ASSUME NEW t \in State, NEW s \in Lane, lane_new(t, s) PROVE Goal
      <3>1. x # s /\ UNCHANGED <<heap[x], owner[x], pc[x]>>
        BY <1>0, <1>1, <2>5 DEF lane_new, Goto, TypeOK
      <3> QED BY <1>0, <1>1, <3>1 DEF FreedUnused
    <2>6. ASSUME NEW t \in State, NEW s \in Lane, CloseJoined(t, s) \/ CloseCollected(t, s) PROVE Goal
      BY <1>0, <1>1, <2>6 DEF CloseJoined, CloseCollected, FreedUnused
    <2>7. ASSUME NEW t \in State, JoinResults(t) \/ GcEnded(t) PROVE Goal
      BY <1>0, <1>1, <2>7 DEF JoinResults, GcEnded, FreedUnused, record
    <2>8. ASSUME MainClose PROVE Goal
      BY <1>0, <1>1, <2>8 DEF MainClose, FreedUnused, record, Goto, TypeOK
    <2>9. ASSUME NEW t \in State, selfdestruct_add(t) PROVE Goal
      BY <1>0, <1>1, <2>9 DEF selfdestruct_add, FreedUnused, TypeOK
    <2>10. ASSUME NEW t \in State, CleanupCollected(t) PROVE Goal
      <3>0. op[t].f \in HandleOps /\ op[t].step = "cleanup"
        BY <2>10 DEF CleanupCollected, InOp, HandleOps
      <3>1. op[t].s \in Lane /\ pc[op[t].s] \in {"signal", "end"}
        BY <1>0, <3>0, HandleFacts DEF Operations, OpOK, Places, PlaceOK
      <3>2. /\ pc' = pc /\ owner'[op[t].s] = None
            /\ x # op[t].s => heap'[x] = heap[x] /\ owner'[x] = owner[x]
        BY <1>0, <2>10, <3>1 DEF CleanupCollected, lane_cleanup, TypeOK
      <3> QED BY <1>0, <1>1, <3>1, <3>2 DEF FreedUnused
    <2>11. ASSUME ShutdownKilled PROVE Goal
      <3>0. op[Main].f \in ShutdownOps /\ op[Main].step = "over"
        BY <2>11 DEF ShutdownKilled, InOp, ShutdownOps
      <3>1. op[Main].s \in Lane /\ pc[op[Main].s] \in {"signal", "end"} /\ owner[op[Main].s] = None
        BY <1>0, <3>0, ShutdownFacts DEF Operations, OpOK, Places, PlaceOK
      <3>2. pc' = pc /\ owner' = owner /\ (x # op[Main].s => heap'[x] = heap[x])
        BY <1>0, <2>11, <3>1 DEF ShutdownKilled, lane_cleanup, TypeOK
      <3> QED BY <1>0, <1>1, <3>1, <3>2 DEF FreedUnused
    <2> HIDE DEF Goal
    <2>12. Goal
      BY <2>1, <2>2, <2>3, <2>4, <2>5, <2>6, <2>7, <2>8, <2>9, <2>10, <2>11, NextCases DEF Goal
    <2> QED BY <2>12 DEF Goal
  <1>2. Chain' /\ Linked' /\ Operations' /\ TypeOK'
    BY ChainStep, OpStepOK, TypeStep
  <1>3. ASSUME NEW x \in Lane, heap'[x] = "freed", NEW t \in State PROVE op'[t].s # x
    <2>1. CASE op'[t].f = "none"
      BY <1>2, <2>1 DEF Operations, OpOK, NoOp
    <2>2. CASE op'[t].f \in HandleOps
      <3>1. op'[t].s = x => RunsIn(t, owner[x])'
        BY <1>2, <2>2 DEF Operations, OpOK
      <3>2. ~RunsIn(t, owner[x])'
        <4>1. stack'[t] \in Seq(State)
          BY <1>2 DEF TypeOK
        <4>2. stack'[t] # <<>> => stack'[t][Len(stack'[t])] \in State
          BY <4>1
        <4> QED BY <1>1, <1>3, <4>2 DEF RunsIn
      <3> QED BY <3>1, <3>2
    <2>3. CASE op'[t].f \in ShutdownOps
      BY <1>2, <1>3, <2>3 DEF Operations, OpOK, Chain
    <2> QED BY <1>2, <2>1, <2>2, <2>3 DEF TypeOK, Operation, HandleOps, ShutdownOps
  <1>4. ASSUME NEW x \in Lane, heap'[x] = "freed"
        PROVE  x \notin linked' \cup todo' /\ (x \in chain' => pc'[Main] = "killing")
    BY <1>2, <1>4 DEF Chain, Linked
  <1> QED BY <1>1, <1>3, <1>4 DEF FreedUnused

\* Who has to free x.
Keeper(x) ==
  \/ owner[x] \in Lane /\ luaState[owner[x]] # "closed"
  \/ owner[x] = Main /\ pc[Main] \in {"body", "closing"}
  \/ x \in chain
  \/ pc[x] \in {"close", "uncount", "cleanup"}

\* A live lane keeps someone who will free it.
LEMMA LostStep == ASSUME IInv, Next PROVE NoLaneLost'
  <1> USE StateFacts
  <1>0. /\ TypeOK /\ Places /\ Fresh /\ Operations /\ MainThread /\ Chain
        /\ \A x \in Lane : x # Main
        /\ \A x \in Lane : heap[x] = "live" => Keeper(x)
    BY MainIsNoLane DEF IInv, NoLaneLost, Keeper
  <1> SUFFICES ASSUME NEW x \in Lane, heap'[x] = "live" PROVE Keeper(x)'
    BY DEF NoLaneLost, Keeper
  <1>1. ASSUME Talk PROVE Keeper(x)'
    BY <1>0, <1>1, TalkFrame DEF Keeper
  <1>2. ASSUME NEW s \in Lane, \/ lane_main(s) \/ Uncount(s) \/ Signal(s) \/ LindaWait(s)
                               \/ LindaWake(s) \/ EndBody(s) \/ \E st \in Ended : Finish(s, st)
        PROVE  Keeper(x)'
    <2>1. UNCHANGED <<heap, owner, luaState, chain, pc[Main]>>
      BY <1>0, <1>2 DEF lane_main, Uncount, Signal, LindaWait, LindaWake, EndBody, Finish, Goto,
         TypeOK, record, uni
    <2>2. pc[x] \in {"close", "uncount", "cleanup"} => pc'[x] \in {"close", "uncount", "cleanup"}
      BY <1>0, <1>2 DEF lane_main, Uncount, Signal, LindaWait, LindaWake, EndBody, Finish, Ready, Goto,
         TypeOK
    <2> QED BY <1>0, <2>1, <2>2 DEF Keeper
  <1>3. ASSUME NEW s \in Lane, Remove(s) PROVE Keeper(x)'
    <2>1. /\ UNCHANGED <<heap, owner, pc[Main]>> /\ pc[s] = "remove"
          /\ \A y \in Lane : luaState'[y] = luaState[y] \/ luaState'[y] = "close_self"
          /\ x # s => pc'[x] = pc[x] /\ (x \in chain => x \in chain')
          /\ chain' = chain \/ pc'[s] = "close"
      BY <1>0, <1>3 DEF Remove, selfdestruct_remove, Goto, TypeOK, record
    <2> QED BY <1>0, <2>1 DEF Keeper
  <1>4. ASSUME NEW s \in Lane, CloseSelf(s) PROVE Keeper(x)'
    <2>1. /\ UNCHANGED <<heap, owner, chain, pc[Main]>> /\ pc'[s] = "uncount" /\ HandlesOf(s) = {}
          /\ x # s => pc'[x] = pc[x]
          /\ \A y \in State : y # s => luaState'[y] = luaState[y]
      BY <1>0, <1>4 DEF CloseSelf, Goto, TypeOK, record, uni
    <2>2. owner[x] # s
      BY <2>1 DEF HandlesOf
    <2> QED BY <1>0, <2>1, <2>2 DEF Keeper
  <1>5. ASSUME NEW s \in Lane, CleanupSelf(s) PROVE Keeper(x)'
    <2>1. x # s /\ UNCHANGED <<heap[x], owner, chain, pc[Main], pc[x], luaState>>
      BY <1>0, <1>5 DEF CleanupSelf, lane_cleanup, Goto, TypeOK, uni
    <2> QED BY <1>0, <2>1 DEF Keeper
  <1>6. ASSUME NEW t \in State, NEW s \in Lane, lane_new(t, s) PROVE Keeper(x)'
    <2>1. /\ UNCHANGED <<chain, pc[Main]>>
          /\ x # s => UNCHANGED <<heap[x], owner[x], pc[x]>>
          /\ owner'[s] = t /\ luaState'[s] = "open" /\ pc[t] = "body" /\ heap[s] = "none"
          /\ \A y \in State : y # s => luaState'[y] = luaState[y]
      BY <1>0, <1>6 DEF lane_new, Ready, Goto, TypeOK, uni
    <2>2. CASE x = s
      <3>1. t \in Lane => luaState[t] = "open"
        BY <1>0, <2>1 DEF Places, PlaceOK
      <3>2. t \in Lane => luaState'[t] = "open"
        BY <2>1, <3>1
      <3>3. t \in Lane \/ t = Main
        BY DEF State
      <3> QED BY <2>1, <2>2, <3>2, <3>3 DEF Keeper
    <2>3. CASE x # s
      BY <1>0, <2>1, <2>3 DEF Keeper
    <2> QED BY <2>2, <2>3
  <1>7. ASSUME NEW t \in State, NEW s \in Lane, CloseJoined(t, s) \/ CloseCollected(t, s)
        PROVE  Keeper(x)'
    <2>1. /\ UNCHANGED <<heap, owner, chain, pc>> /\ HandlesOf(s) = {}
          /\ \A y \in State : y # s => luaState'[y] = luaState[y]
      BY <1>0, <1>7 DEF CloseJoined, CloseCollected, TypeOK, uni
    <2>2. owner[x] # s
      BY <2>1 DEF HandlesOf
    <2> QED BY <1>0, <2>1, <2>2 DEF Keeper
  <1>8. ASSUME NEW t \in State, JoinResults(t) \/ GcEnded(t) PROVE Keeper(x)'
    <2>1. /\ UNCHANGED <<heap, owner, chain, pc>>
          /\ \A y \in State : luaState'[y] = luaState[y] \/ luaState'[y] \in {"close_join", "close_gc"}
      BY <1>0, <1>8 DEF JoinResults, GcEnded, TypeOK, record, uni
    <2> QED BY <1>0, <2>1 DEF Keeper
  <1>9. ASSUME NEW t \in State, selfdestruct_add(t) PROVE Keeper(x)'
    <2>1. /\ UNCHANGED <<heap, luaState, pc>> /\ chain' = chain \cup {op[t].s}
          /\ x # op[t].s => owner'[x] = owner[x]
      BY <1>0, <1>9 DEF selfdestruct_add, link, TypeOK
    <2> QED BY <1>0, <2>1 DEF Keeper
  <1>10. ASSUME NEW t \in State, CleanupCollected(t) PROVE Keeper(x)'
    <2>1. x # op[t].s /\ UNCHANGED <<heap[x], owner[x], luaState, pc, chain>>
      BY <1>0, <1>10 DEF CleanupCollected, lane_cleanup, TypeOK, uni
    <2> QED BY <1>0, <2>1 DEF Keeper
  <1>11. ASSUME MainClose PROVE Keeper(x)'
    <2>1. /\ UNCHANGED <<heap, owner, chain, pc[x]>> /\ pc'[Main] = "closing"
          /\ \A y \in Lane : luaState'[y] = luaState[y]
      BY <1>0, <1>11 DEF MainClose, Goto, TypeOK, record, uni
    <2> QED BY <1>0, <2>1 DEF Keeper
  <1>12. ASSUME ShutdownKilled PROVE Keeper(x)'
    <2>1. x # op[Main].s /\ UNCHANGED <<heap[x], owner, luaState, pc, chain>>
      BY <1>0, <1>12 DEF ShutdownKilled, lane_cleanup, TypeOK
    <2> QED BY <1>0, <2>1 DEF Keeper
  <1>13. ASSUME Walk PROVE Keeper(x)'
    <2>0. UNCHANGED <<heap, owner, luaState, pc[x]>>
      BY <1>13, WalkFrame, WalkEffect
    <2>1. owner[x] # Main \/ pc[Main] \notin {"body", "closing"} \/ pc'[Main] \in {"body", "closing"}
      <3>1. CASE MainClosed
        BY <3>1 DEF MainClosed, HandlesOf
      <3>2. CASE op[Main].f \in ShutdownOps
        BY <1>0, <3>2 DEF MainThread, ShutdownOps
      <3>3. CASE \/ ShutdownCheck \/ ShutdownLock \/ ShutdownUnlock
                 \/ ShutdownYield \/ ShutdownCount \/ ShutdownKillLock
                 \/ ShutdownKillUnlock \/ ShutdownFree
                 \/ \E s \in Lane : ShutdownCancel(s) \/ ShutdownKill(s)
        BY <3>3 DEF ShutdownCheck, ShutdownLock, ShutdownUnlock, ShutdownYield, ShutdownCount,
           ShutdownKillLock, ShutdownKillUnlock, ShutdownFree, ShutdownCancel, ShutdownKill, sd
      <3> QED BY <1>13, <3>1, <3>2, <3>3 DEF Walk, ShutdownCancelled, InOp, ShutdownOps
    <2>2. x \in chain => x \in chain'
      <3>1. CASE ShutdownKillUnlock
        <4>1. todo = {} /\ pc[Main] = "killing"
          BY <3>1 DEF ShutdownKillUnlock, sd
        <4> QED BY <1>0, <2>0, <4>1 DEF Chain
      <3>2. CASE chain' = chain
        BY <3>2
      <3> QED BY <1>13, <3>1, <3>2 DEF Walk, MainClosed, ShutdownCheck, ShutdownLock,
             ShutdownCancelled, ShutdownUnlock, ShutdownYield, ShutdownCount, ShutdownKillLock,
             ShutdownFree, ShutdownCancel, ShutdownKill, uni
    <2> QED BY <1>0, <2>0, <2>1, <2>2 DEF Keeper
  <1> QED BY <1>1, <1>2, <1>3, <1>4, <1>5, <1>6, <1>7, <1>8, <1>9, <1>10, <1>11, <1>12, <1>13, NextCases

-------------------------------------------------------------------------------
(* Sleeping threads *)

\* A thread goes to sleep only on a lane that has not ended.
LEMMA NewSleeper ==
  ASSUME IInv, Next, NEW u \in State, op'[u].step = "asleep"
  PROVE  \/ op[u].step = "asleep" /\ op'[u].s = op[u].s
         \/ status[op'[u].s] \notin Ended /\ UNCHANGED status
  <1> USE StateFacts
  <1>0. TypeOK
    BY DEF IInv
  <1> DEFINE Fine == \/ op[u].step = "asleep" /\ op'[u].s = op[u].s
                     \/ status[op'[u].s] \notin Ended /\ UNCHANGED status
  <1>1. ASSUME NEW t \in State, NEW l, step(t, l),
               l # "asleep" \/ (status[op[t].s] \notin Ended /\ UNCHANGED status)
        PROVE  Fine
    <2>1. CASE u = t
      BY <1>0, <1>1, <2>1, StepEffect
    <2>2. CASE u # t
      BY <1>0, <1>1, <2>2, StepEffect
    <2> QED BY <2>1, <2>2
  <1>2. ASSUME NEW t \in State, Return(t) PROVE Fine
    BY <1>0, <1>2, ReturnEffect DEF NoOp
  <1>3. ASSUME NEW t \in State, NEW f, NEW s, NEW l, NEW secs, NEW force,
               begin(t, f, s, l, secs, force), l # "asleep"
        PROVE  Fine
    <2>1. CASE u = t
      <3>1. op'[u] = [f |-> f, s |-> s, step |-> l, secs |-> secs, force |-> force]
        BY <1>0, <1>3, <2>1 DEF begin, TypeOK
      <3>2. op'[u].step = l
        BY <3>1
      <3> QED BY <1>3, <3>2
    <2>2. CASE u # t
      BY <1>0, <1>3, <2>2 DEF begin, TypeOK
    <2> QED BY <2>1, <2>2
  <1>4. ASSUME op' = op PROVE Fine
    BY <1>4
  <1> HIDE DEF Fine
  <1>5. ASSUME Talk PROVE Fine
    <2> SUFFICES ASSUME NEW t \in State,
            \/ \E s \in Lane :
                 \/ \E secs \in {"timed", "forever"} : thread_join(t, s, secs)
                 \/ CancelSoft(t, s)
                 \/ \E secs \in {"zero", "timed"}, force \in BOOLEAN : CancelHard(t, s, secs, force)
                 \/ thread_gc(t, s)
            \/ WaitLoop(t) \/ WaitTimeout(t) \/ Spurious(t)
            \/ JoinNothing(t) \/ JoinKilled(t) \/ CancelOver(t) \/ CancelKilled(t)
            \/ \E secs \in {"zero", "timed"} : CancelKill(t, secs)
                 PROVE  Fine
      BY <1>5 DEF Talk
    <2>1. ASSUME NEW s \in Lane, NEW secs, thread_join(t, s, secs) PROVE Fine
      BY <1>3, <2>1 DEF thread_join
    <2>2. ASSUME NEW s \in Lane, CancelSoft(t, s) PROVE Fine
      BY <1>4, <2>2 DEF CancelSoft
    <2>3. ASSUME NEW s \in Lane, NEW secs, NEW force, CancelHard(t, s, secs, force) PROVE Fine
      BY <1>3, <2>3 DEF CancelHard
    <2>4. ASSUME NEW s \in Lane, thread_gc(t, s) PROVE Fine
      <3>1. gcPath(s) # "asleep"
        BY DEF gcPath
      <3> QED BY <1>3, <2>4, <3>1 DEF thread_gc
    <2>5. ASSUME WaitLoop(t) PROVE Fine
      <3>1. status' = status
        BY <2>5 DEF WaitLoop, WaitFor, record
      <3>2. CASE status[op[t].s] \in Ended
        BY <1>1, <2>5, <3>2 DEF WaitLoop
      <3>3. CASE status[op[t].s] \notin Ended
        BY <1>1, <2>5, <3>1, <3>3 DEF WaitLoop
      <3> QED BY <3>2, <3>3
    <2>6. ASSUME WaitTimeout(t) \/ Spurious(t) PROVE Fine
      BY <1>1, <2>6 DEF WaitTimeout, Spurious
    <2>7. ASSUME JoinNothing(t) \/ JoinKilled(t) \/ CancelOver(t) \/ CancelKilled(t) PROVE Fine
      BY <1>2, <2>7 DEF JoinNothing, JoinKilled, CancelOver, CancelKilled
    <2>8. ASSUME NEW secs, CancelKill(t, secs) PROVE Fine
      BY <1>3, <1>4, <2>8 DEF CancelKill
    <2> QED BY <2>1, <2>2, <2>3, <2>4, <2>5, <2>6, <2>7, <2>8
  <1>6. ASSUME NEW t \in State,
               JoinResults(t) \/ selfdestruct_add(t) \/ GcEnded(t) \/ CleanupCollected(t)
        PROVE  Fine
    BY <1>1, <1>2, <1>6 DEF JoinResults, selfdestruct_add, GcEnded, CleanupCollected
  <1>7. ASSUME NEW t \in State, NEW s \in Lane,
               lane_new(t, s) \/ CloseJoined(t, s) \/ CloseCollected(t, s)
        PROVE  Fine
    BY <1>3, <1>4, <1>7 DEF lane_new, CloseJoined, CloseCollected
  <1>8. ASSUME NEW s \in Lane, Signal(s) PROVE Fine
    BY <1>1, <1>4, <1>8 DEF Signal, SIGNAL_ONE, SleepersOn
  <1>9. ASSUME NEW s \in Lane, \/ lane_main(s) \/ Remove(s) \/ CloseSelf(s) \/ Uncount(s)
                               \/ CleanupSelf(s) \/ LindaWait(s) \/ LindaWake(s) \/ EndBody(s)
                               \/ \E st \in Ended : Finish(s, st)
        PROVE  Fine
    BY <1>4, <1>9 DEF lane_main, Remove, CloseSelf, Uncount, CleanupSelf, LindaWait, LindaWake,
       EndBody, Finish
  <1>10. ASSUME MainClose \/ ShutdownKilled PROVE Fine
    BY <1>2, <1>4, <1>10 DEF MainClose, ShutdownKilled
  <1>11. ASSUME Walk PROVE Fine
    <2>1. ASSUME NEW s \in Lane, ShutdownCancel(s) \/ ShutdownKill(s) PROVE Fine
      BY <1>3, <1>4, <2>1 DEF ShutdownCancel, ShutdownKill
    <2>2. ASSUME ShutdownCancelled PROVE Fine
      BY <1>2, <2>2 DEF ShutdownCancelled
    <2>3. ASSUME \/ MainClosed \/ ShutdownCheck \/ ShutdownLock \/ ShutdownUnlock
                 \/ ShutdownYield \/ ShutdownCount \/ ShutdownKillLock
                 \/ ShutdownKillUnlock \/ ShutdownFree
          PROVE  Fine
      BY <1>4, <2>3 DEF MainClosed, ShutdownCheck, ShutdownLock, ShutdownUnlock, ShutdownYield,
         ShutdownCount, ShutdownKillLock, ShutdownKillUnlock, ShutdownFree
    <2> QED BY <1>11, <2>1, <2>2, <2>3 DEF Walk
  <1>12. Fine
    BY <1>5, <1>6, <1>7, <1>8, <1>9, <1>10, <1>11, NextCases
  <1> QED BY <1>12 DEF Fine

\* At most one thread operates on a lane.
LEMMA OneOperator ==
  ASSUME IInv, NEW t \in State, NEW u \in State, op[t].s = op[u].s, op[t].s \in Lane
  PROVE  t = u
  <1>1. op[t].f # "none"
    BY StateFacts DEF IInv, Operations, OpOK, NoOp
  <1> QED BY <1>1, OpCases, HandleFacts, ShutdownFacts

\* No step lets a THREAD_WAIT() sleep through the end of its lane.
LEMMA SignalStep == ASSUME IInv, Next PROVE NoMissedSignal'
  <1> USE StateFacts
  <1>0. TypeOK /\ Places /\ NoMissedSignal
    BY DEF IInv
  <1> SUFFICES ASSUME NEW s \in Lane, status'[s] \in Ended, NEW u \in State,
                      op'[u].s = s, op'[u].step = "asleep"
               PROVE  pc'[s] = "signal"
    BY DEF NoMissedSignal, SleepersOn
  <1>1. ASSUME status[s] \in Ended PROVE op[u].step = "asleep" /\ op[u].s = s /\ pc[s] = "signal"
    <2>1. op[u].step = "asleep" /\ op[u].s = s
      BY <1>1, NewSleeper
    <2> QED BY <1>0, <1>1, <2>1 DEF NoMissedSignal, SleepersOn
  <1>2. CASE Talk
    BY <1>1, <1>2, TalkFrame
  <1>3. CASE Walk
    BY <1>1, <1>3, WalkFrame, WalkEffect
  <1>4. ASSUME NEW x \in Lane, Signal(x) PROVE pc'[s] = "signal"
    <2>0. status' = status /\ pc[x] = "signal" /\ SIGNAL_ONE(x)
      BY <1>4 DEF Signal, record
    <2>1. op[u].step = "asleep" /\ op[u].s = s /\ pc[s] = "signal"
      BY <1>1, <2>0
    <2>2. CASE x = s
      <3>1. u \in SleepersOn(x)
        BY <2>1, <2>2 DEF SleepersOn
      <3>2. PICK t \in SleepersOn(x) : step(t, "wait")
        BY <2>0, <3>1 DEF SIGNAL_ONE
      <3>3. t = u
        BY <2>1, <2>2, <3>2, OneOperator DEF SleepersOn
      <3> QED BY <1>0, <3>2, <3>3, StepEffect
    <2>3. CASE x # s
      BY <1>0, <1>4, <2>1, <2>3 DEF Signal, Goto, TypeOK
    <2> QED BY <2>2, <2>3
  <1>5. ASSUME NEW x \in Lane, NEW st \in Ended, Finish(x, st) PROVE pc'[s] = "signal"
    <2>1. CASE x = s
      BY <1>0, <1>5, <2>1 DEF Finish, Goto, TypeOK
    <2>2. CASE x # s
      <3>1. status'[s] = status[s] /\ pc'[s] = pc[s]
        BY <1>0, <1>5, <2>2 DEF Finish, Goto, TypeOK
      <3> QED BY <1>1, <3>1
    <2> QED BY <2>1, <2>2
  <1>6. ASSUME NEW x \in Lane, \/ lane_main(x) \/ LindaWait(x) \/ LindaWake(x)
        PROVE pc'[s] = "signal"
    <2>1. /\ status'[s] = status[s] \/ status'[s] \in {"running", "waiting"}
          /\ pc'[s] = pc[s] \/ pc[s] = "start"
      BY <1>0, <1>6 DEF lane_main, LindaWait, LindaWake, Goto, TypeOK
    <2> QED BY <1>1, <2>1 DEF Ended
  <1>7. ASSUME NEW x \in Lane, Remove(x) \/ CloseSelf(x) \/ Uncount(x) \/ CleanupSelf(x) \/ EndBody(x)
        PROVE pc'[s] = "signal"
    <2>1. status' = status /\ (pc'[s] = pc[s] \/ pc[s] # "signal")
      BY <1>0, <1>7 DEF Remove, CloseSelf, Uncount, CleanupSelf, EndBody, Ready, Goto, TypeOK, record
    <2> QED BY <1>1, <2>1
  <1>8. ASSUME \/ MainClose \/ ShutdownKilled
               \/ \E t \in State : JoinResults(t) \/ selfdestruct_add(t) \/ GcEnded(t) \/ CleanupCollected(t)
               \/ \E t \in State, x \in Lane : lane_new(t, x) \/ CloseJoined(t, x) \/ CloseCollected(t, x)
        PROVE  pc'[s] = "signal"
    <2>1. status' = status
      BY <1>8 DEF MainClose, ShutdownKilled, JoinResults, selfdestruct_add, GcEnded, CleanupCollected,
         lane_new, CloseJoined, CloseCollected, record
    <2>2. op[u].step = "asleep" /\ op[u].s = s /\ pc[s] = "signal"
      BY <1>1, <2>1
    <2>3. heap[s] # "none"
      BY <2>2 DEF IInv, Fresh, FreshOK
    <2>4. s # Main
      BY MainIsNoLane
    <2> QED BY <1>0, <1>8, <2>2, <2>3, <2>4 DEF MainClose, ShutdownKilled, JoinResults,
           selfdestruct_add, GcEnded, CleanupCollected, lane_new, CloseJoined, CloseCollected, Goto, TypeOK
  <1> QED BY <1>2, <1>3, <1>4, <1>5, <1>6, <1>7, <1>8, NextCases

-------------------------------------------------------------------------------
(* The invariant and the theorems *)

\* The invariant holds in the beginning.
LEMMA InitInv == ASSUME Init PROVE IInv
  <1> USE StateFacts
  <1>1. TypeOK
    BY DEF Init, TypeOK, LanePc, MainPc, Operation, OpStep, NoOp, Ended
  <1>2. Nesting /\ StateExclusive
    <2>1. \A t \in State : \A i \in DOMAIN stack[t] : t = Main /\ i = 1 /\ stack[t][i] = Main
      BY DEF Init
    <2> QED BY <2>1 DEF Nesting, StateExclusive, Init
  <1>3. Fresh /\ Places
    BY MainIsNoLane DEF Init, Fresh, FreshOK, Places, PlaceOK, LanePc, Ended
  <1>4. Operations
    BY DEF Init, Operations, OpOK, NoOp, HandleOps, ShutdownOps
  <1>5. MainThread
    <2>1. <<Main>> # <<>>
      OBVIOUS
    <2> QED BY <2>1 DEF Init, MainThread, MainPc, NoOp
  <1>6. Chain /\ FreedUnused /\ NoLaneLost
    BY DEF Init, Chain, FreedUnused, NoLaneLost
  <1>7. ChainSound
    <2>1. {s \in Lane : pc[s] \in {"close", "uncount"}} = {}
      BY MainIsNoLane DEF Init
    <2>2. Cardinality({}) = 0
      BY FS_EmptySet
    <2> QED BY <2>1, <2>2 DEF Init, ChainSound
  <1>8. NoMissedSignal
    BY DEF Init, NoMissedSignal, Ended
  <1> QED BY <1>1, <1>2, <1>3, <1>4, <1>5, <1>6, <1>7, <1>8 DEF IInv

\* Every step keeps it.
LEMMA NextInv == ASSUME IInv, [Next]_vars PROVE IInv'
  <1>1. CASE Next
    <2>1. TypeOK' /\ Nesting' /\ StateExclusive' /\ Operations' /\ MainThread' /\ Chain'
      BY <1>1, TypeStep, StackStep, OpStepOK, MainStep, ChainStep
    <2>2. Fresh' /\ Places'
      BY <1>1, PlaceStep DEF Fresh, Places
    <2>3. ChainSound'
      <3>1. Linked' /\ selfdestructing_count' = Cardinality(Closers')
        BY <1>1, ChainStep, CountStep
      <3> QED BY <3>1 DEF Linked, Closers, ChainSound
    <2>4. FreedUnused' /\ NoLaneLost' /\ NoMissedSignal'
      BY <1>1, FreedStep, LostStep, SignalStep
    <2> QED BY <2>1, <2>2, <2>3, <2>4 DEF IInv
  <1>2. CASE UNCHANGED vars
    <2> USE <1>2 DEF vars, record, uni
    <2>1. TypeOK'
      BY DEF IInv, TypeOK
    <2>2. Nesting' /\ StateExclusive'
      BY DEF IInv, Nesting, StateExclusive
    <2>3. Fresh' /\ Places'
      BY DEF IInv, Fresh, FreshOK, Places, PlaceOK
    <2>4. Operations' /\ MainThread'
      BY DEF IInv, Operations, OpOK, RunsIn, MainThread, HandlesOf
    <2>5. Chain' /\ ChainSound' /\ FreedUnused'
      BY DEF IInv, Chain, ChainSound, FreedUnused, Up
    <2>6. NoLaneLost' /\ NoMissedSignal'
      BY DEF IInv, NoLaneLost, NoMissedSignal, SleepersOn
    <2> QED BY <2>1, <2>2, <2>3, <2>4, <2>5, <2>6 DEF IInv
  <1> QED BY <1>1, <1>2

\* The invariant of the lanes, their handles, the chain and the shutdown.
THEOREM Invariance == Spec => []IInv
  BY InitInv, NextInv, PTL DEF Spec

\* The fields of s_lane, the universe and the operations keep their types;
\* in particular selfdestructing_count never goes below zero.
THEOREM TypeCorrect == Spec => []TypeOK
  <1>1. IInv => TypeOK
    BY DEF IInv
  <1> QED BY <1>1, Invariance, PTL

\* No Lua state is inside two threads, or used after its lua_close(), for
\* any number of lanes and any nesting of lua_close() in thread_gc().
THEOREM NoStateShared == Spec => []StateExclusive
  <1>1. IInv => StateExclusive
    BY DEF IInv
  <1> QED BY <1>1, Invariance, PTL

\* No handle, no operation and no walk of the chain refers to a lane that
\* lane_cleanup() has freed.
THEOREM NoFreedLaneUsed == Spec => []FreedUnused
  <1>1. IInv => FreedUnused
    BY DEF IInv
  <1> QED BY <1>1, Invariance, PTL

\* A lane always has someone who will free it: a handle in a state that is
\* not closed, the chain, or its own thread.
THEOREM NoLaneForgotten == Spec => []NoLaneLost
  <1>1. IInv => NoLaneLost
    BY DEF IInv
  <1> QED BY <1>1, Invariance, PTL

\* selfdestruct_remove() and selfdestruct_add() agree on who is in the chain,
\* and selfdestructing_count is the number of lanes closing themselves.
THEOREM ChainCorrect == Spec => []ChainSound
  <1>1. IInv => ChainSound
    BY DEF IInv
  <1> QED BY <1>1, Invariance, PTL

\* A THREAD_WAIT() never sleeps through the end of its lane.
THEOREM NoSignalMissed == Spec => []NoMissedSignal
  <1>1. IInv => NoMissedSignal
    BY DEF IInv
  <1> QED BY <1>1, Invariance, PTL

===============================================================================

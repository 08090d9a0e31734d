-------------------------------- MODULE LjGc --------------------------------
(***************************************************************************)
(* The incremental mark & sweep collector of the LuaJIT runtime (lj_gc.c,  *)
(* lj_gc.h) together with every operation of the mutator that the write    *)
(* barriers exist for: table, metatable, upvalue, userdata and root        *)
(* stores, closure creation (lj_func.c), string interning (lj_str.c),      *)
(* coroutines and their stacks (lj_state.c), and trace exits (lj_trace.c). *)
(*                                                                         *)
(* An object is an address; the constants partition the addresses by the   *)
(* type of the object they can hold.  A freed address may be reused.       *)
(* The intrusive lists gray, grayagain, weak, mmudata and the unswept rest *)
(* of the root list are sets: the order in which a list is visited is left *)
(* open.  One action is one gc_onestep() or one VM/API operation; atomic() *)
(* is a sequence of steps during which the mutator is stopped.             *)
(***************************************************************************)
EXTENDS Integers, FiniteSets

CONSTANTS
  Thread,      \* addresses of lua_State objects
  Main,        \* the main thread, fixed
  Tab,         \* addresses of GCtab objects
  Registry,    \* a table no program can drop: registry and globals
  Func,        \* addresses of GCfunc objects (Lua closures, one upvalue)
  Upval,       \* addresses of GCupval objects
  Udata,       \* addresses of GCudata objects
  Str,         \* addresses of GCstr objects; one string value per address
  FixedStr,    \* strings anchored by fixstring()
  WeakKeyTab,  \* tables whose metatable says __mode = "k"
  WeakValTab,  \* tables whose metatable says __mode = "v"
  FinMeta,     \* tables that hold a __gc metamethod
  Node,        \* hash nodes of a table
  NSlot,       \* stack slots of a thread
  LJ_MIN_STRTAB, LJ_MAX_STRTAB,  \* bounds of the string hash table (pow2)
  Hash,        \* hash value of a string
  HasJit,      \* is compiled code running (LJ_HASJIT)?
  Hooked,      \* may HOOK_GC or HOOK_PROFILE be set at a trace exit?
  Nil

Obj == Thread \cup Tab \cup Func \cup Upval \cup Udata \cup Str
Value == (Thread \cup Tab \cup Func \cup Udata \cup Str) \cup {Nil}
Slot == 1 .. NSlot
Weak == WeakKeyTab \cup WeakValTab

ASSUME ConstAssumption ==
  /\ Main \in Thread /\ Registry \in Tab \ Weak
  /\ FixedStr \subseteq Str /\ WeakKeyTab \subseteq Tab
  /\ WeakValTab \subseteq Tab /\ FinMeta \subseteq Tab
  /\ Nil \notin Obj
  /\ NSlot \in Nat \ {0}
  /\ LJ_MIN_STRTAB \in Nat \ {0} /\ LJ_MAX_STRTAB \in Nat
  /\ Hash \in [Str -> Nat]
  /\ HasJit \in BOOLEAN /\ Hooked \in BOOLEAN

\* No address has two types.
ASSUME TypesDisjoint ==
  /\ Thread \cap (Tab \cup Func \cup Upval \cup Udata \cup Str) = {}
  /\ Tab \cap (Func \cup Upval \cup Udata \cup Str) = {}
  /\ Func \cap (Upval \cup Udata \cup Str) = {}
  /\ Upval \cap (Udata \cup Str) = {}
  /\ Udata \cap Str = {}

VARIABLES
  \* the collector, g->gc
  gcstate,       \* g->gc.state
  aphase,        \* progress inside atomic(); "none" outside of it
  marked,        \* the color of each object, its white relative to
                 \* g->gc.currentwhite
  gray, grayagain, weak,  \* the lists linked through gclist
  tosweep,       \* what is left of the root list for GCSsweep
  sweepstr,      \* next chain of the string table to sweep
  strmask,       \* chains of the string table, less one
  mmudata,       \* userdata with a pending finalizer
  finalized,     \* userdata with the LJ_GC_FINALIZED mark
  \* the heap
  heap,          \* allocated addresses
  stack, top,    \* slots of each thread and its L->top
  tkey, tval, tmeta,  \* nodes and metatable of each table
  fuv,           \* upvalue of each closure
  uvclosed, uvth, uvslot, uvtv,  \* open: thread and slot; closed: value
  udmt,          \* metatable of each userdata
  gcroot,        \* g->gcroot: base metatables, default I/O files
  \* execution
  cur,           \* the running lua_State
  jit,           \* "on": inside compiled code (g->jit_base set)
  full           \* progress of lj_gc_fullgc(); "no" outside of it

lists == <<gray, grayagain, weak>>
gcdata == <<aphase, tosweep, sweepstr, strmask, mmudata, finalized>>
gcvars == <<gcstate, gcdata>>
tabvars == <<tkey, tval, tmeta>>
uvvars == <<uvclosed, uvth, uvslot, uvtv>>
execvars == <<cur, jit, full>>
vars == <<gcvars, marked, lists, heap, stack, top, tabvars, fuv, uvvars, udmt,
          gcroot, execvars>>

----------------------------------------------------------------------------
(* Colors.                                                                 *)

\* "white" is the current white, "other" the other white.
White == {"white", "other"}
iswhite(o) == marked[o] \in White
isblack(o) == marked[o] = "black"
isgray(o) == marked[o] = "gray"
isdead(o) == marked[o] = "other"

\* What an upvalue points to: a stack slot while open, its own cell after.
uvval(u) == IF uvclosed[u] THEN uvtv[u] ELSE stack[uvth[u]][uvslot[u]]

OpenUv == {u \in Upval \cap heap : ~uvclosed[u]}

Marking == gcstate \in {"propagate", "atomic"}

\* The keys and values of a table, but for those it holds weakly.
Filled(t) == {n \in Node : tval[t][n] # Nil}
StrongKeys(t) == IF t \in WeakKeyTab THEN {} ELSE {tkey[t][n] : n \in Filled(t)}
StrongVals(t) == IF t \in WeakValTab THEN {} ELSE {tval[t][n] : n \in Filled(t)}

\* The references of o that the traversal of o marks.
Strong(o) ==
  Obj \cap
  (IF o \in Thread THEN {stack[o][i] : i \in 1 .. top[o]}
   ELSE IF o \in Tab THEN {tmeta[o]} \cup StrongKeys(o) \cup StrongVals(o)
   ELSE IF o \in Func THEN {fuv[o]}
   ELSE IF o \in Upval THEN {uvval(o)}
   ELSE IF o \in Udata THEN {udmt[o]} ELSE {})

\* All that o refers to, weakly or from a stale stack slot included.
Refs(o) ==
  Obj \cap
  (IF o \in Thread THEN {stack[o][i] : i \in Slot}
   ELSE IF o \in Tab THEN {tmeta[o]} \cup UNION {{tkey[o][n], tval[o][n]} : n \in Filled(o)}
   ELSE Strong(o))

\* gc_mark() of every white object of S: an upvalue passes the mark on to its
\* value, a userdata to its metatable; what else is marked waits in gray.
MarkW(S) ==
  LET Whites(T) == {o \in T \cap Obj : iswhite(o)}
      a == Whites(S)
      b == a \cup Whites({uvval(u) : u \in a \cap Upval})
  IN  b \cup Whites({udmt[d] : d \in b \cap Udata})

MarkColor(o) ==
  IF o \in Udata \/ (o \in Upval /\ uvclosed[o]) THEN "black" ELSE "gray"

MarkedBy(S) ==
  [o \in Obj |-> IF o \in MarkW(S) THEN MarkColor(o) ELSE marked[o]]

GrayBy(S) == MarkW(S) \cap (Thread \cup Tab \cup Func)

----------------------------------------------------------------------------
(* Write barriers.  Each sets marked' and the lists.                       *)

\* lj_gc_barrierback: the black table t goes gray again.
barrierback(t) ==
  /\ marked' = [marked EXCEPT ![t] = "gray"]
  /\ grayagain' = grayagain \cup {t}
  /\ UNCHANGED <<gray, weak>>

\* lj_gc_barrierf: black o now refers to white v.
barrierf(o, v) ==
  /\ IF Marking
       THEN /\ marked' = MarkedBy({v})
            /\ gray' = gray \cup GrayBy({v})
       ELSE /\ marked' = [marked EXCEPT ![o] = "white"]
            /\ gray' = gray
  /\ UNCHANGED <<grayagain, weak>>

nobarrier == UNCHANGED <<marked, lists>>

\* (mutant) a barrier that ignores the color
anybarriertAlways(t) == barrierback(t)

\* lj_gc_anybarriert
anybarriert(t) == IF isblack(t) THEN barrierback(t) ELSE nobarrier

\* (mutant)
barriertNone(t, v) == nobarrier

\* lj_gc_barriert, lj_gc_objbarriert
barriert(t, v) ==
  IF v # Nil /\ iswhite(v) /\ isblack(t) THEN barrierback(t) ELSE nobarrier

\* (mutant)
objbarrierNone(o, v) == nobarrier

\* lj_gc_barrier, lj_gc_objbarrier, and BC_USETV's use of lj_gc_barrieruv
objbarrier(o, v) ==
  IF v # Nil /\ iswhite(v) /\ isblack(o) THEN barrierf(o, v) ELSE nobarrier

----------------------------------------------------------------------------
(* The mutator: operations of the thread cur.                              *)

\* The collector runs inside an allocation of the mutator.  lj_gc_fullgc stops
\* the mutator for the rest of a cycle, finalizers excepted.
MutatorRuns ==
  /\ aphase = "none" /\ jit # "exit"
  /\ full = "no" \/ (full = "cycle" /\ gcstate = "finalize")

\* What the running code can name: its live slots and the registry.
Operand == {stack[cur][i] : i \in 1 .. top[cur]} \cup {Registry}

Push(th, v) ==
  /\ top[th] < NSlot
  /\ stack' = [stack EXCEPT ![th][top[th] + 1] = v]
  /\ top' = [top EXCEPT ![th] = @ + 1]

\* lj_tab_new, lj_udata_new, lj_state_new: the object is white and reachable
\* from the stack only.  A free address has empty fields, see Free.
NewObject(o) ==
  /\ MutatorRuns
  /\ o \in (Tab \cup Udata \cup Thread) \ heap
  /\ heap' = heap \cup {o}
  /\ marked' = [marked EXCEPT ![o] = "white"]
  /\ Push(cur, o)
  /\ UNCHANGED <<gcvars, lists, tabvars, fuv, uvvars, udmt, gcroot, execvars>>

strnum == Cardinality(Str \cap heap)

\* The strings are hung off the chains of their hash values anew.
lj_str_resize(newmask) ==
  strmask' = IF gcstate = "sweepstring" \/ newmask >= LJ_MAX_STRTAB - 1
               THEN strmask ELSE newmask

\* lj_str_new: the interned string, resurrected if it is dead, or a new one;
\* the table grows with the strings.
InternStr(s) ==
  /\ MutatorRuns
  /\ heap' = heap \cup {s}
  /\ marked' = IF s \notin heap \/ isdead(s)
                 THEN [marked EXCEPT ![s] = "white"] ELSE marked
  /\ Push(cur, s)
  /\ IF s \notin heap /\ strnum > strmask THEN lj_str_resize(2 * strmask + 1)
     ELSE UNCHANGED strmask
  /\ UNCHANGED <<gcstate, aphase, tosweep, sweepstr, mmudata, finalized, lists,
                 tabvars, fuv, uvvars, udmt, gcroot, execvars>>

\* The node lj_tab_set finds for k, or one it may claim for a new key.  Nil is
\* any key that is not collectable.  The key a cleared node keeps is no longer
\* a reference: it is forgotten.
NodeFor(t, k, n) ==
  \/ tkey[t][n] = k /\ tval[t][n] # Nil
  \/ /\ \A m \in Node : ~(tkey[t][m] = k /\ tval[t][m] # Nil)
     /\ tval[t][n] = Nil

StoreNode(t, n, k, v) ==
  /\ NodeFor(t, k, n)
  /\ tkey' = [tkey EXCEPT ![t][n] = IF v = Nil THEN Nil ELSE k]
  /\ tval' = [tval EXCEPT ![t][n] = v]
  /\ UNCHANGED <<gcvars, heap, stack, top, tmeta, fuv, uvvars, udmt, gcroot,
                 execvars>>

\* BC_TSETV/BC_TSETS, lua_rawset, lj_meta_tset: barrier whatever the value is.
TabSet(t, n, k, v) ==
  /\ MutatorRuns
  /\ t \in Operand \cap Tab
  /\ k \in Operand \cup {Nil} /\ v \in Operand \cup {Nil}
  /\ StoreNode(t, n, k, v)
  /\ anybarriert(t)

\* lua_rawseti: integer key, barrier only for a white value.
RawSetI(t, n, v) ==
  /\ MutatorRuns
  /\ t \in Operand \cap Tab /\ v \in Operand
  /\ StoreNode(t, n, Nil, v)
  /\ barriert(t, v)

\* A load: table field, upvalue, metatable, base metatable.
Load(v) ==
  /\ MutatorRuns
  /\ \/ \E t \in Operand \cap Tab : v = tmeta[t] \/ \E n \in Node : v = tval[t][n]
     \/ \E f \in Operand \cap Func : v = uvval(fuv[f])
     \/ \E d \in Operand \cap Udata : v = udmt[d]
     \/ v = gcroot
  /\ v # Nil
  /\ Push(cur, v)
  /\ UNCHANGED <<gcvars, marked, lists, heap, tabvars, fuv, uvvars, udmt,
                 gcroot, execvars>>

\* lua_setmetatable on a table.
SetMetatable(t, m) ==
  /\ MutatorRuns
  /\ t \in Operand \cap Tab /\ m \in (Operand \cap Tab) \cup {Nil}
  /\ tmeta' = [tmeta EXCEPT ![t] = m]
  /\ barriert(t, m)
  /\ UNCHANGED <<gcvars, heap, stack, top, tkey, tval, fuv, uvvars, udmt,
                 gcroot, execvars>>

\* lua_setmetatable on a userdata.
UdSetMetatable(d, m) ==
  /\ MutatorRuns
  /\ d \in Operand \cap Udata /\ m \in (Operand \cap Tab) \cup {Nil}
  /\ udmt' = [udmt EXCEPT ![d] = m]
  /\ objbarrier(d, m)
  /\ UNCHANGED <<gcvars, heap, stack, top, tabvars, fuv, uvvars, gcroot,
                 execvars>>

\* lua_setmetatable on a base type: a root, no barrier.
SetRoot(v) ==
  /\ MutatorRuns
  /\ v \in (Operand \cap Tab) \cup {Nil}
  /\ gcroot' = v
  /\ UNCHANGED <<gcvars, marked, lists, heap, stack, top, tabvars, fuv, uvvars,
                 udmt, execvars>>

----------------------------------------------------------------------------
(* Closures and upvalues.                                                  *)

SlotUv(th, i) == {u \in OpenUv : uvth[u] = th /\ uvslot[u] = i}

\* func_finduv makes a new upvalue white and resurrects a dead one.
NeedsWhite(u) == u \notin heap \/ isdead(u)

\* lj_func_newL_gc with a local upvalue: func_finduv returns the open upvalue
\* of slot i, resurrected if it is dead, or creates one.
NewClosureLocal(f, i, u) ==
  /\ MutatorRuns
  /\ f \in Func \ heap /\ i \in 1 .. top[cur]
  /\ IF SlotUv(cur, i) # {} THEN u \in SlotUv(cur, i) ELSE u \in Upval \ heap
  /\ heap' = heap \cup {f, u}
  /\ marked' = [o \in Obj |-> IF o = f \/ (o = u /\ NeedsWhite(u))
                                THEN "white" ELSE marked[o]]
  /\ fuv' = [fuv EXCEPT ![f] = u]
  /\ uvclosed' = [uvclosed EXCEPT ![u] = FALSE]
  /\ uvth' = [uvth EXCEPT ![u] = cur]
  /\ uvslot' = [uvslot EXCEPT ![u] = i]
  /\ Push(cur, f)
  /\ UNCHANGED <<gcvars, lists, tabvars, uvtv, udmt, gcroot, execvars>>

\* lj_func_newL_gc with an upvalue inherited from the running function p.
NewClosureInherit(f, p) ==
  /\ MutatorRuns
  /\ f \in Func \ heap /\ p \in Operand \cap Func
  /\ heap' = heap \cup {f}
  /\ marked' = [marked EXCEPT ![f] = "white"]
  /\ fuv' = [fuv EXCEPT ![f] = fuv[p]]
  /\ Push(cur, f)
  /\ UNCHANGED <<gcvars, lists, tabvars, uvvars, udmt, gcroot, execvars>>

\* lj_func_newL_empty: a loaded chunk, with a new closed upvalue.
NewClosureEmpty(f, u) ==
  /\ MutatorRuns
  /\ f \in Func \ heap /\ u \in Upval \ heap
  /\ heap' = heap \cup {f, u}
  /\ marked' = [marked EXCEPT ![f] = "white", ![u] = "white"]
  /\ fuv' = [fuv EXCEPT ![f] = u]
  /\ Push(cur, f)
  /\ UNCHANGED <<gcvars, lists, tabvars, uvvars, udmt, gcroot, execvars>>

\* BC_USETV: a store through an open upvalue is a stack store, without
\* barrier; a closed one has the barrier of lj_gc_barrieruv.
UvSet(f, v) ==
  /\ MutatorRuns
  /\ f \in Operand \cap Func /\ v \in Operand
  /\ LET u == fuv[f] IN
       IF uvclosed[u]
         THEN /\ uvtv' = [uvtv EXCEPT ![u] = v]
              /\ objbarrier(u, v)
              /\ UNCHANGED stack
         ELSE /\ stack' = [stack EXCEPT ![uvth[u]][uvslot[u]] = v]
              /\ nobarrier
              /\ UNCHANGED uvtv
  /\ UNCHANGED <<gcvars, heap, top, tabvars, fuv, uvclosed, uvth, uvslot, udmt,
                 gcroot, execvars>>

\* lua_upvaluejoin, debug.upvaluejoin
UpvalueJoin(f, p) ==
  /\ MutatorRuns
  /\ f \in Operand \cap Func /\ p \in Operand \cap Func
  /\ fuv' = [fuv EXCEPT ![f] = fuv[p]]
  /\ objbarrier(f, fuv[p])
  /\ UNCHANGED <<gcvars, heap, stack, top, tabvars, uvvars, udmt, gcroot,
                 execvars>>

----------------------------------------------------------------------------
(* Scopes, threads and traces.                                             *)

\* (mutant) the closed upvalue turns black without a barrier
CloseMarksNone(G) == {}

\* lj_gc_closeuv marks through the gray upvalues G it turns black.
CloseMarks(G) == IF Marking THEN MarkW({uvval(u) : u \in G}) ELSE {}

\* The top slot goes out of scope: lj_func_closeuv closes its upvalue (or
\* frees a dead one), lj_gc_closeuv repairs its color.  The value stays in
\* the slot above top.
LeaveScope ==
  LET U == SlotUv(cur, top[cur])
      D == {u \in U : isdead(u)}
      G == {u \in U : isgray(u)}
      W == CloseMarks(G)
  IN
  /\ MutatorRuns
  /\ top[cur] > 0
  /\ top' = [top EXCEPT ![cur] = @ - 1]
  /\ heap' = heap \ D
  /\ marked' = [o \in Obj |->
       CASE o \in D -> "white"
         [] o \in G -> IF Marking THEN "black" ELSE "white"
         [] o \in W -> MarkColor(o)
         [] OTHER -> marked[o]]
  /\ gray' = gray \cup (W \cap (Thread \cup Tab \cup Func))
  /\ uvclosed' = [u \in Upval |-> u \in U \/ uvclosed[u]]
  /\ uvtv' = [u \in Upval |-> IF u \in U \ D THEN uvval(u) ELSE uvtv[u]]
  /\ uvth' = [u \in Upval |-> IF u \in U THEN Main ELSE uvth[u]]
  /\ uvslot' = [u \in Upval |-> IF u \in U THEN 1 ELSE uvslot[u]]
  /\ UNCHANGED <<gcvars, grayagain, weak, stack, tabvars, fuv, udmt, gcroot,
                 execvars>>

\* A Lua frame is entered: L->top covers its registers, which still hold what
\* earlier frames left there (curr_topL, lj_gc_step_fixtop).
EnterScope ==
  /\ MutatorRuns
  /\ top[cur] < NSlot
  /\ top' = [top EXCEPT ![cur] = @ + 1]
  /\ UNCHANGED <<gcvars, marked, lists, heap, stack, tabvars, fuv, uvvars,
                 udmt, gcroot, execvars>>

\* lua_xmove, and the arguments and results of resume and yield.
XMove(to) ==
  /\ MutatorRuns
  /\ to \in (Operand \cap Thread) \cup {Main} /\ to # cur
  /\ top[cur] > 0 /\ top[to] < NSlot
  /\ SlotUv(cur, top[cur]) = {}
  /\ stack' = [stack EXCEPT ![to][top[to] + 1] = stack[cur][top[cur]]]
  /\ top' = [top EXCEPT ![to] = @ + 1, ![cur] = @ - 1]
  /\ UNCHANGED <<gcvars, marked, lists, heap, tabvars, fuv, uvvars, udmt,
                 gcroot, execvars>>

\* coroutine.resume from the main thread, and the yield or return to it.
Switch(to) ==
  /\ MutatorRuns /\ jit = "off"
  /\ \/ cur = Main /\ to \in (Operand \cap Thread) \ {Main}
     \/ cur # Main /\ to = Main
  /\ cur' = to
  /\ UNCHANGED <<gcvars, marked, lists, heap, stack, top, tabvars, fuv, uvvars,
                 udmt, gcroot, jit, full>>

\* Compiled code is entered; it does the same stores with the same barriers.
EnterTrace ==
  /\ MutatorRuns /\ HasJit /\ jit = "off"
  /\ jit' = "on"
  /\ UNCHANGED <<gcvars, marked, lists, heap, stack, top, tabvars, fuv, uvvars,
                 udmt, gcroot, cur, full>>

\* (mutant) trace exits never run the collector
TraceExitOnly ==
  /\ jit = "on" /\ jit' = "off"
  /\ UNCHANGED <<gcvars, marked, lists, heap, stack, top, tabvars, fuv, uvvars,
                 udmt, gcroot, cur, full>>

\* lj_trace_exit: an exit in GCSatomic or GCSfinalize drives the collector
\* forward before the interpreter continues, unless HOOK_GC (in a finalizer)
\* or HOOK_PROFILE is set.
TraceExit ==
  /\ jit = "on"
  /\ \/ jit' = "off" /\ (Hooked \/ gcstate \notin {"atomic", "finalize"})
     \/ jit' = "exit" /\ gcstate \in {"atomic", "finalize"}
  /\ UNCHANGED <<gcvars, marked, lists, heap, stack, top, tabvars, fuv, uvvars,
                 udmt, gcroot, cur, full>>

Mutator ==
  \/ \E o \in Tab \cup Udata \cup Thread : NewObject(o)
  \/ \E s \in Str : InternStr(s)
  \/ \E t \in Tab, n \in Node :
       \E k, v \in Value : TabSet(t, n, k, v)
  \/ \E t \in Tab, n \in Node, v \in Value : RawSetI(t, n, v)
  \/ \E v \in Value : Load(v)
  \/ \E t \in Tab, m \in Tab \cup {Nil} : SetMetatable(t, m)
  \/ \E d \in Udata, m \in Tab \cup {Nil} : UdSetMetatable(d, m)
  \/ \E v \in Tab \cup {Nil} : SetRoot(v)
  \/ \E f \in Func, i \in Slot, u \in Upval : NewClosureLocal(f, i, u)
  \/ \E f, p \in Func : NewClosureInherit(f, p)
  \/ \E f \in Func, u \in Upval : NewClosureEmpty(f, u)
  \/ \E f \in Func, v \in Value : UvSet(f, v)
  \/ \E f, p \in Func : UpvalueJoin(f, p)
  \/ LeaveScope
  \/ EnterScope
  \/ \E th \in Thread : XMove(th)
  \/ \E th \in Thread : Switch(th)
  \/ EnterTrace

----------------------------------------------------------------------------
(* The collector: gc_onestep() by states.                                  *)

\* A step of the collector to state st.  lj_gc_fullgc ends with its cycle; a
\* step taken by lj_trace_exit lets the interpreter go on.
GcStep(st) ==
  /\ full = "sweep" => gcstate \in {"sweepstring", "sweep"}
  /\ gcstate' = st
  /\ full' = IF full = "cycle" /\ st = "pause" THEN "no" ELSE full
  /\ jit' = IF jit = "exit" THEN "off" ELSE jit

\* gc_mark_start
MarkStart ==
  LET roots == {Main, Registry, gcroot} IN
  /\ gcstate = "pause"
  /\ GcStep("propagate")
  /\ marked' = MarkedBy(roots)
  /\ gray' = GrayBy(roots) /\ grayagain' = {} /\ weak' = {}
  /\ UNCHANGED <<gcdata, heap, stack, top, tabvars, fuv, uvvars, udmt, gcroot, cur>>

\* propagatemark: traverse one gray object.  Threads and weak tables stay
\* gray; inside atomic() the slots above top are cleared.
Propagate(o) ==
  LET W == MarkW(Strong(o)) IN
  /\ gcstate = "propagate" \/ aphase # "none"
  /\ o \in gray
  /\ GcStep(gcstate)
  /\ marked' = [x \in Obj |->
       CASE x = o -> IF o \in Thread \cup Weak THEN "gray" ELSE "black"
         [] x \in W -> MarkColor(x)
         [] OTHER -> marked[x]]
  /\ gray' = (gray \ {o}) \cup GrayBy(Strong(o))
  /\ grayagain' = IF o \in Thread THEN grayagain \cup {o} ELSE grayagain
  /\ weak' = IF o \in Weak THEN weak \cup {o} ELSE weak
  /\ stack' = IF o \in Thread /\ gcstate = "atomic"
                THEN [stack EXCEPT ![o] = [i \in Slot |->
                        IF i > top[o] THEN Nil ELSE stack[o][i]]]
                ELSE stack
  /\ UNCHANGED <<gcdata, heap, top, tabvars, fuv, uvvars, udmt, gcroot, cur>>

\* The gray list is empty: end of the mark phase.
PropagateEnd ==
  /\ gcstate = "propagate" /\ gray = {}
  /\ GcStep("atomic")
  /\ UNCHANGED <<gcdata, marked, lists, heap, stack, top, tabvars, fuv, uvvars, udmt,
                 gcroot, cur>>

\* A step of atomic() from one phase to the next, with the gray list empty.
AtomicStep(from, to) ==
  /\ gcstate = "atomic" /\ aphase = from
  /\ from # "none" => gray = {}
  /\ aphase' = to
  /\ GcStep(IF to = "none" THEN "sweepstring" ELSE "atomic")

\* (mutant) gc_mark_uv left out
RemarkUvNone == {}

\* What gc_mark_uv marks.
RemarkUv == {uvval(u) : u \in {x \in OpenUv : isgray(x)}}

\* atomic, gc_mark_uv: remark the values of open upvalues.  Not on trace.
AtomicUv ==
  /\ AtomicStep("none", "uv")
  /\ jit # "on"
  /\ marked' = MarkedBy(RemarkUv)
  /\ gray' = gray \cup GrayBy(RemarkUv)
  /\ UNCHANGED <<tosweep, sweepstr, strmask, mmudata, finalized,
                 grayagain, weak, heap, stack, top, tabvars, fuv, uvvars, udmt,
                 gcroot, cur>>

\* (mutant) the roots are not marked again
AtomicRootsThread == {cur}

\* The running thread and g->gcroot.
AtomicRoots == {cur, gcroot}

\* atomic: retraverse the weak tables, the running thread and the roots.
AtomicWeak ==
  /\ AtomicStep("uv", "weak")
  /\ marked' = MarkedBy(AtomicRoots)
  /\ gray' = weak \cup GrayBy(AtomicRoots) /\ weak' = {}
  /\ UNCHANGED <<tosweep, sweepstr, strmask, mmudata, finalized,
                 grayagain, heap, stack, top, tabvars, fuv, uvvars, udmt,
                 gcroot, cur>>

\* atomic: retraverse the second chance list.
AtomicAgain ==
  /\ AtomicStep("weak", "again")
  /\ gray' = grayagain /\ grayagain' = {}
  /\ UNCHANGED <<tosweep, sweepstr, strmask, mmudata, finalized,
                 marked, weak, heap, stack, top, tabvars, fuv, uvvars, udmt,
                 gcroot, cur>>

\* gc_mark_mmudata: userdata from an earlier cycle is marked again.
MmudataMarks(mm) == MarkW({udmt[d] : d \in mm})

\* atomic: lj_gc_separateudata(g, 0), then gc_mark_mmudata.  Unreachable
\* userdata with a __gc metamethod is kept for its finalizer.
AtomicUdata ==
  LET sep == {d \in (Udata \cap heap) \ (mmudata \cup finalized) : iswhite(d)}
      mm == mmudata \cup {d \in sep : udmt[d] \in FinMeta}
      W == MmudataMarks(mm)
  IN
  /\ AtomicStep("again", "udata")
  /\ finalized' = finalized \cup sep
  /\ mmudata' = mm
  /\ marked' = [o \in Obj |-> CASE o \in mm -> "black"
                                [] o \in W -> MarkColor(o)
                                [] OTHER -> marked[o]]
  /\ gray' = W \cap Tab
  /\ UNCHANGED <<tosweep, sweepstr, strmask, grayagain, weak,
                 heap, stack, top, tabvars, fuv, uvvars, udmt, gcroot, cur>>

\* (mutant) weak keys stay
mayclearVal(o, val) == val /\ o \in Obj \ Str /\ iswhite(o)

\* gc_mayclear: val tells a value slot from a key slot.
mayclear(o, val) ==
  /\ o \in Obj \ Str
  /\ iswhite(o) \/ (val /\ o \in finalized)

\* (mutants) the sweep starts behind the main thread; it skips userdata
RootListNoMain == heap \ (Str \cup OpenUv \cup mmudata \cup {Main})
RootListNoUdata == heap \ (Str \cup OpenUv \cup Udata)

\* What the sweep of the root list will visit: strings hang off the string
\* table, open upvalues off their thread, mmudata is a list of its own.
RootList == heap \ (Str \cup OpenUv \cup mmudata)

\* The color of o once the current white is the other one.
flipwhite(o) == IF o \notin heap \/ ~iswhite(o) THEN marked[o]
                ELSE IF isdead(o) THEN "white" ELSE "other"

\* gc_clearweak empties node n of the weak table t.
Cleared(t, n) ==
  /\ t \in weak /\ tval[t][n] # Nil
  /\ mayclear(tkey[t][n], FALSE) \/ mayclear(tval[t][n], TRUE)

\* gc_mayclear marks the string s instead: strings are values.
WeakStr(s) ==
  /\ s \in Str
  /\ \E t \in weak, n \in Node :
       /\ tval[t][n] # Nil
       /\ \/ s = tkey[t][n]
          \/ s = tval[t][n] /\ ~mayclear(tkey[t][n], FALSE)

\* atomic: gc_clearweak, then flip the current white and prepare the sweep.
AtomicFlip ==
  /\ AtomicStep("udata", "none")
  /\ tval' = [t \in Tab |-> [n \in Node |->
                IF Cleared(t, n) THEN Nil ELSE tval[t][n]]]
  /\ tkey' = [t \in Tab |-> [n \in Node |->
                IF Cleared(t, n) THEN Nil ELSE tkey[t][n]]]
  /\ marked' = [o \in Obj |-> IF WeakStr(o) /\ iswhite(o) THEN "gray"
                              ELSE flipwhite(o)]
  /\ sweepstr' = 0
  /\ tosweep' = RootList
  /\ UNCHANGED <<strmask, mmudata, finalized, lists, heap, stack, top, tmeta, fuv,
                 uvvars, udmt, gcroot, cur>>

\* (mutant) one chain too many
StringsSweptLate == sweepstr > strmask

\* g->gc.sweepstr > g->strmask, after the increment
StringsSwept == sweepstr + 1 > strmask

\* gc_sweep of one chain of the string table.
SweepString ==
  LET chain == {s \in Str \cap heap : Hash[s] % (strmask + 1) = sweepstr}
      free == {s \in chain : isdead(s) /\ s \notin FixedStr}
  IN
  /\ gcstate = "sweepstring"
  /\ heap' = heap \ free
  /\ marked' = [o \in Obj |-> IF o \in chain THEN "white" ELSE marked[o]]
  /\ sweepstr' = sweepstr + 1
  /\ GcStep(IF StringsSwept THEN "sweep" ELSE "sweepstring")
  /\ UNCHANGED <<aphase, tosweep, strmask, mmudata, finalized, lists,
                 stack, top, tabvars, fuv, uvvars, udmt, gcroot, cur>>

NilStack == [i \in Slot |-> Nil]

\* The free functions: the fields of the addresses in F are empty again.
Free(F) ==
  /\ heap' = heap \ F
  /\ finalized' = finalized \ F
  /\ top' = [t \in Thread |-> IF t \in F THEN 0 ELSE top[t]]
  /\ stack' = [t \in Thread |-> IF t \in F THEN NilStack ELSE stack[t]]
  /\ tkey' = [t \in Tab |-> IF t \in F THEN [n \in Node |-> Nil] ELSE tkey[t]]
  /\ tval' = [t \in Tab |-> IF t \in F THEN [n \in Node |-> Nil] ELSE tval[t]]
  /\ tmeta' = [t \in Tab |-> IF t \in F THEN Nil ELSE tmeta[t]]
  /\ fuv' = [f \in Func |-> IF f \in F THEN Nil ELSE fuv[f]]
  /\ udmt' = [d \in Udata |-> IF d \in F THEN Nil ELSE udmt[d]]

\* (mutants) open upvalues survive their thread; closing loses the value
CloseOrFreeUvLeak(C, F) ==
  /\ uvclosed' = [u \in Upval |-> u \in F \/ uvclosed[u]]
  /\ uvtv' = [u \in Upval |-> IF u \in F THEN Nil ELSE uvtv[u]]
  /\ uvth' = [u \in Upval |-> IF u \in F THEN Main ELSE uvth[u]]
  /\ uvslot' = [u \in Upval |-> IF u \in F THEN 1 ELSE uvslot[u]]
CloseOrFreeUvNil(C, F) ==
  /\ uvclosed' = [u \in Upval |-> u \in C \cup F \/ uvclosed[u]]
  /\ uvtv' = [u \in Upval |-> IF u \in F \cup C THEN Nil ELSE uvtv[u]]
  /\ uvth' = [u \in Upval |-> IF u \in C \cup F THEN Main ELSE uvth[u]]
  /\ uvslot' = [u \in Upval |-> IF u \in C \cup F THEN 1 ELSE uvslot[u]]

\* The upvalues of F are freed, those of C are closed by lj_func_closeuv.
CloseOrFreeUv(C, F) ==
  /\ uvclosed' = [u \in Upval |-> u \in C \cup F \/ uvclosed[u]]
  /\ uvtv' = [u \in Upval |-> CASE u \in F -> Nil
                                [] u \in C -> uvval(u)
                                [] OTHER -> uvtv[u]]
  /\ uvth' = [u \in Upval |-> IF u \in C \cup F THEN Main ELSE uvth[u]]
  /\ uvslot' = [u \in Upval |-> IF u \in C \cup F THEN 1 ELSE uvslot[u]]

\* (mutant) pending finalizers wait for the next cycle
AfterSweepPause == "pause"

AfterSweep == IF mmudata # {} THEN "finalize" ELSE "pause"

\* The string table is worth shrinking.
Sparse == strnum <= strmask \div 4 /\ strmask > LJ_MIN_STRTAB * 2 - 1

\* gc_sweep of one object of the root list.  A thread's open upvalues are
\* swept first; a dead thread closes the ones that are alive.
Sweep(o) ==
  LET dies == isdead(o) /\ o # Main
      U == {u \in OpenUv : uvth[u] = o}
      F == {u \in U : isdead(u)} \cup (IF dies THEN {o} ELSE {})
  IN
  /\ gcstate = "sweep" /\ o \in tosweep
  /\ Free(F)
  /\ CloseOrFreeUv(IF dies THEN U \ F ELSE {}, F)
  /\ marked' = [x \in Obj |-> IF x \in {o} \cup U THEN "white" ELSE marked[x]]
  /\ tosweep' = tosweep \ {o}
  /\ IF tosweep \ {o} = {} /\ Sparse THEN lj_str_resize(strmask \div 2)
     ELSE UNCHANGED strmask
  /\ GcStep(IF tosweep \ {o} # {} THEN "sweep"
            ELSE AfterSweep)
  /\ UNCHANGED <<aphase, sweepstr, mmudata, lists, gcroot, cur>>

\* (mutant) the finalized userdata keeps its color
FinalizeColorKept == "black"

\* makewhite of gc_finalize
FinalizeColor == "white"

\* gc_finalize: the userdata returns to the userdata list, white, and its
\* finalizer is called with it.
Finalize(d) ==
  /\ gcstate = "finalize" /\ d \in mmudata /\ jit # "on"
  /\ GcStep("finalize")
  /\ mmudata' = mmudata \ {d}
  /\ marked' = [marked EXCEPT ![d] = FinalizeColor]
  /\ IF udmt[d] \in FinMeta /\ top[cur] < NSlot
       THEN Push(cur, d) ELSE UNCHANGED <<stack, top>>
  /\ UNCHANGED <<aphase, tosweep, sweepstr, strmask, finalized,
                 lists, heap, tabvars, fuv, uvvars, udmt, gcroot, cur>>

FinalizeEnd ==
  /\ gcstate = "finalize" /\ mmudata = {}
  /\ GcStep("pause")
  /\ UNCHANGED <<gcdata, marked, lists, heap, stack, top, tabvars, fuv, uvvars, udmt,
                 gcroot, cur>>

\* lj_gc_fullgc abandons a cycle in its mark phase: sweep without a flip.
FullGc ==
  /\ MutatorRuns /\ jit = "off"
  /\ full' = "sweep"
  /\ IF gcstate \in {"pause", "propagate", "atomic"}
       THEN /\ tosweep' = RootList
            /\ gray' = {} /\ grayagain' = {} /\ weak' = {}
            /\ gcstate' = "sweepstring" /\ sweepstr' = 0
       ELSE UNCHANGED <<tosweep, lists, gcstate, sweepstr>>
  /\ UNCHANGED <<aphase, strmask, mmudata, finalized, marked, heap, stack,
                 top, tabvars, fuv, uvvars, udmt, gcroot, cur, jit>>

\* The sweep is over: lj_gc_fullgc starts a whole cycle, although finalizers
\* may be pending.
FullGcRestart ==
  /\ full = "sweep" /\ gcstate \in {"pause", "finalize"}
  /\ full' = "cycle" /\ gcstate' = "pause"
  /\ UNCHANGED <<gcdata, marked, lists, heap, stack, top, tabvars, fuv, uvvars, udmt,
                 gcroot, cur, jit>>

\* An error in a __gc metamethod leaves lj_gc_fullgc, in the middle of its
\* cycle, for the pcall of the program.
FinalizerError ==
  /\ full = "cycle" /\ gcstate = "finalize"
  /\ full' = "no"
  /\ UNCHANGED <<gcvars, marked, lists, heap, stack, top, tabvars, fuv, uvvars, udmt,
                 gcroot, cur, jit>>

\* gc_onestep but for the finalizers it calls.
GcWork ==
  \/ MarkStart
  \/ \E o \in gray : Propagate(o)
  \/ PropagateEnd
  \/ AtomicUv \/ AtomicWeak \/ AtomicAgain \/ AtomicUdata \/ AtomicFlip
  \/ SweepString
  \/ \E o \in tosweep : Sweep(o)
  \/ FinalizeEnd

Collector == GcWork \/ \E d \in mmudata : Finalize(d)

Init ==
  /\ gcstate = "pause" /\ aphase = "none"
  /\ marked = [o \in Obj |-> "white"]
  /\ gray = {} /\ grayagain = {} /\ weak = {}
  /\ tosweep = {} /\ sweepstr = 0 /\ strmask = LJ_MIN_STRTAB - 1
  /\ mmudata = {} /\ finalized = {}
  /\ heap = {Main, Registry} \cup FixedStr
  /\ stack = [t \in Thread |-> NilStack] /\ top = [t \in Thread |-> 0]
  /\ tkey = [t \in Tab |-> [n \in Node |-> Nil]]
  /\ tval = [t \in Tab |-> [n \in Node |-> Nil]]
  /\ tmeta = [t \in Tab |-> Nil]
  /\ fuv = [f \in Func |-> Nil]
  /\ uvclosed = [u \in Upval |-> TRUE] /\ uvtv = [u \in Upval |-> Nil]
  /\ uvth = [u \in Upval |-> Main] /\ uvslot = [u \in Upval |-> 1]
  /\ udmt = [d \in Udata |-> Nil]
  /\ gcroot = Nil /\ cur = Main /\ jit = "off" /\ full = "no"

Next == Mutator \/ TraceExit \/ FullGc \/ FullGcRestart \/ FinalizerError \/ Collector

Spec == Init /\ [][Next]_vars

----------------------------------------------------------------------------
(* Properties.                                                             *)

GcStates == {"pause", "propagate", "atomic", "sweepstring", "sweep", "finalize"}
Phases == {"none", "uv", "weak", "again", "udata"}

\* Every variable has its type, and the sweep of the string table stays inside
\* of it.
TypeOK ==
  /\ gcstate \in GcStates /\ aphase \in Phases
  /\ marked \in [Obj -> White \cup {"gray", "black"}]
  /\ gray \subseteq Obj /\ grayagain \subseteq Obj /\ weak \subseteq Obj
  /\ tosweep \subseteq Obj /\ sweepstr \in Nat /\ strmask \in Nat
  /\ gcstate = "sweepstring" => sweepstr <= strmask
  /\ mmudata \subseteq Udata /\ finalized \subseteq Udata
  /\ heap \subseteq Obj
  /\ stack \in [Thread -> [Slot -> Value]] /\ top \in [Thread -> 0 .. NSlot]
  /\ tkey \in [Tab -> [Node -> Value]] /\ tval \in [Tab -> [Node -> Value]]
  /\ tmeta \in [Tab -> Tab \cup {Nil}]
  /\ fuv \in [Func -> Upval \cup {Nil}]
  /\ uvclosed \in [Upval -> BOOLEAN] /\ uvtv \in [Upval -> Value]
  /\ uvth \in [Upval -> Thread] /\ uvslot \in [Upval -> Slot]
  /\ udmt \in [Udata -> Tab \cup {Nil}]
  /\ gcroot \in Tab \cup {Nil}
  /\ cur \in Thread /\ jit \in {"off", "on", "exit"}
  /\ full \in {"no", "sweep", "cycle"}

Live(o) == o \in heap /\ ~isdead(o)

\* No use after free: whatever a live object refers to (strongly, weakly, or
\* from a stale stack slot a later frame may cover again) is allocated and
\* will not be freed by the sweep in progress; so are the roots and the
\* userdata that wait for their finalizer.
NoDangling ==
  /\ \A o \in heap : Live(o) => \A r \in Refs(o) : Live(r)
  /\ Live(Main) /\ Live(Registry) /\ Live(cur)
  /\ gcroot # Nil => Live(gcroot)
  /\ \A d \in mmudata : Live(d)

\* An open upvalue never outlives the thread whose stack it points into: when
\* the thread is swept, lj_state_free closes or frees every one of them.
OpenUvHasThread == \A u \in OpenUv : uvth[u] \in heap

\* Where the marking still has to visit an object, by the progress of atomic().
Pending ==
  UNION {gray,
         IF aphase \in {"none", "uv", "weak"} THEN grayagain ELSE {},
         IF aphase \in {"none", "uv"} THEN weak ELSE {},
         IF aphase = "none" THEN OpenUv ELSE {},
         IF aphase # "udata" THEN mmudata ELSE {}}

\* The tri-color invariant of the mark phase: a marked object that will not be
\* visited again refers to no white object.
TriColor ==
  Marking => \A o \in heap : ~iswhite(o) =>
    o \in Pending \/ \A r \in Strong(o) : ~iswhite(r)

\* The lists gray, grayagain and weak share the gclist link of their members:
\* during the mark phase an object is in one of them only, and gray.
ListsSound ==
  Marking => /\ gray \cap grayagain = {} /\ gray \cap weak = {}
             /\ grayagain \cap weak = {}
             /\ \A o \in gray \cup grayagain \cup weak : o \in heap /\ isgray(o)

\* The sweep leaves nothing behind: when a cycle is over every object has the
\* current white, so the next cycle sees it as unmarked; the userdata kept for
\* a finalizer is the one exception.  No phase but the sweep meets dead objects.
SweepComplete ==
  /\ gcstate \in {"pause", "finalize"} =>
       \A o \in heap \ mmudata : marked[o] = "white"
  /\ gcstate \notin {"sweepstring", "sweep"} => \A o \in heap : ~isdead(o)

=============================================================================

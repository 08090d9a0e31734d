----------------------------- MODULE LjGcProofs -----------------------------
(***************************************************************************)
(* Theorems about LjGc, for every heap.                                    *)
(***************************************************************************)
EXTENDS LjGc, TLAPS

Color == {"white", "other", "gray", "black"}

\* An update of a color keeps the type, wherever it is made.
LEMMA RecolorType ==
  ASSUME TypeOK, NEW o, NEW c \in Color
  PROVE  [marked EXCEPT ![o] = c] \in [Obj -> Color]
  <1>1. marked \in [Obj -> Color]
    BY DEF TypeOK, White, Color
  <1>2. CASE o \in Obj
    BY <1>1, <1>2
  <1>3. CASE o \notin Obj
    <2>1. [marked EXCEPT ![o] = c] = marked
      BY <1>1, <1>3
    <2> QED BY <1>1, <2>1
  <1> QED BY <1>2, <1>3

\* Marking yields colors and lists of the right type.
LEMMA MarkType ==
  ASSUME TypeOK, NEW S
  PROVE  /\ MarkedBy(S) \in [Obj -> Color]
         /\ GrayBy(S) \subseteq Obj
         /\ MarkW(S) \subseteq Obj
  <1>1. MarkW(S) \subseteq Obj
    BY DEF MarkW, Obj
  <1>2. \A o \in Obj : MarkColor(o) \in Color
    BY DEF MarkColor, Color
  <1>3. marked \in [Obj -> Color]
    BY DEF TypeOK, White, Color
  <1> QED BY <1>1, <1>2, <1>3 DEF MarkedBy, GrayBy

\* The barriers keep the types of what they change.
LEMMA BarrierType ==
  ASSUME TypeOK, NEW o, NEW v
  PROVE  /\ barrierback(o) => /\ marked' \in [Obj -> Color] 
                              /\ gray' \subseteq Obj /\ grayagain' \subseteq Obj
                              /\ weak' \subseteq Obj
         /\ barrierf(o, v) => /\ marked' \in [Obj -> Color] 
                              /\ gray' \subseteq Obj /\ grayagain' \subseteq Obj
                              /\ weak' \subseteq Obj
         /\ nobarrier => /\ marked' \in [Obj -> Color] 
                         /\ gray' \subseteq Obj /\ grayagain' \subseteq Obj
                         /\ weak' \subseteq Obj
  <1>1. marked \in [Obj -> Color] /\ gray \subseteq Obj /\ grayagain \subseteq Obj
        /\ weak \subseteq Obj
    BY DEF TypeOK, White, Color
  <1>0. /\ [marked EXCEPT ![o] = "gray"] \in [Obj -> Color]
        /\ [marked EXCEPT ![o] = "white"] \in [Obj -> Color]
    BY RecolorType DEF Color
  <1>2. MarkedBy({v}) \in [Obj -> Color] /\ GrayBy({v}) \subseteq Obj
    BY MarkType
  <1>3. barrierback(o) => /\ marked' \in [Obj -> Color] 
                          /\ gray' \subseteq Obj /\ grayagain' \subseteq Obj
                          /\ weak' \subseteq Obj
    BY <1>1, <1>0 DEF barrierback
  <1>4. barrierf(o, v) => /\ marked' \in [Obj -> Color] 
                          /\ gray' \subseteq Obj /\ grayagain' \subseteq Obj
                          /\ weak' \subseteq Obj
    BY <1>1, <1>2, <1>0 DEF barrierf
  <1>5. nobarrier => /\ marked' \in [Obj -> Color] 
                     /\ gray' \subseteq Obj /\ grayagain' \subseteq Obj
                     /\ weak' \subseteq Obj
    BY <1>1 DEF nobarrier, lists
  <1> QED BY <1>3, <1>4, <1>5

\* Pushing a value keeps the stacks well typed.
LEMMA PushType ==
  ASSUME TypeOK, NEW th \in Thread, NEW v \in Value, Push(th, v)
  PROVE  stack' \in [Thread -> [Slot -> Value]] /\ top' \in [Thread -> 0 .. NSlot]
  <1>1. stack \in [Thread -> [Slot -> Value]] /\ top \in [Thread -> 0 .. NSlot]
    BY DEF TypeOK
  <1>2. top[th] < NSlot /\ top[th] \in 0 .. NSlot /\ NSlot \in Nat
    BY <1>1, ConstAssumption DEF Push
  <1>3. top[th] + 1 \in 0 .. NSlot
    BY <1>2
  <1> QED BY <1>1, <1>3 DEF Push

\* Every step of the mutator keeps the types.
LEMMA MutatorType == TypeOK /\ Mutator => TypeOK'
  <1> SUFFICES ASSUME TypeOK, Mutator PROVE TypeOK'
    OBVIOUS
  <1> USE ConstAssumption
  <1>0. cur \in Thread
    BY DEF TypeOK
  <1>1. ASSUME NEW o \in Tab \cup Udata \cup Thread, NewObject(o) PROVE TypeOK'
    <2>1. Push(cur, o) /\ o \in Value /\ o \in Obj
      BY <1>1 DEF NewObject, Value, Obj
    <2>2. stack' \in [Thread -> [Slot -> Value]] /\ top' \in [Thread -> 0 .. NSlot]
      BY <2>1, <1>0, PushType
    <2> QED BY <1>1, <2>1, <2>2 DEF NewObject, TypeOK, White, Obj,
              gcvars, gcdata, lists, tabvars, uvvars, execvars
  <1>2. ASSUME NEW s \in Str, InternStr(s) PROVE TypeOK'
    <2>1. Push(cur, s) /\ s \in Value /\ s \in Obj
      BY <1>2 DEF InternStr, Value, Obj
    <2>2. stack' \in [Thread -> [Slot -> Value]] /\ top' \in [Thread -> 0 .. NSlot]
      BY <2>1, <1>0, PushType
    <2>3. strmask' \in Nat /\ strmask' >= strmask
      BY <1>2 DEF InternStr, lj_str_resize, TypeOK
    <2>4. gcstate' = "sweepstring" => sweepstr' <= strmask'
      BY <1>2, <2>3 DEF InternStr, TypeOK
    <2> QED BY <1>2, <2>1, <2>2, <2>3, <2>4 DEF InternStr, TypeOK, White, Obj,
              lists, tabvars, uvvars, execvars
  <1>3. ASSUME NEW t \in Tab, NEW n \in Node, NEW k \in Value, NEW v \in Value,
           TabSet(t, n, k, v) PROVE TypeOK'
    <2>1. /\ marked' \in [Obj -> Color]
          /\ gray' \subseteq Obj /\ grayagain' \subseteq Obj /\ weak' \subseteq Obj
      BY <1>3, BarrierType DEF TabSet, anybarriert, Obj
    <2> QED BY <1>3, <2>1 DEF TabSet, StoreNode, Value, TypeOK, Color, White,
              gcvars, gcdata, lists, tabvars, uvvars, execvars
  <1>4. ASSUME NEW t \in Tab, NEW n \in Node, NEW v \in Value, RawSetI(t, n, v) PROVE TypeOK'
    <2>1. /\ marked' \in [Obj -> Color]
          /\ gray' \subseteq Obj /\ grayagain' \subseteq Obj /\ weak' \subseteq Obj
      BY <1>4, BarrierType DEF RawSetI, barriert, Obj
    <2> QED BY <1>4, <2>1 DEF RawSetI, StoreNode, Value, TypeOK, Color, White,
              gcvars, gcdata, lists, tabvars, uvvars, execvars
  <1>5. ASSUME NEW v \in Value, Load(v) PROVE TypeOK'
    <2>1. Push(cur, v) /\ v \in Value 
      BY <1>5 DEF Load, Value, Obj
    <2>2. stack' \in [Thread -> [Slot -> Value]] /\ top' \in [Thread -> 0 .. NSlot]
      BY <2>1, <1>0, PushType
    <2> QED BY <1>5, <2>1, <2>2 DEF Load, TypeOK, White, Obj,
              gcvars, gcdata, lists, tabvars, uvvars, execvars
  <1>6. ASSUME NEW t \in Tab, NEW m \in Tab \cup {Nil}, SetMetatable(t, m) PROVE TypeOK'
    <2>1. /\ marked' \in [Obj -> Color]
          /\ gray' \subseteq Obj /\ grayagain' \subseteq Obj /\ weak' \subseteq Obj
      BY <1>6, BarrierType DEF SetMetatable, barriert, Obj
    <2> QED BY <1>6, <2>1 DEF SetMetatable, TypeOK, Color, White,
              gcvars, gcdata, lists, tabvars, uvvars, execvars
  <1>7. ASSUME NEW d \in Udata, NEW m \in Tab \cup {Nil}, UdSetMetatable(d, m) PROVE TypeOK'
    <2>1. /\ marked' \in [Obj -> Color]
          /\ gray' \subseteq Obj /\ grayagain' \subseteq Obj /\ weak' \subseteq Obj
      BY <1>7, BarrierType DEF UdSetMetatable, objbarrier, Obj
    <2> QED BY <1>7, <2>1 DEF UdSetMetatable, TypeOK, Color, White,
              gcvars, gcdata, lists, tabvars, uvvars, execvars
  <1>8. ASSUME NEW v \in Tab \cup {Nil}, SetRoot(v) PROVE TypeOK'
    BY <1>8 DEF SetRoot, TypeOK, gcvars, gcdata, lists, tabvars, uvvars, execvars
  <1>9. ASSUME NEW f \in Func, NEW i \in Slot, NEW u \in Upval, NewClosureLocal(f, i, u) PROVE TypeOK'
    <2>1. Push(cur, f) /\ f \in Value /\ f \in Obj /\ u \in Obj
      BY <1>9 DEF NewClosureLocal, Value, Obj
    <2>2. stack' \in [Thread -> [Slot -> Value]] /\ top' \in [Thread -> 0 .. NSlot]
      BY <2>1, <1>0, PushType
    <2> QED BY <1>9, <2>1, <2>2 DEF NewClosureLocal, TypeOK, White, Obj,
              gcvars, gcdata, lists, tabvars, uvvars, execvars
  <1>10. ASSUME NEW f \in Func, NEW p \in Func, NewClosureInherit(f, p) PROVE TypeOK'
    <2>1. Push(cur, f) /\ f \in Value /\ f \in Obj
      BY <1>10 DEF NewClosureInherit, Value, Obj
    <2>2. stack' \in [Thread -> [Slot -> Value]] /\ top' \in [Thread -> 0 .. NSlot]
      BY <2>1, <1>0, PushType
    <2> QED BY <1>10, <2>1, <2>2 DEF NewClosureInherit, TypeOK, White, Obj,
              gcvars, gcdata, lists, tabvars, uvvars, execvars
  <1>11. ASSUME NEW f \in Func, NEW u \in Upval, NewClosureEmpty(f, u) PROVE TypeOK'
    <2>1. Push(cur, f) /\ f \in Value /\ f \in Obj /\ u \in Obj
      BY <1>11 DEF NewClosureEmpty, Value, Obj
    <2>2. stack' \in [Thread -> [Slot -> Value]] /\ top' \in [Thread -> 0 .. NSlot]
      BY <2>1, <1>0, PushType
    <2> QED BY <1>11, <2>1, <2>2 DEF NewClosureEmpty, TypeOK, White, Obj,
              gcvars, gcdata, lists, tabvars, uvvars, execvars
  <1>12. ASSUME NEW f \in Func, NEW v \in Value, UvSet(f, v) PROVE TypeOK'
    <2>1. /\ marked' \in [Obj -> Color]
          /\ gray' \subseteq Obj /\ grayagain' \subseteq Obj /\ weak' \subseteq Obj
      BY <1>12, BarrierType DEF UvSet, objbarrier
    <2>2. stack \in [Thread -> [Slot -> Value]] /\ uvtv \in [Upval -> Value]
      BY DEF TypeOK
    <2>3. ASSUME NEW th, NEW i
          PROVE [stack EXCEPT ![th][i] = v] \in [Thread -> [Slot -> Value]]
      <3>1. CASE th \in Thread /\ i \in Slot
        BY <2>2, <3>1
      <3>2. CASE th \in Thread /\ i \notin Slot
        <4>1. [stack[th] EXCEPT ![i] = v] = stack[th]
          BY <2>2, <3>2
        <4> QED BY <2>2, <3>2, <4>1
      <3>3. CASE th \notin Thread
        <4>1. [stack EXCEPT ![th][i] = v] = stack
          BY <2>2, <3>3
        <4> QED BY <2>2, <4>1
      <3> QED BY <3>1, <3>2, <3>3
    <2>4. stack' \in [Thread -> [Slot -> Value]] /\ uvtv' \in [Upval -> Value]
      <3>1. CASE uvclosed[fuv[f]]
        <4>1. uvtv' = [uvtv EXCEPT ![fuv[f]] = v] /\ stack' = stack
          BY <1>12, <3>1 DEF UvSet
        <4> QED BY <2>2, <4>1
      <3>2. CASE ~uvclosed[fuv[f]]
        <4>1. /\ stack' = [stack EXCEPT ![uvth[fuv[f]]][uvslot[fuv[f]]] = v]
              /\ uvtv' = uvtv
          BY <1>12, <3>2 DEF UvSet
        <4> QED BY <2>2, <2>3, <4>1
      <3> QED BY <3>1, <3>2
    <2> QED BY <1>12, <2>1, <2>4 DEF UvSet, TypeOK, Color, White,
              gcvars, gcdata, lists, tabvars, uvvars, execvars
  <1>13. ASSUME NEW f \in Func, NEW p \in Func, UpvalueJoin(f, p) PROVE TypeOK'
    <2>1. /\ marked' \in [Obj -> Color]
          /\ gray' \subseteq Obj /\ grayagain' \subseteq Obj /\ weak' \subseteq Obj
      BY <1>13, BarrierType DEF UpvalueJoin, objbarrier, Obj
    <2> QED BY <1>13, <2>1 DEF UpvalueJoin, TypeOK, Color, White,
              gcvars, gcdata, lists, tabvars, uvvars, execvars
  <1>14. ASSUME LeaveScope PROVE TypeOK'
    <2> DEFINE U == SlotUv(cur, top[cur])
               D == {u \in U : isdead(u)}
               G == {u \in U : isgray(u)}
    <2>1. /\ top' = [top EXCEPT ![cur] = @ - 1] /\ top[cur] > 0
          /\ heap' = heap \ D
          /\ marked' = [o \in Obj |->
               CASE o \in D -> "white"
                 [] o \in G -> IF Marking THEN "black" ELSE "white"
                 [] o \in CloseMarks(G) -> MarkColor(o)
                 [] OTHER -> marked[o]]
          /\ gray' = gray \cup (CloseMarks(G) \cap (Thread \cup Tab \cup Func))
          /\ uvclosed' = [u \in Upval |-> u \in U \/ uvclosed[u]]
          /\ uvtv' = [u \in Upval |-> IF u \in U \ D THEN uvval(u) ELSE uvtv[u]]
          /\ uvth' = [u \in Upval |-> IF u \in U THEN Main ELSE uvth[u]]
          /\ uvslot' = [u \in Upval |-> IF u \in U THEN 1 ELSE uvslot[u]]
          /\ UNCHANGED <<gcvars, grayagain, weak, stack, tabvars, fuv, udmt, gcroot,
                         execvars>>
      BY <1>14 DEF LeaveScope
    <2>2. \A o \in Obj : MarkColor(o) \in Color
      BY DEF MarkColor, Color
    <2>3. marked' \in [Obj -> Color]
      BY <2>1, <2>2 DEF TypeOK, Color, White
    <2>4. gray' \subseteq Obj
      BY <2>1 DEF TypeOK, Obj
    <2>5. \A u \in U : uvval(u) \in Value
      BY DEF SlotUv, OpenUv, uvval, TypeOK
    <2>6. /\ uvtv' \in [Upval -> Value] /\ uvclosed' \in [Upval -> BOOLEAN]
          /\ uvth' \in [Upval -> Thread] /\ uvslot' \in [Upval -> Slot]
      BY <2>1, <2>5 DEF TypeOK, Slot
    <2>7. top' \in [Thread -> 0 .. NSlot]
      BY <2>1, <1>0 DEF TypeOK
    <2> QED BY <2>1, <2>3, <2>4, <2>6, <2>7 DEF TypeOK, Color, White,
              gcvars, gcdata, lists, tabvars, uvvars, execvars
  <1>15. ASSUME EnterScope PROVE TypeOK'
    BY <1>15 DEF EnterScope, TypeOK, gcvars, gcdata, lists, tabvars, uvvars, execvars
  <1>16. ASSUME NEW th \in Thread, XMove(th) PROVE TypeOK'
    <2>1. /\ stack \in [Thread -> [Slot -> Value]] /\ top \in [Thread -> 0 .. NSlot]
          /\ top[cur] > 0 /\ top[th] < NSlot /\ th # cur
      BY <1>16 DEF TypeOK, XMove
    <2>2. top[cur] \in Slot /\ top[th] + 1 \in Slot
      BY <2>1, <1>0 DEF Slot
    <2>3. top' \in [Thread -> 0 .. NSlot] /\ stack' \in [Thread -> [Slot -> Value]]
      BY <1>16, <1>0, <2>1, <2>2 DEF XMove
    <2> QED BY <1>16, <2>3 DEF XMove, TypeOK, gcvars, gcdata, lists, tabvars,
              uvvars, execvars
  <1>17. ASSUME NEW th \in Thread, Switch(th) PROVE TypeOK'
    BY <1>17 DEF Switch, TypeOK, gcvars, gcdata, lists, tabvars, uvvars, execvars
  <1>18. ASSUME EnterTrace PROVE TypeOK'
    BY <1>18 DEF EnterTrace, TypeOK, gcvars, gcdata, lists, tabvars, uvvars, execvars
  <1> QED BY <1>1, <1>2, <1>3, <1>4, <1>5, <1>6, <1>7, <1>8, <1>9, <1>10, <1>11, <1>12, <1>13, <1>14, <1>15, <1>16, <1>17, <1>18 DEF Mutator

\* Every step of the collector keeps the types.
LEMMA CollectorType == TypeOK /\ Collector => TypeOK'
  <1> SUFFICES ASSUME TypeOK, Collector PROVE TypeOK'
    OBVIOUS
  <1> USE ConstAssumption
  <1>1. ASSUME MarkStart PROVE TypeOK'
    <2>1. /\ MarkedBy({Main, Registry, gcroot}) \in [Obj -> Color] /\ GrayBy({Main, Registry, gcroot}) \subseteq Obj
      BY MarkType
    <2> QED BY <1>1, <2>1 DEF MarkStart, GcStep, TypeOK, Color, White, GcStates, Phases,
              gcvars, gcdata, lists, tabvars, uvvars, execvars
  <1>2. ASSUME NEW o \in gray, Propagate(o) PROVE TypeOK'
    <2>1. MarkedBy(Strong(o)) \in [Obj -> Color] /\ GrayBy(Strong(o)) \subseteq Obj
      BY MarkType
    <2>2. \A x \in Obj : MarkColor(x) \in Color
      BY DEF MarkColor, Color
    <2>3. marked' \in [Obj -> Color]
      BY <1>2, <2>2 DEF Propagate, TypeOK, Color, White
    <2>4. stack' \in [Thread -> [Slot -> Value]]
      BY <1>2 DEF Propagate, TypeOK, Value
    <2>5. gray' \subseteq Obj /\ grayagain' \subseteq Obj /\ weak' \subseteq Obj
      BY <1>2, <2>1 DEF Propagate, TypeOK
    <2> QED BY <1>2, <2>3, <2>4, <2>5 DEF Propagate, GcStep, TypeOK, Color, White,
              gcvars, gcdata, lists, tabvars, uvvars, execvars
  <1>3. ASSUME PropagateEnd PROVE TypeOK'
    BY <1>3 DEF PropagateEnd, GcStep, TypeOK, GcStates, Phases,
         gcvars, gcdata, lists, tabvars, uvvars, execvars
  <1>4. ASSUME AtomicUv PROVE TypeOK'
    <2>1. /\ MarkedBy(RemarkUv) \in [Obj -> Color] /\ GrayBy(RemarkUv) \subseteq Obj
      BY MarkType
    <2> QED BY <1>4, <2>1 DEF AtomicUv, AtomicStep, GcStep, TypeOK, Color, White, GcStates, Phases,
              gcvars, gcdata, lists, tabvars, uvvars, execvars
  <1>5. ASSUME AtomicWeak PROVE TypeOK'
    <2>1. /\ MarkedBy(AtomicRoots) \in [Obj -> Color] /\ GrayBy(AtomicRoots) \subseteq Obj
      BY MarkType
    <2> QED BY <1>5, <2>1 DEF AtomicWeak, AtomicStep, GcStep, TypeOK, Color, White, GcStates, Phases,
              gcvars, gcdata, lists, tabvars, uvvars, execvars
  <1>6. ASSUME AtomicAgain PROVE TypeOK'
    BY <1>6 DEF AtomicAgain, AtomicStep, GcStep, TypeOK, GcStates, Phases,
         gcvars, gcdata, lists, tabvars, uvvars, execvars
  <1>7. ASSUME AtomicUdata PROVE TypeOK'
    <2> DEFINE sep == {d \in (Udata \cap heap) \ (mmudata \cup finalized) : iswhite(d)}
               mm == mmudata \cup {d \in sep : udmt[d] \in FinMeta}
    <2>1. /\ finalized' = finalized \cup sep /\ mmudata' = mm
          /\ marked' = [o \in Obj |-> CASE o \in mm -> "black"
                                        [] o \in MmudataMarks(mm) -> MarkColor(o)
                                        [] OTHER -> marked[o]]
          /\ gray' = MmudataMarks(mm) \cap Tab
      BY <1>7 DEF AtomicUdata
    <2>2. \A x \in Obj : MarkColor(x) \in Color
      BY DEF MarkColor, Color
    <2>3. marked' \in [Obj -> Color]
      BY <2>1, <2>2 DEF TypeOK, Color, White
    <2>4. mmudata' \subseteq Udata /\ finalized' \subseteq Udata /\ gray' \subseteq Obj
      BY <2>1 DEF TypeOK, Obj
    <2> QED BY <1>7, <2>3, <2>4 DEF AtomicUdata, AtomicStep, GcStep, TypeOK, Color,
              White, GcStates, Phases, gcvars, gcdata, lists, tabvars, uvvars, execvars
  <1>8. ASSUME AtomicFlip PROVE TypeOK'
    <2>1. marked' \in [Obj -> Color]
      <3>1. \A o \in Obj : flipwhite(o) \in Color
        BY DEF flipwhite, TypeOK, White, Color
      <3> QED BY <1>8, <3>1 DEF AtomicFlip, Color
    <2>2. tval' \in [Tab -> [Node -> Value]] /\ tkey' \in [Tab -> [Node -> Value]]
      BY <1>8 DEF AtomicFlip, TypeOK, Value
    <2>3. tosweep' \subseteq Obj /\ sweepstr' = 0
      BY <1>8 DEF AtomicFlip, TypeOK, RootList
    <2> QED BY <1>8, <2>1, <2>2, <2>3 DEF AtomicFlip, AtomicStep, GcStep, TypeOK,
              Color, White, GcStates, Phases, gcvars, gcdata, lists, tabvars, uvvars,
              execvars
  <1>9. ASSUME SweepString PROVE TypeOK'
    <2>1. marked' \in [Obj -> Color] /\ heap' \subseteq Obj
      BY <1>9 DEF SweepString, TypeOK, Color, White
    <2> QED BY <1>9, <2>1 DEF SweepString, StringsSwept, GcStep, TypeOK, Color, White,
              GcStates, gcvars, gcdata, lists, tabvars, uvvars, execvars
  <1>10. ASSUME NEW o \in tosweep, Sweep(o) PROVE TypeOK'
    <2> DEFINE dies == isdead(o) /\ o # Main
               U == {u \in OpenUv : uvth[u] = o}
               F == {u \in U : isdead(u)} \cup (IF dies THEN {o} ELSE {})
               C == IF dies THEN U \ F ELSE {}
    <2>1. /\ Free(F) /\ CloseOrFreeUv(C, F)
          /\ marked' = [x \in Obj |-> IF x \in {o} \cup U THEN "white" ELSE marked[x]]
          /\ tosweep' = tosweep \ {o}
          /\ IF tosweep \ {o} = {} /\ Sparse THEN lj_str_resize(strmask \div 2)
             ELSE UNCHANGED strmask
          /\ GcStep(IF tosweep \ {o} # {} THEN "sweep" ELSE AfterSweep)
          /\ UNCHANGED <<aphase, sweepstr, mmudata, lists, gcroot, cur>>
      BY <1>10 DEF Sweep
    <2>2. marked' \in [Obj -> Color] /\ tosweep' \subseteq Obj
      BY <2>1 DEF TypeOK, Color, White
    <2>3. /\ heap' \subseteq Obj /\ finalized' \subseteq Udata
          /\ top' \in [Thread -> 0 .. NSlot]
          /\ tmeta' \in [Tab -> Tab \cup {Nil}] /\ fuv' \in [Func -> Upval \cup {Nil}]
          /\ udmt' \in [Udata -> Tab \cup {Nil}]
      BY <2>1 DEF Free, TypeOK
    <2>4. /\ stack' \in [Thread -> [Slot -> Value]]
          /\ tkey' \in [Tab -> [Node -> Value]] /\ tval' \in [Tab -> [Node -> Value]]
      BY <2>1 DEF Free, NilStack, TypeOK, Value
    <2>5. \A u \in C : uvval(u) \in Value
      BY DEF OpenUv, uvval, TypeOK
    <2>6. /\ uvclosed' \in [Upval -> BOOLEAN] /\ uvtv' \in [Upval -> Value]
          /\ uvth' \in [Upval -> Thread] /\ uvslot' \in [Upval -> Slot]
      <3> HIDE DEF C, F
      <3> QED BY <2>1, <2>5 DEF CloseOrFreeUv, TypeOK, Value, Slot
    <2>8. strmask' \in Nat
      BY <2>1 DEF lj_str_resize, TypeOK
    <2>7. gcstate' \in {"sweep", "finalize", "pause"} /\ full' \in {"no", "sweep", "cycle"}
          /\ jit' \in {"off", "on", "exit"}
      BY <2>1 DEF GcStep, AfterSweep, TypeOK
    <2> QED BY <2>1, <2>2, <2>3, <2>4, <2>6, <2>7, <2>8 DEF TypeOK, Color, White, GcStates,
              lists
  <1>11. ASSUME FinalizeEnd PROVE TypeOK'
    BY <1>11 DEF FinalizeEnd, GcStep, TypeOK, GcStates, Phases,
         gcvars, gcdata, lists, tabvars, uvvars, execvars
  <1>12. ASSUME NEW d \in mmudata, Finalize(d) PROVE TypeOK'
    <2>1. stack' \in [Thread -> [Slot -> Value]] /\ top' \in [Thread -> 0 .. NSlot]
      <3>1. d \in Value /\ cur \in Thread
        BY DEF TypeOK, Value
      <3> QED BY <1>12, <3>1, PushType DEF Finalize, TypeOK
    <2>2. marked' \in [Obj -> Color]
      BY <1>12, RecolorType DEF Finalize, FinalizeColor, Color
    <2>3. mmudata' \subseteq Udata
      BY <1>12 DEF Finalize, TypeOK
    <2> QED BY <1>12, <2>1, <2>2, <2>3 DEF Finalize, GcStep, TypeOK, Color, White,
              GcStates, gcvars, gcdata, lists, tabvars, uvvars, execvars
  <1> QED BY <1>1, <1>2, <1>3, <1>4, <1>5, <1>6, <1>7, <1>8, <1>9, <1>10, <1>11, <1>12 DEF Collector, GcWork

\* Every step keeps the types.
LEMMA NextType == TypeOK /\ [Next]_vars => TypeOK'
  <1> SUFFICES ASSUME TypeOK, [Next]_vars PROVE TypeOK'
    OBVIOUS
  <1>1. CASE Mutator
    BY <1>1, MutatorType
  <1>2. CASE Collector
    BY <1>2, CollectorType
  <1>3. CASE TraceExit
    BY <1>3 DEF TraceExit, TypeOK, gcvars, gcdata, lists, tabvars, uvvars
  <1>4. CASE FullGc
    BY <1>4, ConstAssumption DEF FullGc, RootList, TypeOK, GcStates, lists, tabvars,
       uvvars
  <1>5. CASE FullGcRestart
    BY <1>5 DEF FullGcRestart, TypeOK, GcStates, gcdata, lists, tabvars, uvvars
  <1>6. CASE FinalizerError
    BY <1>6 DEF FinalizerError, TypeOK, gcvars, gcdata, lists, tabvars, uvvars
  <1>7. CASE UNCHANGED vars
    BY <1>7 DEF vars, TypeOK, gcvars, gcdata, lists, tabvars, uvvars, execvars
  <1> QED BY <1>1, <1>2, <1>3, <1>4, <1>5, <1>6, <1>7 DEF Next

\* The types of the variables are an invariant, for every heap; the sweep of
\* the string table (gc_onestep, GCSsweepstring) never leaves the table.
THEOREM TypeCorrect == Spec => []TypeOK
  <1>1. Init => TypeOK
    BY ConstAssumption DEF Init, TypeOK, NilStack, Value, Slot, Obj, GcStates, Phases,
       White
  <1> QED BY <1>1, NextType, PTL DEF Spec
=============================================================================

----------------------------- MODULE LjGcSafety -----------------------------
(***************************************************************************)
(* The collector is safe, for every heap: what a live object refers to is  *)
(* never freed.  The inductive invariant says what the colors and the      *)
(* lists of lj_gc.c mean in every state of the collector, field by field.  *)
(***************************************************************************)
EXTENDS LjGcProofs

\* Objects that a gray list can hold.
Listed == Thread \cup Tab \cup Func

\* The value v may be kept: it is no object, or one the sweep will not free.
Alive(v) == v = Nil \/ Live(v)

\* The value v is no object, or one the marking has reached.
Dark(v) == v = Nil \/ ~iswhite(v)

\* A free address is white and has empty fields.
Empty ==
  /\ \A o \in Obj \ heap : marked[o] = "white"
  /\ \A t \in Thread \ heap : \A i \in Slot : stack[t][i] = Nil
  /\ \A t \in Tab \ heap :
       tmeta[t] = Nil /\ \A n \in Node : tkey[t][n] = Nil /\ tval[t][n] = Nil
  /\ \A f \in Func \ heap : fuv[f] = Nil
  /\ \A u \in Upval \ heap : uvclosed[u] /\ uvtv[u] = Nil
  /\ \A d \in Udata \ heap : udmt[d] = Nil

\* atomic() is a part of GCSatomic; an emptied node keeps no key; a closure has
\* its upvalue; an open upvalue has its thread.
Shape ==
  /\ aphase # "none" => gcstate = "atomic"
  /\ \A t \in Tab : \A n \in Node : tval[t][n] = Nil => tkey[t][n] = Nil
  /\ \A f \in Func \cap heap : fuv[f] \in Upval
  /\ \A u \in Upval : ~uvclosed[u] => uvth[u] \in heap /\ uvtv[u] = Nil

\* NoDangling, field by field.
RefsLive ==
  /\ \A t \in Thread : ~isdead(t) => \A i \in Slot : Alive(stack[t][i])
  /\ \A t \in Tab : ~isdead(t) =>
       Alive(tmeta[t]) /\ \A n \in Node : Alive(tkey[t][n]) /\ Alive(tval[t][n])
  /\ \A f \in Func : ~isdead(f) => Alive(fuv[f])
  /\ \A u \in Upval : ~isdead(u) => Alive(uvval(u))
  /\ \A d \in Udata : ~isdead(d) => Alive(udmt[d])

RootsLive ==
  /\ Live(Main) /\ Live(Registry) /\ Live(cur) /\ Alive(gcroot)
  /\ \A d \in mmudata : Live(d)

\* During the mark phase the gray objects are the ones in the lists; threads
\* and weak tables never turn black, closed upvalues and userdata never gray.
Colors ==
  /\ \A u \in Upval : IF uvclosed[u] THEN ~isgray(u) ELSE ~isblack(u)
  /\ \A d \in Udata : ~isgray(d)
  /\ Marking =>
       /\ gray \subseteq Listed /\ weak \subseteq Weak
       /\ grayagain \subseteq (Thread \cup Tab) \ Weak
       /\ \A o \in Listed : isgray(o) => o \in gray \cup grayagain \cup weak
       /\ \A o \in Thread \cup Weak : ~isblack(o)

\* The tri-color invariant by types: what a black object refers to is marked.
BlackDark ==
  Marking =>
    /\ \A t \in Tab : isblack(t) =>
         Dark(tmeta[t]) /\ \A n \in Node : Dark(tkey[t][n]) /\ Dark(tval[t][n])
    /\ \A f \in Func : isblack(f) => Dark(fuv[f])
    /\ \A u \in Upval : isblack(u) => Dark(uvtv[u])
    /\ \A d \in Udata \ mmudata : isblack(d) => Dark(udmt[d])
    /\ Dark(Main) /\ Dark(Registry)

\* What atomic() adds: after gc_mark_uv the values of open upvalues, after the
\* second traversal the weak tables, the running thread and the roots, after
\* the third the stacks, in the end the userdata with a finalizer.
AtomicDark ==
  /\ aphase # "none" =>
       \A u \in Upval : ~uvclosed[u] /\ isgray(u) => Dark(uvval(u))
  /\ aphase \in {"weak", "again", "udata"} =>
       /\ Dark(cur) /\ Dark(gcroot)
       /\ \A t \in Weak \ gray : isgray(t) =>
            /\ Dark(tmeta[t])
            /\ \A n \in Node : /\ t \in WeakKeyTab \/ Dark(tkey[t][n])
                               /\ t \in WeakValTab \/ Dark(tval[t][n])
  /\ aphase \in {"again", "udata"} =>
       /\ grayagain \subseteq Thread
       /\ \A t \in Thread \ gray : isgray(t) => \A i \in Slot : Dark(stack[t][i])
  /\ aphase = "udata" => \A d \in mmudata : Dark(d) /\ Dark(udmt[d])

\* What the sweep has not reached: the rest of the root list, the open upvalues
\* of its threads, and the chains of the string table from sweepstr on.
Unswept(o) ==
  \/ o \in tosweep
  \/ o \in Upval /\ ~uvclosed[o] /\ uvth[o] \in tosweep
  \/ gcstate = "sweepstring" /\ o \in Str /\ Hash[o] % (strmask + 1) >= sweepstr

\* Everything else has the current white.
SweepProgress ==
  gcstate \in {"sweepstring", "sweep"} =>
    \A o \in heap \ mmudata : marked[o] = "white" \/ Unswept(o)

\* The inductive invariant.
IInv ==
  /\ TypeOK /\ Empty /\ Shape /\ RefsLive /\ RootsLive /\ Colors /\ ListsSound
  /\ BlackDark /\ AtomicDark /\ SweepProgress /\ SweepComplete

\* A value is an object of a type but Upval, or Nil.
LEMMA Values ==
  /\ \A v \in Value : v = Nil \/ v \in Obj
  /\ \A v \in Value : v \notin Upval
  /\ Nil \notin Obj /\ Tab \subseteq Value /\ Tab \subseteq Obj
  /\ Thread \subseteq Obj /\ Func \subseteq Obj /\ Upval \subseteq Obj
  /\ Udata \subseteq Obj /\ Str \subseteq Obj
  <1>1. Nil \notin Obj
    BY ConstAssumption
  <1>2. \A v \in Value : v \notin Upval
    BY <1>1, TypesDisjoint DEF Value, Obj
  <1> QED BY <1>1, <1>2 DEF Value, Obj

\* What an upvalue points to is a value.
LEMMA UvalType ==
  TypeOK => \A u \in Upval : uvval(u) \in Value
  BY DEF TypeOK, uvval

\* A step that frees nothing and only turns whites into the current white, as
\* an allocation does.
Calm ==
  /\ heap \subseteq heap'
  /\ \A o \in Obj : marked'[o] = marked[o] \/ (iswhite(o) /\ marked'[o] = "white")

\* A calm step keeps all that the invariant says of colors.
LEMMA CalmFacts ==
  ASSUME TypeOK, Calm
  PROVE  /\ \A o \in Obj : /\ iswhite(o)' <=> iswhite(o)
                           /\ isblack(o)' <=> isblack(o)
                           /\ isgray(o)' <=> isgray(o)
                           /\ isdead(o)' => isdead(o)
                           /\ Live(o) => Live(o)'
         /\ \A v \in Obj \cup {Nil} : /\ Alive(v) => Alive(v)'
                                      /\ Dark(v) <=> Dark(v)'
  <1>1. \A o \in Obj : /\ iswhite(o)' <=> iswhite(o)
                       /\ isblack(o)' <=> isblack(o)
                       /\ isgray(o)' <=> isgray(o)
                       /\ isdead(o)' => isdead(o)
    BY DEF Calm, TypeOK, iswhite, isblack, isgray, isdead, White
  <1>2. \A o \in Obj : Live(o) => Live(o)'
    BY <1>1 DEF Calm, Live
  <1> QED BY <1>1, <1>2 DEF Alive, Dark

\* The types of the fields that the proofs need again and again.
LEMMA Types ==
  ASSUME TypeOK
  PROVE  /\ \A t \in Thread, i \in Slot : stack[t][i] \in Obj \cup {Nil}
         /\ \A t \in Tab : /\ tmeta[t] \in Obj \cup {Nil}
                           /\ \A n \in Node : /\ tkey[t][n] \in Obj \cup {Nil}
                                              /\ tval[t][n] \in Obj \cup {Nil}
         /\ \A f \in Func : fuv[f] \in Obj \cup {Nil}
         /\ \A u \in Upval : /\ uvtv[u] \in Obj \cup {Nil} /\ uvval(u) \in Obj \cup {Nil}
                             /\ uvth[u] \in Thread /\ uvslot[u] \in Slot
         /\ \A d \in Udata : udmt[d] \in Obj \cup {Nil}
         /\ gcroot \in Obj \cup {Nil} /\ cur \in Obj /\ Main \in Obj /\ Registry \in Obj
         /\ mmudata \subseteq Obj /\ heap \subseteq Obj
  <1>1. Value \subseteq Obj \cup {Nil}
    BY Values
  <1>2. \A u \in Upval : uvval(u) \in Obj \cup {Nil}
    BY <1>1, UvalType
  <1> QED BY <1>1, <1>2, Values, ConstAssumption DEF TypeOK

\* Allocation, interning, loads, stack operations: a calm step of the mutator
\* that stores only what is alive, and only in stacks, new closures and new
\* open upvalues.
LEMMA GrowStep ==
  ASSUME IInv, TypeOK', aphase = "none", Calm,
         UNCHANGED <<gcstate, aphase, tosweep, sweepstr, mmudata, gray, grayagain, weak,
                     tkey, tval, tmeta, udmt, uvtv>>,
         gcstate = "sweepstring" => strmask' = strmask,
         \A t \in Thread, i \in Slot :
           stack'[t][i] = stack[t][i] \/ (t \in heap /\ Alive(stack[t][i])'),
         \A f \in Func :
           \/ fuv'[f] = fuv[f] /\ (f \in heap' => f \in heap)
           \/ f \in heap' \ heap /\ fuv'[f] \in Upval /\ Live(fuv[f])',
         \A u \in Upval :
           \/ uvclosed'[u] = uvclosed[u] /\ uvth'[u] = uvth[u] /\ uvslot'[u] = uvslot[u]
           \/ /\ u \notin heap /\ u \in heap' /\ ~uvclosed'[u] /\ uvth'[u] \in heap
              /\ Alive(uvval(u))',
         \A o \in Obj : isdead(o) /\ ~isdead(o)' =>
           o \in Str \/ (o \in Upval /\ Alive(uvval(o))'),
         Live(cur)', Alive(gcroot)'
  PROVE  IInv'
  <1>0. TypeOK /\ heap \subseteq heap'
    BY DEF IInv, Calm
  <1>1. /\ \A o \in Obj : /\ iswhite(o)' <=> iswhite(o)
                          /\ isblack(o)' <=> isblack(o)
                          /\ isgray(o)' <=> isgray(o)
                          /\ isdead(o)' => isdead(o)
                          /\ Live(o) => Live(o)'
        /\ \A v \in Obj \cup {Nil} : /\ Alive(v) => Alive(v)'
                                     /\ Dark(v) <=> Dark(v)'
    BY <1>0, CalmFacts
  <1>2. Empty'
    <2>1. \A o \in Obj \ heap' : marked'[o] = "white"
      BY <1>0 DEF IInv, Empty, Calm
    <2> QED BY <2>1, <1>0, TypesDisjoint DEF IInv, Empty
  <1>3. Shape'
    BY <1>0 DEF IInv, Shape, Empty
  <1>4. RefsLive'
    <2>1. \A t \in Thread : ~isdead(t)' => \A i \in Slot : Alive(stack[t][i])'
      <3> SUFFICES ASSUME NEW t \in Thread, ~isdead(t)', NEW i \in Slot
                   PROVE  Alive(stack[t][i])'
        OBVIOUS
      <3>1. ~isdead(t)
        BY TypesDisjoint, Values
      <3>2. Alive(stack[t][i]) /\ stack[t][i] \in Obj \cup {Nil}
        BY <1>0, <3>1, Types DEF IInv, RefsLive
      <3>3. CASE stack'[t][i] = stack[t][i]
        BY <3>2, <3>3, <1>1 DEF Alive, Live, isdead
      <3> QED BY <3>3
    <2>2. \A t \in Tab : ~isdead(t)' =>
            /\ Alive(tmeta[t])'
            /\ \A n \in Node : Alive(tkey[t][n])' /\ Alive(tval[t][n])'
      <3> SUFFICES ASSUME NEW t \in Tab, ~isdead(t)'
                   PROVE  /\ Alive(tmeta[t])'
                          /\ \A n \in Node : Alive(tkey[t][n])' /\ Alive(tval[t][n])'
        OBVIOUS
      <3>1. ~isdead(t)
        BY TypesDisjoint, Values
      <3>2. /\ Alive(tmeta[t]) /\ tmeta[t] \in Obj \cup {Nil}
            /\ \A n \in Node : /\ Alive(tkey[t][n]) /\ tkey[t][n] \in Obj \cup {Nil}
                               /\ Alive(tval[t][n]) /\ tval[t][n] \in Obj \cup {Nil}
        BY <1>0, <3>1, Types DEF IInv, RefsLive
      <3> QED BY <3>2, <1>1 DEF Alive, Live, isdead
    <2>3. \A f \in Func : ~isdead(f)' => Alive(fuv[f])'
      <3> SUFFICES ASSUME NEW f \in Func, ~isdead(f)' PROVE Alive(fuv[f])'
        OBVIOUS
      <3>1. ~isdead(f)
        BY TypesDisjoint, Values
      <3>2. Alive(fuv[f]) /\ fuv[f] \in Obj \cup {Nil}
        BY <1>0, <3>1, Types DEF IInv, RefsLive
      <3> QED BY <3>2, <1>1 DEF Alive, Live, isdead
    <2>4. \A u \in Upval : ~isdead(u)' => Alive(uvval(u))'
      <3> SUFFICES ASSUME NEW u \in Upval, ~isdead(u)' PROVE Alive(uvval(u))'
        OBVIOUS
      <3>1. CASE isdead(u)
        BY <3>1, Values, TypesDisjoint
      <3>2. CASE ~isdead(u) /\ uvclosed'[u] = uvclosed[u] /\ uvth'[u] = uvth[u]
                            /\ uvslot'[u] = uvslot[u]
        <4>1. /\ Alive(uvval(u)) /\ uvval(u) \in Obj \cup {Nil}
              /\ uvth[u] \in Thread /\ uvslot[u] \in Slot
          BY <1>0, <3>2, Types DEF IInv, RefsLive
        <4>2. \/ uvval(u)' = uvval(u)
              \/ Alive(stack[uvth[u]][uvslot[u]])' /\ ~uvclosed'[u]
          BY <4>1, <3>2 DEF uvval
        <4>3. CASE uvval(u)' = uvval(u)
          BY <4>1, <4>3, <1>1 DEF Alive, Live, isdead
        <4>4. CASE Alive(stack[uvth[u]][uvslot[u]])' /\ ~uvclosed'[u]
          BY <4>4 DEF Alive, Live, isdead, uvval
        <4> QED BY <4>2, <4>3, <4>4
      <3> QED BY <3>1, <3>2
    <2>5. \A d \in Udata : ~isdead(d)' => Alive(udmt[d])'
      <3> SUFFICES ASSUME NEW d \in Udata, ~isdead(d)' PROVE Alive(udmt[d])'
        OBVIOUS
      <3>1. ~isdead(d)
        BY TypesDisjoint, Values
      <3>2. Alive(udmt[d]) /\ udmt[d] \in Obj \cup {Nil}
        BY <1>0, <3>1, Types DEF IInv, RefsLive
      <3> QED BY <3>2, <1>1 DEF Alive, Live, isdead
    <2> QED BY <2>1, <2>2, <2>3, <2>4, <2>5 DEF RefsLive
  <1>5. RootsLive'
    BY <1>0, <1>1, Types DEF IInv, RootsLive
  <1>6. Marking' <=> Marking
    BY DEF Marking
  <1>7. Colors'
    <2>1. \A u \in Upval : IF uvclosed'[u] THEN ~isgray(u)' ELSE ~isblack(u)'
      <3> SUFFICES ASSUME NEW u \in Upval
                   PROVE  IF uvclosed'[u] THEN ~isgray(u)' ELSE ~isblack(u)'
        OBVIOUS
      <3>1. CASE u \notin heap
        BY <3>1, <1>1, Values DEF IInv, Empty, isgray, isblack
      <3> QED BY <3>1, <1>1, Values DEF IInv, Colors
    <2>2. \A d \in Udata : ~isgray(d)'
      BY <1>1, Values DEF IInv, Colors
    <2>3. Listed \subseteq Obj /\ Thread \cup Weak \subseteq Obj
      BY ConstAssumption DEF Listed, Obj, Weak
    <2> QED BY <2>1, <2>2, <2>3, <1>1, <1>6 DEF IInv, Colors
  <1>8. ListsSound'
    BY <1>0, <1>1, <1>6 DEF IInv, ListsSound, TypeOK
  <1>9. BlackDark'
    <2>1. Main \in Obj /\ Registry \in Obj
      BY <1>0, Types
    <2>2. \A f \in Func : isblack(f)' => fuv'[f] = fuv[f]
      BY <1>1, Values DEF IInv, Empty, isblack
    <2> SUFFICES ASSUME Marking' PROVE BlackDark!2'
      BY DEF BlackDark
    <2>3. Marking /\ TypeOK /\ BlackDark
      BY <1>6 DEF IInv
    <2>4. \A t \in Tab : isblack(t)' =>
            Dark(tmeta[t])' /\ \A n \in Node : Dark(tkey[t][n])' /\ Dark(tval[t][n])'
      BY <1>1, <2>3, Values, Types DEF BlackDark, Dark, iswhite
    <2>5. \A f \in Func : isblack(f)' => Dark(fuv[f])'
      BY <1>1, <2>2, <2>3, Values, Types DEF BlackDark, Dark, iswhite
    <2>6. \A u \in Upval : isblack(u)' => Dark(uvtv[u])'
      BY <1>1, <2>3, Values, Types DEF BlackDark, Dark, iswhite
    <2>7. \A d \in Udata \ mmudata' : isblack(d)' => Dark(udmt[d])'
      BY <1>1, <2>3, Values, Types DEF BlackDark, Dark, iswhite
    <2> QED BY <1>1, <2>1, <2>3, <2>4, <2>5, <2>6, <2>7 DEF BlackDark
  <1>10. AtomicDark'
    BY DEF AtomicDark
  <1>11. SweepProgress'
    <2> SUFFICES ASSUME gcstate' \in {"sweepstring", "sweep"}, NEW o \in heap' \ mmudata'
                 PROVE  marked'[o] = "white" \/ Unswept(o)'
      BY DEF SweepProgress
    <2>1. o \in Obj
      BY DEF TypeOK
    <2>2. marked[o] = "white" => marked'[o] = "white"
      BY <2>1 DEF Calm
    <2>3. marked[o] = "white" \/ Unswept(o)
      BY <2>1 DEF IInv, SweepProgress, Empty
    <2>4. ASSUME Unswept(o) PROVE marked'[o] = "white" \/ Unswept(o)'
      <3>1. CASE o \in Upval \ heap
        BY <3>1, <2>1, <2>2 DEF IInv, Empty
      <3> QED BY <2>4, <3>1 DEF Unswept, IInv, Empty
    <2> QED BY <2>2, <2>3, <2>4
  <1>12. SweepComplete'
    <2>1. \A o \in Obj : marked[o] = "white" => marked'[o] = "white"
      BY DEF Calm
    <2>2. \A o \in heap' : o \in Obj /\ (o \notin heap => marked'[o] = "white")
      BY <2>1 DEF IInv, Empty, TypeOK
    <2> QED BY <1>1, <2>1, <2>2 DEF IInv, SweepComplete, isdead
  <1> QED BY <1>2, <1>3, <1>4, <1>5, <1>7, <1>8, <1>9, <1>10, <1>11, <1>12 DEF IInv

\* What the running code can name is alive.
LEMMA OperandLive ==
  ASSUME IInv
  PROVE  /\ Operand \subseteq Value
         /\ \A v \in Operand : Alive(v)
         /\ \A v \in Operand : v # Nil => v \in heap /\ v \in Obj /\ ~isdead(v)
  <1>1. /\ cur \in Thread /\ ~isdead(cur) /\ top[cur] \in 0 .. NSlot
        /\ stack \in [Thread -> [Slot -> Value]]
        /\ Live(Registry) /\ Registry \in Value
    BY ConstAssumption DEF IInv, RootsLive, Live, TypeOK, Value
  <1>2. \A i \in 1 .. top[cur] : i \in Slot
    BY <1>1, ConstAssumption DEF Slot
  <1>3. \A i \in Slot : Alive(stack[cur][i])
    BY <1>1 DEF IInv, RefsLive
  <1>4. /\ Operand \subseteq Value
        /\ \A v \in Operand : Alive(v)
    BY <1>1, <1>2, <1>3 DEF Operand, Alive
  <1> QED BY <1>4, Values DEF Alive, Live

\* What a push changes.
LEMMA PushFacts ==
  ASSUME TypeOK, NEW th \in Thread, NEW v, Push(th, v)
  PROVE  \A t \in Thread, i \in Slot :
           stack'[t][i] = stack[t][i] \/ (t = th /\ stack'[t][i] = v)
  BY DEF TypeOK, Push

\* The running thread is allocated, and stays so in a calm step.
LEMMA RootsStay ==
  ASSUME IInv, Calm, UNCHANGED <<cur, gcroot>>
  PROVE  /\ cur \in Thread /\ cur \in heap
         /\ Live(cur)' /\ Alive(gcroot)'
  <1>1. cur \in Thread /\ Live(cur) /\ Alive(gcroot) /\ TypeOK
    BY DEF IInv, RootsLive, TypeOK
  <1>2. Live(cur)' /\ Alive(gcroot)'
    BY <1>1, CalmFacts, Types DEF Live, Alive, isdead
  <1> QED BY <1>1, <1>2 DEF Live

\* A calm step that pushes something alive: an allocation or a load.
LEMMA PushStep ==
  ASSUME IInv, TypeOK', aphase = "none", Calm,
         NEW v, Push(cur, v), Alive(v)',
         UNCHANGED <<gcstate, aphase, tosweep, sweepstr, mmudata, gray, grayagain, weak,
                     tkey, tval, tmeta, udmt, uvtv, uvclosed, uvth, uvslot, cur, gcroot>>,
         gcstate = "sweepstring" => strmask' = strmask,
         \A f \in Func :
           \/ fuv'[f] = fuv[f] /\ (f \in heap' => f \in heap)
           \/ f \in heap' \ heap /\ fuv'[f] \in Upval /\ Live(fuv[f])',
         \A o \in Obj : isdead(o) /\ ~isdead(o)' => o \in Str
  PROVE  IInv'
  <1>1. cur \in Thread /\ cur \in heap /\ Live(cur)' /\ Alive(gcroot)' /\ TypeOK
    BY RootsStay DEF IInv
  <1>2. \A t \in Thread, i \in Slot :
          stack'[t][i] = stack[t][i] \/ (t = cur /\ stack'[t][i] = v)
    BY <1>1, PushFacts
  <1>3. \A t \in Thread, i \in Slot :
           stack'[t][i] = stack[t][i] \/ (t \in heap /\ Alive(stack[t][i])')
    BY <1>1, <1>2 DEF Alive, Live, isdead
  <1> QED BY <1>1, <1>3, GrowStep

\* lj_tab_new(), lj_udata_new(), lj_state_new(): white, with empty fields.
LEMMA NewObjectInv ==
  ASSUME IInv, TypeOK', NEW o \in Tab \cup Udata \cup Thread, NewObject(o)
  PROVE  IInv'
  <1>0. TypeOK /\ o \in Obj /\ o \notin heap /\ o \in heap' /\ o \notin Func
    BY TypesDisjoint, Values DEF IInv, NewObject, Obj
  <1>1. /\ aphase = "none" /\ Push(cur, o)
        /\ UNCHANGED <<gcstate, aphase, tosweep, sweepstr, mmudata, gray, grayagain, weak,
                     tkey, tval, tmeta, udmt, uvtv, fuv, strmask, uvclosed, uvth, uvslot,
                     cur, gcroot>>
    BY DEF NewObject, MutatorRuns, gcvars, gcdata, lists, tabvars, uvvars, execvars
  <1>2. /\ \A x \in Obj : marked'[x] = IF x = o THEN "white" ELSE marked[x]
        /\ marked[o] = "white" /\ heap' = heap \cup {o}
    BY <1>0 DEF NewObject, TypeOK, IInv, Empty
  <1>3. Calm
    BY <1>2 DEF Calm, iswhite, White
  <1>4. Alive(o)'
    BY <1>0, <1>2 DEF Alive, Live, isdead
  <1>7. \A x \in Obj : ~(isdead(x) /\ ~isdead(x)')
    BY <1>2 DEF isdead
  <1>8. \A f \in Func : fuv'[f] = fuv[f] /\ (f \in heap' => f \in heap)
    BY <1>0, <1>1, <1>2
  <1> QED BY <1>1, <1>3, <1>4, <1>7, <1>8, PushStep

\* lj_str_new() makes a white string, or takes a dead one back to life.
LEMMA InternStrInv ==
  ASSUME IInv, TypeOK', NEW s \in Str, InternStr(s)
  PROVE  IInv'
  <1>0. TypeOK /\ s \in Obj /\ s \in heap' /\ s \notin Func
    BY TypesDisjoint, Values DEF IInv, InternStr, Obj
  <1>1. /\ aphase = "none" /\ Push(cur, s)
        /\ UNCHANGED <<gcstate, aphase, tosweep, sweepstr, mmudata, gray, grayagain, weak,
                     tkey, tval, tmeta, udmt, uvtv, fuv, uvclosed, uvth, uvslot,
                     cur, gcroot>>
        /\ gcstate = "sweepstring" => strmask' = strmask
    BY DEF InternStr, MutatorRuns, lj_str_resize, lists, tabvars, uvvars, execvars
  <1>2. /\ heap' = heap \cup {s}
        /\ \A x \in Obj : marked'[x] = IF x = s /\ (s \notin heap \/ isdead(s))
                                         THEN "white" ELSE marked[x]
        /\ s \notin heap => marked[s] = "white"
    BY <1>0 DEF InternStr, TypeOK, IInv, Empty
  <1>3. Calm
    BY <1>2 DEF Calm, iswhite, isdead, White
  <1>4. Alive(s)'
    BY <1>0, <1>2 DEF Alive, Live, isdead
  <1>7. \A x \in Obj : isdead(x) /\ ~isdead(x)' => x \in Str
    BY <1>2 DEF isdead
  <1>8. \A f \in Func : fuv'[f] = fuv[f] /\ (f \in heap' => f \in heap)
    BY <1>0, <1>1, <1>2
  <1> QED BY <1>1, <1>3, <1>4, <1>7, <1>8, PushStep

\* A load copies a reference that a live object has to the running stack.
LEMMA LoadInv ==
  ASSUME IInv, TypeOK', NEW v \in Value, Load(v)
  PROVE  IInv'
  <1>1. /\ aphase = "none" /\ Push(cur, v)
        /\ UNCHANGED <<gcstate, aphase, tosweep, sweepstr, mmudata, gray, grayagain, weak,
                     tkey, tval, tmeta, udmt, uvtv, fuv, uvclosed, uvth, uvslot,
                     cur, gcroot, strmask, heap, marked>>
    BY DEF Load, MutatorRuns, gcvars, gcdata, lists, tabvars, uvvars, execvars
  <1>2. Calm /\ \A x \in Obj : ~(isdead(x) /\ ~isdead(x)')
    BY <1>1 DEF Calm, isdead
  <1>3. Alive(v)
    <2>1. \A x \in Operand : x # Nil => ~isdead(x) /\ x \in heap
      BY OperandLive
    <2>2. CASE \E t \in Operand \cap Tab : v = tmeta[t] \/ \E n \in Node : v = tval[t][n]
      BY <2>1, <2>2, Values DEF IInv, RefsLive
    <2>3. CASE \E f \in Operand \cap Func : v = uvval(fuv[f])
      <3>1. PICK f \in Operand \cap Func : v = uvval(fuv[f])
        BY <2>3
      <3>2. ~isdead(f) /\ fuv[f] \in Upval /\ Alive(fuv[f])
        BY <2>1, Values DEF IInv, RefsLive, Shape
      <3>3. ~isdead(fuv[f])
        BY <3>2, Values DEF Alive, Live
      <3> QED BY <3>1, <3>2, <3>3 DEF IInv, RefsLive
    <2>4. CASE \E d \in Operand \cap Udata : v = udmt[d]
      BY <2>1, <2>4, Values DEF IInv, RefsLive
    <2>5. CASE v = gcroot
      BY <2>5 DEF IInv, RootsLive
    <2> QED BY <2>2, <2>3, <2>4, <2>5 DEF Load
  <1>4. Alive(v)'
    BY <1>1, <1>3 DEF Alive, Live, isdead
  <1>8. \A f \in Func : fuv'[f] = fuv[f] /\ (f \in heap' => f \in heap)
    BY <1>1
  <1> QED BY <1>1, <1>2, <1>4, <1>8, PushStep

\* A closure that shares the upvalue of another live one.
LEMMA NewClosureInheritInv ==
  ASSUME IInv, TypeOK', NEW f \in Func, NEW p \in Func, NewClosureInherit(f, p)
  PROVE  IInv'
  <1>0. TypeOK /\ f \in Obj /\ f \notin heap /\ f \in heap' /\ p \in Operand
    BY Values DEF IInv, NewClosureInherit
  <1>1. /\ aphase = "none" /\ Push(cur, f)
        /\ UNCHANGED <<gcstate, aphase, tosweep, sweepstr, mmudata, gray, grayagain, weak,
                     tkey, tval, tmeta, udmt, uvtv, strmask, uvclosed, uvth, uvslot,
                     cur, gcroot>>
    BY DEF NewClosureInherit, MutatorRuns, gcvars, gcdata, lists, tabvars, uvvars, execvars
  <1>2. /\ \A x \in Obj : marked'[x] = IF x = f THEN "white" ELSE marked[x]
        /\ marked[f] = "white" /\ heap' = heap \cup {f}
        /\ \A g \in Func : fuv'[g] = IF g = f THEN fuv[p] ELSE fuv[g]
    BY <1>0 DEF NewClosureInherit, TypeOK, IInv, Empty
  <1>3. Calm
    BY <1>2 DEF Calm, iswhite, White
  <1>4. Alive(f)'
    BY <1>0, <1>2 DEF Alive, Live, isdead
  <1>5. fuv[p] \in Upval /\ Live(fuv[p])
    <2>1. ~isdead(p) /\ p \in heap
      BY <1>0, OperandLive, Values
    <2> QED BY <2>1, Values DEF IInv, Shape, RefsLive, Alive
  <1>6. Live(fuv[f])'
    BY <1>0, <1>2, <1>3, <1>5, CalmFacts, Values DEF Live, isdead
  <1>7. \A x \in Obj : ~(isdead(x) /\ ~isdead(x)')
    BY <1>2 DEF isdead
  <1>8. \A g \in Func :
           \/ fuv'[g] = fuv[g] /\ (g \in heap' => g \in heap)
           \/ g \in heap' \ heap /\ fuv'[g] \in Upval /\ Live(fuv[g])'
    BY <1>0, <1>2, <1>5, <1>6
  <1> QED BY <1>1, <1>3, <1>4, <1>7, <1>8, PushStep

\* A closure with a new, closed upvalue (lj_func_newL_empty).
LEMMA NewClosureEmptyInv ==
  ASSUME IInv, TypeOK', NEW f \in Func, NEW u \in Upval, NewClosureEmpty(f, u)
  PROVE  IInv'
  <1>0. TypeOK /\ f \in Obj /\ f \notin heap /\ u \in Obj /\ u \notin heap /\ u \notin Func
    BY Values, TypesDisjoint DEF IInv, NewClosureEmpty
  <1>1. /\ aphase = "none" /\ Push(cur, f)
        /\ UNCHANGED <<gcstate, aphase, tosweep, sweepstr, mmudata, gray, grayagain, weak,
                     tkey, tval, tmeta, udmt, uvtv, strmask, uvclosed, uvth, uvslot,
                     cur, gcroot>>
    BY DEF NewClosureEmpty, MutatorRuns, gcvars, gcdata, lists, tabvars, uvvars, execvars
  <1>2. /\ \A x \in Obj : marked'[x] = IF x \in {f, u} THEN "white" ELSE marked[x]
        /\ marked[f] = "white" /\ marked[u] = "white" /\ heap' = heap \cup {f, u}
        /\ \A g \in Func : fuv'[g] = IF g = f THEN u ELSE fuv[g]
    BY <1>0 DEF NewClosureEmpty, TypeOK, IInv, Empty
  <1>3. Calm
    BY <1>2 DEF Calm, iswhite, White
  <1>4. Alive(f)' /\ Live(u)'
    BY <1>0, <1>2 DEF Alive, Live, isdead
  <1>6. Live(fuv[f])'
    BY <1>2, <1>4 DEF Live, isdead
  <1>7. \A x \in Obj : ~(isdead(x) /\ ~isdead(x)')
    BY <1>2 DEF isdead
  <1>8. \A g \in Func :
           \/ fuv'[g] = fuv[g] /\ (g \in heap' => g \in heap)
           \/ g \in heap' \ heap /\ fuv'[g] \in Upval /\ Live(fuv[g])'
    BY <1>0, <1>2, <1>6
  <1> QED BY <1>1, <1>3, <1>4, <1>7, <1>8, PushStep

\* func_finduv() makes an open upvalue, or finds it and takes it back to life.
LEMMA NewClosureLocalInv ==
  ASSUME IInv, TypeOK', NEW f \in Func, NEW i \in Slot, NEW u \in Upval,
         NewClosureLocal(f, i, u)
  PROVE  IInv'
  <1>0. /\ TypeOK /\ f \in Obj /\ f \notin heap /\ u \in Obj /\ u \notin Func
        /\ cur \in Thread /\ i \in 1 .. top[cur] /\ i # top[cur] + 1
    BY Values, TypesDisjoint DEF IInv, NewClosureLocal, TypeOK
  <1>1. /\ aphase = "none" /\ Push(cur, f)
        /\ UNCHANGED <<gcstate, aphase, tosweep, sweepstr, mmudata, gray, grayagain, weak,
                     tkey, tval, tmeta, udmt, uvtv, strmask, cur, gcroot>>
    BY DEF NewClosureLocal, MutatorRuns, gcvars, gcdata, lists, tabvars, uvvars, execvars
  <1>2. \/ u \in heap /\ ~uvclosed[u] /\ uvth[u] = cur /\ uvslot[u] = i
        \/ u \notin heap
    BY DEF NewClosureLocal, SlotUv, OpenUv
  <1>3. /\ \A x \in Obj : marked'[x] = IF x = f \/ (x = u /\ (u \notin heap \/ isdead(u)))
                                         THEN "white" ELSE marked[x]
        /\ marked[f] = "white" /\ (u \notin heap => marked[u] = "white")
        /\ heap' = heap \cup {f, u}
        /\ \A g \in Func : fuv'[g] = IF g = f THEN u ELSE fuv[g]
        /\ \A x \in Upval : /\ uvclosed'[x] = IF x = u THEN FALSE ELSE uvclosed[x]
                            /\ uvth'[x] = IF x = u THEN cur ELSE uvth[x]
                            /\ uvslot'[x] = IF x = u THEN i ELSE uvslot[x]
    BY <1>0 DEF NewClosureLocal, NeedsWhite, TypeOK, IInv, Empty
  <1>4. Calm
    BY <1>3 DEF Calm, iswhite, isdead, White
  <1>5. /\ cur \in heap /\ ~isdead(cur) /\ Live(cur)' /\ Alive(gcroot)'
    BY <1>1, <1>4, RootsStay DEF IInv, RootsLive, Live
  <1>6. /\ Live(f)' /\ Live(u)' /\ f # Nil
    BY <1>0, <1>3, Values DEF Live, isdead
  <1>7. stack'[cur][i] = stack[cur][i]
    BY <1>0, <1>1 DEF Push, TypeOK
  <1>8. Alive(uvval(u))'
    <2>1. Alive(stack[cur][i]) /\ stack[cur][i] \in Obj \cup {Nil}
      BY <1>0, <1>5, Types DEF IInv, RefsLive
    <2>2. uvval(u)' = stack[cur][i]
      BY <1>3, <1>7, <1>1 DEF uvval
    <2> QED BY <2>1, <2>2, <1>0, <1>4, CalmFacts DEF Alive, Live, isdead
  <1>9. \A t \in Thread, j \in Slot :
          stack'[t][j] = stack[t][j] \/ (t = cur /\ stack'[t][j] = f)
    BY <1>0, <1>1, PushFacts
  <1>10. \A t \in Thread, j \in Slot :
           stack'[t][j] = stack[t][j] \/ (t \in heap /\ Alive(stack[t][j])')
    BY <1>5, <1>6, <1>9 DEF Alive, Live, isdead
  <1>11. \A g \in Func :
           \/ fuv'[g] = fuv[g] /\ (g \in heap' => g \in heap)
           \/ g \in heap' \ heap /\ fuv'[g] \in Upval /\ Live(fuv[g])'
    BY <1>0, <1>3, <1>6 DEF Live, isdead
  <1>12. \A x \in Upval :
           \/ uvclosed'[x] = uvclosed[x] /\ uvth'[x] = uvth[x] /\ uvslot'[x] = uvslot[x]
           \/ /\ x \notin heap /\ x \in heap' /\ ~uvclosed'[x] /\ uvth'[x] \in heap
              /\ Alive(uvval(x))'
    <2> SUFFICES ASSUME NEW x \in Upval
                 PROVE \/ uvclosed'[x] = uvclosed[x] /\ uvth'[x] = uvth[x]
                          /\ uvslot'[x] = uvslot[x]
                       \/ /\ x \notin heap /\ x \in heap' /\ ~uvclosed'[x]
                          /\ uvth'[x] \in heap /\ Alive(uvval(x))'
      OBVIOUS
    <2>1. CASE x # u
      BY <2>1, <1>3
    <2>2. CASE x = u /\ u \in heap
      <3>1. uvclosed[u] = FALSE
        BY <2>2, <1>0, <1>2 DEF TypeOK
      <3> QED BY <2>2, <1>2, <1>3, <3>1
    <2>3. CASE x = u /\ u \notin heap
      BY <2>3, <1>3, <1>5, <1>8
    <2> QED BY <2>1, <2>2, <2>3
  <1>13. \A o \in Obj : isdead(o) /\ ~isdead(o)' => o \in Str \/ (o \in Upval /\ Alive(uvval(o))')
    BY <1>3, <1>8 DEF isdead
  <1> QED BY <1>1, <1>4, <1>5, <1>10, <1>11, <1>12, <1>13, GrowStep

\* A step that changes no color, no list and no field but stack slots, which
\* get something alive.
LEMMA StackStep ==
  ASSUME IInv, TypeOK', aphase = "none",
         UNCHANGED <<gcstate, aphase, tosweep, sweepstr, mmudata, gray, grayagain, weak,
                     tkey, tval, tmeta, udmt, uvtv, fuv, uvclosed, uvth, uvslot, strmask,
                     heap, marked>>,
         \A t \in Thread, i \in Slot :
           stack'[t][i] = stack[t][i] \/ (t \in heap /\ Alive(stack[t][i])'),
         Live(cur)', Alive(gcroot)'
  PROVE  IInv'
  <1>1. Calm /\ \A x \in Obj : ~(isdead(x) /\ ~isdead(x)')
    BY DEF Calm, isdead
  <1>2. \A f \in Func : fuv'[f] = fuv[f] /\ (f \in heap' => f \in heap)
    OBVIOUS
  <1> QED BY <1>1, <1>2, GrowStep

\* A frame that covers old slots again: they hold nothing that is freed.
LEMMA EnterScopeInv ==
  ASSUME IInv, TypeOK', EnterScope
  PROVE  IInv'
  <1>1. /\ aphase = "none"
        /\ UNCHANGED <<gcstate, aphase, tosweep, sweepstr, mmudata, gray, grayagain, weak,
                     tkey, tval, tmeta, udmt, uvtv, fuv, uvclosed, uvth, uvslot, strmask,
                     heap, marked, stack, cur, gcroot>>
    BY DEF EnterScope, MutatorRuns, gcvars, gcdata, lists, tabvars, uvvars, execvars
  <1>2. Live(cur)' /\ Alive(gcroot)'
    BY <1>1 DEF IInv, RootsLive, Live, Alive, isdead
  <1> QED BY <1>1, <1>2, StackStep

\* lua_xmove() and the values that resume and yield pass along.
LEMMA XMoveInv ==
  ASSUME IInv, TypeOK', NEW th \in Thread, XMove(th)
  PROVE  IInv'
  <1>1. /\ aphase = "none"
        /\ UNCHANGED <<gcstate, aphase, tosweep, sweepstr, mmudata, gray, grayagain, weak,
                     tkey, tval, tmeta, udmt, uvtv, fuv, uvclosed, uvth, uvslot, strmask,
                     heap, marked, cur, gcroot>>
    BY DEF XMove, MutatorRuns, gcvars, gcdata, lists, tabvars, uvvars, execvars
  <1>2. Live(cur)' /\ Alive(gcroot)'
    BY <1>1 DEF IInv, RootsLive, Live, Alive, isdead
  <1>3. th \in heap
    <2>1. CASE th \in Operand
      BY <2>1, OperandLive, Values
    <2>2. CASE th = Main
      BY <2>2 DEF IInv, RootsLive, Live
    <2> QED BY <2>1, <2>2 DEF XMove
  <1>4. Alive(stack[cur][top[cur]])
    <2>1. stack[cur][top[cur]] \in Operand
      <3>1. top[cur] \in 1 .. top[cur]
        BY DEF XMove, IInv, TypeOK
      <3> QED BY <3>1 DEF Operand
    <2> QED BY <2>1, OperandLive
  <1>5. \A t \in Thread, i \in Slot :
          stack'[t][i] = stack[t][i] \/ (t = th /\ stack'[t][i] = stack[cur][top[cur]])
    BY DEF XMove, IInv, TypeOK
  <1>6. \A t \in Thread, i \in Slot :
           stack'[t][i] = stack[t][i] \/ (t \in heap /\ Alive(stack[t][i])')
    BY <1>1, <1>3, <1>4, <1>5 DEF Alive, Live, isdead
  <1> QED BY <1>1, <1>2, <1>6, StackStep

\* lua_setmetatable() of a base type: no barrier, atomic() marks the root.
LEMMA SetRootInv ==
  ASSUME IInv, TypeOK', NEW v \in Tab \cup {Nil}, SetRoot(v)
  PROVE  IInv'
  <1>1. /\ aphase = "none"
        /\ UNCHANGED <<gcstate, aphase, tosweep, sweepstr, mmudata, gray, grayagain, weak,
                     tkey, tval, tmeta, udmt, uvtv, fuv, uvclosed, uvth, uvslot, strmask,
                     heap, marked, stack, cur>>
    BY DEF SetRoot, MutatorRuns, gcvars, gcdata, lists, tabvars, uvvars, execvars
  <1>2. Alive(v) /\ gcroot' = v
    BY OperandLive DEF SetRoot, Alive
  <1>3. Live(cur)' /\ Alive(gcroot)'
    BY <1>1, <1>2 DEF IInv, RootsLive, Live, Alive, isdead
  <1> QED BY <1>1, <1>3, StackStep

\* resume and yield: the running thread is live.
LEMMA SwitchInv ==
  ASSUME IInv, TypeOK', NEW th \in Thread, Switch(th)
  PROVE  IInv'
  <1>1. /\ aphase = "none"
        /\ UNCHANGED <<gcstate, aphase, tosweep, sweepstr, mmudata, gray, grayagain, weak,
                     tkey, tval, tmeta, udmt, uvtv, fuv, uvclosed, uvth, uvslot, strmask,
                     heap, marked, stack, gcroot>>
    BY DEF Switch, MutatorRuns, gcvars, gcdata, lists, tabvars, uvvars, execvars
  <1>2. Live(th) /\ cur' = th
    BY OperandLive, Values DEF Switch, IInv, RootsLive, Live
  <1>3. Live(cur)' /\ Alive(gcroot)'
    BY <1>1, <1>2 DEF IInv, RootsLive, Live, Alive, isdead
  <1> QED BY <1>1, <1>3, StackStep

\* Steps that change nothing the invariant is about.
LEMMA Frozen ==
  ASSUME IInv, TypeOK',
         UNCHANGED <<gcstate, aphase, tosweep, sweepstr, mmudata, gray, grayagain, weak,
                     tkey, tval, tmeta, udmt, uvtv, fuv, uvclosed, uvth, uvslot, strmask,
                     heap, marked, stack, cur, gcroot>>
  PROVE  IInv'
  <1>1. Empty' /\ Shape'
    BY DEF IInv, Empty, Shape
  <1>2. RefsLive' /\ RootsLive'
    BY DEF IInv, RefsLive, RootsLive, Alive, Live, isdead, uvval
  <1>3. Colors' /\ ListsSound'
    BY DEF IInv, Colors, ListsSound, isblack, isgray, Marking
  <1>4. BlackDark'
    BY DEF IInv, BlackDark, isblack, Marking, Dark, iswhite
  <1>5. AtomicDark'
    BY DEF IInv, AtomicDark, isgray, uvval, Dark, iswhite
  <1>6. SweepProgress' /\ SweepComplete'
    BY DEF IInv, SweepProgress, SweepComplete, Unswept, isdead
  <1> QED BY <1>1, <1>2, <1>3, <1>4, <1>5, <1>6 DEF IInv

\* A store of something alive into the table t, with the table barrier: if t
\* stays black, all that it refers to is marked.
LEMMA TabStep ==
  ASSUME IInv, TypeOK', aphase = "none", NEW t \in Tab, t \in heap,
         UNCHANGED <<gcstate, aphase, tosweep, sweepstr, strmask, mmudata, heap, stack,
                     fuv, uvclosed, uvth, uvslot, uvtv, udmt, gcroot, cur>>,
         nobarrier \/ (isblack(t) /\ barrierback(t)),
         \A x \in Tab \ {t} : tmeta'[x] = tmeta[x] /\ tkey'[x] = tkey[x] /\ tval'[x] = tval[x],
         Alive(tmeta[t])', \A n \in Node : Alive(tkey[t][n])' /\ Alive(tval[t][n])',
         \A n \in Node : tval'[t][n] = Nil => tkey'[t][n] = Nil,
         isblack(t)' /\ Marking =>
           Dark(tmeta[t])' /\ \A n \in Node : Dark(tkey[t][n])' /\ Dark(tval[t][n])'
  PROVE  IInv'
  <1>0. TypeOK /\ t \in Obj
    BY Values DEF IInv
  <1>1. /\ \A x \in Obj : \/ marked'[x] = marked[x]
                          \/ x = t /\ marked[x] = "black" /\ marked'[x] = "gray"
        /\ gray' = gray /\ weak' = weak
        /\ \/ grayagain' = grayagain /\ marked' = marked
           \/ grayagain' = grayagain \cup {t} /\ isblack(t) /\ marked'[t] = "gray"
    BY <1>0 DEF nobarrier, lists, barrierback, isblack, TypeOK
  <1>2. /\ \A x \in Obj : /\ iswhite(x)' <=> iswhite(x)
                          /\ isdead(x)' <=> isdead(x)
                          /\ Live(x)' <=> Live(x)
                          /\ isblack(x)' => isblack(x)
                          /\ isgray(x)' => isgray(x) \/ (x = t /\ isblack(t))
                          /\ isgray(x) => isgray(x)'
        /\ \A v \in Obj \cup {Nil} : (Alive(v) => Alive(v)') /\ (Dark(v) => Dark(v)')
    <2>1. \A x \in Obj : /\ iswhite(x)' <=> iswhite(x)
                         /\ isdead(x)' <=> isdead(x)
                         /\ isblack(x)' => isblack(x)
                         /\ isgray(x)' => isgray(x) \/ (x = t /\ isblack(t))
                         /\ isgray(x) => isgray(x)'
      BY <1>1 DEF iswhite, isdead, isblack, isgray, White
    <2>2. \A x \in Obj : Live(x)' <=> Live(x)
      BY <2>1 DEF Live
    <2> QED BY <2>1, <2>2 DEF Alive, Dark
  <1>3. Empty'
    <2>1. \A o \in Obj \ heap' : marked'[o] = "white"
      BY <1>1 DEF IInv, Empty
    <2> QED BY <2>1 DEF IInv, Empty
  <1>4. Shape'
    BY DEF IInv, Shape
  <1>5. RefsLive'
    <2>1. \A x \in Thread : ~isdead(x)' => \A i \in Slot : Alive(stack[x][i])'
      BY <1>0, <1>2, Values, Types DEF IInv, RefsLive, Alive, Live, isdead
    <2>2. \A x \in Tab : ~isdead(x)' =>
            /\ Alive(tmeta[x])'
            /\ \A n \in Node : Alive(tkey[x][n])' /\ Alive(tval[x][n])'
      <3> SUFFICES ASSUME NEW x \in Tab \ {t}, ~isdead(x)'
                   PROVE  /\ Alive(tmeta[x])'
                          /\ \A n \in Node : Alive(tkey[x][n])' /\ Alive(tval[x][n])'
        OBVIOUS
      <3>1. /\ Alive(tmeta[x]) /\ tmeta[x] \in Obj \cup {Nil}
            /\ \A n \in Node : /\ Alive(tkey[x][n]) /\ tkey[x][n] \in Obj \cup {Nil}
                               /\ Alive(tval[x][n]) /\ tval[x][n] \in Obj \cup {Nil}
        BY <1>0, <1>2, Values, Types DEF IInv, RefsLive
      <3> QED BY <3>1, <1>2 DEF Alive, Live, isdead
    <2>3. \A f \in Func : ~isdead(f)' => Alive(fuv[f])'
      BY <1>0, <1>2, Values, Types DEF IInv, RefsLive, Alive, Live, isdead
    <2>4. \A u \in Upval : ~isdead(u)' => Alive(uvval(u))'
      <3>1. \A u \in Upval : uvval(u)' = uvval(u)
        BY DEF uvval
      <3> QED BY <1>0, <1>2, <3>1, Values, Types DEF IInv, RefsLive, Alive, Live, isdead
    <2>5. \A d \in Udata : ~isdead(d)' => Alive(udmt[d])'
      BY <1>0, <1>2, Values, Types DEF IInv, RefsLive, Alive, Live, isdead
    <2> QED BY <2>1, <2>2, <2>3, <2>4, <2>5 DEF RefsLive
  <1>6. RootsLive'
    BY <1>0, <1>2, Types DEF IInv, RootsLive, Alive, Live, isdead
  <1>7. Marking' <=> Marking
    BY DEF Marking
  <1>8. Colors'
    <2>1. \A u \in Upval : IF uvclosed'[u] THEN ~isgray(u)' ELSE ~isblack(u)'
      BY <1>2, Values, TypesDisjoint DEF IInv, Colors
    <2>2. \A d \in Udata : ~isgray(d)'
      BY <1>2, Values, TypesDisjoint DEF IInv, Colors
    <2>3. Listed \subseteq Obj /\ Thread \cup Weak \subseteq Obj
      BY ConstAssumption DEF Listed, Obj, Weak
    <2>4. ASSUME Marking
          PROVE  /\ gray' \subseteq Listed /\ weak' \subseteq Weak
                 /\ grayagain' \subseteq (Thread \cup Tab) \ Weak
                 /\ \A o \in Listed : isgray(o)' => o \in gray' \cup grayagain' \cup weak'
                 /\ \A o \in Thread \cup Weak : ~isblack(o)'
      BY <2>3, <2>4, <1>1, <1>2 DEF IInv, Colors, isgray
    <2> QED BY <2>1, <2>2, <2>4, <1>7 DEF Colors
  <1>9. ListsSound'
    <2> SUFFICES ASSUME Marking PROVE ListsSound!2'
      BY <1>7 DEF ListsSound
    <2>1. isblack(t) => t \notin gray \cup grayagain \cup weak
      BY DEF IInv, ListsSound, isblack, isgray
    <2>2. \A o \in gray \cup grayagain \cup weak : o \in heap /\ isgray(o)' /\ o \in Obj
      BY <1>2 DEF IInv, ListsSound, TypeOK
    <2>3. \A o \in gray' \cup grayagain' \cup weak' : o \in heap' /\ isgray(o)'
      BY <1>1, <2>2 DEF isgray
    <2> QED BY <1>1, <2>1, <2>3 DEF IInv, ListsSound
  <1>10. BlackDark'
    <2> SUFFICES ASSUME Marking PROVE BlackDark!2'
      BY <1>7 DEF BlackDark
    <2>1. BlackDark!2 /\ TypeOK
      BY DEF IInv, BlackDark
    <2>2. \A x \in Tab : isblack(x)' =>
            Dark(tmeta[x])' /\ \A n \in Node : Dark(tkey[x][n])' /\ Dark(tval[x][n])'
      <3> SUFFICES ASSUME NEW x \in Tab \ {t}, isblack(x)'
                   PROVE  /\ Dark(tmeta[x])'
                          /\ \A n \in Node : Dark(tkey[x][n])' /\ Dark(tval[x][n])'
        OBVIOUS
      <3>1. /\ Dark(tmeta[x]) /\ tmeta[x] \in Obj \cup {Nil}
            /\ \A n \in Node : /\ Dark(tkey[x][n]) /\ tkey[x][n] \in Obj \cup {Nil}
                               /\ Dark(tval[x][n]) /\ tval[x][n] \in Obj \cup {Nil}
        BY <1>2, <2>1, Values, Types
      <3> QED BY <3>1, <1>2 DEF Dark, iswhite
    <2>3. \A f \in Func : isblack(f)' => Dark(fuv[f])'
      BY <1>2, <2>1, Values, Types DEF Dark, iswhite
    <2>4. \A u \in Upval : isblack(u)' => Dark(uvtv[u])'
      BY <1>2, <2>1, Values, Types DEF Dark, iswhite
    <2>5. \A d \in Udata \ mmudata' : isblack(d)' => Dark(udmt[d])'
      BY <1>2, <2>1, Values, Types DEF Dark, iswhite
    <2>6. Dark(Main)' /\ Dark(Registry)'
      BY <1>2, <2>1, Types
    <2> QED BY <2>2, <2>3, <2>4, <2>5, <2>6
  <1>11. AtomicDark'
    BY DEF AtomicDark
  <1>12. SweepProgress'
    <2> SUFFICES ASSUME gcstate \in {"sweepstring", "sweep"}, NEW o \in heap \ mmudata
                 PROVE  marked'[o] = "white" \/ Unswept(o)'
      BY DEF SweepProgress
    <2>1. marked[o] = "white" \/ Unswept(o)
      BY DEF IInv, SweepProgress
    <2>2. Unswept(o) => Unswept(o)'
      BY DEF Unswept
    <2>3. marked[o] = "white" => marked'[o] = "white"
      BY <1>0, <1>1 DEF TypeOK
    <2> QED BY <2>1, <2>2, <2>3
  <1>13. SweepComplete'
    <2>1. \A o \in heap : o \in Obj /\ (marked[o] = "white" => marked'[o] = "white")
      BY <1>0, <1>1 DEF TypeOK
    <2> QED BY <1>2, <2>1 DEF IInv, SweepComplete
  <1> QED BY <1>3, <1>4, <1>5, <1>6, <1>8, <1>9, <1>10, <1>11, <1>12, <1>13 DEF IInv

\* The table barrier keeps what is alive alive and what is marked marked.
LEMMA BackFacts ==
  ASSUME TypeOK, NEW t \in Tab, nobarrier \/ (isblack(t) /\ barrierback(t)), heap' = heap
  PROVE  /\ \A v \in Obj \cup {Nil} : (Alive(v) => Alive(v)') /\ (Dark(v) => Dark(v)')
         /\ isblack(t)' => nobarrier
         /\ nobarrier => (isblack(t)' <=> isblack(t))
  <1>1. t \in Obj
    BY Values
  <1>2. \A x \in Obj : \/ marked'[x] = marked[x]
                       \/ x = t /\ marked[x] = "black" /\ marked'[x] = "gray"
    BY <1>1 DEF nobarrier, barrierback, isblack, TypeOK
  <1>3. \A v \in Obj \cup {Nil} : (Alive(v) => Alive(v)') /\ (Dark(v) => Dark(v)')
    BY <1>2 DEF Alive, Dark, Live, isdead, iswhite, White
  <1>4. isblack(t)' => nobarrier
    BY <1>1 DEF isblack, barrierback, TypeOK
  <1>5. nobarrier => (isblack(t)' <=> isblack(t))
    BY DEF nobarrier, isblack
  <1> QED BY <1>3, <1>4, <1>5

\* What storing the pair k, v in a node of t changes.
LEMMA StoreFacts ==
  ASSUME IInv, TypeOK', NEW t \in Tab, NEW n \in Node, NEW k \in Value, NEW v \in Value,
         StoreNode(t, n, k, v), t \in heap, ~isdead(t), Alive(k), Alive(v),
         nobarrier \/ (isblack(t) /\ barrierback(t))
  PROVE  /\ UNCHANGED <<gcstate, aphase, tosweep, sweepstr, strmask, mmudata, heap, stack,
                     fuv, uvclosed, uvth, uvslot, uvtv, udmt, gcroot, cur>>
         /\ \A x \in Tab \ {t} :
              tmeta'[x] = tmeta[x] /\ tkey'[x] = tkey[x] /\ tval'[x] = tval[x]
         /\ tmeta'[t] = tmeta[t]
         /\ \A m \in Node : /\ tkey'[t][m] = IF m = n THEN (IF v = Nil THEN Nil ELSE k)
                                             ELSE tkey[t][m]
                            /\ tval'[t][m] = IF m = n THEN v ELSE tval[t][m]
         /\ Alive(tmeta[t])'
         /\ \A m \in Node : Alive(tkey[t][m])' /\ Alive(tval[t][m])'
         /\ \A m \in Node : tval'[t][m] = Nil => tkey'[t][m] = Nil
  <1>1. UNCHANGED <<gcstate, aphase, tosweep, sweepstr, strmask, mmudata, heap, stack,
                     fuv, uvclosed, uvth, uvslot, uvtv, udmt, gcroot, cur, tmeta>>
    BY DEF StoreNode, gcvars, gcdata, uvvars, execvars
  <1>2. TypeOK
    BY DEF IInv
  <1>3. \A x \in Tab \ {t} : tkey'[x] = tkey[x] /\ tval'[x] = tval[x]
    BY <1>2 DEF StoreNode, TypeOK
  <1>4. \A m \in Node : /\ tkey'[t][m] = IF m = n THEN (IF v = Nil THEN Nil ELSE k)
                                         ELSE tkey[t][m]
                        /\ tval'[t][m] = IF m = n THEN v ELSE tval[t][m]
    BY <1>2 DEF StoreNode, TypeOK
  <1>5. \A x \in Obj \cup {Nil} : Alive(x) => Alive(x)'
    BY <1>1, <1>2, BackFacts
  <1>6. /\ Alive(tmeta[t]) /\ tmeta[t] \in Obj \cup {Nil}
        /\ k \in Obj \cup {Nil} /\ v \in Obj \cup {Nil}
        /\ \A m \in Node : /\ Alive(tkey[t][m]) /\ tkey[t][m] \in Obj \cup {Nil}
                           /\ Alive(tval[t][m]) /\ tval[t][m] \in Obj \cup {Nil}
    BY <1>2, Types, Values DEF IInv, RefsLive
  <1>7. Alive(Nil)'
    BY DEF Alive
  <1>8. Alive(tmeta[t])'
    BY <1>1, <1>5, <1>6 DEF Alive, Live, isdead
  <1>9. \A m \in Node : Alive(tkey[t][m])' /\ Alive(tval[t][m])'
    BY <1>4, <1>5, <1>6 DEF Alive, Live, isdead
  <1>10. \A m \in Node : tval'[t][m] = Nil => tkey'[t][m] = Nil
    BY <1>4 DEF IInv, Shape
  <1> QED BY <1>1, <1>3, <1>4, <1>8, <1>9, <1>10

\* A store to a table, with lj_gc_barrierback().
LEMMA TabSetInv ==
  ASSUME IInv, TypeOK', NEW t \in Tab, NEW n \in Node, NEW k \in Value, NEW v \in Value,
         TabSet(t, n, k, v)
  PROVE  IInv'
  <1>1. /\ t \in heap /\ ~isdead(t) /\ Alive(k) /\ Alive(v) /\ aphase = "none" /\ TypeOK
        /\ StoreNode(t, n, k, v)
    BY OperandLive, Values DEF TabSet, Alive, MutatorRuns, IInv
  <1>2. nobarrier \/ (isblack(t) /\ barrierback(t))
    BY DEF TabSet, anybarriert
  <1>3. ~isblack(t)'
    BY <1>1, Values DEF TabSet, anybarriert, barrierback, nobarrier, isblack, TypeOK
  <1> QED BY <1>1, <1>2, <1>3, StoreFacts, TabStep

\* lua_rawseti(), with a barrier for white values only.
LEMMA RawSetIInv ==
  ASSUME IInv, TypeOK', NEW t \in Tab, NEW n \in Node, NEW v \in Value, RawSetI(t, n, v)
  PROVE  IInv'
  <1>1. /\ t \in heap /\ ~isdead(t) /\ Alive(Nil) /\ Alive(v) /\ aphase = "none" /\ TypeOK
        /\ StoreNode(t, n, Nil, v) /\ Nil \in Value
    BY OperandLive, Values DEF RawSetI, Alive, MutatorRuns, IInv, Value
  <1>2. nobarrier \/ (isblack(t) /\ barrierback(t))
    BY DEF RawSetI, barriert
  <1>3. /\ tmeta'[t] = tmeta[t] /\ heap' = heap
        /\ \A m \in Node : /\ tkey'[t][m] = IF m = n THEN (IF v = Nil THEN Nil ELSE Nil)
                                            ELSE tkey[t][m]
                           /\ tval'[t][m] = IF m = n THEN v ELSE tval[t][m]
    BY <1>1, <1>2, StoreFacts
  <1>4. ASSUME isblack(t)', Marking
        PROVE  Dark(tmeta[t])' /\ \A m \in Node : Dark(tkey[t][m])' /\ Dark(tval[t][m])'
    <2>1. isblack(t) /\ nobarrier
      BY <1>1, <1>2, <1>3, <1>4, BackFacts
    <2>2. Dark(v)
      <3>1. ~barrierback(t)
        BY <1>1, <1>4, Values DEF barrierback, isblack, TypeOK
      <3> QED BY <2>1, <3>1 DEF RawSetI, barriert, Dark
    <2>3. /\ Dark(tmeta[t]) /\ tmeta[t] \in Obj \cup {Nil} /\ v \in Obj \cup {Nil}
          /\ \A m \in Node : /\ Dark(tkey[t][m]) /\ tkey[t][m] \in Obj \cup {Nil}
                             /\ Dark(tval[t][m]) /\ tval[t][m] \in Obj \cup {Nil}
      BY <1>1, <1>4, <2>1, Types, Values DEF IInv, BlackDark
    <2>4. \A x \in Obj \cup {Nil} : Dark(x) => Dark(x)'
      BY <1>1, <1>2, <1>3, BackFacts
    <2> QED BY <1>3, <2>2, <2>3, <2>4 DEF Dark, iswhite
  <1> QED BY <1>1, <1>2, <1>4, StoreFacts, TabStep

\* lua_setmetatable() of a table, with its barrier.
LEMMA SetMetatableInv ==
  ASSUME IInv, TypeOK', NEW t \in Tab, NEW m \in Tab \cup {Nil}, SetMetatable(t, m)
  PROVE  IInv'
  <1>1. /\ t \in heap /\ ~isdead(t) /\ Alive(m) /\ aphase = "none" /\ TypeOK
    BY OperandLive, Values DEF SetMetatable, Alive, MutatorRuns, IInv
  <1>2. nobarrier \/ (isblack(t) /\ barrierback(t))
    BY DEF SetMetatable, barriert
  <1>3. /\ UNCHANGED <<gcstate, aphase, tosweep, sweepstr, strmask, mmudata, heap, stack,
                     fuv, uvclosed, uvth, uvslot, uvtv, udmt, gcroot, cur, tkey, tval>>
        /\ \A x \in Tab : tmeta'[x] = IF x = t THEN m ELSE tmeta[x]
    BY <1>1 DEF SetMetatable, gcvars, gcdata, uvvars, execvars, TypeOK
  <1>4. /\ m \in Obj \cup {Nil}
        /\ \A n \in Node : /\ Alive(tkey[t][n]) /\ tkey[t][n] \in Obj \cup {Nil}
                           /\ Alive(tval[t][n]) /\ tval[t][n] \in Obj \cup {Nil}
    BY <1>1, Types, Values DEF IInv, RefsLive
  <1>5. \A x \in Obj \cup {Nil} : (Alive(x) => Alive(x)') /\ (Dark(x) => Dark(x)')
    BY <1>1, <1>2, <1>3, BackFacts
  <1>6. Alive(tmeta[t])' /\ \A n \in Node : Alive(tkey[t][n])' /\ Alive(tval[t][n])'
    BY <1>1, <1>3, <1>4, <1>5 DEF Alive, Live, isdead
  <1>7. \A n \in Node : tval'[t][n] = Nil => tkey'[t][n] = Nil
    BY <1>3 DEF IInv, Shape
  <1>8. ASSUME isblack(t)', Marking
        PROVE  Dark(tmeta[t])' /\ \A n \in Node : Dark(tkey[t][n])' /\ Dark(tval[t][n])'
    <2>1. isblack(t) /\ nobarrier
      BY <1>1, <1>2, <1>3, <1>8, BackFacts
    <2>2. Dark(m)
      <3>1. ~barrierback(t)
        BY <1>1, <1>8, Values DEF barrierback, isblack, TypeOK
      <3> QED BY <2>1, <3>1 DEF SetMetatable, barriert, Dark
    <2>3. \A n \in Node : Dark(tkey[t][n]) /\ Dark(tval[t][n])
      BY <1>8, <2>1 DEF IInv, BlackDark
    <2> QED BY <1>3, <1>4, <1>5, <2>2, <2>3 DEF Dark, iswhite
  <1> QED BY <1>1, <1>2, <1>3, <1>6, <1>7, <1>8, TabStep

\* gc_mark() of S takes the whites of S, and the white value of an upvalue and
\* the white metatable of a userdata it takes.
LEMMA MarkFacts ==
  ASSUME TypeOK, NEW S
  PROVE  /\ \A x \in MarkW(S) : x \in Obj /\ iswhite(x)
         /\ \A x \in S : x \in Obj /\ iswhite(x) => x \in MarkW(S)
         /\ \A u \in MarkW(S) \cap Upval : u \in S /\ (Dark(uvval(u)) \/ uvval(u) \in MarkW(S))
         /\ \A d \in MarkW(S) \cap Udata : Dark(udmt[d]) \/ udmt[d] \in MarkW(S)
         /\ \A x \in MarkW(S) : \/ x \in S
                                \/ \E u \in S \cap Upval : x = uvval(u)
                                \/ \E d \in MarkW(S) \cap Udata : x = udmt[d] /\ x \in Tab
         /\ \A d \in MarkW(S) \cap Udata : d \in S \/ \E u \in S \cap Upval : d = uvval(u)
  <1> DEFINE a == {o \in S \cap Obj : iswhite(o)}
             b == a \cup {o \in {uvval(u) : u \in a \cap Upval} \cap Obj : iswhite(o)}
             c == b \cup {o \in {udmt[d] : d \in b \cap Udata} \cap Obj : iswhite(o)}
  <1>1. MarkW(S) = c
    BY DEF MarkW
  <1>2. \A u \in Upval : uvval(u) \in Value /\ uvval(u) \notin Upval
                         /\ (uvval(u) = Nil \/ uvval(u) \in Obj)
    BY UvalType, Values
  <1>3. \A d \in Udata : udmt[d] \in Tab \cup {Nil}
    BY DEF TypeOK
  <1>4. \A d \in Udata : udmt[d] \notin Upval /\ udmt[d] \notin Udata
                         /\ (udmt[d] = Nil \/ udmt[d] \in Obj)
    <2>1. Tab \cap Upval = {} /\ Tab \cap Udata = {} /\ Nil \notin Obj
      BY TypesDisjoint, ConstAssumption
    <2> QED BY <1>3, <2>1, Values
  <1>5. \A x \in c : x \in Obj /\ iswhite(x)
    OBVIOUS
  <1>6. \A x \in S : x \in Obj /\ iswhite(x) => x \in c
    OBVIOUS
  <1>7. \A u \in c \cap Upval : u \in a
    BY <1>2, <1>4
  <1>8. \A d \in c \cap Udata : d \in b
    BY <1>4
  <1>9. \A u \in c \cap Upval : u \in S /\ (Dark(uvval(u)) \/ uvval(u) \in c)
    BY <1>2, <1>7 DEF Dark
  <1>10. \A d \in c \cap Udata : Dark(udmt[d]) \/ udmt[d] \in c
    BY <1>4, <1>8 DEF Dark
  <1>11. \A x \in b : x \in S \/ \E u \in S \cap Upval : x = uvval(u)
    OBVIOUS
  <1>12. \A x \in c : x \in b \/ \E d \in c \cap Udata : x = udmt[d] /\ x \in Tab
    BY <1>3, Values
  <1> QED BY <1>1, <1>5, <1>6, <1>8, <1>9, <1>10, <1>11, <1>12

\* When no object is dead, marking allocated objects meets only such.
LEMMA MarkHeap ==
  ASSUME IInv, \A o \in heap : ~isdead(o), NEW S, \A x \in S : x \in Obj => x \in heap
  PROVE  MarkW(S) \subseteq heap
  <1>0. TypeOK
    BY DEF IInv
  <1>1. \A u \in S \cap Upval : uvval(u) \in Obj => uvval(u) \in heap
    BY Values DEF IInv, RefsLive, Alive, Live
  <1>2. \A d \in MarkW(S) \cap Udata : d \in heap
    BY <1>0, <1>1, MarkFacts, Values
  <1>3. \A d \in MarkW(S) \cap Udata : udmt[d] \in Obj => udmt[d] \in heap
    BY <1>2, Values DEF IInv, RefsLive, Alive, Live
  <1> QED BY <1>0, <1>1, <1>3, MarkFacts

\* W is closed under what gc_mark() passes the mark on to.
MarkClosed(W) ==
  /\ W \subseteq heap /\ \A x \in W : iswhite(x)
  /\ \A u \in W \cap Upval : Dark(uvval(u)) \/ uvval(u) \in W
  /\ \A d \in W \cap Udata : Dark(udmt[d]) \/ udmt[d] \in W

\* Marking S yields such a set.
LEMMA MarkIsClosed ==
  ASSUME IInv, \A o \in heap : ~isdead(o), NEW S, \A x \in S : x \in Obj => x \in heap
  PROVE  /\ MarkClosed(MarkW(S))
         /\ \A x \in S : x \in Obj => ~iswhite(x) \/ x \in MarkW(S)
  <1>1. TypeOK
    BY DEF IInv
  <1> QED BY <1>1, MarkHeap, MarkFacts DEF MarkClosed

\* The new colors: those of X apart, the objects of W have been marked.
Recolored(W, X) ==
  /\ \A x \in X : marked'[x] \in {"gray", "black"}
  /\ \A x \in Obj \ X : marked'[x] = IF x \in W THEN MarkColor(x) ELSE marked[x]

\* What marking does to the colors: nothing marked turns white, what W refers
\* to through upvalues and userdata is marked, only these turn black.
LEMMA Marks ==
  ASSUME TypeOK, NEW W, NEW X, MarkClosed(W), X \subseteq heap, Recolored(W, X)
  PROVE  /\ \A x \in Obj : /\ ~iswhite(x) => ~iswhite(x)'
                           /\ isdead(x)' => isdead(x)
                           /\ x \in W => ~iswhite(x)'
                           /\ x \notin heap => marked'[x] = marked[x]
         /\ \A v \in Obj \cup {Nil} : Dark(v) \/ v \in W => Dark(v)'
         /\ \A x \in Obj \ X :
              /\ isgray(x) => isgray(x)'
              /\ isgray(x)' => isgray(x) \/ (x \in W /\ MarkColor(x) = "gray")
              /\ isblack(x)' => isblack(x) \/ (x \in W /\ MarkColor(x) = "black")
         /\ \A u \in W \cap Upval : \A v : v = uvval(u) => Dark(v)'
         /\ \A d \in W \cap Udata : \A v : v = udmt[d] => Dark(v)'
  <1>1. W \subseteq Obj /\ X \subseteq Obj /\ \A x \in W : iswhite(x)
    BY DEF MarkClosed, TypeOK
  <1>2. \A x \in Obj : MarkColor(x) \in {"gray", "black"}
    BY DEF MarkColor
  <1>3. \A x \in Obj : /\ ~iswhite(x) => ~iswhite(x)'
                       /\ isdead(x)' => isdead(x)
                       /\ x \in W => ~iswhite(x)'
                       /\ x \notin heap => marked'[x] = marked[x]
    BY <1>1, <1>2 DEF Recolored, iswhite, isdead, White, MarkClosed
  <1>4. \A v \in Obj \cup {Nil} : Dark(v) \/ v \in W => Dark(v)'
    BY <1>1, <1>3 DEF Dark
  <1>5. \A x \in Obj \ X :
              /\ isgray(x) => isgray(x)'
              /\ isgray(x)' => isgray(x) \/ (x \in W /\ MarkColor(x) = "gray")
              /\ isblack(x)' => isblack(x) \/ (x \in W /\ MarkColor(x) = "black")
    BY <1>1, <1>2 DEF Recolored, iswhite, White, isgray, isblack
  <1>6. \A u \in W \cap Upval : \A v : v = uvval(u) => Dark(v)'
    BY <1>4, Types DEF MarkClosed
  <1>7. \A d \in W \cap Udata : \A v : v = udmt[d] => Dark(v)'
    BY <1>4, Types DEF MarkClosed
  <1> QED BY <1>3, <1>4, <1>5, <1>6, <1>7

\* A step of the mark phase that frees nothing: the fields keep to the heap.
LEMMA MarkSafe ==
  ASSUME IInv, TypeOK', Marking', \A o \in heap : ~isdead(o), heap' = heap,
         NEW W, NEW X, MarkClosed(W), X \subseteq heap, Recolored(W, X),
         UNCHANGED <<tkey, tval, tmeta, gcroot, cur>>,
         aphase' # "none" => gcstate' = "atomic",
         mmudata' \subseteq heap,
         \A t \in Thread, i \in Slot : stack'[t][i] = stack[t][i] \/ stack'[t][i] = Nil,
         \A f \in Func : fuv'[f] = fuv[f] \/ (f \in heap /\ fuv'[f] \in Upval \cap heap),
         \A d \in Udata : udmt'[d] = udmt[d] \/ (d \in heap /\ udmt'[d] \in heap \cup {Nil}),
         \A u \in Upval :
           \/ uvclosed'[u] = uvclosed[u] /\ uvth'[u] = uvth[u] /\ uvslot'[u] = uvslot[u]
              /\ uvtv'[u] = uvtv[u]
           \/ u \in heap /\ uvclosed'[u] /\ uvtv'[u] \in heap \cup {Nil}
  PROVE  Empty' /\ Shape' /\ RefsLive' /\ RootsLive' /\ SweepProgress' /\ SweepComplete'
  <1>0. TypeOK /\ heap \subseteq Obj
    BY DEF IInv, TypeOK
  <1>1. \A x \in Obj : (isdead(x)' => isdead(x)) /\ (x \notin heap => marked'[x] = marked[x])
    BY <1>0, Marks
  <1>2. \A x \in Obj : ~isdead(x)
    BY DEF IInv, Empty, isdead
  <1>3. \A v : v \in heap \cup {Nil} => Alive(v)'
    BY <1>0, <1>1, <1>2 DEF Alive, Live
  <1>4. \A v : Alive(v) => v \in heap \cup {Nil}
    BY DEF Alive, Live
  <1>5. Empty'
    BY <1>1 DEF IInv, Empty
  <1>6. Shape'
    BY DEF IInv, Shape
  <1>7. RefsLive'
    <2>1. \A t \in Thread : \A i \in Slot : stack[t][i] \in heap \cup {Nil}
      BY <1>2, <1>4, Values DEF IInv, RefsLive
    <2>2. \A t \in Thread : \A i \in Slot : Alive(stack[t][i])'
      BY <2>1, <1>3 DEF Alive, Live, isdead
    <2>3. \A t \in Tab : Alive(tmeta[t])' /\ \A n \in Node : Alive(tkey[t][n])' /\ Alive(tval[t][n])'
      <3>1. \A t \in Tab : /\ tmeta[t] \in heap \cup {Nil}
                           /\ \A n \in Node : /\ tkey[t][n] \in heap \cup {Nil}
                                              /\ tval[t][n] \in heap \cup {Nil}
        BY <1>2, <1>4, Values DEF IInv, RefsLive
      <3> QED BY <3>1, <1>3 DEF Alive, Live, isdead
    <2>4. \A f \in Func : Alive(fuv[f])'
      <3>1. \A f \in Func : fuv[f] \in heap \cup {Nil}
        BY <1>2, <1>4, Values DEF IInv, RefsLive
      <3>2. \A f \in Func : fuv'[f] \in heap \cup {Nil}
        BY <3>1
      <3> QED BY <3>2, <1>3 DEF Alive, Live, isdead
    <2>5. \A u \in Upval : Alive(uvval(u))'
      <3>1. \A u \in Upval : /\ uvclosed[u] => uvtv[u] \in heap \cup {Nil}
                             /\ uvth[u] \in Thread /\ uvslot[u] \in Slot
        <4>1. \A u \in Upval : uvval(u) \in heap \cup {Nil}
          BY <1>2, <1>4, Values DEF IInv, RefsLive
        <4> QED BY <4>1, <1>0, Types DEF uvval
      <3>2. \A u \in Upval : uvval(u)' \in heap \cup {Nil}
        BY <3>1, <2>1 DEF uvval
      <3> QED BY <3>2, <1>3 DEF Alive, Live, isdead
    <2>6. \A d \in Udata : Alive(udmt[d])'
      <3>1. \A d \in Udata : udmt[d] \in heap \cup {Nil}
        BY <1>2, <1>4, Values DEF IInv, RefsLive
      <3>2. \A d \in Udata : udmt'[d] \in heap \cup {Nil}
        BY <3>1
      <3> QED BY <3>2, <1>3 DEF Alive, Live, isdead
    <2> QED BY <2>2, <2>3, <2>4, <2>5, <2>6 DEF RefsLive
  <1>8. RootsLive'
    <2>1. \A v \in heap : Live(v)'
      BY <1>0, <1>1 DEF Live
    <2>2. Main \in heap /\ Registry \in heap /\ cur \in heap
      BY DEF IInv, RootsLive, Live
    <2>3. gcroot \in heap \cup {Nil}
      BY <1>4 DEF IInv, RootsLive
    <2> QED BY <2>1, <2>2, <2>3, <1>3 DEF RootsLive, Alive, Live, isdead
  <1>9. SweepProgress' /\ SweepComplete'
    BY <1>0, <1>1 DEF SweepProgress, SweepComplete, Marking
  <1> QED BY <1>5, <1>6, <1>7, <1>8, <1>9

\* A step of the mark phase that only marks.
LEMMA MarkOnly ==
  ASSUME IInv, TypeOK', Marking', \A o \in heap : ~isdead(o),
         NEW W, NEW X, MarkClosed(W), X \subseteq heap, Recolored(W, X),
         UNCHANGED <<heap, stack, tkey, tval, tmeta, fuv, udmt,
                     uvclosed, uvth, uvslot, uvtv, gcroot, cur>>,
         aphase' # "none" => gcstate' = "atomic",
         mmudata' \subseteq heap
  PROVE  Empty' /\ Shape' /\ RefsLive' /\ RootsLive' /\ SweepProgress' /\ SweepComplete'
  <1>1. /\ \A t \in Thread, i \in Slot : stack'[t][i] = stack[t][i] \/ stack'[t][i] = Nil
        /\ \A f \in Func : fuv'[f] = fuv[f] \/ (f \in heap /\ fuv'[f] \in Upval \cap heap)
        /\ \A d \in Udata : udmt'[d] = udmt[d] \/ (d \in heap /\ udmt'[d] \in heap \cup {Nil})
        /\ \A u \in Upval :
              \/ uvclosed'[u] = uvclosed[u] /\ uvth'[u] = uvth[u] /\ uvslot'[u] = uvslot[u]
                 /\ uvtv'[u] = uvtv[u]
              \/ u \in heap /\ uvclosed'[u] /\ uvtv'[u] \in heap \cup {Nil}
    OBVIOUS
  <1> QED BY <1>1, MarkSafe

\* A step of the mark phase keeps the tri-color invariant, if it does for the
\* objects X and for the fields it changes.
LEMMA MarkBlack ==
  ASSUME IInv, TypeOK', Marking,
         NEW W, NEW X, MarkClosed(W), X \subseteq heap, Recolored(W, X),
         UNCHANGED <<tkey, tval, tmeta>>,
         \A t \in Tab \cap X : isblack(t)' =>
           Dark(tmeta[t])' /\ \A n \in Node : Dark(tkey[t][n])' /\ Dark(tval[t][n])',
         \A f \in Func : isblack(f)' => (f \notin X /\ fuv'[f] = fuv[f]) \/ Dark(fuv[f])',
         \A u \in Upval : isblack(u)' =>
           (u \notin X /\ uvtv'[u] = uvtv[u]) \/ Dark(uvtv[u])',
         \A d \in Udata \ mmudata' : isblack(d)' =>
           (d \notin X /\ d \notin mmudata /\ udmt'[d] = udmt[d]) \/ Dark(udmt[d])'
  PROVE  BlackDark'
  <1>0. TypeOK
    BY DEF IInv
  <1>1. /\ \A x \in Obj : ~iswhite(x) => ~iswhite(x)'
        /\ \A v \in Obj \cup {Nil} : Dark(v) => Dark(v)'
        /\ \A x \in Obj \ X :
              isblack(x)' => isblack(x) \/ (x \in W /\ MarkColor(x) = "black")
        /\ \A u \in W \cap Upval : \A v : v = uvval(u) => Dark(v)'
        /\ \A d \in W \cap Udata : \A v : v = udmt[d] => Dark(v)'
    BY <1>0, Marks
  <1>2. BlackDark!2
    BY DEF IInv, BlackDark
  <1>3. \A t \in Tab : isblack(t)' =>
          Dark(tmeta[t])' /\ \A n \in Node : Dark(tkey[t][n])' /\ Dark(tval[t][n])'
    <2> SUFFICES ASSUME NEW t \in Tab \ X, isblack(t)'
                 PROVE  /\ Dark(tmeta[t])'
                        /\ \A n \in Node : Dark(tkey[t][n])' /\ Dark(tval[t][n])'
      OBVIOUS
    <2>1. MarkColor(t) = "gray"
      BY TypesDisjoint DEF MarkColor
    <2>2. isblack(t)
      BY <1>1, <2>1, Values
    <2>3. /\ Dark(tmeta[t]) /\ tmeta[t] \in Obj \cup {Nil}
          /\ \A n \in Node : /\ Dark(tkey[t][n]) /\ tkey[t][n] \in Obj \cup {Nil}
                             /\ Dark(tval[t][n]) /\ tval[t][n] \in Obj \cup {Nil}
      BY <1>0, <1>2, <2>2, Types
    <2> QED BY <1>1, <2>3 DEF Dark, iswhite
  <1>4. \A f \in Func : isblack(f)' => Dark(fuv[f])'
    <2> SUFFICES ASSUME NEW f \in Func, isblack(f)', f \notin X, fuv'[f] = fuv[f]
                 PROVE  Dark(fuv[f])'
      OBVIOUS
    <2>1. MarkColor(f) = "gray"
      BY TypesDisjoint DEF MarkColor
    <2>2. isblack(f)
      BY <1>1, <2>1, Values
    <2>3. Dark(fuv[f]) /\ fuv[f] \in Obj \cup {Nil}
      BY <1>0, <1>2, <2>2, Types
    <2> QED BY <1>1, <2>3 DEF Dark, iswhite
  <1>5. \A u \in Upval : isblack(u)' => Dark(uvtv[u])'
    <2> SUFFICES ASSUME NEW u \in Upval, isblack(u)', u \notin X, uvtv'[u] = uvtv[u]
                 PROVE  Dark(uvtv[u])'
      OBVIOUS
    <2>1. CASE isblack(u)
      BY <1>0, <1>1, <1>2, <2>1, Types DEF Dark, iswhite
    <2>2. CASE u \in W /\ MarkColor(u) = "black"
      <3>1. uvclosed[u]
        BY <2>2, TypesDisjoint DEF MarkColor
      <3>2. uvval(u) = uvtv[u]
        BY <3>1 DEF uvval
      <3> QED BY <1>1, <2>2, <3>2 DEF Dark, iswhite
    <2> QED BY <1>1, <2>1, <2>2, Values
  <1>6. \A d \in Udata \ mmudata' : isblack(d)' => Dark(udmt[d])'
    <2> SUFFICES ASSUME NEW d \in Udata \ mmudata', isblack(d)', d \notin X,
                        d \notin mmudata, udmt'[d] = udmt[d]
                 PROVE  Dark(udmt[d])'
      OBVIOUS
    <2>1. CASE isblack(d)
      BY <1>0, <1>1, <1>2, <2>1, Types DEF Dark, iswhite
    <2>2. CASE d \in W
      BY <1>1, <2>2 DEF Dark, iswhite
    <2> QED BY <1>1, <2>1, <2>2, Values
  <1>7. Dark(Main)' /\ Dark(Registry)'
    BY <1>0, <1>1, <1>2, Types
  <1> QED BY <1>3, <1>4, <1>5, <1>6, <1>7 DEF BlackDark

\* A step that puts what it marks in the gray list, and touches no object of
\* the lists besides, keeps the lists and their colors.
LEMMA MarkLists ==
  ASSUME IInv, TypeOK', Marking, Marking', heap' = heap,
         NEW W, NEW X, MarkClosed(W), X \subseteq heap, Recolored(W, X),
         X \cap Listed = {},
         gray' = gray \cup (W \cap Listed), UNCHANGED <<grayagain, weak>>,
         \A u \in Upval : IF uvclosed'[u] THEN ~isgray(u)' ELSE ~isblack(u)',
         \A d \in Udata \cap X : ~isgray(d)'
  PROVE  Colors' /\ ListsSound'
  <1>0. TypeOK /\ Listed \subseteq Obj /\ Thread \cup Weak \subseteq Listed
    BY ConstAssumption DEF IInv, Listed, Obj, Weak
  <1>1. \A x \in Obj \ X :
              /\ isgray(x) => isgray(x)'
              /\ isgray(x)' => isgray(x) \/ (x \in W /\ MarkColor(x) = "gray")
              /\ isblack(x)' => isblack(x) \/ (x \in W /\ MarkColor(x) = "black")
    BY <1>0, Marks
  <1>2. \A x \in Listed : MarkColor(x) = "gray"
    BY TypesDisjoint DEF MarkColor, Listed
  <1>3. \A d \in Udata : MarkColor(d) = "black"
    BY DEF MarkColor
  <1>4. \A x \in Listed : /\ x \in W => isgray(x)' /\ x \notin gray \cup grayagain \cup weak
                          /\ isgray(x) => isgray(x)'
                          /\ isgray(x)' => isgray(x) \/ x \in W
                          /\ isblack(x)' => isblack(x)
    <2>1. \A x \in Listed : x \in W => marked'[x] = "gray" /\ iswhite(x)
      BY <1>0, <1>2 DEF Recolored, MarkClosed
    <2>2. \A x \in gray \cup grayagain \cup weak : ~iswhite(x)
      BY DEF IInv, ListsSound, isgray, iswhite, White
    <2>3. \A x \in Listed : x \in Obj \ X
      BY <1>0
    <2> QED BY <1>1, <1>2, <2>1, <2>2, <2>3 DEF isgray
  <1>5. \A d \in Udata : ~isgray(d)'
    BY <1>1, <1>3, Values DEF IInv, Colors
  <1>6. Colors'
    BY <1>0, <1>4, <1>5 DEF IInv, Colors
  <1>7. \A x \in gray \cup grayagain \cup weak : x \in Listed /\ x \in heap /\ isgray(x)
    <2>1. gray \cup grayagain \cup weak \subseteq Listed
      BY <1>0 DEF IInv, Colors, Listed
    <2> QED BY <2>1 DEF IInv, ListsSound
  <1>8. ListsSound'
    <2>1. W \subseteq heap
      BY DEF MarkClosed
    <2> QED BY <1>4, <1>7, <2>1 DEF IInv, ListsSound
  <1> QED BY <1>6, <1>8

\* A store of something alive into a closure, a closed upvalue or a userdata,
\* with the forward barrier: it marks what is stored, or in the sweep phase
\* turns the object white.
LEMMA ForwardStep ==
  ASSUME IInv, TypeOK', aphase = "none",
         NEW o \in Func \cup Upval \cup Udata, NEW v \in Obj \cup {Nil},
         Live(o), Alive(v), objbarrier(o, v),
         UNCHANGED <<gcstate, aphase, tosweep, sweepstr, strmask, mmudata, heap, stack,
                     tkey, tval, tmeta, uvclosed, uvth, uvslot, gcroot, cur>>,
         \A f \in Func : fuv'[f] = IF f = o THEN v ELSE fuv[f],
         \A u \in Upval : uvtv'[u] = IF u = o THEN v ELSE uvtv[u],
         \A d \in Udata : udmt'[d] = IF d = o THEN v ELSE udmt[d],
         o \in Func => v \in Upval, o \in Upval => uvclosed[o]
  PROVE  IInv'
  <1>0. TypeOK /\ o \in Obj /\ o \in heap /\ ~isdead(o) /\ o \notin Listed \ Func
    BY Values, TypesDisjoint DEF IInv, Live, Listed
  <1>1. Marking' <=> Marking
    BY DEF Marking
  <1>2. AtomicDark'
    BY DEF AtomicDark
  <1>3. CASE Marking /\ v # Nil /\ iswhite(v) /\ isblack(o)
    <2>1. \A x \in heap : ~isdead(x)
      BY <1>3 DEF IInv, SweepComplete, Marking
    <2>2. PICK W : W = MarkW({v})
      OBVIOUS
    <2>3. v \in heap
      BY <1>3 DEF Alive, Live
    <2>4. MarkClosed(W) /\ (~iswhite(v) \/ v \in W)
      <3>1. \A x \in {v} : x \in Obj => x \in heap
        BY <2>3
      <3>2. /\ MarkClosed(MarkW({v}))
            /\ \A x \in {v} : x \in Obj => ~iswhite(x) \/ x \in MarkW({v})
        BY <2>1, <3>1, MarkIsClosed
      <3> QED BY <1>3, <2>2, <3>2
    <2>5. /\ Recolored(W, {}) /\ gray' = gray \cup (W \cap Listed)
          /\ UNCHANGED <<grayagain, weak>>
      BY <1>3, <2>2 DEF objbarrier, barrierf, MarkedBy, GrayBy, Recolored, Listed
    <2>6. Empty' /\ Shape' /\ RefsLive' /\ RootsLive' /\ SweepProgress' /\ SweepComplete'
      <3>1. mmudata' \subseteq heap
        BY DEF IInv, RootsLive, Live
      <3>2. aphase' # "none" => gcstate' = "atomic"
        OBVIOUS
      <3>3. \A t \in Thread, i \in Slot : stack'[t][i] = stack[t][i] \/ stack'[t][i] = Nil
        OBVIOUS
      <3>4. \A f \in Func : fuv'[f] = fuv[f] \/ (f \in heap /\ fuv'[f] \in Upval \cap heap)
        BY <1>0, <2>3
      <3>5. \A d \in Udata : udmt'[d] = udmt[d] \/ (d \in heap /\ udmt'[d] \in heap \cup {Nil})
        BY <1>0, <2>3
      <3>6. \A u \in Upval :
              \/ uvclosed'[u] = uvclosed[u] /\ uvth'[u] = uvth[u] /\ uvslot'[u] = uvslot[u]
                 /\ uvtv'[u] = uvtv[u]
              \/ u \in heap /\ uvclosed'[u] /\ uvtv'[u] \in heap \cup {Nil}
        BY <1>0, <2>3
      <3> QED BY <1>1, <1>3, <2>1, <2>4, <2>5, <3>1, <3>2, <3>3, <3>4, <3>5, <3>6, MarkSafe
    <2>7. /\ Dark(v)'
          /\ \A x \in Obj : /\ isgray(x)' => isgray(x) \/ (x \in W /\ MarkColor(x) = "gray")
                            /\ isblack(x)' => isblack(x) \/ (x \in W /\ MarkColor(x) = "black")
      BY <1>0, <2>4, <2>5, Marks DEF Dark
    <2>8. BlackDark'
      <3>1. \A f \in Func : isblack(f)' => (f \notin {} /\ fuv'[f] = fuv[f]) \/ Dark(fuv[f])'
        BY <2>7 DEF Dark, iswhite
      <3>2. \A u \in Upval : isblack(u)' =>
              (u \notin {} /\ uvtv'[u] = uvtv[u]) \/ Dark(uvtv[u])'
        BY <2>7 DEF Dark, iswhite
      <3>3. \A d \in Udata \ mmudata' : isblack(d)' =>
              (d \notin {} /\ d \notin mmudata /\ udmt'[d] = udmt[d]) \/ Dark(udmt[d])'
        BY <2>7 DEF Dark, iswhite
      <3> QED BY <1>3, <2>4, <2>5, <3>1, <3>2, <3>3, MarkBlack
    <2>9. Colors' /\ ListsSound'
      <3>1. \A u \in Upval : IF uvclosed'[u] THEN ~isgray(u)' ELSE ~isblack(u)'
        BY <2>7, Values, TypesDisjoint DEF IInv, Colors, MarkColor
      <3> QED BY <1>1, <1>3, <2>4, <2>5, <3>1, MarkLists
    <2> QED BY <1>2, <2>6, <2>8, <2>9 DEF IInv
  <1>4. CASE ~(Marking /\ v # Nil /\ iswhite(v) /\ isblack(o))
    <2>1. /\ \A x \in Obj : \/ marked'[x] = marked[x]
                            \/ x = o /\ isblack(o) /\ marked'[x] = "white" /\ ~Marking
          /\ UNCHANGED <<gray, grayagain, weak>>
          /\ Marking => marked' = marked /\ (isblack(o) => Dark(v))
      <3>1. CASE v # Nil /\ iswhite(v) /\ isblack(o)
        BY <1>0, <1>4, <3>1 DEF objbarrier, barrierf, TypeOK
      <3>2. CASE ~(v # Nil /\ iswhite(v) /\ isblack(o))
        BY <3>2 DEF objbarrier, nobarrier, lists, Dark
      <3> QED BY <3>1, <3>2
    <2>2. \A x \in Obj : /\ isdead(x)' <=> isdead(x)
                         /\ Live(x) => Live(x)'
                         /\ isblack(x)' => isblack(x)
                         /\ isgray(x)' <=> isgray(x)
                         /\ marked[x] = "white" => marked'[x] = "white"
      BY <2>1 DEF isdead, Live, isblack, isgray
    <2>3. \A x \in Obj \cup {Nil} : Alive(x) => Alive(x)'
      BY <2>2 DEF Alive
    <2>4. Empty'
      <3>1. \A x \in Obj \ heap' : marked'[x] = "white"
        BY <2>2 DEF IInv, Empty
      <3> QED BY <3>1, <1>0 DEF IInv, Empty
    <2>5. Shape'
      BY DEF IInv, Shape
    <2>6. RefsLive'
      <3>1. \A t \in Thread : ~isdead(t)' => \A i \in Slot : Alive(stack[t][i])'
        BY <1>0, <2>2, <2>3, Values, Types DEF IInv, RefsLive, Alive, Live, isdead
      <3>2. \A t \in Tab : ~isdead(t)' =>
            /\ Alive(tmeta[t])'
            /\ \A n \in Node : Alive(tkey[t][n])' /\ Alive(tval[t][n])'
        BY <1>0, <2>2, <2>3, Values, Types DEF IInv, RefsLive, Alive, Live, isdead
      <3>3. \A f \in Func : ~isdead(f)' => Alive(fuv[f])'
        BY <1>0, <2>2, <2>3, Values, Types DEF IInv, RefsLive, Alive, Live, isdead
      <3>4. \A u \in Upval : ~isdead(u)' => Alive(uvval(u))'
        <4>1. \A u \in Upval : uvval(u)' = IF u = o THEN v ELSE uvval(u)
          BY DEF uvval
        <4> QED BY <1>0, <2>2, <2>3, <4>1, Values, Types DEF IInv, RefsLive, Alive, Live, isdead
      <3>5. \A d \in Udata : ~isdead(d)' => Alive(udmt[d])'
        BY <1>0, <2>2, <2>3, Values, Types DEF IInv, RefsLive, Alive, Live, isdead
      <3> QED BY <3>1, <3>2, <3>3, <3>4, <3>5 DEF RefsLive
    <2>7. RootsLive'
      BY <1>0, <2>2, <2>3, Types DEF IInv, RootsLive, Alive, Live, isdead
    <2>8. Colors' /\ ListsSound'
      <3>1. \A u \in Upval : IF uvclosed'[u] THEN ~isgray(u)' ELSE ~isblack(u)'
        BY <2>2, Values DEF IInv, Colors
      <3>2. \A d \in Udata : ~isgray(d)'
        BY <2>2, Values DEF IInv, Colors
      <3>3. Marking => Colors!3!2'
        BY <2>1 DEF IInv, Colors, isgray, isblack
      <3>4. ListsSound'
        BY <1>1, <2>1 DEF IInv, ListsSound, isgray
      <3> QED BY <1>1, <3>1, <3>2, <3>3, <3>4 DEF Colors
    <2>9. BlackDark'
      <3> SUFFICES ASSUME Marking PROVE BlackDark!2'
        BY <1>1 DEF BlackDark
      <3>1. BlackDark!2 /\ marked' = marked /\ (isblack(o) => Dark(v))
        BY <2>1 DEF IInv, BlackDark
      <3> QED BY <3>1 DEF Dark, iswhite, isblack
    <2>10. SweepProgress'
      <3> SUFFICES ASSUME gcstate \in {"sweepstring", "sweep"}, NEW x \in heap \ mmudata
                   PROVE  marked'[x] = "white" \/ Unswept(x)'
        BY DEF SweepProgress
      <3>1. marked[x] = "white" \/ Unswept(x)
        BY DEF IInv, SweepProgress
      <3>2. Unswept(x) => Unswept(x)'
        BY DEF Unswept
      <3>3. marked[x] = "white" => marked'[x] = "white"
        BY <1>0, <2>2 DEF TypeOK
      <3> QED BY <3>1, <3>2, <3>3
    <2>11. SweepComplete'
      <3>1. \A x \in heap : x \in Obj
        BY <1>0 DEF TypeOK
      <3> QED BY <2>2, <3>1 DEF IInv, SweepComplete
    <2> QED BY <1>2, <2>4, <2>5, <2>6, <2>7, <2>8, <2>9, <2>10, <2>11 DEF IInv
  <1> QED BY <1>3, <1>4

\* lua_setmetatable() of a userdata, with its barrier.
LEMMA UdSetMetatableInv ==
  ASSUME IInv, TypeOK', NEW d \in Udata, NEW m \in Tab \cup {Nil}, UdSetMetatable(d, m)
  PROVE  IInv'
  <1>0. TypeOK /\ d \notin Func /\ d \notin Upval /\ m \in Obj \cup {Nil}
    BY Values, TypesDisjoint DEF IInv
  <1>1. Live(d) /\ Alive(m) /\ aphase = "none" /\ objbarrier(d, m)
    BY OperandLive, Values DEF UdSetMetatable, Alive, Live, MutatorRuns
  <1>2. /\ UNCHANGED <<gcstate, aphase, tosweep, sweepstr, strmask, mmudata, heap, stack,
                     tkey, tval, tmeta, uvclosed, uvth, uvslot, gcroot, cur, fuv, uvtv>>
        /\ \A x \in Udata : udmt'[x] = IF x = d THEN m ELSE udmt[x]
    BY <1>0 DEF UdSetMetatable, gcvars, gcdata, tabvars, uvvars, execvars, TypeOK
  <1>3. /\ \A f \in Func : fuv'[f] = IF f = d THEN m ELSE fuv[f]
        /\ \A u \in Upval : uvtv'[u] = IF u = d THEN m ELSE uvtv[u]
    BY <1>0, <1>2
  <1> QED BY <1>0, <1>1, <1>2, <1>3, ForwardStep

\* lua_upvaluejoin(), with its barrier on the closure.
LEMMA UpvalueJoinInv ==
  ASSUME IInv, TypeOK', NEW f \in Func, NEW p \in Func, UpvalueJoin(f, p)
  PROVE  IInv'
  <1>0. TypeOK /\ f \notin Udata /\ f \notin Upval
    BY Values, TypesDisjoint DEF IInv
  <1>1. Live(f) /\ Live(p) /\ aphase = "none" /\ objbarrier(f, fuv[p])
    BY OperandLive, Values DEF UpvalueJoin, Live, MutatorRuns
  <1>2. PICK v : v = fuv[p]
    OBVIOUS
  <1>3. v \in Upval /\ Alive(v) /\ v \in Obj \cup {Nil}
    BY <1>1, <1>2, Values DEF IInv, Shape, RefsLive, Live
  <1>4. /\ UNCHANGED <<gcstate, aphase, tosweep, sweepstr, strmask, mmudata, heap, stack,
                     tkey, tval, tmeta, uvclosed, uvth, uvslot, gcroot, cur, udmt, uvtv>>
        /\ \A x \in Func : fuv'[x] = IF x = f THEN v ELSE fuv[x]
    BY <1>0, <1>2 DEF UpvalueJoin, gcvars, gcdata, tabvars, uvvars, execvars, TypeOK
  <1>5. /\ \A d \in Udata : udmt'[d] = IF d = f THEN v ELSE udmt[d]
        /\ \A u \in Upval : uvtv'[u] = IF u = f THEN v ELSE uvtv[u]
    BY <1>0, <1>4
  <1> QED BY <1>0, <1>1, <1>2, <1>3, <1>4, <1>5, ForwardStep

\* A store to an upvalue: to a stack slot, or with lj_gc_barrieruv().
LEMMA UvSetInv ==
  ASSUME IInv, TypeOK', NEW f \in Func, NEW v \in Value, UvSet(f, v)
  PROVE  IInv'
  <1>0. TypeOK /\ v \in Obj \cup {Nil}
    BY Values DEF IInv
  <1>1. Live(f) /\ Alive(v) /\ aphase = "none"
    BY OperandLive, Values DEF UvSet, Live, MutatorRuns
  <1>2. PICK u : u = fuv[f]
    OBVIOUS
  <1>3. u \in Upval /\ Live(u) /\ u \notin Func /\ u \notin Udata
    BY <1>1, <1>2, Values, TypesDisjoint DEF IInv, Shape, RefsLive, Live, Alive
  <1>4. UNCHANGED <<gcstate, aphase, tosweep, sweepstr, strmask, mmudata, heap,
                     tkey, tval, tmeta, uvclosed, uvth, uvslot, gcroot, cur, udmt, fuv>>
    BY DEF UvSet, gcvars, gcdata, tabvars, uvvars, execvars
  <1>5. CASE uvclosed[u]
    <2>1. objbarrier(u, v) /\ stack' = stack
      BY <1>2, <1>5 DEF UvSet
    <2>2. \A x \in Upval : uvtv'[x] = IF x = u THEN v ELSE uvtv[x]
      BY <1>0, <1>2, <1>5 DEF UvSet, TypeOK
    <2>3. /\ \A d \in Udata : udmt'[d] = IF d = u THEN v ELSE udmt[d]
          /\ \A g \in Func : fuv'[g] = IF g = u THEN v ELSE fuv[g]
      BY <1>3, <1>4
    <2> QED BY <1>0, <1>1, <1>3, <1>4, <1>5, <2>1, <2>2, <2>3, ForwardStep
  <1>6. CASE ~uvclosed[u]
    <2>1. /\ stack' = [stack EXCEPT ![uvth[u]][uvslot[u]] = v]
          /\ UNCHANGED <<marked, gray, grayagain, weak, uvtv>>
      BY <1>2, <1>6 DEF UvSet, nobarrier, lists
    <2>2. uvth[u] \in heap /\ uvth[u] \in Thread /\ uvslot[u] \in Slot
      BY <1>0, <1>3, <1>6, Types DEF IInv, Shape
    <2>3. \A t \in Thread, i \in Slot :
            stack'[t][i] = stack[t][i] \/ (t = uvth[u] /\ stack'[t][i] = v)
      BY <1>0, <2>1, <2>2 DEF TypeOK
    <2>4. \A t \in Thread, i \in Slot :
            stack'[t][i] = stack[t][i] \/ (t \in heap /\ Alive(stack[t][i])')
      BY <1>1, <1>4, <2>1, <2>2, <2>3 DEF Alive, Live, isdead
    <2>5. Live(cur)' /\ Alive(gcroot)'
      BY <1>4, <2>1 DEF IInv, RootsLive, Live, Alive, isdead
    <2> QED BY <1>1, <1>4, <2>1, <2>4, <2>5, StackStep
  <1> QED BY <1>5, <1>6

\* lj_func_closeuv(): a closed upvalue has the color its value allows.
LEMMA LeaveScopeInv ==
  ASSUME IInv, TypeOK', LeaveScope
  PROVE  IInv'
  <1>0. TypeOK /\ aphase = "none"
    BY DEF IInv, LeaveScope, MutatorRuns
  <1>1. PICK U : U = SlotUv(cur, top[cur])
    OBVIOUS
  <1>2. PICK D, G : D = {u \in U : isdead(u)} /\ G = {u \in U : isgray(u)}
    OBVIOUS
  <1>3. PICK W : W = CloseMarks(G)
    OBVIOUS
  <1>4. /\ heap' = heap \ D
        /\ \A o \in Obj : marked'[o] =
             CASE o \in D -> "white"
               [] o \in G -> IF Marking THEN "black" ELSE "white"
               [] o \in W -> MarkColor(o)
               [] OTHER -> marked[o]
        /\ gray' = gray \cup (W \cap Listed)
        /\ \A u \in Upval : /\ uvclosed'[u] <=> (u \in U \/ uvclosed[u])
                            /\ uvtv'[u] = IF u \in U \ D THEN uvval(u) ELSE uvtv[u]
                            /\ u \notin U => uvclosed'[u] = uvclosed[u]
                            /\ u \notin U => uvth'[u] = uvth[u] /\ uvslot'[u] = uvslot[u]
        /\ UNCHANGED <<gcstate, aphase, tosweep, sweepstr, strmask, mmudata, grayagain, weak,
                       stack, tkey, tval, tmeta, fuv, udmt, gcroot, cur>>
    <2>1. /\ heap' = heap \ D
          /\ marked' = [o \in Obj |->
             CASE o \in D -> "white"
               [] o \in G -> IF Marking THEN "black" ELSE "white"
               [] o \in W -> MarkColor(o)
               [] OTHER -> marked[o]]
          /\ gray' = gray \cup (W \cap (Thread \cup Tab \cup Func))
          /\ uvclosed' = [u \in Upval |-> u \in U \/ uvclosed[u]]
          /\ uvtv' = [u \in Upval |-> IF u \in U \ D THEN uvval(u) ELSE uvtv[u]]
          /\ uvth' = [u \in Upval |-> IF u \in U THEN Main ELSE uvth[u]]
          /\ uvslot' = [u \in Upval |-> IF u \in U THEN 1 ELSE uvslot[u]]
          /\ UNCHANGED <<gcvars, grayagain, weak, stack, tabvars, fuv, udmt, gcroot,
                         execvars>>
      BY <1>1, <1>2, <1>3 DEF LeaveScope
    <2>2. \A u \in Upval : /\ uvclosed'[u] <=> (u \in U \/ uvclosed[u])
                           /\ uvtv'[u] = IF u \in U \ D THEN uvval(u) ELSE uvtv[u]
                           /\ u \notin U => uvth'[u] = uvth[u] /\ uvslot'[u] = uvslot[u]
      BY <2>1
    <2>3. \A u \in Upval : u \notin U => uvclosed'[u] = uvclosed[u]
      <3>1. \A u \in Upval : uvclosed[u] \in BOOLEAN /\ uvclosed'[u] \in BOOLEAN
        BY <1>0 DEF TypeOK
      <3> QED BY <2>2, <3>1
    <2> QED BY <2>1, <2>2, <2>3 DEF Listed, gcvars, gcdata, tabvars, execvars
  <1>5. /\ U \subseteq Upval \cap heap /\ D \subseteq U /\ G \subseteq U
        /\ \A u \in U : ~uvclosed[u] /\ ~isblack(u) /\ uvtv[u] = Nil
    BY <1>1, <1>2 DEF SlotUv, OpenUv, IInv, Colors, Shape
  <1>6. Marking' <=> Marking
    BY <1>4 DEF Marking
  <1>7. AtomicDark'
    BY <1>0, <1>4 DEF AtomicDark
  <1>8. CASE Marking
    <2>1. (\A x \in heap : ~isdead(x)) /\ D = {}
      BY <1>2, <1>5, <1>8 DEF IInv, SweepComplete, Marking
    <2>2. \A u \in U : uvval(u) \in heap \cup {Nil} /\ uvval(u) \in Value
      BY <1>0, <1>5, <2>1, UvalType DEF IInv, RefsLive, Alive, Live
    <2>3. W = MarkW({uvval(u) : u \in G})
      BY <1>3, <1>8 DEF CloseMarks
    <2>4. MarkClosed(W) /\ \A u \in G : Dark(uvval(u)) \/ uvval(u) \in W
      <3>1. \A x \in {uvval(u) : u \in G} : x \in Obj => x \in heap
        BY <1>5, <2>2, Values
      <3>2. /\ MarkClosed(MarkW({uvval(u) : u \in G}))
            /\ \A x \in {uvval(u) : u \in G} :
                 x \in Obj => ~iswhite(x) \/ x \in MarkW({uvval(u) : u \in G})
        BY <2>1, <3>1, MarkIsClosed
      <3>3. \A u \in G : uvval(u) = Nil \/ uvval(u) \in Obj
        BY <1>5, <2>2, Values
      <3> QED BY <2>3, <3>2, <3>3 DEF Dark
    <2>5. W \cap Upval = {}
      <3>1. \A x \in {uvval(u) : u \in G} : x \notin Upval
        BY <1>5, <2>2, Values
      <3> QED BY <1>0, <2>3, <3>1, MarkFacts
    <2>6. Recolored(W, G) /\ G \subseteq heap /\ \A u \in G : isblack(u)'
      <3>1. \A x \in Obj : marked'[x] = IF x \in G THEN "black"
                                        ELSE IF x \in W THEN MarkColor(x) ELSE marked[x]
        BY <1>4, <1>5, <1>8, <2>1, <2>5
      <3> QED BY <1>5, <3>1, Values DEF Recolored, isblack
    <2>7. Empty' /\ Shape' /\ RefsLive' /\ RootsLive' /\ SweepProgress' /\ SweepComplete'
      <3>1. mmudata' \subseteq heap
        BY <1>4 DEF IInv, RootsLive, Live
      <3>2. aphase' # "none" => gcstate' = "atomic"
        BY <1>0, <1>4
      <3>3. /\ \A t \in Thread, i \in Slot : stack'[t][i] = stack[t][i] \/ stack'[t][i] = Nil
            /\ \A f \in Func : fuv'[f] = fuv[f] \/ (f \in heap /\ fuv'[f] \in Upval \cap heap)
            /\ \A d \in Udata : udmt'[d] = udmt[d] \/ (d \in heap /\ udmt'[d] \in heap \cup {Nil})
            /\ UNCHANGED <<tkey, tval, tmeta, gcroot, cur>> /\ heap' = heap
        BY <1>4, <2>1
      <3>4. \A u \in Upval :
              \/ uvclosed'[u] = uvclosed[u] /\ uvth'[u] = uvth[u] /\ uvslot'[u] = uvslot[u]
                 /\ uvtv'[u] = uvtv[u]
              \/ u \in heap /\ uvclosed'[u] /\ uvtv'[u] \in heap \cup {Nil}
        BY <1>4, <1>5, <2>1, <2>2
      <3> QED BY <1>6, <1>8, <2>1, <2>4, <2>6, <3>1, <3>2, <3>3, <3>4, MarkSafe
    <2>8. \A x \in Obj \ G :
            /\ isgray(x)' => isgray(x) \/ (x \in W /\ MarkColor(x) = "gray")
            /\ isblack(x)' => isblack(x) \/ (x \in W /\ MarkColor(x) = "black")
      BY <1>0, <2>4, <2>6, Marks
    <2>9. BlackDark'
      <3>1. \A u \in Upval : isblack(u)' =>
              (u \notin G /\ uvtv'[u] = uvtv[u]) \/ Dark(uvtv[u])'
        <4> SUFFICES ASSUME NEW u \in Upval, isblack(u)'
                     PROVE  (u \notin G /\ uvtv'[u] = uvtv[u]) \/ Dark(uvtv[u])'
          OBVIOUS
        <4>1. CASE u \in G
          <5>1. uvtv'[u] = uvval(u) /\ uvval(u) \in Obj \cup {Nil}
            BY <1>0, <1>4, <1>5, <2>1, <4>1, Types
          <5>2. \A v \in Obj \cup {Nil} : Dark(v) \/ v \in W => Dark(v)'
            BY <1>0, <2>4, <2>6, Marks
          <5> QED BY <5>1, <5>2, <2>4, <4>1 DEF Dark, iswhite
        <4>2. CASE u \in U \ G
          BY <1>5, <2>5, <2>8, <4>2, Values
        <4>3. CASE u \notin U
          BY <1>4, <1>5, <4>3
        <4> QED BY <4>1, <4>2, <4>3
      <3>2. /\ \A f \in Func : isblack(f)' => (f \notin G /\ fuv'[f] = fuv[f]) \/ Dark(fuv[f])'
            /\ \A d \in Udata \ mmudata' : isblack(d)' =>
              (d \notin G /\ d \notin mmudata /\ udmt'[d] = udmt[d]) \/ Dark(udmt[d])'
            /\ \A t \in Tab \cap G : isblack(t)' =>
                 Dark(tmeta[t])' /\ \A n \in Node : Dark(tkey[t][n])' /\ Dark(tval[t][n])'
        BY <1>4, <1>5, TypesDisjoint
      <3> QED BY <1>4, <1>8, <2>4, <2>6, <3>1, <3>2, MarkBlack
    <2>10. Colors' /\ ListsSound'
      <3>1. \A u \in Upval : IF uvclosed'[u] THEN ~isgray(u)' ELSE ~isblack(u)'
        <4> SUFFICES ASSUME NEW u \in Upval
                     PROVE  IF uvclosed'[u] THEN ~isgray(u)' ELSE ~isblack(u)'
          OBVIOUS
        <4>1. CASE u \in G
          BY <1>4, <1>5, <2>6, <4>1 DEF isblack, isgray
        <4>2. CASE u \in U \ G
          BY <1>2, <1>4, <2>5, <2>8, <4>2, Values
        <4>3. CASE u \notin U
          BY <1>4, <1>5, <2>5, <2>8, <4>3, Values DEF IInv, Colors
        <4> QED BY <4>1, <4>2, <4>3
      <3>2. G \cap Listed = {} /\ \A d \in Udata \cap G : ~isgray(d)'
        BY <1>5, TypesDisjoint DEF Listed
      <3> QED BY <1>4, <1>6, <1>8, <2>1, <2>4, <2>6, <3>1, <3>2, MarkLists
    <2> QED BY <1>7, <2>7, <2>9, <2>10 DEF IInv
  <1>9. CASE ~Marking
    <2>1. W = {}
      BY <1>3, <1>9 DEF CloseMarks
    <2>2. \A x \in Obj : marked'[x] = IF x \in D \cup G THEN "white" ELSE marked[x]
      BY <1>4, <1>9, <2>1
    <2>3. \A x \in Obj : /\ isdead(x)' => isdead(x)
                         /\ x \notin D => (~isdead(x)' => ~isdead(x))
                         /\ Live(x) => Live(x)'
                         /\ isblack(x)' => isblack(x)
                         /\ isgray(x)' => isgray(x) /\ x \notin G
                         /\ marked[x] = "white" => marked'[x] = "white"
      BY <1>2, <1>4, <2>2 DEF isdead, isgray, isblack, Live
    <2>4. \A x \in Obj \cup {Nil} : Alive(x) => Alive(x)'
      BY <2>3 DEF Alive
    <2>5. Empty'
      <3>1. \A x \in Obj \ heap' : marked'[x] = "white"
        BY <1>4, <2>2 DEF IInv, Empty
      <3>2. \A u \in Upval \ heap' : uvclosed'[u] /\ uvtv'[u] = Nil
        BY <1>4, <1>5 DEF IInv, Empty
      <3> QED BY <1>4, <1>5, <3>1, <3>2, TypesDisjoint DEF IInv, Empty
    <2>6. Shape'
      <3>1. \A u \in Upval : ~uvclosed'[u] => uvth'[u] \in heap' /\ uvtv'[u] = Nil
        BY <1>0, <1>4, <1>5, Types, TypesDisjoint DEF IInv, Shape
      <3> QED BY <1>0, <1>4, <3>1 DEF IInv, Shape
    <2>7. RefsLive'
      <3>0. D \cap (Thread \cup Tab \cup Func \cup Udata) = {}
        BY <1>5, TypesDisjoint
      <3>1. \A t \in Thread : ~isdead(t)' => \A i \in Slot : Alive(stack[t][i])'
        BY <1>0, <1>4, <2>3, <2>4, <3>0, Values, Types
           DEF IInv, RefsLive, Alive, Live, isdead
      <3>2. \A t \in Tab : ~isdead(t)' =>
            /\ Alive(tmeta[t])'
            /\ \A n \in Node : Alive(tkey[t][n])' /\ Alive(tval[t][n])'
        BY <1>0, <1>4, <2>3, <2>4, <3>0, Values, Types
           DEF IInv, RefsLive, Alive, Live, isdead
      <3>3. \A f \in Func : ~isdead(f)' => Alive(fuv[f])'
        BY <1>0, <1>4, <2>3, <2>4, <3>0, Values, Types
           DEF IInv, RefsLive, Alive, Live, isdead
      <3>4. \A u \in Upval : ~isdead(u)' => Alive(uvval(u))'
        <4> SUFFICES ASSUME NEW u \in Upval, ~isdead(u)' PROVE Alive(uvval(u))'
          OBVIOUS
        <4>1. CASE u \in D
          <5>1. uvval(u)' = Nil
            BY <1>4, <1>5, <4>1 DEF uvval
          <5> QED BY <5>1 DEF Alive
        <4>2. CASE u \notin D
          <5>1. uvval(u)' = uvval(u)
            BY <1>4, <4>2 DEF uvval
          <5>2. Alive(uvval(u)) /\ uvval(u) \in Obj \cup {Nil}
            BY <1>0, <2>3, <4>2, Values, Types DEF IInv, RefsLive
          <5> QED BY <2>4, <5>1, <5>2 DEF Alive, Live, isdead
        <4> QED BY <4>1, <4>2
      <3>5. \A d \in Udata : ~isdead(d)' => Alive(udmt[d])'
        BY <1>0, <1>4, <2>3, <2>4, <3>0, Values, Types
           DEF IInv, RefsLive, Alive, Live, isdead
      <3> QED BY <3>1, <3>2, <3>3, <3>4, <3>5 DEF RefsLive
    <2>8. RootsLive'
      BY <1>0, <1>4, <2>3, <2>4, Types DEF IInv, RootsLive, Alive, Live, isdead
    <2>9. Colors' /\ ListsSound' /\ BlackDark'
      <3>1. \A u \in Upval : IF uvclosed'[u] THEN ~isgray(u)' ELSE ~isblack(u)'
        BY <1>2, <1>4, <2>3, Values DEF IInv, Colors
      <3>2. \A d \in Udata : ~isgray(d)'
        BY <2>3, Values DEF IInv, Colors
      <3> QED BY <1>6, <1>9, <3>1, <3>2 DEF Colors, ListsSound, BlackDark
    <2>10. SweepProgress'
      <3> SUFFICES ASSUME gcstate \in {"sweepstring", "sweep"}, NEW x \in heap' \ mmudata
                   PROVE  marked'[x] = "white" \/ Unswept(x)'
        BY <1>4 DEF SweepProgress
      <3>1. x \in heap \ mmudata /\ x \in Obj
        BY <1>0, <1>4 DEF TypeOK
      <3>2. marked[x] = "white" \/ Unswept(x)
        BY <3>1 DEF IInv, SweepProgress
      <3>3. CASE x \in U
        <4>1. x \in G \/ marked[x] = "white"
          BY <1>0, <1>2, <1>4, <1>5, <3>1, <3>3 DEF TypeOK, White, isdead, isgray, isblack
        <4> QED BY <2>2, <3>1, <4>1
      <3>4. CASE x \notin U
        <4>1. Unswept(x) => Unswept(x)'
          BY <1>4, <3>4 DEF Unswept
        <4> QED BY <2>3, <3>1, <3>2, <4>1
      <3> QED BY <3>3, <3>4
    <2>11. SweepComplete'
      <3>1. \A x \in heap' : x \in heap /\ x \in Obj
        BY <1>0, <1>4 DEF TypeOK
      <3> QED BY <1>4, <2>3, <3>1 DEF IInv, SweepComplete
    <2> QED BY <1>7, <2>5, <2>6, <2>7, <2>8, <2>9, <2>10, <2>11 DEF IInv
  <1> QED BY <1>8, <1>9

\* In the mark phase no object is dead.
LEMMA NoneDead ==
  ASSUME IInv, Marking
  PROVE  \A o \in heap : ~isdead(o)
  BY DEF IInv, SweepComplete, Marking

\* The traversal of an object, by its type.
LEMMA StrongOf ==
  /\ \A t \in Thread : Strong(t) = Obj \cap {stack[t][i] : i \in 1 .. top[t]}
  /\ \A t \in Tab : Strong(t) = Obj \cap ({tmeta[t]} \cup StrongKeys(t) \cup StrongVals(t))
  /\ \A f \in Func : Strong(f) = Obj \cap {fuv[f]}
  /\ \A u \in Upval : Strong(u) = Obj \cap {uvval(u)}
  /\ \A d \in Udata : Strong(d) = Obj \cap {udmt[d]}
  /\ \A s \in Str : Strong(s) = {}
  BY TypesDisjoint DEF Strong

\* What a traversal marks is allocated.
LEMMA StrongHeap ==
  ASSUME IInv, \A x \in heap : ~isdead(x), NEW o \in Listed, o \in heap
  PROVE  \A x \in Strong(o) : x \in heap
  <1>0. TypeOK
    BY DEF IInv
  <1>1. \A v : v \in Obj /\ Alive(v) => v \in heap
    BY Values DEF Alive, Live
  <1>2. CASE o \in Thread
    <2>1. \A i \in 1 .. top[o] : i \in Slot
      BY <1>0, <1>2, ConstAssumption DEF TypeOK, Slot
    <2>2. \A i \in Slot : Alive(stack[o][i])
      BY <1>2 DEF IInv, RefsLive
    <2> QED BY <1>1, <1>2, <2>1, <2>2, StrongOf
  <1>3. CASE o \in Tab
    <2>1. Alive(tmeta[o]) /\ \A n \in Node : Alive(tkey[o][n]) /\ Alive(tval[o][n])
      BY <1>3 DEF IInv, RefsLive
    <2>2. /\ StrongKeys(o) \subseteq {tkey[o][n] : n \in Node}
          /\ StrongVals(o) \subseteq {tval[o][n] : n \in Node}
      BY DEF StrongKeys, StrongVals, Filled
    <2> QED BY <1>1, <1>3, <2>1, <2>2, StrongOf
  <1>4. CASE o \in Func
    <2>1. Alive(fuv[o])
      BY <1>4 DEF IInv, RefsLive
    <2> QED BY <1>1, <1>4, <2>1, StrongOf
  <1> QED BY <1>2, <1>3, <1>4 DEF Listed

\* gc_mark_start() marks the roots and begins with empty lists.
LEMMA MarkStartInv ==
  ASSUME IInv, TypeOK', MarkStart
  PROVE  IInv'
  <1>0. TypeOK /\ aphase = "none" /\ Listed \subseteq Obj /\ Thread \cup Weak \subseteq Listed
    BY ConstAssumption DEF IInv, MarkStart, Shape, Listed, Obj, Weak
  <1>1. \A o \in heap : ~isdead(o)
    BY DEF IInv, SweepComplete, MarkStart
  <1>2. PICK W : W = MarkW({Main, Registry, gcroot})
    OBVIOUS
  <1>3. {Main, Registry, gcroot} \subseteq (Thread \cup Tab) \cup {Nil}
    BY <1>0, ConstAssumption DEF TypeOK
  <1>4. /\ MarkClosed(W)
        /\ Dark(Main) \/ Main \in W
        /\ Dark(Registry) \/ Registry \in W
        /\ W \subseteq Thread \cup Tab
    <2>1. \A x \in {Main, Registry, gcroot} : x \in Obj => x \in heap
      BY Values DEF IInv, RootsLive, Alive, Live
    <2>2. /\ MarkClosed(MarkW({Main, Registry, gcroot}))
          /\ \A x \in {Main, Registry, gcroot} :
               x \in Obj => ~iswhite(x) \/ x \in MarkW({Main, Registry, gcroot})
      BY <1>1, <2>1, MarkIsClosed
    <2>3. {Main, Registry, gcroot} \cap Upval = {}
      BY <1>3, TypesDisjoint, Values
    <2>4. W \subseteq Thread \cup Tab
      <3>1. \A x \in W : x \in {Main, Registry, gcroot} \/ x \in Tab
        BY <1>0, <1>2, <2>3, MarkFacts
      <3>2. \A x \in W : x \in Obj
        BY <1>0, <1>2, MarkFacts
      <3> QED BY <1>3, <3>1, <3>2, Values
    <2> QED BY <1>0, <1>2, <2>2, <2>4, Types DEF Dark
  <1>5. /\ Recolored(W, {}) /\ gray' = W \cap Listed /\ grayagain' = {} /\ weak' = {}
        /\ gcstate = "pause" /\ gcstate' = "propagate" /\ Marking'
        /\ UNCHANGED <<aphase, mmudata, heap, stack, tkey, tval, tmeta, fuv, udmt,
                       uvclosed, uvth, uvslot, uvtv, gcroot, cur>>
    BY <1>2 DEF MarkStart, GcStep, MarkedBy, GrayBy, Recolored, Listed, Marking,
       gcdata, tabvars, uvvars
  <1>6. Empty' /\ Shape' /\ RefsLive' /\ RootsLive' /\ SweepProgress' /\ SweepComplete'
    <2>1. mmudata' \subseteq heap
      BY <1>5 DEF IInv, RootsLive, Live
    <2> QED BY <1>0, <1>1, <1>4, <1>5, <2>1, MarkOnly
  <1>7. /\ \A x \in W : MarkColor(x) = "gray" /\ x \in Listed
        /\ \A x \in Obj : /\ isgray(x)' => isgray(x) \/ x \in W
                          /\ isblack(x)' => isblack(x)
                          /\ x \in W => isgray(x)'
        /\ Dark(Main)' /\ Dark(Registry)'
    <2>1. \A x \in W : MarkColor(x) = "gray" /\ x \in Listed
      BY <1>4, TypesDisjoint DEF MarkColor, Listed
    <2>2. /\ \A x \in Obj : /\ isgray(x)' => isgray(x) \/ x \in W
                            /\ isblack(x)' => isblack(x) \/ (x \in W /\ MarkColor(x) = "black")
          /\ \A v \in Obj \cup {Nil} : Dark(v) \/ v \in W => Dark(v)'
      BY <1>0, <1>4, <1>5, Marks
    <2>3. \A x \in Obj : x \in W => isgray(x)'
      BY <1>5, <2>1 DEF Recolored, isgray
    <2> QED BY <1>0, <1>4, <2>1, <2>2, <2>3, Types
  <1>8. \A x \in Obj \ mmudata : ~isgray(x) /\ ~isblack(x)
    BY <1>5 DEF IInv, SweepComplete, Empty, isgray, isblack
  <1>9. mmudata \cap (Listed \cup Upval) = {}
    BY <1>0, TypesDisjoint DEF TypeOK, Listed
  <1>10. BlackDark'
    BY <1>0, <1>5, <1>7, <1>8, <1>9, Values DEF BlackDark, Listed
  <1>11. Colors'
    <2>1. \A u \in Upval : IF uvclosed'[u] THEN ~isgray(u)' ELSE ~isblack(u)'
      BY <1>4, <1>7, <1>8, <1>9, Values, TypesDisjoint
    <2>2. \A d \in Udata : ~isgray(d)'
      BY <1>4, <1>7, Values, TypesDisjoint DEF IInv, Colors
    <2>3. \A o \in Listed : isgray(o)' => o \in gray'
      BY <1>0, <1>5, <1>7, <1>8, <1>9
    <2>4. \A o \in Thread \cup Weak : ~isblack(o)'
      BY <1>0, <1>7, <1>8, <1>9
    <2> QED BY <1>5, <2>1, <2>2, <2>3, <2>4 DEF Colors
  <1>12. ListsSound'
    BY <1>0, <1>4, <1>5, <1>7 DEF ListsSound, MarkClosed
  <1>13. AtomicDark'
    BY <1>0, <1>5 DEF AtomicDark
  <1> QED BY <1>6, <1>10, <1>11, <1>12, <1>13 DEF IInv

\* The traversal of o leaves every strong reference of o marked.
LEMMA TraversedDark ==
  ASSUME IInv, NEW o \in heap, NEW W, NEW X, MarkClosed(W), X \subseteq heap, Recolored(W, X),
         \A x \in Strong(o) : ~iswhite(x) \/ x \in W
  PROVE  /\ o \in Thread => \A i \in 1 .. top[o] : \A v : v = stack[o][i] => Dark(v)'
         /\ o \in Tab =>
              /\ \A v : v = tmeta[o] => Dark(v)'
              /\ \A n \in Node : \A v : /\ v = tkey[o][n] /\ o \notin WeakKeyTab => Dark(v)'
                                        /\ v = tval[o][n] /\ o \notin WeakValTab => Dark(v)'
         /\ o \in Func => \A v : v = fuv[o] => Dark(v)'
  <1>0. TypeOK
    BY DEF IInv
  <1>1. \A v : v \in Strong(o) \cup {Nil} => Dark(v)'
    <2>1. \A v \in Obj \cup {Nil} : Dark(v) \/ v \in W => Dark(v)'
      BY <1>0, Marks
    <2>2. Strong(o) \subseteq Obj
      BY DEF Strong
    <2> QED BY <2>1, <2>2 DEF Dark
  <1>2. ASSUME o \in Thread, NEW i \in 1 .. top[o] PROVE stack[o][i] \in Strong(o) \cup {Nil}
    <2>1. i \in Slot
      BY <1>0, <1>2, ConstAssumption DEF TypeOK, Slot
    <2>2. stack[o][i] \in Obj \cup {Nil}
      BY <1>0, <1>2, <2>1, Types
    <2>3. stack[o][i] \in {stack[o][j] : j \in 1 .. top[o]}
      BY <1>2
    <2> QED BY <1>2, <2>2, <2>3, StrongOf
  <1>3. ASSUME o \in Tab
        PROVE  /\ tmeta[o] \in Strong(o) \cup {Nil}
               /\ \A n \in Node : /\ o \notin WeakKeyTab => tkey[o][n] \in Strong(o) \cup {Nil}
                                  /\ o \notin WeakValTab => tval[o][n] \in Strong(o) \cup {Nil}
    <2>1. Strong(o) = Obj \cap ({tmeta[o]} \cup StrongKeys(o) \cup StrongVals(o))
      BY <1>3, StrongOf
    <2>2. /\ tmeta[o] \in Obj \cup {Nil}
          /\ \A n \in Node : tkey[o][n] \in Obj \cup {Nil} /\ tval[o][n] \in Obj \cup {Nil}
      BY <1>0, <1>3, Types
    <2>3. ASSUME NEW n \in Node, tval[o][n] # Nil
          PROVE  /\ o \notin WeakKeyTab => tkey[o][n] \in StrongKeys(o)
                 /\ o \notin WeakValTab => tval[o][n] \in StrongVals(o)
      BY <2>3 DEF StrongKeys, StrongVals, Filled
    <2>4. ASSUME NEW n \in Node, tval[o][n] = Nil PROVE tkey[o][n] = Nil
      BY <1>3, <2>4 DEF IInv, Shape
    <2> QED BY <2>1, <2>2, <2>3, <2>4
  <1>4. ASSUME o \in Func PROVE fuv[o] \in Strong(o) \cup {Nil}
    BY <1>0, <1>4, StrongOf, Types
  <1> QED BY <1>1, <1>2, <1>3, <1>4

\* propagatemark() marks what one gray object refers to.
LEMMA PropagateInv ==
  ASSUME IInv, TypeOK', NEW o \in gray, Propagate(o)
  PROVE  IInv'
  <1>0. /\ TypeOK /\ Marking /\ Marking' /\ gcstate' = gcstate
        /\ Listed \subseteq Obj /\ Thread \cup Weak \subseteq Listed
    BY ConstAssumption DEF IInv, Propagate, Shape, GcStep, Marking, Listed, Obj, Weak
  <1>1. \A x \in heap : ~isdead(x)
    BY <1>0, NoneDead
  <1>2. /\ o \in Listed /\ o \in heap /\ isgray(o) /\ ~iswhite(o)
        /\ o \notin grayagain /\ o \notin weak
    BY <1>0 DEF IInv, Colors, ListsSound, isgray, iswhite, White
  <1>3. PICK W : W = MarkW(Strong(o))
    OBVIOUS
  <1>4. MarkClosed(W) /\ \A x \in Strong(o) : ~iswhite(x) \/ x \in W
    <2>1. \A x \in Strong(o) : x \in Obj => x \in heap
      BY <1>1, <1>2, StrongHeap
    <2>2. /\ MarkClosed(MarkW(Strong(o)))
          /\ \A x \in Strong(o) : x \in Obj => ~iswhite(x) \/ x \in MarkW(Strong(o))
      BY <1>1, <2>1, MarkIsClosed
    <2>3. Strong(o) \subseteq Obj
      BY DEF Strong
    <2> QED BY <1>3, <2>2, <2>3
  <1>5. o \notin W
    BY <1>2, <1>4 DEF MarkClosed
  <1>6. /\ Recolored(W, {o}) /\ {o} \subseteq heap
        /\ marked'[o] = IF o \in Thread \cup Weak THEN "gray" ELSE "black"
    BY <1>0, <1>2, <1>3, <1>5 DEF Propagate, Recolored
  <1>7. /\ gray' = (gray \ {o}) \cup (W \cap Listed)
        /\ grayagain' = IF o \in Thread THEN grayagain \cup {o} ELSE grayagain
        /\ weak' = IF o \in Weak THEN weak \cup {o} ELSE weak
        /\ UNCHANGED <<aphase, mmudata, heap, tkey, tval, tmeta, fuv, udmt,
                       uvclosed, uvth, uvslot, uvtv, gcroot, cur>>
    BY <1>3 DEF Propagate, GrayBy, Listed, gcdata, tabvars, uvvars
  <1>8. /\ \A t \in Thread, i \in Slot : stack'[t][i] = stack[t][i] \/ stack'[t][i] = Nil
        /\ \A t \in Thread \ {o} : stack'[t] = stack[t]
        /\ o \in Thread /\ aphase # "none" =>
             \A i \in Slot : (i \in 1 .. top[o] /\ stack'[o][i] = stack[o][i]) \/ stack'[o][i] = Nil
    <2>1. aphase # "none" => gcstate = "atomic"
      BY DEF IInv, Shape
    <2>2. CASE ~(o \in Thread /\ gcstate = "atomic")
      BY <2>1, <2>2 DEF Propagate
    <2>3. CASE o \in Thread /\ gcstate = "atomic"
      <3>1. stack' = [stack EXCEPT ![o] = [i \in Slot |->
                        IF i > top[o] THEN Nil ELSE stack[o][i]]]
        BY <2>3 DEF Propagate
      <3>2. stack \in [Thread -> [Slot -> Value]] /\ top[o] \in Nat
        BY <1>0, <2>3 DEF TypeOK
      <3>3. \A i \in Slot : stack'[o][i] = IF i > top[o] THEN Nil ELSE stack[o][i]
        BY <2>3, <3>1, <3>2
      <3>4. \A i \in Slot : i > top[o] \/ i \in 1 .. top[o]
        BY <3>2, ConstAssumption DEF Slot
      <3>5. \A t \in Thread \ {o} : stack'[t] = stack[t]
        BY <3>1, <3>2
      <3> QED BY <3>3, <3>4, <3>5
    <2> QED BY <2>2, <2>3
  <1>9. Empty' /\ Shape' /\ RefsLive' /\ RootsLive' /\ SweepProgress' /\ SweepComplete'
    <2>1. mmudata' \subseteq heap
      BY <1>7 DEF IInv, RootsLive, Live
    <2>2. /\ aphase' # "none" => gcstate' = "atomic"
          /\ \A f \in Func : fuv'[f] = fuv[f] \/ (f \in heap /\ fuv'[f] \in Upval \cap heap)
          /\ \A d \in Udata : udmt'[d] = udmt[d] \/ (d \in heap /\ udmt'[d] \in heap \cup {Nil})
          /\ \A u \in Upval :
              \/ uvclosed'[u] = uvclosed[u] /\ uvth'[u] = uvth[u] /\ uvslot'[u] = uvslot[u]
                 /\ uvtv'[u] = uvtv[u]
              \/ u \in heap /\ uvclosed'[u] /\ uvtv'[u] \in heap \cup {Nil}
      BY <1>0, <1>7 DEF IInv, Shape
    <2> QED BY <1>0, <1>1, <1>4, <1>6, <1>7, <1>8, <2>1, <2>2, MarkSafe
  <1>10. /\ \A x \in Obj : ~iswhite(x) => ~iswhite(x)'
         /\ \A v \in Obj \cup {Nil} : Dark(v) \/ v \in W => Dark(v)'
         /\ \A x \in Obj \ {o} :
              /\ isgray(x) => isgray(x)'
              /\ isgray(x)' => isgray(x) \/ (x \in W /\ MarkColor(x) = "gray")
              /\ isblack(x)' => isblack(x) \/ (x \in W /\ MarkColor(x) = "black")
         /\ \A u \in W \cap Upval : \A v : v = uvval(u) => Dark(v)'
    BY <1>0, <1>4, <1>6, Marks
  <1>11. /\ o \in Thread => \A i \in 1 .. top[o] : \A v : v = stack[o][i] => Dark(v)'
         /\ o \in Tab =>
              /\ \A v : v = tmeta[o] => Dark(v)'
              /\ \A n \in Node : \A v : /\ v = tkey[o][n] /\ o \notin WeakKeyTab => Dark(v)'
                                        /\ v = tval[o][n] /\ o \notin WeakValTab => Dark(v)'
         /\ o \in Func => \A v : v = fuv[o] => Dark(v)'
    BY <1>2, <1>4, <1>6, TraversedDark
  <1>12. BlackDark'
    <2>1. \A t \in Tab \cap {o} : isblack(t)' =>
           Dark(tmeta[t])' /\ \A n \in Node : Dark(tkey[t][n])' /\ Dark(tval[t][n])'
      <3>1. isblack(o)' => o \notin Weak
        BY <1>6 DEF isblack
      <3> QED BY <1>7, <1>11, <3>1 DEF Dark, iswhite, Weak
    <2>2. \A f \in Func : isblack(f)' => (f \notin {o} /\ fuv'[f] = fuv[f]) \/ Dark(fuv[f])'
      BY <1>7, <1>11 DEF Dark, iswhite
    <2>3. /\ \A u \in Upval : isblack(u)' =>
               (u \notin {o} /\ uvtv'[u] = uvtv[u]) \/ Dark(uvtv[u])'
          /\ \A d \in Udata \ mmudata' : isblack(d)' =>
               (d \notin {o} /\ d \notin mmudata /\ udmt'[d] = udmt[d]) \/ Dark(udmt[d])'
      BY <1>2, <1>7, TypesDisjoint DEF Listed
    <2> QED BY <1>0, <1>4, <1>6, <1>7, <2>1, <2>2, <2>3, MarkBlack
  <1>13. Colors' /\ ListsSound'
    <2>1. \A u \in Upval : IF uvclosed'[u] THEN ~isgray(u)' ELSE ~isblack(u)'
      BY <1>2, <1>7, <1>10, Values, TypesDisjoint DEF IInv, Colors, MarkColor, Listed
    <2>2. \A d \in Udata : ~isgray(d)'
      BY <1>2, <1>10, Values, TypesDisjoint DEF IInv, Colors, MarkColor, Listed
    <2>3. \A x \in Listed : MarkColor(x) = "gray"
      BY TypesDisjoint DEF MarkColor, Listed
    <2>4. Thread \cap Weak = {}
      BY TypesDisjoint, ConstAssumption DEF Weak
    <2>5. \A x \in Listed : isgray(x)' => x \in gray' \cup grayagain' \cup weak'
      <3>1. isgray(o)' => o \in Thread \cup Weak
        BY <1>6 DEF isgray
      <3> QED BY <1>0, <1>7, <1>10, <3>1 DEF IInv, Colors
    <2>6. \A x \in Thread \cup Weak : ~isblack(x)'
      <3>1. o \in Thread \cup Weak => ~isblack(o)'
        BY <1>6 DEF isblack
      <3> QED BY <1>0, <1>10, <2>3, <3>1 DEF IInv, Colors
    <2>7. /\ gray' \subseteq Listed /\ weak' \subseteq Weak
          /\ grayagain' \subseteq (Thread \cup Tab) \ Weak
      BY <1>0, <1>7, <2>4 DEF IInv, Colors
    <2>8. Colors'
      BY <2>1, <2>2, <2>5, <2>6, <2>7 DEF Colors
    <2>9. \A x \in gray \cup grayagain \cup weak : x \in heap /\ isgray(x) /\ x \in Obj /\ x \notin W
      BY <1>0, <1>4 DEF IInv, ListsSound, MarkClosed, isgray, iswhite, White, TypeOK
    <2>10. \A x \in W \cap Listed : isgray(x)' /\ x \in heap
      BY <1>0, <1>4, <1>5, <1>6, <2>3 DEF Recolored, isgray, MarkClosed
    <2>11. \A x \in gray' \cup grayagain' \cup weak' : x \in heap' /\ isgray(x)'
      <3>1. o \in Thread \cup Weak => isgray(o)'
        BY <1>6 DEF isgray
      <3> QED BY <1>2, <1>7, <1>10, <2>9, <2>10, <3>1
    <2>12. ListsSound'
      BY <1>0, <1>2, <1>7, <2>4, <2>9, <2>11 DEF IInv, ListsSound
    <2> QED BY <2>8, <2>12
  <1>14. AtomicDark'
    <2>1. ASSUME aphase # "none"
          PROVE  \A u \in Upval : ~uvclosed'[u] /\ isgray(u)' => Dark(uvval(u))'
      <3> SUFFICES ASSUME NEW u \in Upval, ~uvclosed'[u], isgray(u)' PROVE Dark(uvval(u))'
        OBVIOUS
      <3>1. uvval(u)' = uvval(u) \/ uvval(u)' = Nil
        BY <1>0, <1>7, <1>8, Types DEF uvval
      <3>2. \A v : v = uvval(u) => Dark(v)'
        <4>1. u # o
          BY <1>2, TypesDisjoint DEF Listed
        <4>2. CASE isgray(u)
          BY <1>0, <1>7, <1>10, <2>1, <4>2, Types DEF IInv, AtomicDark
        <4>3. CASE u \in W
          BY <1>10, <4>3
        <4> QED BY <1>10, <4>1, <4>2, <4>3, Values
      <3> QED BY <3>1, <3>2 DEF Dark, iswhite
    <2>2. ASSUME aphase \in {"weak", "again", "udata"}
          PROVE  /\ Dark(cur)' /\ Dark(gcroot)'
                 /\ \A t \in Weak \ gray' : isgray(t)' =>
                      /\ Dark(tmeta[t])'
                      /\ \A n \in Node : /\ t \in WeakKeyTab \/ Dark(tkey[t][n])'
                                         /\ t \in WeakValTab \/ Dark(tval[t][n])'
      <3>1. Dark(cur)' /\ Dark(gcroot)'
        BY <1>0, <1>7, <1>10, <2>2, Types DEF IInv, AtomicDark, Dark, iswhite
      <3>2. ASSUME NEW t \in Weak \ gray', isgray(t)'
            PROVE  /\ Dark(tmeta[t])'
                   /\ \A n \in Node : /\ t \in WeakKeyTab \/ Dark(tkey[t][n])'
                                      /\ t \in WeakValTab \/ Dark(tval[t][n])'
        <4>0. t \in Tab
          BY ConstAssumption DEF Weak
        <4>1. CASE t = o
          BY <1>7, <1>11, <4>0, <4>1 DEF Dark, iswhite
        <4>2. CASE t # o
          <5>1. isgray(t) /\ t \notin gray
            BY <1>0, <1>7, <1>10, <3>2, <4>2
          <5>2. /\ Dark(tmeta[t]) /\ tmeta[t] \in Obj \cup {Nil}
                /\ \A n \in Node :
                     /\ t \in WeakKeyTab \/ (Dark(tkey[t][n]) /\ tkey[t][n] \in Obj \cup {Nil})
                     /\ t \in WeakValTab \/ (Dark(tval[t][n]) /\ tval[t][n] \in Obj \cup {Nil})
            BY <1>0, <2>2, <4>0, <5>1, Types DEF IInv, AtomicDark
          <5> QED BY <1>7, <1>10, <5>2 DEF Dark, iswhite
        <4> QED BY <4>1, <4>2
      <3> QED BY <3>1, <3>2
    <2>3. ASSUME aphase \in {"again", "udata"}
          PROVE  /\ grayagain' \subseteq Thread
                 /\ \A t \in Thread \ gray' : isgray(t)' =>
                      \A i \in Slot : Dark(stack[t][i])'
      <3>1. grayagain' \subseteq Thread
        BY <1>7, <2>3 DEF IInv, AtomicDark
      <3>2. ASSUME NEW t \in Thread \ gray', isgray(t)', NEW i \in Slot
            PROVE  Dark(stack[t][i])'
        <4>1. CASE t = o
          <5>1. (i \in 1 .. top[o] /\ stack'[o][i] = stack[o][i]) \/ stack'[o][i] = Nil
            BY <1>8, <2>3, <4>1
          <5> QED BY <1>11, <4>1, <5>1 DEF Dark, iswhite
        <4>2. CASE t # o
          <5>1. isgray(t) /\ t \notin gray
            BY <1>0, <1>7, <1>10, <3>2, <4>2
          <5>2. Dark(stack[t][i]) /\ stack[t][i] \in Obj \cup {Nil}
            BY <1>0, <2>3, <5>1, Types DEF IInv, AtomicDark
          <5> QED BY <1>8, <1>10, <4>2, <5>2 DEF Dark, iswhite
        <4> QED BY <4>1, <4>2
      <3> QED BY <3>1, <3>2
    <2>4. ASSUME aphase = "udata"
          PROVE  \A d \in mmudata' : Dark(d)' /\ Dark(udmt[d])'
      <3>1. \A d \in mmudata : /\ Dark(d) /\ Dark(udmt[d])
                               /\ d \in Obj \cup {Nil} /\ udmt[d] \in Obj \cup {Nil}
        BY <1>0, <2>4, Types, Values DEF IInv, AtomicDark, TypeOK
      <3> QED BY <1>7, <1>10, <3>1 DEF Dark, iswhite
    <2> QED BY <1>7, <2>1, <2>2, <2>3, <2>4 DEF AtomicDark
  <1> QED BY <1>9, <1>12, <1>13, <1>14 DEF IInv

\* The gray list is empty: on to GCSatomic.
LEMMA PropagateEndInv ==
  ASSUME IInv, TypeOK', PropagateEnd
  PROVE  IInv'
  <1>0. /\ Marking /\ Marking' /\ aphase = "none" /\ gcstate = "propagate"
        /\ gcstate' = "atomic"
    BY DEF IInv, Shape, PropagateEnd, GcStep, Marking
  <1>1. UNCHANGED <<aphase, tosweep, sweepstr, strmask, mmudata, gray, grayagain, weak, heap,
                    marked, stack, tkey, tval, tmeta, fuv, udmt, uvclosed, uvth, uvslot,
                    uvtv, gcroot, cur>>
    BY DEF PropagateEnd, gcdata, lists, tabvars, uvvars
  <1>2. Empty' /\ Shape'
    BY <1>0, <1>1 DEF IInv, Empty, Shape
  <1>3. RefsLive' /\ RootsLive'
    BY <1>1 DEF IInv, RefsLive, RootsLive, Alive, Live, isdead, uvval
  <1>4. Colors' /\ ListsSound'
    BY <1>0, <1>1 DEF IInv, Colors, ListsSound, isblack, isgray
  <1>5. BlackDark' /\ AtomicDark'
    BY <1>0, <1>1 DEF IInv, BlackDark, AtomicDark, isblack, Dark, iswhite
  <1>6. SweepProgress' /\ SweepComplete'
    BY <1>0, <1>1 DEF IInv, SweepProgress, SweepComplete, isdead
  <1> QED BY <1>2, <1>3, <1>4, <1>5, <1>6 DEF IInv

\* A phase of atomic() marks W, and X besides, and keeps the fields: the
\* tri-color invariant holds on, and so does what earlier phases achieved.
LEMMA AtomicMarks ==
  ASSUME IInv, TypeOK', gcstate = "atomic", gcstate' = "atomic",
         NEW W, NEW X, MarkClosed(W), X \subseteq heap, Recolored(W, X),
         X \subseteq mmudata', mmudata \subseteq mmudata', mmudata' \subseteq heap,
         UNCHANGED <<heap, stack, tkey, tval, tmeta, fuv, udmt,
                     uvclosed, uvth, uvslot, uvtv, gcroot, cur>>
  PROVE  /\ Empty' /\ Shape' /\ RefsLive' /\ RootsLive' /\ SweepProgress' /\ SweepComplete'
         /\ BlackDark'
         /\ (\A u \in Upval : ~uvclosed[u] /\ isgray(u) => Dark(uvval(u)) \/ uvval(u) \in W)
            => \A u \in Upval : ~uvclosed'[u] /\ isgray(u)' => Dark(uvval(u))'
  <1>0. TypeOK /\ Marking /\ Marking' /\ \A o \in heap : ~isdead(o)
    BY NoneDead DEF IInv, Marking
  <1>1. Empty' /\ Shape' /\ RefsLive' /\ RootsLive' /\ SweepProgress' /\ SweepComplete'
    BY <1>0, MarkOnly
  <1>2. BlackDark'
    <2>1. X \cap (Tab \cup Func \cup Upval) = {}
      BY TypesDisjoint DEF TypeOK
    <2>2. /\ \A t \in Tab \cap X : isblack(t)' =>
                Dark(tmeta[t])' /\ \A n \in Node : Dark(tkey[t][n])' /\ Dark(tval[t][n])'
          /\ \A f \in Func : isblack(f)' => (f \notin X /\ fuv'[f] = fuv[f]) \/ Dark(fuv[f])'
          /\ \A u \in Upval : isblack(u)' =>
               (u \notin X /\ uvtv'[u] = uvtv[u]) \/ Dark(uvtv[u])'
          /\ \A d \in Udata \ mmudata' : isblack(d)' =>
               (d \notin X /\ d \notin mmudata /\ udmt'[d] = udmt[d]) \/ Dark(udmt[d])'
      BY <2>1
    <2> QED BY <1>0, <2>2, MarkBlack
  <1>3. ASSUME \A u \in Upval : ~uvclosed[u] /\ isgray(u) => Dark(uvval(u)) \/ uvval(u) \in W
        PROVE  \A u \in Upval : ~uvclosed'[u] /\ isgray(u)' => Dark(uvval(u))'
    <2> SUFFICES ASSUME NEW u \in Upval, ~uvclosed'[u], isgray(u)' PROVE Dark(uvval(u))'
      OBVIOUS
    <2>1. uvval(u)' = uvval(u)
      BY DEF uvval
    <2>2. u \notin X /\ u \in Obj /\ uvval(u) \in Obj \cup {Nil}
      BY <1>0, TypesDisjoint, Values, Types DEF TypeOK
    <2>3. isgray(u) \/ u \in W
      BY <1>0, <2>2, Marks
    <2>4. \A v : v = uvval(u) => Dark(v)'
      <3>1. CASE isgray(u)
        BY <1>0, <1>3, <2>2, <3>1, Marks
      <3>2. CASE u \in W
        BY <1>0, <3>2, Marks
      <3> QED BY <2>3, <3>1, <3>2
    <2> QED BY <2>1, <2>4 DEF Dark, iswhite
  <1> QED BY <1>1, <1>2, <1>3

\* gc_mark_uv() marks the values of the gray open upvalues.
LEMMA AtomicUvInv ==
  ASSUME IInv, TypeOK', AtomicUv
  PROVE  IInv'
  <1>0. /\ TypeOK /\ gcstate = "atomic" /\ gcstate' = "atomic" /\ aphase' = "uv"
        /\ Marking /\ Marking' /\ \A o \in heap : ~isdead(o)
    BY NoneDead DEF IInv, AtomicUv, AtomicStep, GcStep, Marking
  <1>1. PICK W : W = MarkW(RemarkUv)
    OBVIOUS
  <1>2. MarkClosed(W) /\ \A x \in RemarkUv : x \in Obj => ~iswhite(x) \/ x \in W
    <2>1. \A x \in RemarkUv : x \in Obj => x \in heap
      BY <1>0, Values DEF RemarkUv, OpenUv, IInv, RefsLive, Alive, Live
    <2> QED BY <1>0, <1>1, <2>1, MarkIsClosed
  <1>3. /\ Recolored(W, {}) /\ gray' = gray \cup (W \cap Listed)
        /\ UNCHANGED <<grayagain, weak, mmudata, heap, stack, tkey, tval, tmeta, fuv, udmt,
                     uvclosed, uvth, uvslot, uvtv, gcroot, cur>>
    BY <1>1 DEF AtomicUv, MarkedBy, GrayBy, Recolored, Listed, tabvars, uvvars
  <1>4. mmudata \subseteq mmudata' /\ mmudata' \subseteq heap
    BY <1>3 DEF IInv, RootsLive, Live
  <1>5. \A u \in Upval : ~uvclosed[u] /\ isgray(u) => Dark(uvval(u)) \/ uvval(u) \in W
    <2> SUFFICES ASSUME NEW u \in Upval, ~uvclosed[u], isgray(u)
                 PROVE  Dark(uvval(u)) \/ uvval(u) \in W
      OBVIOUS
    <2>1. u \in heap
      BY Values DEF IInv, Empty, isgray
    <2>2. uvval(u) \in RemarkUv
      BY <2>1 DEF RemarkUv, OpenUv
    <2>3. uvval(u) \in Obj \cup {Nil}
      BY <1>0, Types
    <2> QED BY <1>2, <2>2, <2>3 DEF Dark
  <1>6. /\ Empty' /\ Shape' /\ RefsLive' /\ RootsLive' /\ SweepProgress' /\ SweepComplete'
        /\ BlackDark'
        /\ \A u \in Upval : ~uvclosed'[u] /\ isgray(u)' => Dark(uvval(u))'
    BY <1>0, <1>2, <1>3, <1>4, <1>5, AtomicMarks
  <1>7. Colors' /\ ListsSound'
    <2>1. \A u \in Upval : IF uvclosed'[u] THEN ~isgray(u)' ELSE ~isblack(u)'
      <3>1. \A x \in Obj :
              /\ isgray(x)' => isgray(x) \/ (x \in W /\ MarkColor(x) = "gray")
              /\ isblack(x)' => isblack(x) \/ (x \in W /\ MarkColor(x) = "black")
        BY <1>0, <1>2, <1>3, Marks
      <3> QED BY <1>3, <3>1, Values, TypesDisjoint DEF IInv, Colors, MarkColor
    <2> QED BY <1>0, <1>2, <1>3, <2>1, MarkLists
  <1>8. AtomicDark'
    BY <1>0, <1>6 DEF AtomicDark
  <1> QED BY <1>6, <1>7, <1>8 DEF IInv

\* The weak tables, the running thread and the roots are gray for the second traversal.
LEMMA AtomicWeakInv ==
  ASSUME IInv, TypeOK', AtomicWeak
  PROVE  IInv'
  <1>0. /\ TypeOK /\ gcstate = "atomic" /\ gcstate' = "atomic" /\ aphase = "uv"
        /\ aphase' = "weak" /\ gray = {}
        /\ Marking /\ Marking' /\ \A o \in heap : ~isdead(o)
    BY NoneDead DEF IInv, AtomicWeak, AtomicStep, GcStep, Marking
  <1>1. PICK W : W = MarkW(AtomicRoots)
    OBVIOUS
  <1>2. MarkClosed(W) /\ \A x \in AtomicRoots : x \in Obj => ~iswhite(x) \/ x \in W
    <2>1. \A x \in AtomicRoots : x \in Obj => x \in heap
      BY Values DEF AtomicRoots, IInv, RootsLive, Alive, Live
    <2> QED BY <1>0, <1>1, <2>1, MarkIsClosed
  <1>3. /\ Recolored(W, {}) /\ gray' = weak \cup (W \cap Listed) /\ weak' = {}
        /\ UNCHANGED <<grayagain, mmudata, heap, stack, tkey, tval, tmeta, fuv, udmt,
                     uvclosed, uvth, uvslot, uvtv, gcroot, cur>>
    BY <1>1 DEF AtomicWeak, MarkedBy, GrayBy, Recolored, Listed, tabvars, uvvars
  <1>4. mmudata \subseteq mmudata' /\ mmudata' \subseteq heap
    BY <1>3 DEF IInv, RootsLive, Live
  <1>5. \A u \in Upval : ~uvclosed[u] /\ isgray(u) => Dark(uvval(u)) \/ uvval(u) \in W
    BY <1>0 DEF IInv, AtomicDark
  <1>6. /\ Empty' /\ Shape' /\ RefsLive' /\ RootsLive' /\ SweepProgress' /\ SweepComplete'
        /\ BlackDark'
        /\ \A u \in Upval : ~uvclosed'[u] /\ isgray(u)' => Dark(uvval(u))'
    BY <1>0, <1>2, <1>3, <1>4, <1>5, AtomicMarks
  <1>7. /\ \A x \in Obj :
             /\ isgray(x) => isgray(x)'
             /\ isgray(x)' => isgray(x) \/ (x \in W /\ MarkColor(x) = "gray")
             /\ isblack(x)' => isblack(x) \/ (x \in W /\ MarkColor(x) = "black")
        /\ \A v \in Obj \cup {Nil} : Dark(v) \/ v \in W => Dark(v)'
    BY <1>0, <1>2, <1>3, Marks
  <1>8. /\ Listed \subseteq Obj /\ Thread \cup Weak \subseteq Listed
        /\ \A x \in Listed : MarkColor(x) = "gray"
    BY ConstAssumption, TypesDisjoint DEF MarkColor, Listed, Obj, Weak
  <1>9. Colors'
    <2>1. \A u \in Upval : IF uvclosed'[u] THEN ~isgray(u)' ELSE ~isblack(u)'
      BY <1>3, <1>7, Values, TypesDisjoint DEF IInv, Colors, MarkColor
    <2>2. \A d \in Udata : ~isgray(d)'
      BY <1>7, Values DEF IInv, Colors, MarkColor
    <2>3. \A x \in Listed : isgray(x)' => x \in gray' \cup grayagain' \cup weak'
      BY <1>0, <1>3, <1>7, <1>8 DEF IInv, Colors
    <2>4. \A x \in Thread \cup Weak : ~isblack(x)'
      BY <1>0, <1>7, <1>8 DEF IInv, Colors
    <2>5. gray' \subseteq Listed /\ weak' \subseteq Weak /\ grayagain' \subseteq (Thread \cup Tab) \ Weak
      BY <1>0, <1>3, <1>8 DEF IInv, Colors
    <2> QED BY <2>1, <2>2, <2>3, <2>4, <2>5 DEF Colors
  <1>10. ListsSound'
    <2>1. \A x \in grayagain \cup weak : x \in heap /\ isgray(x) /\ x \in Obj /\ x \notin W
      BY <1>0, <1>2 DEF IInv, ListsSound, MarkClosed, isgray, iswhite, White, TypeOK
    <2>2. \A x \in W \cap Listed : isgray(x)' /\ x \in heap
      BY <1>2, <1>3, <1>8 DEF Recolored, isgray, MarkClosed
    <2> QED BY <1>0, <1>3, <1>7, <2>1, <2>2 DEF IInv, ListsSound
  <1>11. AtomicDark'
    <2>1. Dark(cur)' /\ Dark(gcroot)'
      <3>1. /\ Dark(cur) \/ cur \in W
            /\ Dark(gcroot) \/ gcroot \in W
        BY <1>0, <1>2, Types DEF AtomicRoots, Dark
      <3> QED BY <1>0, <1>3, <1>7, <3>1, Types DEF Dark, iswhite
    <2>2. \A t \in Weak \ gray' : ~isgray(t)'
      <3>1. \A t \in Weak : isgray(t) => t \in weak
        BY <1>0, <1>8 DEF IInv, Colors
      <3> QED BY <1>3, <1>7, <1>8, <3>1
    <2> QED BY <1>0, <1>6, <2>1, <2>2 DEF AtomicDark
  <1> QED BY <1>6, <1>9, <1>10, <1>11 DEF IInv

\* grayagain becomes the gray list of the third traversal.
LEMMA AtomicAgainInv ==
  ASSUME IInv, TypeOK', AtomicAgain
  PROVE  IInv'
  <1>0. /\ TypeOK /\ gcstate = "atomic" /\ gcstate' = "atomic" /\ aphase = "weak"
        /\ aphase' = "again" /\ gray = {} /\ Marking /\ Marking'
    BY DEF IInv, AtomicAgain, AtomicStep, GcStep, Marking
  <1>1. /\ gray' = grayagain /\ grayagain' = {}
        /\ UNCHANGED <<marked, weak, mmudata, heap, stack, tkey, tval, tmeta, fuv, udmt,
                     uvclosed, uvth, uvslot, uvtv, gcroot, cur>>
    BY DEF AtomicAgain, tabvars, uvvars
  <1>2. Empty' /\ Shape'
    BY <1>0, <1>1 DEF IInv, Empty, Shape
  <1>3. RefsLive' /\ RootsLive'
    BY <1>1 DEF IInv, RefsLive, RootsLive, Alive, Live, isdead, uvval
  <1>4. Colors' /\ ListsSound'
    BY <1>0, <1>1 DEF IInv, Colors, ListsSound, isblack, isgray, Listed
  <1>5. BlackDark'
    BY <1>0, <1>1 DEF IInv, BlackDark, isblack, Dark, iswhite
  <1>6. SweepProgress' /\ SweepComplete'
    BY <1>0, <1>1 DEF IInv, SweepProgress, SweepComplete, isdead
  <1>7. AtomicDark'
    <2>1. \A u \in Upval : ~uvclosed'[u] /\ isgray(u)' => Dark(uvval(u))'
      BY <1>0, <1>1 DEF IInv, AtomicDark, Dark, iswhite, isgray, uvval
    <2>2. Dark(cur)' /\ Dark(gcroot)'
      BY <1>0, <1>1 DEF IInv, AtomicDark, Dark, iswhite
    <2>3. \A t \in Weak : isgray(t)' =>
                      /\ Dark(tmeta[t])'
                      /\ \A n \in Node : /\ t \in WeakKeyTab \/ Dark(tkey[t][n])'
                                         /\ t \in WeakValTab \/ Dark(tval[t][n])'
      BY <1>0, <1>1 DEF IInv, AtomicDark, Dark, iswhite, isgray
    <2>4. \A t \in Thread \ gray' : ~isgray(t)'
      <3>1. Thread \cap Weak = {}
        BY ConstAssumption, TypesDisjoint DEF Weak
      <3> QED BY <1>0, <1>1, <3>1 DEF IInv, Colors, Listed, isgray
    <2> QED BY <1>0, <1>1, <2>1, <2>2, <2>3, <2>4 DEF AtomicDark
  <1> QED BY <1>2, <1>3, <1>4, <1>5, <1>6, <1>7 DEF IInv

\* lj_gc_separateudata() and the marking of what waits for a finalizer.
LEMMA AtomicUdataInv ==
  ASSUME IInv, TypeOK', AtomicUdata
  PROVE  IInv'
  <1>0. /\ TypeOK /\ gcstate = "atomic" /\ gcstate' = "atomic" /\ aphase = "again"
        /\ aphase' = "udata" /\ gray = {}
        /\ Marking /\ Marking' /\ \A o \in heap : ~isdead(o)
    BY NoneDead DEF IInv, AtomicUdata, AtomicStep, GcStep, Marking
  <1>1. PICK mm : mm = mmudata'
    OBVIOUS
  <1>2. PICK W : W = MarkW({udmt[d] : d \in mm})
    OBVIOUS
  <1>3. /\ mmudata \subseteq mm /\ mm \subseteq Udata \cap heap
        /\ \A o \in Obj : marked'[o] = CASE o \in mm -> "black"
                                         [] o \in W -> MarkColor(o)
                                         [] OTHER -> marked[o]
        /\ gray' = W \cap Tab
        /\ UNCHANGED <<grayagain, weak, heap, stack, tkey, tval, tmeta, fuv, udmt,
                     uvclosed, uvth, uvslot, uvtv, gcroot, cur>>
    <2>1. mmudata \subseteq heap /\ mmudata \subseteq Udata
      BY <1>0 DEF IInv, RootsLive, Live, TypeOK
    <2> QED BY <1>1, <1>2, <2>1 DEF AtomicUdata, MmudataMarks, tabvars, uvvars
  <1>4. \A d \in mm : udmt[d] \in Tab \cup {Nil} /\ udmt[d] \in heap \cup {Nil}
    BY <1>0, <1>3 DEF TypeOK, IInv, RefsLive, Alive, Live
  <1>5. /\ MarkClosed(W) /\ W \subseteq Tab
        /\ \A d \in mm : Dark(udmt[d]) \/ udmt[d] \in W
    <2>1. \A x \in {udmt[d] : d \in mm} : x \in Obj => x \in heap
      BY <1>4, Values
    <2>2. /\ MarkClosed(W)
          /\ \A x \in {udmt[d] : d \in mm} : x \in Obj => ~iswhite(x) \/ x \in W
      BY <1>0, <1>2, <2>1, MarkIsClosed
    <2>3. \A x \in {udmt[d] : d \in mm} : x \in Tab \cup {Nil} /\ x \notin Upval
      BY <1>4, Values, TypesDisjoint
    <2>4. W \subseteq Tab
      <3>1. \A x \in W : x \in Obj /\ (x \in {udmt[d] : d \in mm} \/ x \in Tab)
        BY <1>0, <1>2, <2>3, MarkFacts
      <3> QED BY <2>3, <3>1, Values
    <2>5. \A d \in mm : Dark(udmt[d]) \/ udmt[d] \in W
      BY <1>4, <2>2, Values DEF Dark
    <2> QED BY <2>2, <2>4, <2>5
  <1>6. Recolored(W, mm) /\ \A d \in mm : isblack(d)'
    <2>1. mm \cap W = {}
      BY <1>3, <1>5, TypesDisjoint
    <2>2. \A x \in Obj : marked'[x] = IF x \in mm THEN "black"
                                      ELSE IF x \in W THEN MarkColor(x) ELSE marked[x]
      BY <1>3, <2>1
    <2>3. mm \subseteq Obj
      BY <1>3, Values
    <2> QED BY <2>2, <2>3 DEF Recolored, isblack
  <1>7. gray' = gray \cup (W \cap Listed)
    BY <1>0, <1>3, <1>5 DEF Listed
  <1>8. /\ Empty' /\ Shape' /\ RefsLive' /\ RootsLive' /\ SweepProgress' /\ SweepComplete'
        /\ BlackDark'
        /\ \A u \in Upval : ~uvclosed'[u] /\ isgray(u)' => Dark(uvval(u))'
    <2>1. \A u \in Upval : ~uvclosed[u] /\ isgray(u) => Dark(uvval(u)) \/ uvval(u) \in W
      BY <1>0 DEF IInv, AtomicDark
    <2> QED BY <1>0, <1>1, <1>3, <1>5, <1>6, <2>1, AtomicMarks
  <1>9. /\ \A x \in Obj \ mm :
             /\ isgray(x)' => isgray(x) \/ (x \in W /\ MarkColor(x) = "gray")
             /\ isblack(x)' => isblack(x) \/ (x \in W /\ MarkColor(x) = "black")
        /\ \A v \in Obj \cup {Nil} : Dark(v) \/ v \in W => Dark(v)'
    BY <1>0, <1>3, <1>5, <1>6, Marks
  <1>10. Colors' /\ ListsSound'
    <2>1. \A u \in Upval : IF uvclosed'[u] THEN ~isgray(u)' ELSE ~isblack(u)'
      BY <1>3, <1>5, <1>9, Values, TypesDisjoint DEF IInv, Colors
    <2>2. mm \cap Listed = {} /\ \A d \in Udata \cap mm : ~isgray(d)'
      BY <1>3, <1>6, TypesDisjoint DEF Listed, isgray, isblack
    <2> QED BY <1>0, <1>3, <1>5, <1>6, <1>7, <2>1, <2>2, MarkLists
  <1>11. AtomicDark'
    <2>1. Dark(cur)' /\ Dark(gcroot)'
      BY <1>0, <1>3, <1>9, Types DEF IInv, AtomicDark, Dark, iswhite
    <2>2. \A t \in (Weak \cup Thread) \ gray' : isgray(t)' => isgray(t)
      <3>1. Weak \cup Thread \subseteq Listed /\ Listed \subseteq Obj /\ mm \cap Listed = {}
        BY <1>3, ConstAssumption, TypesDisjoint DEF Weak, Listed, Obj
      <3> QED BY <1>7, <1>9, <3>1
    <2>3. \A t \in Weak \ gray' : isgray(t)' =>
                      /\ Dark(tmeta[t])'
                      /\ \A n \in Node : /\ t \in WeakKeyTab \/ Dark(tkey[t][n])'
                                         /\ t \in WeakValTab \/ Dark(tval[t][n])'
      <3> SUFFICES ASSUME NEW t \in Weak \ gray', isgray(t)'
                   PROVE  /\ Dark(tmeta[t])'
                          /\ \A n \in Node : /\ t \in WeakKeyTab \/ Dark(tkey[t][n])'
                                             /\ t \in WeakValTab \/ Dark(tval[t][n])'
        OBVIOUS
      <3>1. t \in Tab
        BY ConstAssumption DEF Weak
      <3>2. /\ Dark(tmeta[t]) /\ tmeta[t] \in Obj \cup {Nil}
            /\ \A n \in Node :
                 /\ t \in WeakKeyTab \/ (Dark(tkey[t][n]) /\ tkey[t][n] \in Obj \cup {Nil})
                 /\ t \in WeakValTab \/ (Dark(tval[t][n]) /\ tval[t][n] \in Obj \cup {Nil})
        BY <1>0, <2>2, <3>1, Types DEF IInv, AtomicDark
      <3> QED BY <1>3, <1>9, <3>2 DEF Dark, iswhite
    <2>4. \A t \in Thread \ gray' : isgray(t)' => \A i \in Slot : Dark(stack[t][i])'
      <3> SUFFICES ASSUME NEW t \in Thread \ gray', isgray(t)', NEW i \in Slot
                   PROVE  Dark(stack[t][i])'
        OBVIOUS
      <3>1. Dark(stack[t][i]) /\ stack[t][i] \in Obj \cup {Nil}
        BY <1>0, <2>2, Types DEF IInv, AtomicDark
      <3> QED BY <1>3, <1>9, <3>1 DEF Dark, iswhite
    <2>5. grayagain' \subseteq Thread
      BY <1>0, <1>3 DEF IInv, AtomicDark
    <2>6. \A d \in mm : Dark(d)' /\ Dark(udmt[d])'
      <3>1. \A d \in mm : Dark(d)'
        BY <1>6 DEF Dark, isblack, iswhite, White
      <3>2. \A d \in mm : udmt[d] \in Obj \cup {Nil}
        BY <1>4, Values
      <3> QED BY <1>3, <1>5, <1>9, <3>1, <3>2 DEF Dark, iswhite
    <2> QED BY <1>0, <1>1, <1>8, <2>1, <2>3, <2>4, <2>5, <2>6 DEF AtomicDark
  <1> QED BY <1>8, <1>10, <1>11 DEF IInv

\* What the sweep of the root list, the string table and the threads visits is
\* all of the heap but mmudata.
LEMMA RootListCovers ==
  ASSUME IInv, tosweep' = RootList, sweepstr' = 0, gcstate' = "sweepstring",
         UNCHANGED <<strmask, uvclosed, uvth>>
  PROVE  \A o \in heap \ mmudata : Unswept(o)'
  <1>0. TypeOK
    BY DEF IInv
  <1> SUFFICES ASSUME NEW o \in heap \ mmudata PROVE Unswept(o)'
    OBVIOUS
  <1>1. CASE o \in Str
    <2>1. Hash[o] \in Nat /\ strmask \in Nat
      BY <1>0, <1>1, ConstAssumption DEF TypeOK
    <2>2. Hash[o] % (strmask + 1) >= 0
      BY <2>1
    <2> QED BY <1>1, <2>2 DEF Unswept
  <1>2. CASE o \in OpenUv
    <2>1. uvth[o] \in heap /\ uvth[o] \in Thread
      BY <1>0, <1>2, Types DEF IInv, Shape, OpenUv
    <2>2. uvth[o] \in RootList
      BY <1>0, <2>1, TypesDisjoint DEF RootList, OpenUv, TypeOK
    <2> QED BY <1>2, <2>2 DEF Unswept, OpenUv
  <1>3. CASE o \notin Str /\ o \notin OpenUv
    BY <1>3 DEF Unswept, RootList
  <1> QED BY <1>1, <1>2, <1>3

\* The end of the mark phase: the whites die, and nothing that lives on refers
\* to them.
LEMMA AtomicFlipInv ==
  ASSUME IInv, TypeOK', AtomicFlip
  PROVE  IInv'
  <1>0. /\ TypeOK /\ gcstate = "atomic" /\ gcstate' = "sweepstring" /\ aphase = "udata"
        /\ aphase' = "none" /\ gray = {}
        /\ Marking /\ ~Marking' /\ \A o \in heap : ~isdead(o)
    BY NoneDead DEF IInv, AtomicFlip, AtomicStep, GcStep, Marking
  <1>1. /\ \A t \in Tab, n \in Node :
             /\ tval'[t][n] = IF Cleared(t, n) THEN Nil ELSE tval[t][n]
             /\ tkey'[t][n] = IF Cleared(t, n) THEN Nil ELSE tkey[t][n]
        /\ \A o \in Obj : marked'[o] = IF WeakStr(o) /\ iswhite(o) THEN "gray"
                                       ELSE flipwhite(o)
        /\ sweepstr' = 0 /\ tosweep' = RootList
        /\ UNCHANGED <<strmask, mmudata, gray, grayagain, weak, heap, stack, tmeta, fuv,
                       uvclosed, uvth, uvslot, uvtv, udmt, gcroot, cur>>
    BY DEF AtomicFlip, lists, uvvars
  \* a weakly held string is allocated
  <1>2. \A s : WeakStr(s) => s \in Str /\ s \in heap
    <2>1. \A t \in weak : t \in Tab /\ ~isdead(t)
      BY <1>0, ConstAssumption DEF IInv, Colors, Weak, ListsSound
    <2>2. \A t \in weak, n \in Node : Alive(tkey[t][n]) /\ Alive(tval[t][n])
      BY <2>1 DEF IInv, RefsLive
    <2> QED BY <2>2, Values DEF WeakStr, Alive, Live
  <1>3. \A o \in Obj : /\ ~iswhite(o) => marked'[o] = marked[o] /\ o \in heap
                       /\ WeakStr(o) => o \in heap /\ ~isdead(o)'
                       /\ isgray(o)' => isgray(o) \/ o \in Str
                       /\ isblack(o)' => isblack(o)
                       /\ o \notin heap => marked'[o] = "white"
                       /\ ~isdead(o)' => o \notin heap \/ ~iswhite(o) \/ o \in Str
    <2> SUFFICES ASSUME NEW o \in Obj
                 PROVE  /\ ~iswhite(o) => marked'[o] = marked[o] /\ o \in heap
                        /\ WeakStr(o) => o \in heap /\ ~isdead(o)'
                        /\ isgray(o)' => isgray(o) \/ o \in Str
                        /\ isblack(o)' => isblack(o)
                        /\ o \notin heap => marked'[o] = "white"
                        /\ ~isdead(o)' => o \notin heap \/ ~iswhite(o) \/ o \in Str
      OBVIOUS
    <2>1. o \notin heap => marked[o] = "white" /\ ~WeakStr(o)
      BY <1>2 DEF IInv, Empty
    <2>2. marked[o] \in {"white", "other", "gray", "black"} /\ (o \in heap => ~isdead(o))
      BY <1>0 DEF TypeOK, White
    <2>3. marked'[o] = IF WeakStr(o) /\ iswhite(o) THEN "gray" ELSE flipwhite(o)
      BY <1>1
    <2>4. WeakStr(o) => o \in Str /\ o \in heap
      BY <1>2
    <2> QED BY <2>1, <2>2, <2>3, <2>4 DEF flipwhite, iswhite, isdead, isgray, isblack, White
  <1>4. \A v \in Obj \cup {Nil} : Dark(v) \/ WeakStr(v) => Alive(v)'
    <2> SUFFICES ASSUME NEW v \in Obj, ~iswhite(v) \/ WeakStr(v) PROVE Live(v)'
      <3>1. ~WeakStr(Nil)
        BY Values DEF WeakStr
      <3> QED BY <3>1 DEF Alive, Dark
    <2> QED BY <1>1, <1>3 DEF Live, isdead, iswhite, White
  <1>5. Empty'
    BY <1>1, <1>3 DEF IInv, Empty
  <1>6. Shape'
    <2>1. \A t \in Tab : \A n \in Node : tval'[t][n] = Nil => tkey'[t][n] = Nil
      BY <1>1 DEF IInv, Shape
    <2> QED BY <1>0, <1>1, <2>1 DEF IInv, Shape
  <1>7. RefsLive'
    <2>1. \A t \in Thread : ~isdead(t)' => \A i \in Slot : Alive(stack[t][i])'
      <3> SUFFICES ASSUME NEW t \in Thread, ~isdead(t)', NEW i \in Slot
                   PROVE  Alive(stack[t][i])'
        OBVIOUS
      <3>1. CASE t \notin heap
        BY <1>1, <3>1 DEF IInv, Empty, Alive
      <3>2. CASE t \in heap
        <4>1. isgray(t)
          <5>1. ~iswhite(t) /\ ~isblack(t)
            BY <1>0, <1>3, <3>2, Values, TypesDisjoint DEF IInv, Colors
          <5> QED BY <1>0, <5>1, Values DEF TypeOK, iswhite, isblack, isgray, White
        <4>2. Dark(stack[t][i]) /\ stack[t][i] \in Obj \cup {Nil}
          BY <1>0, <4>1, Types DEF IInv, AtomicDark
        <4> QED BY <1>1, <1>4, <4>2 DEF Alive, Live, isdead
      <3> QED BY <3>1, <3>2
    <2>2. \A t \in Tab : ~isdead(t)' =>
            /\ Alive(tmeta[t])'
            /\ \A n \in Node : Alive(tkey[t][n])' /\ Alive(tval[t][n])'
      <3> SUFFICES ASSUME NEW t \in Tab, ~isdead(t)'
                   PROVE  /\ Alive(tmeta[t])'
                          /\ \A n \in Node : Alive(tkey[t][n])' /\ Alive(tval[t][n])'
        OBVIOUS
      <3>0. /\ tmeta[t] \in Obj \cup {Nil}
            /\ \A n \in Node : tkey[t][n] \in Obj \cup {Nil} /\ tval[t][n] \in Obj \cup {Nil}
        BY <1>0, Types
      <3>1. CASE t \notin heap
        BY <1>1, <3>1 DEF IInv, Empty, Alive
      <3>2. CASE t \in heap /\ isblack(t)
        <4>1. Dark(tmeta[t]) /\ \A n \in Node : Dark(tkey[t][n]) /\ Dark(tval[t][n])
          BY <1>0, <3>2 DEF IInv, BlackDark
        <4>2. /\ Alive(tmeta[t])'
              /\ \A n \in Node : \A v : v \in {tkey[t][n], tval[t][n]} => Alive(v)'
          BY <1>1, <1>4, <3>0, <4>1 DEF Alive, Live, isdead
        <4> QED BY <1>1, <4>2 DEF Alive, Live, isdead
      <3>3. CASE t \in heap /\ isgray(t)
        <4>1. t \in weak /\ t \in Weak
          BY <1>0, <3>3, TypesDisjoint DEF IInv, Colors, Listed, AtomicDark
        <4>2. /\ Dark(tmeta[t])
              /\ \A n \in Node : /\ t \in WeakKeyTab \/ Dark(tkey[t][n])
                                 /\ t \in WeakValTab \/ Dark(tval[t][n])
          BY <1>0, <3>3, <4>1 DEF IInv, AtomicDark
        <4>3. Alive(tmeta[t])'
          BY <1>1, <1>4, <3>0, <4>2 DEF Alive, Live, isdead
        <4>4. ASSUME NEW n \in Node
              PROVE  Alive(tkey[t][n])' /\ Alive(tval[t][n])'
          <5>1. CASE Cleared(t, n) \/ tval[t][n] = Nil
            <6>1. tkey'[t][n] = Nil /\ tval'[t][n] = Nil
              BY <1>1, <5>1 DEF IInv, Shape
            <6> QED BY <6>1 DEF Alive
          <5>2. CASE ~Cleared(t, n) /\ tval[t][n] # Nil
            <6>1. ~mayclear(tkey[t][n], FALSE) /\ ~mayclear(tval[t][n], TRUE)
              BY <4>1, <5>2 DEF Cleared
            <6>2. /\ Dark(tkey[t][n]) \/ tkey[t][n] \in Str
                  /\ Dark(tval[t][n]) \/ tval[t][n] \in Str
              BY <3>0, <6>1 DEF mayclear, Dark
            <6>3. /\ tkey[t][n] \in Str => WeakStr(tkey[t][n])
                  /\ tval[t][n] \in Str => WeakStr(tval[t][n])
              BY <4>1, <5>2, <6>1 DEF WeakStr
            <6>4. \A v : v \in {tkey[t][n], tval[t][n]} => Alive(v)'
              BY <1>4, <3>0, <6>2, <6>3
            <6> QED BY <1>1, <5>2, <6>4 DEF Alive, Live, isdead
          <5> QED BY <5>1, <5>2
        <4> QED BY <4>3, <4>4
      <3>4. t \in heap => isblack(t) \/ isgray(t)
        BY <1>0, <1>3, Values, TypesDisjoint DEF TypeOK, iswhite, isblack, isgray, White
      <3> QED BY <3>1, <3>2, <3>3, <3>4
    <2>3. \A f \in Func : ~isdead(f)' => Alive(fuv[f])'
      <3> SUFFICES ASSUME NEW f \in Func, ~isdead(f)' PROVE Alive(fuv[f])'
        OBVIOUS
      <3>1. CASE f \notin heap
        BY <1>1, <3>1 DEF IInv, Empty, Alive
      <3>2. CASE f \in heap
        <4>1. ~isgray(f)
          BY <1>0, ConstAssumption, TypesDisjoint DEF IInv, Colors, Listed, Weak
        <4>2. isblack(f)
          BY <1>0, <1>3, <3>2, <4>1, Values, TypesDisjoint
             DEF TypeOK, iswhite, isblack, isgray, White
        <4>3. Dark(fuv[f]) /\ fuv[f] \in Obj \cup {Nil}
          BY <1>0, <4>2, Types DEF IInv, BlackDark
        <4> QED BY <1>1, <1>4, <4>3 DEF Alive, Live, isdead
      <3> QED BY <3>1, <3>2
    <2>4. \A u \in Upval : ~isdead(u)' => Alive(uvval(u))'
      <3> SUFFICES ASSUME NEW u \in Upval, ~isdead(u)' PROVE Alive(uvval(u))'
        OBVIOUS
      <3>0. uvval(u)' = uvval(u) /\ uvval(u) \in Obj \cup {Nil}
        BY <1>0, <1>1, Types DEF uvval
      <3>1. Dark(uvval(u))
        <4>1. CASE u \notin heap
          BY <4>1 DEF IInv, Empty, uvval, Dark
        <4>2. CASE u \in heap
          <5>1. isblack(u) \/ isgray(u)
            BY <1>0, <1>3, <4>2, Values, TypesDisjoint
               DEF TypeOK, iswhite, isblack, isgray, White
          <5>2. CASE uvclosed[u]
            BY <1>0, <5>1, <5>2 DEF IInv, Colors, BlackDark, uvval
          <5>3. CASE ~uvclosed[u]
            BY <1>0, <5>1, <5>3 DEF IInv, Colors, AtomicDark
          <5> QED BY <5>2, <5>3
        <4> QED BY <4>1, <4>2
      <3> QED BY <1>4, <3>0, <3>1 DEF Alive, Live, isdead
    <2>5. \A d \in Udata : ~isdead(d)' => Alive(udmt[d])'
      <3> SUFFICES ASSUME NEW d \in Udata, ~isdead(d)' PROVE Alive(udmt[d])'
        OBVIOUS
      <3>1. Dark(udmt[d]) /\ udmt[d] \in Obj \cup {Nil}
        <4>1. CASE d \notin heap
          BY <1>0, <4>1, Types DEF IInv, Empty, Dark
        <4>2. CASE d \in heap
          <5>1. isblack(d)
            BY <1>0, <1>3, <4>2, Values, TypesDisjoint
               DEF IInv, Colors, TypeOK, iswhite, isblack, isgray, White
          <5> QED BY <1>0, <5>1, Types DEF IInv, BlackDark, AtomicDark
        <4> QED BY <4>1, <4>2
      <3> QED BY <1>1, <1>4, <3>1 DEF Alive, Live, isdead
    <2> QED BY <2>1, <2>2, <2>3, <2>4, <2>5 DEF RefsLive
  <1>8. RootsLive'
    <2>1. /\ Dark(Main) /\ Dark(Registry) /\ Dark(cur) /\ Dark(gcroot)
          /\ \A d \in mmudata : Dark(d)
      BY <1>0 DEF IInv, BlackDark, AtomicDark
    <2>2. /\ Main \in Obj /\ Registry \in Obj /\ cur \in Obj /\ gcroot \in Obj \cup {Nil}
          /\ mmudata \subseteq Obj /\ Nil \notin Obj
      BY <1>0, Types, Values
    <2>3. /\ Alive(Main)' /\ Alive(Registry)' /\ Alive(cur)' /\ Alive(gcroot)'
          /\ \A d \in mmudata : Alive(d)'
      BY <1>1, <1>4, <2>1, <2>2 DEF Alive, Live, isdead
    <2> QED BY <1>1, <2>2, <2>3 DEF RootsLive, Alive, Live, isdead
  <1>9. Colors' /\ ListsSound' /\ BlackDark' /\ AtomicDark'
    <2>1. \A u \in Upval : IF uvclosed'[u] THEN ~isgray(u)' ELSE ~isblack(u)'
      BY <1>1, <1>3, Values, TypesDisjoint DEF IInv, Colors
    <2>2. \A d \in Udata : ~isgray(d)'
      BY <1>3, Values, TypesDisjoint DEF IInv, Colors
    <2> QED BY <1>0, <2>1, <2>2 DEF Colors, ListsSound, BlackDark, AtomicDark
  <1>10. SweepProgress'
    <2>1. \A o \in heap \ mmudata : Unswept(o)'
      BY <1>0, <1>1, RootListCovers
    <2> QED BY <1>1, <2>1 DEF SweepProgress
  <1>11. SweepComplete'
    BY <1>0 DEF SweepComplete
  <1> QED BY <1>5, <1>6, <1>7, <1>8, <1>9, <1>10, <1>11 DEF IInv

\* The end of a cycle: nothing but the state of the collector changes.
LEMMA PauseStep ==
  ASSUME IInv, TypeOK', gcstate \in {"pause", "finalize"}, gcstate' = "pause",
         UNCHANGED <<aphase, mmudata, tkey, tval, tmeta, udmt, uvtv, fuv, uvclosed, uvth,
                     uvslot, heap, marked, stack, cur, gcroot>>
  PROVE  IInv'
  <1>0. aphase = "none" /\ ~Marking'
    BY DEF IInv, Shape, Marking
  <1>1. Empty' /\ Shape'
    BY <1>0 DEF IInv, Empty, Shape
  <1>2. RefsLive' /\ RootsLive'
    BY DEF IInv, RefsLive, RootsLive, Alive, Live, isdead, uvval
  <1>3. Colors'
    BY <1>0 DEF IInv, Colors, isblack, isgray
  <1>4. ListsSound' /\ BlackDark' /\ AtomicDark'
    BY <1>0 DEF ListsSound, BlackDark, AtomicDark
  <1>5. SweepProgress' /\ SweepComplete'
    BY DEF IInv, SweepProgress, SweepComplete, isdead
  <1> QED BY <1>1, <1>2, <1>3, <1>4, <1>5 DEF IInv

\* No finalizer is left: the cycle is over.
LEMMA FinalizeEndInv ==
  ASSUME IInv, TypeOK', FinalizeEnd
  PROVE  IInv'
  BY PauseStep DEF FinalizeEnd, GcStep, gcdata, tabvars, uvvars

\* lj_gc_fullgc() has finished the sweep and starts its own cycle.
LEMMA FullGcRestartInv ==
  ASSUME IInv, TypeOK', FullGcRestart
  PROVE  IInv'
  BY PauseStep DEF FullGcRestart, gcdata, tabvars, uvvars

\* lj_gc_fullgc() drops the lists of a cycle that is under way, and sweeps.
LEMMA FullGcInv ==
  ASSUME IInv, TypeOK', FullGc
  PROVE  IInv'
  <1>1. CASE gcstate \notin {"pause", "propagate", "atomic"}
    BY <1>1, Frozen DEF FullGc, lists, tabvars, uvvars
  <1>2. CASE gcstate \in {"pause", "propagate", "atomic"}
    <2>1. /\ aphase = "none" /\ gcstate' = "sweepstring" /\ ~Marking'
          /\ tosweep' = RootList /\ sweepstr' = 0
          /\ UNCHANGED <<aphase, strmask, mmudata, marked, heap, stack, tkey, tval, tmeta,
                         fuv, uvclosed, uvth, uvslot, uvtv, udmt, gcroot, cur>>
      BY <1>2 DEF FullGc, MutatorRuns, Marking, tabvars, uvvars
    <2>2. Empty' /\ Shape'
      BY <2>1 DEF IInv, Empty, Shape
    <2>3. RefsLive' /\ RootsLive'
      BY <2>1 DEF IInv, RefsLive, RootsLive, Alive, Live, isdead, uvval
    <2>4. Colors'
      BY <2>1 DEF IInv, Colors, isblack, isgray
    <2>5. ListsSound' /\ BlackDark' /\ AtomicDark'
      BY <2>1 DEF ListsSound, BlackDark, AtomicDark
    <2>6. SweepProgress'
      <3>1. \A o \in heap \ mmudata : Unswept(o)'
        BY <2>1, RootListCovers
      <3> QED BY <2>1, <3>1 DEF SweepProgress
    <2>7. SweepComplete'
      BY <2>1 DEF SweepComplete
    <2> QED BY <2>2, <2>3, <2>4, <2>5, <2>6, <2>7 DEF IInv
  <1> QED BY <1>1, <1>2

\* gc_finalize() puts the userdata on the stack and hands it back as white.
LEMMA FinalizeInv ==
  ASSUME IInv, TypeOK', NEW d \in mmudata, Finalize(d)
  PROVE  IInv'
  <1>0. /\ TypeOK /\ gcstate = "finalize" /\ gcstate' = "finalize" /\ aphase = "none"
        /\ aphase' = "none" /\ ~Marking' /\ d \in Udata /\ d \in Obj /\ Live(d)
        /\ d \in Value
    BY Values DEF IInv, Shape, Finalize, GcStep, Marking, RootsLive, TypeOK, Value
  <1>1. /\ mmudata' = mmudata \ {d}
        /\ \A o \in Obj : marked'[o] = IF o = d THEN "white" ELSE marked[o]
        /\ UNCHANGED <<heap, tkey, tval, tmeta, fuv, uvclosed, uvth, uvslot, uvtv, udmt,
                       gcroot, cur>>
        /\ \A t \in Thread, i \in Slot : stack'[t][i] \in {stack[t][i], d}
        /\ \A t \in Thread, i \in Slot : t # cur => stack'[t][i] = stack[t][i]
    <2>1. /\ \A t \in Thread, i \in Slot : stack'[t][i] \in {stack[t][i], d}
          /\ \A t \in Thread, i \in Slot : t # cur => stack'[t][i] = stack[t][i]
      <3>1. CASE stack' = stack
        BY <3>1
      <3>2. CASE Push(cur, d)
        <4>1. cur \in Thread /\ top[cur] + 1 \in Slot
          BY <1>0, <3>2, ConstAssumption DEF TypeOK, Push, Slot
        <4> QED BY <1>0, <3>2, <4>1 DEF TypeOK, Push
      <3> QED BY <3>1, <3>2 DEF Finalize
    <2> QED BY <1>0, <2>1 DEF Finalize, FinalizeColor, TypeOK, tabvars, uvvars
  <1>2. /\ \A o \in Obj : /\ isdead(o)' <=> isdead(o)
                          /\ Live(o) => Live(o)'
                          /\ isgray(o)' => isgray(o)
                          /\ isblack(o)' => isblack(o)
        /\ \A v \in Obj \cup {Nil} : Alive(v) => Alive(v)'
    <2>1. \A o \in Obj : /\ isdead(o)' <=> isdead(o)
                         /\ isgray(o)' => isgray(o)
                         /\ isblack(o)' => isblack(o)
      BY <1>0, <1>1 DEF isdead, isgray, isblack, Live
    <2>2. \A o \in Obj : Live(o) => Live(o)'
      BY <1>1, <2>1 DEF Live
    <2> QED BY <2>1, <2>2 DEF Alive
  <1>3. Empty'
    <2>1. \A t \in Thread \ heap : t # cur
      BY DEF IInv, RootsLive, Live
    <2>2. \A o \in Obj \ heap : marked'[o] = "white"
      BY <1>1 DEF IInv, Empty
    <2>3. \A t \in Thread \ heap : \A i \in Slot : stack'[t][i] = Nil
      BY <1>1, <2>1 DEF IInv, Empty
    <2> QED BY <1>1, <2>2, <2>3 DEF IInv, Empty
  <1>4. Shape'
    BY <1>0, <1>1 DEF IInv, Shape
  <1>5. RefsLive'
    <2>1. \A t \in Thread : ~isdead(t)' => \A i \in Slot : Alive(stack[t][i])'
      <3> SUFFICES ASSUME NEW t \in Thread, ~isdead(t)', NEW i \in Slot
                   PROVE  Alive(stack[t][i])'
        OBVIOUS
      <3>1. Alive(stack[t][i]) /\ stack[t][i] \in Obj \cup {Nil}
        BY <1>0, <1>2, Types, Values DEF IInv, RefsLive
      <3>2. \A v : v \in {stack[t][i], d} => Alive(v)'
        BY <1>0, <1>2, <3>1 DEF Alive
      <3> QED BY <1>1, <3>2 DEF Alive, Live, isdead
    <2>2. \A t \in Tab : ~isdead(t)' =>
            /\ Alive(tmeta[t])'
            /\ \A n \in Node : Alive(tkey[t][n])' /\ Alive(tval[t][n])'
      <3> SUFFICES ASSUME NEW t \in Tab, ~isdead(t)'
                   PROVE  /\ Alive(tmeta[t])'
                          /\ \A n \in Node : Alive(tkey[t][n])' /\ Alive(tval[t][n])'
        OBVIOUS
      <3>1. /\ Alive(tmeta[t]) /\ tmeta[t] \in Obj \cup {Nil}
            /\ \A n \in Node : /\ Alive(tkey[t][n]) /\ tkey[t][n] \in Obj \cup {Nil}
                               /\ Alive(tval[t][n]) /\ tval[t][n] \in Obj \cup {Nil}
        BY <1>0, <1>2, Types, Values DEF IInv, RefsLive
      <3> QED BY <1>1, <1>2, <3>1 DEF Alive, Live, isdead
    <2>3. \A f \in Func : ~isdead(f)' => Alive(fuv[f])'
      <3>1. \A f \in Func : /\ ~isdead(f)' => Alive(fuv[f])
                            /\ fuv[f] \in Obj \cup {Nil}
        BY <1>0, <1>2, Types, Values DEF IInv, RefsLive
      <3> QED BY <1>1, <1>2, <3>1 DEF Alive, Live, isdead
    <2>4. \A u \in Upval : ~isdead(u)' => Alive(uvval(u))'
      <3> SUFFICES ASSUME NEW u \in Upval, ~isdead(u)' PROVE Alive(uvval(u))'
        OBVIOUS
      <3>1. Alive(uvval(u)) /\ uvval(u) \in Obj \cup {Nil}
        BY <1>0, <1>2, Types, Values DEF IInv, RefsLive
      <3>2. uvval(u)' \in {uvval(u), d}
        BY <1>0, <1>1, Types DEF uvval
      <3>3. \A v : v \in {uvval(u), d} => Alive(v)'
        BY <1>0, <1>2, <3>1 DEF Alive
      <3> QED BY <3>2, <3>3 DEF Alive, Live, isdead
    <2>5. \A x \in Udata : ~isdead(x)' => Alive(udmt[x])'
      <3>1. \A x \in Udata : /\ ~isdead(x)' => Alive(udmt[x])
                             /\ udmt[x] \in Obj \cup {Nil}
        BY <1>0, <1>2, Types, Values DEF IInv, RefsLive
      <3> QED BY <1>1, <1>2, <3>1 DEF Alive, Live, isdead
    <2> QED BY <2>1, <2>2, <2>3, <2>4, <2>5 DEF RefsLive
  <1>6. RootsLive'
    <2>1. /\ Live(Main) /\ Live(Registry) /\ Live(cur) /\ Alive(gcroot)
          /\ \A x \in mmudata : Live(x)
      BY DEF IInv, RootsLive
    <2>2. /\ Main \in Obj /\ Registry \in Obj /\ cur \in Obj /\ gcroot \in Obj \cup {Nil}
          /\ mmudata \subseteq Obj
      BY <1>0, Types
    <2> QED BY <1>1, <1>2, <2>1, <2>2 DEF RootsLive, Alive, Live, isdead
  <1>7. Colors'
    BY <1>0, <1>1, <1>2, Values DEF IInv, Colors
  <1>8. ListsSound' /\ BlackDark' /\ AtomicDark' /\ SweepProgress'
    BY <1>0 DEF ListsSound, BlackDark, AtomicDark, SweepProgress
  <1>9. SweepComplete'
    BY <1>0, <1>1, <1>2, Types DEF IInv, SweepComplete
  <1> QED BY <1>3, <1>4, <1>5, <1>6, <1>7, <1>8, <1>9 DEF IInv

\* The sweep visits S, frees the dead objects F of it and closes the upvalues
\* C of a dead thread: what lives keeps all that it refers to.
LEMMA SweepStep ==
  ASSUME IInv, TypeOK', gcstate \in {"sweepstring", "sweep"},
         gcstate' \in {"sweepstring", "sweep", "finalize", "pause"},
         NEW S, NEW F, NEW C,
         F \subseteq S, C \subseteq S, C \subseteq Upval \ F,
         \A x \in F : isdead(x), \A x \in S \cap Obj : isdead(x) => x \in F \cup Str,
         heap' = heap \ F,
         \A x \in Obj : marked'[x] = IF x \in S THEN "white" ELSE marked[x],
         \A t \in Thread, i \in Slot : stack'[t][i] = IF t \in F THEN Nil ELSE stack[t][i],
         \A t \in Tab, n \in Node :
           /\ tkey'[t][n] = IF t \in F THEN Nil ELSE tkey[t][n]
           /\ tval'[t][n] = IF t \in F THEN Nil ELSE tval[t][n],
         \A t \in Tab : tmeta'[t] = IF t \in F THEN Nil ELSE tmeta[t],
         \A f \in Func : fuv'[f] = IF f \in F THEN Nil ELSE fuv[f],
         \A d \in Udata : udmt'[d] = IF d \in F THEN Nil ELSE udmt[d],
         \A u \in Upval :
           /\ uvclosed'[u] <=> u \in C \cup F \/ uvclosed[u]
           /\ uvtv'[u] = IF u \in F THEN Nil ELSE IF u \in C THEN uvval(u) ELSE uvtv[u]
           /\ u \notin C \cup F => uvth'[u] = uvth[u] /\ uvslot'[u] = uvslot[u]
           /\ ~uvclosed[u] /\ uvth[u] \in F => u \in C \cup F,
         UNCHANGED <<aphase, mmudata, gcroot, cur>>
  PROVE  /\ Empty' /\ Shape' /\ RefsLive' /\ RootsLive' /\ Colors' /\ ListsSound'
         /\ BlackDark' /\ AtomicDark'
  <1>0. TypeOK /\ aphase = "none" /\ aphase' = "none" /\ ~Marking'
    BY DEF IInv, Shape, Marking
  <1>1. /\ \A x \in Obj : /\ Live(x) => Live(x)'
                          /\ ~isdead(x)' => ~isdead(x) \/ x \in F \cup Str
                          /\ isgray(x)' => isgray(x) /\ x \notin S
                          /\ isblack(x)' => isblack(x) /\ x \notin S
        /\ \A v \in Obj \cup {Nil} : Alive(v) => Alive(v)'
    <2>1. \A x \in Obj : Live(x) => Live(x)'
      BY DEF Live, isdead
    <2>2. \A x \in Obj : /\ ~isdead(x)' => ~isdead(x) \/ x \in F \cup Str
                         /\ isgray(x)' => isgray(x) /\ x \notin S
                         /\ isblack(x)' => isblack(x) /\ x \notin S
      BY DEF isdead, isgray, isblack
    <2> QED BY <2>1, <2>2 DEF Alive
  <1>2. Empty'
    <2>1. \A x \in Obj \ heap' : marked'[x] = "white" /\ (x \in F \/ x \notin heap)
      BY DEF IInv, Empty
    <2>2. \A t \in Thread \ heap' : \A i \in Slot : stack'[t][i] = Nil
      BY <2>1, Values DEF IInv, Empty
    <2>3. \A t \in Tab \ heap' :
            tmeta'[t] = Nil /\ \A n \in Node : tkey'[t][n] = Nil /\ tval'[t][n] = Nil
      BY <2>1, Values DEF IInv, Empty
    <2>4. /\ \A f \in Func \ heap' : fuv'[f] = Nil
          /\ \A d \in Udata \ heap' : udmt'[d] = Nil
      BY <2>1, Values DEF IInv, Empty
    <2>5. \A u \in Upval \ heap' : uvclosed'[u] /\ uvtv'[u] = Nil
      <3> SUFFICES ASSUME NEW u \in Upval \ heap' PROVE uvclosed'[u] /\ uvtv'[u] = Nil
        OBVIOUS
      <3>1. CASE u \in F
        BY <3>1
      <3>2. CASE u \notin heap
        BY <3>2 DEF IInv, Empty, uvval
      <3> QED BY <2>1, <3>1, <3>2, Values
    <2> QED BY <2>1, <2>2, <2>3, <2>4, <2>5 DEF Empty
  <1>3. Shape'
    <2>1. \A t \in Tab : \A n \in Node : tval'[t][n] = Nil => tkey'[t][n] = Nil
      BY DEF IInv, Shape
    <2>2. \A f \in Func \cap heap' : fuv'[f] \in Upval
      BY DEF IInv, Shape
    <2>3. \A u \in Upval : ~uvclosed'[u] => uvth'[u] \in heap' /\ uvtv'[u] = Nil
      BY DEF IInv, Shape
    <2> QED BY <1>0, <2>1, <2>2, <2>3 DEF Shape
  <1>4. RefsLive'
    <2>1. \A t \in Thread : ~isdead(t)' => \A i \in Slot : Alive(stack[t][i])'
      <3> SUFFICES ASSUME NEW t \in Thread, ~isdead(t)', NEW i \in Slot
                   PROVE  Alive(stack[t][i])'
        OBVIOUS
      <3>1. CASE t \in F
        BY <3>1 DEF Alive
      <3>2. CASE t \notin F
        <4>1. Alive(stack[t][i]) /\ stack[t][i] \in Obj \cup {Nil}
          BY <1>0, <1>1, <3>2, Types, Values, TypesDisjoint DEF IInv, RefsLive
        <4> QED BY <1>1, <3>2, <4>1 DEF Alive, Live, isdead
      <3> QED BY <3>1, <3>2
    <2>2. \A t \in Tab : ~isdead(t)' =>
            /\ Alive(tmeta[t])'
            /\ \A n \in Node : Alive(tkey[t][n])' /\ Alive(tval[t][n])'
      <3> SUFFICES ASSUME NEW t \in Tab, ~isdead(t)'
                   PROVE  /\ Alive(tmeta[t])'
                          /\ \A n \in Node : Alive(tkey[t][n])' /\ Alive(tval[t][n])'
        OBVIOUS
      <3>1. CASE t \in F
        BY <3>1 DEF Alive
      <3>2. CASE t \notin F
        <4>1. /\ Alive(tmeta[t]) /\ tmeta[t] \in Obj \cup {Nil}
              /\ \A n \in Node : /\ Alive(tkey[t][n]) /\ tkey[t][n] \in Obj \cup {Nil}
                                 /\ Alive(tval[t][n]) /\ tval[t][n] \in Obj \cup {Nil}
          BY <1>0, <1>1, <3>2, Types, Values, TypesDisjoint DEF IInv, RefsLive
        <4> QED BY <1>1, <3>2, <4>1 DEF Alive, Live, isdead
      <3> QED BY <3>1, <3>2
    <2>3. \A f \in Func : ~isdead(f)' => Alive(fuv[f])'
      <3> SUFFICES ASSUME NEW f \in Func, ~isdead(f)' PROVE Alive(fuv[f])'
        OBVIOUS
      <3>1. CASE f \in F
        BY <3>1 DEF Alive
      <3>2. CASE f \notin F
        <4>1. Alive(fuv[f]) /\ fuv[f] \in Obj \cup {Nil}
          BY <1>0, <1>1, <3>2, Types, Values, TypesDisjoint DEF IInv, RefsLive
        <4> QED BY <1>1, <3>2, <4>1 DEF Alive, Live, isdead
      <3> QED BY <3>1, <3>2
    <2>4. \A u \in Upval : ~isdead(u)' => Alive(uvval(u))'
      <3> SUFFICES ASSUME NEW u \in Upval, ~isdead(u)' PROVE Alive(uvval(u))'
        OBVIOUS
      <3>1. CASE u \in F
        BY <3>1 DEF Alive, uvval
      <3>2. CASE u \notin F
        <4>1. Alive(uvval(u)) /\ uvval(u) \in Obj \cup {Nil}
          BY <1>0, <1>1, <3>2, Types, Values, TypesDisjoint DEF IInv, RefsLive
        <4>2. uvval(u)' = uvval(u)
          <5>1. CASE u \in C \/ uvclosed[u]
            BY <3>2, <5>1 DEF uvval
          <5>2. CASE u \notin C /\ ~uvclosed[u]
            <6>1. uvth[u] \notin F /\ uvth[u] \in Thread /\ uvslot[u] \in Slot
              BY <1>0, <3>2, <5>2, Types
            <6> QED BY <3>2, <5>2, <6>1 DEF uvval
          <5> QED BY <5>1, <5>2
        <4> QED BY <1>1, <4>1, <4>2 DEF Alive, Live, isdead
      <3> QED BY <3>1, <3>2
    <2>5. \A d \in Udata : ~isdead(d)' => Alive(udmt[d])'
      <3> SUFFICES ASSUME NEW d \in Udata, ~isdead(d)' PROVE Alive(udmt[d])'
        OBVIOUS
      <3>1. CASE d \in F
        BY <3>1 DEF Alive
      <3>2. CASE d \notin F
        <4>1. Alive(udmt[d]) /\ udmt[d] \in Obj \cup {Nil}
          BY <1>0, <1>1, <3>2, Types, Values, TypesDisjoint DEF IInv, RefsLive
        <4> QED BY <1>1, <3>2, <4>1 DEF Alive, Live, isdead
      <3> QED BY <3>1, <3>2
    <2> QED BY <2>1, <2>2, <2>3, <2>4, <2>5 DEF RefsLive
  <1>5. RootsLive'
    <2>1. /\ Live(Main) /\ Live(Registry) /\ Live(cur) /\ Alive(gcroot)
          /\ \A x \in mmudata : Live(x)
      BY DEF IInv, RootsLive
    <2>2. /\ Main \in Obj /\ Registry \in Obj /\ cur \in Obj /\ gcroot \in Obj \cup {Nil}
          /\ mmudata \subseteq Obj
      BY <1>0, Types
    <2> QED BY <1>1, <2>1, <2>2 DEF RootsLive, Alive, Live, isdead
  <1>6. Colors'
    <2>1. \A u \in Upval : IF uvclosed'[u] THEN ~isgray(u)' ELSE ~isblack(u)'
      BY <1>1, Values DEF IInv, Colors
    <2>2. \A d \in Udata : ~isgray(d)'
      BY <1>1, Values DEF IInv, Colors
    <2> QED BY <1>0, <2>1, <2>2 DEF Colors
  <1>7. ListsSound' /\ BlackDark' /\ AtomicDark'
    BY <1>0 DEF ListsSound, BlackDark, AtomicDark
  <1> QED BY <1>2, <1>3, <1>4, <1>5, <1>6, <1>7

\* gc_sweep() of one chain of the string table.
LEMMA SweepStringInv ==
  ASSUME IInv, TypeOK', SweepString
  PROVE  IInv'
  <1>0. /\ TypeOK /\ gcstate = "sweepstring" /\ sweepstr \in Nat /\ strmask \in Nat
        /\ sweepstr <= strmask /\ sweepstr' = sweepstr + 1
        /\ gcstate' = IF StringsSwept THEN "sweep" ELSE "sweepstring"
        /\ UNCHANGED <<aphase, tosweep, strmask, mmudata, stack, tkey, tval, tmeta, fuv,
                       uvclosed, uvth, uvslot, uvtv, udmt, gcroot, cur>>
    BY DEF IInv, TypeOK, SweepString, GcStep, tabvars, uvvars
  <1>1. PICK S : S = {s \in Str \cap heap : Hash[s] % (strmask + 1) = sweepstr}
    OBVIOUS
  <1>2. PICK F : F = {s \in S : isdead(s) /\ s \notin FixedStr}
    OBVIOUS
  <1>c. PICK C : C = {}
    OBVIOUS
  <1>3. /\ heap' = heap \ F
        /\ \A x \in Obj : marked'[x] = IF x \in S THEN "white" ELSE marked[x]
    BY <1>1, <1>2 DEF SweepString
  <1>4. /\ F \subseteq S /\ S \subseteq Str
        /\ \A x \in F : isdead(x) /\ x \notin Thread /\ x \notin Tab /\ x \notin Func
                        /\ x \notin Upval /\ x \notin Udata
    BY <1>1, <1>2, TypesDisjoint
  <1>5. /\ Empty' /\ Shape' /\ RefsLive' /\ RootsLive' /\ Colors' /\ ListsSound'
        /\ BlackDark' /\ AtomicDark'
    <2>1. gcstate' \in {"sweepstring", "sweep", "finalize", "pause"}
      BY <1>0
    <2>2. /\ heap' = heap \ F
          /\ \A t \in Thread, i \in Slot : stack'[t][i] = IF t \in F THEN Nil ELSE stack[t][i]
      BY <1>0, <1>3, <1>4
    <2>3. /\ \A t \in Tab, n \in Node :
               /\ tkey'[t][n] = IF t \in F THEN Nil ELSE tkey[t][n]
               /\ tval'[t][n] = IF t \in F THEN Nil ELSE tval[t][n]
          /\ \A t \in Tab : tmeta'[t] = IF t \in F THEN Nil ELSE tmeta[t]
      BY <1>0, <1>4
    <2>4. /\ \A f \in Func : fuv'[f] = IF f \in F THEN Nil ELSE fuv[f]
          /\ \A d \in Udata : udmt'[d] = IF d \in F THEN Nil ELSE udmt[d]
      BY <1>0, <1>4
    <2>5. ASSUME NEW u \in Upval
          PROVE  /\ uvclosed'[u] <=> u \in C \cup F \/ uvclosed[u]
                 /\ uvtv'[u] = IF u \in F THEN Nil ELSE IF u \in C THEN uvval(u) ELSE uvtv[u]
                 /\ u \notin C \cup F => uvth'[u] = uvth[u] /\ uvslot'[u] = uvslot[u]
                 /\ ~uvclosed[u] /\ uvth[u] \in F => u \in C \cup F
      BY <1>0, <1>c, <1>4, Types
    <2>7. /\ gcstate \in {"sweepstring", "sweep"} /\ F \subseteq S /\ C \subseteq S
          /\ C \subseteq Upval \ F /\ (\A x \in F : isdead(x))
          /\ \A x \in S \cap Obj : isdead(x) => x \in F \cup Str
          /\ \A x \in Obj : marked'[x] = IF x \in S THEN "white" ELSE marked[x]
          /\ UNCHANGED <<aphase, mmudata, gcroot, cur>>
      BY <1>0, <1>c, <1>3, <1>4
    <2> QED BY <2>1, <2>2, <2>3, <2>4, <2>5, <2>7, SweepStep
  <1>6. \A x \in heap' \ mmudata : marked'[x] = "white" \/ Unswept(x)'
    <2> SUFFICES ASSUME NEW x \in heap \ mmudata, x \notin S
                 PROVE  marked'[x] = "white" \/ Unswept(x)'
      BY <1>0, <1>3, Types
    <2>1. marked[x] = "white" \/ Unswept(x)
      BY <1>0 DEF IInv, SweepProgress
    <2>2. CASE marked[x] = "white"
      BY <1>0, <1>3, <2>2, Types
    <2>3. CASE Unswept(x) /\ x \in Str
      <3>1. CASE x \in tosweep \/ (x \in Upval /\ ~uvclosed[x] /\ uvth[x] \in tosweep)
        BY <1>0, <3>1 DEF Unswept
      <3>2. CASE Hash[x] % (strmask + 1) >= sweepstr
        <4>1. Hash[x] \in Nat
          BY <2>3, ConstAssumption
        <4>2. /\ Hash[x] % (strmask + 1) \in Nat /\ Hash[x] % (strmask + 1) <= strmask
              /\ Hash[x] % (strmask + 1) # sweepstr
          BY <1>0, <1>1, <2>3, <4>1
        <4>3. Hash[x] % (strmask + 1) >= sweepstr + 1
          BY <1>0, <3>2, <4>2
        <4>4. ~StringsSwept
          BY <1>0, <4>2, <4>3 DEF StringsSwept
        <4> QED BY <1>0, <2>3, <4>3, <4>4 DEF Unswept
      <3> QED BY <2>3, <3>1, <3>2 DEF Unswept
    <2>4. CASE Unswept(x) /\ x \notin Str
      BY <1>0, <2>4 DEF Unswept
    <2> QED BY <2>1, <2>2, <2>3, <2>4
  <1>7. SweepProgress' /\ SweepComplete'
    BY <1>0, <1>6 DEF SweepProgress, SweepComplete
  <1> QED BY <1>5, <1>7 DEF IInv

\* gc_sweep() of one object: a dead one is freed, with what it owns.
LEMMA SweepInv ==
  ASSUME IInv, TypeOK', NEW o \in tosweep, Sweep(o)
  PROVE  IInv'
  <1> DEFINE dies == isdead(o) /\ o # Main
  <1>1. PICK U : U = {u \in OpenUv : uvth[u] = o}
    OBVIOUS
  <1>2. PICK F : F = {u \in U : isdead(u)} \cup (IF dies THEN {o} ELSE {})
    OBVIOUS
  <1>3. PICK C : C = IF dies THEN U \ F ELSE {}
    OBVIOUS
  <1>4. /\ TypeOK /\ gcstate = "sweep" /\ Free(F) /\ CloseOrFreeUv(C, F)
        /\ \A x \in Obj : marked'[x] = IF x \in {o} \cup U THEN "white" ELSE marked[x]
        /\ tosweep' = tosweep \ {o}
        /\ gcstate' = IF tosweep' # {} THEN "sweep" ELSE AfterSweep
        /\ UNCHANGED <<aphase, mmudata, gcroot, cur>>
    BY <1>1, <1>2, <1>3 DEF IInv, Sweep, GcStep
  <1>5. /\ o \in Obj /\ U \subseteq Upval \cap heap
        /\ \A u \in U : ~uvclosed[u] /\ uvth[u] = o
        /\ Main \in Thread /\ ~isdead(Main)
    BY <1>1, <1>4, ConstAssumption DEF TypeOK, OpenUv, IInv, RootsLive, Live
  <1>6. /\ F \subseteq {o} \cup U /\ C \subseteq {o} \cup U /\ C \subseteq Upval \ F
        /\ \A x \in F : isdead(x)
        /\ \A x \in ({o} \cup U) \cap Obj : isdead(x) => x \in F \cup Str
    BY <1>2, <1>3, <1>5
  <1>7. /\ Empty' /\ Shape' /\ RefsLive' /\ RootsLive' /\ Colors' /\ ListsSound'
        /\ BlackDark' /\ AtomicDark'
    <2>1. gcstate' \in {"sweepstring", "sweep", "finalize", "pause"}
      BY <1>4 DEF AfterSweep
    <2>2. /\ heap' = heap \ F
          /\ \A t \in Thread, i \in Slot : stack'[t][i] = IF t \in F THEN Nil ELSE stack[t][i]
      BY <1>4 DEF Free, NilStack
    <2>3. /\ \A t \in Tab, n \in Node :
               /\ tkey'[t][n] = IF t \in F THEN Nil ELSE tkey[t][n]
               /\ tval'[t][n] = IF t \in F THEN Nil ELSE tval[t][n]
          /\ \A t \in Tab : tmeta'[t] = IF t \in F THEN Nil ELSE tmeta[t]
      BY <1>4 DEF Free
    <2>4. /\ \A f \in Func : fuv'[f] = IF f \in F THEN Nil ELSE fuv[f]
          /\ \A d \in Udata : udmt'[d] = IF d \in F THEN Nil ELSE udmt[d]
      BY <1>4 DEF Free
    <2>5. ASSUME NEW u \in Upval
          PROVE  /\ uvclosed'[u] <=> u \in C \cup F \/ uvclosed[u]
                 /\ uvtv'[u] = IF u \in F THEN Nil ELSE IF u \in C THEN uvval(u) ELSE uvtv[u]
                 /\ u \notin C \cup F => uvth'[u] = uvth[u] /\ uvslot'[u] = uvslot[u]
                 /\ ~uvclosed[u] /\ uvth[u] \in F => u \in C \cup F
      <3>1. uvclosed'[u] <=> u \in C \cup F \/ uvclosed[u]
        BY <1>4 DEF CloseOrFreeUv
      <3>2. uvtv'[u] = IF u \in F THEN Nil ELSE IF u \in C THEN uvval(u) ELSE uvtv[u]
        BY <1>4, <1>6 DEF CloseOrFreeUv
      <3>3. u \notin C \cup F => uvth'[u] = uvth[u] /\ uvslot'[u] = uvslot[u]
        BY <1>4 DEF CloseOrFreeUv
      <3>4. ~uvclosed[u] /\ uvth[u] \in F => u \in C \cup F
        <4> SUFFICES ASSUME ~uvclosed[u], uvth[u] \in F PROVE u \in C \cup F
          OBVIOUS
        <4>1. uvth[u] \in Thread /\ uvth[u] \notin U
          BY <1>4, <1>5, Types, TypesDisjoint
        <4>2. uvth[u] = o /\ dies
          BY <1>2, <4>1
        <4>3. u \in heap
          BY DEF IInv, Empty
        <4>4. u \in U
          BY <1>1, <4>2, <4>3 DEF OpenUv
        <4> QED BY <1>3, <4>2, <4>4
      <3> QED BY <3>1, <3>2, <3>3, <3>4
    <2> HIDE DEF dies
    <2>6. PICK S : S = {o} \cup U
      OBVIOUS
    <2>7. /\ gcstate \in {"sweepstring", "sweep"} /\ F \subseteq S /\ C \subseteq S
          /\ C \subseteq Upval \ F /\ (\A x \in F : isdead(x))
          /\ \A x \in S \cap Obj : isdead(x) => x \in F \cup Str
          /\ \A x \in Obj : marked'[x] = IF x \in S THEN "white" ELSE marked[x]
          /\ UNCHANGED <<aphase, mmudata, gcroot, cur>>
      BY <1>4, <1>6, <2>6
    <2> QED BY <2>1, <2>2, <2>3, <2>4, <2>5, <2>7, SweepStep
  <1>8. \A x \in heap' \ mmudata : \/ marked'[x] = "white"
                                   \/ x \in tosweep'
                                   \/ x \in Upval /\ ~uvclosed'[x] /\ uvth'[x] \in tosweep'
    <2> SUFFICES ASSUME NEW x \in heap \ mmudata, x \notin {o} \cup U
                 PROVE  \/ marked'[x] = "white"
                        \/ x \in tosweep'
                        \/ x \in Upval /\ ~uvclosed'[x] /\ uvth'[x] \in tosweep'
      BY <1>4, Types DEF Free
    <2>1. marked[x] = "white" \/ Unswept(x)
      BY <1>4 DEF IInv, SweepProgress
    <2>2. CASE marked[x] = "white"
      BY <1>4, <2>2, Types
    <2>3. CASE x \in tosweep
      BY <1>4, <2>3
    <2>4. CASE x \in Upval /\ ~uvclosed[x] /\ uvth[x] \in tosweep
      <3>1. uvth[x] # o
        BY <1>1, <2>4 DEF OpenUv
      <3>2. x \notin C \cup F
        BY <1>6
      <3> QED BY <1>4, <2>4, <3>1, <3>2 DEF CloseOrFreeUv
    <2> QED BY <1>4, <2>1, <2>2, <2>3, <2>4 DEF Unswept
  <1>9. SweepProgress'
    BY <1>4, <1>8 DEF SweepProgress, Unswept
  <1>10. SweepComplete'
    <2>1. CASE tosweep' # {}
      BY <1>4, <2>1 DEF SweepComplete
    <2>2. CASE tosweep' = {}
      <3>1. \A x \in heap' \ mmudata' : marked'[x] = "white"
        BY <1>4, <1>8, <2>2
      <3>2. \A x \in heap' : ~isdead(x)'
        BY <1>7, <3>1 DEF RootsLive, Live, isdead
      <3> QED BY <3>1, <3>2 DEF SweepComplete
    <2> QED BY <2>1, <2>2
  <1> QED BY <1>7, <1>9, <1>10 DEF IInv

\* The first state: the fixed objects, all white, and nothing else.
LEMMA InitInv == Init => IInv
  <1> SUFFICES ASSUME Init PROVE IInv
    OBVIOUS
  <1>1. TypeOK
    BY ConstAssumption DEF Init, TypeOK, NilStack, Value, Slot, Obj, GcStates, Phases,
       White
  <1>2. /\ ~Marking /\ aphase = "none" /\ gcstate = "pause" /\ mmudata = {} /\ gcroot = Nil
        /\ \A o \in Obj : marked[o] = "white"
        /\ \A t \in Thread, i \in Slot : stack[t][i] = Nil
        /\ \A t \in Tab : tmeta[t] = Nil /\ \A n \in Node : tkey[t][n] = Nil /\ tval[t][n] = Nil
        /\ \A f \in Func : fuv[f] = Nil /\ f \notin heap
        /\ \A u \in Upval : uvclosed[u] /\ uvtv[u] = Nil
        /\ \A d \in Udata : udmt[d] = Nil
        /\ Main \in heap /\ Registry \in heap /\ cur = Main
        /\ Main \in Obj /\ Registry \in Obj /\ heap \subseteq Obj
    <2>1. \A f \in Func : f \notin heap
      BY ConstAssumption, TypesDisjoint DEF Init
    <2> QED BY <1>1, <2>1, ConstAssumption DEF Init, Marking, NilStack, Obj, TypeOK
  <1>3. Empty /\ Shape
    BY <1>2 DEF Empty, Shape
  <1>4. RefsLive
    BY <1>2 DEF RefsLive, Alive, uvval
  <1>5. RootsLive
    BY <1>2 DEF RootsLive, Alive, Live, isdead
  <1>6. Colors
    BY <1>2, Values DEF Colors, isgray
  <1>7. ListsSound /\ BlackDark /\ AtomicDark /\ SweepProgress
    BY <1>2 DEF ListsSound, BlackDark, AtomicDark, SweepProgress
  <1>8. SweepComplete
    BY <1>2 DEF SweepComplete, isdead
  <1> QED BY <1>1, <1>3, <1>4, <1>5, <1>6, <1>7, <1>8 DEF IInv

\* Every operation of the program keeps the invariant.
LEMMA MutatorInv ==
  ASSUME IInv, TypeOK', Mutator
  PROVE  IInv'
  <1>1. ASSUME NEW o \in Tab \cup Udata \cup Thread, NewObject(o) PROVE IInv'
    BY <1>1, NewObjectInv
  <1>2. ASSUME NEW s \in Str, InternStr(s) PROVE IInv'
    BY <1>2, InternStrInv
  <1>3. ASSUME NEW t \in Tab, NEW n \in Node, NEW k \in Value, NEW v \in Value,
               TabSet(t, n, k, v)
        PROVE  IInv'
    BY <1>3, TabSetInv
  <1>4. ASSUME NEW t \in Tab, NEW n \in Node, NEW v \in Value, RawSetI(t, n, v)
        PROVE  IInv'
    BY <1>4, RawSetIInv
  <1>5. ASSUME NEW v \in Value, Load(v) PROVE IInv'
    BY <1>5, LoadInv
  <1>6. ASSUME NEW t \in Tab, NEW m \in Tab \cup {Nil}, SetMetatable(t, m) PROVE IInv'
    BY <1>6, SetMetatableInv
  <1>7. ASSUME NEW d \in Udata, NEW m \in Tab \cup {Nil}, UdSetMetatable(d, m) PROVE IInv'
    BY <1>7, UdSetMetatableInv
  <1>8. ASSUME NEW v \in Tab \cup {Nil}, SetRoot(v) PROVE IInv'
    BY <1>8, SetRootInv
  <1>9. ASSUME NEW f \in Func, NEW i \in Slot, NEW u \in Upval, NewClosureLocal(f, i, u)
        PROVE  IInv'
    BY <1>9, NewClosureLocalInv
  <1>10. ASSUME NEW f \in Func, NEW p \in Func, NewClosureInherit(f, p) PROVE IInv'
    BY <1>10, NewClosureInheritInv
  <1>11. ASSUME NEW f \in Func, NEW u \in Upval, NewClosureEmpty(f, u) PROVE IInv'
    BY <1>11, NewClosureEmptyInv
  <1>12. ASSUME NEW f \in Func, NEW v \in Value, UvSet(f, v) PROVE IInv'
    BY <1>12, UvSetInv
  <1>13. ASSUME NEW f \in Func, NEW p \in Func, UpvalueJoin(f, p) PROVE IInv'
    BY <1>13, UpvalueJoinInv
  <1>14. ASSUME LeaveScope PROVE IInv'
    BY <1>14, LeaveScopeInv
  <1>15. ASSUME EnterScope PROVE IInv'
    BY <1>15, EnterScopeInv
  <1>16. ASSUME NEW th \in Thread, XMove(th) PROVE IInv'
    BY <1>16, XMoveInv
  <1>17. ASSUME NEW th \in Thread, Switch(th) PROVE IInv'
    BY <1>17, SwitchInv
  <1>18. ASSUME EnterTrace PROVE IInv'
    BY <1>18, Frozen DEF EnterTrace, gcvars, gcdata, lists, tabvars, uvvars
  <1> QED BY <1>1, <1>2, <1>3, <1>4, <1>5, <1>6, <1>7, <1>8, <1>9, <1>10, <1>11, <1>12,
             <1>13, <1>14, <1>15, <1>16, <1>17, <1>18 DEF Mutator

\* Every step of gc_onestep() keeps the invariant.
LEMMA CollectorInv ==
  ASSUME IInv, TypeOK', Collector
  PROVE  IInv'
  <1>1. ASSUME MarkStart PROVE IInv'
    BY <1>1, MarkStartInv
  <1>2. ASSUME NEW o \in gray, Propagate(o) PROVE IInv'
    BY <1>2, PropagateInv
  <1>3. ASSUME PropagateEnd PROVE IInv'
    BY <1>3, PropagateEndInv
  <1>4. ASSUME AtomicUv PROVE IInv'
    BY <1>4, AtomicUvInv
  <1>5. ASSUME AtomicWeak PROVE IInv'
    BY <1>5, AtomicWeakInv
  <1>6. ASSUME AtomicAgain PROVE IInv'
    BY <1>6, AtomicAgainInv
  <1>7. ASSUME AtomicUdata PROVE IInv'
    BY <1>7, AtomicUdataInv
  <1>8. ASSUME AtomicFlip PROVE IInv'
    BY <1>8, AtomicFlipInv
  <1>9. ASSUME SweepString PROVE IInv'
    BY <1>9, SweepStringInv
  <1>10. ASSUME NEW o \in tosweep, Sweep(o) PROVE IInv'
    BY <1>10, SweepInv
  <1>11. ASSUME FinalizeEnd PROVE IInv'
    BY <1>11, FinalizeEndInv
  <1>12. ASSUME NEW d \in mmudata, Finalize(d) PROVE IInv'
    BY <1>12, FinalizeInv
  <1> QED BY <1>1, <1>2, <1>3, <1>4, <1>5, <1>6, <1>7, <1>8, <1>9, <1>10, <1>11, <1>12
          DEF Collector, GcWork

\* The meaning of the colors and lists of lj_gc.c is kept by every operation of
\* the mutator, with its write barrier, and by every step of gc_onestep().
THEOREM Invariance == Spec => []IInv
  <1>1. IInv /\ [Next]_vars => IInv'
    <2> SUFFICES ASSUME IInv, [Next]_vars PROVE IInv'
      OBVIOUS
    <2>0. TypeOK'
      BY NextType DEF IInv
    <2>1. CASE Mutator
      BY <2>0, <2>1, MutatorInv
    <2>2. CASE Collector
      BY <2>0, <2>2, CollectorInv
    <2>3. CASE TraceExit
      BY <2>0, <2>3, Frozen DEF TraceExit, gcvars, gcdata, lists, tabvars, uvvars
    <2>4. CASE FullGc
      BY <2>0, <2>4, FullGcInv
    <2>5. CASE FullGcRestart
      BY <2>0, <2>5, FullGcRestartInv
    <2>6. CASE FinalizerError
      BY <2>0, <2>6, Frozen DEF FinalizerError, gcvars, gcdata, lists, tabvars, uvvars
    <2>7. CASE UNCHANGED vars
      BY <2>0, <2>7, Frozen DEF vars, gcvars, gcdata, lists, tabvars, uvvars, execvars
    <2> QED BY <2>1, <2>2, <2>3, <2>4, <2>5, <2>6, <2>7 DEF Next
  <1> QED BY <1>1, InitInv, PTL DEF Spec

\* What RefsLive says by types is what NoDangling says of every object.
LEMMA IInvNoDangling == IInv => NoDangling
  <1> SUFFICES ASSUME IInv PROVE NoDangling
    OBVIOUS
  <1>0. TypeOK
    BY DEF IInv
  <1>1. \A v \in Obj : Alive(v) => Live(v)
    BY Values DEF Alive
  <1>2. ASSUME NEW o \in heap, Live(o), NEW r \in Refs(o)
        PROVE  Live(r)
    <2>0. r \in Obj /\ o \in Obj /\ ~isdead(o)
      BY <1>0, <1>2 DEF Refs, Strong, TypeOK, Live
    <2>1. CASE o \in Thread
      <3>1. PICK i \in Slot : r = stack[o][i]
        BY <1>2, <2>1 DEF Refs
      <3> QED BY <1>1, <2>0, <2>1, <3>1 DEF IInv, RefsLive
    <2>2. CASE o \in Tab
      <3>1. r = tmeta[o] \/ \E n \in Node : r = tkey[o][n] \/ r = tval[o][n]
        BY <1>2, <2>2, TypesDisjoint DEF Refs, Filled
      <3> QED BY <1>1, <2>0, <2>2, <3>1 DEF IInv, RefsLive
    <2>3. CASE o \in Func
      <3>1. r = fuv[o]
        BY <1>2, <2>3, TypesDisjoint DEF Refs, Strong
      <3> QED BY <1>1, <2>0, <2>3, <3>1 DEF IInv, RefsLive
    <2>4. CASE o \in Upval
      <3>1. r = uvval(o)
        BY <1>2, <2>4, TypesDisjoint DEF Refs, Strong
      <3> QED BY <1>1, <2>0, <2>4, <3>1 DEF IInv, RefsLive
    <2>5. CASE o \in Udata
      <3>1. r = udmt[o]
        BY <1>2, <2>5, TypesDisjoint DEF Refs, Strong
      <3> QED BY <1>1, <2>0, <2>5, <3>1 DEF IInv, RefsLive
    <2>6. CASE o \in Str
      BY <1>2, <2>6, TypesDisjoint DEF Refs, Strong
    <2> QED BY <2>0, <2>1, <2>2, <2>3, <2>4, <2>5, <2>6 DEF Obj
  <1> QED BY <1>2 DEF NoDangling, IInv, RootsLive, Alive

\* No use after free, for every heap: gc_sweep, lj_func_closeuv and
\* lj_state_free never free what a live object, a root or a pending finalizer
\* refers to, whatever the mutator did since the cycle began.
THEOREM NoUseAfterFree == Spec => []NoDangling
  BY Invariance, IInvNoDangling, PTL

\* The types of a marked object decide where it waits and what it may refer to.
LEMMA IInvTriColor == IInv => TriColor
  <1> SUFFICES ASSUME IInv, Marking, NEW o \in heap, ~iswhite(o), o \notin Pending,
                      NEW r \in Strong(o)
               PROVE  ~iswhite(r)
    BY DEF TriColor
  <1>0. /\ TypeOK /\ r \in Obj /\ o \in Obj /\ (isblack(o) \/ isgray(o))
        /\ aphase \in {"none", "uv", "weak", "again", "udata"}
    BY DEF IInv, Strong, TypeOK, iswhite, isblack, isgray, White, Phases
  <1>1. \A v \in Obj : Dark(v) => ~iswhite(v)
    BY Values DEF Dark
  <1>2. /\ o \notin gray
        /\ aphase \in {"none", "uv", "weak"} => o \notin grayagain
        /\ aphase \in {"none", "uv"} => o \notin weak
        /\ aphase = "none" => o \notin OpenUv
        /\ aphase # "udata" => o \notin mmudata
    BY DEF Pending
  <1>3. CASE o \in Thread
    <2>1. isgray(o) /\ o \in grayagain /\ o \in Listed
      <3>1. o \notin Weak
        BY <1>3, ConstAssumption, TypesDisjoint DEF Weak
      <3> QED BY <1>0, <1>2, <1>3, <3>1 DEF IInv, Colors, Listed
    <2>2. aphase \in {"again", "udata"}
      BY <1>0, <1>2, <2>1
    <2>3. PICK i \in 1 .. top[o] : r = stack[o][i]
      BY <1>3, StrongOf
    <2>4. i \in Slot
      BY <1>0, <1>3, ConstAssumption DEF TypeOK, Slot
    <2>5. Dark(stack[o][i])
      BY <1>2, <1>3, <2>1, <2>2, <2>4 DEF IInv, AtomicDark
    <2> QED BY <1>0, <1>1, <2>3, <2>5
  <1>4. CASE o \in Tab
    <2>0. \/ r = tmeta[o]
          \/ o \notin WeakKeyTab /\ \E n \in Node : r = tkey[o][n]
          \/ o \notin WeakValTab /\ \E n \in Node : r = tval[o][n]
      BY <1>4, StrongOf DEF StrongKeys, StrongVals, Filled
    <2>1. CASE isblack(o)
      BY <1>0, <1>1, <1>4, <2>0, <2>1 DEF IInv, BlackDark
    <2>2. CASE isgray(o)
      <3>1. o \in grayagain \cup weak
        BY <1>2, <1>4, <2>2 DEF IInv, Colors, Listed
      <3>2. o \in Weak /\ aphase \in {"weak", "again", "udata"}
        <4>1. o \notin Thread
          BY <1>4, TypesDisjoint
        <4>2. CASE o \in weak
          BY <1>0, <1>2, <4>2 DEF IInv, Colors
        <4>3. CASE o \in grayagain
          BY <1>0, <1>2, <4>1, <4>3 DEF IInv, AtomicDark
        <4> QED BY <3>1, <4>2, <4>3
      <3>3. /\ Dark(tmeta[o])
            /\ \A n \in Node : /\ o \in WeakKeyTab \/ Dark(tkey[o][n])
                               /\ o \in WeakValTab \/ Dark(tval[o][n])
        BY <1>2, <2>2, <3>2 DEF IInv, AtomicDark
      <3> QED BY <1>0, <1>1, <2>0, <3>3
    <2> QED BY <1>0, <2>1, <2>2
  <1>5. CASE o \in Func
    <2>1. isblack(o)
      <3>1. o \notin grayagain /\ o \notin weak
        BY <1>5, ConstAssumption, TypesDisjoint DEF IInv, Colors, Weak
      <3> QED BY <1>0, <1>2, <1>5, <3>1 DEF IInv, Colors, Listed
    <2> QED BY <1>0, <1>1, <1>5, <2>1, StrongOf DEF IInv, BlackDark
  <1>6. CASE o \in Upval
    <2>0. r = uvval(o)
      BY <1>6, StrongOf
    <2>1. CASE uvclosed[o]
      BY <1>0, <1>1, <1>6, <2>0, <2>1 DEF IInv, Colors, BlackDark, uvval
    <2>2. CASE ~uvclosed[o]
      <3>1. isgray(o) /\ aphase # "none"
        BY <1>0, <1>2, <1>6, <2>2 DEF IInv, Colors, OpenUv
      <3> QED BY <1>0, <1>1, <1>6, <2>0, <2>2, <3>1 DEF IInv, AtomicDark
    <2> QED BY <2>1, <2>2
  <1>7. CASE o \in Udata
    <2>0. r = udmt[o] /\ isblack(o)
      BY <1>0, <1>7, StrongOf DEF IInv, Colors
    <2>1. CASE o \in mmudata
      BY <1>0, <1>1, <1>2, <2>0, <2>1 DEF IInv, AtomicDark
    <2>2. CASE o \notin mmudata
      BY <1>0, <1>1, <1>7, <2>0, <2>2 DEF IInv, BlackDark
    <2> QED BY <2>1, <2>2
  <1>8. CASE o \in Str
    BY <1>8, StrongOf
  <1> QED BY <1>0, <1>3, <1>4, <1>5, <1>6, <1>7, <1>8 DEF Obj

\* The tri-color invariant, for every heap: every store of the VM and of the
\* API has the write barrier it needs, and atomic() visits what has none.
THEOREM TriColorHolds == Spec => []TriColor
  BY Invariance, IInvTriColor, PTL

\* The gclist links, for every heap: lj_gc_barrierback, lj_gc_barrierf and
\* propagatemark never put an object into a second list.
THEOREM ListsCorrect == Spec => []ListsSound
  <1>1. IInv => ListsSound
    BY DEF IInv
  <1> QED BY <1>1, Invariance, PTL

\* The sweep is complete, for every heap: gc_sweep leaves no object with an old
\* color for the next cycle, and no dead object is met outside of the sweep.
THEOREM SweepLeavesNothing == Spec => []SweepComplete
  <1>1. IInv => SweepComplete
    BY DEF IInv
  <1> QED BY <1>1, Invariance, PTL

\* Open upvalues, for every heap: lj_state_free closes or frees all that point
\* into the stack of the thread it frees.
THEOREM OpenUvSafe == Spec => []OpenUvHasThread
  <1>1. IInv => OpenUvHasThread
    BY DEF IInv, Shape, OpenUvHasThread, OpenUv
  <1> QED BY <1>1, Invariance, PTL
===============================================================================

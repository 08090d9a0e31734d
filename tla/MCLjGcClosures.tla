--------------------------- MODULE MCLjGcClosures ---------------------------
(***************************************************************************)
(* Two instances of LjGc for TLC, of which the initial state picks one:    *)
(* several closures that share upvalues on one thread, and one closure     *)
(* with one upvalue that may outlive the coroutine it was made in.         *)
(***************************************************************************)
EXTENDS MCLjGc

VARIABLE instance

\* Closures and upvalues, open, closed and shared, of a thread.
NextUv ==
  \/ \E f \in Func, i \in Slot, u \in Upval : NewClosureLocal(f, i, u)
  \/ \E f, p \in Func : NewClosureInherit(f, p)
  \/ \E f \in Func, u \in Upval : NewClosureEmpty(f, u)
  \/ \E f, v \in Func : UvSet(f, v)
  \/ \E f, p \in Func : UpvalueJoin(f, p)
  \/ \E n \in Node, v \in Func \cup {Nil} : TabSet(Registry, n, Nil, v)
  \/ \E v \in Func : Load(v)

\* Coroutines, their open upvalues, and closures that outlive them.
NextCo ==
  \/ \E o \in Thread : NewObject(o)
  \/ heap \cap (Func \cup Upval) = {}
     /\ \E f \in Func, i \in Slot, u \in Upval : NewClosureLocal(f, i, u)
  \/ \E f \in Func, v \in Thread \cup Func : UvSet(f, v)
  \/ \E th \in Thread : XMove(th)
  \/ \E th \in Thread : Switch(th)
  \/ \E n \in Node, v \in Thread \cup Func \cup {Nil} : TabSet(Registry, n, Nil, v)

InitClosures == Init /\ instance \in {"shared upvalues", "coroutines"}

NextClosures ==
  /\ \/ instance = "shared upvalues" /\ NextUv
     \/ instance = "coroutines" /\ NextCo
     \/ LeaveScope
     \/ Collector
  /\ UNCHANGED instance

SpecClosures == InitClosures /\ [][NextClosures]_<<vars, instance>>
=============================================================================

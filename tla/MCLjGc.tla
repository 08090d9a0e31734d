------------------------------- MODULE MCLjGc -------------------------------
(***************************************************************************)
(* Instances of LjGc for TLC.  Each takes the whole collector and the      *)
(* operations of the mutator that concern one kind of object.              *)
(***************************************************************************)
EXTENDS LjGcHeap, TLC

\* Every string hangs off the same chain.
HashOne == [s \in Str |-> 0]

\* Userdata with finalizers and compiled code, under fairness.
NextFin ==
  \/ \E o \in Tab \cup Udata : NewObject(o)
  \/ \E n \in Node, v \in FinMeta \cup {Nil} : TabSet(Registry, n, Nil, v)
  \/ \E d \in Udata, m \in Tab \cup {Nil} : UdSetMetatable(d, m)
  \/ \E v \in Value : Load(v)
  \/ LeaveScope
  \/ EnterTrace \/ TraceExit
  \/ Collector

SpecFin == Init /\ [][NextFin]_vars
FairFin == SpecFin /\ Fairness

\* Closures, upvalues and userdata are interchangeable.
Symmetry == Permutations(Func) \cup Permutations(Upval) \cup
            Permutations(Udata)
=============================================================================

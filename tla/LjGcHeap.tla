------------------------------ MODULE LjGcHeap ------------------------------
(***************************************************************************)
(* LjGc implements the abstract heap of GcHeap, and reclaims garbage.      *)
(* Userdata that waits for its finalizer belongs to the roots: its         *)
(* finalizer is a part of the program still to run.                        *)
(***************************************************************************)
EXTENDS LjGc

\* Addresses are pointers of a machine.
ASSUME FiniteAddresses == IsFiniteSet(Obj)

H == INSTANCE GcHeap WITH
       root <- ({Main, Registry, cur, gcroot} \ {Nil}) \cup mmudata,
       ref <- [o \in Obj |-> IF o \in heap THEN Strong(o) ELSE {}]

\* The memory safety of the runtime: no step of the mutator or of the
\* collector (lj_gc.c, lj_func_closeuv, lj_str_free...) frees an object that
\* the program can still reach, and all it can reach is allocated.
HeapSafe == H!HeapSpec

\* The collector is invisible: a step of gc_onestep frees only garbage and
\* leaves what every reachable object refers to as it was, upvalues that
\* gc_sweep closes with their thread included; only weak tables lose entries.
CollectorInvisible == [][GcWork => H!Collect]_vars

\* The collector runs again and again, inside the allocations of the program,
\* and compiled code is left when lj_gc_step_jit asks for it.
Fairness == WF_vars(Collector) /\ WF_vars(TraceExit)

\* Garbage is reclaimed: an object that is not reachable, and not fixed, is
\* freed in the end unless the program gets hold of it again.
Reclaimed ==
  \A o \in Obj \ FixedStr :
    o \in heap /\ o \notin H!Reachable ~> o \notin heap \/ o \in H!Reachable

\* Every pending finalizer is called in the end.
FinalizersRun == \A d \in Udata : d \in mmudata ~> d \notin mmudata

\* Every cycle ends, however the program interferes with the marking.
CyclesEnd == []<>(gcstate = "pause")
=============================================================================

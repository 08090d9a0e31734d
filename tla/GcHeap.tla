------------------------------- MODULE GcHeap -------------------------------
(***************************************************************************)
(* What a garbage collected heap promises to the program that uses it: an  *)
(* object that the program can reach is never freed, and what the          *)
(* collector does on its own changes nothing that the program can see.     *)
(***************************************************************************)
EXTENDS Naturals, FiniteSets

CONSTANTS
  Obj,
  Weak    \* objects the collector may take references from

VARIABLES
  heap,   \* the allocated objects
  root,   \* the objects the program can name
  ref     \* what each object refers to

absvars == <<heap, root, ref>>

\* G applied to a again and again.
Iterates(G, a) ==
  LET f[n \in Nat] == IF n = 0 THEN a ELSE G[f[n - 1]] IN f

\* One round of a search along e: of the new objects of p[1], those that are
\* not in p[2] are expanded.
Expand(e) ==
  [p \in (SUBSET Obj) \X (SUBSET Obj) |->
     <<UNION {e[o] : o \in p[1] \ p[2]}, p[1] \cup p[2]>>]

\* The objects reachable from r along e.
Reach(r, e) == Iterates(Expand(e), <<r, {}>>)[Cardinality(Obj)][2]

Reachable == Reach(root, ref)

Freed == heap \ heap'

HeapInit == Reachable \subseteq heap

\* A step of the program, or of the collector on its behalf: nothing reachable
\* is freed, and what is reachable afterwards is allocated.
HeapNext ==
  /\ Freed # {} => Freed \cap Reachable = {}
  /\ Reachable' \subseteq heap'

HeapSpec == HeapInit /\ [][HeapNext]_absvars

\* A step of the collector alone: it frees garbage, it may keep garbage for
\* finalization, and a reachable object goes on referring to what it did.
Collect ==
  /\ heap' \subseteq heap
  /\ root \subseteq root' /\ root' \subseteq heap'
  /\ \/ heap' = heap /\ ref' = ref
     \/ \A o \in Reachable : /\ o \in heap'
                             /\ ref'[o] \subseteq ref[o]
                             /\ o \notin Weak => ref'[o] = ref[o]
=============================================================================

---------------------------- MODULE MCLjGcTables ----------------------------
(***************************************************************************)
(* Three instances of LjGc for TLC, of which the initial state picks one:  *)
(* tables with one string; strings that make the string table grow and     *)
(* shrink; userdata with finalizers, weak tables and one string.           *)
(***************************************************************************)
EXTENDS MCLjGc

VARIABLE instance

\* Every string has a hash value of its own.
HashSpread ==
  CHOOSE h \in [Str -> 0 .. Cardinality(Str) - 1] : \A r, s \in Str : h[r] = h[s] => r = s

AString == CHOOSE s \in Str : Hash[s] = 1

\* Tables, metatables and roots, from interpreted and from compiled code.
\* The registry is nobody's metatable.
NextTab ==
  \/ \E o \in Tab \ Weak : NewObject(o)
  \/ InternStr(AString)
  \/ \E t \in Tab, n \in Node, v \in Value : TabSet(t, n, Nil, v)
  \/ \E t \in Tab, n \in Node, v \in Value : RawSetI(t, n, v)
  \/ \E t \in Tab, m \in (Tab \ {Registry}) \cup {Nil} : SetMetatable(t, m)
  \/ \E v \in (Tab \ {Registry}) \cup {Nil} : SetRoot(v)
  \/ \E v \in Value : Load(v)
  \/ EnterScope
  \/ EnterTrace \/ TraceExit

\* Strings, kept by the registry or dropped.
NextStr ==
  \/ \E s \in Str : InternStr(s)
  \/ \E n \in Node, v \in Str \cup {Nil} : TabSet(Registry, n, Nil, v)

\* Userdata, whose metatable w1 has a finalizer and is itself a weak table.
NextUd ==
  \/ \E o \in Weak \cup Udata : NewObject(o)
  \/ InternStr(AString)
  \/ \E d \in Udata, m \in FinMeta \cup {Nil} : UdSetMetatable(d, m)
  \/ \E t \in Weak, n \in Node, k \in Udata \cup {Nil}, v \in Value : TabSet(t, n, k, v)
  \/ \E n \in Node, v \in Weak \cup Udata : TabSet(Registry, n, Nil, v)
  \/ \E v \in Value : Load(v)

\* Bound on the stack slots in use.
MaxTop == IF instance = "userdata" THEN NSlot ELSE 1

InitTables == Init /\ instance \in {"tables", "strings", "userdata"}

NextTables ==
  /\ \/ instance = "tables" /\ NextTab
     \/ instance = "strings" /\ NextStr
     \/ instance = "userdata" /\ NextUd
     \/ LeaveScope
     \/ FullGc \/ FullGcRestart \/ FinalizerError
     \/ Collector
  /\ top'[Main] <= MaxTop
  /\ UNCHANGED instance

SpecTables == InitTables /\ [][NextTables]_<<vars, instance>>
=============================================================================

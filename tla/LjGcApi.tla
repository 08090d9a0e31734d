------------------------------ MODULE LjGcApi ------------------------------
(***************************************************************************)
(* The operation of the C API whose barrier does not keep what a comment   *)
(* of the collector says of barriers.                                      *)
(***************************************************************************)
EXTENDS LjGc

\* lua_setupvalue on a Lua function: the value goes into the upvalue, the
\* barrier asks for the color of the function.
lua_setupvalue(f, v) ==
  /\ MutatorRuns
  /\ f \in Operand \cap Func /\ v \in Operand
  /\ LET u == fuv[f] IN
       IF uvclosed[u]
         THEN uvtv' = [uvtv EXCEPT ![u] = v] /\ UNCHANGED stack
         ELSE stack' = [stack EXCEPT ![uvth[u]][uvslot[u]] = v] /\ UNCHANGED uvtv
  /\ objbarrier(f, v)
  /\ UNCHANGED <<gcvars, heap, top, tabvars, fuv, uvclosed, uvth, uvslot, udmt,
                 gcroot, execvars>>

NextApi == Next \/ \E f \in Func, v \in Value : lua_setupvalue(f, v)

SpecApi == Init /\ [][NextApi]_vars

----------------------------------------------------------------------------
(* What the source says.                                                   *)

\* lj_gc.c:752: a barrier is there to "Preserve invariant during propagation":
\* with lua_setupvalue among the stores, no marked object that is done with
\* refers to a white one.
PropagationInvariant == TriColor
=============================================================================

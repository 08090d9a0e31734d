----------------------------- MODULE MCLjGcApi -----------------------------
(* An instance of LjGcApi for TLC. *)
EXTENDS LjGcApi

\* Every string hangs off the same chain.
HashOne == [s \in Str |-> 0]
=============================================================================

------------------------------- MODULE MCDeep --------------------------------
(***************************************************************************)
(* Two instances of Deep for TLC, of which the initial state picks one:    *)
(* all of it with one keeper, the default of lanes.configure(), and a      *)
(* program in which both threads delete lindas inside calls, with two.     *)
(***************************************************************************)
EXTENDS Deep

CONSTANTS First, Second,  \* the keepers
          d1, d2, e2      \* lindas, the digit says of which keeper

VARIABLE instance

TwoKeepers == [d \in Linda |-> IF d \in {d2, e2} THEN Second ELSE First]

\* The main thread sends e2 through the timer linda, forgets it and starts a
\* lane, which has d2 from it, sends d1 there and forgets it. Both then
\* receive what there is. Nobody ends.
NextTwo ==
  \/ /\ \A u \in Lane : phase[u] = "none"
     /\ \/ \E d \in {d2, e2} : luaG_newdeepuserdata(Main, d)
        \/ Begin(Main, "send", Timer, e2)
        \/ Drop(Main, e2)
        \/ \E u \in Lane : holds[Main] = {Timer, d2} /\ lane_new(Main, u, {d2})
  \/ \E u \in Lane :
     /\ phase[u] = "run"
     /\ \/ luaG_newdeepuserdata(u, d1) \/ Drop(u, d1)
        \/ Begin(u, "send", d2, d1)
        \/ d1 \notin holds[u] /\ Begin(u, "receive", d2, None)
        \/ e2 \notin holds[Main] /\ Begin(Main, "receive", Timer, None)
  \/ \E t \in Thread : Step(t) \/ Collector(t)

InitMC == Init /\ instance \in {"one keeper", "two keepers"}

NextMC ==
  /\ \/ instance = "one keeper" /\ Next /\ live' \subseteq {Timer, d1}
     \/ instance = "two keepers" /\ NextTwo
  /\ UNCHANGED instance

SpecMC == InitMC /\ [][NextMC]_<<vars, instance>> /\ Fairness
===============================================================================

------------------------------- MODULE MCLinda --------------------------------
(***************************************************************************)
(* Instances of Linda for TLC: a main thread and two lanes on one linda.   *)
(***************************************************************************)
EXTENDS Linda

CONSTANTS main, a, b, k1, k2, v1, v2, fn, ud

send(k, vs, w) == [f |-> "send", key |-> k, vals |-> vs, wait |-> w]
receive(ks, w) == [f |-> "receive", keys |-> ks, wait |-> w]
batched(k, lo, hi, w) ==
  [f |-> "receive_batched", key |-> k, min |-> lo, max |-> hi, wait |-> w]
set(k, vs) == [f |-> "set", key |-> k, vals |-> vs]
limit(k, n) == [f |-> "limit", key |-> k, n |-> n]
get(k, n) == [f |-> "get", key |-> k, n |-> n]
count(ks) == [f |-> "count", keys |-> ks]
cancel(who) == [f |-> "cancel", who |-> who]
dump == [f |-> "dump"]
thread_cancel(l, how, force) ==
  [f |-> "thread_cancel", lane |-> l, how |-> how, force |-> force]

Lanes == {a, b}
Mains == {main}

\* A function that only the lane a knows, and a full userdata.
ForeignTo == [t \in Thread |-> IF t = a THEN {ud} ELSE {fn, ud}]

\* One sender, one receiver, and a main thread that does everything else.
AllCalls == [t \in Thread |->
  CASE t = a    -> {send(k1, <<v1>>, "forever"), send(k1, <<Nil, v2>>, "timed"),
                    send(k2, <<fn>>, "never"), send(k2, <<v1, Unsupported, ud>>, "forever"),
                    send(k2, <<ud>>, "timed")}
    [] t = b    -> {receive(<<k1, k2>>, "forever"), batched(k1, 1, 2, "timed"),
                    batched(k1, 0, 1, "never")}
    [] t = main -> {limit(k1, 1), limit(k1, -2), set(k1, <<>>), set(k1, <<v2>>), set(k1, <<Nil, fn>>),
                    get(k1, 2), get(k2, 1),
                    count(Key), cancel("both"), cancel("read"), cancel("write"), cancel("none"),
                    dump, thread_cancel(b, "HARD", FALSE), thread_cancel(b, "SOFT", FALSE)}]

\* The calls that wait, those that end a wait, and those that leave the
\* keeper locked: receive() of fn, set() of ud, dump() of an unused linda.
WaitCalls == [t \in Thread |->
  CASE t = a    -> {send(k1, <<v1>>, "forever"), send(k1, <<v1, fn>>, "timed")}
    [] t = b    -> {receive(<<k1>>, "forever"), batched(k1, 2, 2, "timed")}
    [] t = main -> {limit(k1, 1), set(k1, <<>>), set(k1, <<ud>>), dump}]

\* The lane a waits for room for two values.
PairCalls == [t \in Thread |->
  CASE t = a    -> {send(k1, <<v1, v2>>, "forever")}
    [] t = b    -> {send(k1, <<v1>>, "never")}
    [] t = main -> {limit(k1, 1), limit(k1, 2), limit(k1, -1), set(k1, <<>>)}]

\* The lane a is cancelled while it receives.
CancelCalls == [t \in Thread |->
  CASE t = a    -> {receive(<<k1>>, "forever")}
    [] t = b    -> {send(k1, <<v1>>, "never")}
    [] t = main -> {thread_cancel(a, "HARD", FALSE)}]

\* A linda that has been used before, so that dump() finds its table.
UsedSpec == InitLinda(TRUE) /\ [][Next]_vars
FairSpec == Spec /\ Fairness
===============================================================================

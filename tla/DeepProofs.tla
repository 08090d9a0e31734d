------------------------------ MODULE DeepProofs ------------------------------
(***************************************************************************)
(* Theorems about Deep, for any number of lanes, keepers and lindas: the   *)
(* reference counts are exact, nothing refers to a freed linda, a used     *)
(* address starts empty and no linda is left behind.                       *)
(***************************************************************************)
EXTENDS Deep, FiniteSetTheorems, TLAPS

\* A state finds its proxy of d in its cache.
CachedAt(x, d) == \E p \in cached : p.at = x /\ p.deep = d

\* The proxies can be counted, and all of them are of lindas that exist.
ProxiesOK ==
  /\ \A d \in Linda : IsFiniteSet(Of(d))
  /\ \A p \in proxies : p.deep \in live /\ (p.at \in Keeper => p.deep # Timer)
  /\ UniverseRef(Timer) = 1 => Timer \in live

\* What a program can name is not garbage, nor is what sits in a fifo.
RootsCached ==
  /\ \A t \in Thread : \A d \in holds[t] : CachedAt(t, d)
  /\ \A c \in Linda : \A d \in stored[c] : d # Timer /\ CachedAt(KeeperOf[c], d)

\* A call on a linda is the outermost one; its linda, and what it carries,
\* have a proxy.
MoveOK(t, i) ==
  LET c == frames[t][i] IN
  /\ i = 1 /\ phase[t] = "run" /\ c.d \in holds[t]
  /\ c.f = "send" => c.e \in holds[t] \ {Timer} /\ c.pc \in {"enter", "copied"}
  /\ c.f = "receive" => c.pc \in {"enter", "move"}
  /\ c.pc \in {"copied", "move"} /\ c.e # None =>
       c.e # Timer /\ CachedAt(KeeperOf[c.d], c.e)

\* A deletion: nothing refers to the linda, and it is empty before it goes.
DeleteOK(t, i) ==
  LET c == frames[t][i] IN
  /\ c.pc \in {"acquire", "enter", "free"}
  /\ c.d \in live /\ Of(c.d) = {} /\ UniverseRef(c.d) = 0
  /\ c.pc = "free" => stored[c.d] = {}

CallsOK ==
  \A t \in Thread : \A i \in DOMAIN frames[t] :
    IF frames[t][i].f = "delete" THEN DeleteOK(t, i) ELSE MoveOK(t, i)

\* Call i of thread t deletes d.
Deletes(t, i, d) ==
  i \in DOMAIN frames[t] /\ frames[t][i].f = "delete" /\ frames[t][i].d = d

\* A linda is deleted once, and only what nobody deletes lives without proxy.
DeletedOnce ==
  /\ \A d \in Linda, t, u \in Thread : \A i, j \in Nat :
       Deletes(t, i, d) /\ Deletes(u, j, d) => t = u /\ i = j
  /\ \A d \in live : \/ Of(d) # {} \/ UniverseRef(d) = 1
                     \/ \E t \in Thread : \E i \in Nat : Deletes(t, i, d)

\* What is left of a thread in each phase.
PhaseOK(t) ==
  /\ phase[t] \in {"none", "closed"} => In(t) = {} /\ frames[t] = <<>>
  /\ phase[t] = "done" => frames[t] = <<>>
  /\ phase[t] \notin {"run", "done"} =>
       holds[t] = {} /\ \A p \in cached : p.at # t
  /\ t # Main => phase[t] \notin {"keepers", "end"}

\* The main state closes after the lanes, and the keepers after it.
Shutdown ==
  /\ phase[Main] \in {"run", "closing", "keepers", "end"}
  /\ phase[Main] \in {"keepers", "end"} =>
       In(Main) = {} /\ \A u \in Lane : phase[u] \in {"none", "closed"}
  /\ keepers = "closing" => phase[Main] = "keepers"
  /\ keepers = "freed" <=> phase[Main] = "end"
  /\ keepers # "up" => /\ \A d \in Linda : stored[d] = {}
                       /\ \A p \in cached : p.at \notin Keeper
  /\ keepers = "freed" => live = {} /\ proxies = {} /\ frames[Main] = <<>>

IInv ==
  /\ TypeOK /\ ProxiesOK /\ RefcountExact /\ RootsCached /\ CallsOK
  /\ DeletedOnce /\ FreshEmpty /\ (\A t \in Thread : PhaseOK(t)) /\ Shutdown

-------------------------------------------------------------------------------
(* What the operators do. *)

Pcs == {"acquire", "enter", "copied", "move", "free"}

\* Call i of u is there before and after a step, and the same.
Same(u, i) == /\ i \in DOMAIN frames[u] /\ i \in DOMAIN frames'[u]
              /\ frames'[u][i] = frames[u][i]

\* A step changes no call but number n of thread t.
OnlyCall(t, n) ==
  \A u \in Thread : \A i \in DOMAIN frames[u] \cup DOMAIN frames'[u] :
    (u # t \/ i # n) => Same(u, i)

\* A sequence without indices is empty.
LEMMA NoIndex ==
  ASSUME NEW S, NEW s \in Seq(S), DOMAIN s = {}
  PROVE  s = <<>>
  <1>1. DOMAIN s = 1 .. Len(s) /\ Len(s) \in Nat
    OBVIOUS
  <1>2. Len(s) = 0
    <2> SUFFICES ASSUME Len(s) # 0 PROVE FALSE
      OBVIOUS
    <2>1. 1 \in 1 .. Len(s)
      BY <1>1
    <2> QED BY <2>1, <1>1
  <1> QED BY <1>2

\* The stack of calls of a thread is a sequence of calls.
LEMMA FrameType ==
  ASSUME TypeOK, NEW t \in Thread
  PROVE  /\ frames[t] \in Seq(Frame) /\ Len(frames[t]) \in Nat
         /\ DOMAIN frames[t] = 1 .. Len(frames[t])
         /\ DOMAIN frames[t] \subseteq Nat
         /\ \A i \in DOMAIN frames[t] : frames[t][i] \in Frame
         /\ frames[t] # <<>> => /\ Len(frames[t]) \in DOMAIN frames[t]
                                /\ Top(t) = frames[t][Len(frames[t])]
                                /\ Top(t) \in Frame
  BY DEF TypeOK, Top

\* Replacing the last call.
LEMMA SetTop ==
  ASSUME TypeOK, NEW t \in Thread, frames[t] # <<>>, NEW c \in Frame,
         frames' = [frames EXCEPT ![t] = [@ EXCEPT ![Len(frames[t])] = c]]
  PROVE  LET n == Len(frames[t]) IN
         /\ frames' \in [Thread -> Seq(Frame)]
         /\ OnlyCall(t, n)
         /\ n \in DOMAIN frames[t] /\ n \in DOMAIN frames'[t] /\ frames'[t][n] = c
  <1> DEFINE n == Len(frames[t])
  <1>1. frames[t] \in Seq(Frame) /\ n \in DOMAIN frames[t] /\ frames \in [Thread -> Seq(Frame)]
    BY FrameType DEF TypeOK
  <1>2. [frames[t] EXCEPT ![n] = c] \in Seq(Frame)
    BY <1>1
  <1>3. /\ frames'[t] = [frames[t] EXCEPT ![n] = c]
        /\ \A u \in Thread : u # t => frames'[u] = frames[u]
    BY <1>1
  <1>4. frames' \in [Thread -> Seq(Frame)]
    BY <1>1, <1>2
  <1>5. /\ DOMAIN frames'[t] = DOMAIN frames[t] /\ frames'[t][n] = c
        /\ \A i \in DOMAIN frames[t] : i # n => frames'[t][i] = frames[t][i]
    BY <1>1, <1>3
  <1>6. OnlyCall(t, n)
    BY <1>3, <1>5 DEF OnlyCall, Same
  <1> QED BY <1>1, <1>4, <1>5, <1>6

\* Goto moves the innermost call and no other.
LEMMA GotoFrames ==
  ASSUME TypeOK, NEW t \in Thread, frames[t] # <<>>, NEW l \in Pcs, Goto(t, l)
  PROVE  LET n == Len(frames[t]) IN
         /\ frames' \in [Thread -> Seq(Frame)]
         /\ OnlyCall(t, n)
         /\ n \in DOMAIN frames[t] /\ n \in DOMAIN frames'[t]
         /\ frames'[t][n].f = Top(t).f /\ frames'[t][n].d = Top(t).d
         /\ frames'[t][n].e = Top(t).e /\ frames'[t][n].at = Top(t).at
         /\ frames'[t][n].pc = l
  <1> DEFINE n == Len(frames[t])
             c == [Top(t) EXCEPT !.pc = l]
  <1>1. Top(t) = frames[t][n] /\ Top(t) \in Frame /\ frames \in [Thread -> Seq(Frame)]
    BY FrameType DEF TypeOK
  <1>2. /\ c \in Frame /\ c.f = Top(t).f /\ c.d = Top(t).d /\ c.e = Top(t).e
        /\ c.at = Top(t).at /\ c.pc = l
    BY <1>1 DEF Frame, Pcs
  <1>3. frames' = [frames EXCEPT ![t] = [@ EXCEPT ![n] = c]]
    BY <1>1 DEF Goto, Top
  <1> QED BY <1>2, <1>3, SetTop

\* Call adds one call and leaves the others.
LEMMA CallFrames ==
  ASSUME TypeOK, NEW t \in Thread, NEW f, NEW d, NEW e, NEW x, NEW l,
         [f |-> f, d |-> d, e |-> e, at |-> x, pc |-> l] \in Frame,
         Call(t, f, d, e, x, l)
  PROVE  LET n == Len(frames[t]) + 1 IN
         /\ frames' \in [Thread -> Seq(Frame)]
         /\ OnlyCall(t, n)
         /\ n \in Nat /\ n \notin DOMAIN frames[t] /\ n \in DOMAIN frames'[t]
         /\ frames'[t][n] = [f |-> f, d |-> d, e |-> e, at |-> x, pc |-> l]
  <1> DEFINE n == Len(frames[t]) + 1
             c == [f |-> f, d |-> d, e |-> e, at |-> x, pc |-> l]
  <1> HIDE DEF c
  <1>0. c \in Frame
    BY DEF c
  <1>1. frames[t] \in Seq(Frame) /\ frames \in [Thread -> Seq(Frame)]
    BY FrameType DEF TypeOK
  <1>2. frames' = [frames EXCEPT ![t] = Append(@, c)]
    BY DEF Call, c
  <1>3. /\ Append(frames[t], c) \in Seq(Frame)
        /\ DOMAIN Append(frames[t], c) = 1 .. n /\ DOMAIN frames[t] = 1 .. Len(frames[t])
        /\ Append(frames[t], c)[n] = c
        /\ \A i \in DOMAIN frames[t] : Append(frames[t], c)[i] = frames[t][i]
        /\ Len(frames[t]) \in Nat
    BY <1>0, <1>1
  <1>4. /\ frames'[t] = Append(frames[t], c)
        /\ \A u \in Thread : u # t => frames'[u] = frames[u]
    BY <1>1, <1>2
  <1>5. frames' \in [Thread -> Seq(Frame)]
    BY <1>1, <1>2, <1>3
  <1>6. n \in Nat /\ n \notin DOMAIN frames[t] /\ n \in DOMAIN frames'[t]
        /\ DOMAIN frames'[t] = DOMAIN frames[t] \cup {n}
    BY <1>3, <1>4
  <1>7. OnlyCall(t, n)
    BY <1>3, <1>4, <1>6 DEF OnlyCall, Same
  <1> QED BY <1>3, <1>4, <1>5, <1>6, <1>7 DEF c

\* Return removes the innermost call and leaves the others.
LEMMA ReturnFrames ==
  ASSUME TypeOK, NEW t \in Thread, frames[t] # <<>>, Return(t)
  PROVE  LET n == Len(frames[t]) IN
         /\ frames' \in [Thread -> Seq(Frame)]
         /\ OnlyCall(t, n)
         /\ n \in DOMAIN frames[t] /\ n \notin DOMAIN frames'[t]
  <1> DEFINE n == Len(frames[t])
             s == SubSeq(frames[t], 1, n - 1)
  <1>1. frames[t] \in Seq(Frame) /\ frames \in [Thread -> Seq(Frame)]
        /\ n \in DOMAIN frames[t] /\ DOMAIN frames[t] = 1 .. n /\ n \in Nat
    BY FrameType DEF TypeOK
  <1>2. /\ s \in Seq(Frame) /\ DOMAIN s = 1 .. n - 1
        /\ \A i \in 1 .. n - 1 : s[i] = frames[t][i]
    BY <1>1
  <1>3. frames' = [frames EXCEPT ![t] = s]
    BY DEF Return
  <1> HIDE DEF s
  <1>4. /\ frames'[t] = s
        /\ \A u \in Thread : u # t => frames'[u] = frames[u]
    BY <1>1, <1>3
  <1>5. frames' \in [Thread -> Seq(Frame)]
    BY <1>1, <1>2, <1>3
  <1>6. OnlyCall(t, n)
    <2> SUFFICES ASSUME NEW u \in Thread, NEW i \in DOMAIN frames[u] \cup DOMAIN frames'[u],
                        u # t \/ i # n
                 PROVE  Same(u, i)
      BY DEF OnlyCall
    <2>1. CASE u # t
      BY <2>1, <1>4 DEF Same
    <2>2. CASE u = t
      <3>1. i \in 1 .. n - 1
        BY <2>2, <1>1, <1>2, <1>4
      <3> QED BY <3>1, <2>2, <1>1, <1>2, <1>4 DEF Same
    <2> QED BY <2>1, <2>2
  <1>7. n \notin DOMAIN frames'[t]
    BY <1>1, <1>2, <1>4
  <1> QED BY <1>1, <1>5, <1>6, <1>7

\* What has a proxy, or the reference of the universe, is not being deleted.
LEMMA InUse ==
  ASSUME IInv
  PROVE  /\ \A p \in proxies : /\ p \in Proxy /\ p.deep \in Linda /\ p.at \in State
                               /\ p \in Of(p.deep)
         /\ \A d \in Linda : Of(d) # {} => d \in live
         /\ \A d \in Linda : (Of(d) # {} \/ UniverseRef(d) = 1) =>
              \A u \in Thread : \A i \in Nat : ~Deletes(u, i, d)
         /\ \A x, d : CachedAt(x, d) => d \in Linda /\ Of(d) # {} /\ d \in live
         /\ \A t \in Thread : \A d \in holds[t] : Of(d) # {} /\ d \in live
         /\ \A c \in Linda : \A d \in stored[c] : Of(d) # {} /\ d \in live
         /\ \A u \in Thread : \A i \in Nat : \A d : Deletes(u, i, d) => d \in live
         /\ \A d : UniverseRef(d) \in {0, 1}
  <1> USE DEF IInv
  <1>1. \A p \in proxies : p \in Proxy /\ p.deep \in Linda /\ p.at \in State /\ p \in Of(p.deep)
    BY DEF TypeOK, Proxy, Of
  <1>2. \A d \in Linda : Of(d) # {} => d \in live
    BY DEF Of, ProxiesOK
  <1>3. \A d : UniverseRef(d) \in {0, 1}
    BY DEF UniverseRef
  <1>4. ASSUME NEW u \in Thread, NEW i \in Nat, NEW d, Deletes(u, i, d)
        PROVE  Of(d) = {} /\ UniverseRef(d) = 0 /\ d \in live
    BY <1>4 DEF Deletes, CallsOK, DeleteOK
  <1>5. \A x, d : CachedAt(x, d) => d \in Linda /\ Of(d) # {} /\ d \in live
    BY <1>1, <1>2 DEF CachedAt, TypeOK
  <1>6. \A t \in Thread : \A d \in holds[t] : Of(d) # {} /\ d \in live
    BY <1>5 DEF RootsCached
  <1>7. \A c \in Linda : \A d \in stored[c] : Of(d) # {} /\ d \in live
    BY <1>5 DEF RootsCached
  <1>8. \A d \in Linda : (Of(d) # {} \/ UniverseRef(d) = 1) =>
              \A u \in Thread : \A i \in Nat : ~Deletes(u, i, d)
    BY <1>4
  <1> QED BY <1>1, <1>2, <1>3, <1>4, <1>5, <1>6, <1>7, <1>8

\* A thread that runs or is in a call is neither unborn nor over.
LEMMA Active ==
  ASSUME IInv, NEW t \in Thread, frames[t] # <<>> \/ phase[t] = "run"
  PROVE  /\ phase[t] \notin {"none", "closed", "end"}
         /\ phase[t] = "done" => frames[t] # <<>>
         /\ keepers # "freed"
  <1>1. PhaseOK(t) /\ Shutdown /\ t \in Lane \cup {Main} /\ keepers \in {"up", "closing", "freed"}
        /\ \A u \in Thread : PhaseOK(u)
    BY DEF IInv, Thread, TypeOK
  <1>2. phase[t] \notin {"none", "closed"} /\ (phase[t] = "done" => frames[t] # <<>>)
    BY <1>1 DEF PhaseOK
  <1>3. keepers # "freed"
    <2> SUFFICES ASSUME keepers = "freed" PROVE FALSE
      OBVIOUS
    <2>1. phase[Main] = "end" /\ frames[Main] = <<>> /\ \A u \in Lane : phase[u] \in {"none", "closed"}
      BY <1>1 DEF Shutdown
    <2> QED BY <2>1, <1>1, <1>2
  <1>4. phase[t] # "end"
    BY <1>1, <1>3 DEF PhaseOK, Shutdown
  <1> QED BY <1>2, <1>3, <1>4

\* A step that changes a call and the fifos only, and starts no deletion.
LEMMA FramesOnly ==
  ASSUME IInv, NEW t \in Thread, NEW n \in Nat, OnlyCall(t, n),
         frames' \in [Thread -> Seq(Frame)],
         frames[t] # <<>> \/ phase[t] = "run",
         UNCHANGED <<live, refcount, proxies, cached, holds, phase, keepers>>,
         stored' \in [Linda -> SUBSET Linda],
         \A d \in Linda : Deletes(t, n, d)' <=> Deletes(t, n, d),
         \A c \in Linda : \A d \in stored'[c] :
            d \in stored[c] \/ (c \in live /\ Of(c) # {} /\ d # Timer /\ keepers = "up"
                                /\ CachedAt(KeeperOf[c], d)),
         n \in DOMAIN frames'[t] =>
            IF frames'[t][n].f = "delete" THEN DeleteOK(t, n)' ELSE MoveOK(t, n)'
  PROVE  IInv'
  <1>0. TypeOK /\ TypeOK'
    BY DEF IInv, TypeOK
  <1>1. /\ \A d : Of(d)' = Of(d) /\ UniverseRef(d)' = UniverseRef(d)
        /\ \A x : In(x)' = In(x)
        /\ \A x, d : CachedAt(x, d)' <=> CachedAt(x, d)
    BY DEF Of, In, UniverseRef, CachedAt
  <1>2. \A u \in Thread : \A i \in Nat : \A d \in Linda : Deletes(u, i, d)' <=> Deletes(u, i, d)
    <2> SUFFICES ASSUME NEW u \in Thread, NEW i \in Nat, NEW d \in Linda
                 PROVE  Deletes(u, i, d)' <=> Deletes(u, i, d)
      OBVIOUS
    <2>1. CASE u = t /\ i = n
      BY <2>1
    <2>2. CASE u # t \/ i # n
      BY <2>2 DEF OnlyCall, Same, Deletes
    <2> QED BY <2>1, <2>2
  <1>3. ProxiesOK'
    BY <1>1 DEF IInv, ProxiesOK
  <1>4. RefcountExact'
    BY <1>1 DEF IInv, RefcountExact
  <1>5. RootsCached'
    <2>1. \A u \in Thread : \A d \in holds'[u] : CachedAt(u, d)'
      BY <1>1 DEF IInv, RootsCached
    <2>2. \A c \in Linda : \A d \in stored'[c] : d # Timer /\ CachedAt(KeeperOf[c], d)'
      BY <1>1 DEF IInv, RootsCached
    <2> QED BY <2>1, <2>2 DEF RootsCached
  <1>6. CallsOK'
    <2> SUFFICES ASSUME NEW u \in Thread, NEW i \in DOMAIN frames'[u], u # t \/ i # n
                 PROVE  IF frames'[u][i].f = "delete" THEN DeleteOK(u, i)' ELSE MoveOK(u, i)'
      BY DEF CallsOK
    <2>1. Same(u, i)
      BY DEF OnlyCall
    <2>2. CASE frames[u][i].f = "delete"
      <3>1. DeleteOK(u, i)
        BY <2>1, <2>2 DEF IInv, CallsOK, Same
      <3>2. Of(frames[u][i].d) = {} /\ frames[u][i].d \in Linda
        BY <3>1, <2>1, <1>0, FrameType DEF DeleteOK, Same, Frame
      <3>3. stored[frames[u][i].d] = {} => stored'[frames[u][i].d] = {}
        BY <3>2, <1>0 DEF TypeOK
      <3> QED BY <3>1, <3>3, <2>1, <2>2, <1>1 DEF DeleteOK, Same
    <2>3. CASE frames[u][i].f # "delete"
      <3>1. MoveOK(u, i)
        BY <2>1, <2>3 DEF IInv, CallsOK, Same
      <3> QED BY <3>1, <2>1, <2>3, <1>1 DEF MoveOK, Same
    <2> QED BY <2>2, <2>3
  <1>7. DeletedOnce'
    <2>1. live \subseteq Linda
      BY <1>0 DEF TypeOK
    <2> QED BY <1>1, <1>2, <2>1 DEF IInv, DeletedOnce
  <1>8. FreshEmpty'
    BY DEF IInv, FreshEmpty, TypeOK
  <1>9. \A u \in Thread : frames[u] = <<>> => u = t \/ frames'[u] = <<>>
    <2> SUFFICES ASSUME NEW u \in Thread, frames[u] = <<>>, u # t PROVE frames'[u] = <<>>
      OBVIOUS
    <2>1. DOMAIN frames'[u] = {}
      BY DEF OnlyCall, Same
    <2>2. frames'[u] \in Seq(Frame)
      OBVIOUS
    <2> QED BY <2>1, <2>2, NoIndex
  <1>10. phase[t] \notin {"none", "closed", "end"} /\ (phase[t] = "done" => FALSE) /\ keepers # "freed"
    <2>1. phase[t] # "done" \/ frames[t] = <<>>
      BY DEF IInv, PhaseOK
    <2> QED BY <2>1, Active
  <1>11. ASSUME NEW u \in Thread PROVE PhaseOK(u)'
    <2>1. PhaseOK(u) /\ u \in Thread
      BY DEF IInv
    <2> QED BY <2>1, <1>1, <1>9, <1>10 DEF PhaseOK
  <1>12. Shutdown'
    <2>1. keepers # "up" => \A d \in Linda : stored'[d] = {}
      BY <1>0 DEF IInv, Shutdown, TypeOK
    <2> QED BY <2>1, <1>1, <1>10 DEF IInv, Shutdown
  <1> QED BY <1>0, <1>3, <1>4, <1>5, <1>6, <1>7, <1>8, <1>11, <1>12 DEF IInv

\* The call a thread executes.
LEMMA TopCall ==
  ASSUME IInv, NEW t \in Thread, frames[t] # <<>>
  PROVE  LET n == Len(frames[t]) IN
         /\ n \in DOMAIN frames[t] /\ n \in Nat /\ Top(t) = frames[t][n] /\ Top(t) \in Frame
         /\ IF Top(t).f = "delete" THEN DeleteOK(t, n) ELSE MoveOK(t, n)
         /\ Top(t).pc \in {"acquire", "free"} => Top(t).f = "delete"
         /\ Top(t).pc = "copied" => Top(t).f = "send"
         /\ Top(t).pc = "move" => Top(t).f = "receive"
         /\ Top(t).f # "delete" => n = 1 /\ phase[t] = "run" /\ keepers = "up"
  <1> DEFINE n == Len(frames[t])
  <1>1. n \in DOMAIN frames[t] /\ n \in Nat /\ Top(t) = frames[t][n] /\ Top(t) \in Frame
    BY FrameType DEF IInv
  <1>2. IF Top(t).f = "delete" THEN DeleteOK(t, n) ELSE MoveOK(t, n)
    BY <1>1 DEF IInv, CallsOK
  <1>3. Top(t).f \in {"send", "receive", "delete"}
    BY <1>1 DEF Frame
  <1>4. /\ Top(t).pc \in {"acquire", "free"} => Top(t).f = "delete"
        /\ Top(t).pc = "copied" => Top(t).f = "send"
        /\ Top(t).pc = "move" => Top(t).f = "receive"
    BY <1>1, <1>2, <1>3 DEF MoveOK, DeleteOK
  <1>5. ASSUME Top(t).f # "delete" PROVE n = 1 /\ phase[t] = "run" /\ keepers = "up"
    <2>1. n = 1 /\ phase[t] = "run"
      BY <1>2, <1>5 DEF MoveOK
    <2>2. t \in Lane \/ t = Main
      BY DEF Thread
    <2> QED BY <2>1, <2>2 DEF IInv, Shutdown, TypeOK
  <1> QED BY <1>1, <1>2, <1>4, <1>5

\* A program that runs: the keepers are up.
LEMMA RunningUp ==
  ASSUME IInv, NEW t \in Thread, phase[t] = "run"
  PROVE  keepers = "up" /\ UniverseRef(Timer) = 1
  <1>1. t \in Lane \/ t = Main
    BY DEF Thread
  <1> QED BY <1>1 DEF IInv, Shutdown, TypeOK, UniverseRef

\* A deletion enters the keeper of its linda.
LEMMA AcquireInv ==
  ASSUME IInv, NEW t \in Thread, keeper_acquire(t)
  PROVE  IInv'
  <1>n. PICK n : n = Len(frames[t])
    OBVIOUS
  <1>1. frames[t] # <<>> /\ Top(t).pc = "acquire" /\ Goto(t, "enter")
    BY DEF keeper_acquire, At
  <1>2. n \in Nat /\ n \in DOMAIN frames[t] /\ Top(t).f = "delete" /\ DeleteOK(t, n) /\ Top(t) = frames[t][n]
    BY <1>1, <1>n, TopCall
  <1>3. /\ frames' \in [Thread -> Seq(Frame)] /\ OnlyCall(t, n) /\ n \in DOMAIN frames'[t]
        /\ frames'[t][n].f = Top(t).f /\ frames'[t][n].d = Top(t).d /\ frames'[t][n].pc = "enter"
    BY <1>1, <1>n, GotoFrames DEF IInv, Pcs
  <1>4. \A d \in Linda : Deletes(t, n, d)' <=> Deletes(t, n, d)
    BY <1>2, <1>3 DEF Deletes
  <1>5. DeleteOK(t, n)'
    BY <1>2, <1>3 DEF DeleteOK, keeper_acquire, Of, UniverseRef
  <1> QED BY <1>1, <1>2, <1>3, <1>4, <1>5, FramesOnly DEF keeper_acquire, IInv, TypeOK

\* A deletion after close_keepers() has nothing to clear.
LEMMA NoKeeperInv ==
  ASSUME IInv, NEW t \in Thread, NoKeeper(t)
  PROVE  IInv'
  <1>n. PICK n : n = Len(frames[t])
    OBVIOUS
  <1>1. frames[t] # <<>> /\ Top(t).pc = "acquire" /\ Goto(t, "free")
    BY DEF NoKeeper, At
  <1>2. n \in Nat /\ n \in DOMAIN frames[t] /\ Top(t).f = "delete" /\ DeleteOK(t, n) /\ Top(t) = frames[t][n]
        /\ Top(t) \in Frame
    BY <1>1, <1>n, TopCall
  <1>3. /\ frames' \in [Thread -> Seq(Frame)] /\ OnlyCall(t, n) /\ n \in DOMAIN frames'[t]
        /\ frames'[t][n].f = Top(t).f /\ frames'[t][n].d = Top(t).d /\ frames'[t][n].pc = "free"
    BY <1>1, <1>n, GotoFrames DEF IInv, Pcs
  <1>4. \A d \in Linda : Deletes(t, n, d)' <=> Deletes(t, n, d)
    BY <1>2, <1>3 DEF Deletes
  <1>5. stored'[Top(t).d] = {}
    BY <1>2 DEF IInv, Shutdown, NoKeeper, Frame
  <1>6. DeleteOK(t, n)'
    BY <1>2, <1>3, <1>5 DEF DeleteOK, NoKeeper, Of, UniverseRef
  <1> QED BY <1>1, <1>2, <1>3, <1>4, <1>6, FramesOnly DEF NoKeeper, IInv, TypeOK

\* keepercall_clear()
LEMMA ClearInv ==
  ASSUME IInv, NEW t \in Thread, Clear(t)
  PROVE  IInv'
  <1>n. PICK n : n = Len(frames[t])
    OBVIOUS
  <1>1. frames[t] # <<>> /\ Top(t).pc = "enter" /\ Top(t).f = "delete" /\ Goto(t, "free")
    BY DEF Clear, At, InF
  <1>2. n \in Nat /\ n \in DOMAIN frames[t] /\ DeleteOK(t, n) /\ Top(t) = frames[t][n]
        /\ Top(t) \in Frame
    BY <1>1, <1>n, TopCall
  <1>3. /\ frames' \in [Thread -> Seq(Frame)] /\ OnlyCall(t, n) /\ n \in DOMAIN frames'[t]
        /\ frames'[t][n].f = Top(t).f /\ frames'[t][n].d = Top(t).d /\ frames'[t][n].pc = "free"
    BY <1>1, <1>n, GotoFrames DEF IInv, Pcs
  <1>4. \A d \in Linda : Deletes(t, n, d)' <=> Deletes(t, n, d)
    BY <1>1, <1>2, <1>3 DEF Deletes
  <1>5. /\ stored' = [stored EXCEPT ![Top(t).d] = {}] /\ Top(t).d \in Linda
        /\ stored \in [Linda -> SUBSET Linda]
    BY <1>2 DEF IInv, TypeOK, Clear, keepercall_clear, Frame
  <1>6. /\ stored' \in [Linda -> SUBSET Linda] /\ stored'[Top(t).d] = {}
        /\ \A c \in Linda : stored'[c] \subseteq stored[c]
    BY <1>5
  <1>7. DeleteOK(t, n)'
    BY <1>1, <1>2, <1>3, <1>6 DEF DeleteOK, Clear, Of, UniverseRef
  <1> QED BY <1>1, <1>2, <1>3, <1>4, <1>6, <1>7, FramesOnly DEF Clear

\* A call on a linda begins with what its thread holds.
LEMMA BeginInv ==
  ASSUME IInv, NEW t \in Thread, NEW f \in {"send", "receive"}, NEW d \in Linda,
         NEW e \in Linda \cup {None}, Begin(t, f, d, e)
  PROVE  IInv'
  <1>n. PICK n : n = Len(frames[t]) + 1
    OBVIOUS
  <1> DEFINE c == [f |-> f, d |-> d, e |-> e, at |-> t, pc |-> "enter"]
  <1>1. phase[t] = "run" /\ frames[t] = <<>> /\ d \in holds[t]
        /\ Call(t, f, d, e, t, "enter") /\ e \in IF f = "send" THEN holds[t] \ {Timer} ELSE {None}
    BY DEF Begin, Running
  <1>2. c \in Frame
    BY DEF Frame, State
  <1>3. /\ frames' \in [Thread -> Seq(Frame)] /\ OnlyCall(t, n) /\ n \in Nat
        /\ n \notin DOMAIN frames[t] /\ n \in DOMAIN frames'[t] /\ frames'[t][n] = c
    BY <1>1, <1>2, <1>n, CallFrames DEF IInv
  <1>4. n = 1
    BY <1>1, <1>n
  <1>5. \A x \in Linda : Deletes(t, n, x)' <=> Deletes(t, n, x)
    BY <1>3 DEF Deletes
  <1>6. MoveOK(t, n)'
    BY <1>1, <1>3, <1>4 DEF MoveOK, Begin
  <1>7. frames'[t][n].f # "delete"
    BY <1>3
  <1>8. stored' \in [Linda -> SUBSET Linda]
    BY DEF Begin, IInv, TypeOK
  <1> QED BY <1>1, <1>3, <1>5, <1>6, <1>7, <1>8, FramesOnly DEF Begin

\* The call of an operation returns; the fifos of its linda have changed.
LEMMA ReturnInv ==
  ASSUME IInv, NEW t \in Thread, frames[t] # <<>>, Top(t).f # "delete", Return(t),
         UNCHANGED <<live, refcount, proxies, cached, holds, phase, keepers>>,
         NEW es \in SUBSET Linda, stored' = [stored EXCEPT ![Top(t).d] = es],
         \A e \in es : e \in stored[Top(t).d] \/ (Top(t).pc = "copied" /\ e = Top(t).e)
  PROVE  IInv'
  <1>n. PICK n : n = Len(frames[t])
    OBVIOUS
  <1>d. PICK d : d = Top(t).d
    OBVIOUS
  <1>1. /\ n \in Nat /\ n \in DOMAIN frames[t] /\ Top(t) = frames[t][n] /\ Top(t) \in Frame
        /\ MoveOK(t, n) /\ keepers = "up"
        /\ (Top(t).pc = "copied" => Top(t).f = "send")
    BY <1>n, <1>d, TopCall
  <1>2. frames' \in [Thread -> Seq(Frame)] /\ OnlyCall(t, n) /\ n \notin DOMAIN frames'[t]
    BY <1>n, <1>d, ReturnFrames DEF IInv
  <1>3. d \in Linda /\ stored \in [Linda -> SUBSET Linda]
    BY <1>d, <1>1 DEF Frame, IInv, TypeOK
  <1>4. /\ stored' \in [Linda -> SUBSET Linda] /\ stored'[d] = es
        /\ \A c \in Linda : c # d => stored'[c] = stored[c]
    BY <1>d, <1>3
  <1>5. d \in live /\ Of(d) # {}
    BY <1>d, <1>1, InUse DEF MoveOK
  <1>6. Top(t).pc = "copied" => Top(t).e # Timer /\ CachedAt(KeeperOf[d], Top(t).e)
    <2> SUFFICES ASSUME Top(t).pc = "copied"
                 PROVE  Top(t).e # Timer /\ CachedAt(KeeperOf[d], Top(t).e)
      OBVIOUS
    <2>1. Top(t).e \in holds[t] /\ holds[t] \subseteq Linda
      BY <1>d, <1>1 DEF MoveOK, IInv, TypeOK
    <2>2. Top(t).e # None
      BY <1>d, <2>1, Names
    <2> QED BY <1>d, <1>1, <2>2 DEF MoveOK
  <1>7. \A x \in Linda : Deletes(t, n, x)' <=> Deletes(t, n, x)
    BY <1>d, <1>1, <1>2 DEF Deletes
  <1>8. \A c \in Linda : \A x \in stored'[c] :
            x \in stored[c] \/ (c \in live /\ Of(c) # {} /\ x # Timer /\ keepers = "up"
                                /\ CachedAt(KeeperOf[c], x))
    BY <1>d, <1>1, <1>4, <1>5, <1>6
  <1> QED BY <1>d, <1>1, <1>2, <1>4, <1>7, <1>8, FramesOnly

\* A send() stores the linda that it has copied to the keeper.
LEMMA SendPushInv ==
  ASSUME IInv, NEW t \in Thread, SendPush(t)
  PROVE  IInv'
  <1>1. frames[t] # <<>> /\ Top(t).pc = "copied"
    BY DEF SendPush, At
  <1>2. Top(t).f = "send" /\ Top(t) \in Frame /\ MoveOK(t, Len(frames[t])) /\ Top(t) = frames[t][Len(frames[t])]
    BY <1>1, TopCall
  <1>3. Top(t).d \in Linda /\ Top(t).e \in Linda /\ stored \in [Linda -> SUBSET Linda]
    BY <1>2 DEF MoveOK, IInv, TypeOK, Frame
  <1>4. \/ stored' = [stored EXCEPT ![Top(t).d] = stored[Top(t).d] \cup {Top(t).e}]
        \/ stored' = [stored EXCEPT ![Top(t).d] = stored[Top(t).d]]
    BY <1>3 DEF SendPush
  <1>5. stored[Top(t).d] \cup {Top(t).e} \in SUBSET Linda /\ stored[Top(t).d] \in SUBSET Linda
    BY <1>3
  <1>6. Return(t) /\ UNCHANGED <<live, refcount, proxies, cached, holds, phase, keepers>>
    BY DEF SendPush
  <1>7. CASE stored' = [stored EXCEPT ![Top(t).d] = stored[Top(t).d] \cup {Top(t).e}]
    BY <1>1, <1>2, <1>5, <1>6, <1>7, ReturnInv
  <1>8. CASE stored' = [stored EXCEPT ![Top(t).d] = stored[Top(t).d]]
    BY <1>1, <1>2, <1>5, <1>6, <1>8, ReturnInv
  <1> QED BY <1>4, <1>7, <1>8

\* A receive() that finds no linda.
LEMMA ReceiveNothingInv ==
  ASSUME IInv, NEW t \in Thread, ReceiveNothing(t)
  PROVE  IInv'
  <1>1. frames[t] # <<>> /\ Top(t).f = "receive"
    BY DEF ReceiveNothing, InF
  <1>2. Top(t).d \in Linda /\ stored \in [Linda -> SUBSET Linda]
    BY <1>1, TopCall DEF IInv, TypeOK, Frame
  <1>3. stored' = [stored EXCEPT ![Top(t).d] = stored[Top(t).d]]
    BY <1>2 DEF ReceiveNothing
  <1> QED BY <1>1, <1>2, <1>3, ReturnInv DEF ReceiveNothing

\* A set() drops what the key held; the proxies stay until they are collected.
LEMMA SetInv ==
  ASSUME IInv, NEW t \in Thread, NEW es \in SUBSET Linda, Set(t, es)
  PROVE  IInv'
  <1>1. frames[t] # <<>> /\ Top(t).f = "receive"
    BY DEF Set, InF
  <1> QED BY <1>1, ReturnInv DEF Set

\* A receive() takes a linda off a fifo, with its proxy in the keeper.
LEMMA ReceivePopInv ==
  ASSUME IInv, NEW t \in Thread, NEW e \in Linda \cup {None}, ReceivePop(t, e)
  PROVE  IInv'
  <1>n. PICK n : n = Len(frames[t])
    OBVIOUS
  <1>d. PICK d : d = Top(t).d
    OBVIOUS
  <1> DEFINE c == [Top(t) EXCEPT !.pc = "move", !.e = e]
  <1>1. frames[t] # <<>> /\ Top(t).f = "receive" /\ Top(t).pc = "enter"
    BY DEF ReceivePop, InF, At
  <1>2. /\ n \in Nat /\ n \in DOMAIN frames[t] /\ Top(t) = frames[t][n] /\ Top(t) \in Frame
        /\ MoveOK(t, n) /\ keepers = "up"
    BY <1>d, <1>1, <1>n, <1>d, TopCall
  <1>3. d \in Linda /\ stored \in [Linda -> SUBSET Linda] /\ frames \in [Thread -> Seq(Frame)]
    BY <1>2, <1>d DEF Frame, IInv, TypeOK
  <1>4. c \in Frame /\ c.f = "receive" /\ c.d = d /\ c.e = e /\ c.pc = "move"
    BY <1>d, <1>1, <1>2 DEF Frame
  <1>5. frames' = [frames EXCEPT ![t] = [@ EXCEPT ![n] = c]]
    <2>1. frames' = [frames EXCEPT ![t][n].pc = "move", ![t][n].e = e]
      BY <1>n DEF ReceivePop
    <2>2. frames[t] \in Seq(Frame) /\ DOMAIN frames[t] = 1 .. n
      BY <1>n, <1>3
    <2> QED BY <1>d, <2>1, <2>2, <1>2, <1>3
  <1> HIDE DEF c
  <1>6. /\ frames' \in [Thread -> Seq(Frame)] /\ OnlyCall(t, n) /\ n \in DOMAIN frames'[t]
        /\ frames'[t][n] = c
    BY <1>d, <1>1, <1>4, <1>5, <1>n, <1>d, SetTop DEF IInv
  <1>7. /\ stored' \in [Linda -> SUBSET Linda]
        /\ \A x \in Linda : stored'[x] \subseteq stored[x]
    BY <1>d, <1>3 DEF ReceivePop
  <1>8. e # None => e # Timer /\ CachedAt(KeeperOf[d], e)
    BY <1>d, <1>3 DEF ReceivePop, IInv, RootsCached
  <1>9. \A x \in Linda : Deletes(t, n, x)' <=> Deletes(t, n, x)
    BY <1>d, <1>1, <1>2, <1>4, <1>6 DEF Deletes
  <1>10. MoveOK(t, n)'
    <2>1. n = 1 /\ phase'[t] = "run" /\ d \in holds'[t]
      BY <1>d, <1>1, <1>2 DEF MoveOK, ReceivePop
    <2>2. e # None => e # Timer /\ CachedAt(KeeperOf[d], e)'
      BY <1>d, <1>8 DEF ReceivePop, CachedAt
    <2> QED BY <1>d, <2>1, <2>2, <1>4, <1>6 DEF MoveOK
  <1> QED BY <1>d, <1>1, <1>2, <1>4, <1>6, <1>7, <1>9, <1>10, FramesOnly DEF ReceivePop

\* A proxy more.
LEMMA OneMore ==
  ASSUME NEW d, NEW p, p.deep = d, p \notin proxies, IsFiniteSet(Of(d)),
         proxies' = proxies \cup {p}
  PROVE  /\ IsFiniteSet(Of(d)') /\ Of(d)' # {}
         /\ Cardinality(Of(d)') = Cardinality(Of(d)) + 1
         /\ \A e : e # d => Of(e)' = Of(e)
  <1>1. Of(d)' = Of(d) \cup {p} /\ p \notin Of(d) /\ \A e : e # d => Of(e)' = Of(e)
    BY DEF Of
  <1> QED BY <1>1, FS_AddElement

\* What push_deep_proxy() does to the counts, the proxies and the cache.
LEMMA PushProxy ==
  ASSUME TypeOK, \A c \in Linda : IsFiniteSet(Of(c)),
         NEW x \in State, NEW d \in Linda, NEW rc \in [Linda -> Nat],
         push_deep_proxy(x, d, rc)
  PROVE  /\ refcount' \in [Linda -> Nat]
         /\ proxies \subseteq proxies' /\ cached \subseteq cached'
         /\ cached' \subseteq proxies' /\ proxies' \subseteq Proxy
         /\ \A p \in proxies' : p \in proxies \/ (p.at = x /\ p.deep = d)
         /\ \A p \in cached' : p \in cached \/ (p.at = x /\ p.deep = d)
         /\ CachedAt(x, d)' /\ Of(d)' # {}
         /\ \A c \in Linda : IsFiniteSet(Of(c)')
         /\ \A c \in Linda : c # d => refcount'[c] = rc[c] /\ Of(c)' = Of(c)
         /\ refcount'[d] - Cardinality(Of(d)') = rc[d] - Cardinality(Of(d))
  <1>1. CASE d \in Cached(x)
    <2>1. refcount' = rc /\ proxies' = proxies /\ cached' = cached
      BY <1>1 DEF push_deep_proxy
    <2>2. PICK p \in cached : p.at = x /\ p.deep = d
      BY <1>1 DEF Cached
    <2>3. \A c : Of(c)' = Of(c)
      BY <2>1 DEF Of
    <2>4. p \in Of(d)
      BY <2>2 DEF Of, TypeOK
    <2>5. CachedAt(x, d)'
      BY <2>1, <2>2 DEF CachedAt
    <2> QED BY <2>1, <2>3, <2>4, <2>5 DEF TypeOK
  <1>2. CASE d \notin Cached(x)
    <2>1. refcount' = [rc EXCEPT ![d] = @ + 1] /\ MakeProxy(x, d)
      BY <1>2 DEF push_deep_proxy
    <2>2. PICK p \in FreshProxy(x, d) : proxies' = proxies \cup {p} /\ cached' = cached \cup {p}
      BY <2>1 DEF MakeProxy
    <2>3. p \in Proxy /\ p \notin proxies /\ p.at = x /\ p.deep = d
      BY DEF FreshProxy
    <2>4. /\ IsFiniteSet(Of(d)') /\ Of(d)' # {}
          /\ Cardinality(Of(d)') = Cardinality(Of(d)) + 1
          /\ \A e : e # d => Of(e)' = Of(e)
      BY <2>2, <2>3, OneMore
    <2>5. Cardinality(Of(d)) \in Nat
      BY FS_CardinalityType
    <2>6. /\ refcount' \in [Linda -> Nat] /\ refcount'[d] = rc[d] + 1 /\ rc[d] \in Nat
          /\ \A c \in Linda : c # d => refcount'[c] = rc[c]
      BY <2>1
    <2>7. refcount'[d] - Cardinality(Of(d)') = rc[d] - Cardinality(Of(d))
      BY <2>4, <2>5, <2>6
    <2>8. CachedAt(x, d)'
      BY <2>2, <2>3 DEF CachedAt
    <2>9. \A c \in Linda : IsFiniteSet(Of(c)')
      BY <2>4
    <2> QED BY <2>2, <2>3, <2>4, <2>6, <2>7, <2>8, <2>9 DEF TypeOK
  <1> QED BY <1>1, <1>2

\* A step that makes proxies, and perhaps a linda or a lane, while a program
\* runs.
LEMMA Grow ==
  ASSUME IInv, NEW t \in Thread, NEW n \in Nat, OnlyCall(t, n),
         phase[t] = "run",
         TypeOK', stored' = stored, keepers' = keepers, live \subseteq live',
         \A d \in Linda : Deletes(t, n, d)' <=> Deletes(t, n, d),
         n \in DOMAIN frames'[t] =>
            IF frames'[t][n].f = "delete" THEN DeleteOK(t, n)' ELSE MoveOK(t, n)',
         proxies \subseteq proxies', cached \subseteq cached',
         \A p \in proxies' : p \in proxies \/
            /\ p.deep \in live' /\ \A u \in Thread : \A i \in Nat : ~Deletes(u, i, p.deep)
            /\ p.at \in Keeper => p.deep # Timer
            /\ p.at \in Thread => phase'[p.at] = "run",
         \A p \in cached' : p \in cached \/ p.at \in Keeper \/ phase'[p.at] = "run",
         \A d \in Linda : IsFiniteSet(Of(d)'),
         \A d \in live' : refcount'[d] = Cardinality(Of(d)') + UniverseRef(d),
         \A d \in live' \ live : Of(d)' # {},
         \A u \in Thread : holds[u] \subseteq holds'[u],
         \A u \in Thread : \A d \in holds'[u] :
            d \in holds[u] \/ (CachedAt(u, d)' /\ phase'[u] = "run"),
         \A u \in Thread : phase'[u] = phase[u]
                           \/ (u \in Lane /\ phase[u] = "none" /\ phase'[u] = "run"),
         \A u \in Thread : phase[u] = "none" => frames'[u] = <<>>
  PROVE  IInv'
  <1>0. TypeOK
    BY DEF IInv
  <1>1. /\ phase'[Main] = phase[Main] /\ \A d : UniverseRef(d)' = UniverseRef(d)
        /\ keepers = "up" /\ phase[Main] \in {"run", "closing"}
    <2>1. phase'[Main] = phase[Main]
      BY Names DEF Thread
    <2>2. \A d : UniverseRef(d)' = UniverseRef(d)
      BY <2>1 DEF UniverseRef
    <2>3. keepers = "up" /\ phase[Main] \in {"run", "closing"}
      BY RunningUp DEF UniverseRef, IInv, Shutdown
    <2> QED BY <2>1, <2>2, <2>3
  <1>2. \A x, d : CachedAt(x, d) => CachedAt(x, d)'
    BY DEF CachedAt
  <1>3. \A u \in Thread : \A i \in Nat : \A d \in Linda : Deletes(u, i, d)' <=> Deletes(u, i, d)
    <2> SUFFICES ASSUME NEW u \in Thread, NEW i \in Nat, NEW d \in Linda
                 PROVE  Deletes(u, i, d)' <=> Deletes(u, i, d)
      OBVIOUS
    <2>1. CASE u = t /\ i = n
      BY <2>1
    <2>2. CASE u # t \/ i # n
      BY <2>2 DEF OnlyCall, Same, Deletes
    <2> QED BY <2>1, <2>2
  <1>4. \A d \in Linda : Of(d) # {} => Of(d)' # {}
    BY DEF Of
  <1>5. ProxiesOK'
    <2>1. \A p \in proxies' : p.deep \in live' /\ (p.at \in Keeper => p.deep # Timer)
      BY DEF IInv, ProxiesOK
    <2> QED BY <2>1, <1>1 DEF IInv, ProxiesOK
  <1>6. RefcountExact'
    BY <1>1 DEF RefcountExact
  <1>7. RootsCached'
    BY <1>2 DEF IInv, RootsCached
  <1>8. CallsOK'
    <2> SUFFICES ASSUME NEW u \in Thread, NEW i \in DOMAIN frames'[u], u # t \/ i # n
                 PROVE  IF frames'[u][i].f = "delete" THEN DeleteOK(u, i)' ELSE MoveOK(u, i)'
      BY DEF CallsOK
    <2>1. Same(u, i) /\ i \in Nat
      BY <1>0, FrameType DEF OnlyCall, Same
    <2>2. CASE frames[u][i].f = "delete"
      <3>1. DeleteOK(u, i) /\ frames[u][i].d \in Linda
        BY <2>1, <2>2, <1>0, FrameType DEF IInv, CallsOK, Same, Frame
      <3>2. Deletes(u, i, frames[u][i].d)
        BY <2>1, <2>2 DEF Deletes, Same
      <3>3. Of(frames[u][i].d)' = {}
        <4>1. PICK d : d = frames[u][i].d
          OBVIOUS
        <4>2. \A p \in proxies' : p.deep # d
          BY <3>1, <3>2, <2>1, <4>1 DEF Of, DeleteOK
        <4>3. Of(d)' = {} /\ d = frames'[u][i].d
          BY <4>1, <4>2, <2>1 DEF Of, Same
        <4> QED BY <4>3
      <3> QED BY <3>1, <3>3, <2>1, <2>2, <1>1 DEF DeleteOK, Same
    <2>3. CASE frames[u][i].f # "delete"
      <3>1. MoveOK(u, i)
        BY <2>1, <2>3 DEF IInv, CallsOK, Same
      <3>2. phase'[u] = "run"
        BY <3>1 DEF MoveOK
      <3> QED BY <3>1, <3>2, <2>1, <2>3, <1>2 DEF MoveOK, Same
    <2> QED BY <2>2, <2>3
  <1>9. DeletedOnce'
    <2>1. \A d \in Linda, u, v \in Thread : \A i, j \in Nat :
            Deletes(u, i, d)' /\ Deletes(v, j, d)' => u = v /\ i = j
      BY <1>3 DEF IInv, DeletedOnce
    <2>2. ASSUME NEW d \in live'
          PROVE  \/ Of(d)' # {} \/ UniverseRef(d)' = 1
                 \/ \E u \in Thread : \E i \in Nat : Deletes(u, i, d)'
      <3>1. d \in Linda
        BY DEF TypeOK
      <3>2. CASE d \in live
        BY <3>1, <3>2, <1>1, <1>3, <1>4 DEF IInv, DeletedOnce
      <3> QED BY <3>2
    <2> QED BY <2>1, <2>2 DEF DeletedOnce
  <1>10. FreshEmpty'
    BY DEF IInv, FreshEmpty
  <1>11. ASSUME NEW u \in Thread PROVE PhaseOK(u)'
    <2>1. PhaseOK(u)
      BY DEF IInv
    <2>2. CASE phase'[u] # "run"
      <3>1. phase'[u] = phase[u] /\ u # t
        BY <2>2
      <3>2. \A p \in proxies' : p.at = u => p \in proxies
        BY <2>2
      <3>3. In(u)' = In(u)
        BY <3>2 DEF In
      <3>4. \A p \in cached' : p.at = u => p \in cached
        BY <2>2, Names DEF Thread
      <3>5. holds'[u] = holds[u]
        BY <2>2
      <3>6. frames[u] = <<>> => frames'[u] = <<>>
        <4> SUFFICES ASSUME frames[u] = <<>> PROVE frames'[u] = <<>>
          OBVIOUS
        <4>1. DOMAIN frames'[u] = {} /\ frames'[u] \in Seq(Frame)
          BY <3>1 DEF OnlyCall, Same, TypeOK
        <4> QED BY <4>1, NoIndex
      <3> QED BY <2>1, <3>1, <3>3, <3>4, <3>5, <3>6 DEF PhaseOK
    <2>3. CASE phase'[u] = "run"
      BY <2>3 DEF PhaseOK
    <2> QED BY <2>2, <2>3
  <1>12. Shutdown'
    BY <1>1 DEF IInv, Shutdown
  <1> QED BY <1>5, <1>6, <1>7, <1>8, <1>9, <1>10, <1>11, <1>12 DEF IInv

\* Nothing happens to the calls.
LEMMA FramesUnchanged ==
  ASSUME TypeOK, frames' = frames, NEW t \in Thread
  PROVE  /\ OnlyCall(t, 0) /\ 0 \notin DOMAIN frames'[t]
         /\ \A d : ~Deletes(t, 0, d) /\ ~Deletes(t, 0, d)'
  BY FrameType DEF OnlyCall, Same, Deletes

\* push_deep_proxy() of a linda that exists and is not being deleted, into a
\* state that may have it.
LEMMA GrowPush ==
  ASSUME IInv, NEW t \in Thread, NEW n \in Nat, OnlyCall(t, n),
         phase[t] = "run", frames' \in [Thread -> Seq(Frame)],
         UNCHANGED <<live, stored, phase, keepers>>,
         NEW x \in State, NEW d \in Linda, push_deep_proxy(x, d, refcount),
         Of(d) # {}, x = t \/ (x \in Keeper /\ d # Timer),
         holds' = holds \/ (x = t /\ holds' = [holds EXCEPT ![t] = @ \cup {d}]),
         \A c \in Linda : Deletes(t, n, c)' <=> Deletes(t, n, c),
         n \in DOMAIN frames'[t] =>
            IF frames'[t][n].f = "delete" THEN DeleteOK(t, n)' ELSE MoveOK(t, n)'
  PROVE  IInv'
  <1>0. TypeOK /\ ProxiesOK /\ RefcountExact
    BY DEF IInv
  <1>1. /\ refcount' \in [Linda -> Nat]
        /\ proxies \subseteq proxies' /\ cached \subseteq cached'
        /\ cached' \subseteq proxies' /\ proxies' \subseteq Proxy
        /\ \A p \in proxies' : p \in proxies \/ (p.at = x /\ p.deep = d)
        /\ \A p \in cached' : p \in cached \/ (p.at = x /\ p.deep = d)
        /\ CachedAt(x, d)' /\ Of(d)' # {}
        /\ \A c \in Linda : IsFiniteSet(Of(c)')
        /\ \A c \in Linda : c # d => refcount'[c] = refcount[c] /\ Of(c)' = Of(c)
        /\ refcount'[d] - Cardinality(Of(d)') = refcount[d] - Cardinality(Of(d))
    BY <1>0, PushProxy DEF TypeOK, ProxiesOK
  <1>2. d \in live /\ \A u \in Thread : \A i \in Nat : ~Deletes(u, i, d)
    BY InUse
  <1>3. /\ \A u \in Thread : holds[u] \subseteq holds'[u]
        /\ holds' \in [Thread -> SUBSET Linda]
        /\ \A u \in Thread : \A c \in holds'[u] : c \in holds[u] \/ (u = x /\ c = d)
    BY <1>0 DEF TypeOK
  <1>4. TypeOK'
    BY <1>0, <1>1, <1>3 DEF TypeOK
  <1>5. \A c \in live' : refcount'[c] = Cardinality(Of(c)') + UniverseRef(c)
    <2> SUFFICES ASSUME NEW c \in live PROVE refcount'[c] = Cardinality(Of(c)') + UniverseRef(c)
      OBVIOUS
    <2>1. c \in Linda /\ refcount[c] = Cardinality(Of(c)) + UniverseRef(c) /\ UniverseRef(c) \in Nat
      BY <1>0 DEF TypeOK, RefcountExact, UniverseRef
    <2>2. CASE c # d
      BY <2>1, <2>2, <1>1
    <2>3. CASE c = d
      <3>1. /\ Cardinality(Of(d)') \in Nat /\ Cardinality(Of(d)) \in Nat
            /\ refcount[d] \in Nat /\ refcount'[d] \in Nat
        BY <1>0, <1>1, FS_CardinalityType DEF ProxiesOK, TypeOK
      <3> QED BY <2>1, <2>3, <3>1, <1>1
    <2> QED BY <2>2, <2>3
  <1>6. x \in Thread => x = t
    BY Names
  <1>7. \A u \in Thread : phase[u] = "none" => frames'[u] = <<>>
    <2> SUFFICES ASSUME NEW u \in Thread, phase[u] = "none" PROVE frames'[u] = <<>>
      OBVIOUS
    <2>1. frames[u] = <<>> /\ u # t
      BY DEF IInv, PhaseOK
    <2>2. DOMAIN frames'[u] = {} /\ frames'[u] \in Seq(Frame)
      BY <2>1 DEF OnlyCall, Same
    <2> QED BY <2>2, NoIndex
  <1>8. \A p \in proxies' : p \in proxies \/
            /\ p.deep \in live' /\ \A u \in Thread : \A i \in Nat : ~Deletes(u, i, p.deep)
            /\ p.at \in Keeper => p.deep # Timer
            /\ p.at \in Thread => phase'[p.at] = "run"
    BY <1>1, <1>2, <1>6, Names
  <1>9. \A p \in cached' : p \in cached \/ p.at \in Keeper \/ phase'[p.at] = "run"
    BY <1>1
  <1>10. \A u \in Thread : \A c \in holds'[u] :
            c \in holds[u] \/ (CachedAt(u, c)' /\ phase'[u] = "run")
    BY <1>1, <1>3, <1>6
  <1> QED BY <1>1, <1>3, <1>4, <1>5, <1>7, <1>8, <1>9, <1>10, Grow

\* thread_join() copies a result to the state of the caller.
LEMMA JoinMoveInv ==
  ASSUME IInv, NEW t \in Thread, NEW u \in Lane, NEW e \in Linda, JoinMove(t, u, e)
  PROVE  IInv'
  <1>1. phase[t] = "run" /\ e \in holds[u] /\ u \in Thread /\ frames' = frames
    BY DEF JoinMove, Running, Thread
  <1>2. Of(e) # {} /\ TypeOK
    BY <1>1, InUse DEF IInv
  <1>3. OnlyCall(t, 0) /\ 0 \notin DOMAIN frames'[t] /\ \A d : ~Deletes(t, 0, d) /\ ~Deletes(t, 0, d)'
    BY <1>1, <1>2, FramesUnchanged
  <1>4. t \in State /\ frames' \in [Thread -> Seq(Frame)]
    BY <1>1, <1>2 DEF State, TypeOK
  <1> QED BY <1>1, <1>2, <1>3, <1>4, GrowPush DEF JoinMove

\* A send() makes or finds the proxy in the keeper.
LEMMA SendCopyInv ==
  ASSUME IInv, NEW t \in Thread, SendCopy(t)
  PROVE  IInv'
  <1>n. PICK n : n = Len(frames[t])
    OBVIOUS
  <1>d. PICK d, e, k : d = Top(t).d /\ e = Top(t).e /\ k = KeeperOf[d]
    OBVIOUS
  <1>1. frames[t] # <<>> /\ Top(t).f = "send" /\ Goto(t, "copied")
    BY DEF SendCopy, InF
  <1>2. n \in Nat /\ n \in DOMAIN frames[t] /\ Top(t) = frames[t][n] /\ MoveOK(t, n) /\ Top(t) \in Frame
        /\ phase[t] = "run"
    BY <1>1, <1>n, TopCall
  <1>3. /\ frames' \in [Thread -> Seq(Frame)] /\ OnlyCall(t, n) /\ n \in DOMAIN frames'[t]
        /\ frames'[t][n].f = "send" /\ frames'[t][n].d = d /\ frames'[t][n].e = e
        /\ frames'[t][n].pc = "copied"
    BY <1>1, <1>n, <1>d, GotoFrames DEF IInv, Pcs
  <1>4. n = 1 /\ d \in holds[t] /\ e \in holds[t] \ {Timer} /\ d \in Linda /\ e \in Linda
    BY <1>1, <1>2, <1>d DEF MoveOK, IInv, TypeOK
  <1>5. k \in Keeper /\ k \in State /\ Of(e) # {}
    BY <1>4, <1>d, Keepers, InUse DEF State
  <1>6. push_deep_proxy(k, e, refcount) /\ UNCHANGED <<live, holds, stored, phase, keepers>>
    BY <1>d DEF SendCopy
  <1>7. \A c \in Linda : Deletes(t, n, c)' <=> Deletes(t, n, c)
    BY <1>1, <1>2, <1>3 DEF Deletes
  <1>8. CachedAt(k, e)'
    BY <1>4, <1>5, <1>6, PushProxy DEF IInv, TypeOK, ProxiesOK
  <1>9. MoveOK(t, n)'
    <2>1. CachedAt(KeeperOf[d], e)'
      BY <1>8, <1>d
    <2> QED BY <2>1, <1>2, <1>3, <1>4, <1>6 DEF MoveOK
  <1>10. frames'[t][n].f # "delete"
    BY <1>3
  <1> QED BY <1>2, <1>3, <1>4, <1>5, <1>6, <1>7, <1>9, <1>10, GrowPush

\* A receive() makes or finds the proxy in its own state.
LEMMA ReceiveMoveInv ==
  ASSUME IInv, NEW t \in Thread, ReceiveMove(t)
  PROVE  IInv'
  <1>n. PICK n : n = Len(frames[t])
    OBVIOUS
  <1>1. frames[t] # <<>> /\ Top(t).pc = "move" /\ Return(t)
    BY DEF ReceiveMove, At
  <1>2. n \in Nat /\ n \in DOMAIN frames[t] /\ Top(t) = frames[t][n] /\ MoveOK(t, n) /\ Top(t) \in Frame
        /\ phase[t] = "run" /\ Top(t).f = "receive"
    BY <1>1, <1>n, TopCall
  <1>3. frames' \in [Thread -> Seq(Frame)] /\ OnlyCall(t, n) /\ n \notin DOMAIN frames'[t]
    BY <1>1, <1>n, ReturnFrames DEF IInv
  <1>4. CASE Top(t).e = None
    <2>1. Top(t).d \in Linda /\ stored \in [Linda -> SUBSET Linda]
      BY <1>2 DEF IInv, TypeOK, Frame
    <2>2. stored' = [stored EXCEPT ![Top(t).d] = stored[Top(t).d]]
          /\ UNCHANGED <<live, refcount, proxies, cached, holds, phase, keepers>>
      BY <1>4, <2>1 DEF ReceiveMove
    <2> QED BY <1>1, <1>2, <2>1, <2>2, ReturnInv
  <1>5. CASE Top(t).e # None
    <2>1. PICK e : e = Top(t).e
      OBVIOUS
    <2>2. e \in Linda /\ CachedAt(KeeperOf[Top(t).d], e)
      BY <1>1, <1>2, <1>5, <2>1 DEF MoveOK, Frame
    <2>3. Of(e) # {} /\ t \in State
      BY <2>2, InUse DEF State
    <2>4. /\ push_deep_proxy(t, e, refcount) /\ UNCHANGED <<live, stored, phase, keepers>>
          /\ holds' = [holds EXCEPT ![t] = @ \cup {e}]
      BY <1>5, <2>1 DEF ReceiveMove
    <2>5. \A c \in Linda : Deletes(t, n, c)' <=> Deletes(t, n, c)
      BY <1>2, <1>3 DEF Deletes
    <2> QED BY <1>2, <1>3, <2>2, <2>3, <2>4, <2>5, GrowPush
  <1> QED BY <1>4, <1>5

\* lanes.linda() makes a linda at an unused address, with its first proxy.
LEMMA NewInv ==
  ASSUME IInv, NEW t \in Thread, NEW d \in Linda, luaG_newdeepuserdata(t, d)
  PROVE  IInv'
  <1> DEFINE rc == [refcount EXCEPT ![d] = 0]
  <1>0. TypeOK /\ ProxiesOK /\ RefcountExact
    BY DEF IInv
  <1>1. /\ phase[t] = "run" /\ d \notin live /\ d # Timer /\ live' = live \cup {d}
        /\ push_deep_proxy(t, d, rc) /\ holds' = [holds EXCEPT ![t] = @ \cup {d}]
        /\ UNCHANGED <<stored, frames, phase, keepers>> /\ t \in State
    BY DEF luaG_newdeepuserdata, Running, State
  <1>2. rc \in [Linda -> Nat] /\ rc[d] = 0 /\ \A c \in Linda : c # d => rc[c] = refcount[c]
    BY <1>0 DEF TypeOK
  <1> HIDE DEF rc
  <1>3. /\ refcount' \in [Linda -> Nat]
        /\ proxies \subseteq proxies' /\ cached \subseteq cached'
        /\ cached' \subseteq proxies' /\ proxies' \subseteq Proxy
        /\ \A p \in proxies' : p \in proxies \/ (p.at = t /\ p.deep = d)
        /\ \A p \in cached' : p \in cached \/ (p.at = t /\ p.deep = d)
        /\ CachedAt(t, d)' /\ Of(d)' # {}
        /\ \A c \in Linda : IsFiniteSet(Of(c)')
        /\ \A c \in Linda : c # d => refcount'[c] = rc[c] /\ Of(c)' = Of(c)
        /\ refcount'[d] - Cardinality(Of(d)') = rc[d] - Cardinality(Of(d))
    BY <1>0, <1>1, <1>2, PushProxy DEF ProxiesOK
  <1>4. Of(d) = {} /\ UniverseRef(d) = 0
    BY <1>1, InUse DEF UniverseRef
  <1>5. refcount'[d] = Cardinality(Of(d)') + UniverseRef(d)
    <2>1. Cardinality(Of(d)) = 0 /\ Cardinality(Of(d)') \in Nat /\ refcount'[d] \in Nat
      BY <1>3, <1>4, FS_EmptySet, FS_CardinalityType
    <2> QED BY <2>1, <1>2, <1>3, <1>4
  <1>6. \A c \in live' : refcount'[c] = Cardinality(Of(c)') + UniverseRef(c)
    <2> SUFFICES ASSUME NEW c \in live, c # d
                 PROVE  refcount'[c] = Cardinality(Of(c)') + UniverseRef(c)
      BY <1>1, <1>5
    <2>1. c \in Linda /\ refcount[c] = Cardinality(Of(c)) + UniverseRef(c)
      BY <1>0 DEF TypeOK, RefcountExact
    <2> QED BY <2>1, <1>2, <1>3
  <1>7. \A u \in Thread : \A i \in Nat : ~Deletes(u, i, d)
    BY <1>1, InUse
  <1>8. OnlyCall(t, 0) /\ 0 \notin DOMAIN frames'[t] /\ \A c : ~Deletes(t, 0, c) /\ ~Deletes(t, 0, c)'
    BY <1>0, <1>1, FramesUnchanged
  <1>9. /\ \A u \in Thread : holds[u] \subseteq holds'[u]
        /\ holds' \in [Thread -> SUBSET Linda]
        /\ \A u \in Thread : \A c \in holds'[u] : c \in holds[u] \/ (u = t /\ c = d)
    BY <1>0, <1>1 DEF TypeOK
  <1>10. TypeOK'
    BY <1>0, <1>1, <1>3, <1>9 DEF TypeOK
  <1>11. \A p \in proxies' : p \in proxies \/
            /\ p.deep \in live' /\ \A u \in Thread : \A i \in Nat : ~Deletes(u, i, p.deep)
            /\ p.at \in Keeper => p.deep # Timer
            /\ p.at \in Thread => phase'[p.at] = "run"
    BY <1>1, <1>3, <1>7
  <1>12. \A u \in Thread : phase[u] = "none" => frames'[u] = <<>>
    BY <1>1 DEF IInv, PhaseOK
  <1> QED BY <1>1, <1>3, <1>6, <1>8, <1>9, <1>10, <1>11, <1>12, Grow

\* lane_new() copies the lindas of the body to the new state.
LEMMA LaneNewInv ==
  ASSUME IInv, NEW t \in Thread, NEW u \in Lane, NEW ds \in SUBSET Linda, lane_new(t, u, ds)
  PROVE  IInv'
  <1> DEFINE P(d) == [at |-> u, deep |-> d, n |-> 1]
  <1>0. TypeOK /\ ProxiesOK /\ RefcountExact /\ PhaseOK(u) /\ u \in Thread
    BY DEF IInv, Thread
  <1>1. /\ phase[t] = "run" /\ frames[t] = <<>> /\ phase[u] = "none" /\ ds \subseteq holds[t] \cup {Timer}
        /\ phase' = [phase EXCEPT ![u] = "run"] /\ holds' = [holds EXCEPT ![u] = ds]
        /\ proxies' = proxies \cup {P(d) : d \in ds}
        /\ cached' = cached \cup {P(d) : d \in ds}
        /\ refcount' = [d \in Linda |-> IF d \in ds THEN refcount[d] + 1 ELSE refcount[d]]
        /\ UNCHANGED <<live, stored, frames, keepers>>
    BY DEF lane_new, Running
  <1>2. UniverseRef(Timer) = 1 /\ Timer \in live /\ Timer \in Linda
    BY <1>0, <1>1, RunningUp, Names DEF ProxiesOK
  <1>3. \A d \in ds : d \in live /\ \A v \in Thread : \A i \in Nat : ~Deletes(v, i, d)
    BY <1>1, <1>2, InUse
  <1>4. \A d \in Linda : P(d) \in Proxy /\ P(d).at = u /\ P(d).deep = d /\ P(d) \notin proxies
    <2>1. 1 \in 1 .. MaxPending + 1
      BY Bound
    <2>2. In(u) = {}
      BY <1>0, <1>1 DEF PhaseOK
    <2> QED BY <2>1, <2>2, <1>0 DEF Proxy, State, In
  <1> HIDE DEF P
  <1>5. ASSUME NEW d \in Linda
        PROVE  /\ IsFiniteSet(Of(d)')
               /\ Cardinality(Of(d)') = Cardinality(Of(d)) + (IF d \in ds THEN 1 ELSE 0)
    <2>1. CASE d \in ds
      <3>1. Of(d)' = Of(d) \cup {P(d)} /\ P(d) \notin Of(d)
        BY <2>1, <1>1, <1>4 DEF Of
      <3> QED BY <3>1, <2>1, <1>0, FS_AddElement DEF ProxiesOK
    <2>2. CASE d \notin ds
      <3>1. Of(d)' = Of(d) /\ IsFiniteSet(Of(d)) /\ Cardinality(Of(d)) \in Nat
        BY <2>2, <1>0, <1>1, <1>4, FS_CardinalityType DEF Of, ProxiesOK
      <3> QED BY <3>1, <2>2
    <2> QED BY <2>1, <2>2
  <1>6. \A d \in live' : refcount'[d] = Cardinality(Of(d)') + UniverseRef(d)
    <2> SUFFICES ASSUME NEW d \in live PROVE refcount'[d] = Cardinality(Of(d)') + UniverseRef(d)
      BY <1>1
    <2>1. d \in Linda /\ refcount[d] = Cardinality(Of(d)) + UniverseRef(d) /\ UniverseRef(d) \in Nat
          /\ Cardinality(Of(d)) \in Nat
      BY <1>0, FS_CardinalityType DEF TypeOK, RefcountExact, UniverseRef, ProxiesOK
    <2> QED BY <2>1, <1>1, <1>5
  <1>7. OnlyCall(t, 0) /\ 0 \notin DOMAIN frames'[t] /\ \A c : ~Deletes(t, 0, c) /\ ~Deletes(t, 0, c)'
    BY <1>0, <1>1, FramesUnchanged
  <1>8. /\ phase' \in [Thread -> {"none", "run", "done", "closing", "closed", "keepers", "end"}]
        /\ phase'[u] = "run" /\ \A v \in Thread : v # u => phase'[v] = phase[v]
    BY <1>0, <1>1 DEF TypeOK
  <1>9. /\ holds' \in [Thread -> SUBSET Linda] /\ holds'[u] = ds
        /\ \A v \in Thread : v # u => holds'[v] = holds[v]
    BY <1>0, <1>1 DEF TypeOK
  <1>10. TypeOK'
    <2>1. proxies' \subseteq Proxy /\ cached' \subseteq proxies' /\ refcount' \in [Linda -> Nat]
      BY <1>0, <1>1, <1>4 DEF TypeOK
    <2> QED BY <2>1, <1>0, <1>1, <1>8, <1>9 DEF TypeOK
  <1>11. holds[u] = {}
    BY <1>0, <1>1 DEF PhaseOK
  <1>12. \A p \in proxies' : p \in proxies \/
            /\ p.deep \in live' /\ \A v \in Thread : \A i \in Nat : ~Deletes(v, i, p.deep)
            /\ p.at \in Keeper => p.deep # Timer
            /\ p.at \in Thread => phase'[p.at] = "run"
    BY <1>0, <1>1, <1>3, <1>4, <1>8, Names
  <1>13. \A p \in cached' : p \in cached \/ p.at \in Keeper \/ phase'[p.at] = "run"
    BY <1>1, <1>4, <1>8
  <1>14. \A d \in ds : CachedAt(u, d)'
    BY <1>1, <1>4 DEF CachedAt
  <1>15. \A v \in Thread : phase[v] = "none" => frames'[v] = <<>>
    BY <1>1 DEF IInv, PhaseOK
  <1>16. proxies \subseteq proxies' /\ cached \subseteq cached'
    BY <1>1
  <1>17. /\ \A v \in Thread : holds[v] \subseteq holds'[v]
         /\ \A v \in Thread : \A d \in holds'[v] :
              d \in holds[v] \/ (CachedAt(v, d)' /\ phase'[v] = "run")
    BY <1>8, <1>9, <1>11, <1>14
  <1>18. \A v \in Thread : phase'[v] = phase[v]
                          \/ (v \in Lane /\ phase[v] = "none" /\ phase'[v] = "run")
    BY <1>1, <1>8
  <1>19. /\ stored' = stored /\ keepers' = keepers /\ live \subseteq live'
         /\ \A d \in live' \ live : Of(d)' # {}
    BY <1>1
  <1>20. \A d \in Linda : IsFiniteSet(Of(d)')
    BY <1>5
  <1>21. \A d \in Linda : Deletes(t, 0, d)' <=> Deletes(t, 0, d)
    BY <1>7
  <1>22. phase[t] = "run" /\ 0 \in Nat /\ OnlyCall(t, 0) /\ 0 \notin DOMAIN frames'[t]
    BY <1>1, <1>7
  <1> QED BY <1>6, <1>10, <1>12, <1>13, <1>15, <1>16, <1>17, <1>18, <1>19, <1>20, <1>21,
             <1>22, Grow

\* A step that only forgets: variables, values of fifos, cache entries.
LEMMA Forget ==
  ASSUME IInv, TypeOK', UNCHANGED <<live, refcount, proxies, frames>>,
         \A d : UniverseRef(d)' = UniverseRef(d),
         \A c \in Linda : stored'[c] \subseteq stored[c],
         RootsCached',
         \A t \in Thread : \A i \in DOMAIN frames[t] : MoveOK(t, i) => MoveOK(t, i)',
         \A t \in Thread : PhaseOK(t)',
         Shutdown'
  PROVE  IInv'
  <1>0. TypeOK
    BY DEF IInv
  <1>1. /\ \A d : Of(d)' = Of(d)
        /\ \A t \in Thread : \A i \in Nat : \A d : Deletes(t, i, d)' <=> Deletes(t, i, d)
    BY DEF Of, Deletes
  <1>2. ProxiesOK'
    BY <1>1 DEF IInv, ProxiesOK
  <1>3. RefcountExact'
    BY <1>1 DEF IInv, RefcountExact
  <1>4. CallsOK'
    <2> SUFFICES ASSUME NEW t \in Thread, NEW i \in DOMAIN frames[t]
                 PROVE  IF frames[t][i].f = "delete" THEN DeleteOK(t, i)' ELSE MoveOK(t, i)'
      BY DEF CallsOK
    <2>1. frames[t][i].d \in Linda
      BY <1>0, FrameType DEF Frame
    <2>2. DeleteOK(t, i) => DeleteOK(t, i)'
      BY <2>1, <1>1 DEF DeleteOK
    <2> QED BY <2>2 DEF IInv, CallsOK
  <1>5. DeletedOnce'
    BY <1>1 DEF IInv, DeletedOnce
  <1>6. FreshEmpty'
    BY DEF IInv, FreshEmpty
  <1> QED BY <1>2, <1>3, <1>4, <1>5, <1>6 DEF IInv

\* A program forgets a linda; its proxy stays.
LEMMA DropInv ==
  ASSUME IInv, NEW t \in Thread, NEW d \in Linda, Drop(t, d)
  PROVE  IInv'
  <1>0. TypeOK
    BY DEF IInv
  <1>1. /\ phase[t] = "run" /\ frames[t] = <<>> /\ holds' = [holds EXCEPT ![t] = @ \ {d}]
        /\ UNCHANGED <<live, refcount, proxies, cached, stored, frames, phase, keepers>>
    BY DEF Drop, Running
  <1>2. /\ holds' \in [Thread -> SUBSET Linda] /\ holds'[t] \subseteq holds[t]
        /\ \A u \in Thread : u # t => holds'[u] = holds[u]
    BY <1>0, <1>1 DEF TypeOK
  <1>3. TypeOK'
    BY <1>0, <1>1, <1>2 DEF TypeOK
  <1>4. /\ \A c : UniverseRef(c)' = UniverseRef(c)
        /\ \A x, c : CachedAt(x, c)' <=> CachedAt(x, c)
        /\ \A x : In(x)' = In(x)
    BY <1>1 DEF UniverseRef, CachedAt, In
  <1>5. RootsCached'
    BY <1>1, <1>2, <1>4 DEF IInv, RootsCached
  <1>6. ASSUME NEW u \in Thread, NEW i \in DOMAIN frames[u], MoveOK(u, i) PROVE MoveOK(u, i)'
    <2>1. u # t
      BY <1>1
    <2> QED BY <2>1, <1>1, <1>2, <1>4, <1>6 DEF MoveOK
  <1>7. ASSUME NEW u \in Thread PROVE PhaseOK(u)'
    BY <1>1, <1>2, <1>4 DEF IInv, PhaseOK
  <1>8. Shutdown'
    BY <1>1, <1>4 DEF IInv, Shutdown
  <1> QED BY <1>1, <1>3, <1>4, <1>5, <1>6, <1>7, <1>8, Forget

\* A body returns, and its state waits to be joined or closed.
LEMMA EndBodyInv ==
  ASSUME IInv, NEW t \in Lane, EndBody(t)
  PROVE  IInv'
  <1>0. TypeOK /\ t \in Thread /\ t # Main
    BY Names DEF IInv, Thread
  <1>1. /\ phase[t] = "run" /\ frames[t] = <<>> /\ phase' = [phase EXCEPT ![t] = "done"]
        /\ UNCHANGED <<live, refcount, proxies, cached, holds, stored, frames, keepers>>
    BY DEF EndBody, Running
  <1>2. /\ phase' \in [Thread -> {"none", "run", "done", "closing", "closed", "keepers", "end"}]
        /\ phase'[t] = "done" /\ \A u \in Thread : u # t => phase'[u] = phase[u]
        /\ phase'[Main] = phase[Main]
    BY <1>0, <1>1 DEF TypeOK, Thread
  <1>3. TypeOK'
    BY <1>0, <1>1, <1>2 DEF TypeOK
  <1>4. /\ \A c : UniverseRef(c)' = UniverseRef(c)
        /\ \A x, c : CachedAt(x, c)' <=> CachedAt(x, c)
        /\ \A x : In(x)' = In(x)
    BY <1>1, <1>2 DEF UniverseRef, CachedAt, In
  <1>5. RootsCached'
    BY <1>1, <1>2, <1>4 DEF IInv, RootsCached
  <1>6. ASSUME NEW u \in Thread, NEW i \in DOMAIN frames[u], MoveOK(u, i) PROVE MoveOK(u, i)'
    <2>1. u # t
      BY <1>1
    <2> QED BY <2>1, <1>1, <1>2, <1>4, <1>6 DEF MoveOK
  <1>7. ASSUME NEW u \in Thread PROVE PhaseOK(u)'
    <2>1. CASE u = t
      BY <2>1, <1>0, <1>1, <1>2 DEF PhaseOK
    <2>2. CASE u # t
      BY <2>2, <1>1, <1>2, <1>4 DEF IInv, PhaseOK
    <2> QED BY <2>1, <2>2
  <1>8. Shutdown'
    <2>1. phase[Main] \notin {"keepers", "end"}
      BY <1>1 DEF IInv, Shutdown
    <2> QED BY <2>1, <1>1, <1>2, <1>4 DEF IInv, Shutdown
  <1> QED BY <1>1, <1>3, <1>4, <1>5, <1>6, <1>7, <1>8, Forget

\* lua_close() of a state whose thread is in no call.
LEMMA LuaCloseInv ==
  ASSUME IInv, NEW t \in Thread, lua_close(t), frames[t] = <<>>,
         phase[t] = "done" \/ (t = Main /\ phase[t] = "run")
  PROVE  IInv'
  <1>0. TypeOK
    BY DEF IInv
  <1>1. /\ phase' = [phase EXCEPT ![t] = "closing"] /\ holds' = [holds EXCEPT ![t] = {}]
        /\ cached' = {p \in cached : p.at # t}
        /\ UNCHANGED <<live, refcount, proxies, stored, frames, keepers>>
    BY DEF lua_close
  <1>2. /\ phase' \in [Thread -> {"none", "run", "done", "closing", "closed", "keepers", "end"}]
        /\ phase'[t] = "closing" /\ \A u \in Thread : u # t => phase'[u] = phase[u]
        /\ holds' \in [Thread -> SUBSET Linda] /\ holds'[t] = {}
        /\ \A u \in Thread : u # t => holds'[u] = holds[u]
    BY <1>0, <1>1 DEF TypeOK
  <1>3. TypeOK'
    <2>1. cached' \subseteq proxies'
      BY <1>0, <1>1 DEF TypeOK
    <2> QED BY <2>1, <1>0, <1>1, <1>2 DEF TypeOK
  <1>4. /\ \A x, c : x # t => (CachedAt(x, c)' <=> CachedAt(x, c))
        /\ \A x : In(x)' = In(x)
    BY <1>1 DEF CachedAt, In
  <1>5. phase[Main] \in {"run", "closing"} /\ phase'[Main] \in {"run", "closing"} /\ keepers = "up"
    <2>1. phase[Main] \in {"run", "closing"}
      <3>1. CASE t = Main
        BY <3>1 DEF IInv, Shutdown
      <3>2. CASE t # Main
        <4>1. t \in Lane /\ phase[t] = "done"
          BY <3>2 DEF Thread
        <4> QED BY <4>1 DEF IInv, Shutdown
      <3> QED BY <3>1, <3>2
    <2>2. Main \in Thread
      BY DEF Thread
    <2> QED BY <2>1, <2>2, <1>2, <1>0 DEF IInv, Shutdown, TypeOK
  <1>6. \A c : UniverseRef(c)' = UniverseRef(c)
    BY <1>5 DEF UniverseRef
  <1>7. \A c \in Linda : KeeperOf[c] # t
    BY Names, Keepers
  <1>8. RootsCached'
    BY <1>1, <1>2, <1>4, <1>7 DEF IInv, RootsCached
  <1>9. ASSUME NEW u \in Thread, NEW i \in DOMAIN frames[u], MoveOK(u, i) PROVE MoveOK(u, i)'
    <2>1. u # t /\ frames[u][i].d \in Linda
      BY <1>0, FrameType DEF Frame
    <2> QED BY <2>1, <1>1, <1>2, <1>4, <1>7, <1>9 DEF MoveOK
  <1>10. ASSUME NEW u \in Thread PROVE PhaseOK(u)'
    <2>1. CASE u = t
      BY <2>1, <1>1, <1>2 DEF PhaseOK
    <2>2. CASE u # t
      BY <2>2, <1>1, <1>2, <1>4 DEF IInv, PhaseOK
    <2> QED BY <2>1, <2>2
  <1>11. Shutdown'
    BY <1>1, <1>5 DEF IInv, Shutdown
  <1> QED BY <1>1, <1>3, <1>6, <1>8, <1>9, <1>10, <1>11, Forget

\* lua_close() of an ended lane drops what it held.
LEMMA CloseInv ==
  ASSUME IInv, NEW u \in Lane, Close(u)
  PROVE  IInv'
  <1>1. u \in Thread /\ phase[u] = "done" /\ lua_close(u)
    BY DEF Close, Thread
  <1>2. frames[u] = <<>>
    BY <1>1 DEF IInv, PhaseOK
  <1> QED BY <1>1, <1>2, LuaCloseInv

\* lua_close() of the main state.
LEMMA MainCloseInv ==
  ASSUME IInv, MainClose
  PROVE  IInv'
  <1>1. Main \in Thread /\ phase[Main] = "run" /\ frames[Main] = <<>> /\ lua_close(Main)
    BY DEF MainClose, Running, Thread
  <1> QED BY <1>1, LuaCloseInv

\* A state is closed when its last finalizer has run.
LEMMA ClosedInv ==
  ASSUME IInv, NEW t \in Lane, Closed(t)
  PROVE  IInv'
  <1>0. TypeOK /\ t \in Thread /\ t # Main
    BY Names DEF IInv, Thread
  <1>1. /\ phase[t] = "closing" /\ frames[t] = <<>> /\ In(t) = {}
        /\ phase' = [phase EXCEPT ![t] = "closed"]
        /\ UNCHANGED <<live, refcount, proxies, cached, holds, stored, frames, keepers>>
    BY DEF Closed
  <1>2. /\ phase' \in [Thread -> {"none", "run", "done", "closing", "closed", "keepers", "end"}]
        /\ phase'[t] = "closed" /\ \A u \in Thread : u # t => phase'[u] = phase[u]
        /\ phase'[Main] = phase[Main]
    BY <1>0, <1>1 DEF TypeOK, Thread
  <1>3. TypeOK'
    BY <1>0, <1>1, <1>2 DEF TypeOK
  <1>4. /\ \A c : UniverseRef(c)' = UniverseRef(c)
        /\ \A x, c : CachedAt(x, c)' <=> CachedAt(x, c)
        /\ \A x : In(x)' = In(x)
    BY <1>1, <1>2 DEF UniverseRef, CachedAt, In
  <1>5. RootsCached'
    BY <1>1, <1>2, <1>4 DEF IInv, RootsCached
  <1>6. ASSUME NEW u \in Thread, NEW i \in DOMAIN frames[u], MoveOK(u, i) PROVE MoveOK(u, i)'
    <2>1. u # t
      BY <1>1
    <2> QED BY <2>1, <1>1, <1>2, <1>4, <1>6 DEF MoveOK
  <1>7. ASSUME NEW u \in Thread PROVE PhaseOK(u)'
    <2>1. CASE u = t
      BY <2>1, <1>0, <1>1, <1>2, <1>4 DEF IInv, PhaseOK
    <2>2. CASE u # t
      BY <2>2, <1>1, <1>2, <1>4 DEF IInv, PhaseOK
    <2> QED BY <2>1, <2>2
  <1>8. Shutdown'
    <2>1. phase[Main] \notin {"keepers", "end"}
      BY <1>1 DEF IInv, Shutdown
    <2> QED BY <2>1, <1>1, <1>2, <1>4 DEF IInv, Shutdown
  <1> QED BY <1>1, <1>3, <1>4, <1>5, <1>6, <1>7, <1>8, Forget

\* lj_gc_separateudata() and gc_clearweak() take what nothing refers to.
LEMMA SeparateInv ==
  ASSUME IInv, NEW t \in Thread, NEW x \in State, NEW q \in proxies, Separate(t, x, q)
  PROVE  IInv'
  <1>0. TypeOK
    BY DEF IInv
  <1>1. /\ q \in cached /\ q.at = x /\ q.deep \notin Roots(x) /\ cached' = cached \ {q}
        /\ UNCHANGED <<live, refcount, proxies, holds, stored, frames, phase, keepers>>
    BY DEF Separate
  <1>2. TypeOK'
    BY <1>0, <1>1 DEF TypeOK
  <1>3. /\ \A y, d : CachedAt(y, d) => CachedAt(y, d)' \/ (y = x /\ d = q.deep)
        /\ \A y : In(y)' = In(y)
        /\ \A d : UniverseRef(d)' = UniverseRef(d)
    BY <1>1 DEF CachedAt, In, UniverseRef
  <1>4. RootsCached'
    <2>1. ASSUME NEW u \in Thread, NEW d \in holds'[u] PROVE CachedAt(u, d)'
      <3>1. CachedAt(u, d) /\ d \in holds[u] /\ u \notin Keeper
        BY <1>1, <2>1, Names DEF IInv, RootsCached
      <3>2. ~(u = x /\ d = q.deep)
        BY <3>1, <1>1 DEF Roots
      <3> QED BY <3>1, <3>2, <1>3
    <2>2. ASSUME NEW c \in Linda, NEW d \in stored'[c] PROVE d # Timer /\ CachedAt(KeeperOf[c], d)'
      <3>1. CachedAt(KeeperOf[c], d) /\ d \in stored[c] /\ d # Timer /\ KeeperOf[c] \in Keeper
        BY <1>1, <2>2, Keepers DEF IInv, RootsCached
      <3>2. ~(KeeperOf[c] = x /\ d = q.deep)
        BY <3>1, <1>1 DEF Roots
      <3> QED BY <3>1, <3>2, <1>3
    <2> QED BY <2>1, <2>2 DEF RootsCached
  <1>5. ASSUME NEW u \in Thread, NEW i \in DOMAIN frames[u], MoveOK(u, i) PROVE MoveOK(u, i)'
    <2>1. PICK k, e : k = KeeperOf[frames[u][i].d] /\ e = frames[u][i].e
      OBVIOUS
    <2>2. k \in Keeper
      BY <2>1, <1>0, FrameType, Keepers DEF Frame
    <2>3. frames[u][i].pc \in {"copied", "move"} => e \in InCalls(k)
      BY <2>1 DEF InCalls
    <2>4. frames[u][i].pc \in {"copied", "move"} => ~(k = x /\ e = q.deep)
      BY <2>2, <2>3, <1>1 DEF Roots
    <2>5. frames[u][i].pc \in {"copied", "move"} /\ e # None => e # Timer /\ CachedAt(k, e)'
      BY <2>1, <2>4, <1>3, <1>5 DEF MoveOK
    <2>6. frames[u][i].pc \in {"copied", "move"} /\ frames[u][i].e # None =>
            frames[u][i].e # Timer /\ CachedAt(KeeperOf[frames[u][i].d], frames[u][i].e)'
      BY <2>1, <2>5, <1>1 DEF CachedAt
    <2> QED BY <2>6, <1>1, <1>5 DEF MoveOK
  <1>6. ASSUME NEW u \in Thread PROVE PhaseOK(u)'
    BY <1>1, <1>3 DEF IInv, PhaseOK
  <1>7. Shutdown'
    BY <1>1, <1>3 DEF IInv, Shutdown
  <1> QED BY <1>1, <1>2, <1>3, <1>4, <1>5, <1>6, <1>7, Forget

\* close_keepers() closes the states of the keepers.
LEMMA CloseKeepersInv ==
  ASSUME IInv, close_keepers
  PROVE  IInv'
  <1>0. TypeOK
    BY DEF IInv
  <1>1. /\ phase[Main] = "keepers" /\ frames[Main] = <<>> /\ keepers' = "closing" /\ keepers = "up"
        /\ stored' = [d \in Linda |-> {}] /\ cached' = {p \in cached : p.at \notin Keeper}
        /\ UNCHANGED <<live, refcount, proxies, holds, frames, phase>>
    BY DEF close_keepers
  <1>2. TypeOK'
    <2>1. cached' \subseteq proxies' /\ stored' \in [Linda -> SUBSET Linda]
      BY <1>0, <1>1 DEF TypeOK
    <2> QED BY <2>1, <1>0, <1>1 DEF TypeOK
  <1>3. /\ \A y, d : y \notin Keeper => (CachedAt(y, d)' <=> CachedAt(y, d))
        /\ \A y : In(y)' = In(y)
        /\ \A d : UniverseRef(d)' = UniverseRef(d)
    BY <1>1 DEF CachedAt, In, UniverseRef
  <1>4. RootsCached'
    BY <1>1, <1>3, Names DEF IInv, RootsCached
  <1>5. \A u \in Thread : frames[u] = <<>>
    BY <1>1 DEF IInv, Shutdown, PhaseOK, Thread
  <1>6. ASSUME NEW u \in Thread, NEW i \in DOMAIN frames[u], MoveOK(u, i) PROVE MoveOK(u, i)'
    <2>1. DOMAIN frames[u] = {}
      BY <1>5
    <2> QED BY <2>1
  <1>7. ASSUME NEW u \in Thread PROVE PhaseOK(u)'
    BY <1>1, <1>3 DEF IInv, PhaseOK
  <1>8. Shutdown'
    BY <1>1, <1>3 DEF IInv, Shutdown
  <1> QED BY <1>1, <1>2, <1>3, <1>4, <1>6, <1>7, <1>8, Forget

\* The keepers are freed when nothing is left in them.
LEMMA KeepersClosedInv ==
  ASSUME IInv, KeepersClosed
  PROVE  IInv'
  <1>0. TypeOK /\ Main \in Thread
    BY DEF IInv, Thread
  <1>1. /\ keepers = "closing" /\ frames[Main] = <<>> /\ keepers' = "freed"
        /\ \A k \in Keeper : In(k) = {}
        /\ phase' = [phase EXCEPT ![Main] = "end"]
        /\ UNCHANGED <<live, refcount, proxies, cached, holds, stored, frames>>
    BY DEF KeepersClosed
  <1>2. /\ phase[Main] = "keepers" /\ In(Main) = {}
        /\ \A u \in Lane : phase[u] \in {"none", "closed"}
        /\ \A d \in Linda : stored[d] = {}
        /\ \A p \in cached : p.at \notin Keeper
    BY <1>1 DEF IInv, Shutdown
  <1>3. \A u \in Lane : In(u) = {} /\ frames[u] = <<>>
    BY <1>2 DEF IInv, PhaseOK, Thread
  <1>4. proxies = {}
    BY <1>0, <1>1, <1>2, <1>3 DEF In, TypeOK, Proxy, State, Thread
  <1>5. live = {}
    <2>1. \A d \in live : Of(d) = {} /\ UniverseRef(d) = 0
      BY <1>4, <1>2 DEF Of, UniverseRef
    <2>2. \A t \in Thread : DOMAIN frames[t] = {}
      BY <1>1, <1>3 DEF Thread
    <2> QED BY <2>1, <2>2 DEF IInv, DeletedOnce, Deletes
  <1>6. /\ phase' \in [Thread -> {"none", "run", "done", "closing", "closed", "keepers", "end"}]
        /\ phase'[Main] = "end" /\ \A u \in Thread : u # Main => phase'[u] = phase[u]
    BY <1>0, <1>1 DEF TypeOK
  <1>7. TypeOK'
    BY <1>0, <1>1, <1>6 DEF TypeOK
  <1>8. /\ \A c : UniverseRef(c)' = UniverseRef(c)
        /\ \A x, c : CachedAt(x, c)' <=> CachedAt(x, c)
        /\ \A x : In(x)' = In(x)
    BY <1>1, <1>2, <1>6 DEF UniverseRef, CachedAt, In
  <1>9. RootsCached'
    BY <1>1, <1>8 DEF IInv, RootsCached
  <1>10. ASSUME NEW u \in Thread, NEW i \in DOMAIN frames[u], MoveOK(u, i) PROVE MoveOK(u, i)'
    <2>1. DOMAIN frames[u] = {}
      BY <1>1, <1>3 DEF Thread
    <2> QED BY <2>1
  <1>11. ASSUME NEW u \in Thread PROVE PhaseOK(u)'
    <2>1. CASE u = Main
      BY <2>1, <1>1, <1>2, <1>6 DEF IInv, PhaseOK
    <2>2. CASE u # Main
      BY <2>2, <1>1, <1>6, <1>8 DEF IInv, PhaseOK
    <2> QED BY <2>1, <2>2
  <1>12. Shutdown'
    <2>1. \A u \in Lane : phase'[u] \in {"none", "closed"}
      BY <1>2, <1>6, Names DEF Thread
    <2> QED BY <2>1, <1>1, <1>2, <1>4, <1>5, <1>6, <1>8 DEF Shutdown
  <1> QED BY <1>1, <1>7, <1>8, <1>9, <1>10, <1>11, <1>12, Forget

\* free() of the linda: the deletion was the last that referred to it.
LEMMA FreeInv ==
  ASSUME IInv, NEW t \in Thread, Free(t)
  PROVE  IInv'
  <1>n. PICK n, d : n = Len(frames[t]) /\ d = Top(t).d
    OBVIOUS
  <1>0. TypeOK
    BY DEF IInv
  <1>1. /\ frames[t] # <<>> /\ Top(t).pc = "free" /\ Return(t) /\ live' = live \ {d}
        /\ UNCHANGED <<refcount, proxies, cached, holds, stored, phase, keepers>>
    BY <1>n DEF Free, At
  <1>2. n \in Nat /\ n \in DOMAIN frames[t] /\ Top(t) = frames[t][n] /\ DeleteOK(t, n) /\ Top(t) \in Frame
        /\ Top(t).f = "delete"
    BY <1>1, <1>n, TopCall
  <1>3. frames' \in [Thread -> Seq(Frame)] /\ OnlyCall(t, n) /\ n \notin DOMAIN frames'[t]
    BY <1>0, <1>1, <1>n, ReturnFrames
  <1>4. d \in Linda /\ Of(d) = {} /\ UniverseRef(d) = 0 /\ stored[d] = {} /\ Deletes(t, n, d)
    BY <1>1, <1>2, <1>n DEF DeleteOK, Frame, Deletes
  <1>5. /\ \A c : Of(c)' = Of(c) /\ UniverseRef(c)' = UniverseRef(c)
        /\ \A x : In(x)' = In(x)
        /\ \A x, c : CachedAt(x, c)' <=> CachedAt(x, c)
    BY <1>1 DEF Of, In, UniverseRef, CachedAt
  <1>6. TypeOK'
    BY <1>0, <1>1, <1>3 DEF TypeOK
  <1>7. \A u \in Thread : \A i \in Nat : \A c :
          Deletes(u, i, c)' <=> (Deletes(u, i, c) /\ (u # t \/ i # n))
    <2> SUFFICES ASSUME NEW u \in Thread, NEW i \in Nat, NEW c
                 PROVE  Deletes(u, i, c)' <=> (Deletes(u, i, c) /\ (u # t \/ i # n))
      OBVIOUS
    <2>1. CASE u = t /\ i = n
      BY <2>1, <1>3 DEF Deletes
    <2>2. CASE u # t \/ i # n
      BY <2>2, <1>3 DEF OnlyCall, Same, Deletes
    <2> QED BY <2>1, <2>2
  <1>8. ProxiesOK'
    BY <1>1, <1>4, <1>5 DEF IInv, ProxiesOK, Of
  <1>9. RefcountExact'
    BY <1>1, <1>5 DEF IInv, RefcountExact
  <1>10. RootsCached'
    BY <1>1, <1>5 DEF IInv, RootsCached
  <1>11. CallsOK'
    <2> SUFFICES ASSUME NEW u \in Thread, NEW i \in DOMAIN frames'[u]
                 PROVE  IF frames'[u][i].f = "delete" THEN DeleteOK(u, i)' ELSE MoveOK(u, i)'
      BY DEF CallsOK
    <2>1. Same(u, i) /\ (u # t \/ i # n) /\ i \in Nat
      BY <1>0, <1>3, FrameType DEF OnlyCall, Same
    <2>2. CASE frames[u][i].f = "delete"
      <3>1. DeleteOK(u, i) /\ Deletes(u, i, frames[u][i].d)
        BY <2>1, <2>2 DEF IInv, CallsOK, Same, Deletes
      <3>2. frames[u][i].d # d
        BY <3>1, <2>1, <1>2, <1>4 DEF IInv, DeletedOnce
      <3> QED BY <3>1, <3>2, <2>1, <2>2, <1>1, <1>5 DEF DeleteOK, Same
    <2>3. CASE frames[u][i].f # "delete"
      <3>1. MoveOK(u, i)
        BY <2>1, <2>3 DEF IInv, CallsOK, Same
      <3> QED BY <3>1, <2>1, <2>3, <1>1, <1>5 DEF MoveOK, Same
    <2> QED BY <2>2, <2>3
  <1>12. DeletedOnce'
    <2>1. \A c \in Linda, u, v \in Thread : \A i, j \in Nat :
            Deletes(u, i, c)' /\ Deletes(v, j, c)' => u = v /\ i = j
      BY <1>7 DEF IInv, DeletedOnce
    <2>2. ASSUME NEW c \in live'
          PROVE  \/ Of(c)' # {} \/ UniverseRef(c)' = 1
                 \/ \E u \in Thread : \E i \in Nat : Deletes(u, i, c)'
      <3>1. c \in live /\ c # d
        BY <1>1
      <3>2. ~Deletes(t, n, c)
        BY <3>1, <1>4 DEF Deletes
      <3> QED BY <3>1, <3>2, <1>5, <1>7 DEF IInv, DeletedOnce
    <2> QED BY <2>1, <2>2 DEF DeletedOnce
  <1>13. FreshEmpty'
    BY <1>1, <1>4 DEF IInv, FreshEmpty
  <1>14. \A u \in Thread : frames[u] = <<>> => frames'[u] = <<>>
    <2> SUFFICES ASSUME NEW u \in Thread, frames[u] = <<>> PROVE frames'[u] = <<>>
      OBVIOUS
    <2>1. DOMAIN frames'[u] = {} /\ frames'[u] \in Seq(Frame)
      BY <1>1, <1>3 DEF OnlyCall, Same
    <2> QED BY <2>1, NoIndex
  <1>15. ASSUME NEW u \in Thread PROVE PhaseOK(u)'
    BY <1>1, <1>5, <1>14 DEF IInv, PhaseOK
  <1>16. Shutdown'
    <2>1. Main \in Thread
      BY DEF Thread
    <2> QED BY <2>1, <1>1, <1>5, <1>14 DEF IInv, Shutdown
  <1> QED BY <1>6, <1>8, <1>9, <1>10, <1>11, <1>12, <1>13, <1>15, <1>16 DEF IInv

\* The finalizer of a proxy: the last one starts the deletion.
LEMMA FinalizerInv ==
  ASSUME IInv, NEW t \in Thread, NEW x \in State, NEW p \in proxies, deep_userdata_gc(t, x, p)
  PROVE  IInv'
  <1>d. PICK d : d = p.deep
    OBVIOUS
  <1>0. TypeOK /\ ProxiesOK /\ RefcountExact
    BY DEF IInv
  <1>1. /\ p \notin cached /\ proxies' = proxies \ {p}
        /\ refcount' = [refcount EXCEPT ![d] = @ - 1]
        /\ IF Last(d) THEN Call(t, "delete", d, None, x, "acquire") ELSE UNCHANGED frames
        /\ UNCHANGED <<live, cached, holds, stored, phase, keepers>>
    BY <1>d DEF deep_userdata_gc
  <1>2. d \in Linda /\ d \in live /\ p \in Of(d) /\ IsFiniteSet(Of(d))
        /\ \A u \in Thread : \A i \in Nat : ~Deletes(u, i, d)
    BY <1>d, <1>0, InUse DEF ProxiesOK
  <1>3. /\ Of(d)' = Of(d) \ {p} /\ \A c : c # d => Of(c)' = Of(c)
        /\ \A c : UniverseRef(c)' = UniverseRef(c)
        /\ \A y : In(y)' \subseteq In(y)
        /\ \A y, c : CachedAt(y, c)' <=> CachedAt(y, c)
    BY <1>1, <1>d DEF Of, In, UniverseRef, CachedAt
  <1>4. /\ IsFiniteSet(Of(d)') /\ Cardinality(Of(d)') = Cardinality(Of(d)) - 1
        /\ Cardinality(Of(d)') \in Nat /\ Cardinality(Of(d)) \in Nat
    BY <1>2, <1>3, FS_RemoveElement, FS_CardinalityType
  <1>5. refcount[d] = Cardinality(Of(d)) + UniverseRef(d) /\ UniverseRef(d) \in {0, 1}
    BY <1>0, <1>2 DEF RefcountExact, UniverseRef
  <1>6. /\ refcount' \in [Linda -> Nat] /\ refcount'[d] = Cardinality(Of(d)') + UniverseRef(d)
        /\ \A c \in Linda : c # d => refcount'[c] = refcount[c]
    BY <1>0, <1>1, <1>2, <1>4, <1>5 DEF TypeOK
  <1>7. \/ Last(d) /\ Of(d)' = {} /\ UniverseRef(d) = 0
        \/ ~Last(d) /\ (Of(d)' # {} \/ UniverseRef(d) = 1)
    <2>1. Of(d)' = {} <=> Cardinality(Of(d)') = 0
      BY <1>4, FS_EmptySet
    <2> QED BY <2>1, <1>4, <1>5 DEF Last
  <1>8. \A y, c : CachedAt(y, c) => Of(c)' # {}
    <2> SUFFICES ASSUME NEW y, NEW c, CachedAt(y, c) PROVE Of(c)' # {}
      OBVIOUS
    <2>1. PICK q \in cached : q.at = y /\ q.deep = c
      BY DEF CachedAt
    <2> QED BY <2>1, <1>0, <1>1 DEF Of, TypeOK
  <1>9. PICK n \in Nat :
          /\ frames' \in [Thread -> Seq(Frame)] /\ OnlyCall(t, n) /\ n \notin DOMAIN frames[t]
          /\ Last(d) => /\ n \in DOMAIN frames'[t] /\ frames'[t][n].f = "delete"
                        /\ frames'[t][n].d = d /\ frames'[t][n].pc = "acquire"
          /\ ~Last(d) => n \notin DOMAIN frames'[t]
    <2>1. CASE Last(d)
      <3>1. [f |-> "delete", d |-> d, e |-> None, at |-> x, pc |-> "acquire"] \in Frame
        BY <1>2 DEF Frame
      <3>2. Call(t, "delete", d, None, x, "acquire")
        BY <1>1, <2>1
      <3> QED BY <3>1, <3>2, <2>1, <1>0, CallFrames
    <2>2. CASE ~Last(d)
      <3>1. frames' = frames
        BY <1>1, <2>2
      <3> QED BY <3>1, <2>2, <1>0, FramesUnchanged DEF TypeOK
    <2> QED BY <2>1, <2>2
  <1>10. \A u \in Thread : \A i \in Nat : \A c :
          Deletes(u, i, c)' <=> (Deletes(u, i, c) \/ (Last(d) /\ u = t /\ i = n /\ c = d))
    <2> SUFFICES ASSUME NEW u \in Thread, NEW i \in Nat, NEW c
                 PROVE  Deletes(u, i, c)' <=> (Deletes(u, i, c) \/ (Last(d) /\ u = t /\ i = n /\ c = d))
      OBVIOUS
    <2>1. CASE u = t /\ i = n
      BY <2>1, <1>9 DEF Deletes
    <2>2. CASE u # t \/ i # n
      BY <2>2, <1>9 DEF OnlyCall, Same, Deletes
    <2> QED BY <2>1, <2>2
  <1>11. TypeOK'
    <2>1. cached' \subseteq proxies' /\ proxies' \subseteq Proxy
      BY <1>0, <1>1 DEF TypeOK
    <2> QED BY <2>1, <1>0, <1>1, <1>6, <1>9 DEF TypeOK
  <1>12. ProxiesOK'
    BY <1>0, <1>1, <1>3, <1>4 DEF ProxiesOK
  <1>13. RefcountExact'
    BY <1>0, <1>1, <1>3, <1>6 DEF RefcountExact, TypeOK
  <1>14. RootsCached'
    BY <1>1, <1>3 DEF IInv, RootsCached
  <1>15. CallsOK'
    <2> SUFFICES ASSUME NEW u \in Thread, NEW i \in DOMAIN frames'[u]
                 PROVE  IF frames'[u][i].f = "delete" THEN DeleteOK(u, i)' ELSE MoveOK(u, i)'
      BY DEF CallsOK
    <2>1. CASE u = t /\ i = n
      <3>1. Last(d) /\ frames'[u][i].f = "delete" /\ frames'[u][i].d = d /\ frames'[u][i].pc = "acquire"
        BY <2>1, <1>9
      <3>2. Of(d)' = {} /\ UniverseRef(d)' = 0 /\ d \in live'
        BY <3>1, <1>1, <1>2, <1>3, <1>7
      <3> QED BY <3>1, <3>2 DEF DeleteOK
    <2>2. CASE u # t \/ i # n
      <3>1. Same(u, i) /\ i \in Nat
        BY <2>2, <1>0, <1>9, FrameType DEF OnlyCall, Same
      <3>2. CASE frames[u][i].f = "delete"
        <4>1. DeleteOK(u, i) /\ Deletes(u, i, frames[u][i].d)
          BY <3>1, <3>2 DEF IInv, CallsOK, Same, Deletes
        <4>2. frames[u][i].d # d
          BY <4>1, <3>1, <1>2
        <4> QED BY <4>1, <4>2, <3>1, <3>2, <1>1, <1>3 DEF DeleteOK, Same
      <3>3. CASE frames[u][i].f # "delete"
        <4>1. MoveOK(u, i)
          BY <3>1, <3>3 DEF IInv, CallsOK, Same
        <4> QED BY <4>1, <3>1, <3>3, <1>1, <1>3 DEF MoveOK, Same
      <3> QED BY <3>2, <3>3
    <2> QED BY <2>1, <2>2
  <1>16. DeletedOnce'
    <2>1. \A c \in Linda, u, v \in Thread : \A i, j \in Nat :
            Deletes(u, i, c)' /\ Deletes(v, j, c)' => u = v /\ i = j
      BY <1>2, <1>10 DEF IInv, DeletedOnce
    <2>2. ASSUME NEW c \in live'
          PROVE  \/ Of(c)' # {} \/ UniverseRef(c)' = 1
                 \/ \E u \in Thread : \E i \in Nat : Deletes(u, i, c)'
      <3>1. c \in live
        BY <1>1
      <3>2. CASE c = d
        BY <3>2, <1>3, <1>7, <1>10
      <3>3. CASE c # d
        BY <3>1, <3>3, <1>3, <1>10 DEF IInv, DeletedOnce
      <3> QED BY <3>2, <3>3
    <2> QED BY <2>1, <2>2 DEF DeletedOnce
  <1>17. FreshEmpty'
    BY <1>1 DEF IInv, FreshEmpty
  <1>18. phase[t] \notin {"none", "closed", "done", "end"} /\ keepers # "freed"
    <2>1. CASE Collects(t, x)
      <3>1. frames[t] # <<>> \/ phase[t] = "run"
        BY <2>1 DEF Collects, Running, At
      <3>2. phase[t] # "done"
        BY <3>1 DEF IInv, PhaseOK
      <3> QED BY <3>1, <3>2, Active
    <2>2. CASE Closes(t, x)
      BY <2>2 DEF Closes, IInv, Shutdown, PhaseOK, TypeOK, Thread
    <2> QED BY <2>1, <2>2 DEF deep_userdata_gc
  <1>19. \A u \in Thread : frames[u] = <<>> => u = t \/ frames'[u] = <<>>
    <2> SUFFICES ASSUME NEW u \in Thread, frames[u] = <<>>, u # t PROVE frames'[u] = <<>>
      OBVIOUS
    <2>1. DOMAIN frames'[u] = {} /\ frames'[u] \in Seq(Frame)
      BY <1>9 DEF OnlyCall, Same
    <2> QED BY <2>1, NoIndex
  <1>20. ASSUME NEW u \in Thread PROVE PhaseOK(u)'
    <2>1. PhaseOK(u) /\ In(u)' \subseteq In(u)
      BY <1>3 DEF IInv
    <2> QED BY <2>1, <1>1, <1>18, <1>19 DEF PhaseOK
  <1>21. Shutdown'
    <2>1. In(Main)' \subseteq In(Main)
      BY <1>3
    <2> QED BY <2>1, <1>1, <1>18 DEF IInv, Shutdown
  <1> QED BY <1>11, <1>12, <1>13, <1>14, <1>15, <1>16, <1>17, <1>20, <1>21 DEF IInv

\* The end of selfdestruct_gc(): the universe had the last reference.
LEMMA TimerGoneInv ==
  ASSUME IInv, TimerGone
  PROVE  IInv'
  <1> DEFINE d == Timer
             t == Main
  <1>0. TypeOK /\ ProxiesOK /\ RefcountExact /\ Main \in Thread /\ d \in Linda /\ Main \in State
    BY Names DEF IInv, Thread, State
  <1>1. /\ phase[Main] = "closing" /\ frames[Main] = <<>> /\ In(Main) = {}
        /\ \A u \in Lane : phase[u] \in {"none", "closed"}
        /\ refcount' = [refcount EXCEPT ![d] = @ - 1]
        /\ Call(Main, "delete", d, None, Main, "acquire")
        /\ phase' = [phase EXCEPT ![Main] = "keepers"]
        /\ UNCHANGED <<live, proxies, cached, holds, stored, keepers>>
    BY DEF TimerGone
  <1>2. UniverseRef(d) = 1 /\ d \in live
    BY <1>0, <1>1 DEF UniverseRef, ProxiesOK
  <1>3. Of(d) = {}
    <2>1. \A u \in Lane : In(u) = {}
      BY <1>1 DEF IInv, PhaseOK, Thread
    <2>2. \A p \in proxies : p.at \in Lane \cup {Main} \cup Keeper
      BY <1>0 DEF TypeOK, Proxy, State, Thread
    <2> QED BY <2>1, <2>2, <1>0, <1>1 DEF In, Of, ProxiesOK
  <1>4. /\ phase' \in [Thread -> {"none", "run", "done", "closing", "closed", "keepers", "end"}]
        /\ phase'[Main] = "keepers" /\ \A u \in Thread : u # Main => phase'[u] = phase[u]
    BY <1>0, <1>1 DEF TypeOK
  <1>5. /\ \A c : Of(c)' = Of(c) /\ UniverseRef(c)' = 0
        /\ \A c : c # d => UniverseRef(c) = 0
        /\ \A y : In(y)' = In(y)
        /\ \A y, c : CachedAt(y, c)' <=> CachedAt(y, c)
    BY <1>1, <1>4 DEF Of, In, UniverseRef, CachedAt
  <1>6. refcount[d] = 1
    BY <1>0, <1>2, <1>3, FS_EmptySet DEF RefcountExact
  <1>7. /\ refcount' \in [Linda -> Nat] /\ refcount'[d] = 0
        /\ \A c \in Linda : c # d => refcount'[c] = refcount[c]
    BY <1>0, <1>1, <1>6 DEF TypeOK
  <1>8. PICK n \in Nat :
          /\ frames' \in [Thread -> Seq(Frame)] /\ OnlyCall(Main, n) /\ n \notin DOMAIN frames[Main]
          /\ n \in DOMAIN frames'[Main] /\ frames'[Main][n].f = "delete"
          /\ frames'[Main][n].d = d /\ frames'[Main][n].pc = "acquire"
    <2>1. [f |-> "delete", d |-> d, e |-> None, at |-> Main, pc |-> "acquire"] \in Frame
      BY <1>0 DEF Frame
    <2> QED BY <2>1, <1>0, <1>1, CallFrames
  <1>9. \A u \in Thread : \A i \in Nat : \A c :
          Deletes(u, i, c)' <=> (Deletes(u, i, c) \/ (u = Main /\ i = n /\ c = d))
    <2> SUFFICES ASSUME NEW u \in Thread, NEW i \in Nat, NEW c
                 PROVE  Deletes(u, i, c)' <=> (Deletes(u, i, c) \/ (u = Main /\ i = n /\ c = d))
      OBVIOUS
    <2>1. CASE u = Main /\ i = n
      BY <2>1, <1>8 DEF Deletes
    <2>2. CASE u # Main \/ i # n
      BY <2>2, <1>8 DEF OnlyCall, Same, Deletes
    <2> QED BY <2>1, <2>2
  <1>10. \A u \in Thread : \A i \in Nat : ~Deletes(u, i, d)
    BY <1>0, <1>2, InUse
  <1>11. TypeOK'
    BY <1>0, <1>1, <1>4, <1>7, <1>8 DEF TypeOK
  <1>12. ProxiesOK'
    BY <1>0, <1>1, <1>5 DEF ProxiesOK
  <1>13. RefcountExact'
    <2> SUFFICES ASSUME NEW c \in live PROVE refcount'[c] = Cardinality(Of(c)') + 0
      BY <1>1, <1>5 DEF RefcountExact
    <2>1. CASE c = d
      <3>1. Cardinality(Of(d)') = 0
        BY <1>3, <1>5, FS_EmptySet
      <3> QED BY <2>1, <3>1, <1>7
    <2>2. CASE c # d
      BY <2>2, <1>0, <1>5, <1>7 DEF RefcountExact, TypeOK
    <2> QED BY <2>1, <2>2
  <1>14. RootsCached'
    BY <1>1, <1>5 DEF IInv, RootsCached
  <1>15. CallsOK'
    <2> SUFFICES ASSUME NEW u \in Thread, NEW i \in DOMAIN frames'[u]
                 PROVE  IF frames'[u][i].f = "delete" THEN DeleteOK(u, i)' ELSE MoveOK(u, i)'
      BY DEF CallsOK
    <2>1. CASE u = Main /\ i = n
      BY <2>1, <1>1, <1>2, <1>3, <1>5, <1>8 DEF DeleteOK
    <2>2. CASE u # Main \/ i # n
      <3>1. Same(u, i) /\ i \in Nat
        BY <2>2, <1>0, <1>8, FrameType DEF OnlyCall, Same
      <3>2. u # Main
        BY <3>1, <1>1 DEF Same
      <3>3. frames[u] # <<>>
        BY <3>1 DEF Same
      <3>4. u \in Lane
        BY <3>2 DEF Thread
      <3> QED BY <3>3, <3>4, <1>1 DEF IInv, PhaseOK
    <2> QED BY <2>1, <2>2
  <1>16. DeletedOnce'
    <2>1. \A c \in Linda, u, v \in Thread : \A i, j \in Nat :
            Deletes(u, i, c)' /\ Deletes(v, j, c)' => u = v /\ i = j
      BY <1>9, <1>10 DEF IInv, DeletedOnce
    <2>2. ASSUME NEW c \in live'
          PROVE  \/ Of(c)' # {} \/ UniverseRef(c)' = 1
                 \/ \E u \in Thread : \E i \in Nat : Deletes(u, i, c)'
      <3>1. c \in live
        BY <1>1
      <3>2. CASE c = d
        BY <3>2, <1>0, <1>9
      <3>3. CASE c # d
        BY <3>1, <3>3, <1>5, <1>9 DEF IInv, DeletedOnce
      <3> QED BY <3>2, <3>3
    <2> QED BY <2>1, <2>2 DEF DeletedOnce
  <1>17. FreshEmpty'
    BY <1>1 DEF IInv, FreshEmpty
  <1>18. \A u \in Thread : frames[u] = <<>> => u = Main \/ frames'[u] = <<>>
    <2> SUFFICES ASSUME NEW u \in Thread, frames[u] = <<>>, u # Main PROVE frames'[u] = <<>>
      OBVIOUS
    <2>1. DOMAIN frames'[u] = {} /\ frames'[u] \in Seq(Frame)
      BY <1>8 DEF OnlyCall, Same
    <2> QED BY <2>1, NoIndex
  <1>19. ASSUME NEW u \in Thread PROVE PhaseOK(u)'
    <2>1. CASE u = Main
      BY <2>1, <1>1, <1>4 DEF IInv, PhaseOK
    <2>2. CASE u # Main
      BY <2>2, <1>1, <1>4, <1>5, <1>18 DEF IInv, PhaseOK
    <2> QED BY <2>1, <2>2
  <1>20. Shutdown'
    <2>1. \A u \in Lane : phase'[u] \in {"none", "closed"}
      BY <1>1, <1>4, Names DEF Thread
    <2>2. keepers = "up"
      BY <1>0, <1>1 DEF IInv, Shutdown, TypeOK
    <2> QED BY <2>1, <2>2, <1>1, <1>4, <1>5 DEF Shutdown
  <1> QED BY <1>11, <1>12, <1>13, <1>14, <1>15, <1>16, <1>17, <1>19, <1>20 DEF IInv

-------------------------------------------------------------------------------
(* The theorems. *)

\* The universe of lanes.configure(): the timer linda, counted twice.
LEMMA InitInv == Init => IInv
  <1> SUFFICES ASSUME Init PROVE IInv
    OBVIOUS
  <1> DEFINE p0 == [at |-> Main, deep |-> Timer, n |-> 1]
  <1>0. Main \in Thread /\ Main \in State /\ Timer \in Linda /\ Main \notin Lane /\ Main \notin Keeper
    BY Names DEF Thread, State
  <1>1. p0 \in Proxy /\ p0.at = Main /\ p0.deep = Timer /\ proxies = {p0} /\ cached = {p0}
    <2>1. 1 \in 1 .. MaxPending + 1
      BY Bound
    <2> QED BY <2>1, <1>0 DEF Init, Proxy
  <1> HIDE DEF p0
  <1>2. /\ live = {Timer} /\ refcount = [d \in Linda |-> IF d = Timer THEN 2 ELSE 0]
        /\ holds = [t \in Thread |-> IF t = Main THEN {Timer} ELSE {}]
        /\ stored = [d \in Linda |-> {}] /\ frames = [t \in Thread |-> <<>>]
        /\ phase = [t \in Thread |-> IF t = Main THEN "run" ELSE "none"] /\ keepers = "up"
    BY DEF Init
  <1>3. TypeOK
    BY <1>0, <1>1, <1>2 DEF TypeOK
  <1>4. /\ Of(Timer) = {p0} /\ \A d : d # Timer => Of(d) = {}
        /\ UniverseRef(Timer) = 1 /\ \A d : d # Timer => UniverseRef(d) = 0
        /\ \A u \in Lane : In(u) = {}
    BY <1>0, <1>1, <1>2 DEF Of, UniverseRef, In
  <1>5. ProxiesOK
    <2>1. \A d \in Linda : IsFiniteSet(Of(d))
      <3>1. IsFiniteSet({}) /\ IsFiniteSet({p0})
        BY FS_EmptySet, FS_Singleton
      <3>2. \A d \in Linda : Of(d) = {} \/ Of(d) = {p0}
        BY <1>4
      <3> QED BY <3>1, <3>2
    <2>2. \A p \in proxies : p.at = Main /\ p.deep = Timer
      BY <1>1
    <2> QED BY <2>1, <2>2, <1>0, <1>2 DEF ProxiesOK
  <1>6. RefcountExact
    <2>1. Cardinality(Of(Timer)) = 1
      BY <1>4, FS_Singleton
    <2>2. \A d \in live : d = Timer
      BY <1>2
    <2>3. refcount[Timer] = 2
      BY <1>0, <1>2
    <2> QED BY <2>1, <2>2, <2>3, <1>4 DEF RefcountExact
  <1>7. RootsCached
    BY <1>0, <1>1, <1>2 DEF RootsCached, CachedAt
  <1>8. \A t \in Thread : frames[t] = <<>> /\ DOMAIN frames[t] = {}
    BY <1>2
  <1>9. CallsOK /\ DeletedOnce
    BY <1>2, <1>4, <1>8 DEF CallsOK, DeletedOnce, Deletes
  <1>10. FreshEmpty
    BY <1>2 DEF FreshEmpty
  <1>11. ASSUME NEW t \in Thread PROVE PhaseOK(t)
    BY <1>0, <1>1, <1>2, <1>4, <1>8 DEF PhaseOK, Thread
  <1>12. Shutdown
    BY <1>0, <1>2 DEF Shutdown
  <1> QED BY <1>3, <1>5, <1>6, <1>7, <1>9, <1>10, <1>11, <1>12 DEF IInv

\* Every step keeps the invariant.
LEMMA NextInv == IInv /\ [Next]_vars => IInv'
  <1> SUFFICES ASSUME IInv, [Next]_vars PROVE IInv'
    OBVIOUS
  <1>1. ASSUME NEW t \in Thread, Program(t) PROVE IInv'
    BY <1>1, NewInv, DropInv, BeginInv, LaneNewInv, JoinMoveInv DEF Program
  <1>2. ASSUME NEW t \in Thread, Step(t) PROVE IInv'
    BY <1>2, AcquireInv, NoKeeperInv, ClearInv, FreeInv, SendCopyInv, SendPushInv,
       ReceiveMoveInv, ReceiveNothingInv, ReceivePopInv, SetInv DEF Step
  <1>3. ASSUME NEW t \in Thread, Collector(t) PROVE IInv'
    BY <1>3, SeparateInv, FinalizerInv DEF Collector
  <1>4. ASSUME NEW u \in Lane, EndBody(u) \/ Close(u) \/ Closed(u) PROVE IInv'
    BY <1>4, EndBodyInv, CloseInv, ClosedInv
  <1>5. CASE MainClose \/ TimerGone \/ close_keepers \/ KeepersClosed
    BY <1>5, MainCloseInv, TimerGoneInv, CloseKeepersInv, KeepersClosedInv
  <1>6. CASE UNCHANGED vars
    <2>1. UNCHANGED <<live, refcount, proxies, cached, holds, stored, frames, phase, keepers>>
      BY <1>6 DEF vars
    <2>2. /\ \A d : Of(d)' = Of(d) /\ UniverseRef(d)' = UniverseRef(d)
          /\ \A x : In(x)' = In(x) /\ \A y, d : CachedAt(y, d)' <=> CachedAt(y, d)
      BY <2>1 DEF Of, UniverseRef, In, CachedAt
    <2>3. TypeOK'
      BY <2>1 DEF IInv, TypeOK
    <2>4. RootsCached' /\ Shutdown' /\ \A t \in Thread : PhaseOK(t)'
      BY <2>1, <2>2 DEF IInv, RootsCached, Shutdown, PhaseOK
    <2>5. \A t \in Thread : \A i \in DOMAIN frames[t] : MoveOK(t, i) => MoveOK(t, i)'
      BY <2>1, <2>2 DEF MoveOK
    <2> QED BY <2>1, <2>2, <2>3, <2>4, <2>5, Forget
  <1> QED BY <1>1, <1>2, <1>3, <1>4, <1>5, <1>6 DEF Next

\* The inductive invariant holds in every state of every behaviour.
THEOREM Invariance == Spec => []IInv
  <1>1. Init => IInv
    BY InitInv
  <1>2. IInv /\ [Next]_vars => IInv'
    BY NextInv
  <1> QED BY <1>1, <1>2, PTL DEF Spec

\* Every variable keeps its type; no reference count becomes negative,
\* whatever order the finalizers of the proxies run in.
THEOREM TypeCorrect == Spec => []TypeOK
  <1>1. IInv => TypeOK
    BY DEF IInv
  <1> QED BY <1>1, Invariance, PTL

\* The count of a linda is the number of its proxies, plus the reference of
\* the universe for the timer linda: deep_userdata_gc() and push_deep_proxy()
\* of different states never get out of step.
THEOREM CountsExact == Spec => []RefcountExact
  <1>1. IInv => RefcountExact
    BY DEF IInv
  <1> QED BY <1>1, Invariance, PTL

\* No proxy, variable, fifo or call refers to a linda that has been freed or is
\* being deleted: the last finalizer really is the last reference.
THEOREM NoPointerStale == Spec => []NoStalePointer
  <1>1. IInv => NoStalePointer
    <2> SUFFICES ASSUME IInv PROVE NoStalePointer
      OBVIOUS
    <2>0. TypeOK
      BY DEF IInv
    <2>1. ASSUME NEW d \in Linda, Of(d) # {} PROVE Deleting(d) = {}
      <3>1. \A t \in Thread : \A i \in DOMAIN frames[t] : i \in Nat
        BY <2>0, FrameType
      <3> QED BY <2>1, <3>1, InUse DEF Deleting, Deletes
    <2>2. \A p \in proxies : p.deep \in live /\ Deleting(p.deep) = {}
      BY <2>1, InUse
    <2>3. \A t \in Thread : \A d \in holds[t] : d \in live /\ Deleting(d) = {}
      BY <2>0, <2>1, InUse DEF TypeOK
    <2>4. \A c \in Linda : \A d \in stored[c] : d \in live /\ Deleting(d) = {}
      BY <2>0, <2>1, InUse DEF TypeOK
    <2>5. \A t \in Thread : \A i \in DOMAIN frames[t] : frames[t][i].d \in live
      BY InUse DEF IInv, CallsOK, DeleteOK, MoveOK
    <2> QED BY <2>2, <2>3, <2>4, <2>5 DEF NoStalePointer
  <1> QED BY <1>1, Invariance, PTL

\* keepercall_clear() has emptied the fifos of a linda before its address can
\* be used again.
THEOREM NewIsEmpty == Spec => []FreshEmpty
  <1>1. IInv => FreshEmpty
    BY DEF IInv
  <1> QED BY <1>1, Invariance, PTL

\* A linda that is alive has a proxy, or exactly one thread is deleting it; and
\* when close_keepers() is over nothing is left, of what was stored in lindas
\* that were stored in one another either.
THEOREM NoLindaLeaked == Spec => []NoneLeaked
  <1>1. IInv => NoneLeaked
    <2> SUFFICES ASSUME IInv PROVE NoneLeaked
      OBVIOUS
    <2>1. ASSUME NEW d \in live, Of(d) = {}, UniverseRef(d) # 1
          PROVE  Cardinality(Deleting(d)) = 1
      <3>1. PICK t \in Thread, i \in Nat : Deletes(t, i, d)
        BY <2>1 DEF IInv, DeletedOnce
      <3>2. \A u \in Thread : \A j \in DOMAIN frames[u] : j \in Nat
        BY FrameType DEF IInv
      <3>3. d \in Linda
        BY DEF IInv, TypeOK
      <3>4. Deleting(d) = {t}
        BY <3>1, <3>2, <3>3 DEF IInv, DeletedOnce, Deletes, Deleting
      <3> QED BY <3>4, FS_Singleton
    <2>2. keepers = "freed" => live = {} /\ proxies = {}
      BY DEF IInv, Shutdown
    <2> QED BY <2>1, <2>2 DEF NoneLeaked
  <1> QED BY <1>1, Invariance, PTL
===============================================================================

------------------------ MODULE CommandQueueProofs --------------------------
(***************************************************************************)
(* The queues of the stages, the entries of the entities and the flushes   *)
(* under way fit together, for any number of stages, entities, ids and     *)
(* calls, whatever the calls are and whatever the observers do: the        *)
(* theorems of CommandQueue, from the inductive invariant IndInv.          *)
(*                                                                         *)
(* A step of a flush changes the world several times, so its proof goes    *)
(* through the worlds in between: Queued and Beside say what an operation  *)
(* and its observers may change, ReadyFor that the flush may go on, and    *)
(* Sound that nothing is left to repair.  Folds are reasoned about with    *)
(* the module Induction, one instance per fold.                            *)
(***************************************************************************)
EXTENDS CommandQueue, SequenceTheorems, FiniteSetTheorems, TLAPS

Kinds == Operations \union {"AddModified", "Skip"}

Command == [op : Operations, e : Indices \X Nat, id : Ids \union {NoId}, val : Nat,
            kind : Kinds, next : Int, entry : BOOLEAN, done : BOOLEAN]

Entry == [first : Int, last : Int]

StageType == [defer : Int, cmd_flushing : BOOLEAN, cmd : 0 .. 1,
              queue : [0 .. 1 -> Seq(Command)],
              entries : [0 .. 1 -> [Indices -> Entry]]]

FrameType == [stage : Stages \union {Now}, call : Command \union {<<>>}, i : Nat \ {0},
              phase : {"read", "copy", "exec", "move"}, added : Seq(Ids \union {NoId})]

(***************************************************************************)
(* The queue that a stage fills: n commands q with the entries en.         *)
(***************************************************************************)
Batched(c) == c.op # "Modified"

\* The commands that are chained for the handle e.
Same(q, n, e) == {j \in 1 .. n : Batched(q[j]) /\ q[j].e = e}

\* The entry of index x spans the chain of the last handle with that index.
EntryOK(q, n, en, x) ==
    IF en.first = -1 THEN \A j \in 1 .. n : Batched(q[j]) => q[j].e[1] # x
    ELSE /\ en.last \in 1 .. n /\ q[en.last].e[1] = x
         /\ en.last \in Same(q, n, q[en.last].e)
         /\ en.first \in Same(q, n, q[en.last].e)
         /\ q[en.first].entry
         /\ \A j \in Same(q, n, q[en.last].e) : en.first <= j /\ j <= en.last
         /\ \A j \in 1 .. n : Batched(q[j]) /\ q[j].e[1] = x => q[j].e[2] <= q[en.last].e[2]

Linked(q, n, j) ==
    /\ (\A k \in Same(q, n, q[j].e) : k <= j) => q[j].next = 0
    /\ \A k \in Same(q, n, q[j].e) :
          /\ j < k /\ \A i \in Same(q, n, q[j].e) : i <= j \/ k <= i
          => q[j].next = IF \A i \in Same(q, n, q[j].e) : j <= i THEN - k ELSE k

Chains(q, n, en, gen) ==
    /\ \A j \in 1 .. n : q[j] \in Command /\ q[j].e[2] <= gen[q[j].e[1]]
    /\ \A x \in Indices : EntryOK(q, n, en[x], x)
    /\ \A j \in 1 .. n : Batched(q[j]) => Linked(q, n, j)

Filled(st) == st.queue[st.cmd]

\* A stage: the other queue holds nothing unless it is being flushed.
StageOK(st, gen) ==
    /\ st \in StageType
    /\ Chains(Filled(st), Len(Filled(st)), st.entries[st.cmd], gen)
    /\ ~ st.cmd_flushing =>
          /\ st.queue[1 - st.cmd] = <<>>
          /\ \A x \in Indices : st.entries[1 - st.cmd][x].first = -1

\* A flush at f: an entry is still set only if the command that clears it is
\* still to come.
ToCome(q, f, x) ==
    \E j \in 1 .. Len(q) :
        q[j].entry /\ q[j].e[1] = x /\ f.i <= j /\ (f.phase = "move" => f.i < j)

FlushAt(st, f) ==
    /\ st.cmd_flushing
    /\ f.i <= Len(st.queue[1 - st.cmd]) + 1
    /\ \A x \in Indices :
          st.entries[1 - st.cmd][x].first # -1 => ToCome(st.queue[1 - st.cmd], f, x)

FramesOK(fr, ss) ==
    /\ fr \in Seq(FrameType)
    /\ \A k \in DOMAIN fr :
          IF fr[k].stage = Now THEN fr[k].call \in Command
          ELSE FlushAt(ss[fr[k].stage], fr[k])
    /\ \A k, l \in DOMAIN fr : fr[k].stage = fr[l].stage /\ fr[k].stage # Now => k = l
    /\ \A s \in Stages : ss[s].cmd_flushing => \E k \in DOMAIN fr : fr[k].stage = s

\* A world with these parts.
Parts(ss, st, fr, n, cd, old) ==
    [stages |-> ss, store |-> st, frames |-> fr, calls |-> n, called |-> cd, stale_set |-> old]

IsStore(s) ==
    s = [live |-> s.live, gen |-> s.gen, val |-> s.val] /\ s.gen \in [Indices -> Nat]

IsWorld(w) ==
    /\ w = Parts(w.stages, w.store, w.frames, w.calls, w.called, w.stale_set)
    /\ w.stages \in [Stages -> StageType] /\ IsStore(w.store) /\ w.calls \in Nat

\* All that holds in the middle of a step ...
StagesOK(w) == \A s \in Stages : StageOK(w.stages[s], w.store.gen)

\* ... and between steps: what is not deferred has been flushed.
Drained(st) == st.defer = 0 /\ ~ st.cmd_flushing => Filled(st) = <<>>

IndInv ==
    /\ IsWorld(World) /\ StagesOK(World) /\ FramesOK(frames, stages)
    /\ \A s \in Stages : Drained(stages[s])
    /\ merging \in SUBSET Stages
-----------------------------------------------------------------------------
(***************************************************************************)
(* Chains.                                                                 *)
(***************************************************************************)

\* The queue q2 is q with one command more, and with the link of the command at
\* `at` set (0: no link is).
Extends(q, n, q2, c, at, link) ==
    /\ \A i \in 1 .. n :
          /\ q2[i] \in Command /\ q2[i].e = q[i].e /\ q2[i].op = q[i].op
          /\ q2[i].entry = q[i].entry
          /\ q2[i].next = IF i = at THEN link ELSE q[i].next
    /\ q2[n + 1] \in Command /\ q2[n + 1] = c

\* The commands of a handle in the longer queue.
LEMMA SameExtended ==
    ASSUME NEW q, NEW n \in Nat, NEW q2, NEW c, NEW at, NEW link,
           Extends(q, n, q2, c, at, link), NEW e
    PROVE  /\ Batched(c) /\ c.e = e => Same(q2, n + 1, e) = Same(q, n, e) \union {n + 1}
           /\ ~ (Batched(c) /\ c.e = e) => Same(q2, n + 1, e) = Same(q, n, e)
<1>1. 1 .. n + 1 = 1 .. n \union {n + 1}
  OBVIOUS
<1>2. \A i \in 1 .. n : q2[i].e = q[i].e /\ (Batched(q2[i]) <=> Batched(q[i]))
  BY DEF Extends, Batched
<1>3. q2[n + 1] = c
  BY DEF Extends
<1> QED  BY <1>1, <1>2, <1>3 DEF Same

\* A link stays right if the chain and the link stay the same.
LEMMA LinkedStays ==
    ASSUME NEW q, NEW n, NEW q2, NEW m, NEW j, Linked(q, n, j),
           Same(q2, m, q2[j].e) = Same(q, n, q[j].e), q2[j].next = q[j].next
    PROVE  Linked(q2, m, j)
BY DEF Linked

\* The new command is the last one of its chain.
LEMMA LastLinked ==
    ASSUME NEW q2, NEW m \in Nat, q2[m].next = 0
    PROVE  Linked(q2, m, m)
<1>1. \A k \in Same(q2, m, q2[m].e) : k <= m /\ k \in 1 .. m
  BY DEF Same
<1> QED  BY <1>1 DEF Linked

\* A command that is not batched changes no chain.
LEMMA ChainsPlain ==
    ASSUME NEW q, NEW n \in Nat, NEW en, NEW gen, Chains(q, n, en, gen),
           NEW q2, NEW c, Extends(q, n, q2, c, 0, 0), ~ Batched(c), c.e[2] <= gen[c.e[1]]
    PROVE  Chains(q2, n + 1, en, gen)
<1>1. 1 .. n + 1 = 1 .. n \union {n + 1} /\ 0 \notin 1 .. n
  OBVIOUS
<1>2. \A i \in 1 .. n : /\ q2[i] \in Command /\ q2[i].e = q[i].e /\ q2[i].op = q[i].op
                        /\ q2[i].entry = q[i].entry /\ q2[i].next = q[i].next
  BY <1>1 DEF Extends
<1>3. q2[n + 1] = c /\ q2[n + 1] \in Command
  BY DEF Extends
<1>4. \A e : Same(q2, n + 1, e) = Same(q, n, e)
  BY SameExtended
<1>5. \A j \in 1 .. n + 1 : q2[j] \in Command /\ q2[j].e[2] <= gen[q2[j].e[1]]
  BY <1>1, <1>2, <1>3 DEF Chains
<1>6. ASSUME NEW x \in Indices PROVE EntryOK(q2, n + 1, en[x], x)
  <2>1. EntryOK(q, n, en[x], x)
    BY DEF Chains
  <2>2. CASE en[x].first = -1
    BY <1>1, <1>2, <1>3, <2>1, <2>2 DEF EntryOK, Batched
  <2>3. CASE en[x].first # -1
    <3> DEFINE l == en[x].last
               f == en[x].first
    <3>1. /\ l \in 1 .. n /\ q[l].e[1] = x /\ l \in Same(q, n, q[l].e) /\ f \in Same(q, n, q[l].e)
          /\ q[f].entry /\ f \in 1 .. n
          /\ \A j \in Same(q, n, q[l].e) : f <= j /\ j <= l
          /\ \A j \in 1 .. n : Batched(q[j]) /\ q[j].e[1] = x => q[j].e[2] <= q[l].e[2]
      BY <2>1, <2>3 DEF EntryOK, Same
    <3>2. l \in 1 .. n + 1 /\ q2[l].e = q[l].e /\ q2[f].entry
      BY <1>1, <1>2, <3>1
    <3>3. \A j \in 1 .. n + 1 : Batched(q2[j]) /\ q2[j].e[1] = x => q2[j].e[2] <= q2[l].e[2]
      BY <1>1, <1>2, <1>3, <3>1 DEF Batched
    <3> HIDE DEF l, f
    <3>4. /\ q2[l].e[1] = x /\ l \in Same(q2, n + 1, q2[l].e) /\ f \in Same(q2, n + 1, q2[l].e)
          /\ \A j \in Same(q2, n + 1, q2[l].e) : f <= j /\ j <= l
      <4>1. Same(q2, n + 1, q2[l].e) = Same(q, n, q[l].e)
        BY <1>4, <3>2
      <4> QED  BY <3>1, <3>2, <4>1
    <3> QED  BY <2>3, <3>2, <3>3, <3>4 DEF EntryOK, l, f
  <2> QED  BY <2>2, <2>3
<1>7. ASSUME NEW j \in 1 .. n + 1, Batched(q2[j]) PROVE Linked(q2, n + 1, j)
  <2>1. j \in 1 .. n /\ Batched(q[j])
    BY <1>1, <1>2, <1>3, <1>7 DEF Batched
  <2>2. Linked(q, n, j)
    BY <2>1 DEF Chains
  <2> QED  BY <1>2, <1>4, <2>1, <2>2, LinkedStays
<1> QED  BY <1>5, <1>6, <1>7 DEF Chains

\* What a batched command does to the entry of its index x: a new chain ...
Fresh(q, n, en, e) == ~ (en.first # -1 /\ q[en.last].e = e)

\* A command that starts a chain is the first one of its handle in the queue.
LEMMA FreshIsNew ==
    ASSUME NEW q, NEW n \in Nat, NEW en, NEW gen, Chains(q, n, en, gen),
           NEW e \in Indices \X Nat, e[2] = gen[e[1]], Fresh(q, n, en[e[1]], e)
    PROVE  Same(q, n, e) = {}
<1> SUFFICES ASSUME NEW j \in Same(q, n, e) PROVE FALSE
  OBVIOUS
<1>1. j \in 1 .. n /\ Batched(q[j]) /\ q[j].e = e /\ e[1] \in Indices
  BY DEF Same
<1> DEFINE x == e[1]
           l == en[x].last
<1>2. EntryOK(q, n, en[x], x)
  BY <1>1 DEF Chains
<1>3. en[x].first # -1
  BY <1>1, <1>2 DEF EntryOK
<1>4. l \in 1 .. n /\ q[l].e[1] = x /\ e[2] <= q[l].e[2]
  BY <1>1, <1>2, <1>3 DEF EntryOK
<1>5. q[l] \in Command /\ q[l].e[2] <= gen[q[l].e[1]]
  BY <1>4 DEF Chains
<1>6. q[l].e \in Indices \X Nat
  BY <1>5 DEF Command
<1>7. q[l].e[2] <= e[2]
  BY <1>4, <1>5
<1>8. q[l].e[2] = e[2]
  BY <1>4, <1>6, <1>7
<1>9. q[l].e = e
  BY <1>4, <1>6, <1>8
<1> QED  BY <1>3, <1>9 DEF Fresh

\* ... begins with the command.
StartsChain(q, n, en, gen, q2, c, en2) ==
    /\ n \in Nat /\ Chains(q, n, en, gen) /\ Extends(q, n, q2, c, 0, 0)
    /\ Batched(c) /\ c.entry /\ c.next = 0
    /\ c.e[2] = gen[c.e[1]] /\ gen \in [Indices -> Nat] /\ Fresh(q, n, en[c.e[1]], c.e)
    /\ en2[c.e[1]] = [first |-> n + 1, last |-> n + 1]
    /\ \A x \in Indices : x # c.e[1] => en2[x] = en[x]

\* flecs_cmd_new_batched, the branch that starts a chain.
LEMMA ChainsFresh ==
    ASSUME NEW q, NEW n, NEW en, NEW gen, NEW q2, NEW c, NEW en2,
           StartsChain(q, n, en, gen, q2, c, en2)
    PROVE  Chains(q2, n + 1, en2, gen)
<1>0. /\ n \in Nat /\ Chains(q, n, en, gen) /\ Extends(q, n, q2, c, 0, 0)
      /\ Batched(c) /\ c.entry /\ c.next = 0
      /\ c.e[2] = gen[c.e[1]] /\ gen \in [Indices -> Nat] /\ Fresh(q, n, en[c.e[1]], c.e)
      /\ en2[c.e[1]] = [first |-> n + 1, last |-> n + 1]
      /\ \A x \in Indices : x # c.e[1] => en2[x] = en[x]
  BY DEF StartsChain
<1> USE <1>0
<1>1. 1 .. n + 1 = 1 .. n \union {n + 1} /\ 0 \notin 1 .. n
  OBVIOUS
<1>2. \A i \in 1 .. n : /\ q2[i] \in Command /\ q2[i].e = q[i].e /\ q2[i].op = q[i].op
                        /\ q2[i].entry = q[i].entry /\ q2[i].next = q[i].next
  BY <1>1 DEF Extends
<1>3. q2[n + 1] = c /\ q2[n + 1] \in Command /\ c.e \in Indices \X Nat
  BY DEF Extends, Command
<1>4. \A e : /\ c.e = e => Same(q2, n + 1, e) = Same(q, n, e) \union {n + 1}
             /\ c.e # e => Same(q2, n + 1, e) = Same(q, n, e)
  BY SameExtended
<1>5. Same(q, n, c.e) = {}
  BY <1>3, FreshIsNew
<1>6. \A j \in 1 .. n + 1 : q2[j] \in Command /\ q2[j].e[2] <= gen[q2[j].e[1]]
  <2>1. c.e[2] <= gen[c.e[1]]
    BY <1>3
  <2> QED  BY <1>1, <1>2, <1>3, <2>1 DEF Chains
<1>7. ASSUME NEW x \in Indices PROVE EntryOK(q2, n + 1, en2[x], x)
  <2>1. EntryOK(q, n, en[x], x)
    BY DEF Chains
  <2>2. CASE x = c.e[1]
    <3>1. en2[x].first = n + 1 /\ en2[x].last = n + 1 /\ n + 1 # -1 /\ n + 1 \in 1 .. n + 1
      BY <2>2
    <3>2. Same(q2, n + 1, c.e) = {n + 1}
      BY <1>4, <1>5
    <3>3. \A j \in 1 .. n + 1 : Batched(q2[j]) /\ q2[j].e[1] = x => q2[j].e[2] <= c.e[2]
      <4> SUFFICES ASSUME NEW j \in 1 .. n + 1, q2[j].e[1] = x PROVE q2[j].e[2] <= c.e[2]
        OBVIOUS
      <4> QED  BY <1>6, <2>2
    <3>4. n + 1 \in Same(q2, n + 1, c.e) /\ \A j \in Same(q2, n + 1, c.e) : n + 1 <= j /\ j <= n + 1
      BY <3>2
    <3> QED  BY <1>3, <2>2, <3>1, <3>3, <3>4 DEF EntryOK
  <2>3. CASE x # c.e[1] /\ en[x].first = -1
    BY <1>1, <1>2, <1>3, <2>1, <2>3 DEF EntryOK, Batched
  <2>4. CASE x # c.e[1] /\ en[x].first # -1
    <3> DEFINE l == en[x].last
               f == en[x].first
    <3>1. /\ l \in 1 .. n /\ q[l].e[1] = x /\ l \in Same(q, n, q[l].e) /\ f \in Same(q, n, q[l].e)
          /\ q[f].entry /\ f \in 1 .. n
          /\ \A j \in Same(q, n, q[l].e) : f <= j /\ j <= l
          /\ \A j \in 1 .. n : Batched(q[j]) /\ q[j].e[1] = x => q[j].e[2] <= q[l].e[2]
      BY <2>1, <2>4 DEF EntryOK, Same
    <3>2. l \in 1 .. n + 1 /\ q2[l].e = q[l].e /\ q2[f].entry
      BY <1>1, <1>2, <3>1
    <3>3. \A j \in 1 .. n + 1 : Batched(q2[j]) /\ q2[j].e[1] = x => q2[j].e[2] <= q2[l].e[2]
      BY <1>1, <1>2, <1>3, <2>4, <3>1 DEF Batched
    <3>4. q[l].e # c.e /\ en2[x] = en[x]
      BY <2>4, <3>1
    <3> HIDE DEF l, f
    <3>5. /\ q2[l].e[1] = x /\ l \in Same(q2, n + 1, q2[l].e) /\ f \in Same(q2, n + 1, q2[l].e)
          /\ \A j \in Same(q2, n + 1, q2[l].e) : f <= j /\ j <= l
      BY <1>4, <3>1, <3>2, <3>4
    <3> QED  BY <2>4, <3>2, <3>3, <3>4, <3>5 DEF EntryOK, l, f
  <2> QED  BY <2>2, <2>3, <2>4
<1>8. ASSUME NEW j \in 1 .. n + 1, Batched(q2[j]) PROVE Linked(q2, n + 1, j)
  <2>1. CASE j = n + 1
    BY <1>3, <2>1, LastLinked
  <2>2. CASE j # n + 1
    <3>1. j \in 1 .. n /\ Batched(q[j])
      BY <1>1, <1>2, <1>8, <2>2 DEF Batched
    <3>2. Linked(q, n, j) /\ q[j].e # c.e
      BY <1>5, <3>1 DEF Chains, Same
    <3>3. Same(q2, n + 1, q2[j].e) = Same(q, n, q[j].e) /\ q2[j].next = q[j].next
      <4>1. q2[j].e = q[j].e /\ q2[j].next = q[j].next
        BY <1>2, <3>1, <3>2
      <4> DEFINE e == q[j].e
      <4>2. e # c.e
        BY <3>1, <3>2
      <4> HIDE DEF e
      <4>3. Same(q2, n + 1, e) = Same(q, n, e)
        BY <1>4, <4>2
      <4> QED  BY <4>1, <4>3 DEF e
    <3> QED  BY <3>2, <3>3, LinkedStays
  <2> QED  BY <2>1, <2>2
<1> QED  BY <1>6, <1>7, <1>8 DEF Chains

\* A command for the handle of the last chain of its index is linked to it.
ContinuesChain(q, n, en, gen, q2, c, f, l, link, en2) ==
    /\ n \in Nat /\ Chains(q, n, en, gen) /\ Extends(q, n, q2, c, l, link)
    /\ link = IF l = f THEN - (n + 1) ELSE n + 1
    /\ en[c.e[1]].first = f /\ en[c.e[1]].last = l /\ f # -1 /\ q[l].e = c.e
    /\ Batched(c) /\ c.next = 0 /\ c.e[2] <= gen[c.e[1]]
    /\ en2[c.e[1]].first = f /\ en2[c.e[1]].last = n + 1
    /\ \A x \in Indices : x # c.e[1] => en2[x] = en[x]

\* flecs_cmd_new_batched, the branch that continues the chain of the entry.
LEMMA ChainsLinked ==
    ASSUME NEW q, NEW n, NEW en, NEW gen, NEW q2, NEW c, NEW f, NEW l, NEW link, NEW en2,
           ContinuesChain(q, n, en, gen, q2, c, f, l, link, en2)
    PROVE  Chains(q2, n + 1, en2, gen)
<1>0. /\ n \in Nat /\ Chains(q, n, en, gen)
      /\ Extends(q, n, q2, c, l, IF l = f THEN - (n + 1) ELSE n + 1)
      /\ en[c.e[1]].first = f /\ en[c.e[1]].last = l /\ f # -1 /\ q[l].e = c.e
      /\ Batched(c) /\ c.next = 0 /\ c.e[2] <= gen[c.e[1]]
      /\ en2[c.e[1]].first = f /\ en2[c.e[1]].last = n + 1
      /\ \A x \in Indices : x # c.e[1] => en2[x] = en[x]
  BY DEF ContinuesChain
<1> USE <1>0
<1>1. 1 .. n + 1 = 1 .. n \union {n + 1}
  OBVIOUS
<1>2. \A i \in 1 .. n : /\ q2[i] \in Command /\ q2[i].e = q[i].e /\ q2[i].op = q[i].op
                        /\ q2[i].entry = q[i].entry
                        /\ i # l => q2[i].next = q[i].next
  BY DEF Extends
<1>3. q2[n + 1] = c /\ q2[n + 1] \in Command /\ c.e \in Indices \X Nat /\ c.e[1] \in Indices
  BY DEF Extends, Command
<1> DEFINE S == Same(q, n, c.e)
<1>4. \A e : /\ c.e = e => Same(q2, n + 1, e) = Same(q, n, e) \union {n + 1}
             /\ c.e # e => Same(q2, n + 1, e) = Same(q, n, e)
  BY SameExtended
<1>5. /\ l \in 1 .. n /\ l \in S /\ f \in S /\ q[f].entry /\ f \in 1 .. n
      /\ \A j \in S : f <= j /\ j <= l
      /\ \A j \in 1 .. n : Batched(q[j]) /\ q[j].e[1] = c.e[1] => q[j].e[2] <= c.e[2]
  <2>1. EntryOK(q, n, en[c.e[1]], c.e[1])
    BY <1>3 DEF Chains
  <2> QED  BY <2>1 DEF EntryOK, Same
<1>6. S \subseteq 1 .. n
  BY DEF Same
<1>7. q2[l].next = IF l = f THEN - (n + 1) ELSE n + 1
  BY <1>5 DEF Extends
<1>8. \A j \in 1 .. n + 1 : q2[j] \in Command /\ q2[j].e[2] <= gen[q2[j].e[1]]
  BY <1>1, <1>2, <1>3 DEF Chains
<1>9. ASSUME NEW x \in Indices PROVE EntryOK(q2, n + 1, en2[x], x)
  <2>1. EntryOK(q, n, en[x], x)
    BY DEF Chains
  <2>2. CASE x = c.e[1]
    <3>1. en2[x].first = f /\ en2[x].last = n + 1 /\ n + 1 \in 1 .. n + 1
      BY <2>2
    <3>2. Same(q2, n + 1, c.e) = S \union {n + 1}
      BY <1>4
    <3>3. \A j \in 1 .. n + 1 : Batched(q2[j]) /\ q2[j].e[1] = x => q2[j].e[2] <= c.e[2]
      <4>1. c.e[2] <= c.e[2]
        BY <1>3
      <4> QED  BY <1>1, <1>2, <1>3, <1>5, <2>2, <4>1 DEF Batched
    <3> HIDE DEF S
    <3>4. /\ n + 1 \in Same(q2, n + 1, c.e) /\ f \in Same(q2, n + 1, c.e)
          /\ \A j \in Same(q2, n + 1, c.e) : f <= j /\ j <= n + 1
      <4>1. \A j \in S : f <= j /\ j <= n + 1
        <5> SUFFICES ASSUME NEW j \in S PROVE f <= j /\ j <= n + 1
          OBVIOUS
        <5>1. f <= j
          BY <1>5
        <5>2. j \in 1 .. n
          BY <1>6
        <5> QED  BY <5>1, <5>2
      <4>2. f <= n + 1 /\ n + 1 <= n + 1
        BY <1>5
      <4> QED  BY <1>5, <3>2, <4>1, <4>2
    <3>5. q2[f].entry
      BY <1>2, <1>5
    <3> QED  BY <1>3, <2>2, <3>1, <3>3, <3>4, <3>5 DEF EntryOK
  <2>3. CASE x # c.e[1] /\ en[x].first = -1
    BY <1>1, <1>2, <1>3, <2>1, <2>3 DEF EntryOK, Batched
  <2>4. CASE x # c.e[1] /\ en[x].first # -1
    <3> DEFINE p == en[x].last
               g == en[x].first
    <3>1. /\ p \in 1 .. n /\ q[p].e[1] = x /\ p \in Same(q, n, q[p].e) /\ g \in Same(q, n, q[p].e)
          /\ q[g].entry /\ g \in 1 .. n
          /\ \A j \in Same(q, n, q[p].e) : g <= j /\ j <= p
          /\ \A j \in 1 .. n : Batched(q[j]) /\ q[j].e[1] = x => q[j].e[2] <= q[p].e[2]
      BY <2>1, <2>4 DEF EntryOK, Same
    <3>2. p \in 1 .. n + 1 /\ q2[p].e = q[p].e /\ q2[g].entry
      BY <1>1, <1>2, <3>1
    <3>3. \A j \in 1 .. n + 1 : Batched(q2[j]) /\ q2[j].e[1] = x => q2[j].e[2] <= q2[p].e[2]
      BY <1>1, <1>2, <1>3, <2>4, <3>1 DEF Batched
    <3>4. q[p].e # c.e /\ en2[x] = en[x]
      BY <2>4, <3>1
    <3> HIDE DEF p, g
    <3>5. /\ q2[p].e[1] = x /\ p \in Same(q2, n + 1, q2[p].e) /\ g \in Same(q2, n + 1, q2[p].e)
          /\ \A j \in Same(q2, n + 1, q2[p].e) : g <= j /\ j <= p
      BY <1>4, <3>1, <3>2, <3>4
    <3> QED  BY <2>4, <3>2, <3>3, <3>4, <3>5 DEF EntryOK, p, g
  <2> QED  BY <2>2, <2>3, <2>4
<1>10. ASSUME NEW j \in 1 .. n + 1, Batched(q2[j]) PROVE Linked(q2, n + 1, j)
  <2>1. CASE j = n + 1
    BY <1>3, <2>1, LastLinked
  <2>2. CASE j # n + 1 /\ q2[j].e # c.e
    <3>1. j \in 1 .. n /\ Batched(q[j]) /\ q[j].e # c.e
      BY <1>1, <1>2, <1>10, <2>2 DEF Batched
    <3>2. Linked(q, n, j) /\ j # l
      BY <3>1 DEF Chains
    <3>3. Same(q2, n + 1, q2[j].e) = Same(q, n, q[j].e) /\ q2[j].next = q[j].next
      <4>1. q2[j].e = q[j].e /\ q2[j].next = q[j].next
        BY <1>2, <3>1, <3>2
      <4> DEFINE e == q[j].e
      <4>2. e # c.e
        BY <3>1, <3>2
      <4> HIDE DEF e
      <4>3. Same(q2, n + 1, e) = Same(q, n, e)
        BY <1>4, <4>2
      <4> QED  BY <4>1, <4>3 DEF e
    <3> QED  BY <3>2, <3>3, LinkedStays
  <2>3. CASE j # n + 1 /\ q2[j].e = c.e
    <3>1. j \in 1 .. n /\ Batched(q[j]) /\ q[j].e = c.e
      BY <1>1, <1>2, <1>10, <2>3 DEF Batched
    <3>2. Linked(q, n, j) /\ j \in S
      BY <3>1 DEF Chains, Same
    <3>3. Same(q2, n + 1, q2[j].e) = S \union {n + 1}
      BY <1>4, <2>3
    <3>4. /\ \A k \in S : j < k /\ (\A i \in S : i <= j \/ k <= i)
                => q[j].next = IF \A i \in S : j <= i THEN - k ELSE k
      BY <3>1, <3>2 DEF Linked
    <3> HIDE DEF S
    <3>5. \A i \in S : i \in 1 .. n
      BY <1>6
    <3>6. (\A i \in S \union {n + 1} : j <= i) <=> (\A i \in S : j <= i)
      BY <3>1
    <3>7. ~ (\A k \in S \union {n + 1} : k <= j)
      BY <3>1
    <3>8. ASSUME NEW k \in S \union {n + 1}, j < k,
                 \A i \in S \union {n + 1} : i <= j \/ k <= i
          PROVE  q2[j].next = IF \A i \in S \union {n + 1} : j <= i THEN - k ELSE k
      <4>1. CASE j = l
        <5>1. k = n + 1
          BY <1>5, <3>5, <3>8, <4>1
        <5>2. (\A i \in S : l <= i) <=> l = f
          BY <1>5, <3>5
        <5> QED  BY <1>7, <3>6, <4>1, <5>1, <5>2
      <4>2. CASE j # l
        <5>1. j < l /\ l \in 1 .. n
          BY <1>5, <3>2, <3>5, <4>2
        <5>2. k # n + 1
          BY <1>5, <3>8, <5>1
        <5>3. k \in S
          BY <5>2
        <5>4. q[j].next = IF \A i \in S : j <= i THEN - k ELSE k
          BY <3>4, <3>8, <5>3
        <5> QED  BY <1>2, <3>1, <3>6, <4>2, <5>4
      <4> QED  BY <4>1, <4>2
    <3> QED  BY <3>3, <3>7, <3>8 DEF Linked
  <2> QED  BY <2>1, <2>2, <2>3
<1> QED  BY <1>8, <1>9, <1>10 DEF Chains

\* Later generations of the indices do not matter.
LEMMA ChainsGrow ==
    ASSUME NEW q, NEW n \in Nat, NEW en, NEW gen \in [Indices -> Nat], Chains(q, n, en, gen),
           NEW new \in [Indices -> Nat], \A x \in Indices : gen[x] <= new[x]
    PROVE  Chains(q, n, en, new)
<1>1. ASSUME NEW j \in 1 .. n PROVE q[j] \in Command /\ q[j].e[2] <= new[q[j].e[1]]
  <2>1. q[j] \in Command /\ q[j].e[2] <= gen[q[j].e[1]]
    BY DEF Chains
  <2>2. q[j].e[1] \in Indices /\ q[j].e[2] \in Nat
    BY <2>1 DEF Command
  <2>3. gen[q[j].e[1]] <= new[q[j].e[1]] /\ gen[q[j].e[1]] \in Nat /\ new[q[j].e[1]] \in Nat
    BY <2>2
  <2> QED  BY <2>1, <2>2, <2>3
<1> QED  BY <1>1 DEF Chains

\* A queue without commands.
LEMMA ChainsEmpty ==
    ASSUME NEW q, NEW en, NEW gen, \A x \in Indices : en[x].first = -1
    PROVE  Chains(q, 0, en, gen)
<1>1. 1 .. 0 = {}
  OBVIOUS
<1> QED  BY <1>1 DEF Chains, EntryOK
-----------------------------------------------------------------------------
(***************************************************************************)
(* Queueing a command on a stage.                                          *)
(***************************************************************************)

\* The queue that is being flushed, and whether it is, are the same.
SameFlush(a, b) ==
    /\ a.defer = b.defer /\ a.cmd_flushing = b.cmd_flushing /\ a.cmd = b.cmd
    /\ a.queue[1 - a.cmd] = b.queue[1 - b.cmd] /\ a.entries[1 - a.cmd] = b.entries[1 - b.cmd]

\* Another queue to fill.
WithFilled(st, q, en) ==
    [st EXCEPT !.queue = [st.queue EXCEPT ![st.cmd] = q],
               !.entries = [st.entries EXCEPT ![st.cmd] = en]]

\* Another content for the queue that a stage fills leaves the other queue alone.
LEMMA StageFilled ==
    ASSUME NEW st \in StageType, NEW q \in Seq(Command), NEW en \in [Indices -> Entry]
    PROVE  /\ WithFilled(st, q, en) \in StageType /\ Filled(WithFilled(st, q, en)) = q
           /\ WithFilled(st, q, en).entries[WithFilled(st, q, en).cmd] = en
           /\ SameFlush(WithFilled(st, q, en), st)
<1> DEFINE r == WithFilled(st, q, en)
<1>1. /\ st.cmd \in 0 .. 1 /\ st.queue \in [0 .. 1 -> Seq(Command)] /\ 1 - st.cmd \in 0 .. 1
      /\ st.entries \in [0 .. 1 -> [Indices -> Entry]] /\ 1 - st.cmd # st.cmd
      /\ st.defer \in Int /\ st.cmd_flushing \in BOOLEAN
  BY DEF StageType
<1> DEFINE rq == [st.queue EXCEPT ![st.cmd] = q]
           re == [st.entries EXCEPT ![st.cmd] = en]
<1>2. rq \in [0 .. 1 -> Seq(Command)] /\ rq[st.cmd] = q /\ rq[1 - st.cmd] = st.queue[1 - st.cmd]
  BY <1>1
<1>3. /\ re \in [0 .. 1 -> [Indices -> Entry]] /\ re[st.cmd] = en
      /\ re[1 - st.cmd] = st.entries[1 - st.cmd]
  BY <1>1
<1> HIDE DEF rq, re
<1>4. r = [st EXCEPT !.queue = rq, !.entries = re]
  BY DEF rq, re, WithFilled
<1> HIDE DEF r
<1>5. /\ r.queue = rq /\ r.entries = re /\ r.cmd = st.cmd /\ r.defer = st.defer
      /\ r.cmd_flushing = st.cmd_flushing
  BY <1>4 DEF StageType
<1>6. r \in StageType
  BY <1>1, <1>2, <1>3, <1>4 DEF StageType
<1>7. Filled(r) = q /\ r.entries[r.cmd] = en /\ SameFlush(r, st)
  BY <1>2, <1>3, <1>5 DEF Filled, SameFlush
<1> QED  BY <1>6, <1>7 DEF r

\* A stage is in order if what it fills is and the rest is as before.
LEMMA StageStays ==
    ASSUME NEW st, NEW gen, StageOK(st, gen), NEW r, r \in StageType, SameFlush(r, st),
           Chains(Filled(r), Len(Filled(r)), r.entries[r.cmd], gen)
    PROVE  StageOK(r, gen)
BY DEF StageOK, SameFlush

\* A command of an entity that is queued.
Queueable(c, gen) ==
    c \in Command /\ c.next = 0 /\ c.e[2] = gen[c.e[1]]

\* flecs_cmd_new.
LEMMA CmdNewKeeps ==
    ASSUME NEW st, NEW gen \in [Indices -> Nat], StageOK(st, gen), NEW c, Queueable(c, gen),
           ~ Batched(c)
    PROVE  StageOK(CmdNew(st, c), gen) /\ SameFlush(CmdNew(st, c), st)
<1> DEFINE q == Filled(st)
           en == st.entries[st.cmd]
           q2 == Append(q, c)
           r == CmdNew(st, c)
<1>1. /\ st \in StageType /\ q \in Seq(Command) /\ en \in [Indices -> Entry]
      /\ Chains(q, Len(q), en, gen) /\ st.cmd \in 0 .. 1
      /\ st.queue \in [0 .. 1 -> Seq(Command)] /\ st.entries \in [0 .. 1 -> [Indices -> Entry]]
  BY DEF StageOK, StageType, Filled
<1>2. c \in Command /\ c.e[2] = gen[c.e[1]] /\ c.e \in Indices \X Nat
  BY DEF Queueable, Command
<1>3. /\ q2 \in Seq(Command) /\ Len(q2) = Len(q) + 1 /\ q2[Len(q) + 1] = c /\ Len(q) \in Nat
      /\ \A i \in 1 .. Len(q) : q2[i] = q[i] /\ q[i] \in Command
  BY <1>1, <1>2, AppendProperties
<1>4. [st.entries EXCEPT ![st.cmd] = en] = st.entries
  BY <1>1
<1>5. r = WithFilled(st, q2, en)
  <2>1. r = [st EXCEPT !.queue = [st.queue EXCEPT ![st.cmd] = q2]]
    BY DEF CmdNew, Filled
  <2>2. st = [st EXCEPT !.entries = st.entries]
    BY <1>1 DEF StageType
  <2> HIDE DEF r, q2, q, en
  <2> QED  BY <1>1, <1>4, <2>1 DEF StageType, WithFilled
<1> HIDE DEF q, en, q2, r
<1>6. r \in StageType /\ Filled(r) = q2 /\ r.entries[r.cmd] = en /\ SameFlush(r, st)
  BY <1>1, <1>3, <1>5, StageFilled
<1> DEFINE n == Len(q)
<1>7. Extends(q, n, q2, c, 0, 0)
  <2>1. \A i \in 1 .. n : i # 0
    BY <1>3
  <2> QED  BY <1>2, <1>3, <2>1 DEF Extends
<1>8. Chains(q2, n + 1, en, gen)
  <2>1. c.e[2] <= gen[c.e[1]]
    BY <1>2
  <2> QED  BY <1>1, <1>3, <1>7, <2>1, ChainsPlain
<1>9. StageOK(r, gen)
  BY <1>3, <1>6, <1>8, StageStays
<1> QED  BY <1>6, <1>9 DEF r

\* flecs_cmd_new_batched.
LEMMA CmdNewBatchedKeeps ==
    ASSUME NEW st, NEW gen \in [Indices -> Nat], StageOK(st, gen), NEW c, Queueable(c, gen),
           Batched(c)
    PROVE  StageOK(CmdNewBatched(st, c), gen) /\ SameFlush(CmdNewBatched(st, c), st)
<1> DEFINE q == Filled(st)
           en == st.entries[st.cmd]
           x == c.e[1]
           n == Len(q)
           f == en[x].first
           l == en[x].last
           r == CmdNewBatched(st, c)
<1>1. /\ st \in StageType /\ q \in Seq(Command) /\ en \in [Indices -> Entry]
      /\ Chains(q, n, en, gen) /\ st.cmd \in 0 .. 1
      /\ st.queue \in [0 .. 1 -> Seq(Command)] /\ st.entries \in [0 .. 1 -> [Indices -> Entry]]
      /\ n \in Nat /\ DOMAIN q = 1 .. n
  BY DEF StageOK, StageType, Filled
<1>2. c \in Command /\ c.next = 0 /\ c.e[2] = gen[c.e[1]] /\ c.e \in Indices \X Nat /\ x \in Indices
  BY DEF Queueable, Command
<1>3. en[x] \in Entry /\ EntryOK(q, n, en[x], x)
  BY <1>1, <1>2 DEF Chains
<1>4. CASE Fresh(q, n, en[x], c.e)
  <2> DEFINE d == [c EXCEPT !.entry = TRUE]
             q2 == Append(q, d)
             en2 == [en EXCEPT ![x] = [first |-> n + 1, last |-> n + 1]]
  <2>1. ~ Chained(q, en[x], c.e)
    BY <1>4 DEF Fresh, Chained
  <2>2. r = [st EXCEPT !.queue[st.cmd] = q2, !.entries[st.cmd][x] = [first |-> n + 1, last |-> n + 1]]
    BY <2>1 DEF CmdNewBatched, Filled
  <2>3. r = WithFilled(st, q2, en2)
    <3> HIDE DEF q2
    <3> QED  BY <1>1, <2>2 DEF StageType, WithFilled
  <2>4. /\ d \in Command /\ d.entry = TRUE /\ d.next = 0 /\ d.e = c.e /\ d.op = c.op
    BY <1>2 DEF Command
  <2> HIDE DEF d, r, q, en, n
  <2>5. /\ q2 \in Seq(Command) /\ Len(q2) = n + 1 /\ q2[n + 1] = d
        /\ \A i \in 1 .. n : q2[i] = q[i] /\ q[i] \in Command
    BY <1>1, <2>4, AppendProperties
  <2>6. en2 \in [Indices -> Entry] /\ en2[x] = [first |-> n + 1, last |-> n + 1]
        /\ \A y \in Indices : y # x => en2[y] = en[y]
    BY <1>1, <1>2 DEF Entry
  <2> HIDE DEF q2, en2
  <2>7. r \in StageType /\ Filled(r) = q2 /\ r.entries[r.cmd] = en2 /\ SameFlush(r, st)
    BY <1>1, <2>3, <2>5, <2>6, StageFilled
  <2>8. Extends(q, n, q2, d, 0, 0)
    <3>1. \A i \in 1 .. n : i # 0
      BY <1>1
    <3> QED  BY <2>4, <2>5, <3>1 DEF Extends
  <2>9. Chains(q2, n + 1, en2, gen)
    <3>1. Batched(d) /\ d.e[2] = gen[d.e[1]] /\ Fresh(q, n, en[d.e[1]], d.e)
      BY <1>2, <1>4, <2>4 DEF Batched
    <3>2. /\ en2[d.e[1]] = [first |-> n + 1, last |-> n + 1]
          /\ \A y \in Indices : y # d.e[1] => en2[y] = en[y]
      BY <2>4, <2>6
    <3>3. StartsChain(q, n, en, gen, q2, d, en2)
      BY <1>1, <2>4, <2>8, <3>1, <3>2 DEF StartsChain
    <3> QED  BY <3>3, ChainsFresh
  <2>10. StageOK(r, gen)
    BY <2>5, <2>7, <2>9, StageStays
  <2> QED  BY <2>7, <2>10 DEF r
<1>5. CASE ~ Fresh(q, n, en[x], c.e)
  <2> DEFINE link == IF l = f THEN - (n + 1) ELSE n + 1
             q1 == [q EXCEPT ![l].next = link]
             q2 == Append(q1, c)
             en2 == [en EXCEPT ![x].last = n + 1]
  <2>1. Chained(q, en[x], c.e) /\ f # -1 /\ q[l].e = c.e
    BY <1>5 DEF Fresh, Chained
  <2>2. r = [st EXCEPT !.queue[st.cmd] = q2, !.entries[st.cmd][x].last = n + 1]
    BY <2>1 DEF CmdNewBatched, Filled, LinkTo
  <2>3. r = WithFilled(st, q2, en2)
    <3> HIDE DEF q2
    <3> QED  BY <1>1, <2>2 DEF StageType, WithFilled
  <2> HIDE DEF r, q, en, n
  <2>4. l \in 1 .. n
    BY <1>3, <2>1 DEF EntryOK
  <2>13. link \in Int
    BY <1>1
  <2> HIDE DEF link, f, l
  <2>5. q[l] \in Command /\ [q[l] EXCEPT !.next = link] \in Command
    <3>1. q[l] \in Command
      BY <1>1, <2>4
    <3> DEFINE d == q[l]
    <3>2. d \in Command
      BY <3>1
    <3> HIDE DEF d
    <3>3. [d EXCEPT !.next = link] \in Command
      BY <2>13, <3>2 DEF Command
    <3> QED  BY <3>1, <3>3 DEF d
  <2>6. /\ q1 \in Seq(Command) /\ Len(q1) = n
        /\ \A i \in 1 .. n : q1[i] = IF i = l THEN [q[l] EXCEPT !.next = link] ELSE q[i]
    <3> DEFINE d == [q[l] EXCEPT !.next = link]
    <3>1. q1 = [q EXCEPT ![l] = d]
      BY <1>1, <2>4
    <3>2. d \in Command /\ l \in 1 .. Len(q)
      BY <2>4, <2>5 DEF n
    <3> HIDE DEF d, q1
    <3>3. /\ q1 \in Seq(Command) /\ Len(q1) = Len(q)
          /\ \A i \in 1 .. Len(q) : q1[i] = IF i = l THEN d ELSE q[i]
      BY <1>1, <3>1, <3>2, ExceptSeq
    <3> QED  BY <3>3 DEF d, n
  <2> HIDE DEF q1
  <2>7. /\ q2 \in Seq(Command) /\ Len(q2) = n + 1 /\ q2[n + 1] = c
        /\ \A i \in 1 .. n : q2[i] = q1[i]
    BY <1>1, <1>2, <2>6, AppendProperties
  <2>8. en2 \in [Indices -> Entry] /\ en2[x].first = f /\ en2[x].last = n + 1
        /\ \A y \in Indices : y # x => en2[y] = en[y]
    <3> DEFINE d == [en[x] EXCEPT !.last = n + 1]
    <3>1. en2 = [en EXCEPT ![x] = d]
      BY <1>1
    <3> DEFINE k == n + 1
               old == en[x]
    <3>2. d \in Entry /\ d.first = f /\ d.last = n + 1
      <4>1. d = [old EXCEPT !.last = k] /\ old \in Entry /\ k \in Int /\ f = old.first
        BY <1>1, <1>3 DEF f
      <4> HIDE DEF d, k, old
      <4>2. d \in Entry /\ d.first = f /\ d.last = k
        BY <4>1 DEF Entry
      <4> QED  BY <4>2 DEF k
    <3> HIDE DEF d, en2
    <3> QED  BY <1>1, <1>2, <3>1, <3>2
  <2> HIDE DEF q2, en2
  <2>9. r \in StageType /\ Filled(r) = q2 /\ r.entries[r.cmd] = en2 /\ SameFlush(r, st)
    BY <1>1, <2>3, <2>7, <2>8, StageFilled
  <2>10. Extends(q, n, q2, c, l, link)
    <3>1. ASSUME NEW i \in 1 .. n
          PROVE  /\ q2[i] \in Command /\ q2[i].e = q[i].e /\ q2[i].op = q[i].op
                 /\ q2[i].entry = q[i].entry
                 /\ q2[i].next = IF i = l THEN link ELSE q[i].next
      <4>1. q2[i] = IF i = l THEN [q[l] EXCEPT !.next = link] ELSE q[i]
        BY <2>6, <2>7
      <4>2. q[i] \in Command
        BY <1>1
      <4>3. CASE i = l
        BY <2>5, <4>1, <4>2, <4>3 DEF Command
      <4>4. CASE i # l
        BY <4>1, <4>2, <4>4
      <4> QED  BY <4>3, <4>4
    <3> QED  BY <1>2, <2>7, <3>1 DEF Extends
  <2>11. Chains(q2, n + 1, en2, gen)
    <3>1. c.e[2] <= gen[c.e[1]]
      BY <1>2
    <3>2. en[x].first = f /\ en[x].last = l
      BY DEF f, l
    <3>3. link = IF l = f THEN - (n + 1) ELSE n + 1
      BY DEF link
    <3>4. ContinuesChain(q, n, en, gen, q2, c, f, l, link, en2)
      BY <1>1, <1>2, <2>1, <2>8, <2>10, <3>1, <3>2, <3>3 DEF ContinuesChain
    <3> QED  BY <3>4, ChainsLinked
  <2>12. StageOK(r, gen)
    BY <2>7, <2>9, <2>11, StageStays
  <2> QED  BY <2>9, <2>12 DEF r
<1> QED  BY <1>4, <1>5
-----------------------------------------------------------------------------
(***************************************************************************)
(* Calls that are queued in the middle of a step.                          *)
(***************************************************************************)

\* Stage s has queued commands; all that a flush depends on is as before.
Queued(w, w2, s) ==
    /\ IsWorld(w2) /\ StagesOK(w2)
    /\ w2.frames = w.frames /\ w2.store.gen = w.store.gen
    /\ \A t \in Stages : t # s => w2.stages[t] = w.stages[t]
    /\ SameFlush(w2.stages[s], w.stages[s])

\* Nothing queued is one way of queueing.
LEMMA QueuedNothing ==
    ASSUME NEW w, IsWorld(w), StagesOK(w), NEW s
    PROVE  Queued(w, w, s)
BY DEF Queued, SameFlush

\* Queueing twice is queueing.
LEMMA QueuedTwice ==
    ASSUME NEW w, NEW w2, NEW w3, NEW s, Queued(w, w2, s), Queued(w2, w3, s)
    PROVE  Queued(w, w3, s)
BY DEF Queued, SameFlush

\* The world has the stage of its main thread.
LEMMA ZeroStage == 0 \in Stages
BY StageCountAssumption DEF Stages

\* Values that are written to components create and delete no entity.
LEMMA PutKeeps ==
    ASSUME NEW s, IsStore(s), NEW e, NEW id, NEW v
    PROVE  IsStore(Put(s, e, id, v)) /\ Put(s, e, id, v).gen = s.gen
<1> DEFINE val == [s.val EXCEPT ![e[1]][id] = v]
           r == [s EXCEPT !.val = val]
<1>1. Put(s, e, id, v) = r
  BY DEF Put
<1> HIDE DEF val
<1>2. r = [live |-> s.live, gen |-> s.gen, val |-> val]
  BY DEF IsStore
<1> QED  BY <1>1, <1>2 DEF IsStore

\* The call that flecs_defer_* ends up with.
LEMMA AskedIs ==
    ASSUME NEW s, NEW gen, NEW c, Queueable(c, gen)
    PROVE  /\ Queueable(Asked(s, c), gen) /\ Asked(s, c).e = c.e
           /\ Batched(Asked(s, c)) <=> Batched(c)
<1>1. c \in Command
  BY DEF Queueable
<1>2. CASE c.op \in {"Ensure", "Emplace"} /\ Has(s, c.e, c.id)
  <2> DEFINE d == [c EXCEPT !.op = "Add", !.kind = "Add"]
  <2>1. Asked(s, c) = d
    BY <1>2 DEF Asked
  <2>2. d \in Command /\ d.next = c.next /\ d.e = c.e /\ d.op = "Add"
    BY <1>1 DEF Command, Kinds, Operations
  <2> HIDE DEF d
  <2> QED  BY <1>2, <2>1, <2>2 DEF Queueable, Batched
<1>3. CASE ~ (c.op \in {"Ensure", "Emplace"} /\ Has(s, c.e, c.id))
  BY <1>3 DEF Asked
<1> QED  BY <1>2, <1>3

\* flecs_defer_set picks one of the kinds of commands.
LEMMA CmdKindIs ==
    ASSUME NEW s, NEW c \in Command
    PROVE  CmdKind(s, c) \in Kinds
<1>1. c.op \in Operations
  BY DEF Command
<1> HIDE DEF DirectWrite
<1> QED  BY <1>1 DEF CmdKind, Kinds, Operations

\* Deferring a call.
LEMMA DeferKeeps ==
    ASSUME NEW w, IsWorld(w), StagesOK(w), NEW s \in Stages, NEW c, Queueable(c, w.store.gen)
    PROVE  Queued(w, Defer(w, s, c), s)
<1> DEFINE a == Asked(w.store, c)
           r == Defer(w, s, c)
           gen == w.store.gen
           cmd == [a EXCEPT !.kind = CmdKind(w.store, a)]
           st == w.stages[s]
           new == IF a.op = "Modified" THEN CmdNew(st, cmd) ELSE CmdNewBatched(st, cmd)
           ss == [w.stages EXCEPT ![s] = new]
           store2 == IF DirectWrite(w.store, a) THEN Put(w.store, a.e, a.id, a.val) ELSE w.store
<1>1. Queueable(a, gen) /\ a \in Command
  BY AskedIs DEF Queueable
<1>2. Queueable(cmd, gen) /\ cmd.op = a.op
  <2>1. CmdKind(w.store, a) \in Kinds
    BY <1>1, CmdKindIs
  <2> DEFINE k == CmdKind(w.store, a)
  <2> HIDE DEF a, k
  <2>2. cmd \in Command /\ cmd.next = a.next /\ cmd.e = a.e /\ cmd.op = a.op
    BY <1>1, <2>1 DEF Command, k
  <2> HIDE DEF cmd
  <2> QED  BY <1>1, <2>2 DEF Queueable
<1>3. StageOK(st, gen) /\ gen \in [Indices -> Nat]
  BY DEF StagesOK, IsWorld, IsStore
<1>4. StageOK(new, gen) /\ SameFlush(new, st)
  <2> HIDE DEF cmd, a, gen, st
  <2>1. CASE a.op = "Modified"
    <3>1. ~ Batched(cmd)
      BY <1>2, <2>1 DEF Batched
    <3> QED  BY <1>2, <1>3, <2>1, <3>1, CmdNewKeeps
  <2>2. CASE a.op # "Modified"
    <3>1. Batched(cmd)
      BY <1>2, <2>2 DEF Batched
    <3> QED  BY <1>2, <1>3, <2>2, <3>1, CmdNewBatchedKeeps
  <2> QED  BY <2>1, <2>2
<1>5. IsStore(store2) /\ store2.gen = gen
  <2> HIDE DEF a
  <2> QED  BY PutKeeps DEF IsWorld
<1>6. r = Parts(ss, store2, w.frames, w.calls + 1, w.called, w.stale_set)
  <2>1. r = [w EXCEPT !.stages = ss, !.store = store2, !.calls = @ + 1]
    BY DEF Defer, DeferAsked
  <2> HIDE DEF ss, store2
  <2> QED  BY <2>1 DEF IsWorld, Parts
<1> HIDE DEF r, new, store2, st, gen
<1>7. /\ ss \in [Stages -> StageType] /\ ss[s] = new
      /\ \A t \in Stages : t # s => ss[t] = w.stages[t]
  BY <1>4 DEF IsWorld, StageOK
<1> HIDE DEF ss
<1>8. /\ r.stages = ss /\ r.store = store2 /\ r.frames = w.frames /\ r.calls = w.calls + 1
      /\ r = Parts(r.stages, r.store, r.frames, r.calls, r.called, r.stale_set)
  BY <1>6 DEF Parts
<1>9. IsWorld(r)
  BY <1>5, <1>7, <1>8 DEF IsWorld
<1>10. StagesOK(r)
  BY <1>4, <1>5, <1>7, <1>8 DEF StagesOK, gen
<1> QED  BY <1>4, <1>5, <1>7, <1>8, <1>9, <1>10 DEF Queued, r, st, gen

\* A call for an entity that is there.
Current(e, gen) == e \in Indices \X Nat /\ e[2] = gen[e[1]]

\* An observer.
LEMMA ObserveKeeps ==
    ASSUME NEW w, IsWorld(w), StagesOK(w), NEW ev, Current(ev[2], w.store.gen)
    PROVE  Queued(w, Observe(w, ev), 0)
<1> DEFINE reacting == {o \in Observers : o[1] = ev[1] /\ o[2] = ev[3]}
           o == CHOOSE o \in reacting : TRUE
           c == NewCall(o[3], ev[2], o[4], w.calls + 1)
<1>1. CASE reacting = {}
  BY <1>1, QueuedNothing DEF Observe
<1>2. CASE reacting # {}
  <2>1. Observe(w, ev) = Defer(w, 0, c)
    BY <1>2 DEF Observe
  <2>2. o \in Observers
    BY <1>2
  <2>3. o[3] \in Operations /\ o[4] \in Ids \union {NoId}
    BY <2>2, CallsAssumption
  <2> HIDE DEF o
  <2>4. Queueable(c, w.store.gen)
    <3> DEFINE n == w.calls + 1
    <3>1. n \in Nat
      BY DEF IsWorld
    <3>2. ev[2] \in Indices \X Nat /\ ev[2][2] = w.store.gen[ev[2][1]]
      BY DEF Current
    <3> HIDE DEF n
    <3> DEFINE e == ev[2]
    <3> HIDE DEF e
    <3>3. NewCall(o[3], e, o[4], n) \in Command
      BY <2>3, <3>1, <3>2 DEF NewCall, Command, Kinds, e
    <3>4. NewCall(o[3], e, o[4], n).next = 0 /\ NewCall(o[3], e, o[4], n).e = e
      BY DEF NewCall
    <3> QED  BY <3>2, <3>3, <3>4 DEF Queueable, n, e
  <2> HIDE DEF c
  <2> QED  BY <2>1, <2>4, ZeroStage, DeferKeeps
<1> QED  BY <1>1, <1>2

\* The observers of several events, one after the other.
ReactStep(ctx, acc, ev) == Only({Observe(x, ev) : x \in {acc}})
ReactInv(ctx, acc, k) == Queued(ctx, acc, 0)

Reactions == INSTANCE Induction WITH Step <- ReactStep, Inv <- ReactInv

\* The events are about entities that are there.
AreEvents(events, n, gen) ==
    /\ n \in Nat /\ DOMAIN events = 1 .. n
    /\ \A k \in 1 .. n : Current(events[k][2], gen)

\* React is a fold of the induction module.
LEMMA ReactFold ==
    ASSUME NEW w, NEW events
    PROVE  React(w, events) = Reactions!Fold(w, w, events)
BY DEF React, Reactions!Fold, ReactStep, FoldLeft, Reactions!FoldLeft, MapThenFoldSet,
       Reactions!MapThenFoldSet, Max, Reactions!Max

\* The observers of a sequence of events queue calls on stage 0 and do no more.
LEMMA ReactKeeps ==
    ASSUME NEW w, IsWorld(w), StagesOK(w), NEW events, NEW n, AreEvents(events, n, w.store.gen)
    PROVE  Queued(w, React(w, events), 0)
<1>1. ReactInv(w, w, 0)
  BY QueuedNothing DEF ReactInv
<1>2. ASSUME NEW acc, NEW k \in 1 .. n, ReactInv(w, acc, k - 1)
      PROVE  ReactInv(w, ReactStep(w, acc, events[k]), k)
  <2>1. Queued(w, acc, 0) /\ IsWorld(acc) /\ StagesOK(acc) /\ acc.store.gen = w.store.gen
    BY <1>2 DEF ReactInv, Queued
  <2>2. Current(events[k][2], acc.store.gen)
    BY <2>1 DEF AreEvents
  <2>3. Queued(acc, Observe(acc, events[k]), 0)
    BY <2>1, <2>2, ObserveKeeps
  <2>4. ReactStep(w, acc, events[k]) = Observe(acc, events[k])
    BY DEF ReactStep, Only
  <2> QED  BY <2>1, <2>3, <2>4, QueuedTwice DEF ReactInv
<1>3. \A acc : \A k \in 1 .. n :
          ReactInv(w, acc, k - 1) => ReactInv(w, ReactStep(w, acc, events[k]), k)
  BY <1>2
<1>4. ReactInv(w, Reactions!Fold(w, w, events), n)
  BY <1>1, <1>3, Reactions!FoldInvariant DEF AreEvents
<1> QED  BY <1>4, ReactFold DEF ReactInv

\* A finite set as a sequence.
LEMMA SetToSeqIs ==
    ASSUME NEW S, IsFiniteSet(S)
    PROVE  /\ Cardinality(S) \in Nat
           /\ SetToSeq(S) \in [1 .. Cardinality(S) -> S]
<1> DEFINE n == Cardinality(S)
<1>1. n \in Nat
  BY FS_CardinalityType
<1>2. PICK f : f \in Bijection(1 .. n, S)
  BY FS_CardinalityType DEF ExistsBijection
<1>3. f \in [1 .. n -> S] /\ IsInjective(f)
  BY <1>2 DEF Bijection, Injection, IsInjective
<1> HIDE DEF n
<1> QED  BY <1>1, <1>3 DEF SetToSeq, n

\* One event for each of a set of ids.
LEMMA EventsAre ==
    ASSUME NEW S \in SUBSET Ids, NEW event, NEW gen, NEW e, Current(e, gen)
    PROVE  AreEvents(Events(event, e, SetToSeq(S)), Cardinality(S), gen)
<1>1. IsFiniteSet(S)
  BY FiniteAssumption, FS_Subset
<1> DEFINE ids == SetToSeq(S)
           n == Cardinality(S)
<1>2. n \in Nat /\ DOMAIN ids = 1 .. n
  BY <1>1, SetToSeqIs
<1> HIDE DEF ids, n
<1> DEFINE evs == Events(event, e, ids)
<1>3. DOMAIN evs = 1 .. n /\ \A k \in 1 .. n : evs[k][2] = e
  BY <1>2 DEF Events
<1> HIDE DEF evs
<1>4. AreEvents(evs, n, gen)
  BY <1>2, <1>3 DEF AreEvents
<1> QED  BY <1>4 DEF evs, ids, n

\* One event of an entity that is alive is a sequence of events.
LEMMA EventIs ==
    ASSUME NEW event, NEW id, NEW gen, NEW e, Current(e, gen)
    PROVE  AreEvents(<<<<event, e, id>>>>, 1, gen)
<1> DEFINE evs == <<<<event, e, id>>>>
<1>1. DOMAIN evs = 1 .. 1 /\ \A k \in 1 .. 1 : evs[k][2] = e
  OBVIOUS
<1> HIDE DEF evs
<1>2. AreEvents(evs, 1, gen)
  BY <1>1 DEF AreEvents
<1> QED  BY <1>2 DEF evs
-----------------------------------------------------------------------------
(***************************************************************************)
(* Operations that change the store.                                       *)
(***************************************************************************)

\* As Queued for stage 0, but entities may be deleted.
Beside(w, w2) ==
    /\ IsWorld(w2) /\ StagesOK(w2) /\ w2.frames = w.frames
    /\ \A t \in Stages : t # 0 => w2.stages[t] = w.stages[t]
    /\ SameFlush(w2.stages[0], w.stages[0])

\* A world in which calls were queued is one step of an operation.
LEMMA QueuedBeside ==
    ASSUME NEW w, NEW w2, Queued(w, w2, 0)
    PROVE  Beside(w, w2)
BY DEF Queued, Beside

\* Two steps of an operation are one.
LEMMA BesideTwice ==
    ASSUME NEW w, NEW w2, NEW w3, Beside(w, w2), Beside(w2, w3)
    PROVE  Beside(w, w3)
BY DEF Beside, SameFlush

\* Another store in which no generation is lower.
NotLower(gen, new) == new \in [Indices -> Nat] /\ \A x \in Indices : gen[x] <= new[x]

WithStore(w, s) == [w EXCEPT !.store = s]

\* A world with another store, part by part.
LEMMA WithStoreIs ==
    ASSUME NEW w, IsWorld(w), NEW s
    PROVE  WithStore(w, s) = Parts(w.stages, s, w.frames, w.calls, w.called, w.stale_set)
BY DEF WithStore, IsWorld, Parts

\* A store whose generations did not go back leaves the queues as they should be.
LEMMA StoreChanges ==
    ASSUME NEW w, IsWorld(w), StagesOK(w), NEW s, IsStore(s), NotLower(w.store.gen, s.gen)
    PROVE  Beside(w, WithStore(w, s)) /\ (s.gen = w.store.gen => Queued(w, WithStore(w, s), 0))
<1> DEFINE r == WithStore(w, s)
           gen == w.store.gen
           new == s.gen
<1>1. /\ r.stages = w.stages /\ r.store = s /\ r.frames = w.frames /\ r.calls = w.calls
      /\ r = Parts(r.stages, r.store, r.frames, r.calls, r.called, r.stale_set)
  BY WithStoreIs DEF Parts
<1>2. IsWorld(r)
  BY <1>1 DEF IsWorld
<1>3. ASSUME NEW t \in Stages PROVE StageOK(w.stages[t], new)
  <2> DEFINE st == w.stages[t]
             q == Filled(st)
             n == Len(q)
             en == st.entries[st.cmd]
  <2>1. StageOK(st, gen)
    BY DEF StagesOK
  <2>2. n \in Nat
    BY <2>1 DEF StageOK, StageType, Filled
  <2>3. gen \in [Indices -> Nat] /\ new \in [Indices -> Nat] /\ \A x \in Indices : gen[x] <= new[x]
    BY DEF IsWorld, IsStore, NotLower
  <2>4. Chains(q, n, en, gen)
    BY <2>1 DEF StageOK
  <2> HIDE DEF st, q, n, en, gen, new
  <2>5. Chains(q, n, en, new)
    BY <2>2, <2>3, <2>4, ChainsGrow
  <2> QED  BY <2>1, <2>5 DEF StageOK, st, q, n, en
<1>4. StagesOK(r)
  BY <1>1, <1>3 DEF StagesOK
<1> QED  BY <1>1, <1>2, <1>4 DEF Beside, Queued, SameFlush

\* Changes of the components of an entity.
LEMMA SameGenChanges ==
    ASSUME NEW w, IsWorld(w), StagesOK(w), NEW s, IsStore(s), s.gen = w.store.gen
    PROVE  Queued(w, WithStore(w, s), 0)
<1>1. NotLower(w.store.gen, s.gen)
  BY DEF IsWorld, IsStore, NotLower
<1> QED  BY <1>1, StoreChanges

\* Adding an id recycles no index.
LEMMA AddIdKeeps ==
    ASSUME NEW s, IsStore(s), NEW e, NEW id
    PROVE  IsStore(AddId(s, e, id)) /\ AddId(s, e, id).gen = s.gen
BY PutKeeps DEF AddId

\* Moving an entity to another table recycles no index.
LEMMA CommitKeeps ==
    ASSUME NEW s, IsStore(s), NEW e, NEW type
    PROVE  IsStore(Commit(s, e, type)) /\ Commit(s, e, type).gen = s.gen
<1> DEFINE row == [id \in Ids |-> CASE id \notin type -> Absent
                                   [] id \in type /\ Has(s, e, id) -> s.val[e[1]][id]
                                   [] OTHER -> Default]
           val == [s.val EXCEPT ![e[1]] = row]
           r == [s EXCEPT !.val = val]
<1>1. Commit(s, e, type) = r
  BY DEF Commit
<1> HIDE DEF val
<1>2. r = [live |-> s.live, gen |-> s.gen, val |-> val]
  BY DEF IsStore
<1> QED  BY <1>1, <1>2 DEF IsStore

\* Deleting entities only raises generations.
LEMMA DeleteKeeps ==
    ASSUME NEW s, IsStore(s), NEW e
    PROVE  IsStore(Delete(s, e)) /\ NotLower(s.gen, Delete(s, e).gen)
<1>1. CASE ~ Alive(s, e)
  <2>1. Delete(s, e) = s
    BY <1>1 DEF Delete
  <2> QED  BY <2>1 DEF IsStore, NotLower
<1>2. CASE Alive(s, e)
  <2> DEFINE gen == [n \in Indices |-> s.gen[n] + IF n \in Deleted(s, e) THEN 1 ELSE 0]
             d == Delete(s, e)
  <2>1. d.gen = gen /\ d = [live |-> d.live, gen |-> d.gen, val |-> d.val]
    <3> HIDE DEF gen
    <3> QED  BY <1>2 DEF Delete, gen
  <2>2. gen \in [Indices -> Nat] /\ \A n \in Indices : s.gen[n] <= gen[n]
    <3> HIDE DEF d
    <3> QED  BY DEF IsStore
  <2> QED  BY <2>1, <2>2 DEF IsStore, NotLower
<1> QED  BY <1>1, <1>2

\* The history variables matter to nothing.
WithCalled(w, cd) == [w EXCEPT !.called = cd]
WithStale(w, old) == [w EXCEPT !.stale_set = old]

SameWorld(w, w2) ==
    Queued(w, w2, 0) /\ w2.store = w.store /\ w2.stages = w.stages /\ w2.frames = w.frames

\* The history variables are no part of the invariant.
LEMMA HistoryKeeps ==
    ASSUME NEW w, IsWorld(w), StagesOK(w), NEW cd, NEW old
    PROVE  SameWorld(w, WithCalled(w, cd)) /\ SameWorld(w, WithStale(w, old))
<1> DEFINE a == WithCalled(w, cd)
           b == WithStale(w, old)
<1>1. /\ a = Parts(w.stages, w.store, w.frames, w.calls, cd, w.stale_set)
      /\ b = Parts(w.stages, w.store, w.frames, w.calls, w.called, old)
  BY DEF IsWorld, Parts, WithCalled, WithStale
<1> HIDE DEF a, b
<1>2. /\ a.stages = w.stages /\ a.store = w.store /\ a.frames = w.frames /\ a.calls = w.calls
      /\ a = Parts(a.stages, a.store, a.frames, a.calls, a.called, a.stale_set)
  BY <1>1 DEF Parts
<1>3. /\ b.stages = w.stages /\ b.store = w.store /\ b.frames = w.frames /\ b.calls = w.calls
      /\ b = Parts(b.stages, b.store, b.frames, b.calls, b.called, b.stale_set)
  BY <1>1 DEF Parts
<1>4. IsWorld(a) /\ IsWorld(b)
  BY <1>2, <1>3 DEF IsWorld
<1>5. StagesOK(a) /\ StagesOK(b)
  BY <1>2, <1>3 DEF StagesOK
<1>6. SameWorld(w, a) /\ SameWorld(w, b)
  BY <1>2, <1>3, <1>4, <1>5 DEF SameWorld, Queued, SameFlush
<1> QED  BY <1>6 DEF a, b

\* An add and its OnAdd observers.
LEMMA DoAddKeeps ==
    ASSUME NEW w, IsWorld(w), StagesOK(w), NEW e, Current(e, w.store.gen), NEW id
    PROVE  Queued(w, DoAdd(w, e, id), 0)
<1>1. CASE Has(w.store, e, id)
  BY <1>1, QueuedNothing DEF DoAdd
<1>2. CASE ~ Has(w.store, e, id)
  <2> DEFINE s == AddId(w.store, e, id)
             r == WithStore(w, s)
             evs == <<<<"OnAdd", e, id>>>>
  <2>1. DoAdd(w, e, id) = React(r, evs)
    BY <1>2 DEF DoAdd, WithStore
  <2>2. IsStore(s) /\ s.gen = w.store.gen
    BY AddIdKeeps DEF IsWorld
  <2> HIDE DEF s
  <2>3. Queued(w, r, 0)
    BY <2>2, SameGenChanges
  <2> HIDE DEF r
  <2>4. IsWorld(r) /\ StagesOK(r) /\ Current(e, r.store.gen)
    BY <2>3 DEF Queued
  <2>5. AreEvents(evs, 1, r.store.gen)
    BY <2>4, EventIs
  <2> HIDE DEF evs
  <2>6. Queued(r, React(r, evs), 0)
    BY <2>4, <2>5, ReactKeeps
  <2> QED  BY <2>1, <2>3, <2>6, QueuedTwice
<1> QED  BY <1>1, <1>2

\* OnRemove observers, then the removal.
LEMMA DoRemoveKeeps ==
    ASSUME NEW w, IsWorld(w), StagesOK(w), NEW e, Current(e, w.store.gen), NEW ids
    PROVE  Queued(w, DoRemove(w, e, ids), 0)
<1> DEFINE S == ids \intersect Type(w.store, e)
           evs == Events("OnRemove", e, SetToSeq(S))
           r == React(w, evs)
           s == Commit(r.store, e, Type(r.store, e) \ ids)
<1>1. DoRemove(w, e, ids) = WithStore(r, s)
  BY DEF DoRemove, WithStore
<1>2. S \in SUBSET Ids
  BY DEF Type
<1> HIDE DEF S
<1>3. AreEvents(evs, Cardinality(S), w.store.gen)
  BY <1>2, EventsAre
<1> HIDE DEF evs
<1>4. Queued(w, r, 0)
  BY <1>3, ReactKeeps
<1> HIDE DEF r
<1>5. IsWorld(r) /\ StagesOK(r) /\ IsStore(s) /\ s.gen = r.store.gen
  BY <1>4, CommitKeeps DEF Queued, IsWorld
<1> HIDE DEF s
<1>6. Queued(r, WithStore(r, s), 0)
  BY <1>5, SameGenChanges
<1> QED  BY <1>1, <1>4, <1>6, QueuedTwice

\* The observers of the entities that are deleted.
Removal(ctx, n) ==
    Events("OnRemove", <<n, ctx.store.gen[n]>>, SetToSeq(Type(ctx.store, <<n, 0>>)))

RemovalStep(ctx, acc, n) == React(acc, Removal(ctx, n))

Removals == INSTANCE Induction WITH Step <- RemovalStep, Inv <- ReactInv

\* The notifications of a deletion are a fold of the induction module.
LEMMA RemovalFold ==
    ASSUME NEW w, NEW seq
    PROVE  FoldLeft(LAMBDA acc, n : React(acc, Events("OnRemove", <<n, w.store.gen[n]>>,
                                          SetToSeq(Type(w.store, <<n, 0>>)))), w, seq)
           = Removals!Fold(w, w, seq)
BY DEF Removals!Fold, RemovalStep, Removal, FoldLeft, Removals!FoldLeft, MapThenFoldSet,
       Removals!MapThenFoldSet, Max, Removals!Max

\* They queue calls on stage 0 and do no more.
LEMMA RemovalKeeps ==
    ASSUME NEW w, IsWorld(w), StagesOK(w), NEW seq, NEW m \in Nat, DOMAIN seq = 1 .. m,
           \A k \in 1 .. m : seq[k] \in Indices
    PROVE  Queued(w, Removals!Fold(w, w, seq), 0)
<1>1. ReactInv(w, w, 0)
  BY QueuedNothing DEF ReactInv
<1>2. ASSUME NEW acc, NEW k \in 1 .. m, ReactInv(w, acc, k - 1)
      PROVE  ReactInv(w, RemovalStep(w, acc, seq[k]), k)
  <2> DEFINE n == seq[k]
             e == <<n, w.store.gen[n]>>
             T == Type(w.store, <<n, 0>>)
  <2>1. Queued(w, acc, 0) /\ IsWorld(acc) /\ StagesOK(acc) /\ acc.store.gen = w.store.gen
    BY <1>2 DEF ReactInv, Queued
  <2>2. Current(e, acc.store.gen)
    <3>1. n \in Indices /\ w.store.gen[n] \in Nat
      BY DEF IsWorld, IsStore
    <3> HIDE DEF n
    <3>2. e[1] = n /\ e[2] = w.store.gen[n] /\ e \in Indices \X Nat
      BY <3>1
    <3> HIDE DEF e
    <3> QED  BY <2>1, <3>2 DEF Current
  <2>3. T \in SUBSET Ids
    BY DEF Type
  <2>4. Removal(w, n) = Events("OnRemove", e, SetToSeq(T))
    BY DEF Removal
  <2> HIDE DEF n, e, T
  <2>5. AreEvents(Removal(w, n), Cardinality(T), acc.store.gen)
    BY <2>2, <2>3, <2>4, EventsAre
  <2>6. Queued(acc, React(acc, Removal(w, n)), 0)
    BY <2>1, <2>5, ReactKeeps
  <2> QED  BY <2>1, <2>6, QueuedTwice DEF ReactInv, RemovalStep, n
<1>3. \A acc : \A k \in 1 .. m :
          ReactInv(w, acc, k - 1) => ReactInv(w, RemovalStep(w, acc, seq[k]), k)
  BY <1>2
<1>4. ReactInv(w, Removals!Fold(w, w, seq), m)
  BY <1>1, <1>3, Removals!FoldInvariant
<1> QED  BY <1>4 DEF ReactInv

\* A finite set as a sequence and one more element.
LEMMA SetAndLast ==
    ASSUME NEW S, IsFiniteSet(S), NEW T, S \subseteq T, NEW x \in T
    PROVE  \E m \in Nat : /\ DOMAIN (SetToSeq(S) \o <<x>>) = 1 .. m
                          /\ \A k \in 1 .. m : (SetToSeq(S) \o <<x>>)[k] \in T
<1> DEFINE a == SetToSeq(S)
           b == <<x>>
           n == Cardinality(S)
<1>1. n \in Nat /\ a \in [1 .. n -> S]
  BY SetToSeqIs
<1> HIDE DEF a, n
<1>2. a \in Seq(T)
  <2>1. a \in [1 .. n -> T]
    BY <1>1
  <2> QED  BY <1>1, <2>1, SeqDef
<1>3. b \in Seq(T)
  OBVIOUS
<1> HIDE DEF b
<1>4. a \o b \in Seq(T)
  BY <1>2, <1>3, ConcatProperties
<1> DEFINE c == a \o b
<1> HIDE DEF c
<1>5. Len(c) \in Nat /\ DOMAIN c = 1 .. Len(c) /\ \A k \in 1 .. Len(c) : c[k] \in T
  BY <1>4 DEF c
<1> QED  BY <1>5 DEF c, a, b

\* A deletion: notifications for all that is deleted, then the deletion.
LEMMA DoDeleteKeeps ==
    ASSUME NEW w, IsWorld(w), StagesOK(w), NEW e, e[1] \in Indices
    PROVE  Beside(w, DoDelete(w, e))
<1> DEFINE S == Deleted(w.store, e) \ {e[1]}
           seq == SetToSeq(S) \o <<e[1]>>
           r == Removals!Fold(w, w, seq)
           s == Delete(r.store, e)
<1>1. DoDelete(w, e) = WithStore(r, s)
  <2> HIDE DEF seq
  <2>1. DoDelete(w, e) =
          [FoldLeft(LAMBDA acc, n : React(acc, Events("OnRemove", <<n, w.store.gen[n]>>,
                                          SetToSeq(Type(w.store, <<n, 0>>)))), w, seq)
             EXCEPT !.store = Delete(@, e)]
    BY Zenon DEF DoDelete, seq
  <2> QED  BY <2>1, RemovalFold DEF WithStore
<1>2. S \subseteq Indices /\ IsFiniteSet(S)
  <2>1. S \subseteq Indices
    BY DEF Deleted
  <2> HIDE DEF S
  <2> QED  BY <2>1, FiniteAssumption, FS_Subset
<1>3. PICK m \in Nat : DOMAIN seq = 1 .. m /\ \A k \in 1 .. m : seq[k] \in Indices
  <2> HIDE DEF S
  <2> QED  BY <1>2, SetAndLast
<1> HIDE DEF seq
<1>4. Queued(w, r, 0)
  BY <1>3, RemovalKeeps
<1> HIDE DEF r
<1>5. IsWorld(r) /\ StagesOK(r)
  BY <1>4 DEF Queued
<1>6. IsStore(s) /\ NotLower(r.store.gen, s.gen)
  BY <1>5, DeleteKeeps DEF IsWorld
<1> HIDE DEF s
<1>7. Beside(r, WithStore(r, s))
  BY <1>5, <1>6, StoreChanges
<1> QED  BY <1>1, <1>4, <1>7, QueuedBeside, BesideTwice

\* OnSet observers queue calls on stage 0 and do no more.
LEMMA NotifyKeeps ==
    ASSUME NEW w, IsWorld(w), StagesOK(w), NEW c, Current(c.e, w.store.gen)
    PROVE  Queued(w, Notify(w, c), 0)
<1>1. CASE ~ Has(w.store, c.e, c.id)
  BY <1>1, QueuedNothing DEF Notify
<1>2. CASE Has(w.store, c.e, c.id)
  <2> DEFINE old == w.stale_set \/ (c.op # "Modified" /\ w.store.val[c.e[1]][c.id] < c.val)
             r == WithStale(w, old)
             evs == <<<<"OnSet", c.e, c.id>>>>
  <2>1. Notify(w, c) = React(r, evs)
    BY <1>2 DEF Notify, WithStale
  <2> HIDE DEF old
  <2>2. Queued(w, r, 0)
    BY HistoryKeeps DEF SameWorld
  <2> HIDE DEF r
  <2>3. IsWorld(r) /\ StagesOK(r) /\ Current(c.e, r.store.gen)
    BY <2>2 DEF Queued
  <2>4. AreEvents(evs, 1, r.store.gen)
    BY <2>3, EventIs
  <2> HIDE DEF evs
  <2>5. Queued(r, React(r, evs), 0)
    BY <2>3, <2>4, ReactKeeps
  <2> QED  BY <2>1, <2>2, <2>5, QueuedTwice
<1> QED  BY <1>1, <1>2

\* The OnAdd observers of a batch.
Adding(w, s, e) == [w |-> w, s |-> s, e |-> e]

AddedStep(ctx, acc, id) ==
    IF ~ Has(ctx.s, ctx.e, id) THEN acc
    ELSE Only({Observe(x, <<"OnAdd", ctx.e, id>>) : x \in {acc}})

AddedInv(ctx, acc, k) == Queued(ctx.w, acc, 0)

Additions == INSTANCE Induction WITH Step <- AddedStep, Inv <- AddedInv

\* NotifyAdded is a fold of the induction module.
LEMMA AddedFold ==
    ASSUME NEW w, NEW s, NEW e, NEW ids
    PROVE  NotifyAdded(w, s, e, ids) = Additions!Fold(Adding(w, s, e), w, ids)
<1> DEFINE ctx == Adding(w, s, e)
<1>1. ctx.s = s /\ ctx.e = e
  BY DEF Adding
<1> HIDE DEF ctx
<1>2. NotifyAdded(w, ctx.s, ctx.e, ids) = Additions!Fold(ctx, w, ids)
  BY DEF NotifyAdded, Additions!Fold, AddedStep, FoldLeft, Additions!FoldLeft, MapThenFoldSet,
         Additions!MapThenFoldSet, Max, Additions!Max
<1> QED  BY <1>1, <1>2 DEF ctx

\* The OnAdd observers of a batch queue calls on stage 0 and do no more.
LEMMA NotifyAddedKeeps ==
    ASSUME NEW w, IsWorld(w), StagesOK(w), NEW s, NEW e, Current(e, w.store.gen),
           NEW T, NEW ids \in Seq(T)
    PROVE  Queued(w, NotifyAdded(w, s, e, ids), 0)
<1> DEFINE ctx == Adding(w, s, e)
           n == Len(ids)
<1>1. ctx.s = s /\ ctx.e = e /\ ctx.w = w
  BY DEF Adding
<1>2. n \in Nat /\ DOMAIN ids = 1 .. n
  OBVIOUS
<1> HIDE DEF ctx, n
<1>3. AddedInv(ctx, w, 0)
  BY <1>1, QueuedNothing DEF AddedInv
<1>4. ASSUME NEW acc, NEW k \in 1 .. n, AddedInv(ctx, acc, k - 1)
      PROVE  AddedInv(ctx, AddedStep(ctx, acc, ids[k]), k)
  <2> DEFINE ev == <<"OnAdd", e, ids[k]>>
  <2>1. Queued(w, acc, 0) /\ IsWorld(acc) /\ StagesOK(acc) /\ acc.store.gen = w.store.gen
    BY <1>1, <1>4 DEF AddedInv, Queued
  <2>2. Current(ev[2], acc.store.gen)
    BY <2>1
  <2>3. Queued(acc, Observe(acc, ev), 0)
    <3> HIDE DEF ev
    <3> QED  BY <2>1, <2>2, ObserveKeeps
  <2>4. AddedStep(ctx, acc, ids[k]) = IF ~ Has(s, e, ids[k]) THEN acc ELSE Observe(acc, ev)
    BY <1>1 DEF AddedStep, Only
  <2> HIDE DEF ev
  <2>5. Queued(w, acc, 0) /\ Queued(w, Observe(acc, ev), 0)
    BY <2>1, <2>3, QueuedTwice
  <2>6. Queued(w, AddedStep(ctx, acc, ids[k]), 0)
    BY <2>4, <2>5
  <2> QED  BY <1>1, <2>6 DEF AddedInv
<1>5. \A acc : \A k \in 1 .. n :
          AddedInv(ctx, acc, k - 1) => AddedInv(ctx, AddedStep(ctx, acc, ids[k]), k)
  BY <1>4
<1>6. AddedInv(ctx, Additions!Fold(ctx, w, ids), n)
  BY <1>2, <1>3, <1>5, Additions!FoldInvariant
<1>7. NotifyAdded(w, s, e, ids) = Additions!Fold(ctx, w, ids)
  BY AddedFold DEF ctx
<1> QED  BY <1>1, <1>6, <1>7 DEF AddedInv

\* The kinds of the commands that move no value.
Plain == {"Add", "Remove", "Clear", "Delete", "Modified", "AddModified"}

\* A command that has no value to move, whatever it is.
LEMMA ExecuteKeeps ==
    ASSUME NEW w, IsWorld(w), StagesOK(w), NEW c, c.kind \in Plain,
           Current(c.e, w.store.gen)
    PROVE  Beside(w, Execute(w, c))
<1>0. c.e[1] \in Indices /\ Beside(w, w)
  BY QueuedNothing, QueuedBeside DEF Current
<1>1. CASE c.kind = "Add" /\ Valid(w.store, c.id)
  <2>1. Execute(w, c) = DoAdd(w, c.e, c.id)
    BY <1>1 DEF Execute
  <2> QED  BY <2>1, DoAddKeeps, QueuedBeside
<1>2. CASE c.kind = "Add" /\ ~ Valid(w.store, c.id)
  <2>1. c.id \in DeletePairs \/ c.id \in RemovePairs
    BY <1>2 DEF Valid, Pairs
  <2>2. Execute(w, c) = IF c.id \in DeletePairs THEN DoDelete(w, c.e) ELSE w
    <3>1. CASE c.id \in DeletePairs
      BY <1>2, <3>1, PairsAssumption DEF Execute
    <3>2. CASE c.id \in RemovePairs
      BY <1>2, <3>2, PairsAssumption DEF Execute
    <3> QED  BY <2>1, <3>1, <3>2
  <2> QED  BY <1>0, <2>2, DoDeleteKeeps
<1>3. CASE c.kind = "Remove"
  <2>1. Execute(w, c) = DoRemove(w, c.e, {c.id})
    BY <1>3 DEF Execute
  <2> QED  BY <2>1, DoRemoveKeeps, QueuedBeside
<1>4. CASE c.kind = "Clear"
  <2>1. Execute(w, c) = DoRemove(w, c.e, Ids)
    BY <1>4 DEF Execute
  <2> QED  BY <2>1, DoRemoveKeeps, QueuedBeside
<1>5. CASE c.kind = "Delete"
  <2>1. Execute(w, c) = DoDelete(w, c.e)
    BY <1>5 DEF Execute
  <2> QED  BY <1>0, <2>1, DoDeleteKeeps
<1>6. CASE c.kind = "Modified"
  <2>1. Execute(w, c) = Notify(w, c)
    BY <1>6 DEF Execute
  <2> QED  BY <2>1, NotifyKeeps, QueuedBeside
<1>7. CASE c.kind = "AddModified"
  <2> DEFINE r == DoAdd(w, c.e, c.id)
  <2>1. Execute(w, c) = Notify(r, c)
    BY <1>7 DEF Execute
  <2>2. Queued(w, r, 0)
    BY DoAddKeeps
  <2> HIDE DEF r
  <2>3. IsWorld(r) /\ StagesOK(r) /\ Current(c.e, r.store.gen)
    BY <2>2 DEF Queued
  <2>4. Queued(r, Notify(r, c), 0)
    BY <2>3, NotifyKeeps
  <2> QED  BY <2>1, <2>2, <2>4, QueuedTwice, QueuedBeside
<1> QED  BY <1>1, <1>2, <1>3, <1>4, <1>5, <1>6, <1>7 DEF Plain
-----------------------------------------------------------------------------
(***************************************************************************)
(* Frames.                                                                 *)
(***************************************************************************)

\* The frame of a call that is not deferred belongs to no stage.
LEMMA NowIsNoStage == Now \notin Stages
BY StageCountAssumption DEF Now, Stages

\* What a flush depends on.
LEMMA FlushAtStays ==
    ASSUME NEW a, NEW b, SameFlush(b, a), NEW f, FlushAt(a, f)
    PROVE  FlushAt(b, f)
BY DEF FlushAt, SameFlush

\* Every other frame does.
LEMMA FrameStage ==
    ASSUME NEW fr, NEW ss, FramesOK(fr, ss), NEW k \in DOMAIN fr, fr[k].stage # Now
    PROVE  fr[k].stage \in Stages
<1>1. fr[k] \in FrameType
  BY DEF FramesOK
<1> QED  BY <1>1 DEF FrameType

\* Filling queues leaves the flushes under way as they are.
LEMMA FramesStay ==
    ASSUME NEW fr, NEW ss, FramesOK(fr, ss),
           NEW ss2, \A t \in Stages : SameFlush(ss2[t], ss[t])
    PROVE  FramesOK(fr, ss2)
<1>1. ASSUME NEW k \in DOMAIN fr
      PROVE  IF fr[k].stage = Now THEN fr[k].call \in Command
             ELSE FlushAt(ss2[fr[k].stage], fr[k])
  <2>1. CASE fr[k].stage = Now
    BY <2>1 DEF FramesOK
  <2>2. CASE fr[k].stage # Now
    <3>1. fr[k].stage \in Stages
      BY <2>2, FrameStage
    <3>2. FlushAt(ss[fr[k].stage], fr[k])
      BY <2>2 DEF FramesOK
    <3> QED  BY <2>2, <3>1, <3>2, FlushAtStays
  <2> QED  BY <2>1, <2>2
<1>2. \A s \in Stages : ss2[s].cmd_flushing => \E k \in DOMAIN fr : fr[k].stage = s
  BY DEF FramesOK, SameFlush
<1> QED  BY <1>1, <1>2 DEF FramesOK

\* A stage that is not being flushed has no frame.
LEMMA FramesOther ==
    ASSUME NEW fr, NEW ss, FramesOK(fr, ss), NEW s \in Stages, ~ ss[s].cmd_flushing,
           NEW ss2, ~ ss2[s].cmd_flushing, \A t \in Stages : t # s => ss2[t] = ss[t]
    PROVE  FramesOK(fr, ss2)
<1>1. ASSUME NEW k \in DOMAIN fr
      PROVE  IF fr[k].stage = Now THEN fr[k].call \in Command
             ELSE FlushAt(ss2[fr[k].stage], fr[k])
  <2>1. CASE fr[k].stage = Now
    BY <2>1 DEF FramesOK
  <2>2. CASE fr[k].stage # Now
    <3>1. fr[k].stage \in Stages
      BY <2>2, FrameStage
    <3>2. FlushAt(ss[fr[k].stage], fr[k])
      BY <2>2 DEF FramesOK
    <3>3. fr[k].stage # s
      BY <3>2 DEF FlushAt
    <3> QED  BY <2>2, <3>1, <3>2, <3>3
  <2> QED  BY <2>1, <2>2
<1>2. \A t \in Stages : ss2[t].cmd_flushing => \E k \in DOMAIN fr : fr[k].stage = t
  BY DEF FramesOK
<1> QED  BY <1>1, <1>2 DEF FramesOK

\* The flush of another stage begins.
LEMMA FramesPush ==
    ASSUME NEW fr, NEW ss, FramesOK(fr, ss), NEW s \in Stages, ~ ss[s].cmd_flushing,
           NEW ss2, \A t \in Stages : t # s => ss2[t] = ss[t],
           NEW f \in FrameType, f.stage = s, FlushAt(ss2[s], f)
    PROVE  FramesOK(<<f>> \o fr, ss2)
<1> DEFINE g == <<f>> \o fr
           n == Len(fr)
<1>1. fr \in Seq(FrameType)
  BY DEF FramesOK
<1>2. /\ g \in Seq(FrameType) /\ n \in Nat /\ DOMAIN g = 1 .. n + 1 /\ DOMAIN fr = 1 .. n
      /\ g[1] = f /\ \A k \in 2 .. n + 1 : g[k] = fr[k - 1] /\ k - 1 \in 1 .. n
  BY <1>1
<1> HIDE DEF g, n
<1>3. s # Now
  BY NowIsNoStage
<1>4. ASSUME NEW k \in 1 .. n
      PROVE  /\ IF fr[k].stage = Now THEN fr[k].call \in Command
                ELSE FlushAt(ss2[fr[k].stage], fr[k])
             /\ fr[k].stage # s
  <2>0. k \in DOMAIN fr
    BY <1>2
  <2>1. CASE fr[k].stage = Now
    BY <1>3, <2>0, <2>1 DEF FramesOK
  <2>2. CASE fr[k].stage # Now
    <3>1. fr[k].stage \in Stages
      BY <2>0, <2>2, FrameStage
    <3>2. FlushAt(ss[fr[k].stage], fr[k])
      BY <2>0, <2>2 DEF FramesOK
    <3>3. fr[k].stage # s
      BY <3>2 DEF FlushAt
    <3> QED  BY <2>2, <3>1, <3>2, <3>3
  <2> QED  BY <2>1, <2>2
<1>5. ASSUME NEW k \in 1 .. n + 1
      PROVE  k = 1 \/ k \in 2 .. n + 1
  BY <1>2
<1>6. ASSUME NEW k \in DOMAIN g
      PROVE  IF g[k].stage = Now THEN g[k].call \in Command ELSE FlushAt(ss2[g[k].stage], g[k])
  <2>1. CASE k = 1
    BY <1>2, <1>3, <2>1
  <2>2. CASE k \in 2 .. n + 1
    BY <1>2, <1>4, <2>2
  <2> QED  BY <1>2, <1>5, <2>1, <2>2
<1>7. ASSUME NEW k \in DOMAIN g, NEW l \in DOMAIN g, g[k].stage = g[l].stage, g[k].stage # Now
      PROVE  k = l
  <2>1. CASE k = 1 \/ l = 1
    BY <1>2, <1>4, <1>5, <1>7, <2>1
  <2>2. CASE k \in 2 .. n + 1 /\ l \in 2 .. n + 1
    <3>1. k - 1 \in DOMAIN fr /\ l - 1 \in DOMAIN fr /\ g[k] = fr[k - 1] /\ g[l] = fr[l - 1]
      BY <1>2, <2>2
    <3>2. k - 1 = l - 1
      BY <1>7, <3>1 DEF FramesOK
    <3> QED  BY <2>2, <3>2
  <2> QED  BY <1>2, <1>5, <2>1, <2>2
<1>8. ASSUME NEW t \in Stages, ss2[t].cmd_flushing
      PROVE  \E k \in DOMAIN g : g[k].stage = t
  <2>1. CASE t = s
    BY <1>2, <2>1
  <2>2. CASE t # s
    <3>1. PICK k \in DOMAIN fr : fr[k].stage = t
      BY <1>8, <2>2 DEF FramesOK
    <3>2. k + 1 \in 2 .. n + 1 /\ k + 1 - 1 = k
      BY <1>2
    <3>3. g[k + 1] = fr[k] /\ k + 1 \in DOMAIN g
      BY <1>2, <3>2
    <3> QED  BY <3>1, <3>3
  <2> QED  BY <2>1, <2>2
<1>9. FramesOK(g, ss2)
  BY <1>2, <1>6, <1>7, <1>8 DEF FramesOK
<1> QED  BY <1>9 DEF g

\* The innermost flush is done.
LEMMA FramesPop ==
    ASSUME NEW fr, NEW ss, FramesOK(fr, ss), fr # <<>>,
           NEW ss2, \A t \in Stages : t # fr[1].stage => ss2[t] = ss[t],
           fr[1].stage # Now => ~ ss2[fr[1].stage].cmd_flushing
    PROVE  FramesOK(Tail(fr), ss2)
<1> DEFINE g == Tail(fr)
           n == Len(fr)
           s == fr[1].stage
<1>1. fr \in Seq(FrameType)
  BY DEF FramesOK
<1>2. /\ g \in Seq(FrameType) /\ n \in Nat /\ DOMAIN g = 1 .. n - 1 /\ DOMAIN fr = 1 .. n
      /\ n >= 1 /\ \A k \in 1 .. n - 1 : g[k] = fr[k + 1]
  BY <1>1, EmptySeq, HeadTailProperties
<1>0. \A k \in 1 .. n - 1 : k + 1 \in DOMAIN fr /\ k + 1 # 1
  BY <1>2
<1> HIDE DEF g, n
<1>3. ASSUME NEW k \in DOMAIN g
      PROVE  /\ k + 1 \in DOMAIN fr /\ g[k] = fr[k + 1]
             /\ g[k].stage # Now => g[k].stage # s
             /\ IF g[k].stage = Now THEN g[k].call \in Command ELSE FlushAt(ss2[g[k].stage], g[k])
  <2>1. k + 1 \in DOMAIN fr /\ g[k] = fr[k + 1] /\ k + 1 # 1 /\ 1 \in DOMAIN fr
    BY <1>0, <1>2
  <2>2. CASE g[k].stage = Now
    BY <2>1, <2>2 DEF FramesOK
  <2>3. CASE g[k].stage # Now
    <3>1. g[k].stage \in Stages
      BY <2>1, <2>3, FrameStage
    <3>2. FlushAt(ss[g[k].stage], g[k])
      BY <2>1, <2>3 DEF FramesOK
    <3>3. g[k].stage # s
      BY <2>1, <2>3 DEF FramesOK
    <3> QED  BY <2>1, <2>3, <3>1, <3>2, <3>3
  <2> QED  BY <2>2, <2>3
<1>4. ASSUME NEW k \in DOMAIN g, NEW l \in DOMAIN g, g[k].stage = g[l].stage, g[k].stage # Now
      PROVE  k = l
  <2>1. k + 1 = l + 1
    BY <1>3, <1>4 DEF FramesOK
  <2> QED  BY <1>2, <2>1
<1>5. ASSUME NEW t \in Stages, ss2[t].cmd_flushing
      PROVE  \E k \in DOMAIN g : g[k].stage = t
  <2>1. t # s
    BY <1>5, NowIsNoStage
  <2>2. PICK k \in DOMAIN fr : fr[k].stage = t
    BY <1>5, <2>1 DEF FramesOK
  <2>3. k # 1
    BY <2>1, <2>2
  <2>4. k - 1 \in 1 .. n - 1 /\ k - 1 + 1 = k
    BY <1>2, <2>3
  <2> QED  BY <1>2, <2>2, <2>4
<1>6. FramesOK(g, ss2)
  BY <1>2, <1>3, <1>4, <1>5 DEF FramesOK
<1> QED  BY <1>6 DEF g

\* The innermost flush goes on.
LEMMA FramesTop ==
    ASSUME NEW fr, NEW ss, FramesOK(fr, ss), fr # <<>>,
           NEW f \in FrameType, f.stage = fr[1].stage, f.call = fr[1].call,
           NEW ss2, \A t \in Stages : t # f.stage => SameFlush(ss2[t], ss[t]),
           f.stage # Now => FlushAt(ss2[f.stage], f)
    PROVE  FramesOK([fr EXCEPT ![1] = f], ss2)
<1> DEFINE g == [fr EXCEPT ![1] = f]
<1>1. fr \in Seq(FrameType)
  BY DEF FramesOK
<1>2. 1 \in 1 .. Len(fr)
  BY <1>1, EmptySeq
<1>3. /\ g \in Seq(FrameType) /\ Len(g) = Len(fr)
      /\ \A k \in 1 .. Len(fr) : g[k] = IF k = 1 THEN f ELSE fr[k]
  BY <1>1, <1>2, ExceptSeq
<1>4. DOMAIN g = DOMAIN fr /\ DOMAIN fr = 1 .. Len(fr)
  BY <1>1
<1> HIDE DEF g
<1>5. \A k \in DOMAIN fr : g[k].stage = fr[k].stage
  BY <1>3, <1>4
<1>6. ASSUME NEW k \in DOMAIN fr
      PROVE  IF g[k].stage = Now THEN g[k].call \in Command ELSE FlushAt(ss2[g[k].stage], g[k])
  <2>1. CASE k = 1
    <3>1. g[k] = f /\ (f.stage = Now => f.call \in Command)
      BY <1>3, <1>4, <2>1 DEF FramesOK
    <3> QED  BY <3>1
  <2>2. CASE k # 1
    <3>1. g[k] = fr[k]
      BY <1>3, <1>4, <2>2
    <3>2. CASE fr[k].stage = Now
      BY <3>1, <3>2 DEF FramesOK
    <3>3. CASE fr[k].stage # Now
      <4>1. fr[k].stage \in Stages /\ FlushAt(ss[fr[k].stage], fr[k])
        BY <3>3, FrameStage DEF FramesOK
      <4>2. fr[k].stage # f.stage
        BY <1>2, <1>4, <2>2, <3>3 DEF FramesOK
      <4>3. FlushAt(ss2[fr[k].stage], fr[k])
        BY <4>1, <4>2, FlushAtStays
      <4> QED  BY <3>1, <3>3, <4>3
    <3> QED  BY <3>2, <3>3
  <2> QED  BY <2>1, <2>2
<1>7. \A k, l \in DOMAIN fr : g[k].stage = g[l].stage /\ g[k].stage # Now => k = l
  BY <1>5 DEF FramesOK
<1>8. ASSUME NEW t \in Stages, ss2[t].cmd_flushing
      PROVE  \E k \in DOMAIN fr : g[k].stage = t
  <2>1. CASE t = f.stage
    BY <1>2, <1>4, <1>5, <2>1
  <2>2. CASE t # f.stage
    BY <1>5, <1>8, <2>2 DEF FramesOK, SameFlush
  <2> QED  BY <2>1, <2>2
<1>9. FramesOK(g, ss2)
  BY <1>3, <1>4, <1>6, <1>7, <1>8 DEF FramesOK
<1> QED  BY <1>9 DEF g
-----------------------------------------------------------------------------
(***************************************************************************)
(* Starting a flush.                                                       *)
(***************************************************************************)
Sound(w) == IsWorld(w) /\ StagesOK(w) /\ FramesOK(w.frames, w.stages)

WithStages(w, ss) == [w EXCEPT !.stages = ss]
WithBoth(w, ss, fr) == [w EXCEPT !.stages = ss, !.frames = fr]

\* A world with other stages, part by part.
LEMMA WithStagesIs ==
    ASSUME NEW w, IsWorld(w), NEW ss, NEW fr
    PROVE  /\ WithStages(w, ss) = Parts(ss, w.store, w.frames, w.calls, w.called, w.stale_set)
           /\ WithBoth(w, ss, fr) = Parts(ss, w.store, fr, w.calls, w.called, w.stale_set)
<1> DEFINE y == WithStages(w, ss)
<1>1. y = Parts(ss, w.store, w.frames, w.calls, w.called, w.stale_set)
  BY DEF WithStages, IsWorld, Parts
<1>2. WithBoth(w, ss, fr) = [y EXCEPT !.frames = fr]
  BY DEF WithBoth, WithStages
<1> HIDE DEF y
<1>3. [y EXCEPT !.frames = fr] = Parts(ss, w.store, fr, w.calls, w.called, w.stale_set)
  BY <1>1 DEF Parts
<1> QED  BY <1>1, <1>2, <1>3 DEF y

\* A world with other stages and other frames, ...
Restaged(w, r, ss, fr) ==
    /\ IsWorld(r) /\ StagesOK(r)
    /\ r.stages = ss /\ r.frames = fr /\ r.store = w.store

\* ... and with another stage s only.
LEMMA StageChanges ==
    ASSUME NEW w, IsWorld(w), StagesOK(w), NEW s \in Stages,
           NEW ss, NEW st, ss = [w.stages EXCEPT ![s] = st], StageOK(st, w.store.gen), NEW fr
    PROVE  /\ Restaged(w, WithBoth(w, ss, fr), ss, fr)
           /\ ss[s] = st /\ \A t \in Stages : t # s => ss[t] = w.stages[t]
<1> DEFINE r == WithBoth(w, ss, fr)
<1>1. /\ r.stages = ss /\ r.store = w.store /\ r.frames = fr /\ r.calls = w.calls
      /\ r = Parts(r.stages, r.store, r.frames, r.calls, r.called, r.stale_set)
  BY WithStagesIs DEF Parts
<1> HIDE DEF r
<1>2. /\ ss \in [Stages -> StageType] /\ ss[s] = st
      /\ \A t \in Stages : t # s => ss[t] = w.stages[t]
  BY DEF IsWorld, StageOK
<1>3. IsWorld(r)
  BY <1>1, <1>2 DEF IsWorld
<1>4. StagesOK(r)
  BY <1>1, <1>2 DEF StagesOK
<1> QED  BY <1>1, <1>2, <1>3, <1>4 DEF r, Restaged

\* The frames may be left as they are.
LEMMA WithBothSame ==
    ASSUME NEW w, IsWorld(w), NEW ss
    PROVE  WithStages(w, ss) = WithBoth(w, ss, w.frames)
BY WithStagesIs

\* The queues of a stage are swapped, and the one that was filled is flushed.
Swapped(st) == [st EXCEPT !.cmd = 1 - @]
Started(st) == [Swapped(st) EXCEPT !.cmd_flushing = TRUE]

\* A stage with its queues swapped, field by field.
LEMMA SwappedIs ==
    ASSUME NEW st \in StageType
    PROVE  /\ Swapped(st) \in StageType /\ Started(st) \in StageType
           /\ Swapped(st).cmd = 1 - st.cmd /\ Started(st).cmd = 1 - st.cmd
           /\ Swapped(st).queue = st.queue /\ Started(st).queue = st.queue
           /\ Swapped(st).entries = st.entries /\ Started(st).entries = st.entries
           /\ Swapped(st).defer = st.defer /\ Started(st).defer = st.defer
           /\ Swapped(st).cmd_flushing = st.cmd_flushing /\ Started(st).cmd_flushing
           /\ st.cmd \in 0 .. 1 /\ 1 - (1 - st.cmd) = st.cmd
<1>1. st.cmd \in 0 .. 1 /\ 1 - st.cmd \in 0 .. 1 /\ 1 - (1 - st.cmd) = st.cmd
  BY DEF StageType
<1> DEFINE k == 1 - st.cmd
           a == Swapped(st)
           b == Started(st)
<1>2. a = [st EXCEPT !.cmd = k] /\ k \in 0 .. 1
  BY <1>1 DEF Swapped
<1>3. b = [a EXCEPT !.cmd_flushing = TRUE]
  BY DEF Started
<1> HIDE DEF k, a, b
<1>4. /\ a.cmd = k /\ a.queue = st.queue /\ a.entries = st.entries /\ a.defer = st.defer
      /\ a.cmd_flushing = st.cmd_flushing
  BY <1>2 DEF StageType
<1>5. a \in StageType
  BY <1>2 DEF StageType
<1>6. /\ b.cmd = a.cmd /\ b.queue = a.queue /\ b.entries = a.entries /\ b.defer = a.defer
      /\ b.cmd_flushing
  BY <1>3, <1>5 DEF StageType
<1>7. b \in StageType
  BY <1>3, <1>5 DEF StageType
<1> QED  BY <1>1, <1>4, <1>5, <1>6, <1>7 DEF a, b, k

\* A stage that is not being flushed has nothing to fill from after the swap, ...
LEMMA SwappedFills ==
    ASSUME NEW st, NEW gen, StageOK(st, gen), ~ st.cmd_flushing, NEW r \in StageType,
           r.cmd = 1 - st.cmd, r.queue = st.queue, r.entries = st.entries
    PROVE  /\ Filled(r) = <<>> /\ Chains(Filled(r), Len(Filled(r)), r.entries[r.cmd], gen)
           /\ r.queue[1 - r.cmd] = Filled(st) /\ r.entries[1 - r.cmd] = st.entries[st.cmd]
<1>1. Filled(r) = <<>> /\ \A x \in Indices : r.entries[r.cmd][x].first = -1
  BY DEF StageOK, Filled
<1>2. Len(Filled(r)) = 0
  BY <1>1
<1>3. Chains(Filled(r), 0, r.entries[r.cmd], gen)
  BY <1>1, ChainsEmpty
<1>4. 1 - r.cmd = st.cmd
  BY DEF StageOK, StageType
<1> QED  BY <1>1, <1>2, <1>3, <1>4 DEF Filled

\* ... and the entries of a queue without commands are not set.
LEMMA NothingFilled ==
    ASSUME NEW st, NEW gen, StageOK(st, gen), Filled(st) = <<>>, NEW x \in Indices
    PROVE  st.entries[st.cmd][x].first = -1
<1>1. Len(Filled(st)) = 0
  OBVIOUS
<1>2. EntryOK(Filled(st), 0, st.entries[st.cmd][x], x)
  BY <1>1 DEF StageOK, Chains
<1>3. 1 .. 0 = {}
  OBVIOUS
<1> QED  BY <1>2, <1>3 DEF EntryOK

\* Swapping the queues of a stage that has nothing to flush.
LEMMA SwappedKeeps ==
    ASSUME NEW st, NEW gen, StageOK(st, gen), ~ st.cmd_flushing, Filled(st) = <<>>
    PROVE  StageOK(Swapped(st), gen) /\ Drained(Swapped(st)) /\ ~ Swapped(st).cmd_flushing
<1> DEFINE r == Swapped(st)
<1>1. /\ r \in StageType /\ r.cmd = 1 - st.cmd /\ r.queue = st.queue /\ r.entries = st.entries
      /\ ~ r.cmd_flushing
  BY SwappedIs DEF StageOK
<1> HIDE DEF r
<1>2. /\ Filled(r) = <<>> /\ Chains(Filled(r), Len(Filled(r)), r.entries[r.cmd], gen)
      /\ r.queue[1 - r.cmd] = <<>> /\ r.entries[1 - r.cmd] = st.entries[st.cmd]
  BY <1>1, SwappedFills
<1>3. \A x \in Indices : r.entries[1 - r.cmd][x].first = -1
  BY <1>2, NothingFilled
<1> QED  BY <1>1, <1>2, <1>3 DEF StageOK, Drained, r

\* Swapping them and starting to flush at the first command.
LEMMA StartedKeeps ==
    ASSUME NEW st, NEW gen, StageOK(st, gen), ~ st.cmd_flushing,
           NEW f, f.i = 1, f.phase = "read"
    PROVE  /\ StageOK(Started(st), gen) /\ Drained(Started(st)) /\ Started(st).cmd_flushing
           /\ FlushAt(Started(st), f)
<1> DEFINE r == Started(st)
           q == Filled(st)
           n == Len(q)
           en == st.entries[st.cmd]
<1>1. /\ r \in StageType /\ r.cmd = 1 - st.cmd /\ r.queue = st.queue /\ r.entries = st.entries
      /\ r.cmd_flushing
  BY SwappedIs DEF StageOK
<1> HIDE DEF r
<1>2. /\ Filled(r) = <<>> /\ Chains(Filled(r), Len(Filled(r)), r.entries[r.cmd], gen)
      /\ r.queue[1 - r.cmd] = q /\ r.entries[1 - r.cmd] = en
  BY <1>1, SwappedFills
<1>3. n \in Nat /\ Chains(q, n, en, gen)
  BY DEF StageOK, StageType, Filled
<1>4. ASSUME NEW x \in Indices, en[x].first # -1
      PROVE  ToCome(q, f, x)
  <2> HIDE DEF q, n, en
  <2> DEFINE j == en[x].first
  <2>1. EntryOK(q, n, en[x], x)
    BY <1>3 DEF Chains
  <2>2. j \in 1 .. n /\ q[j].entry /\ q[j].e[1] = x
    BY <1>4, <2>1 DEF EntryOK, Same
  <2>3. 1 <= j /\ f.phase # "move"
    BY <2>2
  <2> HIDE DEF j
  <2> QED  BY <2>2, <2>3 DEF ToCome, n
<1>5. FlushAt(r, f)
  <2>1. f.i <= Len(r.queue[1 - r.cmd]) + 1
    <3>1. 1 <= n + 1
      BY <1>3
    <3> QED  BY <1>2, <3>1
  <2> QED  BY <1>1, <1>2, <1>4, <2>1 DEF FlushAt
<1> QED  BY <1>1, <1>2, <1>5 DEF StageOK, Drained, r

FirstFrame(s) == Frame(s, <<>>)

\* The frame of a flush that starts.
LEMMA FirstFrameIs ==
    ASSUME NEW s \in Stages
    PROVE  /\ FirstFrame(s) \in FrameType /\ FirstFrame(s).stage = s
           /\ FirstFrame(s).i = 1 /\ FirstFrame(s).phase = "read"
<1>1. <<>> \in Seq(Ids \union {NoId})
  OBVIOUS
<1>2. 1 \in Nat \ {0}
  OBVIOUS
<1> QED  BY <1>1, <1>2 DEF FirstFrame, Frame, FrameType

\* A swap and what it starts.
LEMMA SwapAndFlushKeeps ==
    ASSUME NEW w, Sound(w), NEW s \in Stages, ~ w.stages[s].cmd_flushing
    PROVE  /\ Sound(SwapAndFlush(w, s)) /\ Drained(SwapAndFlush(w, s).stages[s])
           /\ \A t \in Stages : t # s => SwapAndFlush(w, s).stages[t] = w.stages[t]
<1> DEFINE st == w.stages[s]
           gen == w.store.gen
           sa == [w.stages EXCEPT ![s] = Swapped(st)]
           sb == [w.stages EXCEPT ![s] = Started(st)]
           x == [w EXCEPT !.stages[s].cmd = 1 - @]
           f == FirstFrame(s)
           fr == <<f>> \o w.frames
           r == SwapAndFlush(w, s)
<1>1. /\ IsWorld(w) /\ StagesOK(w) /\ FramesOK(w.frames, w.stages) /\ StageOK(st, gen)
      /\ st \in StageType /\ w.stages \in [Stages -> StageType]
  BY DEF Sound, StagesOK, StageOK, IsWorld
<1>2. x = WithBoth(w, sa, w.frames)
  <2>1. x = WithStages(w, sa)
    <3>1. sa = [w.stages EXCEPT ![s].cmd = 1 - @]
      BY DEF Swapped
    <3> QED  BY <3>1 DEF WithStages
  <2> QED  BY <1>1, <2>1, WithBothSame
<1>3. r = StartFlush(x, s)
  BY DEF SwapAndFlush, Only
<1> HIDE DEF x, r
<1>4. /\ x.stages = sa /\ x.frames = w.frames /\ sa[s] = Swapped(st)
      /\ \A t \in Stages : t # s => sa[t] = w.stages[t]
  <2>1. x = Parts(sa, w.store, w.frames, w.calls, w.called, w.stale_set)
    BY <1>1, <1>2, WithStagesIs
  <2>2. x.stages = sa /\ x.frames = w.frames
    BY <2>1 DEF Parts
  <2> QED  BY <1>1, <2>2
<1>5. Flushed(x, s) = Filled(st)
  <2> HIDE DEF st
  <2>1. /\ Swapped(st).cmd = 1 - st.cmd /\ Swapped(st).queue = st.queue
        /\ 1 - (1 - st.cmd) = st.cmd
    BY <1>1, SwappedIs
  <2> QED  BY <1>4, <2>1 DEF Flushed, Filled
<1>6. CASE Filled(st) = <<>>
  <2> HIDE DEF st, sa
  <2>1. r = WithBoth(w, sa, w.frames)
    BY <1>2, <1>3, <1>5, <1>6 DEF StartFlush
  <2>2. StageOK(Swapped(st), gen) /\ Drained(Swapped(st)) /\ ~ Swapped(st).cmd_flushing
    BY <1>1, <1>6, SwappedKeeps DEF st
  <2>3. /\ IsWorld(r) /\ StagesOK(r) /\ r.stages = sa /\ r.frames = w.frames
        /\ sa[s] = Swapped(st) /\ \A t \in Stages : t # s => sa[t] = w.stages[t]
    BY <1>1, <2>1, <2>2, StageChanges DEF sa, Restaged
  <2>4. FramesOK(w.frames, sa)
    BY <1>1, <2>2, <2>3, FramesOther
  <2> QED  BY <2>2, <2>3, <2>4 DEF Sound, r
<1>7. CASE Filled(st) # <<>>
  <2>1. r = WithBoth(w, sb, fr)
    <3>1. r = [x EXCEPT !.stages[s].cmd_flushing = TRUE, !.frames = <<f>> \o @]
      BY <1>3, <1>5, <1>7 DEF StartFlush, FirstFrame
    <3>2. sb = [sa EXCEPT ![s].cmd_flushing = TRUE]
      <4> DEFINE a == Swapped(st)
      <4>1. [a EXCEPT !.cmd_flushing = TRUE] = Started(st)
        BY DEF Started
      <4>2. sa[s] = a /\ DOMAIN sa = DOMAIN w.stages
        BY <1>1
      <4>3. [sa EXCEPT ![s].cmd_flushing = TRUE] = [sa EXCEPT ![s] = Started(st)]
        BY <4>1, <4>2
      <4> HIDE DEF a, st
      <4> QED  BY <1>1, <4>3
    <3> HIDE DEF sa, sb, f, st
    <3>3. x = Parts(sa, w.store, w.frames, w.calls, w.called, w.stale_set)
      BY <1>1, <1>2, WithStagesIs
    <3>4. [x EXCEPT !.stages[s].cmd_flushing = TRUE, !.frames = <<f>> \o @]
          = Parts(sb, w.store, fr, w.calls, w.called, w.stale_set)
      <4>1. [x EXCEPT !.stages[s].cmd_flushing = TRUE, !.frames = <<f>> \o @]
            = [x EXCEPT !.stages = sb, !.frames = fr]
        BY <1>4, <3>2
      <4> DEFINE y == [x EXCEPT !.stages = sb]
      <4> HIDE DEF fr
      <4>2. y = Parts(sb, w.store, w.frames, w.calls, w.called, w.stale_set)
        BY <3>3 DEF Parts
      <4>3. [x EXCEPT !.stages = sb, !.frames = fr] = [y EXCEPT !.frames = fr]
        OBVIOUS
      <4> HIDE DEF y
      <4>4. [y EXCEPT !.frames = fr] = Parts(sb, w.store, fr, w.calls, w.called, w.stale_set)
        BY <4>2 DEF Parts
      <4> QED  BY <4>1, <4>3, <4>4
    <3> QED  BY <1>1, <3>1, <3>4, WithStagesIs
  <2>2. f \in FrameType /\ f.stage = s /\ f.i = 1 /\ f.phase = "read"
    BY FirstFrameIs
  <2> HIDE DEF st, sb, f
  <2>3. /\ StageOK(Started(st), gen) /\ Drained(Started(st)) /\ Started(st).cmd_flushing
        /\ FlushAt(Started(st), f)
    BY <1>1, <2>2, StartedKeeps DEF st
  <2>4. /\ IsWorld(r) /\ StagesOK(r) /\ r.stages = sb /\ r.frames = fr
        /\ sb[s] = Started(st) /\ \A t \in Stages : t # s => sb[t] = w.stages[t]
    <3> HIDE DEF fr
    <3> QED  BY <1>1, <2>1, <2>3, StageChanges DEF sb, st, Restaged
  <2>5. FramesOK(fr, sb)
    BY <1>1, <2>2, <2>3, <2>4, FramesPush
  <2> HIDE DEF fr
  <2> QED  BY <2>3, <2>4, <2>5 DEF Sound, r
<1> QED  BY <1>6, <1>7

\* flecs_defer_end.
LEMMA EndDeferKeeps ==
    ASSUME NEW w, Sound(w), NEW s \in Stages
    PROVE  /\ Sound(EndDefer(w, s)) /\ Drained(EndDefer(w, s).stages[s])
           /\ \A t \in Stages : t # s => EndDefer(w, s).stages[t] = w.stages[t]
<1>1. EndDefer(w, s) = IF w.stages[s].cmd_flushing THEN w ELSE SwapAndFlush(w, s)
  BY DEF EndDefer, Only
<1>2. CASE w.stages[s].cmd_flushing
  BY <1>1, <1>2 DEF Drained
<1>3. CASE ~ w.stages[s].cmd_flushing
  BY <1>1, <1>3, SwapAndFlushKeeps
<1> QED  BY <1>2, <1>3

\* The innermost flush goes on.
MovedTo(f, i, phase) == [f EXCEPT !.i = i, !.phase = phase]
Moved(fr, i, phase) == [fr EXCEPT ![1] = MovedTo(@, i, phase)]
At(w, i, phase) == [w EXCEPT !.frames = Moved(@, i, phase)]

\* The innermost flush may go on where its frame fits the queue ...
LEMMA AtIs ==
    ASSUME NEW w, IsWorld(w), StagesOK(w), NEW i, NEW phase,
           FramesOK(Moved(w.frames, i, phase), w.stages)
    PROVE  Sound(At(w, i, phase)) /\ At(w, i, phase).stages = w.stages
<1> DEFINE fr == Moved(w.frames, i, phase)
           r == At(w, i, phase)
<1>1. r = [w EXCEPT !.frames = fr]
  BY DEF At
<1> HIDE DEF fr
<1>2. r = Parts(w.stages, w.store, fr, w.calls, w.called, w.stale_set)
  BY <1>1 DEF IsWorld, Parts
<1> HIDE DEF r
<1>3. /\ r.stages = w.stages /\ r.store = w.store /\ r.frames = fr /\ r.calls = w.calls
      /\ r = Parts(r.stages, r.store, r.frames, r.calls, r.called, r.stale_set)
  BY <1>2 DEF Parts
<1>4. IsWorld(r) /\ StagesOK(r) /\ FramesOK(r.frames, r.stages)
  BY <1>3 DEF IsWorld, StagesOK, fr
<1> QED  BY <1>3, <1>4 DEF Sound, r

\* ... and after the flush of stage 0 that comes first.
LEMMA GoOnKeeps ==
    ASSUME NEW w, IsWorld(w), StagesOK(w), NEW i, NEW phase,
           FramesOK(Moved(w.frames, i, phase), w.stages)
    PROVE  /\ Sound(GoOn(w, i, phase)) /\ Drained(GoOn(w, i, phase).stages[0])
           /\ \A t \in Stages : t # 0 => GoOn(w, i, phase).stages[t] = w.stages[t]
<1>1. GoOn(w, i, phase) = EndDefer(At(w, i, phase), 0)
  BY DEF GoOn, At, Moved, MovedTo
<1> QED  BY <1>1, AtIs, EndDeferKeeps, ZeroStage
-----------------------------------------------------------------------------
(***************************************************************************)
(* The walks over a chain.                                                 *)
(***************************************************************************)

\* A walk changes the kinds of commands and what has been done with them.
Rewritten(q, q2) ==
    /\ q2 \in Seq(Command) /\ Len(q2) = Len(q)
    /\ \A j \in 1 .. Len(q) : (q2[j].entry <=> q[j].entry) /\ q2[j].e = q[j].e

\* A queue is a rewriting of itself.
LEMMA RewrittenSame ==
    ASSUME NEW q \in Seq(Command)
    PROVE  Rewritten(q, q)
BY DEF Rewritten

\* Another kind for one command is a rewriting.
LEMMA RewrittenAt ==
    ASSUME NEW q \in Seq(Command), NEW a, Rewritten(q, a), NEW j \in 1 .. Len(q),
           NEW c \in Command, c.entry <=> a[j].entry, c.e = a[j].e
    PROVE  Rewritten(q, [a EXCEPT ![j] = c])
<1> DEFINE b == [a EXCEPT ![j] = c]
<1>1. a \in Seq(Command) /\ j \in 1 .. Len(a) /\ Len(a) = Len(q)
  BY DEF Rewritten
<1>2. /\ b \in Seq(Command) /\ Len(b) = Len(a)
      /\ \A i \in 1 .. Len(a) : b[i] = IF i = j THEN c ELSE a[i]
  BY <1>1, ExceptSeq
<1> HIDE DEF b
<1>3. \A i \in 1 .. Len(q) : (b[i].entry <=> q[i].entry) /\ b[i].e = q[i].e
  BY <1>1, <1>2 DEF Rewritten
<1> QED  BY <1>1, <1>2, <1>3 DEF Rewritten, b

AddedIds == Seq(Ids \union {NoId})

BatchParts(cmds, cur, s, type, added, removed, deleted, cd) ==
    [cmds |-> cmds, cur |-> cur, store |-> s, type |-> type, added |-> added, removed |-> removed,
     deleted |-> deleted, called |-> cd]

BatchOK(q, a) ==
    /\ a = BatchParts(a.cmds, a.cur, a.store, a.type, a.added, a.removed, a.deleted, a.called)
    /\ Rewritten(q, a.cmds) /\ a.added \in AddedIds

\* One command of the first walk keeps handles and entries.
LEMMA BatchNextKeeps ==
    ASSUME NEW q \in Seq(Command), NEW a, BatchOK(q, a), NEW j \in 1 .. Len(q),
           NEW kind \in Kinds, NEW type, NEW added \in AddedIds, NEW removed
    PROVE  BatchOK(q, BatchNext(a, j, kind, type, added, removed))
<1> DEFINE r == BatchNext(a, j, kind, type, added, removed)
           c == a.cmds[j]
           done == kind # "Delete"
           d == [c EXCEPT !.kind = kind, !.done = done]
           cmds == [a.cmds EXCEPT ![j] = d]
           cur == IF kind = "Delete" THEN 0 ELSE Link(c)
           cd == IF kind = "Delete" THEN a.called ELSE Perform(a.called, c)
           ad == a.added \o added
           rm == a.removed \union removed
<1>1. r = [a EXCEPT !.cmds = cmds, !.cur = cur, !.type = type, !.added = ad, !.removed = rm,
                    !.called = cd]
  BY DEF BatchNext
<1>2. c \in Command /\ Rewritten(q, a.cmds)
  BY DEF BatchOK, Rewritten
<1>3. ad \in AddedIds
  <2>1. a.added \in AddedIds
    BY DEF BatchOK
  <2> QED  BY <2>1, ConcatProperties DEF AddedIds
<1>4. Rewritten(q, cmds)
  <2>1. d \in Command /\ (d.entry <=> c.entry) /\ d.e = c.e
    <3> HIDE DEF c
    <3> DEFINE x == [c EXCEPT !.kind = kind]
    <3>1. x \in Command /\ x.e = c.e /\ x.entry = c.entry
      BY <1>2 DEF Command
    <3>2. d = [x EXCEPT !.done = done] /\ done \in BOOLEAN
      OBVIOUS
    <3> HIDE DEF x, d, done
    <3>3. d \in Command /\ d.e = x.e /\ d.entry = x.entry
      BY <3>1, <3>2 DEF Command
    <3> QED  BY <3>1, <3>3
  <2> HIDE DEF d
  <2> QED  BY <1>2, <2>1, RewrittenAt
<1> HIDE DEF cmds, cur, cd, ad, rm
<1>5. r = BatchParts(cmds, cur, a.store, type, ad, rm, a.deleted, cd)
  <2> HIDE DEF r
  <2> QED  BY <1>1 DEF BatchOK, BatchParts
<1> HIDE DEF r
<1>6. /\ r.cmds = cmds /\ r.added = ad
      /\ r = BatchParts(r.cmds, r.cur, r.store, r.type, r.added, r.removed, r.deleted, r.called)
  BY <1>5 DEF BatchParts
<1> QED  BY <1>3, <1>4, <1>6 DEF BatchOK, r

\* So does each branch of flecs_cmd_batch_for_entity.
LEMMA BatchStepKeeps ==
    ASSUME NEW q \in Seq(Command), NEW a, BatchOK(q, a), NEW j \in 1 .. Len(q)
    PROVE  BatchOK(q, BatchStep(a, j))
<1> DEFINE c == a.cmds[j]
           s == a.store
           new == IF c.id \in a.type THEN <<>> ELSE <<c.id>>
           skip == BatchNext(a, j, "Skip", a.type, <<>>, {})
           gone == [skip EXCEPT !.cur = 0, !.deleted = TRUE]
<1>1. c \in Command
  BY DEF BatchOK, Rewritten
<1>2. <<>> \in AddedIds /\ new \in AddedIds
  <2> DEFINE id == c.id
  <2>1. id \in Ids \union {NoId}
    BY <1>1 DEF Command
  <2> HIDE DEF c, id
  <2>2. <<>> \in AddedIds /\ <<id>> \in AddedIds
    BY <2>1 DEF AddedIds
  <2> QED  BY <2>2 DEF id
<1>3. "Skip" \in Kinds /\ "Modified" \in Kinds /\ c.kind \in Kinds
  BY <1>1 DEF Command, Kinds, Operations
<1> HIDE DEF c, s, new
<1>4. \A kind \in Kinds : \A type, removed :
          /\ BatchOK(q, BatchNext(a, j, kind, type, <<>>, removed))
          /\ BatchOK(q, BatchNext(a, j, kind, type, new, removed))
  BY <1>2, BatchNextKeeps
<1>5. BatchOK(q, gone)
  <2>1. BatchOK(q, skip)
    BY <1>3, <1>4
  <2> DEFINE x == [skip EXCEPT !.cur = 0]
  <2>2. gone = [x EXCEPT !.deleted = TRUE]
    OBVIOUS
  <2> HIDE DEF skip, gone
  <2>3. x = BatchParts(skip.cmds, 0, skip.store, skip.type, skip.added, skip.removed,
                     skip.deleted, skip.called)
    BY <2>1 DEF BatchOK, BatchParts
  <2> HIDE DEF x
  <2>4. gone = BatchParts(skip.cmds, 0, skip.store, skip.type, skip.added, skip.removed,
                        TRUE, skip.called)
    BY <2>2, <2>3 DEF BatchParts
  <2>5. /\ gone.cmds = skip.cmds /\ gone.added = skip.added
        /\ gone = BatchParts(gone.cmds, gone.cur, gone.store, gone.type, gone.added, gone.removed,
                             gone.deleted, gone.called)
    BY <2>4 DEF BatchParts
  <2> QED  BY <2>1, <2>5 DEF BatchOK
<1> HIDE DEF gone
<1>6. BatchStep(a, j) =
        CASE ~ Valid(s, c.id) /\ c.id \in RemovePairs -> skip
          [] ~ Valid(s, c.id) /\ c.id \in DeletePairs -> gone
          [] Valid(s, c.id) /\ c.kind = "Add" ->
                BatchNext(a, j, "Skip", a.type \union {c.id}, new, {})
          [] Valid(s, c.id) /\ c.kind = "AddModified" ->
                BatchNext(a, j, "Modified", a.type \union {c.id}, new, {})
          [] Valid(s, c.id) /\ c.kind \in {"Set", "Ensure"} ->
                BatchNext(a, j, c.kind, a.type \union {c.id}, new, {})
          [] Valid(s, c.id) /\ c.kind = "Remove" ->
                BatchNext(a, j, "Skip", a.type \ {c.id}, <<>>, {c.id} \intersect a.type)
          [] c.kind = "Clear" -> BatchNext(a, j, "Skip", {}, <<>>, a.type)
          [] OTHER -> BatchNext(a, j, c.kind, a.type, <<>>, {})
  BY DEF BatchStep, c, s, new, skip, gone
<1> QED  BY <1>3, <1>4, <1>5, <1>6

\* The walk of flecs_cmd_batch_for_entity.
BatchWalk(ctx, a, j) == Only({IF j = x.cur THEN BatchStep(x, j) ELSE x : x \in {a}})
BatchInv(ctx, a, k) == BatchOK(ctx, a)

Batches == INSTANCE Induction WITH Step <- BatchWalk, Inv <- BatchInv

Positions(n) == [j \in 1 .. n |-> j]

BatchStart(w, cmds, i) ==
    BatchParts(cmds, i, w.store, Type(w.store, cmds[i].e), <<>>, {}, FALSE, w.called)

\* The first walk is a fold of the induction module.
LEMMA BatchFold ==
    ASSUME NEW w, NEW cmds, NEW i
    PROVE  Batch(w, cmds, i) = Batches!Fold(cmds, BatchStart(w, cmds, i), Positions(Len(cmds)))
BY DEF Batch, WalkChain, BatchStart, BatchParts, Positions, Batches!Fold, BatchWalk, FoldLeft,
       Batches!FoldLeft, MapThenFoldSet, Batches!MapThenFoldSet, Max, Batches!Max

\* It goes over the positions of the queue.
LEMMA PositionsAre ==
    ASSUME NEW q \in Seq(Command)
    PROVE  /\ Len(q) \in Nat /\ DOMAIN Positions(Len(q)) = 1 .. Len(q)
           /\ \A k \in 1 .. Len(q) : Positions(Len(q))[k] = k
BY DEF Positions

\* The first walk over a chain keeps the handles and the entries of all commands.
LEMMA BatchKeeps ==
    ASSUME NEW w, NEW q \in Seq(Command), NEW i
    PROVE  BatchOK(q, Batch(w, q, i))
<1> DEFINE start == BatchStart(w, q, i)
           n == Len(q)
           ps == Positions(n)
<1>2. n \in Nat /\ DOMAIN ps = 1 .. n /\ \A k \in 1 .. n : ps[k] = k
  BY PositionsAre
<1> HIDE DEF ps
<1>3. BatchInv(q, start, 0)
  <2>1. /\ start.cmds = q /\ start.added = <<>>
        /\ start = BatchParts(start.cmds, start.cur, start.store, start.type, start.added, start.removed,
                              start.deleted, start.called)
    BY DEF BatchStart, BatchParts
  <2>2. <<>> \in AddedIds
    BY DEF AddedIds
  <2>3. Rewritten(q, q)
    BY RewrittenSame
  <2> HIDE DEF start
  <2> QED  BY <2>1, <2>2, <2>3 DEF BatchInv, BatchOK
<1> HIDE DEF start
<1>4. ASSUME NEW a, NEW k \in 1 .. n, BatchInv(q, a, k - 1)
      PROVE  BatchInv(q, BatchWalk(q, a, ps[k]), k)
  <2>1. BatchOK(q, a)
    BY <1>4 DEF BatchInv
  <2>2. BatchWalk(q, a, ps[k]) = IF k = a.cur THEN BatchStep(a, k) ELSE a
    BY <1>2 DEF BatchWalk, Only
  <2>3. BatchOK(q, BatchStep(a, k))
    BY <2>1, BatchStepKeeps
  <2> QED  BY <2>1, <2>2, <2>3 DEF BatchInv
<1>5. \A a : \A k \in 1 .. n : BatchInv(q, a, k - 1) => BatchInv(q, BatchWalk(q, a, ps[k]), k)
  BY <1>4
<1> HIDE DEF n
<1>6. BatchInv(q, Batches!Fold(q, start, ps), n)
  BY <1>2, <1>3, <1>5, Batches!FoldInvariant
<1>7. Batch(w, q, i) = Batches!Fold(q, start, ps)
  BY BatchFold DEF start, ps, n
<1> QED  BY <1>6, <1>7 DEF BatchInv

\* The walk that copies the values.
CopyParts(cmds, cur, s) == [cmds |-> cmds, cur |-> cur, store |-> s]

CopyOK(q, gen, a) ==
    /\ a = CopyParts(a.cmds, a.cur, a.store) /\ Rewritten(q, a.cmds)
    /\ IsStore(a.store) /\ a.store.gen = gen

\* One command of the second walk keeps handles, entries and generations.
LEMMA CopyStepKeeps ==
    ASSUME NEW q \in Seq(Command), NEW gen, NEW a, CopyOK(q, gen, a), NEW j \in 1 .. Len(q)
    PROVE  CopyOK(q, gen, CopyStep(a, j))
<1> DEFINE r == CopyStep(a, j)
           c == a.cmds[j]
           valued == c.kind \in {"Set", "Ensure"}
           present == Has(a.store, c.e, c.id)
           cur == IF c.kind = "Delete" THEN 0 ELSE Link(c)
           store2 == IF valued /\ present THEN Put(a.store, c.e, c.id, c.val) ELSE a.store
           kind == CASE valued /\ present /\ c.kind = "Set" -> "Modified"
                     [] valued /\ ~ (present /\ c.kind = "Set") -> "Skip"
                     [] OTHER -> c.kind
           d == [c EXCEPT !.kind = kind]
           cmds == [a.cmds EXCEPT ![j] = d]
<1>1. c \in Command /\ Rewritten(q, a.cmds)
  BY DEF CopyOK, Rewritten
<1>2. r = [a EXCEPT !.cur = cur, !.store = store2, !.cmds = cmds]
  BY DEF CopyStep
<1>3. IsStore(store2) /\ store2.gen = gen
  <2> HIDE DEF c, valued, present
  <2> QED  BY PutKeeps DEF CopyOK
<1>4. Rewritten(q, cmds)
  <2>1. kind \in Kinds
    <3>1. c.kind \in Kinds /\ "Modified" \in Kinds /\ "Skip" \in Kinds
      BY <1>1 DEF Command, Kinds, Operations
    <3> HIDE DEF c, valued, present
    <3> QED  BY <3>1
  <2> HIDE DEF c, kind
  <2>2. d \in Command /\ d.entry = c.entry /\ d.e = c.e
    BY <1>1, <2>1 DEF Command
  <2> HIDE DEF d
  <2> QED  BY <1>1, <2>2, RewrittenAt DEF c
<1> HIDE DEF cur, store2, cmds
<1>5. r = CopyParts(cmds, cur, store2)
  <2> HIDE DEF r
  <2> QED  BY <1>2 DEF CopyOK, CopyParts
<1> HIDE DEF r
<1>6. r.cmds = cmds /\ r.store = store2 /\ r = CopyParts(r.cmds, r.cur, r.store)
  BY <1>5 DEF CopyParts
<1> QED  BY <1>3, <1>4, <1>6 DEF CopyOK, r

Walk(q, gen) == [q |-> q, gen |-> gen]

CopyWalk(ctx, a, j) == Only({IF j = x.cur THEN CopyStep(x, j) ELSE x : x \in {a}})
CopyInv(ctx, a, k) == CopyOK(ctx.q, ctx.gen, a)

Copies == INSTANCE Induction WITH Step <- CopyWalk, Inv <- CopyInv

Copy(q, i, s) ==
    WalkChain(CopyStep, [cmds |-> q, cur |-> i, store |-> s], Len(q))

\* The second walk is a fold of the induction module.
LEMMA CopyFold ==
    ASSUME NEW q, NEW i, NEW s, NEW ctx
    PROVE  Copy(q, i, s) = Copies!Fold(ctx, [cmds |-> q, cur |-> i, store |-> s],
                                       Positions(Len(q)))
BY DEF Copy, WalkChain, Positions, Copies!Fold, CopyWalk, FoldLeft, Copies!FoldLeft, MapThenFoldSet,
       Copies!MapThenFoldSet, Max, Copies!Max

\* The second walk over a chain keeps handles, entries and generations.
LEMMA CopyKeeps ==
    ASSUME NEW q \in Seq(Command), NEW i, NEW s, IsStore(s)
    PROVE  CopyOK(q, s.gen, Copy(q, i, s))
<1> DEFINE ctx == Walk(q, s.gen)
           start == [cmds |-> q, cur |-> i, store |-> s]
           n == Len(q)
           ps == Positions(n)
<1>1. ctx.q = q /\ ctx.gen = s.gen
  BY DEF Walk
<1>2. n \in Nat /\ DOMAIN ps = 1 .. n /\ \A k \in 1 .. n : ps[k] = k
  BY PositionsAre
<1> HIDE DEF ps, ctx
<1>3. CopyInv(ctx, start, 0)
  <2>1. start.cmds = q /\ start.store = s /\ start = CopyParts(start.cmds, start.cur, start.store)
    BY DEF CopyParts
  <2>2. Rewritten(q, q)
    BY RewrittenSame
  <2> HIDE DEF start
  <2> QED  BY <1>1, <2>1, <2>2 DEF CopyInv, CopyOK
<1>4. Copy(q, i, s) = Copies!Fold(ctx, start, ps)
  BY CopyFold DEF ps
<1> HIDE DEF start
<1>5. ASSUME NEW a, NEW k \in 1 .. n, CopyInv(ctx, a, k - 1)
      PROVE  CopyInv(ctx, CopyWalk(ctx, a, ps[k]), k)
  <2>1. CopyOK(q, s.gen, a)
    BY <1>1, <1>5 DEF CopyInv
  <2>2. CopyWalk(ctx, a, ps[k]) = IF k = a.cur THEN CopyStep(a, k) ELSE a
    BY <1>2 DEF CopyWalk, Only
  <2>3. CopyOK(q, s.gen, CopyStep(a, k))
    BY <2>1, CopyStepKeeps
  <2> QED  BY <1>1, <2>1, <2>2, <2>3 DEF CopyInv
<1>6. \A a : \A k \in 1 .. n : CopyInv(ctx, a, k - 1) => CopyInv(ctx, CopyWalk(ctx, a, ps[k]), k)
  BY <1>5
<1> HIDE DEF n
<1>7. CopyInv(ctx, Copies!Fold(ctx, start, ps), n)
  BY <1>2, <1>3, <1>6, Copies!FoldInvariant
<1> QED  BY <1>1, <1>4, <1>7 DEF CopyInv
-----------------------------------------------------------------------------
(***************************************************************************)
(* The queue that is being flushed.                                        *)
(***************************************************************************)

\* Other commands and entries in the queue that is being flushed.
WithFlushed(st, q, en) ==
    [st EXCEPT !.queue = [st.queue EXCEPT ![1 - st.cmd] = q],
               !.entries = [st.entries EXCEPT ![1 - st.cmd] = en]]

\* What is then the same.
Reflushed(st, r, q, en) ==
    /\ r \in StageType /\ r.cmd = st.cmd /\ r.defer = st.defer
    /\ r.cmd_flushing = st.cmd_flushing
    /\ r.queue[1 - st.cmd] = q /\ r.entries[1 - st.cmd] = en
    /\ r.queue[st.cmd] = st.queue[st.cmd] /\ r.entries[st.cmd] = st.entries[st.cmd]

\* The other fields and the queue that is filled stay.
LEMMA WithFlushedIs ==
    ASSUME NEW st \in StageType, NEW q \in Seq(Command), NEW en \in [Indices -> Entry]
    PROVE  Reflushed(st, WithFlushed(st, q, en), q, en)
<1> DEFINE r == WithFlushed(st, q, en)
           k == 1 - st.cmd
           rq == [st.queue EXCEPT ![k] = q]
           re == [st.entries EXCEPT ![k] = en]
<1>1. /\ st.cmd \in 0 .. 1 /\ st.queue \in [0 .. 1 -> Seq(Command)] /\ k \in 0 .. 1
      /\ st.entries \in [0 .. 1 -> [Indices -> Entry]] /\ k # st.cmd
      /\ st.defer \in Int /\ st.cmd_flushing \in BOOLEAN
  BY DEF StageType
<1> HIDE DEF k
<1>2. rq \in [0 .. 1 -> Seq(Command)] /\ rq[k] = q /\ rq[st.cmd] = st.queue[st.cmd]
  BY <1>1
<1>3. /\ re \in [0 .. 1 -> [Indices -> Entry]] /\ re[k] = en
      /\ re[st.cmd] = st.entries[st.cmd]
  BY <1>1
<1>4. r = [st EXCEPT !.queue = rq, !.entries = re]
  BY DEF WithFlushed, k
<1> HIDE DEF rq, re, r
<1>5. /\ r.queue = rq /\ r.entries = re /\ r.cmd = st.cmd /\ r.defer = st.defer
      /\ r.cmd_flushing = st.cmd_flushing
  BY <1>4 DEF StageType
<1>6. r \in StageType
  BY <1>1, <1>2, <1>3, <1>4 DEF StageType
<1>7. Reflushed(st, r, q, en)
  BY <1>2, <1>3, <1>5, <1>6 DEF Reflushed, k
<1> QED  BY <1>7 DEF r

\* A rewritten queue leaves a stage that is flushed as it should be.
LEMMA WithFlushedKeeps ==
    ASSUME NEW st, NEW gen, StageOK(st, gen), st.cmd_flushing,
           NEW q \in Seq(Command), NEW en \in [Indices -> Entry]
    PROVE  StageOK(WithFlushed(st, q, en), gen) /\ Drained(WithFlushed(st, q, en))
<1> DEFINE r == WithFlushed(st, q, en)
<1>1. /\ r \in StageType /\ r.cmd = st.cmd /\ r.cmd_flushing = st.cmd_flushing
      /\ r.queue[r.cmd] = st.queue[st.cmd] /\ r.entries[r.cmd] = st.entries[st.cmd]
  <2>1. st \in StageType
    BY DEF StageOK
  <2>2. Reflushed(st, r, q, en)
    BY <2>1, WithFlushedIs
  <2> HIDE DEF r
  <2> QED  BY <2>2 DEF Reflushed
<1> HIDE DEF r
<1> QED  BY <1>1 DEF StageOK, Drained, Filled, r

\* The walks over a chain move no command and clear no entry.
LEMMA FlushAtRewritten ==
    ASSUME NEW st, NEW f, FlushAt(st, f), NEW q, Rewritten(st.queue[1 - st.cmd], q),
           NEW r, r.cmd_flushing, r.queue[1 - r.cmd] = q,
           r.entries[1 - r.cmd] = st.entries[1 - st.cmd],
           NEW g, g.i = f.i, g.phase # "move"
    PROVE  FlushAt(r, g)
<1> DEFINE p == st.queue[1 - st.cmd]
<1>1. /\ Len(q) = Len(p)
      /\ \A j \in 1 .. Len(p) : (q[j].entry <=> p[j].entry) /\ q[j].e = p[j].e
  BY DEF Rewritten
<1>2. ASSUME NEW x \in Indices, ToCome(p, f, x)
      PROVE  ToCome(q, g, x)
  BY <1>1, <1>2 DEF ToCome
<1> QED  BY <1>1, <1>2 DEF FlushAt

\* The entry of an entity is invalidated when its command is reached.
Cleared(en, c) == IF c.entry THEN [en EXCEPT ![c.e[1]].first = -1] ELSE en

\* Then the entry no longer points into the queue.
LEMMA ClearedIs ==
    ASSUME NEW en \in [Indices -> Entry], NEW c, c.e[1] \in Indices
    PROVE  /\ Cleared(en, c) \in [Indices -> Entry]
           /\ \A x \in Indices : Cleared(en, c)[x].first # -1 =>
                  en[x].first # -1 /\ ~ (c.entry /\ c.e[1] = x)
<1> DEFINE y == c.e[1]
           old == en[y]
           d == [old EXCEPT !.first = -1]
<1>1. CASE c.entry
  <2>1. Cleared(en, c) = [en EXCEPT ![y] = d]
    BY <1>1 DEF Cleared
  <2>2. old \in Entry
    OBVIOUS
  <2>3. d \in Entry /\ d.first = -1
    <3> HIDE DEF old
    <3> QED  BY <2>2 DEF Entry
  <2> HIDE DEF d
  <2> QED  BY <2>1, <2>3
<1>2. CASE ~ c.entry
  BY <1>2 DEF Cleared
<1> QED  BY <1>1, <1>2

\* The flush is past its command, or about to move the value of it.
PastOr(f, g) == (g.i = f.i + 1 /\ g.phase # "move") \/ (g.i = f.i /\ g.phase = "move")

\* A flush goes on past a command that owns an entry only after clearing it.
LEMMA FlushAtNext ==
    ASSUME NEW st \in StageType, NEW f, FlushAt(st, f), f.i \in 1 .. Len(st.queue[1 - st.cmd]),
           NEW q, q = st.queue[1 - st.cmd],
           NEW r, r.cmd_flushing, r.queue[1 - r.cmd] = q,
           r.entries[1 - r.cmd] = Cleared(st.entries[1 - st.cmd], q[f.i]),
           NEW g, PastOr(f, g)
    PROVE  FlushAt(r, g)
<1> DEFINE c == q[f.i]
           en == st.entries[1 - st.cmd]
           n == Len(q)
<1>1. q \in Seq(Command) /\ en \in [Indices -> Entry] /\ n \in Nat
  BY DEF StageType
<1>2. c \in Command /\ f.i \in 1 .. n /\ c.e[1] \in Indices
  <2>1. f.i \in 1 .. n /\ c \in Command
    BY <1>1
  <2> HIDE DEF c, n
  <2> QED  BY <2>1 DEF Command
<1>3. g.i <= n + 1
  BY <1>1, <1>2 DEF PastOr
<1>4. ASSUME NEW x \in Indices, Cleared(en, c)[x].first # -1
      PROVE  ToCome(q, g, x)
  <2>1. en[x].first # -1 /\ ~ (c.entry /\ c.e[1] = x)
    BY <1>1, <1>2, <1>4, ClearedIs
  <2>2. ToCome(q, f, x)
    BY <2>1 DEF FlushAt
  <2>3. PICK j \in 1 .. n : q[j].entry /\ q[j].e[1] = x /\ f.i <= j
    BY <2>2 DEF ToCome
  <2>4. j # f.i
    BY <2>1, <2>3
  <2>5. f.i < j /\ f.i + 1 <= j
    BY <1>1, <1>2, <2>3, <2>4
  <2>6. g.i <= j /\ (g.phase = "move" => g.i < j)
    BY <2>5 DEF PastOr
  <2> HIDE DEF n
  <2> QED  BY <2>3, <2>6 DEF ToCome, n
<1> QED  BY <1>3, <1>4 DEF FlushAt

\* Another frame in the place of the innermost one.
AddedTo(f, added) == [f EXCEPT !.added = added]
WithAdded(fr, added) == [fr EXCEPT ![1] = AddedTo(@, added)]
Onward(f, i, phase, added) == MovedTo(AddedTo(f, added), i, phase)

Phases == {"read", "copy", "exec", "move"}

FrameParts(s, call, i, phase, added) ==
    [stage |-> s, call |-> call, i |-> i, phase |-> phase, added |-> added]

\* A frame that went on, field by field ...
LEMMA OnwardParts ==
    ASSUME NEW f \in FrameType, NEW i, NEW phase, NEW added
    PROVE  /\ Onward(f, i, phase, added) = FrameParts(f.stage, f.call, i, phase, added)
           /\ AddedTo(f, f.added) = f
<1> DEFINE a == AddedTo(f, added)
           b == [a EXCEPT !.i = i]
<1>1. a = FrameParts(f.stage, f.call, f.i, f.phase, added) /\ AddedTo(f, f.added) = f
  BY DEF FrameType, FrameParts, AddedTo
<1>2. b = FrameParts(f.stage, f.call, i, f.phase, added)
  <2> HIDE DEF a
  <2> QED  BY <1>1 DEF FrameParts
<1>3. Onward(f, i, phase, added) = [b EXCEPT !.phase = phase]
  BY DEF Onward, MovedTo
<1>4. [b EXCEPT !.phase = phase] = FrameParts(f.stage, f.call, i, phase, added)
  <2> HIDE DEF b
  <2> QED  BY <1>2 DEF FrameParts
<1> QED  BY <1>1, <1>3, <1>4

IsOnward(f, r, i, phase) ==
    /\ r \in FrameType /\ r.stage = f.stage /\ r.call = f.call
    /\ r.i = i /\ r.phase = phase

\* ... and as a frame of the same flush.
LEMMA OnwardIs ==
    ASSUME NEW f \in FrameType, NEW i \in Nat \ {0}, NEW phase \in Phases, NEW added \in AddedIds
    PROVE  IsOnward(f, Onward(f, i, phase, added), i, phase)
<1> DEFINE r == Onward(f, i, phase, added)
<1>1. f.stage \in Stages \union {Now} /\ f.call \in Command \union {<<>>}
  BY DEF FrameType
<1>2. r = FrameParts(f.stage, f.call, i, phase, added)
  BY OnwardParts
<1> HIDE DEF r
<1>3. r \in FrameType
  BY <1>1, <1>2 DEF FrameType, Phases, AddedIds, FrameParts
<1>4. IsOnward(f, r, i, phase)
  BY <1>2, <1>3 DEF IsOnward, FrameParts
<1> QED  BY <1>4 DEF r

\* The frames with the innermost one moved.
LEMMA MovedIs ==
    ASSUME NEW fr \in Seq(FrameType), fr # <<>>, NEW i, NEW phase, NEW added
    PROVE  /\ Moved(fr, i, phase) = [fr EXCEPT ![1] = Onward(fr[1], i, phase, fr[1].added)]
           /\ Moved(WithAdded(fr, added), i, phase)
                = [fr EXCEPT ![1] = Onward(fr[1], i, phase, added)]
<1> DEFINE f == fr[1]
           g == AddedTo(f, added)
           fr2 == [fr EXCEPT ![1] = g]
<1>1. 1 \in DOMAIN fr /\ f \in FrameType
  BY EmptySeq
<1>2. AddedTo(f, f.added) = f
  BY <1>1, OnwardParts
<1>3. Moved(fr, i, phase) = [fr EXCEPT ![1] = Onward(f, i, phase, f.added)]
  <2>1. Moved(fr, i, phase) = [fr EXCEPT ![1] = MovedTo(f, i, phase)]
    BY DEF Moved
  <2> QED  BY <1>2, <2>1 DEF Onward
<1>4. Moved(WithAdded(fr, added), i, phase) = [fr EXCEPT ![1] = Onward(f, i, phase, added)]
  <2>1. WithAdded(fr, added) = fr2
    BY DEF WithAdded
  <2>2. fr2[1] = g /\ DOMAIN fr2 = DOMAIN fr
    BY <1>1
  <2>3. Moved(fr2, i, phase) = [fr2 EXCEPT ![1] = MovedTo(g, i, phase)]
    <3> HIDE DEF fr2, g
    <3>1. Moved(fr2, i, phase) = [fr2 EXCEPT ![1] = MovedTo(fr2[1], i, phase)]
      BY DEF Moved
    <3> QED  BY <2>2, <3>1
  <2> DEFINE a == MovedTo(g, i, phase)
  <2>4. a = Onward(f, i, phase, added)
    BY DEF Onward
  <2>5. [fr2 EXCEPT ![1] = a] = [fr EXCEPT ![1] = a]
    <3> HIDE DEF g, a
    <3> QED  BY <1>1
  <2> HIDE DEF fr2, a, g
  <2> QED  BY <2>1, <2>3, <2>4, <2>5 DEF a
<1> QED  BY <1>3, <1>4

\* The frames after the innermost flush went on, in a world in which the other
\* stages are flushed as before.
LEMMA FramesMoved ==
    ASSUME NEW fr, NEW ss, FramesOK(fr, ss), fr # <<>>, NEW i \in Nat \ {0},
           NEW phase \in Phases, NEW added \in AddedIds,
           NEW ss2, \A t \in Stages : t # fr[1].stage => SameFlush(ss2[t], ss[t]),
           fr[1].stage # Now =>
               \A g : g.i = i /\ g.phase = phase => FlushAt(ss2[fr[1].stage], g)
    PROVE  /\ FramesOK(Moved(fr, i, phase), ss2)
           /\ FramesOK(Moved(WithAdded(fr, added), i, phase), ss2)
<1>1. fr \in Seq(FrameType)
  BY DEF FramesOK
<1>2. fr[1] \in FrameType
  BY <1>1, EmptySeq
<1>3. fr[1].added \in AddedIds
  BY <1>2 DEF FrameType, AddedIds
<1>4. ASSUME NEW ad \in AddedIds
      PROVE  FramesOK([fr EXCEPT ![1] = Onward(fr[1], i, phase, ad)], ss2)
  <2> DEFINE f == Onward(fr[1], i, phase, ad)
  <2>1. /\ f \in FrameType /\ f.stage = fr[1].stage /\ f.call = fr[1].call
        /\ f.i = i /\ f.phase = phase
    <3>1. IsOnward(fr[1], f, i, phase)
      BY <1>2, OnwardIs
    <3> HIDE DEF f
    <3> QED  BY <3>1 DEF IsOnward
  <2> HIDE DEF f
  <2>2. f.stage # Now => FlushAt(ss2[f.stage], f)
    BY <2>1
  <2>3. \A t \in Stages : t # f.stage => SameFlush(ss2[t], ss[t])
    BY <2>1
  <2>4. FramesOK([fr EXCEPT ![1] = f], ss2)
    BY <2>1, <2>2, <2>3, FramesTop
  <2> QED  BY <2>4 DEF f
<1> QED  BY <1>1, <1>3, <1>4, MovedIs
-----------------------------------------------------------------------------
(***************************************************************************)
(* The innermost flush of a world.                                         *)
(***************************************************************************)

\* The commands of a flush are those of the queue that is not filled.
LEMMA CommandsAre ==
    ASSUME NEW w, Sound(w), w.frames # <<>>
    PROVE  /\ w.frames[1] \in FrameType /\ Commands(w, w.frames[1]) \in Seq(Command)
           /\ w.frames[1].i \in Nat \ {0}
           /\ w.frames[1].stage # Now =>
                /\ w.frames[1].stage \in Stages
                /\ FlushAt(w.stages[w.frames[1].stage], w.frames[1])
                /\ Commands(w, w.frames[1]) = w.stages[w.frames[1].stage].queue
                                                [1 - w.stages[w.frames[1].stage].cmd]
<1> DEFINE f == w.frames[1]
           s == f.stage
           st == w.stages[s]
<1>1. w.frames \in Seq(FrameType) /\ FramesOK(w.frames, w.stages)
  BY DEF Sound, FramesOK
<1>2. 1 \in DOMAIN w.frames /\ f \in FrameType
  BY <1>1, EmptySeq
<1>3. CASE s = Now
  <2>1. f.call \in Command
    BY <1>1, <1>2, <1>3 DEF FramesOK
  <2>2. Commands(w, f) = <<f.call>>
    BY <1>3 DEF Commands
  <2> DEFINE c == f.call
  <2>3. <<c>> \in Seq(Command)
    <3> HIDE DEF c
    <3>1. c \in Command
      BY <2>1 DEF c
    <3> QED  BY <3>1
  <2> QED  BY <1>2, <1>3, <2>2, <2>3 DEF FrameType
<1>4. CASE s # Now
  <2>1. s \in Stages /\ FlushAt(st, f)
    BY <1>1, <1>2, <1>4, FrameStage DEF FramesOK
  <2>2. Commands(w, f) = st.queue[1 - st.cmd]
    BY <1>4 DEF Commands, Flushed
  <2>3. st \in StageType
    BY <2>1 DEF Sound, IsWorld
  <2>4. st.queue[1 - st.cmd] \in Seq(Command)
    <3> HIDE DEF st
    <3> QED  BY <2>3 DEF StageType
  <2> QED  BY <1>2, <1>4, <2>1, <2>2, <2>4 DEF FrameType
<1> QED  BY <1>3, <1>4

\* w2 differs from w in the queue that the innermost flush is at, and is ready for
\* the flush to go on at i with this phase.
ReadyFor(w, w2, i, phase) ==
    /\ IsWorld(w2) /\ StagesOK(w2) /\ w2.store.gen = w.store.gen
    /\ FramesOK(Moved(w2.frames, i, phase), w2.stages)
    /\ \A t \in Stages : Drained(w.stages[t]) => Drained(w2.stages[t])

\* Then it may go on after operations that changed the store and queued commands.
LEMMA GoesOn ==
    ASSUME NEW w, \A t \in Stages : Drained(w.stages[t]), NEW w2, NEW i, NEW phase,
           ReadyFor(w, w2, i, phase), NEW w3, Beside(w2, w3)
    PROVE  /\ Sound(GoOn(w3, i, phase))
           /\ \A t \in Stages : Drained(GoOn(w3, i, phase).stages[t])
<1>1. IsWorld(w3) /\ StagesOK(w3) /\ w3.frames = w2.frames
  BY DEF Beside
<1>2. \A t \in Stages : SameFlush(w3.stages[t], w2.stages[t])
  BY DEF Beside, SameFlush
<1>3. FramesOK(Moved(w3.frames, i, phase), w3.stages)
  BY <1>1, <1>2, FramesStay DEF ReadyFor
<1>4. \A t \in Stages : t # 0 => Drained(w3.stages[t])
  BY DEF Beside, ReadyFor
<1>5. /\ Sound(GoOn(w3, i, phase)) /\ Drained(GoOn(w3, i, phase).stages[0])
      /\ \A t \in Stages : t # 0 => GoOn(w3, i, phase).stages[t] = w3.stages[t]
  BY <1>1, <1>3, GoOnKeeps
<1> QED  BY <1>4, <1>5

\* Other commands and entries in the queue of stage s, which is being flushed.
Refilled(w, s, q, en) == [w.stages EXCEPT ![s] = WithFlushed(w.stages[s], q, en)]

IsRefilled(w, ss, s, q, en) ==
    /\ Reflushed(w.stages[s], ss[s], q, en)
    /\ \A t \in Stages : t # s => ss[t] = w.stages[t]
    /\ \A t \in Stages : Drained(w.stages[t]) => Drained(ss[t])

\* Rewriting the queue of a flush leaves the world as it should be.
LEMMA RefilledIs ==
    ASSUME NEW w, IsWorld(w), StagesOK(w), NEW s \in Stages, w.stages[s].cmd_flushing,
           NEW q \in Seq(Command), NEW en \in [Indices -> Entry], NEW fr
    PROVE  /\ Restaged(w, WithBoth(w, Refilled(w, s, q, en), fr), Refilled(w, s, q, en), fr)
           /\ IsRefilled(w, Refilled(w, s, q, en), s, q, en)
<1> DEFINE st == w.stages[s]
           st2 == WithFlushed(st, q, en)
           ss == Refilled(w, s, q, en)
<1>1. StageOK(st, w.store.gen) /\ st \in StageType
  BY DEF StagesOK, StageOK
<1>2. StageOK(st2, w.store.gen) /\ Drained(st2)
  BY <1>1, WithFlushedKeeps
<1>3. Reflushed(st, st2, q, en)
  BY <1>1, WithFlushedIs
<1>4. ss = [w.stages EXCEPT ![s] = st2]
  BY DEF Refilled
<1> HIDE DEF st2, ss
<1>5. /\ Restaged(w, WithBoth(w, ss, fr), ss, fr)
      /\ ss[s] = st2 /\ \A t \in Stages : t # s => ss[t] = w.stages[t]
  <2> HIDE DEF st
  <2>1. Restaged(w, WithBoth(w, ss, fr), ss, fr)
    BY <1>2, <1>4, StageChanges
  <2>2. ss[s] = st2 /\ \A t \in Stages : t # s => ss[t] = w.stages[t]
    <3>1. w.stages \in [Stages -> StageType]
      BY DEF IsWorld
    <3> QED  BY <1>4, <3>1
  <2> QED  BY <2>1, <2>2
<1>6. \A t \in Stages : Drained(w.stages[t]) => Drained(ss[t])
  BY <1>2, <1>5
<1> QED  BY <1>3, <1>5, <1>6 DEF ss, IsRefilled, st

\* Other stages, that fit any frames.
Fits(w, ss) == \A fr : Restaged(w, WithBoth(w, ss, fr), ss, fr)

\* Stages that did not change fit the world.
LEMMA SameFits ==
    ASSUME NEW w, IsWorld(w), StagesOK(w)
    PROVE  Fits(w, w.stages)
<1> SUFFICES ASSUME NEW fr
             PROVE  Restaged(w, WithBoth(w, w.stages, fr), w.stages, fr)
  BY DEF Fits
<1> DEFINE r == WithBoth(w, w.stages, fr)
<1>1. /\ r.stages = w.stages /\ r.store = w.store /\ r.frames = fr /\ r.calls = w.calls
      /\ r = Parts(r.stages, r.store, r.frames, r.calls, r.called, r.stale_set)
  BY WithStagesIs DEF Parts
<1> HIDE DEF r
<1>2. IsWorld(r) /\ StagesOK(r)
  BY <1>1 DEF IsWorld, StagesOK
<1> QED  BY <1>1, <1>2 DEF r, Restaged

\* What a walk over a chain leaves to be flushed.
Walked(w, f, ss) ==
    /\ Fits(w, ss)
    /\ \A t \in Stages : t # f.stage => ss[t] = w.stages[t]
    /\ f.stage # Now => \A g : g.i = f.i /\ g.phase # "move" => FlushAt(ss[f.stage], g)
    /\ \A t \in Stages : Drained(w.stages[t]) => Drained(ss[t])

\* Writing back the commands of a walk.
LEMMA SetCommandsIs ==
    ASSUME NEW w, Sound(w), w.frames # <<>>, NEW f, f = w.frames[1],
           NEW cmds, Rewritten(Commands(w, f), cmds)
    PROVE  \E ss : SetCommands(w, f, cmds) = WithBoth(w, ss, w.frames) /\ Walked(w, f, ss)
<1> DEFINE s == f.stage
           st == w.stages[s]
           en == st.entries[1 - st.cmd]
<1>1. IsWorld(w) /\ StagesOK(w) /\ FramesOK(w.frames, w.stages)
  BY DEF Sound
<1>2. /\ f \in FrameType /\ Commands(w, f) \in Seq(Command)
      /\ s # Now => /\ s \in Stages /\ FlushAt(st, f)
                    /\ Commands(w, f) = st.queue[1 - st.cmd]
  BY CommandsAre
<1>3. CASE s = Now
  <2>1. SetCommands(w, f, cmds) = w
    BY <1>3 DEF SetCommands
  <2>2. w = WithBoth(w, w.stages, w.frames)
    BY <1>1, WithStagesIs DEF IsWorld
  <2>3. Walked(w, f, w.stages)
    BY <1>1, <1>3, SameFits DEF Walked
  <2> QED  BY <2>1, <2>2, <2>3
<1>4. CASE s # Now
  <2> DEFINE ss == Refilled(w, s, cmds, en)
  <2>1. /\ s \in Stages /\ st \in StageType /\ FlushAt(st, f) /\ st.cmd_flushing
        /\ Rewritten(st.queue[1 - st.cmd], cmds)
    BY <1>1, <1>2, <1>4 DEF FlushAt, IsWorld
  <2>2. cmds \in Seq(Command) /\ en \in [Indices -> Entry] /\ st.cmd \in 0 .. 1
    <3>1. cmds \in Seq(Command)
      BY DEF Rewritten
    <3> HIDE DEF st
    <3> QED  BY <2>1, <3>1 DEF StageType
  <2>3. SetCommands(w, f, cmds) = WithStages(w, ss)
    <3>1. SetCommands(w, f, cmds) = [w EXCEPT !.stages[s].queue[1 - st.cmd] = cmds]
      BY <1>4 DEF SetCommands
    <3>2. [w.stages EXCEPT ![s].queue[1 - st.cmd] = cmds] = ss
      <4>1. WithFlushed(st, cmds, en) = [st EXCEPT !.queue[1 - st.cmd] = cmds]
        <5> DEFINE k == 1 - st.cmd
                   rq == [st.queue EXCEPT ![k] = cmds]
        <5> HIDE DEF st, rq
        <5>1. [st.entries EXCEPT ![k] = en] = st.entries
          <6>1. k \in 0 .. 1 /\ st.entries \in [0 .. 1 -> [Indices -> Entry]]
            BY <2>1, <2>2 DEF StageType
          <6> QED  BY <6>1
        <5>2. [st EXCEPT !.queue = rq, !.entries = st.entries] = [st EXCEPT !.queue = rq]
          BY <2>1 DEF StageType
        <5> QED  BY <5>1, <5>2 DEF WithFlushed, rq
      <4> QED  BY <4>1 DEF Refilled
    <3> HIDE DEF ss
    <3> QED  BY <3>1, <3>2 DEF WithStages
  <2>4. WithStages(w, ss) = WithBoth(w, ss, w.frames)
    BY <1>1, WithBothSame
  <2>5. /\ Fits(w, ss) /\ Reflushed(st, ss[s], cmds, en)
        /\ \A t \in Stages : t # s => ss[t] = w.stages[t]
        /\ \A t \in Stages : Drained(w.stages[t]) => Drained(ss[t])
    <3> HIDE DEF ss, en
    <3>1. \A fr : Restaged(w, WithBoth(w, ss, fr), ss, fr)
      BY <1>1, <2>1, <2>2, RefilledIs DEF ss
    <3>2. IsRefilled(w, ss, s, cmds, en)
      BY <1>1, <2>1, <2>2, RefilledIs DEF ss
    <3> QED  BY <3>1, <3>2 DEF Fits, IsRefilled
  <2> HIDE DEF ss, en
  <2>6. ASSUME NEW g, g.i = f.i, g.phase # "move"
        PROVE  FlushAt(ss[s], g)
    <3> DEFINE r == ss[s]
    <3>1. /\ r.cmd = st.cmd /\ r.cmd_flushing /\ r.queue[1 - r.cmd] = cmds
          /\ r.entries[1 - r.cmd] = st.entries[1 - st.cmd]
      BY <2>1, <2>5 DEF Reflushed, en
    <3> HIDE DEF r, st
    <3>2. FlushAt(r, g)
      BY <2>1, <2>6, <3>1, FlushAtRewritten
    <3> QED  BY <3>2 DEF r
  <2>7. Walked(w, f, ss)
    BY <2>5, <2>6 DEF Walked
  <2> QED  BY <2>3, <2>4, <2>7
<1> QED  BY <1>3, <1>4

\* The flush goes on after a walk, which changed no more than the queue.
LEMMA WalkReady ==
    ASSUME NEW w, Sound(w), w.frames # <<>>, NEW f, f = w.frames[1],
           NEW ss, Walked(w, f, ss), NEW added \in AddedIds, NEW phase \in {"copy", "exec"},
           NEW m, m = WithBoth(w, ss, WithAdded(w.frames, added))
    PROVE  ReadyFor(w, m, f.i, phase) /\ m.store = w.store
<1>1. /\ IsWorld(m) /\ StagesOK(m) /\ m.stages = ss
      /\ m.frames = WithAdded(w.frames, added) /\ m.store = w.store
  BY DEF Walked, Fits, Restaged
<1>2. FramesOK(Moved(m.frames, f.i, phase), m.stages)
  <2>1. FramesOK(w.frames, w.stages) /\ f.i \in Nat \ {0} /\ phase \in Phases
    BY CommandsAre DEF Sound, Phases
  <2>2. \A t \in Stages : t # w.frames[1].stage => SameFlush(ss[t], w.stages[t])
    BY DEF Walked, SameFlush
  <2>3. w.frames[1].stage # Now =>
            \A g : g.i = f.i /\ g.phase = phase => FlushAt(ss[w.frames[1].stage], g)
    BY DEF Walked
  <2> QED  BY <1>1, <2>1, <2>2, <2>3, FramesMoved
<1> QED  BY <1>1, <1>2 DEF ReadyFor, Walked

\* It still goes on when the walk also changed the history or the values.
LEMMA CalledReady ==
    ASSUME NEW w, NEW m, NEW i, NEW phase, ReadyFor(w, m, i, phase), NEW cd
    PROVE  ReadyFor(w, WithCalled(m, cd), i, phase) /\ WithCalled(m, cd).store = m.store
<1> DEFINE x == WithCalled(m, cd)
<1>1. SameWorld(m, x)
  BY HistoryKeeps DEF ReadyFor
<1> HIDE DEF x
<1>2. ReadyFor(w, x, i, phase) /\ x.store = m.store
  BY <1>1 DEF ReadyFor, SameWorld, Queued
<1> QED  BY <1>2 DEF x

\* The same for the values that the second walk copied.
LEMMA StoreReady ==
    ASSUME NEW w, NEW m, NEW i, NEW phase, ReadyFor(w, m, i, phase),
           NEW s, IsStore(s), s.gen = m.store.gen
    PROVE  ReadyFor(w, WithStore(m, s), i, phase) /\ WithStore(m, s).store = s
<1>1. IsWorld(m) /\ StagesOK(m)
  BY DEF ReadyFor
<1> DEFINE x == WithStore(m, s)
<1>2. Queued(m, x, 0)
  BY <1>1, SameGenChanges
<1>3. x = Parts(m.stages, s, m.frames, m.calls, m.called, m.stale_set)
  BY <1>1, WithStoreIs
<1> HIDE DEF x
<1>4. x.stages = m.stages /\ x.store = s
  BY <1>3 DEF Parts
<1>5. ReadyFor(w, x, i, phase)
  BY <1>2, <1>4 DEF ReadyFor, Queued
<1> QED  BY <1>4, <1>5 DEF x

\* The innermost flush is past its command, or about to move the value of it.
Onwards(i, phase, f) == (i = f.i + 1 /\ phase = "read") \/ (i = f.i /\ phase = "move")

\* Reaching a command clears the entry it owns, and the flush may go on.
LEMMA ReachedReady ==
    ASSUME NEW w, Sound(w), w.frames # <<>>, NEW f, f = w.frames[1],
           f.i \in DOMAIN Commands(w, f), NEW i, NEW phase, Onwards(i, phase, f)
    PROVE  ReadyFor(w, Reached(w), i, phase) /\ Reached(w).store = w.store
<1> DEFINE s == f.stage
           st == w.stages[s]
           q == Commands(w, f)
           c == q[f.i]
           en == st.entries[1 - st.cmd]
           cd == IF c.done THEN w.called ELSE Perform(w.called, c)
           p == IF c.done THEN w ELSE [w EXCEPT !.called = Perform(@, c)]
           r == Reached(w)
<1>1. /\ f \in FrameType /\ q \in Seq(Command) /\ f.i \in Nat \ {0}
      /\ s # Now => s \in Stages /\ FlushAt(st, f) /\ q = st.queue[1 - st.cmd]
      /\ IsWorld(w) /\ StagesOK(w) /\ FramesOK(w.frames, w.stages)
  BY CommandsAre DEF Sound
<1>2. f.i \in 1 .. Len(q) /\ c \in Command /\ c.e[1] \in Indices
  <2>1. f.i \in 1 .. Len(q) /\ c \in Command
    BY <1>1
  <2> HIDE DEF c
  <2> QED  BY <2>1 DEF Command
<1>3. IsWorld(p) /\ StagesOK(p) /\ p.stages = w.stages /\ p.frames = w.frames /\ p.store = w.store
  <2>1. CASE c.done
    BY <1>1, <2>1
  <2>2. CASE ~ c.done
    <3> DEFINE v == Perform(w.called, c)
               x == WithCalled(w, v)
    <3>1. p = x
      BY <2>2 DEF WithCalled
    <3> HIDE DEF v
    <3>2. SameWorld(w, x)
      BY <1>1, HistoryKeeps
    <3> HIDE DEF x, p
    <3> QED  BY <3>1, <3>2 DEF SameWorld, Queued
  <2> QED  BY <2>1, <2>2
<1>4. i \in Nat \ {0} /\ phase \in Phases
  BY <1>1 DEF Onwards, Phases
<1>5. r = IF s # Now /\ c.entry
            THEN [p EXCEPT !.stages[s].entries[1 - st.cmd][c.e[1]].first = -1] ELSE p
  <2>1. st.cmd = w.stages[f.stage].cmd
    OBVIOUS
  <2> QED  BY DEF Reached
<1> HIDE DEF p, q, c, st
<1>6. CASE s = Now
  <2>1. r = p
    BY <1>5, <1>6
  <2> HIDE DEF r
  <2>2. \A t \in Stages : SameFlush(w.stages[t], w.stages[t])
    BY DEF SameFlush
  <2>3. <<>> \in AddedIds
    BY DEF AddedIds
  <2>4. FramesOK(Moved(w.frames, i, phase), w.stages)
    BY <1>1, <1>4, <1>6, <2>2, <2>3, FramesMoved
  <2> QED  BY <1>3, <2>1, <2>4 DEF ReadyFor, r
<1>7. CASE s # Now
  <2> DEFINE en2 == Cleared(en, c)
             ss == Refilled(w, s, q, en2)
  <2>1. s \in Stages /\ st \in StageType /\ FlushAt(st, f) /\ q = st.queue[1 - st.cmd]
        /\ st.cmd_flushing
    BY <1>1, <1>7 DEF FlushAt, IsWorld, st
  <2>2. en \in [Indices -> Entry] /\ st.cmd \in 0 .. 1 /\ 1 - st.cmd \in 0 .. 1
    BY <2>1 DEF StageType
  <2>3. en2 \in [Indices -> Entry]
    <3> HIDE DEF en
    <3> QED  BY <1>2, <2>2, ClearedIs
  <2>4. r = WithBoth(p, ss, p.frames)
    <3> DEFINE k == 1 - st.cmd
    <3>1. CASE c.entry
      <4>1. r = [p EXCEPT !.stages[s].entries[k][c.e[1]].first = -1]
        BY <1>5, <1>7, <3>1
      <4>2. [p.stages EXCEPT ![s].entries[k][c.e[1]].first = -1] = ss
        <5>1. [st EXCEPT !.entries[k][c.e[1]].first = -1] = WithFlushed(st, q, en2)
          <6>1. en2 = [en EXCEPT ![c.e[1]].first = -1]
            BY <3>1 DEF Cleared
          <6>2. [st EXCEPT !.entries[k][c.e[1]].first = -1]
                = [st EXCEPT !.entries = [st.entries EXCEPT ![k] = en2]]
            BY <6>1
          <6> DEFINE re == [st.entries EXCEPT ![k] = en2]
          <6>3. [st.queue EXCEPT ![k] = q] = st.queue
            <7>1. k \in 0 .. 1 /\ st.queue \in [0 .. 1 -> Seq(Command)]
              BY <2>1, <2>2 DEF StageType
            <7> QED  BY <2>1, <7>1
          <6> HIDE DEF re, en2
          <6>4. [st EXCEPT !.queue = st.queue, !.entries = re] = [st EXCEPT !.entries = re]
            BY <2>1 DEF StageType
          <6> HIDE DEF k
          <6> QED  BY <6>2, <6>3, <6>4 DEF WithFlushed, re, k
        <5> HIDE DEF k, en2
        <5>2. st = w.stages[s] /\ p.stages = w.stages
          BY <1>3 DEF st
        <5> QED  BY <5>1, <5>2 DEF Refilled
      <4>3. r = WithStages(p, ss)
        <5> HIDE DEF ss, k
        <5> QED  BY <4>1, <4>2 DEF WithStages
      <4> QED  BY <1>3, <4>3, WithBothSame
    <3>2. CASE ~ c.entry
      <4>1. r = p
        BY <1>5, <3>2
      <4>2. ss = w.stages
        <5>1. en2 = en
          BY <3>2 DEF Cleared
        <5>2. WithFlushed(st, q, en) = st
          <6>1. k \in 0 .. 1 /\ st.queue \in [0 .. 1 -> Seq(Command)]
                /\ st.entries \in [0 .. 1 -> [Indices -> Entry]]
            BY <2>1, <2>2 DEF StageType
          <6>2. [st.queue EXCEPT ![k] = q] = st.queue /\ [st.entries EXCEPT ![k] = en] = st.entries
            BY <2>1, <6>1
          <6>3. [st EXCEPT !.queue = st.queue, !.entries = st.entries] = st
            BY <2>1 DEF StageType
          <6> HIDE DEF k, en
          <6> QED  BY <6>2, <6>3 DEF WithFlushed, k
        <5> HIDE DEF en, en2
        <5>3. st = w.stages[s] /\ w.stages \in [Stages -> StageType]
          BY <1>1 DEF st, IsWorld
        <5> QED  BY <2>1, <5>1, <5>2, <5>3 DEF Refilled
      <4>3. p = WithBoth(p, p.stages, p.frames)
        <5> HIDE DEF ss, r
        <5> QED  BY <1>3, WithStagesIs DEF IsWorld
      <4> QED  BY <1>3, <4>1, <4>2, <4>3
    <3> QED  BY <3>1, <3>2
  <2> HIDE DEF en2, r
  <2>5. Refilled(p, s, q, en2) = ss
    BY <1>3 DEF Refilled
  <2> HIDE DEF ss
  <2>6. p.stages[s].cmd_flushing /\ p.stages[s] = st
    BY <1>3, <2>1 DEF st
  <2>7. /\ IsWorld(r) /\ StagesOK(r) /\ r.stages = ss /\ r.frames = p.frames
        /\ r.store = p.store /\ Reflushed(st, ss[s], q, en2)
        /\ \A t \in Stages : t # s => ss[t] = p.stages[t]
        /\ \A t \in Stages : Drained(p.stages[t]) => Drained(ss[t])
    <3>1. q \in Seq(Command)
      BY <1>1
    <3>2. /\ Restaged(p, WithBoth(p, ss, p.frames), ss, p.frames)
          /\ IsRefilled(p, ss, s, q, en2)
      BY <1>3, <2>1, <2>3, <2>5, <2>6, <3>1, RefilledIs
    <3> QED  BY <2>4, <2>6, <3>2 DEF Restaged, IsRefilled
  <2>8. ASSUME NEW g, g.i = i, g.phase = phase
        PROVE  FlushAt(ss[s], g)
    <3> DEFINE x == ss[s]
    <3>1. /\ x.cmd = st.cmd /\ x.cmd_flushing /\ x.queue[1 - x.cmd] = q
          /\ x.entries[1 - x.cmd] = Cleared(en, c)
      BY <2>1, <2>7 DEF Reflushed, en2
    <3>2. PastOr(f, g)
      BY <2>8 DEF PastOr, Onwards
    <3> HIDE DEF x
    <3>3. FlushAt(x, g)
      BY <1>2, <2>1, <3>1, <3>2, FlushAtNext DEF c
    <3> QED  BY <3>3 DEF x
  <2>9. FramesOK(Moved(w.frames, i, phase), ss)
    <3>1. \A t \in Stages : t # w.frames[1].stage => SameFlush(ss[t], w.stages[t])
      BY <1>3, <2>7 DEF SameFlush
    <3>2. <<>> \in AddedIds
      BY DEF AddedIds
    <3>3. w.frames[1].stage # Now =>
              \A g : g.i = i /\ g.phase = phase => FlushAt(ss[w.frames[1].stage], g)
      BY <2>8
    <3> QED  BY <1>1, <1>4, <3>1, <3>2, <3>3, FramesMoved
  <2> QED  BY <1>3, <2>7, <2>9 DEF ReadyFor, r
<1> QED  BY <1>6, <1>7
-----------------------------------------------------------------------------
(***************************************************************************)
(* The steps of a flush keep the invariant.                                *)
(***************************************************************************)
AllDrained(w) == \A t \in Stages : Drained(w.stages[t])

\* The invariant as a fact about the current world.
LEMMA HereIs ==
    ASSUME IndInv
    PROVE  /\ Sound(World) /\ IsWorld(World) /\ StagesOK(World) /\ AllDrained(World)
           /\ World.stages = stages /\ World.frames = frames /\ World.store = store
           /\ World.calls = calls /\ World.called = called /\ World.stale_set = stale_set
           /\ merging \in SUBSET Stages
BY DEF IndInv, World, Sound, AllDrained

\* A step leads to the world it names.
LEMMA BecomesIs ==
    ASSUME NEW w, IsWorld(w), Becomes(w)
    PROVE  World' = w
<1>1. /\ stages' = w.stages /\ store' = w.store /\ frames' = w.frames
      /\ calls' = w.calls /\ called' = w.called /\ stale_set' = w.stale_set
  BY DEF Becomes
<1>2. World' = Parts(stages', store', frames', calls', called', stale_set')
  BY DEF World, Parts
<1> QED  BY <1>1, <1>2 DEF IsWorld

\* A step keeps the invariant when it leads to a sound and drained world ...
LEMMA StepKeeps ==
    ASSUME NEW w, Sound(w), AllDrained(w), Becomes(w), merging' \in SUBSET Stages
    PROVE  IndInv'
<1>1. World' = w
  BY BecomesIs DEF Sound
<1>2. stages' = w.stages /\ frames' = w.frames
  BY DEF Becomes
<1>3. IsWorld(World)' /\ StagesOK(World)' /\ FramesOK(frames, stages)'
  BY <1>1, <1>2 DEF Sound
<1>4. (\A s \in Stages : Drained(stages[s]))'
  BY <1>2 DEF AllDrained
<1> QED  BY <1>3, <1>4 DEF IndInv

\* ... in particular a step of a flush.
LEMMA FlushStepKeeps ==
    ASSUME IndInv, NEW w, Sound(w), AllDrained(w), FlushStep(w)
    PROVE  IndInv'
BY HereIs, StepKeeps DEF FlushStep

\* The innermost flush and its command.
LEMMA TopIs ==
    ASSUME IndInv, frames # <<>>
    PROVE  /\ Top = World.frames[1] /\ World.frames # <<>>
           /\ TopCommands = Commands(World, World.frames[1]) /\ TopCommands \in Seq(Command)
           /\ Top \in FrameType
<1>1. Sound(World) /\ World.frames = frames
  BY HereIs
<1>2. Top = World.frames[1]
  <2>1. frames \in Seq(FrameType)
    BY DEF IndInv, FramesOK
  <2> QED  BY <1>1, <2>1 DEF Top
<1>3. TopCommands \in Seq(Command) /\ World.frames[1] \in FrameType
  BY <1>1, <1>2, CommandsAre DEF TopCommands
<1> QED  BY <1>1, <1>2, <1>3 DEF TopCommands

\* A command for an entity that is alive carries the current generation.
LEMMA CmdIs ==
    ASSUME IndInv, Flushing
    PROVE  Cmd \in Command /\ (Alive(store, Cmd.e) => Current(Cmd.e, store.gen))
<1>1. TopCommands \in Seq(Command) /\ Top.i \in DOMAIN TopCommands
  BY TopIs DEF Flushing
<1>2. Cmd \in Command
  BY <1>1 DEF Cmd
<1>3. Cmd.e \in Indices \X Nat
  BY <1>2 DEF Command
<1> QED  BY <1>2, <1>3 DEF Alive, Current

\* The world after a walk over a chain.
MarkCalled(x, added, cd) == [x EXCEPT !.called = cd, !.frames[1].added = added]
MarkStored(x, added, s) == [x EXCEPT !.store = s, !.frames[1].added = added]

\* It differs from the world before in the stages, the frame and one more part.
LEMMA MarkedIs ==
    ASSUME NEW w, IsWorld(w), NEW ss, NEW added, NEW cd, NEW s
    PROVE  /\ MarkCalled(WithBoth(w, ss, w.frames), added, cd)
                = WithCalled(WithBoth(w, ss, WithAdded(w.frames, added)), cd)
           /\ MarkStored(WithBoth(w, ss, w.frames), added, s)
                = WithStore(WithBoth(w, ss, WithAdded(w.frames, added)), s)
<1> DEFINE fr == WithAdded(w.frames, added)
           m == WithBoth(w, ss, fr)
           x == WithBoth(w, ss, w.frames)
<1>1. x = Parts(ss, w.store, w.frames, w.calls, w.called, w.stale_set)
  BY WithStagesIs
<1>2. m = Parts(ss, w.store, fr, w.calls, w.called, w.stale_set)
  BY WithStagesIs
<1>4. [w.frames EXCEPT ![1].added = added] = fr
  BY DEF WithAdded, AddedTo
<1> HIDE DEF fr, m, x
<1>5. MarkCalled(x, added, cd) = WithCalled(m, cd)
  <2> DEFINE y == [x EXCEPT !.called = cd]
  <2>1. MarkCalled(x, added, cd) = [y EXCEPT !.frames[1].added = added]
    BY DEF MarkCalled
  <2>2. y = Parts(ss, w.store, w.frames, w.calls, cd, w.stale_set)
    BY <1>1 DEF Parts
  <2> HIDE DEF y
  <2>3. y.frames = w.frames
    BY <2>2 DEF Parts
  <2>4. [y EXCEPT !.frames[1].added = added] = [y EXCEPT !.frames = fr]
    BY <1>4, <2>3
  <2>5. [y EXCEPT !.frames = fr] = Parts(ss, w.store, fr, w.calls, cd, w.stale_set)
    BY <2>2 DEF Parts
  <2>6. WithCalled(m, cd) = Parts(ss, w.store, fr, w.calls, cd, w.stale_set)
    BY <1>2 DEF WithCalled, Parts
  <2> QED  BY <2>1, <2>4, <2>5, <2>6
<1>6. MarkStored(x, added, s) = WithStore(m, s)
  <2> DEFINE y == [x EXCEPT !.store = s]
  <2>1. MarkStored(x, added, s) = [y EXCEPT !.frames[1].added = added]
    BY DEF MarkStored
  <2>2. y = Parts(ss, s, w.frames, w.calls, w.called, w.stale_set)
    BY <1>1 DEF Parts
  <2> HIDE DEF y
  <2>3. y.frames = w.frames
    BY <2>2 DEF Parts
  <2>4. [y EXCEPT !.frames[1].added = added] = [y EXCEPT !.frames = fr]
    BY <1>4, <2>3
  <2>5. [y EXCEPT !.frames = fr] = Parts(ss, s, fr, w.calls, w.called, w.stale_set)
    BY <2>2 DEF Parts
  <2>6. WithStore(m, s) = Parts(ss, s, fr, w.calls, w.called, w.stale_set)
    BY <1>2 DEF WithStore, Parts
  <2> QED  BY <2>1, <2>4, <2>5, <2>6
<1> QED  BY <1>5, <1>6 DEF m, fr, x

\* It is ready for the flush to go on at the same command.
ReadyAt(w, x, i, s) ==
    /\ ReadyFor(w, x, i, "copy") /\ ReadyFor(w, x, i, "exec") /\ x.store = s
    /\ x.frames[1] \in FrameType /\ x.frames[1].i = i

\* Each walk leaves such a world.
LEMMA MarkedReady ==
    ASSUME NEW w, Sound(w), w.frames # <<>>, NEW ss, Walked(w, w.frames[1], ss),
           NEW added \in AddedIds, NEW cd, NEW s, IsStore(s), s.gen = w.store.gen
    PROVE  /\ ReadyAt(w, MarkCalled(WithBoth(w, ss, w.frames), added, cd), w.frames[1].i, w.store)
           /\ ReadyAt(w, MarkStored(WithBoth(w, ss, w.frames), added, s), w.frames[1].i, s)
<1> DEFINE m == WithBoth(w, ss, WithAdded(w.frames, added))
           f == w.frames[1]
<1>1. m = WithBoth(w, ss, WithAdded(w.frames, added)) /\ f = w.frames[1]
  OBVIOUS
<1>2. IsWorld(w)
  BY DEF Sound
<1>3. MarkCalled(WithBoth(w, ss, w.frames), added, cd) = WithCalled(m, cd)
  BY <1>2, MarkedIs
<1>4. MarkStored(WithBoth(w, ss, w.frames), added, s) = WithStore(m, s)
  BY <1>2, MarkedIs
<1>5. Walked(w, f, ss)
  OBVIOUS
<1> HIDE DEF m, f
<1>6. ReadyFor(w, m, f.i, "copy") /\ ReadyFor(w, m, f.i, "exec") /\ m.store = w.store
  <2>1. "copy" \in {"copy", "exec"} /\ "exec" \in {"copy", "exec"}
    OBVIOUS
  <2> QED  BY <1>1, <1>5, <2>1, WalkReady
<1>7. /\ ReadyFor(w, WithCalled(m, cd), f.i, "copy")
      /\ ReadyFor(w, WithCalled(m, cd), f.i, "exec")
      /\ WithCalled(m, cd).store = w.store
  BY <1>6, CalledReady
<1>8. /\ ReadyFor(w, WithStore(m, s), f.i, "copy") /\ ReadyFor(w, WithStore(m, s), f.i, "exec")
      /\ WithStore(m, s).store = s
  BY <1>6, StoreReady
<1>9. m.frames[1] \in FrameType /\ m.frames[1].i = f.i
  <2>1. m.frames = WithAdded(w.frames, added)
    BY <1>1, <1>2, WithStagesIs DEF Parts
  <2>2. w.frames \in Seq(FrameType)
    BY DEF Sound, FramesOK
  <2> DEFINE g == AddedTo(f, added)
  <2>3. f \in FrameType /\ 1 \in DOMAIN w.frames
    BY <1>1, <2>2, EmptySeq
  <2>4. g \in FrameType /\ g.i = f.i
    BY <2>3 DEF FrameType, AddedTo, AddedIds
  <2>5. m.frames = [w.frames EXCEPT ![1] = g]
    BY <1>1, <2>1 DEF WithAdded
  <2> HIDE DEF g
  <2> QED  BY <2>2, <2>3, <2>4, <2>5
<1>10. WithCalled(m, cd).frames = m.frames /\ WithStore(m, s).frames = m.frames
  <2>1. m = Parts(m.stages, m.store, m.frames, m.calls, m.called, m.stale_set)
    BY <1>6 DEF ReadyFor, IsWorld
  <2> QED  BY <2>1 DEF WithCalled, WithStore, Parts
<1>11. ReadyAt(w, WithCalled(m, cd), f.i, w.store) /\ ReadyAt(w, WithStore(m, s), f.i, s)
  BY <1>7, <1>8, <1>9, <1>10 DEF ReadyAt
<1> QED  BY <1>3, <1>4, <1>11 DEF f

\* The first walk over a chain and the commit.
LEMMA BatchEntityKeeps ==
    ASSUME IndInv, BatchEntity
    PROVE  IndInv'
<1> DEFINE b == Batch(World, TopCommands, Top.i)
           e == Cmd.e
           marked == MarkCalled(SetCommands(World, Top, b.cmds), b.added, b.called)
           start == Type(store, e)
           evs == Events("OnRemove", e, SetToSeq(b.removed \intersect start))
           notified == React(marked, evs)
           moved == [notified EXCEPT !.store = Commit(@, e, b.type)]
           w == IF b.deleted THEN GoOn(DoDelete(marked, e), Top.i, "exec")
                ELSE IF b.type = start THEN GoOn(marked, Top.i, "copy")
                ELSE GoOn(moved, Top.i, "copy")
<1>1. FlushStep(w) /\ Flushing /\ frames # <<>> /\ Alive(store, e)
  BY DEF BatchEntity, StartsBatch, Flushing, MarkCalled
<1>2. /\ Sound(World) /\ IsWorld(World) /\ AllDrained(World) /\ World.store = store
      /\ World.frames # <<>> /\ Top = World.frames[1]
      /\ TopCommands = Commands(World, Top) /\ TopCommands \in Seq(Command)
  BY <1>1, HereIs, TopIs
<1>3. Current(e, store.gen)
  BY <1>1, CmdIs
<1>4. Rewritten(TopCommands, b.cmds) /\ b.added \in AddedIds
  BY <1>2, BatchKeeps DEF BatchOK
<1> HIDE DEF b, e
<1>5. PICK ss : /\ SetCommands(World, Top, b.cmds) = WithBoth(World, ss, World.frames)
                /\ Walked(World, Top, ss)
  BY <1>2, <1>4, SetCommandsIs
<1>7. /\ ReadyFor(World, marked, Top.i, "copy") /\ ReadyFor(World, marked, Top.i, "exec")
      /\ marked.store = store
  <2>1. World.store.gen = World.store.gen /\ IsStore(World.store)
    BY <1>2 DEF IsWorld
  <2>2. ReadyAt(World, MarkCalled(WithBoth(World, ss, World.frames), b.added, b.called),
                World.frames[1].i, World.store)
    BY <1>2, <1>4, <1>5, <2>1, MarkedReady
  <2>3. ReadyAt(World, marked, Top.i, store)
    BY <1>2, <1>5, <2>2
  <2> HIDE DEF marked
  <2> QED  BY <2>3 DEF ReadyAt
<1> HIDE DEF marked
<1>8. IsWorld(marked) /\ StagesOK(marked) /\ Current(e, marked.store.gen) /\ e[1] \in Indices
  BY <1>3, <1>7 DEF ReadyFor, Current
<1>9. Beside(marked, DoDelete(marked, e)) /\ Beside(marked, marked)
  BY <1>8, DoDeleteKeeps, QueuedNothing, QueuedBeside
<1>10. Beside(marked, moved)
  <2> DEFINE S == b.removed \intersect start
             s == Commit(notified.store, e, b.type)
  <2>1. S \in SUBSET Ids
    BY DEF Type
  <2>2. AreEvents(evs, Cardinality(S), marked.store.gen)
    <3> HIDE DEF S
    <3>1. AreEvents(Events("OnRemove", e, SetToSeq(S)), Cardinality(S), marked.store.gen)
      BY <1>8, <2>1, EventsAre
    <3> QED  BY <3>1 DEF S
  <2> HIDE DEF S, evs
  <2>3. Queued(marked, notified, 0)
    BY <1>8, <2>2, ReactKeeps
  <2>4. moved = WithStore(notified, s)
    BY DEF WithStore
  <2> HIDE DEF notified, moved
  <2>5. IsWorld(notified) /\ StagesOK(notified) /\ IsStore(s) /\ s.gen = notified.store.gen
    BY <2>3, CommitKeeps DEF Queued, IsWorld
  <2> HIDE DEF s
  <2>6. Queued(notified, moved, 0)
    BY <2>4, <2>5, SameGenChanges
  <2> QED  BY <2>3, <2>6, QueuedTwice, QueuedBeside
<1> HIDE DEF moved, notified, evs, start
<1>11. \A t \in Stages : Drained(World.stages[t])
  BY <1>2 DEF AllDrained
<1>12. Sound(GoOn(DoDelete(marked, e), Top.i, "exec"))
       /\ AllDrained(GoOn(DoDelete(marked, e), Top.i, "exec"))
  BY <1>7, <1>9, <1>11, GoesOn DEF AllDrained
<1>13. Sound(GoOn(marked, Top.i, "copy")) /\ AllDrained(GoOn(marked, Top.i, "copy"))
  BY <1>7, <1>9, <1>11, GoesOn DEF AllDrained
<1>14. Sound(GoOn(moved, Top.i, "copy")) /\ AllDrained(GoOn(moved, Top.i, "copy"))
  BY <1>7, <1>10, <1>11, GoesOn DEF AllDrained
<1>15. Sound(w) /\ AllDrained(w)
  BY <1>12, <1>13, <1>14
<1> HIDE DEF w
<1> QED  BY <1>1, <1>15, FlushStepKeeps

\* What the second walk leaves when it goes on without observers.
LEMMA CopyReady ==
    ASSUME IndInv, frames # <<>>, NEW a, Rewritten(TopCommands, a.cmds),
           IsStore(a.store), a.store.gen = store.gen
    PROVE  ReadyAt(World, MarkStored(SetCommands(World, Top, a.cmds), <<>>, a.store), Top.i,
                   a.store)
<1>1. /\ Sound(World) /\ IsWorld(World) /\ World.store = store
      /\ World.frames # <<>> /\ Top = World.frames[1] /\ TopCommands = Commands(World, Top)
  BY HereIs, TopIs
<1>2. PICK ss : /\ SetCommands(World, Top, a.cmds) = WithBoth(World, ss, World.frames)
                /\ Walked(World, Top, ss)
  BY <1>1, SetCommandsIs
<1>3. <<>> \in AddedIds
  BY DEF AddedIds
<1>4. ReadyAt(World, MarkStored(WithBoth(World, ss, World.frames), <<>>, a.store),
              World.frames[1].i, a.store)
  BY <1>1, <1>2, <1>3, MarkedReady
<1> QED  BY <1>1, <1>2, <1>4

\* The second walk and the OnAdd observers.
LEMMA BatchCopyKeeps ==
    ASSUME IndInv, BatchCopy
    PROVE  IndInv'
<1> DEFINE a == Copy(TopCommands, Top.i, store)
           e == Cmd.e
           copied == MarkStored(SetCommands(World, Top, a.cmds), <<>>, a.store)
           exec == [copied EXCEPT !.frames[1].phase = "exec"]
           told == NotifyAdded(copied, a.store, e, Top.added)
           w == IF Top.added = <<>> THEN exec ELSE GoOn(told, Top.i, "exec")
<1>1. FlushStep(w) /\ Flushing /\ frames # <<>> /\ Alive(store, e)
  BY DEF BatchCopy, Flushing, MarkStored, Copy
<1>2. /\ Sound(World) /\ IsWorld(World) /\ AllDrained(World) /\ World.store = store
      /\ World.frames # <<>> /\ Top = World.frames[1] /\ TopCommands \in Seq(Command)
      /\ Top \in FrameType /\ World.stages = stages /\ IsStore(store)
  BY <1>1, HereIs, TopIs DEF IsWorld
<1>3. Current(e, store.gen)
  BY <1>1, CmdIs
<1>4. Rewritten(TopCommands, a.cmds) /\ IsStore(a.store) /\ a.store.gen = store.gen
  BY <1>2, CopyKeeps DEF CopyOK
<1> HIDE DEF a, e
<1>5. ReadyAt(World, copied, Top.i, a.store)
  BY <1>1, <1>4, CopyReady
<1> HIDE DEF copied
<1>6. /\ ReadyFor(World, copied, Top.i, "exec") /\ IsWorld(copied) /\ StagesOK(copied)
      /\ copied.store = a.store /\ FramesOK(Moved(copied.frames, Top.i, "exec"), copied.stages)
      /\ \A t \in Stages : Drained(copied.stages[t])
      /\ copied.frames[1] \in FrameType /\ copied.frames[1].i = Top.i
  BY <1>2, <1>5 DEF ReadyAt, ReadyFor, AllDrained
<1>7. CASE Top.added = <<>>
  <2>1. Sound(At(copied, Top.i, "exec")) /\ AllDrained(At(copied, Top.i, "exec"))
    BY <1>6, AtIs DEF AllDrained
  <2>2. exec = At(copied, Top.i, "exec")
    <3> DEFINE f == copied.frames[1]
    <3>1. [f EXCEPT !.phase = "exec"] = MovedTo(f, Top.i, "exec")
      BY <1>6 DEF MovedTo, FrameType
    <3>2. [copied.frames EXCEPT ![1].phase = "exec"] = Moved(copied.frames, Top.i, "exec")
      BY <3>1 DEF Moved
    <3> QED  BY <3>2 DEF At
  <2>3. w = exec
    BY <1>7
  <2> HIDE DEF w, exec
  <2> QED  BY <1>1, <2>1, <2>2, <2>3, FlushStepKeeps
<1>8. CASE Top.added # <<>>
  <2>1. Top.added \in Seq(Ids \union {NoId})
    BY <1>2 DEF FrameType
  <2>2. Current(e, copied.store.gen)
    BY <1>3, <1>4, <1>6
  <2>3. Queued(copied, told, 0)
    BY <1>6, <2>1, <2>2, NotifyAddedKeeps
  <2> HIDE DEF told
  <2>4. Beside(copied, told)
    BY <2>3, QueuedBeside
  <2>5. \A t \in Stages : Drained(World.stages[t])
    BY <1>2 DEF AllDrained
  <2>6. Sound(GoOn(told, Top.i, "exec")) /\ AllDrained(GoOn(told, Top.i, "exec"))
    BY <1>6, <2>4, <2>5, GoesOn DEF AllDrained
  <2>7. w = GoOn(told, Top.i, "exec")
    BY <1>8
  <2> HIDE DEF w
  <2> QED  BY <1>1, <2>6, <2>7, FlushStepKeeps
<1> QED  BY <1>7, <1>8

\* The command that the flush is at was reached, and operations follow.
LEMMA AfterReached ==
    ASSUME IndInv, Flushing, NEW i, NEW phase, Onwards(i, phase, Top),
           NEW w, Beside(Reached(World), w)
    PROVE  Sound(GoOn(w, i, phase)) /\ AllDrained(GoOn(w, i, phase))
<1>1. /\ Sound(World) /\ AllDrained(World) /\ World.frames # <<>> /\ Top = World.frames[1]
      /\ TopCommands = Commands(World, Top) /\ Top.i \in DOMAIN TopCommands
  BY HereIs, TopIs DEF Flushing
<1>2. ReadyFor(World, Reached(World), i, phase)
  BY <1>1, ReachedReady
<1>3. \A t \in Stages : Drained(World.stages[t])
  BY <1>1 DEF AllDrained
<1> QED  BY <1>2, <1>3, GoesOn DEF AllDrained

\* What reaching a command leaves.
LEMMA ReachedIs ==
    ASSUME IndInv, Flushing
    PROVE  /\ IsWorld(Reached(World)) /\ StagesOK(Reached(World))
           /\ Reached(World).store = store
           /\ Onwards(Top.i + 1, "read", Top) /\ Onwards(Top.i, "move", Top)
<1>1. /\ Sound(World) /\ World.frames # <<>> /\ Top = World.frames[1] /\ World.store = store
      /\ TopCommands = Commands(World, Top) /\ Top.i \in DOMAIN TopCommands
  BY HereIs, TopIs DEF Flushing
<1>2. Onwards(Top.i + 1, "read", Top) /\ Onwards(Top.i, "move", Top)
  BY DEF Onwards
<1>3. ReadyFor(World, Reached(World), Top.i, "move") /\ Reached(World).store = World.store
  BY <1>1, <1>2, ReachedReady
<1> QED  BY <1>1, <1>2, <1>3 DEF ReadyFor

\* A command that is skipped.
LEMMA DiscardKeeps ==
    ASSUME IndInv, Discard
    PROVE  IndInv'
<1> DEFINE r == Reached(World)
           w == [r EXCEPT !.frames[1].i = @ + 1, !.frames[1].phase = "read"]
<1>1. FlushStep(w) /\ Flushing /\ frames # <<>>
  BY DEF Discard, Flushing
<1>2. /\ Sound(World) /\ AllDrained(World) /\ World.frames # <<>> /\ Top = World.frames[1]
      /\ TopCommands = Commands(World, Top) /\ Top.i \in DOMAIN TopCommands
  BY <1>1, HereIs, TopIs DEF Flushing
<1>3. Onwards(Top.i + 1, "read", Top)
  BY DEF Onwards
<1>4. ReadyFor(World, r, Top.i + 1, "read")
  BY <1>2, <1>3, ReachedReady
<1>5. r.frames = World.frames
  BY DEF Reached
<1> HIDE DEF r
<1>6. Sound(At(r, Top.i + 1, "read")) /\ AllDrained(At(r, Top.i + 1, "read"))
  BY <1>2, <1>4, AtIs DEF AllDrained, ReadyFor
<1>7. w = At(r, Top.i + 1, "read")
  <2> DEFINE f == r.frames[1]
  <2>1. f.i = Top.i
    BY <1>2, <1>5
  <2>2. [r.frames EXCEPT ![1].i = @ + 1, ![1].phase = "read"] = Moved(r.frames, Top.i + 1, "read")
    BY <2>1 DEF Moved, MovedTo
  <2> QED  BY <2>2 DEF At
<1> HIDE DEF w
<1> QED  BY <1>1, <1>6, <1>7, FlushStepKeeps

\* A command that has no value to move.
LEMMA RunCommandKeeps ==
    ASSUME IndInv, RunCommand
    PROVE  IndInv'
<1> DEFINE w == Execute(Reached(World), Cmd)
<1>1. FlushStep(GoOn(w, Top.i + 1, "read"))
  BY DEF RunCommand
<1>2. /\ Flushing /\ ~ Skipped /\ Alive(store, Cmd.e)
      /\ Cmd.kind \notin {"Set", "Ensure", "Emplace"}
  BY DEF RunCommand
<1>3. Cmd \in Command /\ Current(Cmd.e, store.gen)
  BY <1>2, CmdIs
<1>4. Cmd.kind \in Plain
  <2>1. Cmd.kind \in Kinds /\ Cmd.kind # "Skip"
    BY <1>2, <1>3 DEF Command, Skipped
  <2> QED  BY <1>2, <2>1 DEF Plain, Kinds, Operations
<1>5. /\ IsWorld(Reached(World)) /\ StagesOK(Reached(World)) /\ Reached(World).store = store
      /\ Onwards(Top.i + 1, "read", Top)
  BY <1>2, ReachedIs
<1>6. Beside(Reached(World), w)
  BY <1>3, <1>4, <1>5, ExecuteKeeps
<1> HIDE DEF w
<1>7. Sound(GoOn(w, Top.i + 1, "read")) /\ AllDrained(GoOn(w, Top.i + 1, "read"))
  BY <1>2, <1>5, <1>6, AfterReached
<1> QED  BY <1>1, <1>7, FlushStepKeeps

\* A command that has a value: first its component is ensured ...
LEMMA EnsureComponentKeeps ==
    ASSUME IndInv, EnsureComponent
    PROVE  IndInv'
<1> DEFINE w == DoAdd(Reached(World), Cmd.e, Cmd.id)
<1>1. FlushStep(GoOn(w, Top.i, "move"))
  BY DEF EnsureComponent
<1>2. Flushing /\ Alive(store, Cmd.e)
  BY DEF EnsureComponent
<1>3. Current(Cmd.e, store.gen)
  BY <1>2, CmdIs
<1>4. /\ IsWorld(Reached(World)) /\ StagesOK(Reached(World)) /\ Reached(World).store = store
      /\ Onwards(Top.i, "move", Top)
  BY <1>2, ReachedIs
<1>5. Queued(Reached(World), w, 0)
  BY <1>3, <1>4, DoAddKeeps
<1> HIDE DEF w
<1>6. Beside(Reached(World), w)
  BY <1>5, QueuedBeside
<1>7. Sound(GoOn(w, Top.i, "move")) /\ AllDrained(GoOn(w, Top.i, "move"))
  BY <1>2, <1>4, <1>6, AfterReached
<1> QED  BY <1>1, <1>7, FlushStepKeeps

\* ... then the value is moved.
LEMMA MoveValueKeeps ==
    ASSUME IndInv, MoveValue
    PROVE  IndInv'
<1> DEFINE s == Put(store, Cmd.e, Cmd.id, Cmd.val)
           moved == WithStore(World, s)
           told == Notify(moved, Cmd)
           w == IF Cmd.kind = "Set" THEN told ELSE moved
<1>1. FlushStep(GoOn(w, Top.i + 1, "read"))
  <2>1. World.store = store
    BY HereIs
  <2> QED  BY <2>1 DEF MoveValue, WithStore
<1>2. Flushing /\ frames # <<>> /\ Top.phase = "move" /\ Alive(store, Cmd.e)
  BY DEF MoveValue, Flushing
<1>3. Current(Cmd.e, store.gen)
  BY <1>2, CmdIs
<1>4. /\ Sound(World) /\ IsWorld(World) /\ StagesOK(World) /\ AllDrained(World)
      /\ World.frames # <<>> /\ Top = World.frames[1] /\ World.store = store /\ IsStore(store)
  BY <1>2, HereIs, TopIs DEF IsWorld
<1>5. IsStore(s) /\ s.gen = store.gen
  BY <1>4, PutKeeps
<1> HIDE DEF s
<1>6. Queued(World, moved, 0)
  BY <1>4, <1>5, SameGenChanges
<1> HIDE DEF moved
<1>7. IsWorld(moved) /\ StagesOK(moved) /\ Current(Cmd.e, moved.store.gen)
  BY <1>3, <1>4, <1>6 DEF Queued
<1>8. Queued(moved, told, 0)
  BY <1>7, NotifyKeeps
<1> HIDE DEF told
<1>9. Beside(World, w)
  BY <1>6, <1>8, QueuedTwice, QueuedBeside
<1> HIDE DEF w
<1>10. ReadyFor(World, World, Top.i + 1, "read")
  <2>1. FramesOK(Moved(World.frames, Top.i + 1, "read"), World.stages)
    <3>1. FramesOK(World.frames, World.stages)
      BY <1>4 DEF Sound
    <3>2. Top.i + 1 \in Nat \ {0} /\ "read" \in Phases
      BY <1>4, CommandsAre DEF Phases
    <3>3. <<>> \in AddedIds
      BY DEF AddedIds
    <3>4. \A t \in Stages : t # World.frames[1].stage => SameFlush(World.stages[t], World.stages[t])
      BY DEF SameFlush
    <3>5. World.frames[1].stage # Now =>
              \A g : g.i = Top.i + 1 /\ g.phase = "read" =>
                  FlushAt(World.stages[World.frames[1].stage], g)
      <4> SUFFICES ASSUME Top.stage # Now, NEW g, g.i = Top.i + 1, g.phase = "read"
                   PROVE  FlushAt(World.stages[Top.stage], g)
        BY <1>4
      <4> DEFINE st == World.stages[Top.stage]
                 q == st.queue[1 - st.cmd]
      <4>1. /\ Top.stage \in Stages /\ FlushAt(st, Top) /\ TopCommands = q
            /\ q \in Seq(Command) /\ Top.i \in Nat \ {0}
        BY <1>2, <1>4, CommandsAre, TopIs
      <4>2. Top.i \in 1 .. Len(q)
        <5>1. Top.i \in DOMAIN TopCommands
          BY <1>2 DEF Flushing
        <5> HIDE DEF q, st
        <5> QED  BY <4>1, <5>1
      <4> HIDE DEF st, q
      <4>3. Len(q) \in Nat
        BY <4>1
      <4>4. \A x \in Indices : ToCome(q, Top, x) => ToCome(q, g, x)
        BY <1>2, <4>1, <4>3 DEF ToCome
      <4>5. FlushAt(st, g)
        BY <4>1, <4>2, <4>3, <4>4 DEF FlushAt, q
      <4> QED  BY <4>5 DEF st
    <3> QED  BY <1>4, <3>1, <3>2, <3>3, <3>4, <3>5, FramesMoved
  <2> QED  BY <1>4, <2>1 DEF ReadyFor
<1>11. Sound(GoOn(w, Top.i + 1, "read")) /\ AllDrained(GoOn(w, Top.i + 1, "read"))
  <2>1. \A t \in Stages : Drained(World.stages[t])
    BY <1>4 DEF AllDrained
  <2> QED  BY <1>9, <1>10, <2>1, GoesOn DEF AllDrained
<1> QED  BY <1>1, <1>11, FlushStepKeeps

\* A queue is cleared when its last command was reached: then no entry is set.
LEMMA ClearedKeeps ==
    ASSUME NEW st, NEW gen, StageOK(st, gen), NEW f, FlushAt(st, f),
           f.i = Len(st.queue[1 - st.cmd]) + 1
    PROVE  \E r : /\ r = [WithFlushed(st, <<>>, st.entries[1 - st.cmd]) EXCEPT !.cmd_flushing = FALSE]
                  /\ StageOK(r, gen) /\ ~ r.cmd_flushing
<1> DEFINE en == st.entries[1 - st.cmd]
           x == WithFlushed(st, <<>>, en)
           r == [x EXCEPT !.cmd_flushing = FALSE]
           q == st.queue[1 - st.cmd]
<1>1. /\ st \in StageType /\ st.cmd \in 0 .. 1 /\ st.cmd_flushing /\ en \in [Indices -> Entry]
      /\ q \in Seq(Command) /\ Len(q) \in Nat
  BY DEF StageOK, StageType, FlushAt
<1>2. \A y \in Indices : en[y].first = -1
  <2> SUFFICES ASSUME NEW y \in Indices, en[y].first # -1
               PROVE  FALSE
    OBVIOUS
  <2>1. ToCome(q, f, y)
    BY DEF FlushAt
  <2>2. PICK j \in 1 .. Len(q) : f.i <= j
    BY <2>1 DEF ToCome
  <2> HIDE DEF q
  <2> QED  BY <1>1, <2>2 DEF q
<1>3. <<>> \in Seq(Command)
  OBVIOUS
<1>4. StageOK(x, gen) /\ Reflushed(st, x, <<>>, en)
  BY <1>1, <1>3, WithFlushedKeeps, WithFlushedIs
<1> HIDE DEF x, en
<1>5. /\ r \in StageType /\ r.cmd = x.cmd /\ r.queue = x.queue /\ r.entries = x.entries
      /\ r.cmd_flushing = FALSE
  BY <1>4 DEF StageOK, StageType
<1> HIDE DEF r
<1>6. StageOK(r, gen)
  <2>1. r.queue[1 - r.cmd] = <<>> /\ r.entries[1 - r.cmd] = en
    BY <1>4, <1>5 DEF Reflushed
  <2>2. Chains(Filled(r), Len(Filled(r)), r.entries[r.cmd], gen)
    BY <1>4, <1>5 DEF StageOK, Filled
  <2> QED  BY <1>2, <1>5, <2>1, <2>2 DEF StageOK
<1> QED  BY <1>5, <1>6 DEF r, x, en

Popped(w) == [w EXCEPT !.frames = Tail(@)]

\* The end of a queue: it is cleared, and what was queued meanwhile is flushed.
LEMMA QueueDoneKeeps ==
    ASSUME IndInv, QueueDone
    PROVE  IndInv'
<1> DEFINE p == Popped(World)
           s == Top.stage
           w == IF s = Now THEN p ELSE SwapAndFlush(ClearQueue(p, s), s)
<1>1. FlushStep(w) /\ frames # <<>> /\ ~ Flushing
  BY DEF QueueDone, Popped
<1>2. /\ Sound(World) /\ IsWorld(World) /\ StagesOK(World) /\ AllDrained(World)
      /\ World.frames # <<>> /\ Top = World.frames[1] /\ FramesOK(World.frames, World.stages)
  BY <1>1, HereIs, TopIs DEF Sound
<1> DEFINE fr == Tail(World.frames)
<1>3. p = Parts(World.stages, World.store, fr, World.calls, World.called, World.stale_set)
  <2> HIDE DEF fr
  <2>1. p = [World EXCEPT !.frames = fr]
    BY DEF Popped, fr
  <2> QED  BY <1>2, <2>1 DEF IsWorld, Parts
<1> HIDE DEF p, fr
<1>4. /\ p.stages = World.stages /\ p.frames = fr /\ p.store = World.store
      /\ IsWorld(p) /\ StagesOK(p)
  <2>1. /\ p.stages = World.stages /\ p.frames = fr /\ p.store = World.store
        /\ p.calls = World.calls
        /\ p = Parts(p.stages, p.store, p.frames, p.calls, p.called, p.stale_set)
    BY <1>3 DEF Parts
  <2> QED  BY <1>2, <2>1 DEF IsWorld, StagesOK
<1>5. CASE s = Now
  <2>1. FramesOK(fr, World.stages)
    BY <1>2, <1>5, FramesPop DEF fr
  <2>2. Sound(p) /\ AllDrained(p)
    BY <1>2, <1>4, <2>1 DEF Sound, AllDrained
  <2>3. w = p
    BY <1>5
  <2> HIDE DEF w
  <2> QED  BY <1>1, <2>2, <2>3, FlushStepKeeps
<1>6. CASE s # Now
  <2> DEFINE st == World.stages[s]
             r == [WithFlushed(st, <<>>, st.entries[1 - st.cmd]) EXCEPT !.cmd_flushing = FALSE]
             ss == [p.stages EXCEPT ![s] = r]
             cl == ClearQueue(p, s)
  <2>1. s \in Stages /\ FlushAt(st, Top) /\ StageOK(st, World.store.gen)
    BY <1>2, <1>6, CommandsAre DEF StagesOK
  <2>2. Top.i = Len(st.queue[1 - st.cmd]) + 1
    <3>1. TopCommands = st.queue[1 - st.cmd] /\ TopCommands \in Seq(Command) /\ Top.i \in Nat \ {0}
      BY <1>1, <1>2, <1>6, CommandsAre, TopIs
    <3>2. Top.i \notin DOMAIN TopCommands
      BY <1>1 DEF Flushing
    <3>3. Top.i <= Len(TopCommands) + 1
      BY <2>1, <3>1 DEF FlushAt
    <3> HIDE DEF st
    <3>4. Top.i = Len(TopCommands) + 1
      <4> HIDE DEF s
      <4> QED  BY <3>1, <3>2, <3>3
    <3> QED  BY <3>1, <3>4
  <2>3. StageOK(r, World.store.gen) /\ ~ r.cmd_flushing
    <3> HIDE DEF st
    <3> QED  BY <2>1, <2>2, ClearedKeeps
  <2>4. cl = WithStages(p, ss)
    <3> DEFINE k == 1 - st.cmd
               en == st.entries[k]
               rq == [st.queue EXCEPT ![k] = <<>>]
    <3>1. st \in StageType
      BY <2>1 DEF StageOK
    <3>2. [st.entries EXCEPT ![k] = en] = st.entries
      <4>1. k \in 0 .. 1 /\ st.entries \in [0 .. 1 -> [Indices -> Entry]]
        BY <3>1 DEF StageType
      <4> QED  BY <4>1
    <3> DEFINE y == [st EXCEPT !.queue = rq]
    <3>3. WithFlushed(st, <<>>, en) = y
      <4> HIDE DEF rq
      <4>1. [st EXCEPT !.queue = rq, !.entries = st.entries] = y
        BY <3>1 DEF StageType
      <4> QED  BY <3>2, <4>1 DEF WithFlushed, rq
    <3>4. cl = [p EXCEPT !.stages[s].queue[k] = <<>>, !.stages[s].cmd_flushing = FALSE]
      BY <1>4 DEF ClearQueue
    <3>5. cl = [p EXCEPT !.stages[s] = [y EXCEPT !.cmd_flushing = FALSE]]
      <4>1. [p.stages EXCEPT ![s].queue[k] = <<>>, ![s].cmd_flushing = FALSE]
            = [p.stages EXCEPT ![s] = [y EXCEPT !.cmd_flushing = FALSE]]
        <5> DEFINE z == [p.stages EXCEPT ![s].queue[k] = <<>>]
        <5>1. p.stages \in [Stages -> StageType] /\ p.stages[s] = st
          BY <1>4 DEF IsWorld
        <5>2. z = [p.stages EXCEPT ![s] = y]
          BY <5>1
        <5> HIDE DEF y, k
        <5>3. z[s] = y
          BY <2>1, <5>1, <5>2
        <5>4. [z EXCEPT ![s].cmd_flushing = FALSE] = [z EXCEPT ![s] = [y EXCEPT !.cmd_flushing = FALSE]]
          BY <5>3
        <5>5. [z EXCEPT ![s] = [y EXCEPT !.cmd_flushing = FALSE]]
              = [p.stages EXCEPT ![s] = [y EXCEPT !.cmd_flushing = FALSE]]
          BY <2>1, <5>1, <5>2
        <5> QED  BY <5>4, <5>5 DEF k
      <4> HIDE DEF y, k
      <4> QED  BY <3>4, <4>1
    <3> QED  BY <3>3, <3>5 DEF WithStages
  <2> HIDE DEF r, cl, st
  <2>5. /\ Restaged(p, WithBoth(p, ss, p.frames), ss, p.frames)
        /\ ss[s] = r /\ \A t \in Stages : t # s => ss[t] = p.stages[t]
    <3>1. ss = [p.stages EXCEPT ![s] = r]
      OBVIOUS
    <3>2. StageOK(r, p.store.gen)
      BY <1>4, <2>3
    <3>3. p.stages \in [Stages -> StageType]
      BY <1>4 DEF IsWorld
    <3> HIDE DEF ss
    <3>4. Restaged(p, WithBoth(p, ss, p.frames), ss, p.frames)
      BY <1>4, <2>1, <3>1, <3>2, StageChanges
    <3>5. ss[s] = r /\ \A t \in Stages : t # s => ss[t] = p.stages[t]
      BY <2>1, <3>1, <3>3
    <3> QED  BY <3>4, <3>5
  <2> HIDE DEF ss
  <2>6. cl = WithBoth(p, ss, p.frames)
    BY <1>4, <2>4, WithBothSame
  <2>7. FramesOK(fr, ss)
    BY <1>2, <1>4, <2>3, <2>5, FramesPop DEF fr
  <2>8. Sound(cl) /\ ~ cl.stages[s].cmd_flushing /\ cl.stages = ss
    BY <1>4, <2>3, <2>5, <2>6, <2>7 DEF Restaged, Sound
  <2>9. Sound(SwapAndFlush(cl, s)) /\ AllDrained(SwapAndFlush(cl, s))
    <3>1. /\ Sound(SwapAndFlush(cl, s)) /\ Drained(SwapAndFlush(cl, s).stages[s])
          /\ \A t \in Stages : t # s => SwapAndFlush(cl, s).stages[t] = cl.stages[t]
      BY <2>1, <2>8, SwapAndFlushKeeps
    <3>2. \A t \in Stages : t # s => Drained(cl.stages[t])
      BY <1>2, <1>4, <2>5, <2>8 DEF AllDrained
    <3> QED  BY <3>1, <3>2 DEF AllDrained
  <2>10. w = SwapAndFlush(cl, s)
    BY <1>6 DEF cl
  <2> HIDE DEF w
  <2> QED  BY <1>1, <2>9, <2>10, FlushStepKeeps
<1> QED  BY <1>5, <1>6

\* Every step of a flush keeps the invariant.
LEMMA FlushKeeps ==
    ASSUME IndInv, Flush
    PROVE  IndInv'
BY BatchEntityKeeps, BatchCopyKeeps, DiscardKeeps, RunCommandKeeps, EnsureComponentKeeps,
   MoveValueKeeps, QueueDoneKeeps DEF Flush
-----------------------------------------------------------------------------
(***************************************************************************)
(* The calls of the application keep the invariant.                        *)
(***************************************************************************)

\* Nothing is being flushed.
LEMMA NoFrames ==
    ASSUME NEW ss
    PROVE  FramesOK(<<>>, ss) <=> \A s \in Stages : ~ ss[s].cmd_flushing
<1>1. DOMAIN <<>> = {} /\ <<>> \in Seq(FrameType)
  OBVIOUS
<1> QED  BY <1>1 DEF FramesOK

WithDefer(st, d) == [st EXCEPT !.defer = d]
Deferring(w, s, d) == [w EXCEPT !.stages[s].defer = d]

\* The defer count of a stage says nothing about its queues.
LEMMA WithDeferKeeps ==
    ASSUME NEW st, NEW gen, StageOK(st, gen), NEW d \in Int
    PROVE  /\ StageOK(WithDefer(st, d), gen) /\ WithDefer(st, d).defer = d
           /\ WithDefer(st, d).cmd_flushing = st.cmd_flushing
<1> DEFINE r == WithDefer(st, d)
<1>1. /\ r \in StageType /\ r.defer = d /\ r.cmd_flushing = st.cmd_flushing /\ r.cmd = st.cmd
      /\ r.queue = st.queue /\ r.entries = st.entries
  BY DEF StageOK, StageType, WithDefer
<1> HIDE DEF r
<1>2. StageOK(r, gen)
  BY <1>1 DEF StageOK, Filled
<1> QED  BY <1>1, <1>2 DEF r

\* A stage of an idle world enters or leaves the deferred mode.
LEMMA DeferringKeeps ==
    ASSUME NEW w, Sound(w), w.frames = <<>>, NEW s \in Stages, NEW d \in Int
    PROVE  /\ Sound(Deferring(w, s, d)) /\ Deferring(w, s, d).stages[s].defer = d
           /\ \A t \in Stages : t # s => Deferring(w, s, d).stages[t] = w.stages[t]
<1> DEFINE st == WithDefer(w.stages[s], d)
           ss == [w.stages EXCEPT ![s] = st]
<1>1. IsWorld(w) /\ StagesOK(w) /\ FramesOK(<<>>, w.stages)
  BY DEF Sound
<1>2. /\ StageOK(st, w.store.gen) /\ st.defer = d
      /\ st.cmd_flushing = w.stages[s].cmd_flushing
  BY <1>1, WithDeferKeeps DEF StagesOK
<1>3. Deferring(w, s, d) = WithStages(w, ss)
  BY DEF Deferring, WithStages, WithDefer
<1> HIDE DEF st
<1>4. /\ Restaged(w, WithBoth(w, ss, w.frames), ss, w.frames)
      /\ ss[s] = st /\ \A t \in Stages : t # s => ss[t] = w.stages[t]
  <2>1. ss = [w.stages EXCEPT ![s] = st]
    OBVIOUS
  <2>2. w.stages \in [Stages -> StageType]
    BY <1>1 DEF IsWorld
  <2> HIDE DEF ss
  <2>3. Restaged(w, WithBoth(w, ss, w.frames), ss, w.frames)
    BY <1>1, <1>2, <2>1, StageChanges
  <2>4. ss[s] = st /\ \A t \in Stages : t # s => ss[t] = w.stages[t]
    BY <2>1, <2>2
  <2> QED  BY <2>3, <2>4
<1> HIDE DEF ss
<1>5. Deferring(w, s, d) = WithBoth(w, ss, w.frames)
  BY <1>1, <1>3, WithBothSame
<1>6. FramesOK(<<>>, ss)
  BY <1>1, <1>2, <1>4, NoFrames
<1>7. Sound(Deferring(w, s, d)) /\ Deferring(w, s, d).stages = ss
  BY <1>4, <1>5, <1>6 DEF Sound, Restaged
<1> QED  BY <1>2, <1>4, <1>7

\* A step of the application that leads to a sound and drained world.
LEMMA AppStepKeeps ==
    ASSUME IndInv, NEW w, Sound(w), AllDrained(w), AppStep(w)
    PROVE  IndInv'
BY HereIs, StepKeeps DEF AppStep

\* The invariant while nothing is flushed.
LEMMA IdleIs ==
    ASSUME IndInv, frames = <<>>
    PROVE  Sound(World) /\ World.frames = <<>> /\ AllDrained(World) /\ World.stages = stages
BY HereIs

\* The count of a stage changes to another value than zero.
LEMMA CountKeeps ==
    ASSUME IndInv, frames = <<>>, NEW s \in Stages, NEW d \in Int, d # 0
    PROVE  Sound(Deferring(World, s, d)) /\ AllDrained(Deferring(World, s, d))
<1>1. Sound(World) /\ World.frames = <<>> /\ AllDrained(World)
  BY IdleIs
<1>2. /\ Sound(Deferring(World, s, d)) /\ Deferring(World, s, d).stages[s].defer = d
      /\ \A t \in Stages : t # s => Deferring(World, s, d).stages[t] = World.stages[t]
  BY <1>1, DeferringKeeps
<1> QED  BY <1>1, <1>2 DEF AllDrained, Drained

\* flecs_defer_end: the last one flushes.
LEMMA LeaveDeferKeeps ==
    ASSUME IndInv, frames = <<>>, NEW s \in Stages
    PROVE  Sound(LeaveDefer(s)) /\ AllDrained(LeaveDefer(s))
<1> DEFINE d == stages[s].defer - 1
           left == Deferring(World, s, d)
<1>1. Sound(World) /\ World.frames = <<>> /\ AllDrained(World) /\ World.stages = stages
  BY IdleIs
<1>2. stages[s].defer \in Int
  BY <1>1 DEF Sound, IsWorld, StageType
<1>3. [World EXCEPT !.stages[s].defer = @ - 1] = left
  <2>1. World.stages[s].defer = stages[s].defer
    BY <1>1
  <2> QED  BY <2>1 DEF Deferring
<1>4. LeaveDefer(s) = IF stages[s].defer = 1 THEN EndDefer(left, s) ELSE left
  BY <1>3 DEF LeaveDefer
<1>5. CASE stages[s].defer = 1
  <2>1. d \in Int
    BY <1>2
  <2>2. Sound(left) /\ \A t \in Stages : t # s => left.stages[t] = World.stages[t]
    BY <1>1, <2>1, DeferringKeeps
  <2> HIDE DEF left
  <2>3. /\ Sound(EndDefer(left, s)) /\ Drained(EndDefer(left, s).stages[s])
        /\ \A t \in Stages : t # s => EndDefer(left, s).stages[t] = left.stages[t]
    BY <2>2, EndDeferKeeps
  <2>4. Sound(EndDefer(left, s)) /\ AllDrained(EndDefer(left, s))
    BY <1>1, <2>2, <2>3 DEF AllDrained
  <2> QED  BY <1>4, <1>5, <2>4
<1>6. CASE stages[s].defer # 1
  <2>1. d \in Int /\ d # 0
    BY <1>2, <1>6
  <2>2. Sound(left) /\ AllDrained(left)
    BY <2>1, CountKeeps
  <2> QED  BY <1>4, <1>6, <2>2
<1> QED  BY <1>5, <1>6

\* Entering, leaving, suspending and resuming the deferred mode.
LEMMA DeferStepsKeep ==
    ASSUME IndInv, DeferBegin \/ DeferEnd \/ Suspend \/ Resume
    PROVE  IndInv'
<1>1. frames = <<>>
  BY DEF DeferBegin, DeferEnd, Suspend, Resume, Idle
<1>2. World.stages[0].defer = stages[0].defer /\ stages[0].defer \in Int
  BY <1>1, IdleIs, ZeroStage DEF Sound, IsWorld, StageType
<1>3. ASSUME DeferBegin PROVE IndInv'
  <2>1. AppStep(Deferring(World, 0, stages[0].defer + 1)) /\ stages[0].defer + 1 \in Int \ {0}
    <3>1. stages[0].defer \in 0 .. MaxDefer - 1
      BY <1>3 DEF DeferBegin
    <3>2. stages[0].defer + 1 \in Int \ {0}
      BY <1>2, <3>1
    <3> QED  BY <1>2, <1>3, <3>2 DEF DeferBegin, Deferring
  <2> QED  BY <1>1, <2>1, CountKeeps, AppStepKeeps, ZeroStage
<1>4. ASSUME Suspend \/ Resume PROVE IndInv'
  <2>1. AppStep(Deferring(World, 0, - stages[0].defer)) /\ - stages[0].defer \in Int \ {0}
    <3>1. - stages[0].defer \in Int \ {0}
      BY <1>2, <1>4 DEF Suspend, Resume
    <3> QED  BY <1>2, <1>4, <3>1 DEF Suspend, Resume, Deferring
  <2> QED  BY <1>1, <2>1, CountKeeps, AppStepKeeps, ZeroStage
<1>5. ASSUME DeferEnd PROVE IndInv'
  <2>1. AppStep(LeaveDefer(0))
    BY <1>5 DEF DeferEnd
  <2> QED  BY <1>1, <2>1, LeaveDeferKeeps, AppStepKeeps, ZeroStage
<1> QED  BY <1>3, <1>4, <1>5

\* The stage that is merged next.
LEMMA NextStage ==
    ASSUME NEW S \in SUBSET Stages, S # {}
    PROVE  Min(S) \in S
<1> DEFINE n == StageCount
           T == {k \in 1 .. n : k - 1 \in S}
<1>1. n \in Nat /\ \A s \in S : s \in 0 .. n - 1
  BY StageCountAssumption DEF Stages
<1>2. T \in SUBSET (1 .. n) /\ T # {}
  <2>1. PICK s \in S : TRUE
    OBVIOUS
  <2>2. s + 1 \in 1 .. n /\ (s + 1) - 1 = s
    BY <1>1, <2>1
  <2>3. s + 1 \in T
    BY <2>1, <2>2
  <2> QED  BY <2>3
<1> HIDE DEF n
<1>3. \E x \in T : \A y \in T : x <= y
  <2> HIDE DEF T
  <2> QED  BY <1>1, <1>2, Reactions!LeastNumber
<1>4. PICK x \in T : \A y \in T : x <= y
  BY <1>3
<1>5. x - 1 \in S /\ \A s \in S : x - 1 <= s
  <2>1. ASSUME NEW s \in S
        PROVE  x - 1 <= s
    <3>1. s \in 0 .. n - 1
      BY <1>1
    <3>2. s + 1 \in 1 .. n /\ (s + 1) - 1 \in S
      BY <1>1, <3>1
    <3>3. s + 1 \in T
      BY <3>2
    <3> QED  BY <1>1, <1>4, <3>1, <3>3
  <2> QED  BY <1>4, <2>1
<1> QED  BY <1>5 DEF Min

\* ecs_readonly_begin and ecs_readonly_end with the merge of each stage.
LEMMA MergeKeeps ==
    ASSUME IndInv, ReadonlyBegin \/ ReadonlyEnd \/ MergeStage
    PROVE  IndInv'
<1>1. frames = <<>>
  BY DEF ReadonlyBegin, ReadonlyEnd, MergeStage, Idle
<1>2. /\ Sound(World) /\ World.frames = <<>> /\ AllDrained(World) /\ World.stages = stages
      /\ IsWorld(World) /\ StagesOK(World) /\ merging \in SUBSET Stages
  BY <1>1, IdleIs, HereIs
<1>3. ASSUME ReadonlyBegin PROVE IndInv'
  <2> DEFINE ss == [s \in Stages |-> WithDefer(stages[s], 1)]
             w == WithStages(World, ss)
  <2>1. Becomes(w) /\ UNCHANGED merging
    BY <1>3 DEF ReadonlyBegin, WithStages, WithDefer
  <2>2. ASSUME NEW s \in Stages
        PROVE  /\ StageOK(ss[s], World.store.gen) /\ ss[s].defer = 1
               /\ ss[s].cmd_flushing = World.stages[s].cmd_flushing
    <3>1. ss[s] = WithDefer(World.stages[s], 1)
      BY <1>2
    <3> HIDE DEF ss
    <3> QED  BY <1>2, <3>1, WithDeferKeeps DEF StagesOK
  <2>3. ss \in [Stages -> StageType]
    <3>1. \A s \in Stages : WithDefer(stages[s], 1) \in StageType
      BY <2>2 DEF StageOK
    <3> QED  BY <3>1
  <2> HIDE DEF ss
  <2>4. w = Parts(ss, World.store, World.frames, World.calls, World.called, World.stale_set)
    BY <1>2, WithStagesIs
  <2> HIDE DEF w
  <2>5. /\ w.stages = ss /\ w.store = World.store /\ w.frames = World.frames
        /\ w.calls = World.calls
        /\ w = Parts(w.stages, w.store, w.frames, w.calls, w.called, w.stale_set)
    BY <2>4 DEF Parts
  <2>6. IsWorld(w) /\ StagesOK(w)
    BY <1>2, <2>2, <2>3, <2>5 DEF IsWorld, StagesOK
  <2>7. FramesOK(<<>>, ss)
    BY <1>2, <2>2, NoFrames DEF Sound
  <2>8. Sound(w) /\ AllDrained(w)
    BY <1>2, <2>2, <2>5, <2>6, <2>7 DEF Sound, AllDrained, Drained
  <2>9. merging' \in SUBSET Stages
    BY <1>2, <2>1
  <2> QED  BY <2>1, <2>8, <2>9, StepKeeps
<1>4. ASSUME ReadonlyEnd PROVE IndInv'
  <2>1. /\ stages' = stages /\ store' = store /\ frames' = frames /\ calls' = calls
        /\ called' = called /\ stale_set' = stale_set /\ merging' = Stages
    BY <1>4 DEF ReadonlyEnd
  <2>2. World' = World
    BY <2>1 DEF World
  <2> QED  BY <2>1, <2>2 DEF IndInv
<1>5. ASSUME MergeStage PROVE IndInv'
  <2> DEFINE s == Min(merging)
  <2>1. merging' = merging \ {s} /\ Becomes(LeaveDefer(s)) /\ merging # {}
    BY <1>5 DEF MergeStage
  <2>2. s \in Stages
    BY <1>2, <2>1, NextStage
  <2> HIDE DEF s
  <2>3. merging' \in SUBSET Stages
    BY <1>2, <2>1
  <2>4. Sound(LeaveDefer(s)) /\ AllDrained(LeaveDefer(s))
    BY <1>1, <2>2, LeaveDeferKeeps
  <2> QED  BY <2>1, <2>3, <2>4, StepKeeps
<1> QED  BY <1>3, <1>4, <1>5

\* The calls that the API accepts can be queued.
IsCall(c, allowed) ==
    /\ Queueable(c, store.gen) /\ c.kind = c.op
    /\ \E k \in allowed : c.op = k[1]

\* Every call the API accepts is such a call.
LEMMA CallIs ==
    ASSUME IndInv, NEW allowed, allowed = Calls \/ allowed = SuspendedCalls,
           NEW c \in CallsNow(allowed)
    PROVE  IsCall(c, allowed)
<1>1. PICK k \in allowed, n \in Indices : c = NewCall(k[1], <<n, store.gen[n]>>, k[2], calls + 1)
  BY DEF CallsNow
<1>2. k[1] \in Operations /\ k[2] \in Ids \union {NoId}
  BY CallsAssumption
<1>3. calls + 1 \in Nat /\ store.gen[n] \in Nat
  BY HereIs DEF IsWorld, IsStore
<1> DEFINE e == <<n, store.gen[n]>>
<1>4. e \in Indices \X Nat /\ e[2] = store.gen[e[1]]
  BY <1>3
<1> HIDE DEF e
<1>5. c = NewCall(k[1], e, k[2], calls + 1)
  BY <1>1 DEF e
<1> DEFINE op == k[1]
           id == k[2]
<1> HIDE DEF op, id
<1>6. c = NewCall(op, e, id, calls + 1) /\ op \in Operations /\ id \in Ids \union {NoId}
  BY <1>2, <1>5 DEF op, id
<1>7. c \in Command /\ c.next = 0 /\ c.e = e /\ c.kind = c.op /\ c.op = op
  BY <1>3, <1>4, <1>6 DEF NewCall, Command, Kinds
<1> QED  BY <1>4, <1>7 DEF IsCall, Queueable, op

\* A call on a stage that is deferred is queued.
LEMMA CallDeferredKeeps ==
    ASSUME IndInv, NEW s \in Stages, CallDeferred(s)
    PROVE  IndInv'
<1>1. frames = <<>> /\ stages[s].defer > 0
  BY DEF CallDeferred, Idle
<1>2. PICK c \in CallsNow(Calls) : AppStep(Defer(World, s, c))
  BY DEF CallDeferred
<1>3. /\ Sound(World) /\ IsWorld(World) /\ StagesOK(World) /\ AllDrained(World)
      /\ World.stages = stages /\ World.store = store
  BY HereIs
<1>4. Queueable(c, World.store.gen)
  BY <1>3, CallIs DEF IsCall
<1> DEFINE w == Defer(World, s, c)
<1>5. Queued(World, w, s)
  BY <1>3, <1>4, DeferKeeps
<1>6. AppStep(w)
  BY <1>2
<1> HIDE DEF w
<1>7. \A t \in Stages : SameFlush(w.stages[t], World.stages[t])
  BY <1>5 DEF Queued, SameFlush
<1>8. FramesOK(w.frames, w.stages)
  BY <1>3, <1>5, <1>7, FramesStay DEF Sound, Queued
<1>9. AllDrained(w)
  <2>1. w.stages[s].defer # 0
    BY <1>1, <1>3, <1>7 DEF SameFlush
  <2> QED  BY <1>3, <1>5, <2>1 DEF AllDrained, Drained, Queued
<1>10. Sound(w)
  BY <1>5, <1>8 DEF Sound, Queued
<1> QED  BY <1>6, <1>9, <1>10, AppStepKeeps

\* A call that is not deferred is the only command of its flush.
LEMMA NowFrame ==
    ASSUME NEW c \in Command, NEW ss, FramesOK(<<>>, ss)
    PROVE  FramesOK(<<Frame(Now, c)>>, ss)
<1> DEFINE f == Frame(Now, c)
           fr == <<f>>
<1>1. f \in FrameType /\ f.stage = Now /\ f.call = c
  BY DEF Frame, FrameType
<1> HIDE DEF f
<1>2. fr \in Seq(FrameType) /\ DOMAIN fr = {1} /\ fr[1] = f
  BY <1>1
<1> HIDE DEF fr
<1>3. \A s \in Stages : ~ ss[s].cmd_flushing
  BY NoFrames
<1>4. FramesOK(fr, ss)
  BY <1>1, <1>2, <1>3 DEF FramesOK
<1> QED  BY <1>4 DEF fr, f

\* A call that is not deferred.
LEMMA CallNowKeeps ==
    ASSUME IndInv, CallNow
    PROVE  IndInv'
<1>1. frames = <<>>
  BY DEF CallNow, Idle
<1> DEFINE Call(c) == [Asked(store, c) EXCEPT
                          !.kind = IF c.op = "Set" /\ c.id \in Trivial THEN "Ensure" ELSE @]
           Wait(c) == [World EXCEPT !.frames = <<Frame(Now, c)>>, !.calls = @ + 1]
<1>2. PICK c \in CallsNow(Calls) : AppStep(Wait(Call(c)))
  BY DEF CallNow
<1>3. /\ Sound(World) /\ IsWorld(World) /\ StagesOK(World) /\ AllDrained(World)
      /\ World.frames = <<>>
  BY <1>1, HereIs
<1> DEFINE a == Asked(store, c)
           k == IF c.op = "Set" /\ c.id \in Trivial THEN "Ensure" ELSE a.kind
<1>4. Call(c) = [a EXCEPT !.kind = k]
  OBVIOUS
<1>5. Queueable(a, store.gen)
  BY CallIs, AskedIs DEF IsCall
<1> HIDE DEF a
<1>6. k \in Kinds
  BY <1>5 DEF Queueable, Command, Kinds, Operations
<1> HIDE DEF k
<1> DEFINE d == Call(c)
<1>7. d \in Command
  BY <1>4, <1>5, <1>6 DEF Queueable, Command
<1> HIDE DEF d
<1> DEFINE fr == <<Frame(Now, d)>>
           w == Wait(d)
<1>8. FramesOK(fr, World.stages)
  BY <1>3, <1>7, NowFrame DEF Sound
<1>9. w = [World EXCEPT !.frames = fr, !.calls = @ + 1]
  OBVIOUS
<1>10. AppStep(w)
  BY <1>2 DEF d
<1> HIDE DEF fr, w
<1>11. w = Parts(World.stages, World.store, fr, World.calls + 1, World.called, World.stale_set)
  <2> DEFINE y == [World EXCEPT !.frames = fr]
  <2>1. y = Parts(World.stages, World.store, fr, World.calls, World.called, World.stale_set)
    BY <1>3 DEF IsWorld, Parts
  <2>2. w = [y EXCEPT !.calls = World.calls + 1]
    BY <1>9
  <2> HIDE DEF y
  <2> QED  BY <2>1, <2>2 DEF Parts
<1>12. /\ w.stages = World.stages /\ w.store = World.store /\ w.frames = fr
       /\ w.calls = World.calls + 1
       /\ w = Parts(w.stages, w.store, w.frames, w.calls, w.called, w.stale_set)
  BY <1>11 DEF Parts
<1>13. IsWorld(w) /\ StagesOK(w) /\ AllDrained(w)
  BY <1>3, <1>12 DEF IsWorld, StagesOK, AllDrained
<1>14. Sound(w)
  BY <1>8, <1>12, <1>13 DEF Sound
<1> QED  BY <1>10, <1>13, <1>14, AppStepKeeps

\* A call while deferring is suspended.
LEMMA CallSuspendedKeeps ==
    ASSUME IndInv, CallSuspended
    PROVE  IndInv'
<1>1. frames = <<>> /\ stages[0].defer < 0
  BY DEF CallSuspended, Idle
<1> DEFINE Done(c) == [Execute(World, c) EXCEPT !.calls = @ + 1, !.called = Perform(@, c)]
<1>2. PICK c \in CallsNow(SuspendedCalls) : AppStep(Done(c))
  BY DEF CallSuspended
<1>3. /\ Sound(World) /\ IsWorld(World) /\ StagesOK(World) /\ AllDrained(World)
      /\ World.frames = <<>> /\ World.stages = stages /\ World.store = store
  BY <1>1, HereIs
<1>4. IsCall(c, SuspendedCalls)
  BY CallIs
<1>5. c.kind \in Plain
  BY <1>4, CallsAssumption DEF IsCall, Plain, Operations
<1>6. Current(c.e, World.store.gen)
  BY <1>3, <1>4 DEF IsCall, Queueable, Command, Current
<1> DEFINE x == Execute(World, c)
           cd == Perform(x.called, c)
           w == Done(c)
<1>7. Beside(World, x)
  BY <1>3, <1>5, <1>6, ExecuteKeeps
<1>8. w = [x EXCEPT !.calls = x.calls + 1, !.called = cd]
  OBVIOUS
<1>9. AppStep(w)
  BY <1>2
<1> HIDE DEF x, w, cd
<1>10. IsWorld(x) /\ StagesOK(x) /\ x.frames = <<>>
  BY <1>3, <1>7 DEF Beside
<1>11. w = Parts(x.stages, x.store, x.frames, x.calls + 1, cd, x.stale_set)
  <2> DEFINE y == [x EXCEPT !.calls = x.calls + 1]
  <2>1. y = Parts(x.stages, x.store, x.frames, x.calls + 1, x.called, x.stale_set)
    BY <1>10 DEF IsWorld, Parts
  <2>2. w = [y EXCEPT !.called = cd]
    BY <1>8
  <2> HIDE DEF y
  <2> QED  BY <2>1, <2>2 DEF Parts
<1>12. /\ w.stages = x.stages /\ w.store = x.store /\ w.frames = x.frames
       /\ w.calls = x.calls + 1
       /\ w = Parts(w.stages, w.store, w.frames, w.calls, w.called, w.stale_set)
  BY <1>11 DEF Parts
<1>13. IsWorld(w) /\ StagesOK(w)
  BY <1>10, <1>12 DEF IsWorld, StagesOK
<1>14. \A t \in Stages : SameFlush(x.stages[t], World.stages[t])
  BY <1>7 DEF Beside, SameFlush
<1>15. FramesOK(w.frames, w.stages)
  BY <1>3, <1>10, <1>12, <1>14, FramesStay DEF Sound
<1>16. AllDrained(w)
  <2>1. x.stages[0].defer # 0
    BY <1>1, <1>3, <1>14, ZeroStage DEF SameFlush
  <2> QED  BY <1>3, <1>7, <1>12, <2>1 DEF AllDrained, Drained, Beside
<1> QED  BY <1>9, <1>13, <1>15, <1>16, AppStepKeeps DEF Sound

\* ecs_new recycles an index without another generation.
LEMMA NewKeeps ==
    ASSUME IndInv, New
    PROVE  IndInv'
<1>1. frames = <<>>
  BY DEF New, Idle
<1>2. PICK n \in Indices : AppStep([World EXCEPT !.store.live[n] = TRUE, !.called.live[n] = TRUE])
  BY DEF New
<1>3. /\ Sound(World) /\ IsWorld(World) /\ StagesOK(World) /\ AllDrained(World)
      /\ World.frames = <<>> /\ IsStore(World.store)
  BY <1>1, HereIs DEF IsWorld
<1> DEFINE s == [World.store EXCEPT !.live[n] = TRUE]
           cd == [World.called EXCEPT !.live[n] = TRUE]
           w == WithCalled(WithStore(World, s), cd)
<1>4. IsStore(s) /\ s.gen = World.store.gen
  <2> DEFINE t == World.store
             live == [t.live EXCEPT ![n] = TRUE]
  <2>1. s = [t EXCEPT !.live = live]
    OBVIOUS
  <2> HIDE DEF live, t, s
  <2>2. IsStore(t)
    BY <1>3 DEF t
  <2> QED  BY <2>1, <2>2 DEF IsStore, t
<1>5. AppStep(w)
  <2>1. w = [World EXCEPT !.store.live[n] = TRUE, !.called.live[n] = TRUE]
    BY DEF WithCalled, WithStore
  <2> QED  BY <1>2, <2>1
<1> HIDE DEF s, cd
<1> DEFINE x == WithStore(World, s)
<1>6. Queued(World, x, 0)
  BY <1>3, <1>4, SameGenChanges
<1>7. x.stages = World.stages
  BY <1>3, WithStoreIs DEF Parts
<1> HIDE DEF x
<1>8. SameWorld(x, w)
  BY <1>6, HistoryKeeps DEF Queued, x
<1> HIDE DEF w
<1>9. IsWorld(w) /\ StagesOK(w) /\ w.stages = World.stages /\ w.frames = World.frames
  BY <1>6, <1>7, <1>8 DEF SameWorld, Queued
<1>10. Sound(w) /\ AllDrained(w)
  BY <1>3, <1>9 DEF Sound, AllDrained
<1> QED  BY <1>5, <1>10, AppStepKeeps
-----------------------------------------------------------------------------
(***************************************************************************)
(* The theorems.                                                           *)
(***************************************************************************)
LEMMA InitHolds ==
    ASSUME Init
    PROVE  IndInv
<1>1. /\ stages = [s \in Stages |-> Stage] /\ frames = <<>> /\ merging = {} /\ calls = 0
      /\ \E has \in SUBSET Ids : store = InitialStore(has)
  BY DEF Init
<1>2. IsStore(store)
  BY <1>1 DEF IsStore, InitialStore
<1>3. /\ Stage \in StageType /\ Stage.defer = 0 /\ ~ Stage.cmd_flushing /\ Stage.cmd = 0
      /\ Stage.queue = [q \in 0 .. 1 |-> <<>>]
      /\ Stage.entries = [q \in 0 .. 1 |-> [x \in Indices |-> NoEntry]]
  <2> DEFINE queue == [q \in 0 .. 1 |-> <<>>]
             row == [x \in Indices |-> NoEntry]
             entries == [q \in 0 .. 1 |-> row]
  <2>1. <<>> \in Seq(Command)
    OBVIOUS
  <2>2. queue \in [0 .. 1 -> Seq(Command)]
    BY <2>1
  <2>3. NoEntry \in Entry
    BY DEF NoEntry, Entry
  <2>4. row \in [Indices -> Entry]
    BY <2>3
  <2> HIDE DEF row
  <2>5. entries \in [0 .. 1 -> [Indices -> Entry]]
    BY <2>4
  <2>6. Stage = [defer |-> 0, cmd_flushing |-> FALSE, cmd |-> 0, queue |-> queue,
                 entries |-> entries]
    BY DEF Stage, row
  <2> HIDE DEF queue, entries
  <2>7. Stage \in StageType
    BY <2>2, <2>5, <2>6 DEF StageType
  <2> QED  BY <2>6, <2>7 DEF queue, entries, row
<1>4. ASSUME NEW gen
      PROVE  StageOK(Stage, gen) /\ Drained(Stage)
  <2>1. Filled(Stage) = <<>> /\ Stage.queue[1 - Stage.cmd] = <<>>
    BY <1>3 DEF Filled
  <2>2. \A x \in Indices : /\ Stage.entries[Stage.cmd][x].first = -1
                           /\ Stage.entries[1 - Stage.cmd][x].first = -1
    BY <1>3 DEF NoEntry
  <2>3. Len(Filled(Stage)) = 0
    BY <2>1
  <2>4. Chains(Filled(Stage), Len(Filled(Stage)), Stage.entries[Stage.cmd], gen)
    BY <2>2, <2>3, ChainsEmpty
  <2> QED  BY <1>3, <2>1, <2>2, <2>4 DEF StageOK, Drained
<1>5. /\ World = Parts(World.stages, World.store, World.frames, World.calls, World.called,
                       World.stale_set)
      /\ World.stages = stages /\ World.store = store /\ World.calls = calls
  BY DEF World, Parts
<1>6. IsWorld(World) /\ StagesOK(World)
  <2> HIDE DEF Stage
  <2> QED  BY <1>1, <1>2, <1>3, <1>4, <1>5 DEF IsWorld, StagesOK
<1>7. FramesOK(frames, stages)
  <2>1. \A s \in Stages : ~ stages[s].cmd_flushing
    BY <1>1, <1>3
  <2> QED  BY <1>1, <2>1, NoFrames
<1>8. \A s \in Stages : Drained(stages[s])
  BY <1>1, <1>4
<1> QED  BY <1>1, <1>6, <1>7, <1>8 DEF IndInv

\* Every step keeps the invariant.
LEMMA NextKeeps ==
    ASSUME IndInv, [Next]_vars
    PROVE  IndInv'
<1>1. CASE Next
  BY <1>1, FlushKeeps, DeferStepsKeep, MergeKeeps, CallDeferredKeeps, CallNowKeeps,
     CallSuspendedKeeps, NewKeeps DEF Next
<1>2. CASE UNCHANGED vars
  <2>1. /\ stages' = stages /\ store' = store /\ frames' = frames /\ calls' = calls
        /\ called' = called /\ stale_set' = stale_set /\ merging' = merging
    BY <1>2 DEF vars
  <2>2. World' = World
    BY <2>1 DEF World
  <2> QED  BY <2>1, <2>2 DEF IndInv
<1> QED  BY <1>1, <1>2

\* The queues of a stage, the entries of the entities and the flushes under way
\* fit together at all times (flecs_cmd_new_batched, flecs_defer_end).
THEOREM Invariance == Spec => []IndInv
<1>1. Init => IndInv
  BY InitHolds
<1>2. IndInv /\ [Next]_vars => IndInv'
  BY NextKeeps
<1> QED  BY <1>1, <1>2, PTL DEF Spec

\* The invariant says that nothing is left behind in a queue ...
LEMMA QueuesAreDrained ==
    ASSUME IndInv
    PROVE  QueuesDrained
<1> SUFFICES ASSUME Idle, NEW s \in Stages, stages[s].defer = 0
             PROVE  /\ ~ stages[s].cmd_flushing
                    /\ \A q \in 0 .. 1 :
                          /\ stages[s].queue[q] = <<>>
                          /\ \A n \in Indices : stages[s].entries[q][n].first = -1
  BY DEF QueuesDrained
<1> DEFINE st == stages[s]
<1>1. /\ FramesOK(<<>>, stages) /\ StageOK(st, store.gen) /\ Drained(st)
  BY HereIs DEF IndInv, Idle, StagesOK
<1>2. ~ st.cmd_flushing
  BY <1>1, NoFrames
<1>3. /\ st.cmd \in 0 .. 1 /\ Filled(st) = <<>> /\ st.queue[1 - st.cmd] = <<>>
      /\ \A x \in Indices : st.entries[1 - st.cmd][x].first = -1
  BY <1>1, <1>2 DEF StageOK, StageType, Drained
<1>4. \A x \in Indices : st.entries[st.cmd][x].first = -1
  <2> HIDE DEF st
  <2> QED  BY <1>1, <1>3, NothingFilled
<1> HIDE DEF st
<1>5. ASSUME NEW q \in 0 .. 1
      PROVE  st.queue[q] = <<>> /\ \A n \in Indices : st.entries[q][n].first = -1
  <2>1. CASE q = st.cmd
    BY <1>3, <1>4, <2>1 DEF Filled
  <2>2. CASE q = 1 - st.cmd
    BY <1>3, <2>2
  <2> QED  BY <1>3, <2>1, <2>2
<1> QED  BY <1>2, <1>5 DEF st

\* Whatever is called, in whatever order: a stage that is neither deferred nor
\* flushed has no command left and no entry that points into a cleared queue
\* (flecs_defer_end).
THEOREM QueuesStayDrained == Spec => []QueuesDrained
BY Invariance, QueuesAreDrained, PTL

\* ... and that the links of a queue lead to the next command of the handle.
LEMMA QueueIsLinked ==
    ASSUME IndInv
    PROVE  ChainsComplete
<1> SUFFICES ASSUME NEW s \in Stages
             PROVE  LET queue == stages[s].queue[stages[s].cmd]
                        Chain(e) == {j \in DOMAIN queue : queue[j].e = e /\ queue[j].op # "Modified"}
                    IN  \A j \in {j \in DOMAIN queue : queue[j].op # "Modified"} :
                          LET later == {k \in Chain(queue[j].e) : k > j}
                              first == \A k \in Chain(queue[j].e) : k >= j
                          IN  queue[j].next = IF later = {} THEN 0
                                              ELSE IF first THEN - Min(later) ELSE Min(later)
  BY DEF ChainsComplete
<1> DEFINE q == stages[s].queue[stages[s].cmd]
           n == Len(q)
<1>1. /\ stages[s] \in StageType
      /\ Chains(q, n, stages[s].entries[stages[s].cmd], store.gen)
  BY HereIs DEF IndInv, StagesOK, StageOK, Filled
<1>2. q \in Seq(Command)
  BY <1>1 DEF StageType
<1> HIDE DEF q
<1>3. DOMAIN q = 1 .. n /\ n \in Nat
  BY <1>2
<1> HIDE DEF n
<1>4. ASSUME NEW j \in {j \in DOMAIN q : q[j].op # "Modified"}
      PROVE  LET later == {k \in {i \in DOMAIN q : q[i].e = q[j].e /\ q[i].op # "Modified"} : k > j}
                 first == \A k \in {i \in DOMAIN q : q[i].e = q[j].e /\ q[i].op # "Modified"} : k >= j
             IN  q[j].next = IF later = {} THEN 0
                             ELSE IF first THEN - Min(later) ELSE Min(later)
  <2> DEFINE S == Same(q, n, q[j].e)
             later == {k \in S : k > j}
  <2>1. {i \in DOMAIN q : q[i].e = q[j].e /\ q[i].op # "Modified"} = S
    BY <1>3 DEF Same, Batched
  <2>2. Linked(q, n, j) /\ S \in SUBSET (1 .. n) /\ j \in 1 .. n
    BY <1>1, <1>3 DEF Chains, Batched, Same
  <2>3. /\ (\A k \in S : k <= j) => q[j].next = 0
        /\ \A k \in S : j < k /\ (\A i \in S : i <= j \/ k <= i)
                        => q[j].next = IF \A i \in S : j <= i THEN - k ELSE k
    BY <2>2 DEF Linked
  <2> HIDE DEF S
  <2>4. CASE later = {}
    <3>1. \A k \in S : k <= j
      BY <2>2, <2>4
    <3> QED  BY <2>1, <2>3, <2>4, <3>1
  <2>5. CASE later # {}
    <3>1. later \in SUBSET (1 .. n)
      BY <2>2
    <3>2. \E x \in later : \A y \in later : x <= y
      <4> HIDE DEF later
      <4> QED  BY <1>3, <2>5, <3>1, Reactions!LeastNumber
    <3>3. Min(later) \in later /\ \A y \in later : Min(later) <= y
      <4> HIDE DEF later
      <4> QED  BY <3>2 DEF Min
    <3> DEFINE k == Min(later)
    <3>4. k \in S /\ j < k /\ k \in 1 .. n
      BY <2>2, <3>3
    <3>5. \A i \in S : i <= j \/ k <= i
      BY <2>2, <3>3
    <3> HIDE DEF k
    <3>6. q[j].next = IF \A i \in S : j <= i THEN - k ELSE k
      BY <2>3, <3>4, <3>5
    <3>7. (\A i \in S : j <= i) <=> (\A i \in S : i >= j)
      OBVIOUS
    <3>8. q[j].next = IF \A i \in S : i >= j THEN - Min(later) ELSE Min(later)
      BY <3>6, <3>7 DEF k
    <3> HIDE DEF later
    <3> QED  BY <2>1, <2>5, <3>8 DEF later
  <2> QED  BY <2>4, <2>5
<1> QED  BY <1>4 DEF q

\* In the queue that a stage fills, every batched command is linked to the next
\* one for the same entity and to no other (flecs_cmd_new_batched): for any
\* number of stages, calls and observers.
THEOREM ChainsStayComplete == Spec => []ChainsComplete
BY Invariance, QueueIsLinked, PTL
=============================================================================

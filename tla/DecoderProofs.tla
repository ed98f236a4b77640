----------------------------- MODULE DecoderProofs -----------------------------
(***************************************************************************)
(* What TLAPS proves of the decoders of the library.                       *)
(*                                                                         *)
(* BatchesAreIndependent (LayeredDecoder): for every graph, prior, target, *)
(* partition, parallelism and budget, the checks of an auxiliary batch of  *)
(* the GARI decoder may run in any order, or at once.                      *)
(*                                                                         *)
(* DecodersAlwaysAgree (LayeredDecoder): for every window the decoders do  *)
(* not refuse, RunsAgree, by the inductive invariant RunsInv. The          *)
(* argument: every schedule is a permutation of the checks; a check moves  *)
(* a posterior by its new word less its old one, and while there is room   *)
(* nothing saturates, so that a posterior is its base and what the checks  *)
(* say now, whatever the order and the form of the update.                 *)
(*                                                                         *)
(* CompletionsAlwaysExact (NeutralCompletion): for every image, the        *)
(* bridged completion of the S2R tail repairs exactly the residuals that   *)
(* neutral faults explain, and what it or the plain tree returns does      *)
(* repair them. The argument: the traversal of the kept links is a tree in *)
(* which every parent comes first, so that the walk from the leaves        *)
(* settles each node for good and ends stuck at a root only if a component *)
(* misses an odd number of checks; the pivots of the bridge are in echelon *)
(* form and they span the parity vectors of all neutral columns, so that   *)
(* the elimination fails only on a vector no set of neutral faults has.    *)
(*                                                                         *)
(* UpdatesAlwaysAgree (CheckUpdate): for every degree, all integer         *)
(* messages and both syndrome bits, the scalar, batch and flooding forms   *)
(* of a check update send every edge what all the others say, and a        *)
(* compressed record gives every message back through its packed word. The *)
(* argument: two minima tell the least of all the others for every edge,   *)
(* so that the outgoing messages have one exceptional magnitude at most; a *)
(* word is its quotient, bit and remainder at every bit, so that it reads  *)
(* as packed.                                                              *)
(*                                                                         *)
(* BatchesAlwaysMatch (PaperStage1): for every graph, every list of        *)
(* targets and every list of profiles, the rows of a rescued batch come    *)
(* out as shot by shot. The argument: after k profiles a row holds the     *)
(* answer its own shot has after k profiles, because a retry lists the     *)
(* rows that failed once each and the batch kernel is the scalar one while *)
(* there is room.                                                          *)
(***************************************************************************)
EXTENDS LibraryJobs, Induction, SequenceTheorems

-----------------------------------------------------------------------------
(* Sweeps, one check at a time.                                            *)

\* f runs through the states of a sweep.
IsSweep(f, graph, target, kernel, s, order) ==
  /\ f[0] = s
  /\ \A i \in 1..Len(order) : f[i] = CheckStep(graph, target, kernel, f[i - 1], order[i])

\* A sweep ends in the last of its states.
LEMMA SweepByPosition ==
  ASSUME NEW graph, NEW target, NEW kernel, NEW s, NEW C, NEW order \in Seq(C)
  PROVE  \E f : /\ IsSweep(f, graph, target, kernel, s, order)
                /\ Sweep(graph, target, kernel, s, order) = f[Len(order)]
<1> DEFINE n == Len(order)
           Step(t, i) == CheckStep(graph, target, kernel, t, order[i])
           Solves(g, m) == g = [S \in SUBSET (1..m) |->
                                  IF S = {} THEN s ELSE Step(g[S \ {Max(S)}], Max(S))]
           D == {m \in 0..n : \E g : Solves(g, m)}
<1>1. n \in Nat /\ DOMAIN order = 1..n
  OBVIOUS
<1>2. 0 \in D
  <2> DEFINE g == [S \in SUBSET (1..0) |-> s]
  <2>1. \A S \in SUBSET (1..0) : S = {}
    OBVIOUS
  <2>2. Solves(g, 0)
    BY <2>1
  <2> QED
    BY <1>1, <2>2
<1>3. ASSUME NEW m \in 1..n, (m - 1) \in D PROVE m \in D
  <2>1. PICK g : Solves(g, m - 1)
    BY <1>3
  <2> DEFINE h == [S \in SUBSET (1..m) |-> IF m \in S THEN Step(g[S \ {m}], m) ELSE g[S]]
  <2>2. ASSUME NEW S \in SUBSET (1..m)
        PROVE  h[S] = IF S = {} THEN s ELSE Step(h[S \ {Max(S)}], Max(S))
    <3>1. CASE m \in S
      <4>1. m \in Nat /\ S # {}
        BY <3>1
      <4>2. Max(S) \in 1..m /\ Max(S) >= m
        BY <3>1, <4>1, MaxOfPositions
      <4>3. Max(S) = m
        BY <4>1, <4>2
      <4>4. S \ {m} \in SUBSET (1..m) /\ m \notin S \ {m}
        OBVIOUS
      <4>5. h[S \ {m}] = g[S \ {m}]
        BY <4>4
      <4> QED
        BY <3>1, <4>1, <4>3, <4>5
    <3>2. CASE m \notin S
      <4>1. S \in SUBSET (1..(m - 1)) /\ h[S] = g[S] /\ m - 1 \in Nat
        BY <3>2
      <4>2. g[S] = IF S = {} THEN s ELSE Step(g[S \ {Max(S)}], Max(S))
        BY <2>1, <4>1
      <4>3. S \ {Max(S)} \in SUBSET (1..m) /\ m \notin S \ {Max(S)}
        BY <3>2
      <4>4. h[S \ {Max(S)}] = g[S \ {Max(S)}]
        BY <4>3
      <4> QED
        BY <4>1, <4>2, <4>4
    <3> QED
      BY <3>1, <3>2
  <2>3. Solves(h, m)
    <3> HIDE DEF Step
    <3> QED
      BY <2>2
  <2> HIDE DEF Solves
  <2> QED
    BY <1>1, <2>3
<1> HIDE DEF D
<1>4. 0..n \subseteq D
  <2> HIDE DEF n
  <2> QED
    BY <1>1, <1>2, <1>3, IntervalInduction
<1>5. \E g : Solves(g, n)
  <2> HIDE DEF Solves
  <2> QED
    BY <1>1, <1>4 DEF D
<1> DEFINE h == CHOOSE k : Solves(k, n)
<1>6. Solves(h, n)
  BY <1>5
<1>7. Sweep(graph, target, kernel, s, order) = h[1..n]
  BY <1>1 DEF Sweep, FoldLeft, MapThenFoldSet
<1> DEFINE f == [i \in 0..n |-> h[1..i]]
<1> HIDE DEF h
<1>8. f[0] = s
  <2>1. 1..0 = {}
    OBVIOUS
  <2> QED
    BY <2>1, <1>6, <1>1
<1>9. ASSUME NEW i \in 1..n PROVE f[i] = Step(f[i - 1], i)
  <2>1. Max(1..i) = i /\ 1..i \in SUBSET (1..n) /\ 1..i # {} /\ (1..i) \ {i} = 1..(i - 1)
    BY <1>1, MaxOfInterval
  <2>2. h[1..i] = Step(h[(1..i) \ {Max(1..i)}], Max(1..i))
    BY <1>6, <2>1
  <2>3. h[1..i] = Step(h[1..(i - 1)], i)
    BY <2>1, <2>2
  <2>4. i \in 0..n /\ i - 1 \in 0..n
    BY <1>1
  <2> QED
    BY <2>3, <2>4
<1>10. f[n] = h[1..n]
  BY <1>1
<1> HIDE DEF f
<1>11. IsSweep(f, graph, target, kernel, s, order)
  BY <1>8, <1>9 DEF IsSweep
<1> QED
  BY <1>7, <1>10, <1>11

-----------------------------------------------------------------------------
(* The reach of a check.                                                   *)

\* A state with a posterior for each of V and messages for each of C.
Shaped(s, V, C) ==
  s = [posterior |-> [v \in V |-> s.posterior[v]], messages |-> [c \in C |-> s.messages[c]]]

\* t is s but for the variables and messages of a check.
Reached(graph, V, C, c, s, t) ==
  /\ Shaped(t, V, C)
  /\ \A v \in V \ ToSet(graph[c]) : t.posterior[v] = s.posterior[v]
  /\ \A d \in C \ {c} : t.messages[d] = s.messages[d]

\* A check keeps the shape, and changes its own variables and messages only.
LEMMA CheckReaches ==
  ASSUME NEW graph, NEW target, NEW kernel, NEW V, NEW C, NEW s, NEW c \in C, Shaped(s, V, C)
  PROVE  Reached(graph, V, C, c, s, CheckStep(graph, target, kernel, s, c))
<1> DEFINE t == CheckStep(graph, target, kernel, s, c)
<1>1. DOMAIN s.posterior = V /\ DOMAIN s.messages = C /\ s.messages = [d \in C |-> s.messages[d]]
  BY DEF Shaped
<1>2. PICK p, new :
        /\ t = [posterior |-> [v \in V |-> IF v \in ToSet(graph[c]) THEN p[v] ELSE s.posterior[v]],
                messages |-> [s.messages EXCEPT ![c] = new]]
  <2> DEFINE row == graph[c]
             x == [e \in DOMAIN row |-> Without(kernel, s.posterior[row[e]], s.messages[c][e])]
             new == UpdateOf(kernel, x, target[c])
             P(v) == LET e == CHOOSE i \in DOMAIN row : row[i] = v
                     IN  Move(kernel, s.posterior[v], s.messages[c][e], new[e])
             p == [v \in V |-> P(v)]
  <2>1. t = [posterior |-> [v \in V |-> IF v \in ToSet(row) THEN P(v) ELSE s.posterior[v]],
             messages |-> [s.messages EXCEPT ![c] = new]]
    <3> HIDE DEF new, x
    <3> QED
      BY <1>1 DEF CheckStep, Replaced, Forced, new, x
  <2>2. \A v \in V : p[v] = P(v)
    OBVIOUS
  <2> HIDE DEF p, P, new, x
  <2>3. [v \in V |-> IF v \in ToSet(row) THEN P(v) ELSE s.posterior[v]]
          = [v \in V |-> IF v \in ToSet(row) THEN p[v] ELSE s.posterior[v]]
    BY <2>2
  <2>4. t = [posterior |-> [v \in V |-> IF v \in ToSet(row) THEN p[v] ELSE s.posterior[v]],
             messages |-> [s.messages EXCEPT ![c] = new]]
    BY <2>1, <2>3
  <2> HIDE DEF t, row
  <2> QED
    BY <2>4 DEF row
<1> HIDE DEF t
<1>3. t.messages = [d \in C |-> IF d = c THEN new ELSE s.messages[d]]
  BY <1>1, <1>2
<1>4. t.posterior = [v \in V |-> IF v \in ToSet(graph[c]) THEN p[v] ELSE s.posterior[v]]
  BY <1>2
<1>5. Shaped(t, V, C)
  <2>1. t = [posterior |-> t.posterior, messages |-> t.messages]
    BY <1>2
  <2>2. t.posterior = [v \in V |-> t.posterior[v]] /\ t.messages = [d \in C |-> t.messages[d]]
    BY <1>3, <1>4
  <2> QED
    BY <2>1, <2>2 DEF Shaped
<1> QED
  BY <1>3, <1>4, <1>5 DEF t, Reached

\* What a check does to them depends on its own variables and messages only.
LEMMA CheckSees ==
  ASSUME NEW graph, NEW target, NEW kernel, NEW V, NEW C, NEW s, NEW t, NEW c \in C,
         Shaped(s, V, C), Shaped(t, V, C),
         ToSet(graph[c]) \subseteq V,
         s.messages[c] = t.messages[c],
         \A v \in ToSet(graph[c]) : s.posterior[v] = t.posterior[v]
  PROVE  LET s1 == CheckStep(graph, target, kernel, s, c)
             t1 == CheckStep(graph, target, kernel, t, c)
         IN  /\ s1.messages[c] = t1.messages[c]
             /\ \A v \in ToSet(graph[c]) : s1.posterior[v] = t1.posterior[v]
<1> DEFINE row == graph[c]
           x(r) == [e \in DOMAIN row |-> Without(kernel, r.posterior[row[e]], r.messages[c][e])]
           new(r) == UpdateOf(kernel, x(r), target[c])
           P(r, v) == LET e == CHOOSE i \in DOMAIN row : row[i] = v
                      IN  Move(kernel, r.posterior[v], r.messages[c][e], new(r)[e])
<1>1. /\ DOMAIN s.posterior = V /\ DOMAIN s.messages = C /\ s.messages = [d \in C |-> s.messages[d]]
      /\ DOMAIN t.posterior = V /\ DOMAIN t.messages = C /\ t.messages = [d \in C |-> t.messages[d]]
  BY DEF Shaped
<1>2. x(s) = x(t)
  <2>1. \A e \in DOMAIN row : row[e] \in ToSet(row)
    BY DEF ToSet
  <2>2. \A e \in DOMAIN row : s.posterior[row[e]] = t.posterior[row[e]]
    BY <2>1
  <2> HIDE DEF row
  <2> QED
    BY <2>2
<1>3. ASSUME NEW r, DOMAIN r.posterior = V, DOMAIN r.messages = C
      PROVE  /\ CheckStep(graph, target, kernel, r, c).messages[c] = new(r)
             /\ \A v \in ToSet(row) : CheckStep(graph, target, kernel, r, c).posterior[v] = P(r, v)
  <2>1. CheckStep(graph, target, kernel, r, c)
          = [posterior |-> [v \in V |-> IF v \in ToSet(row) THEN P(r, v) ELSE r.posterior[v]],
             messages |-> [r.messages EXCEPT ![c] = new(r)]]
    <3> HIDE DEF new, x
    <3> QED
      BY <1>3 DEF CheckStep, Replaced, Forced, new, x
  <2> HIDE DEF P, new, x
  <2> QED
    BY <2>1, <1>3
<1>4. new(s) = new(t) /\ \A v \in ToSet(row) : P(s, v) = P(t, v)
  <2>1. new(s) = new(t)
    <3> HIDE DEF x
    <3> QED
      BY <1>2
  <2> HIDE DEF new, x
  <2> QED
    BY <2>1
<1> HIDE DEF P, new, x
<1> QED
  BY <1>1, <1>3, <1>4

-----------------------------------------------------------------------------
(* Checks that share no variable.                                          *)

Apart(graph, B) ==
  \A c, d \in B : c # d => ToSet(graph[c]) \cap ToSet(graph[d]) = {}

\* The check of B, if there is one, that a variable belongs to.
Owners(graph, B, v) == {c \in B : v \in ToSet(graph[c])}
OwnerOf(graph, B, v) == CHOOSE c \in Owners(graph, B, v) : TRUE

\* The state after the checks of B have each seen s itself.
Together(graph, target, kernel, s, B) ==
  LET t(c) == CheckStep(graph, target, kernel, s, c)
  IN  [posterior |-> [v \in DOMAIN s.posterior |->
                        IF Owners(graph, B, v) = {} THEN s.posterior[v]
                        ELSE t(OwnerOf(graph, B, v)).posterior[v]],
       messages  |-> [c \in DOMAIN s.messages |->
                        IF c \in B THEN t(c).messages[c] ELSE s.messages[c]]]

\* After none of them it is s.
LEMMA TogetherNone ==
  ASSUME NEW graph, NEW target, NEW kernel, NEW V, NEW C, NEW s, Shaped(s, V, C)
  PROVE  Together(graph, target, kernel, s, {}) = s
<1>1. \A v : Owners(graph, {}, v) = {}
  BY DEF Owners
<1>2. DOMAIN s.posterior = V /\ DOMAIN s.messages = C
  BY DEF Shaped
<1>3. Together(graph, target, kernel, s, {})
        = [posterior |-> [v \in V |-> s.posterior[v]], messages |-> [c \in C |-> s.messages[c]]]
  BY <1>1, <1>2 DEF Together
<1> QED
  BY <1>3 DEF Shaped

\* One more check, apart from those before, need not know of them.
LEMMA TogetherOneMore ==
  ASSUME NEW graph, NEW target, NEW kernel, NEW V, NEW C, NEW s, Shaped(s, V, C),
         \A c \in C : ToSet(graph[c]) \subseteq V,
         NEW B \in SUBSET C, NEW c \in C \ B, Apart(graph, B \cup {c})
  PROVE  CheckStep(graph, target, kernel, Together(graph, target, kernel, s, B), c)
           = Together(graph, target, kernel, s, B \cup {c})
<1> DEFINE t == Together(graph, target, kernel, s, B)
           u == Together(graph, target, kernel, s, B \cup {c})
           t1 == CheckStep(graph, target, kernel, t, c)
           s1 == CheckStep(graph, target, kernel, s, c)
           StateAfter(d) == CheckStep(graph, target, kernel, s, d)
<1>1. DOMAIN s.posterior = V /\ DOMAIN s.messages = C
  BY DEF Shaped
<1>2. /\ t = [posterior |-> [v \in V |-> IF Owners(graph, B, v) = {} THEN s.posterior[v]
                                         ELSE StateAfter(OwnerOf(graph, B, v)).posterior[v]],
              messages |-> [d \in C |-> IF d \in B THEN StateAfter(d).messages[d] ELSE s.messages[d]]]
      /\ u = [posterior |-> [v \in V |-> IF Owners(graph, B \cup {c}, v) = {} THEN s.posterior[v]
                                         ELSE StateAfter(OwnerOf(graph, B \cup {c}, v)).posterior[v]],
              messages |-> [d \in C |-> IF d \in B \cup {c} THEN StateAfter(d).messages[d]
                                        ELSE s.messages[d]]]
  BY <1>1 DEF Together
<1> HIDE DEF t, u
<1>3. Shaped(t, V, C) /\ Shaped(u, V, C)
  <2> HIDE DEF StateAfter
  <2> QED
    BY <1>2 DEF Shaped
<1>4. ASSUME NEW v \in ToSet(graph[c])
      PROVE  Owners(graph, B, v) = {} /\ Owners(graph, B \cup {c}, v) = {c}
  BY <1>4 DEF Owners, Apart
<1>5. ASSUME NEW v \in V \ ToSet(graph[c])
      PROVE  Owners(graph, B, v) = Owners(graph, B \cup {c}, v)
  BY <1>5 DEF Owners
<1>6. /\ t.messages[c] = s.messages[c]
      /\ \A v \in ToSet(graph[c]) : t.posterior[v] = s.posterior[v]
  <2> HIDE DEF StateAfter
  <2> QED
    BY <1>2, <1>4
<1>7. t1.messages[c] = s1.messages[c] /\ \A v \in ToSet(graph[c]) : t1.posterior[v] = s1.posterior[v]
  BY <1>3, <1>6, CheckSees
<1>8. /\ Shaped(t1, V, C)
      /\ \A v \in V \ ToSet(graph[c]) : t1.posterior[v] = t.posterior[v]
      /\ \A d \in C \ {c} : t1.messages[d] = t.messages[d]
  <2>1. c \in C /\ Shaped(t, V, C)
    BY <1>3
  <2>2. Reached(graph, V, C, c, t, t1)
    BY <2>1, CheckReaches
  <2> QED
    BY <2>2 DEF Reached
<1>9. StateAfter(c) = s1
  OBVIOUS
<1> HIDE DEF t1, s1, StateAfter
<1>10. \A d \in C : t1.messages[d] = u.messages[d]
  <2> TAKE d \in C
  <2>1. CASE d = c
    BY <2>1, <1>2, <1>7, <1>9
  <2>2. CASE d # c
    BY <2>2, <1>2, <1>8
  <2> QED
    BY <2>1, <2>2
<1>11. \A v \in V : t1.posterior[v] = u.posterior[v]
  <2> TAKE v \in V
  <2>1. CASE v \in ToSet(graph[c])
    <3>1. OwnerOf(graph, B \cup {c}, v) = c
      BY <2>1, <1>4 DEF OwnerOf
    <3>2. u.posterior[v] = StateAfter(c).posterior[v]
      BY <2>1, <3>1, <1>2, <1>4
    <3> QED
      BY <2>1, <3>2, <1>7, <1>9
  <2>2. CASE v \notin ToSet(graph[c])
    <3>1. Owners(graph, B, v) = Owners(graph, B \cup {c}, v)
      BY <2>2, <1>5
    <3>2. OwnerOf(graph, B, v) = OwnerOf(graph, B \cup {c}, v)
      BY <3>1 DEF OwnerOf
    <3>3. t.posterior[v] = u.posterior[v]
      BY <3>1, <3>2, <1>2
    <3> QED
      BY <2>2, <3>3, <1>8
  <2> QED
    BY <2>1, <2>2
<1>12. t1 = u
  BY <1>3, <1>8, <1>10, <1>11 DEF Shaped
<1> QED
  BY <1>12 DEF t1, t, u

\* A sweep of one check is the step of that check.
LEMMA SweepOfOne ==
  ASSUME NEW graph, NEW target, NEW kernel, NEW s, NEW C, NEW c \in C
  PROVE  Sweep(graph, target, kernel, s, <<c>>) = CheckStep(graph, target, kernel, s, c)
<1> DEFINE one == <<c>>
           n == Len(one)
<1>1. one \in Seq(C) /\ n = 1 /\ one[1] = c
  OBVIOUS
<1> HIDE DEF one
<1>2. PICK f : /\ IsSweep(f, graph, target, kernel, s, one)
               /\ Sweep(graph, target, kernel, s, one) = f[n]
  BY <1>1, SweepByPosition
<1>3. f[0] = s /\ f[1] = CheckStep(graph, target, kernel, f[1 - 1], one[1])
  BY <1>1, <1>2 DEF IsSweep
<1>4. Sweep(graph, target, kernel, s, one) = CheckStep(graph, target, kernel, s, c)
  BY <1>1, <1>2, <1>3
<1> QED
  BY <1>4 DEF one

\* A sweep keeps the shape.
LEMMA SweepShaped ==
  ASSUME NEW graph, NEW target, NEW kernel, NEW V, NEW C, NEW s, Shaped(s, V, C),
         NEW order \in Seq(C)
  PROVE  Shaped(Sweep(graph, target, kernel, s, order), V, C)
<1> DEFINE n == Len(order)
<1>1. n \in Nat /\ \A i \in 1..n : order[i] \in C
  OBVIOUS
<1>2. PICK f : /\ IsSweep(f, graph, target, kernel, s, order)
               /\ Sweep(graph, target, kernel, s, order) = f[n]
  BY SweepByPosition
<1> DEFINE D == {i \in 0..n : Shaped(f[i], V, C)}
<1>3. 0 \in D
  BY <1>1, <1>2 DEF IsSweep
<1>4. ASSUME NEW i \in 1..n, (i - 1) \in D PROVE i \in D
  <2>1. f[i] = CheckStep(graph, target, kernel, f[i - 1], order[i])
    BY <1>2 DEF IsSweep
  <2>2. Shaped(f[i - 1], V, C) /\ order[i] \in C
    BY <1>1, <1>4
  <2>3. Reached(graph, V, C, order[i], f[i - 1], f[i])
    BY <2>1, <2>2, CheckReaches
  <2> QED
    BY <2>3 DEF Reached
<1> HIDE DEF D
<1>5. 0..n \subseteq D
  <2> HIDE DEF n
  <2> QED
    BY <1>1, <1>3, <1>4, IntervalInduction
<1> QED
  BY <1>1, <1>2, <1>5 DEF D

\* Checks apart from each other may be swept in any order, and none sees another.
LEMMA ApartSweep ==
  ASSUME NEW graph, NEW target, NEW kernel, NEW V, NEW C, NEW s, Shaped(s, V, C),
         \A c \in C : ToSet(graph[c]) \subseteq V,
         NEW order \in Seq(C), IsInjective(order), Apart(graph, ToSet(order))
  PROVE  Sweep(graph, target, kernel, s, order)
           = Together(graph, target, kernel, s, ToSet(order))
<1> DEFINE n == Len(order)
           First(i) == {order[j] : j \in 1..i}
<1>1. n \in Nat /\ DOMAIN order = 1..n /\ \A i \in 1..n : order[i] \in C
  OBVIOUS
<1>2. PICK f : /\ IsSweep(f, graph, target, kernel, s, order)
               /\ Sweep(graph, target, kernel, s, order) = f[n]
  BY SweepByPosition
<1> DEFINE D == {i \in 0..n : f[i] = Together(graph, target, kernel, s, First(i))}
<1>3. 0 \in D
  <2>1. First(0) = {}
    OBVIOUS
  <2>2. f[0] = s
    BY <1>2 DEF IsSweep
  <2>3. Together(graph, target, kernel, s, {}) = s
    BY TogetherNone
  <2>4. f[0] = Together(graph, target, kernel, s, First(0))
    BY <2>1, <2>2, <2>3
  <2> HIDE DEF First
  <2> QED
    BY <1>1, <2>4
<1>4. ASSUME NEW i \in 1..n, (i - 1) \in D PROVE i \in D
  <2> DEFINE B == First(i - 1)
             c == order[i]
  <2>1. f[i] = CheckStep(graph, target, kernel, f[i - 1], c)
    BY <1>2 DEF IsSweep
  <2>2. f[i - 1] = Together(graph, target, kernel, s, B)
    BY <1>4
  <2>3. B \in SUBSET C
    BY <1>1
  <2>4. c \in C \ B
    BY <1>1 DEF IsInjective
  <2>5. B \cup {c} = First(i)
    BY <1>1
  <2>6. First(i) \subseteq ToSet(order)
    BY <1>1 DEF ToSet
  <2>7. Apart(graph, B \cup {c})
    BY <2>5, <2>6 DEF Apart
  <2> HIDE DEF B, c, First
  <2>8. CheckStep(graph, target, kernel, Together(graph, target, kernel, s, B), c)
          = Together(graph, target, kernel, s, B \cup {c})
    BY <2>3, <2>4, <2>7, TogetherOneMore
  <2>9. f[i] = Together(graph, target, kernel, s, First(i))
    BY <2>1, <2>2, <2>5, <2>8
  <2> QED
    BY <1>1, <2>9
<1> HIDE DEF D
<1>5. 0..n \subseteq D
  <2> HIDE DEF n
  <2> QED
    BY <1>1, <1>3, <1>4, IntervalInduction
<1>6. First(n) = ToSet(order)
  BY <1>1 DEF ToSet
<1> HIDE DEF First
<1> QED
  BY <1>1, <1>2, <1>5, <1>6 DEF D

\* The orders of the checks of a sequence without repetition are its permutations.
LEMMA OrdersOf ==
  ASSUME NEW C, NEW batch \in Seq(C), IsInjective(batch), NEW order \in SetToSeqs(ToSet(batch))
  PROVE  order \in Seq(C) /\ IsInjective(order) /\ ToSet(order) = ToSet(batch)
<1> DEFINE n == Len(batch)
           B == ToSet(batch)
<1>1. n \in Nat /\ DOMAIN batch = 1..n /\ B \in SUBSET C
  BY DEF ToSet
<1>2. IsFiniteSet(1..n) /\ IsFiniteSet(B)
  <2>1. IsFiniteSet(1..n)
    BY <1>1, FS_Interval
  <2>2. batch \in Surjection(1..n, B)
    BY <1>1 DEF Surjection, ToSet
  <2> QED
    BY <2>1, <2>2, FS_Surjection
<1> DEFINE m == Cardinality(B)
<1>3. m \in Nat
  BY <1>2, FS_CardinalityType
<1>4. order \in [1..m -> B] /\ \A i, j \in 1..m : i # j => order[i] # order[j]
  BY DEF SetToSeqs
<1> HIDE DEF n, B
<1>5. order \in Injection(1..m, B)
  BY <1>4 DEF Injection, IsInjective
<1>6. Cardinality(1..m) = m
  <2> HIDE DEF m
  <2> QED
    BY <1>3, FS_Interval
<1>7. order \in Surjection(1..m, B)
  BY <1>2, <1>5, <1>6, FS_Injection
<1> HIDE DEF m
<1>8. ToSet(order) = B
  BY <1>4, <1>7 DEF Surjection, ToSet
<1>9. order \in Seq(C)
  BY <1>1, <1>3, <1>4
<1> QED
  BY <1>4, <1>8, <1>9 DEF IsInjective, B

-----------------------------------------------------------------------------
(* The batches.                                                            *)

\* f collects the checks of some types among the first ones.
IsSelection(f, types, kinds) ==
  /\ f[0] = <<>>
  /\ \A i \in 1..Len(types) : f[i] = IF types[i] \in kinds THEN Append(f[i - 1], i) ELSE f[i - 1]

\* Positions is the last value of a selection.
LEMMA SelectionByPosition ==
  ASSUME NEW T, NEW types \in Seq(T), NEW kinds
  PROVE  \E f : IsSelection(f, types, kinds) /\ Positions(types, kinds) = f[Len(types)]
<1> DEFINE n == Len(types)
           V == Seq(1..n)
           Kept(v, i) == IF types[i] \in kinds THEN Append(v, i) ELSE v
           step == [i \in 1..n |-> [v \in V |-> Kept(v, i)]]
           Rec(h) == [S \in SUBSET (1..n) |->
                        IF S = {} THEN <<>> ELSE Kept(h[S \ {Max(S)}], Max(S))]
<1>1. n \in Nat
  OBVIOUS
<1>2. \A i \in 1..n : \A v \in V : Kept(v, i) \in V
  <2>1. \A i \in 1..n : \A v \in V : Append(v, i) \in V
    <3> HIDE DEF n
    <3> QED
      OBVIOUS
  <2> HIDE DEF V, n
  <2> QED
    BY <2>1
<1>3. IsStep(step, V, n) /\ <<>> \in V
  <2>1. <<>> \in V
    OBVIOUS
  <2> HIDE DEF V, Kept
  <2> QED
    BY <1>2, <2>1 DEF IsStep
<1>4. PICK g : IsFold(g, V, <<>>, n, step)
  <2> HIDE DEF step, n, V
  <2> QED
    BY <1>1, <1>3, FoldExists
<1>5. g = Rec(g)
  <2>1. g \in [SUBSET (1..n) -> V] /\ g[{}] = <<>>
    BY <1>4 DEF IsFold
  <2>2. ASSUME NEW S \in SUBSET (1..n), S # {} PROVE g[S] = Kept(g[S \ {Max(S)}], Max(S))
    <3>1. Max(S) \in 1..n /\ S \ {Max(S)} \in SUBSET (1..n)
      BY <1>1, <2>2, MaxOfPositions
    <3>2. g[S] = step[Max(S)][g[S \ {Max(S)}]]
      BY <1>4, <2>2 DEF IsFold
    <3> HIDE DEF V, Kept
    <3> QED
      BY <3>1, <3>2, <2>1
  <2> HIDE DEF V, Kept
  <2> QED
    BY <2>1, <2>2
<1> DEFINE Here(k) == [S \in SUBSET (1..n) |->
                         IF S = {} THEN <<>>
                         ELSE IF types[Forward(types)[Max(S)]] \in kinds
                              THEN Append(k[S \ {Max(S)}], Forward(types)[Max(S)])
                              ELSE k[S \ {Max(S)}]]
           h == CHOOSE k : k = Here(k)
<1>6. h = Rec(h)
  <2>1. \A S \in SUBSET (1..n) : S # {} => Forward(types)[Max(S)] = Max(S)
    BY <1>1, MaxOfPositions DEF Forward
  <2>2. \A k : Here(k) = Rec(k)
    BY <2>1
  <2> HIDE DEF Here, Rec
  <2>3. h = Here(h)
    BY <1>5, <2>2
  <2> QED
    BY <2>2, <2>3
<1>7. Positions(types, kinds) = h[1..n]
  <2>1. DOMAIN Forward(types) = 1..n
    BY DEF Forward
  <2> QED
    BY <2>1 DEF Positions, FoldLeft, MapThenFoldSet
<1> DEFINE f == [i \in 0..n |-> h[1..i]]
<1> HIDE DEF h
<1>8. f[0] = <<>>
  <2>1. 1..0 = {}
    OBVIOUS
  <2> QED
    BY <2>1, <1>6, <1>1
<1>9. ASSUME NEW i \in 1..n PROVE f[i] = Kept(f[i - 1], i)
  <2>1. Max(1..i) = i /\ 1..i \in SUBSET (1..n) /\ 1..i # {} /\ (1..i) \ {i} = 1..(i - 1)
    BY <1>1, MaxOfInterval
  <2>2. h[1..i] = Kept(h[(1..i) \ {Max(1..i)}], Max(1..i))
    BY <1>6, <2>1
  <2>3. h[1..i] = Kept(h[1..(i - 1)], i)
    BY <2>1, <2>2
  <2>4. i \in 0..n /\ i - 1 \in 0..n
    BY <1>1
  <2> QED
    BY <2>3, <2>4
<1>10. f[n] = h[1..n]
  BY <1>1
<1> HIDE DEF f
<1>11. IsSelection(f, types, kinds)
  BY <1>8, <1>9 DEF IsSelection
<1> QED
  BY <1>7, <1>10, <1>11

\* The checks of some types are checks, none twice.
LEMMA SelectionFacts ==
  ASSUME NEW T, NEW types \in Seq(T), NEW kinds
  PROVE  /\ Positions(types, kinds) \in Seq(1..Len(types))
         /\ IsInjective(Positions(types, kinds))
<1> DEFINE n == Len(types)
<1>1. n \in Nat
  OBVIOUS
<1>2. PICK f : IsSelection(f, types, kinds) /\ Positions(types, kinds) = f[n]
  BY SelectionByPosition
<1> DEFINE D == {i \in 0..n : f[i] \in Seq(1..i) /\ IsInjective(f[i])}
<1>3. 0 \in D
  <2>1. <<>> \in Seq(1..0) /\ IsInjective(<<>>)
    BY DEF IsInjective
  <2>2. f[0] = <<>>
    BY <1>2 DEF IsSelection
  <2>3. f[0] \in Seq(1..0) /\ IsInjective(f[0])
    BY <2>1, <2>2
  <2> QED
    BY <1>1, <2>3
<1>4. ASSUME NEW i \in 1..n, (i - 1) \in D PROVE i \in D
  <2> DEFINE g == f[i - 1]
  <2>1. g \in Seq(1..(i - 1)) /\ IsInjective(g)
    BY <1>4
  <2>2. f[i] = IF types[i] \in kinds THEN Append(g, i) ELSE g
    BY <1>2 DEF IsSelection
  <2> HIDE DEF g
  <2>3. g \in Seq(1..i) /\ Append(g, i) \in Seq(1..i)
    <3>1. \A k \in 1..Len(g) : g[k] \in 1..i
      BY <2>1
    <3>2. g \in Seq(1..i)
      BY <2>1, <3>1
    <3> QED
      BY <3>2
  <2>4. IsInjective(Append(g, i))
    <3>1. Len(Append(g, i)) = Len(g) + 1 /\ Append(g, i)[Len(g) + 1] = i
      BY <2>1
    <3>2. \A k \in 1..Len(g) : Append(g, i)[k] = g[k] /\ g[k] # i
      BY <2>1
    <3>3. DOMAIN Append(g, i) = 1..(Len(g) + 1) /\ DOMAIN g = 1..Len(g) /\ Len(g) \in Nat
      BY <2>1
    <3> QED
      BY <3>1, <3>2, <3>3, <2>1 DEF IsInjective
  <2>5. f[i] \in Seq(1..i) /\ IsInjective(f[i])
    BY <2>1, <2>2, <2>3, <2>4
  <2> QED
    BY <1>1, <2>5
<1> HIDE DEF D
<1>5. 0..n \subseteq D
  <2> HIDE DEF n
  <2> QED
    BY <1>1, <1>3, <1>4, IntervalInduction
<1> QED
  BY <1>1, <1>2, <1>5 DEF D

\* f collects the batches of the first checks of an order.
IsBatching(f, graph, partitions, parallelism, order) ==
  /\ f[0] = <<>>
  /\ \A i \in 1..Len(order) :
       f[i] = Batched(graph, partitions, parallelism, f[i - 1], order[i])

\* A check has been added as a batch of its own, or to one that it is apart from.
Grew(graph, C, c, batches, more) ==
  /\ more \in Seq(Seq(C))
  /\ \A b \in DOMAIN more :
       \/ more[b] = <<c>>
       \/ b \in DOMAIN batches /\ more[b] = batches[b]
       \/ /\ b \in DOMAIN batches /\ more[b] = Append(batches[b], c)
          /\ Independent(graph, batches[b], c)

\* The next check is added so.
LEMMA BatchedFacts ==
  ASSUME NEW graph, NEW partitions, NEW parallelism, NEW C, NEW c \in C,
         NEW batches \in Seq(Seq(C))
  PROVE  Grew(graph, C, c, batches, Batched(graph, partitions, parallelism, batches, c))
<1> DEFINE n == Len(batches)
           more == Batched(graph, partitions, parallelism, batches, c)
<1>1. n \in Nat /\ DOMAIN batches = 1..n /\ \A b \in 1..n : batches[b] \in Seq(C)
  OBVIOUS
<1>2. <<c>> \in Seq(C)
  OBVIOUS
<1>3. CASE more = Append(batches, <<c>>)
  <2> HIDE DEF more
  <2>1. more \in Seq(Seq(C)) /\ DOMAIN more = 1..(n + 1) /\ more[n + 1] = <<c>>
    BY <1>2, <1>3
  <2>2. \A b \in 1..n : more[b] = batches[b]
    BY <1>3
  <2>3. \A b \in 1..(n + 1) : b = n + 1 \/ b \in 1..n
    BY <1>1
  <2> HIDE DEF n
  <2> QED
    BY <2>1, <2>2, <2>3, <1>1 DEF more, Grew
<1>4. CASE /\ batches # <<>> /\ Independent(graph, Last(batches), c)
           /\ more = Append(Front(batches), Append(Last(batches), c))
  <2> DEFINE last == batches[n]
             grown == Append(last, c)
             front == Front(batches)
  <2>1. n \in 1..n /\ Last(batches) = last /\ last \in Seq(C)
    BY <1>1, <1>4 DEF Last
  <2>2. grown \in Seq(C)
    BY <2>1
  <2>3. front \in Seq(Seq(C)) /\ Len(front) = n - 1 /\ \A b \in 1..(n - 1) : front[b] = batches[b]
    <3>1. Front(batches) = SubSeq(batches, 1, n - 1)
      BY DEF Front
    <3>2. 1 \in 1..(n + 1) /\ n - 1 \in 0..n
      BY <1>1, <2>1
    <3> QED
      BY <1>1, <2>1, <3>1, <3>2, SubSeqProperties
  <2>4. more = Append(front, grown)
    BY <1>4, <2>1
  <2> HIDE DEF grown, front, more
  <2>5. /\ more \in Seq(Seq(C)) /\ DOMAIN more = 1..n /\ more[n] = grown
        /\ \A b \in 1..(n - 1) : more[b] = batches[b]
    BY <2>1, <2>2, <2>3, <2>4, <1>1
  <2>6. \A b \in 1..n : b = n \/ b \in 1..(n - 1)
    <3> HIDE DEF n
    <3> QED
      BY <1>1
  <2>7. Independent(graph, last, c)
    BY <1>4, <2>1
  <2> HIDE DEF n
  <2> QED
    BY <2>5, <2>6, <2>7, <1>1 DEF more, grown, last, Grew
<1> QED
  BY <1>3, <1>4 DEF Batched

\* AuxiliaryBatches is the last value of a batching.
LEMMA BatchingByPosition ==
  ASSUME NEW graph, NEW types, NEW partitions, NEW parallelism, NEW C,
         Positions(types, {"U", "V"}) \in Seq(C)
  PROVE  LET order == Positions(types, {"U", "V"})
         IN  \E f : /\ IsBatching(f, graph, partitions, parallelism, order)
                    /\ AuxiliaryBatches(graph, types, partitions, parallelism) = f[Len(order)]
<1> DEFINE order == Positions(types, {"U", "V"})
           n == Len(order)
           V == Seq(Seq(C))
           Grown(v, i) == Batched(graph, partitions, parallelism, v, order[i])
           step == [i \in 1..n |-> [v \in V |-> Grown(v, i)]]
           Rec(h) == [S \in SUBSET (1..n) |->
                        IF S = {} THEN <<>> ELSE Grown(h[S \ {Max(S)}], Max(S))]
<1>1. n \in Nat /\ DOMAIN order = 1..n /\ \A i \in 1..n : order[i] \in C
  <2> HIDE DEF order
  <2> QED
    BY DEF order
<1> HIDE DEF order
<1>2. \A i \in 1..n : \A v \in V : Grown(v, i) \in V
  <2> HIDE DEF n
  <2> QED
    BY <1>1, BatchedFacts DEF Grew
<1>3. IsStep(step, V, n) /\ <<>> \in V
  <2>1. <<>> \in V
    OBVIOUS
  <2> HIDE DEF V, Grown
  <2> QED
    BY <1>2, <2>1 DEF IsStep
<1>4. PICK g : IsFold(g, V, <<>>, n, step)
  <2> HIDE DEF step, n, V
  <2> QED
    BY <1>1, <1>3, FoldExists
<1>5. g = Rec(g)
  <2>1. g \in [SUBSET (1..n) -> V] /\ g[{}] = <<>>
    BY <1>4 DEF IsFold
  <2>2. ASSUME NEW S \in SUBSET (1..n), S # {} PROVE g[S] = Grown(g[S \ {Max(S)}], Max(S))
    <3>1. Max(S) \in 1..n /\ S \ {Max(S)} \in SUBSET (1..n)
      BY <1>1, <2>2, MaxOfPositions
    <3>2. g[S] = step[Max(S)][g[S \ {Max(S)}]]
      BY <1>4, <2>2 DEF IsFold
    <3> HIDE DEF V, Grown
    <3> QED
      BY <3>1, <3>2, <2>1
  <2> HIDE DEF V, Grown
  <2> QED
    BY <2>1, <2>2
<1> DEFINE h == CHOOSE k : k = Rec(k)
<1>6. h = Rec(h)
  BY <1>5
<1>7. AuxiliaryBatches(graph, types, partitions, parallelism) = h[1..n]
  BY <1>1 DEF AuxiliaryBatches, FoldLeft, MapThenFoldSet, order
<1> DEFINE f == [i \in 0..n |-> h[1..i]]
<1> HIDE DEF h
<1>8. f[0] = <<>>
  <2>1. 1..0 = {}
    OBVIOUS
  <2> QED
    BY <2>1, <1>6, <1>1
<1>9. ASSUME NEW i \in 1..n PROVE f[i] = Grown(f[i - 1], i)
  <2>1. Max(1..i) = i /\ 1..i \in SUBSET (1..n) /\ 1..i # {} /\ (1..i) \ {i} = 1..(i - 1)
    BY <1>1, MaxOfInterval
  <2>2. h[1..i] = Grown(h[(1..i) \ {Max(1..i)}], Max(1..i))
    BY <1>6, <2>1
  <2>3. h[1..i] = Grown(h[1..(i - 1)], i)
    BY <2>1, <2>2
  <2>4. i \in 0..n /\ i - 1 \in 0..n
    BY <1>1
  <2> QED
    BY <2>3, <2>4
<1>10. f[n] = h[1..n]
  BY <1>1
<1> HIDE DEF f
<1>11. IsBatching(f, graph, partitions, parallelism, order)
  BY <1>8, <1>9 DEF IsBatching
<1> QED
  BY <1>7, <1>10, <1>11 DEF order

\* A batch repeats no check and its checks share no variable.
IsBatch(graph, batch) == IsInjective(batch) /\ Apart(graph, ToSet(batch))

\* A batch may take a new check that is apart from all of it.
LEMMA LargerBatch ==
  ASSUME NEW graph, NEW C, NEW batch \in Seq(C), NEW c, IsBatch(graph, batch),
         c \notin ToSet(batch), Independent(graph, batch, c)
  PROVE  IsBatch(graph, Append(batch, c)) /\ ToSet(Append(batch, c)) = ToSet(batch) \cup {c}
<1> DEFINE n == Len(batch)
           more == Append(batch, c)
<1>1. n \in Nat /\ DOMAIN batch = 1..n /\ DOMAIN more = 1..(n + 1)
  OBVIOUS
<1>2. more[n + 1] = c /\ \A i \in 1..n : more[i] = batch[i]
  OBVIOUS
<1> HIDE DEF n, more
<1>3. 1..(n + 1) = (1..n) \cup {n + 1} /\ n + 1 \notin 1..n
  BY <1>1
<1>4. \A i \in 1..n : batch[i] # c
  BY <1>1 DEF ToSet
<1>5. IsInjective(more)
  BY <1>1, <1>2, <1>3, <1>4 DEF IsInjective, IsBatch
<1>6. ToSet(more) = ToSet(batch) \cup {c}
  BY <1>1, <1>2, <1>3 DEF ToSet
<1>7. Apart(graph, ToSet(batch) \cup {c})
  BY DEF IsBatch, Apart, Independent
<1> QED
  BY <1>5, <1>6, <1>7 DEF IsBatch, more

\* A check alone is a batch.
LEMMA BatchOfOne ==
  ASSUME NEW graph, NEW c
  PROVE  IsBatch(graph, <<c>>) /\ ToSet(<<c>>) = {c}
<1>1. DOMAIN <<c>> = {1} /\ <<c>>[1] = c
  OBVIOUS
<1>2. ToSet(<<c>>) = {c}
  BY <1>1 DEF ToSet
<1>3. IsInjective(<<c>>)
  BY <1>1 DEF IsInjective
<1> QED
  BY <1>2, <1>3 DEF IsBatch, Apart

\* The auxiliary batches are batches.
LEMMA BatchesFacts ==
  ASSUME NEW graph, NEW T, NEW types \in Seq(T), NEW partitions, NEW parallelism
  PROVE  LET batches == AuxiliaryBatches(graph, types, partitions, parallelism)
         IN  /\ batches \in Seq(Seq(1..Len(types)))
             /\ \A b \in DOMAIN batches : IsBatch(graph, batches[b])
<1> DEFINE C == 1..Len(types)
           order == Positions(types, {"U", "V"})
           n == Len(order)
           First(i) == {order[j] : j \in 1..i}
           Sound(batches, i) ==
             /\ batches \in Seq(Seq(C))
             /\ \A b \in DOMAIN batches :
                  IsBatch(graph, batches[b]) /\ ToSet(batches[b]) \subseteq First(i)
<1>1. order \in Seq(C) /\ IsInjective(order)
  BY SelectionFacts
<1>2. PICK f : /\ IsBatching(f, graph, partitions, parallelism, order)
               /\ AuxiliaryBatches(graph, types, partitions, parallelism) = f[n]
  <2> HIDE DEF C
  <2> QED
    BY <1>1, BatchingByPosition
<1> HIDE DEF order, C
<1>3. n \in Nat /\ DOMAIN order = 1..n /\ \A i \in 1..n : order[i] \in C
  BY <1>1
<1> DEFINE D == {i \in 0..n : Sound(f[i], i)}
<1>4. 0 \in D
  <2>1. f[0] = <<>>
    BY <1>2 DEF IsBatching
  <2>2. <<>> \in Seq(Seq(C)) /\ DOMAIN <<>> = {}
    OBVIOUS
  <2>3. Sound(f[0], 0)
    BY <2>1, <2>2
  <2> HIDE DEF Sound
  <2> QED
    BY <1>3, <2>3
<1>5. ASSUME NEW i \in 1..n, (i - 1) \in D PROVE i \in D
  <2> DEFINE old == f[i - 1]
             more == f[i]
             c == order[i]
  <2>1. more = Batched(graph, partitions, parallelism, old, c)
    BY <1>2 DEF IsBatching
  <2>2. Sound(old, i - 1) /\ c \in C
    BY <1>3, <1>5
  <2>3. c \notin First(i - 1) /\ First(i) = First(i - 1) \cup {c}
    BY <1>1, <1>3 DEF IsInjective
  <2> HIDE DEF old, more, c, First
  <2>4. /\ more \in Seq(Seq(C))
        /\ \A b \in DOMAIN more :
             \/ more[b] = <<c>>
             \/ b \in DOMAIN old /\ more[b] = old[b]
             \/ /\ b \in DOMAIN old /\ more[b] = Append(old[b], c)
                /\ Independent(graph, old[b], c)
    <3>1. Grew(graph, C, c, old, more)
      BY <2>1, <2>2, BatchedFacts
    <3> QED
      BY <3>1 DEF Grew
  <2>5. ASSUME NEW b \in DOMAIN more
        PROVE  IsBatch(graph, more[b]) /\ ToSet(more[b]) \subseteq First(i)
    <3>1. CASE more[b] = <<c>>
      BY <3>1, <2>3, BatchOfOne
    <3>2. CASE b \in DOMAIN old /\ more[b] = old[b]
      BY <3>2, <2>2, <2>3
    <3>3. CASE /\ b \in DOMAIN old /\ more[b] = Append(old[b], c)
               /\ Independent(graph, old[b], c)
      <4> DEFINE batch == old[b]
      <4>1. batch \in Seq(C) /\ IsBatch(graph, batch) /\ ToSet(batch) \subseteq First(i - 1)
        BY <3>3, <2>2
      <4>2. c \notin ToSet(batch) /\ Independent(graph, batch, c)
        BY <3>3, <4>1, <2>3
      <4> HIDE DEF batch
      <4>3. IsBatch(graph, Append(batch, c)) /\ ToSet(Append(batch, c)) = ToSet(batch) \cup {c}
        BY <4>1, <4>2, LargerBatch
      <4>4. more[b] = Append(batch, c)
        BY <3>3 DEF batch
      <4> QED
        BY <4>1, <4>3, <4>4, <2>3
    <3> QED
      BY <3>1, <3>2, <3>3, <2>4
  <2>6. Sound(more, i)
    BY <2>4, <2>5
  <2> HIDE DEF Sound
  <2> QED
    BY <1>3, <2>6 DEF more
<1> HIDE DEF D
<1>6. 0..n \subseteq D
  <2> HIDE DEF n
  <2> QED
    BY <1>3, <1>4, <1>5, IntervalInduction
<1>7. Sound(f[n], n)
  <2> HIDE DEF Sound
  <2> QED
    BY <1>3, <1>6 DEF D
<1> QED
  BY <1>2, <1>7 DEF C

-----------------------------------------------------------------------------
(* Sequences one after the other.                                          *)

\* h runs through what is put one after the other.
IsFlattening(h, seqs, T) ==
  /\ h \in [0..Len(seqs) -> Seq(T)] /\ h[0] = <<>>
  /\ \A i \in 1..Len(seqs) : h[i] = h[i - 1] \o seqs[i]
  /\ FlattenSeq(seqs) = h[Len(seqs)]

LEMMA FlattenByPosition ==
  ASSUME NEW T, NEW seqs \in Seq(Seq(T))
  PROVE  \E h : IsFlattening(h, seqs, T)
<1> DEFINE n == Len(seqs)
           Rec(h) == [i \in 1..n |-> IF i = 1 THEN seqs[i] ELSE h[i - 1] \o seqs[i]]
           V == Seq(T)
           step == [i \in 1..n |-> [v \in V |-> v \o seqs[i]]]
<1>1. n \in Nat /\ \A i \in 1..n : seqs[i] \in V
  OBVIOUS
<1>2. CASE n = 0
  <2> DEFINE h == [i \in 0..0 |-> <<>>]
  <2>1. seqs = <<>>
    BY <1>2
  <2>2. FlattenSeq(seqs) = <<>>
    BY <1>2, <2>1 DEF FlattenSeq
  <2>3. h \in [0..0 -> V] /\ h[0] = <<>>
    OBVIOUS
  <2> HIDE DEF h
  <2>4. IsFlattening(h, seqs, T)
    BY <1>2, <2>2, <2>3 DEF IsFlattening
  <2> QED
    BY <2>4
<1>3. CASE n # 0
  <2>1. \A u, v \in V : u \o v \in V
    OBVIOUS
  <2>2. <<>> \in V /\ \A v \in V : <<>> \o v = v
    OBVIOUS
  <2> HIDE DEF V
  <2>3. IsStep(step, V, n)
    BY <1>1, <2>1 DEF IsStep
  <2>4. PICK f : IsIterate(f, V, <<>>, n, step)
    <3> HIDE DEF step, n
    <3> QED
      BY <1>1, <2>2, <2>3, IterateExists
  <2>5. f \in [0..n -> V] /\ f[0] = <<>> /\ \A i \in 1..n : f[i] = f[i - 1] \o seqs[i]
    <3>1. \A i \in 1..n : i - 1 \in 0..n
      BY <1>1
    <3> QED
      BY <2>4, <3>1 DEF IsIterate
  <2> DEFINE g == [i \in 1..n |-> f[i]]
  <2>6. g = Rec(g)
    <3>1. ASSUME NEW i \in 1..n, i = 1 PROVE f[i] = seqs[i]
      <4>1. i - 1 = 0
        BY <3>1
      <4>2. f[i] = f[i - 1] \o seqs[i]
        BY <2>5
      <4>3. seqs[i] \in V
        BY <1>1
      <4>4. f[i - 1] = <<>>
        BY <4>1, <2>5
      <4> QED
        BY <4>2, <4>3, <4>4, <2>2
    <3>2. ASSUME NEW i \in 1..n, i # 1 PROVE f[i] = g[i - 1] \o seqs[i]
      <4>1. i - 1 \in 1..n
        BY <3>2, <1>1
      <4> QED
        BY <4>1, <2>5
    <3> QED
      BY <3>1, <3>2
  <2> DEFINE h == CHOOSE k : k = Rec(k)
  <2>7. h = Rec(h)
    BY <2>6
  <2>8. FlattenSeq(seqs) = h[n]
    BY <1>3 DEF FlattenSeq
  <2> HIDE DEF h
  <2> DEFINE D == {i \in 0..n : i = 0 \/ h[i] = f[i]}
  <2>9. 0 \in D
    BY <1>1
  <2>10. ASSUME NEW i \in 1..n, (i - 1) \in D PROVE i \in D
    <3>1. h[i] = IF i = 1 THEN seqs[i] ELSE h[i - 1] \o seqs[i]
      BY <2>7
    <3>2. f[i] = f[i - 1] \o seqs[i] /\ seqs[i] \in V
      BY <2>5, <1>1
    <3>5. i \in 0..n
      BY <1>1
    <3> HIDE DEF D
    <3>3. h[i] = f[i] \/ i # 1
      <4> SUFFICES ASSUME i = 1 PROVE h[i] = f[i]
        OBVIOUS
      <4>0. i = 1
        OBVIOUS
      <4>1. f[i - 1] = <<>>
        BY <4>0, <2>5
      <4>2. f[i] = seqs[i]
        BY <4>1, <3>2, <2>2
      <4> QED
        BY <3>1, <4>0, <4>2
    <3>4. i # 1 => h[i] = f[i]
      <4> SUFFICES ASSUME i # 1 PROVE h[i] = f[i]
        OBVIOUS
      <4>0. i # 1
        OBVIOUS
      <4>1. i - 1 # 0
        BY <4>0, <1>1
      <4>2. h[i - 1] = f[i - 1]
        BY <2>10, <4>1 DEF D
      <4> QED
        BY <3>1, <3>2, <4>0, <4>2
    <3>6. h[i] = f[i]
      BY <3>3, <3>4
    <3> QED
      BY <3>5, <3>6 DEF D
  <2> HIDE DEF D
  <2>11. 0..n \subseteq D
    <3> HIDE DEF n
    <3> QED
      BY <1>1, <2>9, <2>10, IntervalInduction
  <2>12. h[n] = f[n]
    BY <1>1, <1>3, <2>11 DEF D
  <2>13. IsFlattening(f, seqs, T)
    BY <2>5, <2>8, <2>12 DEF IsFlattening, V
  <2> QED
    BY <2>13
<1> QED
  BY <1>2, <1>3

\* The members of what is put one after the other.
LEMMA FlattenedSet ==
  ASSUME NEW T, NEW seqs \in Seq(Seq(T))
  PROVE  /\ FlattenSeq(seqs) \in Seq(T)
         /\ ToSet(FlattenSeq(seqs)) = UNION {ToSet(seqs[i]) : i \in 1..Len(seqs)}
<1> DEFINE n == Len(seqs)
<1>1. n \in Nat /\ \A i \in 1..n : seqs[i] \in Seq(T)
  OBVIOUS
<1>2. PICK h : IsFlattening(h, seqs, T)
  BY FlattenByPosition
<1> DEFINE D == {i \in 0..n : ToSet(h[i]) = UNION {ToSet(seqs[j]) : j \in 1..i}}
<1>3. 0 \in D
  <2>1. h[0] = <<>>
    BY <1>2 DEF IsFlattening
  <2>2. ToSet(<<>>) = {} /\ UNION {ToSet(seqs[j]) : j \in 1..0} = {}
    BY DEF ToSet
  <2> QED
    BY <1>1, <2>1, <2>2
<1>4. ASSUME NEW i \in 1..n, (i - 1) \in D PROVE i \in D
  <2>0. i - 1 \in 0..n /\ i \in 0..n
    BY <1>1
  <2>1. h[i] = h[i - 1] \o seqs[i] /\ h[i - 1] \in Seq(T) /\ seqs[i] \in Seq(T)
    BY <1>1, <1>2, <2>0 DEF IsFlattening
  <2>2. \A u, v \in Seq(T) : ToSet(u \o v) = ToSet(u) \cup ToSet(v)
    <3> SUFFICES ASSUME NEW u \in Seq(T), NEW v \in Seq(T) PROVE ToSet(u \o v) = ToSet(u) \cup ToSet(v)
      OBVIOUS
    <3>1. \A k \in 1..Len(u) : k \in 1..Len(u \o v) /\ (u \o v)[k] = u[k]
      OBVIOUS
    <3>2. \A k \in 1..Len(v) : k + Len(u) \in 1..Len(u \o v) /\ (u \o v)[k + Len(u)] = v[k]
      OBVIOUS
    <3>3. \A k \in 1..Len(u \o v) : \/ k \in 1..Len(u) /\ (u \o v)[k] = u[k]
                                    \/ k - Len(u) \in 1..Len(v) /\ (u \o v)[k] = v[k - Len(u)]
      OBVIOUS
    <3>4. DOMAIN u = 1..Len(u) /\ DOMAIN v = 1..Len(v) /\ DOMAIN (u \o v) = 1..Len(u \o v)
      OBVIOUS
    <3> DEFINE w == u \o v
    <3> HIDE DEF w
    <3>5. \A k \in DOMAIN w : w[k] \in ToSet(u) \cup ToSet(v)
      BY <3>3, <3>4 DEF ToSet, w
    <3>6. \A k \in DOMAIN u : u[k] \in ToSet(w)
      BY <3>1, <3>4 DEF ToSet, w
    <3>7. \A k \in DOMAIN v : v[k] \in ToSet(w)
      BY <3>2, <3>4 DEF ToSet, w
    <3>8. ToSet(w) = ToSet(u) \cup ToSet(v)
      <4>1. \A x \in ToSet(w) : x \in ToSet(u) \cup ToSet(v)
        BY <3>5 DEF ToSet
      <4>2. \A x \in ToSet(u) \cup ToSet(v) : x \in ToSet(w)
        <5> SUFFICES ASSUME NEW x \in ToSet(u) \cup ToSet(v) PROVE x \in ToSet(w)
          OBVIOUS
        <5>1. (\E k \in DOMAIN u : x = u[k]) \/ (\E k \in DOMAIN v : x = v[k])
          BY DEF ToSet
        <5> QED
          BY <3>6, <3>7, <5>1
      <4> QED
        BY <4>1, <4>2
    <3> QED
      BY <3>8 DEF w
  <2>3. ToSet(h[i]) = ToSet(h[i - 1]) \cup ToSet(seqs[i])
    BY <2>1, <2>2
  <2>4. 1..i = (1..(i - 1)) \cup {i}
    BY <1>1
  <2>5. ToSet(h[i - 1]) = UNION {ToSet(seqs[j]) : j \in 1..(i - 1)}
    BY <1>4
  <2>6. UNION {ToSet(seqs[j]) : j \in 1..i} = (UNION {ToSet(seqs[j]) : j \in 1..(i - 1)}) \cup ToSet(seqs[i])
    BY <2>4
  <2> QED
    BY <2>0, <2>3, <2>5, <2>6
<1> HIDE DEF D
<1>5. 0..n \subseteq D
  <2> HIDE DEF n
  <2> QED
    BY <1>1, <1>3, <1>4, IntervalInduction
<1>6. n \in 0..n
  BY <1>1
<1>7. FlattenSeq(seqs) = h[n] /\ h[n] \in Seq(T)
  BY <1>2, <1>6 DEF IsFlattening
<1>8. n \in D
  BY <1>5, <1>6
<1> QED
  BY <1>7, <1>8 DEF D

\* How long it is, if all are of one length.
LEMMA FlattenedEven ==
  ASSUME NEW T, NEW seqs \in Seq(Seq(T)), NEW m \in Nat, \A i \in 1..Len(seqs) : Len(seqs[i]) = m
  PROVE  Len(FlattenSeq(seqs)) = Len(seqs) * m
<1> DEFINE n == Len(seqs)
<1>1. n \in Nat /\ \A i \in 1..n : seqs[i] \in Seq(T)
  OBVIOUS
<1>2. PICK h : IsFlattening(h, seqs, T)
  BY FlattenByPosition
<1> DEFINE D == {i \in 0..n : Len(h[i]) = i * m}
<1>3. 0 \in D
  <2>1. Len(h[0]) = 0 /\ 0 * m = 0 /\ 0 \in 0..n
    BY <1>1, <1>2 DEF IsFlattening
  <2> QED
    BY <2>1
<1>4. ASSUME NEW i \in 1..n, (i - 1) \in D PROVE i \in D
  <2>0. i - 1 \in 0..n /\ i \in 0..n
    BY <1>1
  <2>1. h[i] = h[i - 1] \o seqs[i] /\ h[i - 1] \in Seq(T) /\ seqs[i] \in Seq(T) /\ Len(seqs[i]) = m
    BY <1>1, <1>2, <2>0 DEF IsFlattening
  <2>2. Len(h[i]) = Len(h[i - 1]) + m /\ Len(h[i - 1]) = (i - 1) * m
    <3>1. \A u, v \in Seq(T) : Len(u \o v) = Len(u) + Len(v)
      OBVIOUS
    <3> QED
      BY <2>1, <3>1, <1>4
  <2>3. (i - 1) * m + m = i * m
    BY <1>1
  <2> QED
    BY <2>0, <2>2, <2>3
<1> HIDE DEF D
<1>5. 0..n \subseteq D
  <2> HIDE DEF n
  <2> QED
    BY <1>1, <1>3, <1>4, IntervalInduction
<1>6. n \in D
  BY <1>1, <1>5
<1> QED
  BY <1>2, <1>6 DEF D, IsFlattening

\* Turned round, it is as long.
LEMMA FlattenedTurned ==
  ASSUME NEW T, NEW seqs \in Seq(Seq(T)), NEW turned \in Seq(Seq(T)), Len(turned) = Len(seqs),
         \A i \in 1..Len(seqs) : Len(turned[i]) = Len(seqs[Len(seqs) - i + 1])
  PROVE  Len(FlattenSeq(turned)) = Len(FlattenSeq(seqs))
<1> DEFINE n == Len(seqs)
<1>1. n \in Nat /\ (\A i \in 1..n : seqs[i] \in Seq(T)) /\ (\A i \in 1..n : turned[i] \in Seq(T))
  OBVIOUS
<1>2. PICK h : IsFlattening(h, seqs, T)
  BY FlattenByPosition
<1>3. PICK g : IsFlattening(g, turned, T)
  BY FlattenByPosition
<1> DEFINE D == {i \in 0..n : Len(h[n - i]) + Len(g[i]) = Len(h[n])}
<1>4. h \in [0..n -> Seq(T)] /\ g \in [0..n -> Seq(T)] /\ h[0] = <<>> /\ g[0] = <<>>
  BY <1>2, <1>3 DEF IsFlattening
<1>5. 0 \in D
  <2>1. n - 0 = n /\ n \in 0..n /\ 0 \in 0..n /\ g[0] = <<>>
    BY <1>1, <1>4
  <2>2. Len(h[n]) \in Nat
    BY <1>4, <2>1
  <2>3. Len(h[n - 0]) + Len(g[0]) = Len(h[n])
    BY <2>1, <2>2
  <2> QED
    BY <2>1, <2>3
<1>6. ASSUME NEW i \in 1..n, (i - 1) \in D PROVE i \in D
  <2>1. n - i + 1 \in 1..n /\ n - i \in 0..n /\ i - 1 \in 0..n /\ (n - i + 1) - 1 = n - i
        /\ n - (i - 1) = n - i + 1
    BY <1>1
  <2>2. h[n - i + 1] = h[n - i] \o seqs[n - i + 1]
    <3>1. \A j \in 1..n : h[j] = h[j - 1] \o seqs[j]
      BY <1>2 DEF IsFlattening
    <3>2. h[n - i + 1] = h[(n - i + 1) - 1] \o seqs[n - i + 1]
      BY <2>1, <3>1
    <3> QED
      BY <2>1, <3>2
  <2>3. g[i] = g[i - 1] \o turned[i]
    BY <1>3 DEF IsFlattening
  <2>4. h[n - i] \in Seq(T) /\ seqs[n - i + 1] \in Seq(T) /\ g[i - 1] \in Seq(T) /\ turned[i] \in Seq(T)
    BY <1>1, <1>4, <2>1
  <2>5. Len(h[n - i + 1]) = Len(h[n - i]) + Len(seqs[n - i + 1])
        /\ Len(g[i]) = Len(g[i - 1]) + Len(turned[i])
    BY <2>2, <2>3, <2>4
  <2>6. Len(turned[i]) = Len(seqs[n - i + 1])
    OBVIOUS
  <2>7. Len(h[n - (i - 1)]) + Len(g[i - 1]) = Len(h[n])
    BY <1>6
  <2>8. Len(h[n - i]) \in Nat /\ Len(g[i - 1]) \in Nat /\ Len(turned[i]) \in Nat
    <3>1. \A u \in Seq(T) : Len(u) \in Nat
      OBVIOUS
    <3> QED
      BY <2>4, <3>1
  <2>9. Len(h[n - i]) + Len(g[i]) = Len(h[n])
    <3> DEFINE a == Len(h[n - i])
               b == Len(g[i - 1])
               m == Len(turned[i])
               z == Len(h[n])
    <3>1. Len(h[n - (i - 1)]) = Len(h[n - i + 1])
      BY <2>1
    <3>2. (a + m) + b = z /\ Len(g[i]) = b + m
      BY <2>5, <2>6, <2>7, <3>1
    <3>3. a \in Nat /\ b \in Nat /\ m \in Nat
      BY <2>8
    <3> HIDE DEF a, b, m, z
    <3>4. a + (b + m) = z
      BY ONLY <3>2, <3>3
    <3>5. a + Len(g[i]) = z
      BY <3>2, <3>4
    <3> QED
      BY <3>5 DEF a, z
  <2>10. i \in 0..n
    BY <1>1
  <2> QED
    BY <2>9, <2>10
<1> HIDE DEF D
<1>7. 0..n \subseteq D
  <2> HIDE DEF n
  <2> QED
    BY <1>1, <1>5, <1>6, IntervalInduction
<1>8. n \in D
  BY <1>1, <1>7
<1>9. Len(h[n - n]) + Len(g[n]) = Len(h[n]) /\ n - n = 0 /\ Len(g[n]) \in Nat
  BY <1>1, <1>4, <1>8 DEF D
<1>10. Len(g[n]) = Len(h[n])
  BY <1>4, <1>9
<1>11. FlattenSeq(seqs) = h[n] /\ FlattenSeq(turned) = g[n]
  BY <1>2, <1>3 DEF IsFlattening
<1> QED
  BY <1>10, <1>11

-----------------------------------------------------------------------------
(* The decode of a window.                                                 *)

Fields == {"graph", "prior", "target", "schedule", "types", "partitions", "parallelism",
           "budget", "phase", "warmed", "sweep", "offset", "runs"}

\* The window stays what it was, and the GARI decoder has a posterior for each of its
\* variables and messages for each of its checks.
GariInv(window) ==
  /\ DOMAIN decode = Fields /\ DOMAIN decode.runs = Decoders
  /\ decode.graph = window.graph /\ decode.types = window.types
  /\ Shaped(decode.runs["gari"].state, DOMAIN window.prior, DOMAIN window.graph)

\* What a window is, for the lemmas above.
LEMMA WindowFacts ==
  ASSUME NEW window, IsWindow(window)
  PROVE  /\ window.types \in Seq({"D_X", "D_Z", "U", "V"})
         /\ DOMAIN window.graph = 1..Len(window.types)
         /\ \A c \in 1..Len(window.types) : ToSet(window.graph[c]) \subseteq DOMAIN window.prior
<1>1. window.graph \in Seq(Seq(DOMAIN window.prior)) /\ Len(window.graph) = Len(window.types)
  BY DEF IsWindow
<1>2. DOMAIN window.graph = 1..Len(window.types)
  BY <1>1
<1>3. \A c \in 1..Len(window.types) : window.graph[c] \in Seq(DOMAIN window.prior)
  BY <1>1, <1>2
<1>4. \A V : \A row \in Seq(V) : ToSet(row) \subseteq V
  BY DEF ToSet
<1> QED
  BY <1>2, <1>3, <1>4 DEF IsWindow

\* The checks of a sweep of the GARI decoder.
LEMMA GariOrderType ==
  ASSUME NEW graph, NEW T, NEW types \in Seq(T), NEW partitions, NEW parallelism
  PROVE  /\ MainOrder(types) \in Seq(1..Len(types))
         /\ GariOrder(graph, types, partitions, parallelism) \in Seq(1..Len(types))
<1> DEFINE C == 1..Len(types)
           batches == AuxiliaryBatches(graph, types, partitions, parallelism)
<1>1. MainOrder(types) \in Seq(C)
  BY SelectionFacts DEF MainOrder
<1>2. batches \in Seq(Seq(C))
  BY BatchesFacts
<1> HIDE DEF C, batches
<1>3. FlattenSeq(batches) \in Seq(C)
  BY <1>2, FlattenedSet
<1>4. MainOrder(types) \o FlattenSeq(batches) \in Seq(C)
  BY <1>1, <1>3
<1> QED
  BY <1>1, <1>4 DEF GariOrder, batches, C

\* The prior of a window has the shape.
LEMMA GariInit ==
  ASSUME NEW window, IsWindow(window), decode = StartDecode(window)
  PROVE  GariInv(window)
<1> DEFINE s == Fresh(window.graph, window.prior)
           met == Met(window.graph, window.target, s)
<1>1. /\ DOMAIN decode = Fields
      /\ decode.graph = window.graph /\ decode.types = window.types
      /\ decode.runs = [n \in Decoders |-> Run(s, 0, met /\ n # "hybrid")]
  <2> HIDE DEF s, met
  <2> QED
    BY DEF StartDecode, Fields, s, met
<1>2. Shaped(s, DOMAIN window.prior, DOMAIN window.graph)
  BY DEF Fresh, Shaped
<1> HIDE DEF s, met
<1>3. decode.runs["gari"].state = s
  BY <1>1 DEF Decoders, Run
<1> QED
  BY <1>1, <1>2, <1>3 DEF GariInv

\* Every step of the decoders keeps it.
LEMMA GariStep ==
  ASSUME NEW window, IsWindow(window), GariInv(window), [DecodeStep]_decode
  PROVE  GariInv(window)'
<1> DEFINE V == DOMAIN window.prior
           C == DOMAIN window.graph
<1>1. /\ DOMAIN decode = Fields /\ DOMAIN decode.runs = Decoders
      /\ decode.graph = window.graph /\ decode.types = window.types
      /\ Shaped(decode.runs["gari"].state, V, C)
  BY DEF GariInv
<1>2. "gari" \in Decoders /\ "hybrid" \in Decoders
  BY DEF Decoders
<1>3. {"graph", "types", "runs", "warmed", "phase", "offset", "sweep"} \subseteq Fields
  BY DEF Fields
<1>4. CASE Warm
  <2>1. PICK state : decode' = [decode EXCEPT !.warmed = @ + 1, !.runs["hybrid"].state = state]
    BY <1>4 DEF Warm
  <2>2. DOMAIN decode' = Fields /\ decode'.graph = decode.graph /\ decode'.types = decode.types
    BY <2>1, <1>1, <1>3
  <2>3. decode'.runs = [decode.runs EXCEPT !["hybrid"].state = state]
    BY <2>1, <1>1, <1>3
  <2>4. DOMAIN decode'.runs = Decoders /\ decode'.runs["gari"] = decode.runs["gari"]
    BY <2>3, <1>1, <1>2
  <2> QED
    BY <2>2, <2>4, <1>1 DEF GariInv
<1>5. CASE Convert
  <2>1. PICK offset, run :
          decode' = [decode EXCEPT !.phase = "sweep", !.offset = offset, !.runs["hybrid"] = run]
    BY <1>5 DEF Convert
  <2>2. DOMAIN decode' = Fields /\ decode'.graph = decode.graph /\ decode'.types = decode.types
    BY <2>1, <1>1, <1>3
  <2>3. decode'.runs = [decode.runs EXCEPT !["hybrid"] = run]
    BY <2>1, <1>1, <1>3
  <2>4. DOMAIN decode'.runs = Decoders /\ decode'.runs["gari"] = decode.runs["gari"]
    BY <2>3, <1>1, <1>2
  <2> QED
    BY <2>2, <2>4, <1>1 DEF GariInv
<1>6. CASE SweepAll
  <2> DEFINE i == decode.sweep + 1
             r == decode.runs["gari"]
             swept == SweepOf("gari", r.state, i)
  <2>1. PICK runs :
          /\ decode' = [decode EXCEPT !.sweep = i, !.runs = runs]
          /\ DOMAIN runs = Decoders
          /\ runs["gari"] = IF r.success THEN r
                            ELSE Tested(decode.graph, decode.target, swept, i)
    <3> DEFINE next(n) ==
                 LET q == decode.runs[n]
                 IN  IF q.success /\ n # "free" THEN q
                     ELSE Tested(decode.graph, decode.target, SweepOf(n, q.state, i), i)
               runs == [n \in Decoders |-> next(n)]
    <3>1. decode' = [decode EXCEPT !.sweep = i, !.runs = runs]
      BY <1>6 DEF SweepAll
    <3>2. runs["gari"] = next("gari") /\ DOMAIN runs = Decoders
      BY <1>2
    <3>3. next("gari") = IF r.success THEN r
                         ELSE Tested(decode.graph, decode.target, swept, i)
      OBVIOUS
    <3> HIDE DEF runs, next, swept, r
    <3> QED
      BY <3>1, <3>2, <3>3
  <2>2. /\ DOMAIN decode' = Fields /\ decode'.graph = decode.graph /\ decode'.types = decode.types
        /\ decode'.runs = runs
    BY <2>1, <1>1, <1>3
  <2>3. Shaped(swept, V, C)
    <3> DEFINE order == GariOrder(decode.graph, decode.types, decode.partitions, decode.parallelism)
    <3>1. swept = Sweep(decode.graph, decode.target, "fixed", r.state, order)
      BY DEF SweepOf
    <3>2. order \in Seq(C)
      BY <1>1, GariOrderType, WindowFacts
    <3> HIDE DEF order, r, swept, V, C
    <3>3. Shaped(r.state, V, C)
      BY <1>1 DEF r
    <3> QED
      BY <3>1, <3>2, <3>3, SweepShaped
  <2>4. runs["gari"].state \in {r.state, swept}
    <3> HIDE DEF r, swept
    <3> QED
      BY <2>1 DEF Tested, Run
  <2> QED
    BY <2>1, <2>2, <2>3, <2>4, <1>1 DEF GariInv
<1>7. CASE UNCHANGED decode
  BY <1>7 DEF GariInv
<1> QED
  BY <1>4, <1>5, <1>6, <1>7 DEF DecodeStep

\* In such a state the checks of every batch may run together.
LEMMA BatchesOfAState ==
  ASSUME NEW window, IsWindow(window), GariInv(window)
  PROVE  BatchesMayRunTogether
<1> DEFINE V == DOMAIN window.prior
           C == DOMAIN window.graph
           graph == decode.graph
           target == decode.target
           batches == AuxiliaryBatches(graph, decode.types, decode.partitions, decode.parallelism)
           after(s, checks) == Sweep(graph, target, "fixed", s, checks)
           start(b) == after(decode.runs["gari"].state,
                             MainOrder(decode.types) \o FlattenSeq(SubSeq(batches, 1, b - 1)))
<1>1. /\ graph = window.graph /\ decode.types = window.types
      /\ Shaped(decode.runs["gari"].state, V, C)
  BY DEF GariInv
<1>2. \A c \in C : ToSet(graph[c]) \subseteq V
  BY <1>1, WindowFacts
<1>3. MainOrder(decode.types) \in Seq(C)
  BY <1>1, WindowFacts, GariOrderType
<1>4. batches \in Seq(Seq(C)) /\ \A b \in DOMAIN batches : IsBatch(graph, batches[b])
  BY <1>1, WindowFacts, BatchesFacts
<1> HIDE DEF V, C, graph, target, batches
<1>5. ASSUME NEW b \in DOMAIN batches
      PROVE  Shaped(start(b), V, C)
  <2>1. SubSeq(batches, 1, b - 1) \in Seq(Seq(C))
    BY <1>4
  <2>2. FlattenSeq(SubSeq(batches, 1, b - 1)) \in Seq(C)
    BY <2>1, FlattenedSet
  <2>3. MainOrder(decode.types) \o FlattenSeq(SubSeq(batches, 1, b - 1)) \in Seq(C)
    BY <2>2, <1>3
  <2> QED
    BY <2>3, <1>1, SweepShaped
<1>6. ASSUME NEW s, Shaped(s, V, C), NEW b \in DOMAIN batches
      PROVE  /\ \A order \in SetToSeqs(ToSet(batches[b])) : after(s, order) = after(s, batches[b])
             /\ \A c \in ToSet(batches[b]) :
                  after(s, batches[b]).messages[c] = after(s, <<c>>).messages[c]
  <2> DEFINE batch == batches[b]
             t == Together(graph, target, "fixed", s, ToSet(batch))
  <2>1. batch \in Seq(C) /\ IsInjective(batch) /\ Apart(graph, ToSet(batch))
    BY <1>4 DEF IsBatch
  <2> HIDE DEF batch
  <2>2. after(s, batch) = t
    BY <1>2, <1>6, <2>1, ApartSweep
  <2>3. ASSUME NEW order \in SetToSeqs(ToSet(batch)) PROVE after(s, order) = t
    <3>1. order \in Seq(C) /\ IsInjective(order) /\ ToSet(order) = ToSet(batch)
      BY <2>1, OrdersOf
    <3>2. after(s, order) = Together(graph, target, "fixed", s, ToSet(order))
      BY <3>1, <2>1, <1>2, <1>6, ApartSweep
    <3> QED
      BY <3>1, <3>2
  <2>4. ASSUME NEW c \in ToSet(batch) PROVE t.messages[c] = after(s, <<c>>).messages[c]
    <3>1. c \in C
      BY <2>1 DEF ToSet
    <3>2. <<c>> \in Seq(C) /\ Len(<<c>>) = 1 /\ <<c>>[1] = c
      BY <3>1
    <3>3. after(s, <<c>>) = CheckStep(graph, target, "fixed", s, c)
      BY <3>1, SweepOfOne
    <3>4. DOMAIN s.messages = C
      BY <1>6 DEF Shaped
    <3>5. t.messages[c] = CheckStep(graph, target, "fixed", s, c).messages[c]
      BY <3>1, <3>4 DEF Together
    <3> QED
      BY <3>3, <3>5
  <2> QED
    BY <2>2, <2>3, <2>4 DEF batch
<1> HIDE DEF start
<1>7. ASSUME NEW b \in DOMAIN batches
      PROVE  /\ \A order \in SetToSeqs(ToSet(batches[b])) :
                  after(start(b), order) = after(start(b), batches[b])
             /\ \A c \in ToSet(batches[b]) :
                  after(start(b), batches[b]).messages[c] = after(start(b), <<c>>).messages[c]
  BY <1>5, <1>6
<1> QED
  BY <1>7 DEF BatchesMayRunTogether, start, batches, graph, target

\* For every window, auxiliary_batches makes batches whose checks may run in any order, or
\* at once: no check of a batch sees another's update, and the state after it is the same.
THEOREM BatchesAreIndependent ==
  ASSUME NEW window, IsWindow(window)
  PROVE  DecodeSpec(window) => []BatchesMayRunTogether
<1>1. decode = StartDecode(window) => GariInv(window)
  BY GariInit
<1>2. GariInv(window) /\ [DecodeStep]_decode => GariInv(window)'
  BY GariStep
<1>3. GariInv(window) => BatchesMayRunTogether
  BY BatchesOfAState
<1> QED
  BY <1>1, <1>2, <1>3, PTL DEF DecodeSpec

-----------------------------------------------------------------------------
(* Images.                                                                 *)

\* The nodes are the checks and the boundary.
LEMMA ImageFacts ==
  ASSUME NEW image, IsImage(image)
  PROVE  /\ Nodes(image) = ChecksOf(image) \cup {Boundary(image)}
         /\ Boundary(image) \notin ChecksOf(image)
         /\ Nodes(image) \subseteq Nat /\ ChecksOf(image) \subseteq Nat
         /\ IsFiniteSet(Nodes(image)) /\ IsFiniteSet(ChecksOf(image))
         /\ Cardinality(Nodes(image)) = image.checks + 1
         /\ IsFiniteSet(image.neutral)
<1>1. image.checks \in Nat /\ image.neutral \in SUBSET FaultsOf(image)
      /\ IsFiniteSet(FaultsOf(image))
  BY DEF IsImage
<1>2. IsFiniteSet(image.neutral)
  BY <1>1, FS_Subset
<1>3. IsFiniteSet(0 .. image.checks) /\ Cardinality(0 .. image.checks) = image.checks + 1
      /\ IsFiniteSet(0 .. image.checks - 1)
  BY <1>1, FS_Interval
<1> QED
  BY <1>1, <1>2, <1>3 DEF Nodes, ChecksOf, Boundary

\* The syndrome is the sum of the flipped columns.
LEMMA SyndromeIsSum ==
  ASSUME NEW image, NEW flips
  PROVE  SyndromeOf(image, flips) = SumOf(image.columns, flips, ChecksOf(image))
  BY DEF SyndromeOf, SumOf

\* The syndrome of a repaired word is the word's and the repair's, added.
LEMMA SyndromeLinear ==
  ASSUME NEW image, NEW A, NEW B, IsFiniteSet(A), IsFiniteSet(B)
  PROVE  SyndromeOf(image, SymDiff(A, B)) = SymDiff(SyndromeOf(image, A), SyndromeOf(image, B))
  BY SyndromeIsSum, SumLinear

\* The syndrome of one fault is its column.
LEMMA SyndromeOfOne ==
  ASSUME NEW image, IsImage(image), NEW v \in FaultsOf(image)
  PROVE  SyndromeOf(image, {v}) = image.columns[v]
<1>1. ChecksOf(image) \cap image.columns[v] = image.columns[v]
  BY DEF IsImage
<1>2. SyndromeOf(image, {v}) = ChecksOf(image) \cap image.columns[v]
  BY SyndromeIsSum, SumOfOne
<1> QED
  BY <1>1, <1>2

LEMMA SyndromeType ==
  ASSUME NEW image, NEW flips
  PROVE  /\ SyndromeOf(image, flips) \subseteq ChecksOf(image)
         /\ SyndromeOf(image, {}) = {}
<1>1. SyndromeOf(image, {}) = {}
  BY SyndromeIsSum, SumOfNone
<1> QED
  BY <1>1 DEF SyndromeOf

\* Parity vectors are linear.
LEMMA ParityLinear ==
  ASSUME NEW D, NEW tree, NEW A, NEW B, IsFiniteSet(A), IsFiniteSet(B)
  PROVE  ParityVector(D, tree, SymDiff(A, B))
           = SymDiff(ParityVector(D, tree, A), ParityVector(D, tree, B))
<1> DEFINE W == A \cup B
           f == [c \in W |-> {tree.root[c]}]
<1>1. ASSUME NEW S, S \subseteq W PROVE ParityVector(D, tree, S) = SumOf(f, S, D)
  <2>1. \A r \in D : {c \in S : tree.root[c] = r} = {c \in S : r \in f[c]}
    BY <1>1
  <2> QED
    BY <2>1 DEF ParityVector, SumOf
<1>2. A \subseteq W /\ B \subseteq W /\ SymDiff(A, B) \subseteq W
  BY DEF SymDiff
<1>3. SumOf(f, SymDiff(A, B), D) = SymDiff(SumOf(f, A, D), SumOf(f, B, D))
  BY SumLinear
<1> HIDE DEF f, W
<1> QED
  BY <1>1, <1>2, <1>3

LEMMA ParityType ==
  ASSUME NEW D, NEW tree, NEW A
  PROVE  /\ ParityVector(D, tree, A) \subseteq D
         /\ ParityVector(D, tree, {}) = {}
<1>1. \A r \in D : {c \in {} : tree.root[c] = r} = {}
  OBVIOUS
<1> QED
  BY <1>1, OddSmall DEF ParityVector

-----------------------------------------------------------------------------
(* The traversal.                                                          *)

\* The least member of a nonempty set of naturals is one of its members.
LEMMA MinOfNaturals ==
  ASSUME NEW S \in SUBSET Nat, S # {}
  PROVE  Min(S) \in S
<1>1. \E m \in S : \A n \in S : m <= n
  BY LeastElement
<1> QED
  BY <1>1 DEF Min

\* A set with two elements is a pair.
LEMMA TwoElements ==
  ASSUME NEW S, IsFiniteSet(S), Cardinality(S) = 2
  PROVE  \E a, b : a # b /\ S = {a, b}
<1>1. S # {}
  BY FS_EmptySet
<1>2. PICK a : a \in S
  BY <1>1
<1>3. IsFiniteSet(S \ {a}) /\ Cardinality(S \ {a}) = 1
  BY <1>2, FS_RemoveElement
<1>4. PICK b : S \ {a} = {b}
  BY <1>3, FS_Singleton
<1> QED
  BY <1>2, <1>4

\* A kept link is a neutral fault with two ends, which are its checks and, if it
\* has only one, the boundary.
LEMMA LinkEnds ==
  ASSUME NEW image, IsImage(image), NEW v \in KeptLinks(image)
  PROVE  /\ v \in image.neutral /\ v \in FaultsOf(image)
         /\ \E a, b \in Nodes(image) : a # b /\ Ends(image, v) = {a, b}
         /\ Ends(image, v) \ {Boundary(image)} = image.columns[v]
<1>1. v \in FaultsOf(image) /\ v \in image.neutral
      /\ Cardinality(image.columns[v]) \in {1, 2}
  BY DEF KeptLinks, IsLink
<1>2. image.columns[v] \subseteq ChecksOf(image) /\ IsFiniteSet(image.columns[v])
  <2>1. image.columns[v] \in SUBSET ChecksOf(image)
    BY <1>1 DEF IsImage
  <2> QED
    BY <2>1, ImageFacts, FS_Subset
<1>3. CASE Cardinality(image.columns[v]) = 1
  <2>1. PICK c : image.columns[v] = {c}
    BY <1>2, <1>3, FS_Singleton
  <2>2. Ends(image, v) = {c, Boundary(image)}
    BY <1>3, <2>1 DEF Ends
  <2> QED
    BY <1>1, <1>2, <2>1, <2>2, ImageFacts
<1>4. CASE Cardinality(image.columns[v]) = 2
  <2>1. PICK a, b : a # b /\ image.columns[v] = {a, b}
    BY <1>2, <1>4, TwoElements
  <2>2. Ends(image, v) = {a, b}
    BY <1>4, <2>1 DEF Ends
  <2> QED
    BY <1>1, <1>2, <2>1, <2>2, ImageFacts
<1> QED
  BY <1>1, <1>3, <1>4

TreeRecord(image) ==
  [order : Seq(Nodes(image)), parent : [Nodes(image) -> Int],
   link : [Nodes(image) -> Int], root : [Nodes(image) -> Nodes(image)]]

Left(image, t) == {n \in Nodes(image) : t.parent[n] = UNVISITED}

\* A visit does nothing when no node is left, and otherwise adds one: a root, the
\* boundary first, or a node at the other end of a kept link.
StartsRoot(image, t, u) ==
  \E n \in Left(image, t) :
    /\ u = VisitNode(t, n, NO_PARENT, -1, n)
    /\ Left(image, t) = Nodes(image) => n = Boundary(image)

FollowsLink(image, t, u) ==
  \E n \in Left(image, t), m \in Nodes(image) \ Left(image, t), v \in KeptLinks(image) :
    /\ u = VisitNode(t, n, m, v, t.root[m])
    /\ Ends(image, v) = {n, m}

LEMMA VisitCases ==
  ASSUME NEW image, IsImage(image), NEW t
  PROVE  LET u == Visit(image, KeptLinks(image), t)
         IN  IF Left(image, t) = {} THEN u = t
             ELSE StartsRoot(image, t, u) \/ FollowsLink(image, t, u)
<1> DEFINE u == Visit(image, KeptLinks(image), t)
           left == Left(image, t)
           crossing == {v \in KeptLinks(image) :
                          Ends(image, v) \cap left # {} /\ ~(Ends(image, v) \subseteq left)}
           v == Min(crossing)
           here == CHOOSE n \in Ends(image, v) \ left : TRUE
           next == CHOOSE n \in Ends(image, v) \cap left : TRUE
           first == IF Boundary(image) \in left THEN Boundary(image) ELSE Min(left)
<1>1. u = IF left = {} THEN t
          ELSE IF crossing = {} THEN VisitNode(t, first, NO_PARENT, -1, first)
          ELSE VisitNode(t, next, here, v, t.root[here])
  BY DEF Visit, Left
<1> HIDE DEF u, left, crossing, v, here, next, first
<1>2. CASE left = {}
  BY <1>1, <1>2 DEF left, u
<1>3. CASE left # {} /\ crossing = {}
  <2>1. left \subseteq Nodes(image) /\ left \in SUBSET Nat
    BY ImageFacts DEF left, Left
  <2>2. first \in left /\ (left = Nodes(image) => first = Boundary(image))
    BY <1>3, <2>1, ImageFacts, MinOfNaturals DEF first
  <2>3. StartsRoot(image, t, u)
    BY <1>1, <1>3, <2>2 DEF StartsRoot, left
  <2> QED
    BY <1>3, <2>3 DEF u, left
<1>4. CASE left # {} /\ crossing # {}
  <2>1. crossing \in SUBSET Nat
    BY LinkEnds DEF crossing, IsImage
  <2>2. v \in crossing
    BY <1>4, <2>1, MinOfNaturals DEF v
  <2>3. v \in KeptLinks(image) /\ Ends(image, v) \cap left # {} /\ Ends(image, v) \ left # {}
    BY <2>2 DEF crossing
  <2>4. here \in Ends(image, v) \ left
    BY <2>3 DEF here
  <2>5. next \in Ends(image, v) \cap left
    BY <2>3 DEF next
  <2>6. Ends(image, v) = {next, here} /\ here \in Nodes(image)
    BY <2>3, <2>4, <2>5, LinkEnds
  <2>7. FollowsLink(image, t, u)
    BY <1>1, <1>4, <2>3, <2>4, <2>5, <2>6 DEF FollowsLink, left
  <2> QED
    BY <1>4, <2>7 DEF u, left
<1> QED
  BY <1>2, <1>3, <1>4

LEMMA VisitType ==
  ASSUME NEW image, IsImage(image), NEW t \in TreeRecord(image)
  PROVE  Visit(image, KeptLinks(image), t) \in TreeRecord(image)
<1> DEFINE u == Visit(image, KeptLinks(image), t)
<1>1. ASSUME NEW n \in Nodes(image), NEW p \in Int, NEW l \in Int, NEW r \in Nodes(image)
      PROVE  VisitNode(t, n, p, l, r) \in TreeRecord(image)
  <2>1. t.order \in Seq(Nodes(image)) /\ t.parent \in [Nodes(image) -> Int]
        /\ t.link \in [Nodes(image) -> Int] /\ t.root \in [Nodes(image) -> Nodes(image)]
    BY DEF TreeRecord
  <2>2. Append(t.order, n) \in Seq(Nodes(image))
    BY <2>1, AppendProperties
  <2> QED
    BY <2>1, <2>2 DEF TreeRecord, VisitNode
<1>2. Left(image, t) \subseteq Nodes(image) /\ NO_PARENT \in Int /\ -1 \in Int
  BY DEF Left, NO_PARENT
<1>3. CASE StartsRoot(image, t, u)
  BY <1>1, <1>2, <1>3 DEF StartsRoot
<1>4. CASE FollowsLink(image, t, u)
  <2>1. PICK n \in Left(image, t), m \in Nodes(image) \ Left(image, t), v \in KeptLinks(image) :
          u = VisitNode(t, n, m, v, t.root[m])
    BY <1>4 DEF FollowsLink
  <2>2. m \in Int /\ t.root[m] \in Nodes(image)
    <3>1. m \in Nodes(image) /\ Nodes(image) \subseteq Nat
      BY ImageFacts
    <3> QED
      BY <3>1 DEF TreeRecord
  <2>3. v \in Int
    BY LinkEnds DEF IsImage
  <2> QED
    BY <1>1, <1>2, <2>1, <2>2, <2>3
<1>5. CASE u = t
  BY <1>5
<1> QED
  BY <1>3, <1>4, <1>5, VisitCases

\* What holds of the k-th node: it is a root, or it hangs by a kept link from a
\* node before it and has the root of that node.
Placed(image, t, k) ==
  LET n == t.order[k]
  IN  /\ t.parent[t.root[n]] = NO_PARENT /\ t.root[t.root[n]] = t.root[n]
      /\ \/ t.parent[n] = NO_PARENT /\ t.root[n] = n
         \/ \E j \in 1 .. k - 1 :
              /\ t.parent[n] = t.order[j] /\ t.root[n] = t.root[t.order[j]]
              /\ t.link[n] \in KeptLinks(image)
              /\ Ends(image, t.link[n]) = {n, t.order[j]}

\* A traversal that has visited i nodes.
Walked(image, t, i) ==
  /\ t \in TreeRecord(image) /\ Len(t.order) = i
  /\ \A k, j \in 1 .. i : t.order[j] = t.order[k] => j = k
  /\ Left(image, t) = Nodes(image) \ {t.order[k] : k \in 1 .. i}
  /\ i > 0 => t.order[1] = Boundary(image)
  /\ \A k \in 1 .. i : Placed(image, t, k)

\* One more node: what was placed stays as it was.
LEMMA PlacedStays ==
  ASSUME NEW image, IsImage(image), NEW i \in Nat, NEW t, Walked(image, t, i),
         NEW n \in Left(image, t), NEW p \in Int, p # UNVISITED,
         NEW l \in Int, NEW r \in Nodes(image)
  PROVE  LET u == VisitNode(t, n, p, l, r)
         IN  /\ u.order[i + 1] = n /\ u.parent[n] = p /\ u.link[n] = l /\ u.root[n] = r
             /\ \A k \in 1 .. i : u.order[k] = t.order[k]
             /\ \A m \in Nodes(image) \ {n} :
                  u.parent[m] = t.parent[m] /\ u.link[m] = t.link[m] /\ u.root[m] = t.root[m]
             /\ \A k \in 1 .. i : Placed(image, u, k)
             /\ Len(u.order) = i + 1
             /\ \A k, j \in 1 .. i + 1 : u.order[j] = u.order[k] => j = k
             /\ Left(image, u) = Nodes(image) \ {u.order[k] : k \in 1 .. i + 1}
<1> DEFINE u == VisitNode(t, n, p, l, r)
<1>1. /\ t.order \in Seq(Nodes(image)) /\ t.parent \in [Nodes(image) -> Int]
      /\ t.link \in [Nodes(image) -> Int] /\ t.root \in [Nodes(image) -> Nodes(image)]
      /\ Len(t.order) = i
  BY DEF Walked, TreeRecord
<1>2. n \in Nodes(image) /\ t.parent[n] = UNVISITED
  BY DEF Left
<1>3. u.order = Append(t.order, n)
  BY DEF VisitNode
<1>4. Len(u.order) = i + 1 /\ u.order[i + 1] = n /\ \A k \in 1 .. i : u.order[k] = t.order[k]
  BY <1>1, <1>2, <1>3
<1>5. u.parent[n] = p /\ u.link[n] = l /\ u.root[n] = r
  BY <1>1, <1>2 DEF VisitNode
<1>6. \A m \in Nodes(image) \ {n} :
        u.parent[m] = t.parent[m] /\ u.link[m] = t.link[m] /\ u.root[m] = t.root[m]
  BY <1>1, <1>2 DEF VisitNode
<1>7. \A k \in 1 .. i : t.order[k] \in Nodes(image) \ {n}
  <2>1. \A k \in 1 .. i : t.order[k] \in Nodes(image)
    BY <1>1
  <2>2. n \notin {t.order[k] : k \in 1 .. i}
    BY DEF Walked
  <2> QED
    BY <2>1, <2>2
<1> HIDE DEF u
<1>8. ASSUME NEW k \in 1 .. i PROVE Placed(image, u, k)
  <2> DEFINE m == t.order[k]
             q == t.root[m]
  <2>1. m \in Nodes(image) \ {n} /\ u.order[k] = m
    BY <1>4, <1>7
  <2>2. Placed(image, t, k)
    BY DEF Walked
  <2>3. t.parent[q] = NO_PARENT /\ t.root[q] = q
    BY <2>2 DEF Placed
  <2>4. q \in Nodes(image) \ {n}
    <3>1. q \in Nodes(image)
      BY <1>1, <2>1
    <3>2. q # n
      BY <1>2, <2>3 DEF NO_PARENT, UNVISITED
    <3> QED
      BY <3>1, <3>2
  <2>5. u.root[m] = q /\ u.parent[q] = NO_PARENT /\ u.root[q] = q
    BY <1>6, <2>1, <2>3, <2>4
  <2>6. u.parent[m] = t.parent[m] /\ u.link[m] = t.link[m]
    BY <1>6, <2>1
  <2>7. \A j \in 1 .. k - 1 : u.order[j] = t.order[j] /\ u.root[t.order[j]] = t.root[t.order[j]]
    <3> TAKE j \in 1 .. k - 1
    <3>1. j \in 1 .. i
      OBVIOUS
    <3> QED
      BY <3>1, <1>4, <1>6, <1>7
  <2>8. \/ t.parent[m] = NO_PARENT /\ q = m
        \/ \E j \in 1 .. k - 1 :
             /\ t.parent[m] = t.order[j] /\ q = t.root[t.order[j]]
             /\ t.link[m] \in KeptLinks(image) /\ Ends(image, t.link[m]) = {m, t.order[j]}
    BY <2>2 DEF Placed
  <2> HIDE DEF m, q
  <2>9. \/ u.parent[m] = NO_PARENT /\ u.root[m] = m
        \/ \E j \in 1 .. k - 1 :
             /\ u.parent[m] = u.order[j] /\ u.root[m] = u.root[u.order[j]]
             /\ u.link[m] \in KeptLinks(image) /\ Ends(image, u.link[m]) = {m, u.order[j]}
    BY <2>5, <2>6, <2>7, <2>8
  <2> QED
    BY <2>1, <2>5, <2>9 DEF Placed
<1>9. \A k, j \in 1 .. i + 1 : u.order[j] = u.order[k] => j = k
  <2> SUFFICES ASSUME NEW k \in 1 .. i + 1, NEW j \in 1 .. i + 1, u.order[j] = u.order[k]
               PROVE  j = k
    OBVIOUS
  <2>1. \A x, y \in 1 .. i : t.order[x] = t.order[y] => x = y
    BY DEF Walked
  <2>2. CASE j \in 1 .. i /\ k \in 1 .. i
    BY <2>1, <2>2, <1>4
  <2>3. CASE j = i + 1 /\ k \in 1 .. i
    BY <2>3, <1>4, <1>7
  <2>4. CASE k = i + 1 /\ j \in 1 .. i
    BY <2>4, <1>4, <1>7
  <2>5. CASE k = i + 1 /\ j = i + 1
    BY <2>5
  <2> QED
    BY <2>2, <2>3, <2>4, <2>5
<1>10. Left(image, u) = Nodes(image) \ {u.order[k] : k \in 1 .. i + 1}
  <2>1. Left(image, u) = Left(image, t) \ {n}
    BY <1>2, <1>5, <1>6 DEF Left
  <2>2. {u.order[k] : k \in 1 .. i + 1} = {t.order[k] : k \in 1 .. i} \cup {n}
    <3>1. 1 .. i + 1 = (1 .. i) \cup {i + 1}
      OBVIOUS
    <3>2. {u.order[k] : k \in 1 .. i + 1} = {u.order[k] : k \in 1 .. i} \cup {u.order[i + 1]}
      BY <3>1
    <3>3. {u.order[k] : k \in 1 .. i} = {t.order[k] : k \in 1 .. i}
      BY <1>4
    <3> QED
      BY <3>2, <3>3, <1>4
  <2>3. Left(image, t) = Nodes(image) \ {t.order[k] : k \in 1 .. i}
    BY DEF Walked
  <2> QED
    BY <2>1, <2>2, <2>3
<1> QED
  BY <1>4, <1>5, <1>6, <1>8, <1>9, <1>10 DEF u

\* While a node is left, a visit adds one and places it.
LEMMA VisitWalks ==
  ASSUME NEW image, IsImage(image), NEW i \in 0 .. image.checks, NEW t, Walked(image, t, i)
  PROVE  Walked(image, Visit(image, KeptLinks(image), t), i + 1)
<1> DEFINE u == Visit(image, KeptLinks(image), t)
<1>1. image.checks \in Nat /\ i \in Nat /\ NO_PARENT # UNVISITED /\ NO_PARENT \in Int
  BY DEF IsImage, NO_PARENT, UNVISITED
<1>2. t \in TreeRecord(image) /\ u \in TreeRecord(image)
  <2>1. t \in TreeRecord(image)
    BY DEF Walked
  <2> QED
    BY <2>1, VisitType
<1>3. Left(image, t) # {}
  <2> SUFFICES ASSUME Left(image, t) = {} PROVE FALSE
    OBVIOUS
  <2> DEFINE S == {t.order[k] : k \in 1 .. i}
             f == [k \in 1 .. i |-> t.order[k]]
  <2>1. Nodes(image) \subseteq S
    BY DEF Walked
  <2>2. f \in [1 .. i -> S] /\ \A s \in S : \E k \in 1 .. i : f[k] = s
    OBVIOUS
  <2>3. ExistsSurjection(1 .. i, S)
    <3> HIDE DEF f, S
    <3> QED
      BY <2>2 DEF ExistsSurjection, Surjection
  <2> HIDE DEF f, S
  <2>4. Cardinality(S) <= i
    BY <1>1, <2>3, FS_SurjCardinalityBound
  <2>5. IsFiniteSet(S)
    BY <2>2, <2>3, <1>1, FS_Interval, FS_Surjection DEF ExistsSurjection
  <2>6. Cardinality(Nodes(image)) <= Cardinality(S)
    BY <2>1, <2>5, FS_Subset
  <2>7. Cardinality(Nodes(image)) = image.checks + 1 /\ Cardinality(S) \in Nat
    BY <2>5, ImageFacts, FS_CardinalityType
  <2> QED
    BY <1>1, <2>4, <2>6, <2>7
<1>4. CASE StartsRoot(image, t, u)
  <2>1. PICK n \in Left(image, t) : /\ u = VisitNode(t, n, NO_PARENT, -1, n)
                                    /\ Left(image, t) = Nodes(image) => n = Boundary(image)
    BY <1>4 DEF StartsRoot
  <2>2. n \in Nodes(image) /\ -1 \in Int
    BY DEF Left
  <2>3. /\ u.order[i + 1] = n /\ u.parent[n] = NO_PARENT /\ u.root[n] = n
        /\ \A k \in 1 .. i : u.order[k] = t.order[k]
        /\ \A k \in 1 .. i : Placed(image, u, k)
        /\ Len(u.order) = i + 1
        /\ \A k, j \in 1 .. i + 1 : u.order[j] = u.order[k] => j = k
        /\ Left(image, u) = Nodes(image) \ {u.order[k] : k \in 1 .. i + 1}
    BY <1>1, <2>1, <2>2, PlacedStays
  <2>4. Placed(image, u, i + 1)
    BY <2>3 DEF Placed
  <2>5. u.order[1] = Boundary(image)
    <3>1. CASE i = 0
      <4>1. Left(image, t) = Nodes(image)
        <5>1. {t.order[k] : k \in 1 .. i} = {}
          BY <3>1
        <5> QED
          BY <5>1 DEF Walked
      <4> QED
        BY <2>1, <2>3, <3>1, <4>1
    <3>2. CASE i > 0
      BY <1>1, <2>3, <3>2 DEF Walked
    <3> QED
      BY <1>1, <3>1, <3>2
  <2>6. \A k \in 1 .. i + 1 : Placed(image, u, k)
    <3>1. \A k \in 1 .. i + 1 : k \in 1 .. i \/ k = i + 1
      BY <1>1
    <3> QED
      BY <2>3, <2>4, <3>1
  <2> HIDE DEF u
  <2> QED
    BY <1>2, <2>3, <2>5, <2>6 DEF Walked, u
<1>5. CASE FollowsLink(image, t, u)
  <2>1. PICK n \in Left(image, t), m \in Nodes(image) \ Left(image, t), v \in KeptLinks(image) :
          u = VisitNode(t, n, m, v, t.root[m]) /\ Ends(image, v) = {n, m}
    BY <1>5 DEF FollowsLink
  <2>2. n \in Nodes(image) /\ m \in Nodes(image) /\ m # n /\ m \in Int /\ m # UNVISITED
        /\ t.root[m] \in Nodes(image)
    <3>1. Nodes(image) \subseteq Nat /\ n \in Nodes(image) /\ m \in Nodes(image) /\ m # n
      BY ImageFacts DEF Left
    <3>2. t.root[m] \in Nodes(image)
      BY <1>2, <3>1 DEF TreeRecord
    <3> QED
      BY <3>1, <3>2 DEF UNVISITED
  <2>3. v \in Int
    BY LinkEnds DEF IsImage
  <2>4. /\ u.order[i + 1] = n /\ u.parent[n] = m /\ u.link[n] = v /\ u.root[n] = t.root[m]
        /\ \A k \in 1 .. i : u.order[k] = t.order[k]
        /\ \A k \in 1 .. i : Placed(image, u, k)
        /\ \A q \in Nodes(image) \ {n} : u.parent[q] = t.parent[q] /\ u.root[q] = t.root[q]
        /\ Len(u.order) = i + 1
        /\ \A k, j \in 1 .. i + 1 : u.order[j] = u.order[k] => j = k
        /\ Left(image, u) = Nodes(image) \ {u.order[k] : k \in 1 .. i + 1}
    <3> DEFINE r == t.root[m]
    <3>1. r \in Nodes(image) /\ u = VisitNode(t, n, m, v, r)
      BY <2>1, <2>2
    <3> HIDE DEF u, r
    <3>2. i \in Nat /\ m \in Int /\ m # UNVISITED
      BY <1>1, <2>2
    <3>3. /\ u.order[i + 1] = n /\ u.parent[n] = m /\ u.link[n] = v /\ u.root[n] = r
          /\ \A k \in 1 .. i : u.order[k] = t.order[k]
          /\ \A q \in Nodes(image) \ {n} : u.parent[q] = t.parent[q] /\ u.root[q] = t.root[q]
          /\ \A k \in 1 .. i : Placed(image, u, k)
          /\ Len(u.order) = i + 1
          /\ \A k, j \in 1 .. i + 1 : u.order[j] = u.order[k] => j = k
          /\ Left(image, u) = Nodes(image) \ {u.order[k] : k \in 1 .. i + 1}
      BY <2>3, <3>1, <3>2, PlacedStays
    <3> QED
      BY <3>3 DEF r
  <2>5. PICK j \in 1 .. i : t.order[j] = m
    <3>1. m \in {t.order[k] : k \in 1 .. i}
      BY <2>1 DEF Walked
    <3> QED
      BY <3>1
  <2>6. Placed(image, u, j) /\ u.order[j] = m /\ u.root[m] = t.root[m]
    BY <2>2, <2>4, <2>5
  <2>7. u.parent[u.root[m]] = NO_PARENT /\ u.root[u.root[m]] = u.root[m]
    BY <2>6 DEF Placed
  <2>8. Placed(image, u, i + 1)
    <3>1. j \in 1 .. (i + 1) - 1
      BY <1>1
    <3>2. /\ u.parent[n] = u.order[j] /\ u.root[n] = u.root[u.order[j]]
          /\ u.link[n] \in KeptLinks(image) /\ Ends(image, u.link[n]) = {n, u.order[j]}
      BY <2>1, <2>4, <2>6
    <3> HIDE DEF u
    <3> QED
      BY <3>1, <3>2, <2>4, <2>6, <2>7 DEF Placed
  <2>9. u.order[1] = Boundary(image)
    BY <1>1, <2>4, <2>5 DEF Walked
  <2>10. \A k \in 1 .. i + 1 : Placed(image, u, k)
    <3>1. \A k \in 1 .. i + 1 : k \in 1 .. i \/ k = i + 1
      BY <1>1
    <3> QED
      BY <2>4, <2>8, <3>1
  <2> HIDE DEF u
  <2> QED
    BY <1>2, <2>4, <2>9, <2>10 DEF Walked, u
<1> QED
  BY <1>3, <1>4, <1>5, VisitCases

\* A traversal ends in the last of its states.
IsTraversal(f, image) ==
  /\ f[0] = [order |-> <<>>, parent |-> [n \in Nodes(image) |-> UNVISITED],
             link |-> [n \in Nodes(image) |-> -1], root |-> [n \in Nodes(image) |-> n]]
  /\ \A i \in 1 .. image.checks + 1 : f[i] = Visit(image, KeptLinks(image), f[i - 1])

LEMMA TraversalByPosition ==
  ASSUME NEW image, IsImage(image)
  PROVE  \E f : IsTraversal(f, image) /\ Traversal(image) = f[image.checks + 1]
<1> DEFINE n == image.checks + 1
           V == TreeRecord(image)
           links == KeptLinks(image)
           b == [order |-> <<>>, parent |-> [m \in Nodes(image) |-> UNVISITED],
                 link |-> [m \in Nodes(image) |-> -1], root |-> [m \in Nodes(image) |-> m]]
           Step(t) == Visit(image, links, t)
           step == [i \in 1 .. n |-> [t \in V |-> Step(t)]]
           Rec(h) == [S \in SUBSET (1 .. n) |-> IF S = {} THEN b ELSE Step(h[S \ {Max(S)}])]
<1>1. n \in Nat
  BY DEF IsImage
<1>2. IsStep(step, V, n)
  <2>1. \A t \in V : Step(t) \in V
    BY VisitType
  <2> HIDE DEF V, Step
  <2> QED
    BY <2>1 DEF IsStep
<1>3. b \in V
  <2>1. <<>> \in Seq(Nodes(image))
    OBVIOUS
  <2>2. UNVISITED \in Int /\ -1 \in Int
    BY DEF UNVISITED
  <2> QED
    BY <2>1, <2>2 DEF TreeRecord
<1>4. PICK g : IsFold(g, V, b, n, step)
  <2> HIDE DEF step, n, V, b
  <2> QED
    BY <1>1, <1>2, <1>3, FoldExists
<1>5. g = Rec(g)
  <2>1. g \in [SUBSET (1 .. n) -> V] /\ g[{}] = b
    BY <1>4 DEF IsFold
  <2>2. ASSUME NEW S \in SUBSET (1 .. n), S # {} PROVE g[S] = Step(g[S \ {Max(S)}])
    <3>1. Max(S) \in 1 .. n /\ S \ {Max(S)} \in SUBSET (1 .. n)
      BY <1>1, <2>2, MaxOfPositions
    <3>2. g[S] = step[Max(S)][g[S \ {Max(S)}]]
      BY <1>4, <2>2 DEF IsFold
    <3> HIDE DEF V, Step, n, b
    <3> QED
      BY <3>1, <3>2, <2>1
  <2> HIDE DEF V, Step, n, b
  <2> QED
    BY <2>1, <2>2
<1> DEFINE h == CHOOSE k : k = Rec(k)
<1>6. h = Rec(h)
  BY <1>5
<1>7. Traversal(image) = h[1 .. n]
  BY DEF Traversal, FoldLeft, MapThenFoldSet
<1> DEFINE f == [i \in 0 .. n |-> h[1 .. i]]
<1> HIDE DEF h
<1>8. f[0] = b
  <2>1. 1 .. 0 = {}
    OBVIOUS
  <2> HIDE DEF b, Step
  <2> QED
    BY <2>1, <1>6, <1>1
<1>9. ASSUME NEW i \in 1 .. n PROVE f[i] = Step(f[i - 1])
  <2>1. Max(1 .. i) = i /\ 1 .. i \in SUBSET (1 .. n) /\ 1 .. i # {} /\ (1 .. i) \ {i} = 1 .. (i - 1)
    BY <1>1, MaxOfInterval
  <2>2. h[1 .. i] = Step(h[(1 .. i) \ {Max(1 .. i)}])
    <3> HIDE DEF b, Step, n
    <3> QED
      BY <1>6, <2>1
  <2>3. h[1 .. i] = Step(h[1 .. (i - 1)])
    BY <2>1, <2>2
  <2>4. i \in 0 .. n /\ i - 1 \in 0 .. n
    BY <1>1
  <2> QED
    BY <2>3, <2>4
<1>10. f[n] = h[1 .. n]
  BY <1>1
<1> HIDE DEF f
<1>11. IsTraversal(f, image)
  BY <1>8, <1>9 DEF IsTraversal
<1> QED
  BY <1>7, <1>10, <1>11

\* The traversal visits every node once and places it.
LEMMA TraversalWalks ==
  ASSUME NEW image, IsImage(image)
  PROVE  /\ Walked(image, Traversal(image), image.checks + 1)
         /\ \A n \in Nodes(image) : \E k \in 1 .. image.checks + 1 : Traversal(image).order[k] = n
<1> DEFINE n == image.checks + 1
           t == Traversal(image)
<1>1. PICK f : IsTraversal(f, image) /\ Traversal(image) = f[image.checks + 1]
  BY TraversalByPosition
<1>2. n \in Nat /\ image.checks \in Nat
  BY DEF IsImage
<1> DEFINE S == {i \in 0 .. n : Walked(image, f[i], i)}
<1>3. 0 \in S
  <2> DEFINE b == f[0]
  <2>1. b = [order |-> <<>>, parent |-> [m \in Nodes(image) |-> UNVISITED],
             link |-> [m \in Nodes(image) |-> -1], root |-> [m \in Nodes(image) |-> m]]
    BY <1>1 DEF IsTraversal
  <2> HIDE DEF b
  <2>2. <<>> \in Seq(Nodes(image)) /\ Len(<<>>) = 0 /\ UNVISITED \in Int /\ -1 \in Int
    BY DEF UNVISITED
  <2>3. b \in TreeRecord(image) /\ Len(b.order) = 0
    BY <2>1, <2>2 DEF TreeRecord
  <2>4. Left(image, b) = Nodes(image)
    BY <2>1 DEF Left
  <2>5. 1 .. 0 = {} /\ {b.order[k] : k \in 1 .. 0} = {}
    OBVIOUS
  <2>6. Walked(image, b, 0)
    BY <2>3, <2>4, <2>5 DEF Walked
  <2> QED
    BY <1>2, <2>6 DEF b
<1>4. ASSUME NEW i \in 1 .. n, (i - 1) \in S PROVE i \in S
  <2>1. i - 1 \in 0 .. image.checks /\ Walked(image, f[i - 1], i - 1) /\ (i - 1) + 1 = i
    BY <1>2, <1>4
  <2>2. f[i] = Visit(image, KeptLinks(image), f[i - 1])
    BY <1>1 DEF IsTraversal
  <2>3. Walked(image, Visit(image, KeptLinks(image), f[i - 1]), (i - 1) + 1)
    BY <2>1, VisitWalks
  <2> QED
    BY <2>1, <2>2, <2>3
<1>5. Walked(image, t, n)
  <2> HIDE DEF S, n
  <2>1. 0 .. n \subseteq S
    BY <1>2, <1>3, <1>4, IntervalInduction
  <2>2. n \in 0 .. n
    BY <1>2
  <2> QED
    BY <1>1, <2>1, <2>2 DEF S, n
<1>6. ASSUME NEW m \in Nodes(image) PROVE \E k \in 1 .. n : t.order[k] = m
  <2> DEFINE g == [k \in 1 .. n |-> t.order[k]]
  <2>1. t.order \in Seq(Nodes(image)) /\ Len(t.order) = n
    BY <1>5 DEF Walked, TreeRecord
  <2>2. g \in [1 .. n -> Nodes(image)]
    BY <2>1
  <2>3. \A k, j \in 1 .. n : g[k] = g[j] => k = j
    BY <1>5 DEF Walked
  <2> HIDE DEF g
  <2>4. g \in Injection(1 .. n, Nodes(image))
    BY <2>2, <2>3 DEF Injection, IsInjective
  <2>5. Cardinality(1 .. n) = Cardinality(Nodes(image)) /\ IsFiniteSet(Nodes(image))
    <3>1. Cardinality(Nodes(image)) = n /\ IsFiniteSet(Nodes(image))
      BY ImageFacts
    <3> HIDE DEF n
    <3>2. Cardinality(1 .. n) = IF 1 > n THEN 0 ELSE n - 1 + 1
      BY <1>2, FS_Interval
    <3> QED
      BY <1>2, <3>1, <3>2
  <2>6. g \in Surjection(1 .. n, Nodes(image))
    BY <2>4, <2>5, FS_Injection
  <2>7. \E k \in 1 .. n : g[k] = m
    BY <2>6 DEF Surjection
  <2> QED
    BY <2>7 DEF g
<1> QED
  BY <1>5, <1>6

-----------------------------------------------------------------------------
(* Completion along the forest.                                            *)

\* What the completions read of the forest: an order of the nodes in which every
\* node but the roots hangs by a link of its own from a node before it.
IsTree(image, tree) ==
  /\ tree \in TreeRecord(image) /\ Len(tree.order) = image.checks + 1
  /\ \A k, j \in 1 .. image.checks + 1 : tree.order[j] = tree.order[k] => j = k
  /\ \A n \in Nodes(image) : \E k \in 1 .. image.checks + 1 : tree.order[k] = n
  /\ tree.order[1] = Boundary(image)
  /\ \A k \in 1 .. image.checks + 1 : Placed(image, tree, k)

LEMMA TraversalIsTree ==
  ASSUME NEW image, IsImage(image)
  PROVE  IsTree(image, Traversal(image))
<1>1. image.checks + 1 > 0
  BY DEF IsImage
<1> QED
  BY <1>1, TraversalWalks DEF Walked, IsTree

\* A node is a root, or hangs by a link from a parent.
IsRoot(tree, n) == tree.parent[n] = NO_PARENT

\* What a node is, whichever its position.
LEMMA NodeFacts ==
  ASSUME NEW image, IsImage(image), NEW tree, IsTree(image, tree),
         NEW k \in 1 .. image.checks + 1
  PROVE  LET n == tree.order[k]
         IN  /\ n \in Nodes(image) /\ tree.root[n] \in Nodes(image)
             /\ IsRoot(tree, tree.root[n]) /\ tree.root[tree.root[n]] = tree.root[n]
             /\ IsRoot(tree, n) => tree.root[n] = n
             /\ ~IsRoot(tree, n) => \E j \in 1 .. k - 1 :
                  /\ tree.parent[n] = tree.order[j] /\ tree.order[j] \in Nodes(image)
                  /\ tree.order[j] # n /\ tree.root[n] = tree.root[tree.order[j]]
                  /\ tree.link[n] \in KeptLinks(image)
                  /\ Ends(image, tree.link[n]) = {n, tree.order[j]}
<1> DEFINE n == tree.order[k]
<1>1. image.checks \in Nat
  BY DEF IsImage
<1>2. tree \in TreeRecord(image) /\ Len(tree.order) = image.checks + 1
  BY DEF IsTree
<1>3. \A j \in 1 .. image.checks + 1 : tree.order[j] \in Nodes(image)
  BY <1>2 DEF TreeRecord
<1>4. n \in Nodes(image) /\ tree.root[n] \in Nodes(image)
  BY <1>2, <1>3 DEF TreeRecord
<1>5. Placed(image, tree, k)
  BY DEF IsTree
<1>6. IsRoot(tree, tree.root[n]) /\ tree.root[tree.root[n]] = tree.root[n]
  BY <1>5 DEF Placed, IsRoot
<1>7. ASSUME NEW j \in 1 .. k - 1
      PROVE  /\ tree.order[j] \in Nodes(image) /\ tree.order[j] # n
             /\ tree.order[j] # NO_PARENT
  <2>1. j \in 1 .. image.checks + 1 /\ j # k
    BY <1>1
  <2>2. tree.order[j] \in Nodes(image) /\ tree.order[j] # n
    BY <1>3, <2>1 DEF IsTree
  <2> QED
    BY <2>2, ImageFacts DEF NO_PARENT
<1>8. IsRoot(tree, n) => tree.root[n] = n
  BY <1>5, <1>7 DEF Placed, IsRoot
<1>9. ~IsRoot(tree, n) => \E j \in 1 .. k - 1 :
         /\ tree.parent[n] = tree.order[j] /\ tree.order[j] \in Nodes(image)
         /\ tree.order[j] # n /\ tree.root[n] = tree.root[tree.order[j]]
         /\ tree.link[n] \in KeptLinks(image)
         /\ Ends(image, tree.link[n]) = {n, tree.order[j]}
  BY <1>5, <1>7 DEF Placed, IsRoot
<1> QED
  BY <1>4, <1>6, <1>8, <1>9

\* Different nodes hang by different links.
LEMMA LinksDiffer ==
  ASSUME NEW image, IsImage(image), NEW tree, IsTree(image, tree),
         NEW k \in 1 .. image.checks + 1, NEW j \in 1 .. image.checks + 1, j < k,
         ~IsRoot(tree, tree.order[k]), ~IsRoot(tree, tree.order[j])
  PROVE  tree.link[tree.order[k]] # tree.link[tree.order[j]]
<1> SUFFICES ASSUME tree.link[tree.order[k]] = tree.link[tree.order[j]] PROVE FALSE
  OBVIOUS
<1>1. PICK i \in 1 .. j - 1 : Ends(image, tree.link[tree.order[j]]) = {tree.order[j], tree.order[i]}
  BY NodeFacts
<1>2. tree.order[k] \in Ends(image, tree.link[tree.order[k]])
  BY NodeFacts
<1>3. image.checks \in Nat
  BY DEF IsImage
<1>4. i \in 1 .. image.checks + 1 /\ i # k /\ j # k
  BY <1>3
<1>5. tree.order[k] # tree.order[i] /\ tree.order[k] # tree.order[j]
  BY <1>4 DEF IsTree
<1> QED
  BY <1>1, <1>2, <1>5

\* The two ends of a link are in one component: the column of a link is even in
\* every detached component.
LEMMA LinkIsEven ==
  ASSUME NEW image, IsImage(image), NEW tree, IsTree(image, tree), NEW D,
         Boundary(image) \notin D, NEW n, NEW m, n # m, tree.root[n] = tree.root[m]
  PROVE  /\ ParityVector(D, tree, {n, m}) = {}
         /\ ParityVector(D, tree, {n, m} \ {Boundary(image)}) = {}
<1>0. tree.root[Boundary(image)] = Boundary(image)
  <2>1. 1 \in 1 .. image.checks + 1
    BY DEF IsImage
  <2>2. Placed(image, tree, 1) /\ tree.order[1] = Boundary(image)
    BY <2>1 DEF IsTree
  <2> QED
    BY <2>2 DEF Placed
<1>1. ASSUME NEW r \in D, NEW S \in {{n, m}, {n, m} \ {Boundary(image)}}
      PROVE  ~Odd({c \in S : tree.root[c] = r})
  <2>1. CASE tree.root[n] # r
    <3>1. {c \in S : tree.root[c] = r} = {}
      BY <2>1
    <3> QED
      BY <3>1, OddSmall
  <2>2. CASE tree.root[n] = r
    <3>1. r # Boundary(image)
      OBVIOUS
    <3>2. n # Boundary(image) /\ m # Boundary(image)
      BY <1>0, <2>2, <3>1
    <3>3. {c \in S : tree.root[c] = r} = {n, m}
      BY <2>2, <3>2
    <3> QED
      BY <3>3, OddSmall
  <2> QED
    BY <2>1, <2>2
<1> QED
  BY <1>1 DEF ParityVector

TreeState(image) == [missing : SUBSET Nodes(image), flips : SUBSET Int, stuck : BOOLEAN]

LEMMA TreeStepType ==
  ASSUME NEW image, IsImage(image), NEW tree, IsTree(image, tree),
         NEW s \in TreeState(image), NEW k \in 1 .. image.checks + 1
  PROVE  TreeStep(image, tree, s, tree.order[k]) \in TreeState(image)
<1> DEFINE n == tree.order[k]
<1>1. s.missing \in SUBSET Nodes(image) /\ s.flips \in SUBSET Int /\ s.stuck \in BOOLEAN
  BY DEF TreeState
<1>2. CASE n \notin s.missing
  BY <1>2 DEF TreeStep
<1>3. CASE n \in s.missing /\ IsRoot(tree, n)
  <2>1. TreeStep(image, tree, s, n) = [s EXCEPT !.stuck = @ \/ n # Boundary(image)]
    BY <1>3 DEF TreeStep, IsRoot
  <2>2. (s.stuck \/ n # Boundary(image)) \in BOOLEAN
    OBVIOUS
  <2> QED
    BY <2>1, <2>2 DEF TreeState
<1>4. CASE n \in s.missing /\ ~IsRoot(tree, n)
  <2>1. n \in Nodes(image) /\ tree.parent[n] \in Nodes(image) /\ tree.link[n] \in Int
    <3>1. tree.link[n] \in FaultsOf(image) /\ n \in Nodes(image) /\ tree.parent[n] \in Nodes(image)
      BY <1>4, NodeFacts, LinkEnds
    <3> QED
      BY <3>1 DEF IsImage
  <2> DEFINE missing == SymDiff(s.missing, {n, tree.parent[n]})
             flips == s.flips \cup {tree.link[n]}
  <2>2. missing \in SUBSET Nodes(image) /\ flips \in SUBSET Int
    BY <1>1, <2>1 DEF SymDiff
  <2>3. TreeStep(image, tree, s, n) = [s EXCEPT !.missing = missing, !.flips = flips]
    BY <1>4 DEF TreeStep, IsRoot
  <2> HIDE DEF missing, flips
  <2> QED
    BY <2>2, <2>3 DEF TreeState
<1> QED
  BY <1>2, <1>3, <1>4

\* A completion ends in the last of its states.
IsCompletion(f, image, tree, residual) ==
  /\ f[0] = [missing |-> residual, flips |-> {}, stuck |-> FALSE]
  /\ \A k \in 1 .. image.checks + 1 :
       f[k] = TreeStep(image, tree, f[k - 1], tree.order[(image.checks + 1) - k + 1])

LEMMA CompletionByPosition ==
  ASSUME NEW image, IsImage(image), NEW forest, IsTree(image, forest.tree),
         NEW residual \in SUBSET Nodes(image)
  PROVE  \E f : /\ IsCompletion(f, image, forest.tree, residual)
                /\ LET end == f[image.checks + 1]
                   IN  TreeCompletion(image, forest, residual)
                         = IF end.stuck THEN Stuck ELSE Flip(end.flips)
<1> DEFINE tree == forest.tree
           n == image.checks + 1
           V == TreeState(image)
           b == [missing |-> residual, flips |-> {}, stuck |-> FALSE]
           Step(s, k) == TreeStep(image, tree, s, tree.order[n - k + 1])
           step == [k \in 1 .. n |-> [s \in V |-> Step(s, k)]]
           Rec(h) == [S \in SUBSET (1 .. n) |-> IF S = {} THEN b ELSE Step(h[S \ {Max(S)}], Max(S))]
<1>1. n \in Nat
  BY DEF IsImage
<1>2. IsStep(step, V, n)
  <2>1. ASSUME NEW k \in 1 .. n, NEW s \in V PROVE Step(s, k) \in V
    <3>1. n - k + 1 \in 1 .. image.checks + 1
      BY <1>1
    <3> QED
      BY <3>1, TreeStepType
  <2> HIDE DEF V, Step
  <2> QED
    BY <2>1 DEF IsStep
<1>3. b \in V
  BY DEF TreeState
<1>4. PICK g : IsFold(g, V, b, n, step)
  <2> HIDE DEF step, n, V, b
  <2> QED
    BY <1>1, <1>2, <1>3, FoldExists
<1>5. g = Rec(g)
  <2>1. g \in [SUBSET (1 .. n) -> V] /\ g[{}] = b
    BY <1>4 DEF IsFold
  <2>2. ASSUME NEW S \in SUBSET (1 .. n), S # {} PROVE g[S] = Step(g[S \ {Max(S)}], Max(S))
    <3>1. Max(S) \in 1 .. n /\ S \ {Max(S)} \in SUBSET (1 .. n)
      BY <1>1, <2>2, MaxOfPositions
    <3>2. g[S] = step[Max(S)][g[S \ {Max(S)}]]
      BY <1>4, <2>2 DEF IsFold
    <3> HIDE DEF V, Step, n, b
    <3> QED
      BY <3>1, <3>2, <2>1
  <2> HIDE DEF V, Step, n, b
  <2> QED
    BY <2>1, <2>2
<1> DEFINE h == CHOOSE k : k = Rec(k)
<1>6. h = Rec(h)
  BY <1>5
<1> DEFINE end == h[1 .. n]
<1>7. TreeCompletion(image, forest, residual) = IF end.stuck THEN Stuck ELSE Flip(end.flips)
  <2>1. Len(tree.order) = n /\ Reverse(tree.order) = [k \in 1 .. n |-> tree.order[n - k + 1]]
    BY DEF IsTree, Reverse
  <2>2. DOMAIN Reverse(tree.order) = 1 .. n
    BY <2>1
  <2>3. \A S \in SUBSET (1 .. n) : S # {} => Reverse(tree.order)[Max(S)] = tree.order[n - Max(S) + 1]
    <3> TAKE S \in SUBSET (1 .. n)
    <3> HAVE S # {}
    <3>1. Max(S) \in 1 .. n
      BY <1>1, MaxOfPositions
    <3> QED
      BY <2>1, <3>1
  <2> DEFINE Raw(k) == [S \in SUBSET (1 .. n) |->
                          IF S = {} THEN b
                          ELSE TreeStep(image, tree, k[S \ {Max(S)}], Reverse(tree.order)[Max(S)])]
  <2>4. \A k : Raw(k) = Rec(k)
    BY <2>3
  <2>5. FoldLeft(LAMBDA s, m : TreeStep(image, tree, s, m), b, Reverse(tree.order))
          = (CHOOSE k : k = Raw(k))[1 .. n]
    BY <2>2 DEF FoldLeft, MapThenFoldSet
  <2>6. (CHOOSE k : k = Raw(k)) = h
    <3> HIDE DEF Raw, Rec
    <3> QED
      BY <2>4
  <2>7. FoldLeft(LAMBDA s, m : TreeStep(image, tree, s, m), b, Reverse(tree.order)) = end
    BY <2>5, <2>6
  <2> HIDE DEF end, h
  <2> QED
    BY <2>7 DEF TreeCompletion
<1> DEFINE f == [i \in 0 .. n |-> h[1 .. i]]
<1> HIDE DEF h
<1>8. f[0] = b
  <2>1. 1 .. 0 = {}
    OBVIOUS
  <2> HIDE DEF b, Step
  <2> QED
    BY <2>1, <1>6, <1>1
<1>9. ASSUME NEW i \in 1 .. n PROVE f[i] = Step(f[i - 1], i)
  <2>1. Max(1 .. i) = i /\ 1 .. i \in SUBSET (1 .. n) /\ 1 .. i # {} /\ (1 .. i) \ {i} = 1 .. (i - 1)
    BY <1>1, MaxOfInterval
  <2>2. h[1 .. i] = Step(h[(1 .. i) \ {Max(1 .. i)}], Max(1 .. i))
    <3> HIDE DEF b, Step, n
    <3> QED
      BY <1>6, <2>1
  <2>3. h[1 .. i] = Step(h[1 .. (i - 1)], i)
    BY <2>1, <2>2
  <2>4. i \in 0 .. n /\ i - 1 \in 0 .. n
    BY <1>1
  <2> QED
    BY <2>3, <2>4
<1>10. f[n] = end
  BY <1>1
<1> HIDE DEF f
<1>11. IsCompletion(f, image, tree, residual)
  <2>1. \A k \in 1 .. image.checks + 1 :
          f[k] = TreeStep(image, tree, f[k - 1], tree.order[n - k + 1])
    BY <1>9
  <2> QED
    BY <2>1, <1>8 DEF IsCompletion
<1> HIDE DEF end
<1> QED
  BY <1>7, <1>10, <1>11

\* What a node that is not a root hangs by: a neutral fault that flips the node and
\* its parent, as far as they are checks, and none of whose parities is odd.
LEMMA HangingLink ==
  ASSUME NEW image, IsImage(image), NEW tree, IsTree(image, tree), NEW D,
         Boundary(image) \notin D, NEW k \in 1 .. image.checks + 1,
         ~IsRoot(tree, tree.order[k])
  PROVE  LET n == tree.order[k]
             v == tree.link[n]
         IN  /\ v \in image.neutral /\ v \in FaultsOf(image)
             /\ SyndromeOf(image, {v}) = {n, tree.parent[n]} \cap ChecksOf(image)
             /\ ParityVector(D, tree, image.columns[v]) = {}
             /\ ParityVector(D, tree, {n, tree.parent[n]} \cap ChecksOf(image)) = {}
<1> DEFINE n == tree.order[k]
           v == tree.link[n]
           m == tree.parent[n]
<1>1. v \in KeptLinks(image) /\ Ends(image, v) = {n, m} /\ n # m
      /\ tree.root[n] = tree.root[m] /\ n \in Nodes(image) /\ m \in Nodes(image)
  BY NodeFacts
<1>2. v \in image.neutral /\ v \in FaultsOf(image) /\ image.columns[v] = {n, m} \ {Boundary(image)}
  BY <1>1, LinkEnds
<1>3. {n, m} \ {Boundary(image)} = {n, m} \cap ChecksOf(image)
  BY <1>1, ImageFacts
<1>4. SyndromeOf(image, {v}) = {n, m} \cap ChecksOf(image)
  BY <1>2, <1>3, SyndromeOfOne
<1>5. ParityVector(D, tree, {n, m} \ {Boundary(image)}) = {}
  BY <1>1, LinkIsEven
<1> HIDE DEF n, v, m
<1>6. ParityVector(D, tree, image.columns[v]) = {} /\ ParityVector(D, tree, {n, m} \cap ChecksOf(image)) = {}
  BY <1>2, <1>3, <1>5
<1> QED
  BY <1>2, <1>4, <1>6 DEF n, v, m

\* When the positions after q are done: the flips are links of the nodes done, the
\* checks that miss are what the flips leave of the residual, no node done misses
\* but roots, the walk is stuck when a root other than the boundary does, and the
\* parities of the residual are as they were.
Settled(image, tree, D, residual, s, q) ==
  /\ s \in TreeState(image)
  /\ \A v \in s.flips : \E j \in 1 .. image.checks + 1 :
       j > q /\ ~IsRoot(tree, tree.order[j]) /\ v = tree.link[tree.order[j]]
  /\ s.missing \cap ChecksOf(image) = SymDiff(residual, SyndromeOf(image, s.flips))
  /\ \A j \in 1 .. image.checks + 1 :
       j > q /\ ~IsRoot(tree, tree.order[j]) => tree.order[j] \notin s.missing
  /\ s.stuck <=> \E j \in 1 .. image.checks + 1 :
                   /\ j > q /\ IsRoot(tree, tree.order[j])
                   /\ tree.order[j] # Boundary(image) /\ tree.order[j] \in s.missing
  /\ ParityVector(D, tree, s.missing \cap ChecksOf(image)) = ParityVector(D, tree, residual)

\* The flips of a settled state are finitely many neutral faults of even parity.
LEMMA SettledFlips ==
  ASSUME NEW image, IsImage(image), NEW tree, IsTree(image, tree), NEW D,
         Boundary(image) \notin D, NEW residual, NEW s, NEW q,
         Settled(image, tree, D, residual, s, q)
  PROVE  /\ s.flips \in SUBSET image.neutral /\ IsFiniteSet(s.flips)
         /\ \A v \in s.flips : ParityVector(D, tree, image.columns[v]) = {}
<1>1. ASSUME NEW v \in s.flips
      PROVE  v \in image.neutral /\ ParityVector(D, tree, image.columns[v]) = {}
  <2>1. PICK j \in 1 .. image.checks + 1 : ~IsRoot(tree, tree.order[j]) /\ v = tree.link[tree.order[j]]
    BY DEF Settled
  <2> QED
    BY <2>1, HangingLink
<1>2. IsFiniteSet(image.neutral)
  BY ImageFacts
<1>3. s.flips \in SUBSET image.neutral
  BY <1>1
<1> QED
  BY <1>1, <1>2, <1>3, FS_Subset

LEMMA TreeStepSettles ==
  ASSUME NEW image, IsImage(image), NEW tree, IsTree(image, tree), NEW D,
         Boundary(image) \notin D, NEW residual \in SUBSET ChecksOf(image), NEW s,
         NEW p \in 1 .. image.checks + 1, Settled(image, tree, D, residual, s, p)
  PROVE  Settled(image, tree, D, residual, TreeStep(image, tree, s, tree.order[p]), p - 1)
<1> DEFINE n == tree.order[p]
           m == tree.parent[n]
           v == tree.link[n]
           u == TreeStep(image, tree, s, n)
           N == image.checks + 1
<1> SUFFICES Settled(image, tree, D, residual, u, p - 1)
  OBVIOUS
<1>0. N \in Nat /\ p \in Nat /\ \A j \in 1 .. N : j > p - 1 <=> j > p \/ j = p
  BY DEF IsImage
<1>1. s \in TreeState(image) /\ u \in TreeState(image)
  BY TreeStepType DEF Settled
<1>2. CASE n \notin s.missing
  <2>1. u = s
    BY <1>2 DEF TreeStep
  <2> HIDE DEF u, N
  <2>2. \A w \in u.flips : \E j \in 1 .. N :
          j > p - 1 /\ ~IsRoot(tree, tree.order[j]) /\ w = tree.link[tree.order[j]]
    BY <2>1, <1>0 DEF Settled, N
  <2>3. \A j \in 1 .. N : j > p - 1 /\ ~IsRoot(tree, tree.order[j]) => tree.order[j] \notin u.missing
    BY <2>1, <1>0, <1>2 DEF Settled, N
  <2>4. u.stuck <=> \E j \in 1 .. N : /\ j > p - 1 /\ IsRoot(tree, tree.order[j])
                                      /\ tree.order[j] # Boundary(image) /\ tree.order[j] \in u.missing
    BY <2>1, <1>0, <1>2 DEF Settled, N
  <2> QED
    BY <1>1, <2>1, <2>2, <2>3, <2>4 DEF Settled, N
<1>3. CASE n \in s.missing /\ IsRoot(tree, n)
  <2>1. u.missing = s.missing /\ u.flips = s.flips /\ (u.stuck <=> s.stuck \/ n # Boundary(image))
    <3>1. u = [s EXCEPT !.stuck = @ \/ n # Boundary(image)]
      BY <1>3 DEF TreeStep, IsRoot
    <3> QED
      BY <3>1, <1>1 DEF TreeState
  <2> HIDE DEF u, N
  <2>2. \A w \in u.flips : \E j \in 1 .. N :
          j > p - 1 /\ ~IsRoot(tree, tree.order[j]) /\ w = tree.link[tree.order[j]]
    BY <2>1, <1>0 DEF Settled, N
  <2>3. \A j \in 1 .. N : j > p - 1 /\ ~IsRoot(tree, tree.order[j]) => tree.order[j] \notin u.missing
    BY <2>1, <1>0, <1>3 DEF Settled, N
  <2>4. u.stuck <=> \E j \in 1 .. N : /\ j > p - 1 /\ IsRoot(tree, tree.order[j])
                                      /\ tree.order[j] # Boundary(image) /\ tree.order[j] \in u.missing
    BY <2>1, <1>0, <1>3 DEF Settled, N
  <2> QED
    BY <1>1, <2>1, <2>2, <2>3, <2>4 DEF Settled, N
<1>4. CASE n \in s.missing /\ ~IsRoot(tree, n)
  <2>1. u.missing = SymDiff(s.missing, {n, m}) /\ u.flips = s.flips \cup {v} /\ u.stuck = s.stuck
    <3>1. u = [s EXCEPT !.missing = SymDiff(s.missing, {n, m}), !.flips = s.flips \cup {v}]
      BY <1>4 DEF TreeStep, IsRoot
    <3> QED
      BY <3>1, <1>1 DEF TreeState
  <2>2. PICK i \in 1 .. p - 1 : m = tree.order[i] /\ m # n
    BY <1>4, NodeFacts
  <2>3. \A j \in 1 .. N : j > p => tree.order[j] # n /\ tree.order[j] # m
    BY <1>0, <2>2 DEF IsTree
  <2>4. /\ v \in image.neutral
        /\ SyndromeOf(image, {v}) = {n, m} \cap ChecksOf(image)
        /\ ParityVector(D, tree, {n, m} \cap ChecksOf(image)) = {}
    BY <1>4, HangingLink
  <2>5. v \notin s.flips
    BY <1>4, LinksDiffer DEF Settled
  <2>6. s.flips \in SUBSET image.neutral /\ IsFiniteSet(s.flips)
    BY SettledFlips
  <2>7. \A w \in u.flips : \E j \in 1 .. N :
          j > p - 1 /\ ~IsRoot(tree, tree.order[j]) /\ w = tree.link[tree.order[j]]
    BY <2>1, <1>0, <1>4 DEF Settled
  <2>8. u.missing \cap ChecksOf(image) = SymDiff(s.missing \cap ChecksOf(image), {n, m} \cap ChecksOf(image))
    BY <2>1 DEF SymDiff
  <2>9. u.missing \cap ChecksOf(image) = SymDiff(residual, SyndromeOf(image, u.flips))
    <3> DEFINE A == s.missing \cap ChecksOf(image)
               B == {n, m} \cap ChecksOf(image)
               S == SyndromeOf(image, s.flips)
    <3>1. u.flips = SymDiff(s.flips, {v})
      BY <2>1, <2>5 DEF SymDiff
    <3>2. IsFiniteSet({v})
      BY FS_Singleton
    <3>3. A = SymDiff(residual, S) /\ u.missing \cap ChecksOf(image) = SymDiff(A, B)
      BY <2>8 DEF Settled
    <3>4. SyndromeOf(image, {v}) = B
      BY <2>4
    <3> HIDE DEF u, n, m, v, A, B
    <3>5. SyndromeOf(image, u.flips) = SymDiff(S, B)
      BY <3>1, <3>2, <3>4, <2>6, SyndromeLinear
    <3> HIDE DEF S
    <3>6. SymDiff(SymDiff(residual, S), B) = SymDiff(residual, SymDiff(S, B))
      BY SymDiffLaws
    <3> QED
      BY <3>3, <3>5, <3>6
  <2>10. \A j \in 1 .. N : j > p - 1 /\ ~IsRoot(tree, tree.order[j]) => tree.order[j] \notin u.missing
    <3>1. n \notin u.missing
      BY <2>1, <1>4 DEF SymDiff
    <3>2. \A j \in 1 .. N : j > p => (tree.order[j] \in u.missing <=> tree.order[j] \in s.missing)
      BY <2>1, <2>3 DEF SymDiff
    <3> HIDE DEF u
    <3> QED
      BY <3>1, <3>2, <1>0 DEF Settled
  <2>11. u.stuck <=> \E j \in 1 .. N : /\ j > p - 1 /\ IsRoot(tree, tree.order[j])
                                       /\ tree.order[j] # Boundary(image) /\ tree.order[j] \in u.missing
    <3>1. \A j \in 1 .. N : j > p => (tree.order[j] \in u.missing <=> tree.order[j] \in s.missing)
      BY <2>1, <2>3 DEF SymDiff
    <3> HIDE DEF u
    <3> QED
      BY <3>1, <2>1, <1>0, <1>4 DEF Settled
  <2>12. ParityVector(D, tree, u.missing \cap ChecksOf(image)) = ParityVector(D, tree, residual)
    <3> DEFINE A == s.missing \cap ChecksOf(image)
               B == {n, m} \cap ChecksOf(image)
    <3>1. IsFiniteSet(A) /\ IsFiniteSet(B)
      <4>1. A \subseteq ChecksOf(image) /\ B \subseteq ChecksOf(image)
        OBVIOUS
      <4> QED
        BY <4>1, ImageFacts, FS_Subset
    <3>2. u.missing \cap ChecksOf(image) = SymDiff(A, B)
      BY <2>8
    <3>3. ParityVector(D, tree, A) = ParityVector(D, tree, residual) /\ ParityVector(D, tree, B) = {}
      BY <2>4 DEF Settled
    <3> HIDE DEF A, B, u
    <3>4. ParityVector(D, tree, SymDiff(A, B)) = SymDiff(ParityVector(D, tree, residual), {})
      BY <3>1, <3>3, ParityLinear
    <3> QED
      BY <3>2, <3>4, SymDiffLaws
  <2> HIDE DEF u, n, m, v
  <2> QED
    BY <1>1, <2>7, <2>9, <2>10, <2>11, <2>12 DEF Settled
<1> QED
  BY <1>2, <1>3, <1>4

\* When every position is done, the checks that miss are the roots of the detached
\* components with an odd number of the residual's checks.
LEMMA SettledRoots ==
  ASSUME NEW image, IsImage(image), NEW tree, IsTree(image, tree),
         NEW residual \in SUBSET ChecksOf(image), NEW s,
         Settled(image, tree, Detached(image, tree), residual, s, 0)
  PROVE  /\ s.missing \cap ChecksOf(image) = ParityVector(Detached(image, tree), tree, residual)
         /\ s.stuck <=> s.missing \cap ChecksOf(image) # {}
<1> DEFINE D == Detached(image, tree)
           M == s.missing \cap ChecksOf(image)
<1>1. \A c \in Nodes(image) : \E j \in 1 .. image.checks + 1 : j > 0 /\ tree.order[j] = c
  BY DEF IsTree, IsImage
<1>2. \A c \in M : IsRoot(tree, c) /\ tree.root[c] = c /\ c \in D
  <2> TAKE c \in M
  <2>1. c \in Nodes(image) /\ c \in ChecksOf(image) /\ c # Boundary(image)
    BY ImageFacts
  <2>2. PICK j \in 1 .. image.checks + 1 : j > 0 /\ tree.order[j] = c
    BY <1>1, <2>1
  <2>3. IsRoot(tree, c)
    BY <2>2 DEF Settled
  <2>4. tree.root[c] = c
    BY <2>2, <2>3, NodeFacts
  <2> QED
    BY <2>1, <2>3, <2>4 DEF Detached
<1>3. ASSUME NEW r \in D PROVE Odd({c \in M : tree.root[c] = r}) <=> r \in M
  <2>1. CASE r \in M
    <3>1. {c \in M : tree.root[c] = r} = {r}
      BY <1>2, <2>1
    <3> QED
      BY <3>1, <2>1, OddSmall
  <2>2. CASE r \notin M
    <3>1. {c \in M : tree.root[c] = r} = {}
      BY <1>2, <2>2
    <3> QED
      BY <3>1, <2>2, OddSmall
  <2> QED
    BY <2>1, <2>2
<1>4. ParityVector(D, tree, M) = M
  <2> HIDE DEF D, M
  <2> QED
    BY <1>2, <1>3 DEF ParityVector
<1>5. ParityVector(D, tree, M) = ParityVector(D, tree, residual)
  BY DEF Settled
<1>6. s.stuck <=> M # {}
  <2>1. ASSUME s.stuck PROVE M # {}
    <3>1. PICK j \in 1 .. image.checks + 1 : tree.order[j] # Boundary(image) /\ tree.order[j] \in s.missing
      BY <2>1 DEF Settled
    <3>2. tree.order[j] \in Nodes(image)
      BY NodeFacts
    <3> QED
      BY <3>1, <3>2, ImageFacts
  <2>2. ASSUME NEW c \in M PROVE s.stuck
    <3>1. c \in Nodes(image) /\ c # Boundary(image) /\ IsRoot(tree, c)
      BY <1>2, ImageFacts
    <3>2. PICK j \in 1 .. image.checks + 1 : j > 0 /\ tree.order[j] = c
      BY <1>1, <3>1
    <3> QED
      BY <3>1, <3>2 DEF Settled
  <2>3. s.stuck \in BOOLEAN
    BY DEF Settled, TreeState
  <2> QED
    BY <2>1, <2>2, <2>3
<1> QED
  BY <1>4, <1>5, <1>6

\* What a completion promises: it is stuck when some detached component has an odd
\* number of the residual's checks, and otherwise it explains the residual by neutral
\* faults of even parity.
TreeExplains(image, tree, D, residual, done) ==
  /\ done.stuck \in BOOLEAN
  /\ done.stuck <=> ParityVector(D, tree, residual) # {}
  /\ ~done.stuck => /\ done.flips \in SUBSET image.neutral
                    /\ SyndromeOf(image, done.flips) = residual
                    /\ \A v \in done.flips : ParityVector(D, tree, image.columns[v]) = {}

LEMMA TreeCompletionExact ==
  ASSUME NEW image, IsImage(image), NEW forest, IsTree(image, forest.tree),
         NEW residual \in SUBSET ChecksOf(image)
  PROVE  TreeExplains(image, forest.tree, Detached(image, forest.tree), residual,
                      TreeCompletion(image, forest, residual))
<1> DEFINE tree == forest.tree
           D == Detached(image, tree)
           N == image.checks + 1
           done == TreeCompletion(image, forest, residual)
<1>0. N \in Nat /\ Boundary(image) \notin D /\ residual \in SUBSET Nodes(image)
  <2>1. ChecksOf(image) \subseteq Nodes(image)
    BY ImageFacts
  <2> QED
    BY <2>1 DEF IsImage, Detached
<1>1. PICK f : /\ IsCompletion(f, image, tree, residual)
               /\ done = IF f[N].stuck THEN Stuck ELSE Flip(f[N].flips)
  BY <1>0, CompletionByPosition
<1> DEFINE S == {k \in 0 .. N : Settled(image, tree, D, residual, f[k], N - k)}
<1>2. 0 \in S
  <2>1. f[0].missing = residual /\ f[0].flips = {} /\ f[0].stuck = FALSE /\ f[0] \in TreeState(image)
    BY <1>0, <1>1 DEF IsCompletion, TreeState
  <2>2. f[0].missing \cap ChecksOf(image) = residual
    BY <2>1
  <2>3. SymDiff(residual, SyndromeOf(image, f[0].flips)) = residual
    BY <2>1, SyndromeType, SymDiffLaws
  <2>4. \A j \in 1 .. N : ~(j > N)
    BY <1>0
  <2>5. Settled(image, tree, D, residual, f[0], N)
    <3> HIDE DEF D, tree
    <3> QED
      BY <2>1, <2>2, <2>3, <2>4 DEF Settled
  <2> QED
    BY <1>0, <2>5
<1>3. \A k \in 1 .. N : k - 1 \in S => k \in S
  <2> SUFFICES ASSUME NEW k \in 1 .. N, k - 1 \in S PROVE k \in S
    OBVIOUS
  <2>1. N - k + 1 \in 1 .. N /\ N - (k - 1) = N - k + 1 /\ (N - k + 1) - 1 = N - k
    BY <1>0
  <2>2. Settled(image, tree, D, residual, f[k - 1], N - k + 1)
    BY <2>1
  <2>3. f[k] = TreeStep(image, tree, f[k - 1], tree.order[N - k + 1])
    BY <1>1 DEF IsCompletion
  <2>4. Settled(image, tree, D, residual, f[k], (N - k + 1) - 1)
    <3> DEFINE p == N - k + 1
    <3>1. p \in 1 .. image.checks + 1
      BY <2>1
    <3> HIDE DEF p, D
    <3> QED
      BY <3>1, <2>2, <2>3, <1>0, TreeStepSettles DEF p
  <2> QED
    BY <2>1, <2>4
<1>4. N \in S
  <2> HIDE DEF S, N
  <2> QED
    BY <1>0, <1>2, <1>3, IntervalInduction
<1> DEFINE s == f[N]
<1>5. Settled(image, tree, D, residual, s, 0)
  BY <1>0, <1>4
<1> HIDE DEF s
<1>6. s.stuck \in BOOLEAN /\ (s.stuck <=> ParityVector(D, tree, residual) # {})
  <2>1. s.stuck <=> ParityVector(D, tree, residual) # {}
    BY <1>5, SettledRoots
  <2>2. s.stuck \in BOOLEAN
    BY <1>5 DEF Settled, TreeState
  <2> QED
    BY <2>1, <2>2
<1>7. CASE s.stuck
  <2>1. done = Stuck
    BY <1>1, <1>7 DEF s
  <2> HIDE DEF done, D, tree
  <2> QED
    BY <2>1, <1>6, <1>7 DEF TreeExplains, Stuck, done, D, tree
<1>8. CASE ~s.stuck
  <2>1. done = Flip(s.flips)
    BY <1>1, <1>8 DEF s
  <2>2. s.missing \cap ChecksOf(image) = {}
    BY <1>5, <1>8, SettledRoots
  <2>3. SyndromeOf(image, s.flips) = residual
    <3>1. SymDiff(residual, SyndromeOf(image, s.flips)) = {}
      BY <1>5, <2>2 DEF Settled
    <3> QED
      BY <3>1, SymDiffLaws
  <2>4. s.flips \in SUBSET image.neutral
        /\ \A v \in s.flips : ParityVector(D, tree, image.columns[v]) = {}
    BY <1>0, <1>5, SettledFlips
  <2>5. done.stuck = FALSE /\ done.flips = s.flips
    BY <2>1 DEF Flip
  <2> HIDE DEF done, D, tree
  <2>6. TreeExplains(image, tree, D, residual, done)
    BY <2>3, <2>4, <2>5, <1>6, <1>8 DEF TreeExplains
  <2> QED
    BY <2>6 DEF done, D, tree
<1> QED
  BY <1>6, <1>7, <1>8

-----------------------------------------------------------------------------
(* The pivots of the bridge.                                               *)

\* A nonempty set of checks has a greatest member.
LEMMA GreatestCheck ==
  ASSUME NEW image, IsImage(image), NEW S \in SUBSET ChecksOf(image), S # {}
  PROVE  Max(S) \in S /\ \A x \in S : x <= Max(S)
<1> DEFINE T == {x + 1 : x \in S}
<1>1. image.checks \in Nat /\ S \subseteq 0 .. image.checks - 1
  BY DEF IsImage, ChecksOf
<1>2. T \in SUBSET (1 .. image.checks) /\ T # {}
  BY <1>1
<1>3. PICK t \in T : \A x \in T : t >= x
  <2> HIDE DEF T
  <2> QED
    BY <1>1, <1>2, GreatestElement
<1>4. PICK m \in S : t = m + 1
  BY <1>3
<1>5. \A x \in S : x <= m
  <2> TAKE x \in S
  <2>1. x + 1 \in T /\ x \in Int /\ m \in Int
    BY <1>1, <1>2
  <2>2. m + 1 >= x + 1
    BY <1>3, <1>4, <2>1
  <2> QED
    BY <2>1, <2>2
<1>6. \E y \in S : \A x \in S : y >= x
  BY <1>1, <1>5
<1>7. Max(S) \in S /\ \A x \in S : Max(S) >= x
  BY <1>6 DEF Max
<1> QED
  BY <1>1, <1>7

\* The parity vector of a set of flips.
Parity(image, tree, D, F) == ParityVector(D, tree, SyndromeOf(image, F))

\* The neutral faults that change some parity.
OddFaults(image, tree, D) ==
  {v \in image.neutral : ParityVector(D, tree, image.columns[v]) # {}}

LEMMA FaultSetsFinite ==
  ASSUME NEW image, IsImage(image), NEW tree, NEW D
  PROVE  \A F \in SUBSET OddFaults(image, tree, D) :
           IsFiniteSet(F) /\ F \subseteq image.neutral /\ F \subseteq FaultsOf(image)
<1> TAKE F \in SUBSET OddFaults(image, tree, D)
<1>1. F \subseteq image.neutral /\ IsFiniteSet(image.neutral)
  BY ImageFacts DEF OddFaults
<1>2. F \subseteq FaultsOf(image)
  BY <1>1 DEF IsImage
<1> QED
  BY <1>1, <1>2, FS_Subset

\* The parity of flips that are added is the sum of their parities.
LEMMA ParityAdds ==
  ASSUME NEW image, IsImage(image), NEW tree, NEW D, NEW A, NEW B,
         IsFiniteSet(A), IsFiniteSet(B)
  PROVE  Parity(image, tree, D, SymDiff(A, B))
           = SymDiff(Parity(image, tree, D, A), Parity(image, tree, D, B))
<1> DEFINE SA == SyndromeOf(image, A)
           SB == SyndromeOf(image, B)
<1>1. SyndromeOf(image, SymDiff(A, B)) = SymDiff(SA, SB)
  BY SyndromeLinear
<1>2. IsFiniteSet(SA) /\ IsFiniteSet(SB)
  BY SyndromeType, ImageFacts, FS_Subset
<1>3. ParityVector(D, tree, SymDiff(SA, SB)) = SymDiff(ParityVector(D, tree, SA), ParityVector(D, tree, SB))
  <2> HIDE DEF SA, SB
  <2> QED
    BY <1>2, ParityLinear
<1> QED
  BY <1>1, <1>3 DEF Parity

\* A table of pivots: each has a vector of its own with the pivot on top, which is
\* the parity of the faults it records.
PivotTables(image, tree, D) ==
  UNION {[Q -> [vector : SUBSET D, faults : SUBSET OddFaults(image, tree, D)]] : Q \in SUBSET D}

IsPivots(image, tree, D, P) ==
  /\ P \in PivotTables(image, tree, D)
  /\ \A p \in DOMAIN P : /\ p \in P[p].vector /\ \A q \in P[p].vector : q <= p
                         /\ P[p].vector = Parity(image, tree, D, P[p].faults)

LEMMA PivotFacts ==
  ASSUME NEW image, NEW tree, NEW D, NEW P, P \in PivotTables(image, tree, D)
  PROVE  /\ DOMAIN P \in SUBSET D
         /\ \A p \in DOMAIN P : /\ P[p] \in [vector : SUBSET D, faults : SUBSET OddFaults(image, tree, D)]
                                /\ P[p].vector \in SUBSET D
                                /\ P[p].faults \in SUBSET OddFaults(image, tree, D)
<1>1. PICK Q \in SUBSET D : P \in [Q -> [vector : SUBSET D, faults : SUBSET OddFaults(image, tree, D)]]
  BY DEF PivotTables
<1>2. DOMAIN P = Q /\ \A p \in Q : P[p] \in [vector : SUBSET D, faults : SUBSET OddFaults(image, tree, D)]
  BY <1>1
<1> QED
  BY <1>2

\* What the pivots span: the sums of their vectors.
Vectors(P) == [p \in DOMAIN P |-> P[p].vector]
PivotSpan(D, P) == {SumOf(Vectors(P), Q, D) : Q \in SUBSET DOMAIN P}

\* The span is a vector space that holds every pivot's vector, and the greatest member
\* of a vector in it is a pivot.
LEMMA SpanLaws ==
  ASSUME NEW image, IsImage(image), NEW tree, NEW D \in SUBSET ChecksOf(image),
         NEW P, IsPivots(image, tree, D, P)
  PROVE  /\ {} \in PivotSpan(D, P)
         /\ \A A, B \in PivotSpan(D, P) : SymDiff(A, B) \in PivotSpan(D, P)
         /\ \A p \in DOMAIN P : P[p].vector \in PivotSpan(D, P)
         /\ \A X \in PivotSpan(D, P) : X # {} => Max(X) \in DOMAIN P
<1>0. /\ DOMAIN P \in SUBSET D /\ DOMAIN P \in SUBSET ChecksOf(image) /\ IsFiniteSet(DOMAIN P)
      /\ \A p \in DOMAIN P : P[p].vector \in SUBSET D
  <2>1. DOMAIN P \in SUBSET D /\ \A p \in DOMAIN P : P[p].vector \in SUBSET D
    BY PivotFacts DEF IsPivots
  <2> QED
    BY <2>1, ImageFacts, FS_Subset
<1>1. {} \in PivotSpan(D, P)
  <2>1. SumOf(Vectors(P), {}, D) = {} /\ {} \in SUBSET DOMAIN P
    BY SumOfNone
  <2> QED
    BY <2>1 DEF PivotSpan
<1>2. ASSUME NEW A \in PivotSpan(D, P), NEW B \in PivotSpan(D, P) PROVE SymDiff(A, B) \in PivotSpan(D, P)
  <2>1. PICK Q \in SUBSET DOMAIN P : A = SumOf(Vectors(P), Q, D)
    BY DEF PivotSpan
  <2>2. PICK R \in SUBSET DOMAIN P : B = SumOf(Vectors(P), R, D)
    BY DEF PivotSpan
  <2>3. IsFiniteSet(Q) /\ IsFiniteSet(R) /\ SymDiff(Q, R) \in SUBSET DOMAIN P
    BY <1>0, FS_Subset DEF SymDiff
  <2>4. SymDiff(A, B) = SumOf(Vectors(P), SymDiff(Q, R), D)
    BY <2>1, <2>2, <2>3, SumLinear
  <2> QED
    BY <2>3, <2>4 DEF PivotSpan
<1>3. ASSUME NEW p \in DOMAIN P PROVE P[p].vector \in PivotSpan(D, P)
  <2>1. SumOf(Vectors(P), {p}, D) = D \cap Vectors(P)[p]
    BY SumOfOne
  <2>2. Vectors(P)[p] = P[p].vector /\ D \cap P[p].vector = P[p].vector
    BY <1>0 DEF Vectors
  <2> QED
    BY <2>1, <2>2 DEF PivotSpan
<1>4. ASSUME NEW X \in PivotSpan(D, P), X # {} PROVE Max(X) \in DOMAIN P
  <2>1. PICK Q \in SUBSET DOMAIN P : X = SumOf(Vectors(P), Q, D)
    BY DEF PivotSpan
  <2>2. Q # {}
    BY <1>4, <2>1, SumOfNone
  <2> DEFINE g == Max(Q)
             m == Max(X)
  <2>3. Q \in SUBSET ChecksOf(image) /\ X \in SUBSET ChecksOf(image)
    BY <1>0, <2>1 DEF SumOf
  <2>4. g \in Q /\ \A q \in Q : q <= g
    BY <2>2, <2>3, GreatestCheck
  <2>5. m \in X /\ \A x \in X : x <= m
    BY <1>4, <2>3, GreatestCheck
  <2>6. g \in Nat /\ m \in Nat /\ Q \subseteq Nat
    BY <2>3, <2>4, <2>5, ImageFacts
  <2> HIDE DEF g, m
  <2>7. \A q \in Q : Vectors(P)[q] = P[q].vector
    BY DEF Vectors
  <2>8. g \in X
    <3>1. \A q \in Q : g \in P[q].vector <=> q = g
      <4> TAKE q \in Q
      <4>1. g \in P[q].vector => g <= q
        BY DEF IsPivots
      <4>2. g \in P[g].vector
        BY <2>4 DEF IsPivots
      <4>3. q <= g /\ q \in Nat
        BY <2>4, <2>6
      <4> QED
        BY <4>1, <4>2, <4>3, <2>6
    <3>2. {q \in Q : g \in Vectors(P)[q]} = {g}
      BY <2>4, <2>7, <3>1
    <3>3. Odd({q \in Q : g \in Vectors(P)[q]}) /\ g \in D
      BY <1>0, <2>4, <3>2, OddSmall
    <3> QED
      BY <2>1, <3>3 DEF SumOf
  <2>9. m <= g
    <3>1. Odd({q \in Q : m \in Vectors(P)[q]})
      BY <2>1, <2>5 DEF SumOf
    <3>2. {q \in Q : m \in Vectors(P)[q]} # {}
      BY <3>1, OddSmall
    <3>3. PICK q \in Q : m \in P[q].vector
      BY <2>7, <3>2
    <3>4. m <= q /\ q <= g /\ q \in Nat
      BY <2>4, <2>6, <3>3 DEF IsPivots
    <3> QED
      BY <2>6, <3>4
  <2>10. m = g
    BY <2>5, <2>6, <2>8, <2>9
  <2> QED
    BY <2>4, <2>10 DEF m
<1> QED
  BY <1>1, <1>2, <1>3, <1>4

\* A sum is zero on each side of what it is a sum of: a vector is in the span when it
\* and a vector of the span add up to one of the span.
LEMMA SpanTransfers ==
  ASSUME NEW image, IsImage(image), NEW tree, NEW D \in SUBSET ChecksOf(image),
         NEW P, IsPivots(image, tree, D, P), NEW A, NEW B, SymDiff(A, B) \in PivotSpan(D, P)
  PROVE  A \in PivotSpan(D, P) <=> B \in PivotSpan(D, P)
<1> DEFINE C == SymDiff(A, B)
<1>1. A = SymDiff(C, B) /\ B = SymDiff(C, A)
  BY DEF SymDiff
<1> HIDE DEF C
<1>2. \A X, Y \in PivotSpan(D, P) : SymDiff(X, Y) \in PivotSpan(D, P)
  BY SpanLaws
<1>3. C \in PivotSpan(D, P)
  BY DEF C
<1> QED
  BY <1>1, <1>2, <1>3

\* What a reduction of the vector X from the faults F has come to: what it took off is
\* in the span, and is the parity of the faults it added.
Combined(image, tree, D, P, X, F, vector, faults) ==
  /\ vector \in SUBSET D
  /\ SymDiff(F, faults) \in SUBSET OddFaults(image, tree, D)
  /\ SymDiff(X, vector) \in PivotSpan(D, P)
  /\ Parity(image, tree, D, SymDiff(F, faults)) = SymDiff(X, vector)

LEMMA CombinedStarts ==
  ASSUME NEW image, IsImage(image), NEW tree, NEW D \in SUBSET ChecksOf(image),
         NEW P, IsPivots(image, tree, D, P), NEW X \in SUBSET D, NEW F
  PROVE  Combined(image, tree, D, P, X, F, X, F)
<1>1. SymDiff(F, F) = {} /\ SymDiff(X, X) = {}
  BY SymDiffLaws
<1>2. Parity(image, tree, D, {}) = {}
  BY SyndromeType, ParityType DEF Parity
<1>3. {} \in PivotSpan(D, P)
  BY SpanLaws
<1> QED
  BY <1>1, <1>2, <1>3 DEF Combined

LEMMA CombinedStep ==
  ASSUME NEW image, IsImage(image), NEW tree, NEW D \in SUBSET ChecksOf(image),
         NEW P, IsPivots(image, tree, D, P), NEW X, NEW F, NEW vector, NEW faults,
         Combined(image, tree, D, P, X, F, vector, faults), NEW p \in DOMAIN P
  PROVE  Combined(image, tree, D, P, X, F,
                  SymDiff(vector, P[p].vector), SymDiff(faults, P[p].faults))
<1> DEFINE w == P[p].vector
           G == P[p].faults
           A == SymDiff(F, faults)
           Y == SymDiff(X, vector)
<1>1. w \in SUBSET D /\ G \in SUBSET OddFaults(image, tree, D)
  BY PivotFacts DEF IsPivots
<1>2. w \in PivotSpan(D, P) /\ Parity(image, tree, D, G) = w
  BY SpanLaws DEF IsPivots
<1>3. A \in SUBSET OddFaults(image, tree, D) /\ Y \in PivotSpan(D, P) /\ Parity(image, tree, D, A) = Y
      /\ vector \in SUBSET D
  BY DEF Combined
<1>4. SymDiff(F, SymDiff(faults, G)) = SymDiff(A, G) /\ SymDiff(X, SymDiff(vector, w)) = SymDiff(Y, w)
  BY SymDiffLaws
<1> HIDE DEF A, Y, w, G
<1>5. SymDiff(A, G) \in SUBSET OddFaults(image, tree, D) /\ SymDiff(vector, w) \in SUBSET D
  BY <1>1, <1>3 DEF SymDiff
<1>6. SymDiff(Y, w) \in PivotSpan(D, P)
  BY <1>2, <1>3, SpanLaws
<1>7. Parity(image, tree, D, SymDiff(A, G)) = SymDiff(Y, w)
  <2>1. IsFiniteSet(A) /\ IsFiniteSet(G)
    BY <1>1, <1>3, FaultSetsFinite
  <2> QED
    BY <2>1, <1>2, <1>3, ParityAdds
<1>8. Combined(image, tree, D, P, X, F, SymDiff(vector, w), SymDiff(faults, G))
  BY <1>4, <1>5, <1>6, <1>7 DEF Combined
<1> QED
  BY <1>8 DEF w, G

\* Adding a pivot's vector to one that the pivot tops leaves what is below the pivot.
LEMMA PivotCancels ==
  ASSUME NEW image, IsImage(image), NEW tree, NEW D \in SUBSET ChecksOf(image),
         NEW P, IsPivots(image, tree, D, P), NEW p \in DOMAIN P, NEW X \in SUBSET D, p \in X
  PROVE  /\ p \notin SymDiff(X, P[p].vector)
         /\ \A q \in D : q > p => (q \in SymDiff(X, P[p].vector) <=> q \in X)
<1>1. p \in P[p].vector /\ \A q \in P[p].vector : q <= p
  BY DEF IsPivots
<1>2. p \in Nat /\ D \subseteq Nat
  BY PivotFacts, ImageFacts DEF IsPivots
<1>3. \A q \in D : q > p => q \notin P[p].vector
  BY <1>1, <1>2
<1> QED
  BY <1>1, <1>3 DEF SymDiff

-----------------------------------------------------------------------------
(* Reduction by the pivots.                                                *)

IsReduction(f, image, P, start) ==
  /\ f[0] = start
  /\ \A k \in 1 .. image.checks : f[k] = ReduceAt(P, f[k - 1], image.checks - k)

ReduceStates(image, D) == [vector : SUBSET D, faults : SUBSET FaultsOf(image), held : BOOLEAN]

\* What a step of the reduction makes of s.
ReducedAt(P, s, u, p) ==
  /\ s.held \/ p \notin s.vector => u = s
  /\ ~s.held /\ p \in s.vector /\ p \notin DOMAIN P =>
       u.held /\ u.vector = s.vector /\ u.faults = s.faults
  /\ ~s.held /\ p \in s.vector /\ p \in DOMAIN P =>
       /\ ~u.held /\ u.vector = SymDiff(s.vector, P[p].vector)
       /\ u.faults = SymDiff(s.faults, P[p].faults)

LEMMA ReduceType ==
  ASSUME NEW image, IsImage(image), NEW tree, NEW D \in SUBSET ChecksOf(image),
         NEW P, IsPivots(image, tree, D, P), NEW s \in ReduceStates(image, D), NEW p
  PROVE  /\ ReduceAt(P, s, p) \in ReduceStates(image, D)
         /\ ReducedAt(P, s, ReduceAt(P, s, p), p)
<1>1. s.vector \in SUBSET D /\ s.faults \in SUBSET FaultsOf(image) /\ s.held \in BOOLEAN
  BY DEF ReduceStates
<1>2. CASE s.held \/ p \notin s.vector
  BY <1>2 DEF ReduceAt, ReducedAt
<1>3. CASE ~s.held /\ p \in s.vector /\ p \notin DOMAIN P
  <2>1. ReduceAt(P, s, p) = [s EXCEPT !.held = TRUE]
    BY <1>3 DEF ReduceAt
  <2> QED
    BY <2>1, <1>3 DEF ReduceStates, ReducedAt
<1>4. CASE ~s.held /\ p \in s.vector /\ p \in DOMAIN P
  <2> DEFINE vector == SymDiff(s.vector, P[p].vector)
             faults == SymDiff(s.faults, P[p].faults)
  <2>1. P[p].vector \in SUBSET D /\ P[p].faults \in SUBSET FaultsOf(image)
    <3>1. P[p].vector \in SUBSET D /\ P[p].faults \in SUBSET OddFaults(image, tree, D)
      BY <1>4, PivotFacts DEF IsPivots
    <3> QED
      BY <3>1, FaultSetsFinite
  <2>2. vector \in SUBSET D /\ faults \in SUBSET FaultsOf(image)
    BY <1>1, <2>1 DEF SymDiff
  <2>3. ReduceAt(P, s, p) = [s EXCEPT !.vector = vector, !.faults = faults]
    BY <1>4 DEF ReduceAt
  <2> HIDE DEF vector, faults
  <2>4. ReduceAt(P, s, p) \in ReduceStates(image, D) /\ ReduceAt(P, s, p).held = s.held
        /\ ReduceAt(P, s, p).vector = vector /\ ReduceAt(P, s, p).faults = faults
    BY <2>2, <2>3 DEF ReduceStates
  <2> QED
    BY <1>4, <2>4 DEF vector, faults, ReducedAt
<1> QED
  BY <1>2, <1>3, <1>4

LEMMA ReductionByPosition ==
  ASSUME NEW image, IsImage(image), NEW tree, NEW D \in SUBSET ChecksOf(image),
         NEW P, IsPivots(image, tree, D, P), NEW b \in ReduceStates(image, D)
  PROVE  \E f : IsReduction(f, image, P, b) /\ Reduced(image, P, b) = f[image.checks]
<1> DEFINE n == image.checks
           V == ReduceStates(image, D)
           Step(s, k) == ReduceAt(P, s, image.checks - k)
           step == [k \in 1 .. n |-> [s \in V |-> Step(s, k)]]
           Rec(h) == [S \in SUBSET (1 .. n) |-> IF S = {} THEN b ELSE Step(h[S \ {Max(S)}], Max(S))]
<1>1. n \in Nat
  BY DEF IsImage
<1>2. IsStep(step, V, n)
  <2>1. ASSUME NEW k \in 1 .. n, NEW s \in V PROVE Step(s, k) \in V
    BY ReduceType
  <2> HIDE DEF V, Step
  <2> QED
    BY <2>1 DEF IsStep
<1>3. b \in V
  OBVIOUS
<1>4. PICK g : IsFold(g, V, b, n, step)
  <2> HIDE DEF step, n, V
  <2> QED
    BY <1>1, <1>2, <1>3, FoldExists
<1>5. g = Rec(g)
  <2>1. g \in [SUBSET (1 .. n) -> V] /\ g[{}] = b
    BY <1>4 DEF IsFold
  <2>2. ASSUME NEW S \in SUBSET (1 .. n), S # {} PROVE g[S] = Step(g[S \ {Max(S)}], Max(S))
    <3>1. Max(S) \in 1 .. n /\ S \ {Max(S)} \in SUBSET (1 .. n)
      BY <1>1, <2>2, MaxOfPositions
    <3>2. g[S] = step[Max(S)][g[S \ {Max(S)}]]
      BY <1>4, <2>2 DEF IsFold
    <3> HIDE DEF V, Step, n
    <3> QED
      BY <3>1, <3>2, <2>1
  <2> HIDE DEF V, Step, n
  <2> QED
    BY <2>1, <2>2
<1> DEFINE h == CHOOSE k : k = Rec(k)
<1>6. h = Rec(h)
  BY <1>5
<1>7. Reduced(image, P, b) = h[1 .. n]
  <2>1. Descending(image) = [k \in 1 .. n |-> image.checks - k] /\ DOMAIN Descending(image) = 1 .. n
    BY DEF Descending
  <2>2. \A S \in SUBSET (1 .. n) : S # {} => Descending(image)[Max(S)] = image.checks - Max(S)
    BY <2>1, <1>1, MaxOfPositions
  <2> DEFINE Raw(k) == [S \in SUBSET (1 .. n) |->
                          IF S = {} THEN b
                          ELSE ReduceAt(P, k[S \ {Max(S)}], Descending(image)[Max(S)])]
  <2>3. \A k : Raw(k) = Rec(k)
    BY <2>2
  <2>4. Reduced(image, P, b) = (CHOOSE k : k = Raw(k))[1 .. n]
    BY <2>1 DEF Reduced, FoldLeft, MapThenFoldSet
  <2>5. (CHOOSE k : k = Raw(k)) = h
    <3> HIDE DEF Raw, Rec
    <3> QED
      BY <2>3
  <2> HIDE DEF h
  <2> QED
    BY <2>4, <2>5
<1> DEFINE f == [i \in 0 .. n |-> h[1 .. i]]
<1> HIDE DEF h
<1>8. f[0] = b
  <2>1. 1 .. 0 = {}
    OBVIOUS
  <2> HIDE DEF Step
  <2> QED
    BY <2>1, <1>6, <1>1
<1>9. ASSUME NEW i \in 1 .. n PROVE f[i] = Step(f[i - 1], i)
  <2>1. Max(1 .. i) = i /\ 1 .. i \in SUBSET (1 .. n) /\ 1 .. i # {} /\ (1 .. i) \ {i} = 1 .. (i - 1)
    BY <1>1, MaxOfInterval
  <2>2. h[1 .. i] = Step(h[(1 .. i) \ {Max(1 .. i)}], Max(1 .. i))
    <3> HIDE DEF Step, n
    <3> QED
      BY <1>6, <2>1
  <2>3. h[1 .. i] = Step(h[1 .. (i - 1)], i)
    BY <2>1, <2>2
  <2>4. i \in 0 .. n /\ i - 1 \in 0 .. n
    BY <1>1
  <2> QED
    BY <2>3, <2>4
<1>10. f[n] = Reduced(image, P, b)
  BY <1>1, <1>7
<1> HIDE DEF f
<1>11. IsReduction(f, image, P, b)
  BY <1>8, <1>9 DEF IsReduction
<1> QED
  BY <1>10, <1>11

\* The pivots at or above the k-th from the top are dealt with: nothing is left there,
\* or the reduction holds at a vector whose top has no pivot.
Reducing(image, D, P, s, k) ==
  /\ s \in ReduceStates(image, D)
  /\ ~s.held => \A q \in s.vector : q < image.checks - k
  /\ s.held => \E m \in s.vector : m \notin DOMAIN P /\ \A q \in s.vector : q <= m

LEMMA ReducingStep ==
  ASSUME NEW image, IsImage(image), NEW tree, NEW D \in SUBSET ChecksOf(image),
         NEW P, IsPivots(image, tree, D, P), NEW X, NEW F, NEW s,
         NEW k \in 1 .. image.checks, Reducing(image, D, P, s, k - 1),
         Combined(image, tree, D, P, X, F, s.vector, s.faults)
  PROVE  LET u == ReduceAt(P, s, image.checks - k)
         IN  Reducing(image, D, P, u, k) /\ Combined(image, tree, D, P, X, F, u.vector, u.faults)
<1> DEFINE p == image.checks - k
           u == ReduceAt(P, s, p)
<1> SUFFICES Reducing(image, D, P, u, k) /\ Combined(image, tree, D, P, X, F, u.vector, u.faults)
  OBVIOUS
<1>1. D \subseteq Nat /\ image.checks \in Nat
  BY DEF IsImage, ChecksOf
<1>2. s \in ReduceStates(image, D) /\ s.vector \in SUBSET D
  BY DEF Reducing, ReduceStates
<1>3. p \in Int /\ image.checks - (k - 1) = p + 1
  BY <1>1
<1>9. \A q \in D : q \in Int
  BY <1>1
<1>10. \A q \in s.vector : q \in D
  BY <1>2
<1> HIDE DEF p
<1>11. /\ s.held \/ p \notin s.vector => u = s
       /\ ~s.held /\ p \in s.vector /\ p \notin DOMAIN P =>
            u.held /\ u.vector = s.vector /\ u.faults = s.faults
       /\ ~s.held /\ p \in s.vector /\ p \in DOMAIN P =>
            /\ ~u.held /\ u.vector = SymDiff(s.vector, P[p].vector)
            /\ u.faults = SymDiff(s.faults, P[p].faults)
  <2>1. ReducedAt(P, s, u, p)
    BY <1>2, ReduceType
  <2> HIDE DEF u
  <2> QED
    BY <2>1 DEF ReducedAt
<1>4. u \in ReduceStates(image, D) /\ u.vector \in SUBSET D
  <2>1. u \in ReduceStates(image, D)
    BY <1>2, ReduceType
  <2> QED
    BY <2>1 DEF ReduceStates
<1>5. ~s.held => \A q \in s.vector : q <= p
  <2>1. ~s.held => \A q \in s.vector : q < p + 1
    BY <1>3 DEF Reducing
  <2>2. \A q \in s.vector : q \in Int
    BY <1>9, <1>10
  <2> QED
    BY <2>1, <2>2, <1>3
<1>6. CASE s.held \/ p \notin s.vector
  <2>1. u = s
    BY <1>6, <1>11
  <2>2. ~s.held => \A q \in s.vector : q < p
    <3>1. \A q \in s.vector : q \in Int
      BY <1>9, <1>10
    <3> QED
      BY <1>3, <1>5, <1>6, <3>1
  <2> HIDE DEF u
  <2> QED
    BY <1>2, <2>1, <2>2 DEF Reducing, p
<1>7. CASE ~s.held /\ p \in s.vector /\ p \notin DOMAIN P
  <2>1. u.held /\ u.vector = s.vector /\ u.faults = s.faults
    BY <1>7, <1>11
  <2> HIDE DEF u
  <2> QED
    BY <1>4, <1>5, <1>7, <2>1 DEF Reducing
<1>8. CASE ~s.held /\ p \in s.vector /\ p \in DOMAIN P
  <2>1. /\ ~u.held /\ u.vector = SymDiff(s.vector, P[p].vector)
        /\ u.faults = SymDiff(s.faults, P[p].faults)
    BY <1>8, <1>11
  <2> HIDE DEF u
  <2>2. Combined(image, tree, D, P, X, F, u.vector, u.faults)
    BY <1>8, <2>1, CombinedStep
  <2>3. p \notin u.vector /\ \A q \in D : q > p => (q \in u.vector <=> q \in s.vector)
    BY <1>2, <1>8, <2>1, PivotCancels
  <2>4. \A q \in u.vector : q < p
    <3> TAKE q \in u.vector
    <3>1. q \in D
      BY <1>4
    <3>4. q \in Int
      BY <1>9, <3>1
    <3>2. ~(q > p)
      BY <2>3, <3>1, <3>4, <1>5, <1>8, <1>3
    <3> QED
      BY <2>3, <3>4, <3>2, <1>3
  <2> QED
    BY <1>4, <2>1, <2>2, <2>4 DEF Reducing, p
<1> QED
  BY <1>6, <1>7, <1>8

\* r is what a reduction of X from F leaves.
IsResidue(image, tree, D, P, X, F, r) ==
  /\ Combined(image, tree, D, P, X, F, r.vector, r.faults)
  /\ r \in ReduceStates(image, D)
  /\ r.vector # {} => Max(r.vector) \in r.vector /\ Max(r.vector) \notin DOMAIN P
  /\ X \in PivotSpan(D, P) => r.vector = {}

\* A reduction of X from F ends in zero if X is in the span, and otherwise in a vector
\* whose top has no pivot.
LEMMA ReductionEnds ==
  ASSUME NEW image, IsImage(image), NEW tree, NEW D \in SUBSET ChecksOf(image),
         NEW P, IsPivots(image, tree, D, P), NEW X \in SUBSET D, NEW F \in SUBSET FaultsOf(image)
  PROVE  IsResidue(image, tree, D, P, X, F,
                   Reduced(image, P, [vector |-> X, faults |-> F, held |-> FALSE]))
<1> DEFINE b == [vector |-> X, faults |-> F, held |-> FALSE]
           n == image.checks
           r == Reduced(image, P, b)
<1>0. n \in Nat /\ D \subseteq 0 .. n - 1 /\ D \subseteq Nat
  BY DEF IsImage, ChecksOf
<1>1. b \in ReduceStates(image, D) /\ b.vector = X /\ b.faults = F /\ b.held = FALSE
  BY DEF ReduceStates
<1> HIDE DEF b
<1>2. PICK f : IsReduction(f, image, P, b) /\ r = f[n]
  BY <1>1, ReductionByPosition
<1> HIDE DEF r
<1> DEFINE S == {k \in 0 .. n : /\ Reducing(image, D, P, f[k], k)
                                /\ Combined(image, tree, D, P, X, F, f[k].vector, f[k].faults)}
<1>3. 0 \in S
  <2>1. f[0] = b
    BY <1>2 DEF IsReduction
  <2>2. Combined(image, tree, D, P, X, F, X, F)
    BY CombinedStarts
  <2>3. \A q \in X : q < n - 0
    BY <1>0
  <2>4. Reducing(image, D, P, f[0], 0)
    BY <1>1, <2>1, <2>3 DEF Reducing
  <2> QED
    BY <1>0, <1>1, <2>1, <2>2, <2>4
<1>4. \A k \in 1 .. n : k - 1 \in S => k \in S
  <2> SUFFICES ASSUME NEW k \in 1 .. n, k - 1 \in S PROVE k \in S
    OBVIOUS
  <2>1. f[k] = ReduceAt(P, f[k - 1], n - k) /\ k \in 0 .. n
    BY <1>0, <1>2 DEF IsReduction
  <2>2. Reducing(image, D, P, f[k - 1], k - 1)
        /\ Combined(image, tree, D, P, X, F, f[k - 1].vector, f[k - 1].faults)
    OBVIOUS
  <2>3. Reducing(image, D, P, f[k], k) /\ Combined(image, tree, D, P, X, F, f[k].vector, f[k].faults)
    <3> HIDE DEF S
    <3> DEFINE s == f[k - 1]
    <3>1. Reducing(image, D, P, s, k - 1) /\ Combined(image, tree, D, P, X, F, s.vector, s.faults)
          /\ f[k] = ReduceAt(P, s, image.checks - k)
      BY <2>1, <2>2
    <3> HIDE DEF s
    <3> QED
      BY <3>1, ReducingStep
  <2> QED
    BY <2>1, <2>3
<1>5. n \in S
  <2> HIDE DEF S, n
  <2> QED
    BY <1>0, <1>3, <1>4, IntervalInduction
<1>6. Reducing(image, D, P, r, n) /\ Combined(image, tree, D, P, X, F, r.vector, r.faults)
  BY <1>2, <1>5
<1>7. r \in ReduceStates(image, D) /\ r.vector \in SUBSET D /\ r.vector \in SUBSET ChecksOf(image)
  BY <1>6 DEF Reducing, ReduceStates
<1>8. ASSUME r.vector # {} PROVE Max(r.vector) \in r.vector /\ Max(r.vector) \notin DOMAIN P
  <2>1. Max(r.vector) \in r.vector /\ \A q \in r.vector : q <= Max(r.vector)
    BY <1>7, <1>8, GreatestCheck
  <2>2. r.held
    <3> SUFFICES ASSUME ~r.held PROVE FALSE
      OBVIOUS
    <3>1. \A q \in r.vector : q < n - n
      BY <1>6 DEF Reducing
    <3>2. \A q \in r.vector : q \in Nat
      BY <1>0, <1>7
    <3> HIDE DEF n
    <3> QED
      BY <1>0, <1>8, <3>1, <3>2
  <2>3. PICK m \in r.vector : m \notin DOMAIN P /\ \A q \in r.vector : q <= m
    BY <1>6, <2>2 DEF Reducing
  <2> DEFINE g == Max(r.vector)
  <2>4. g \in r.vector /\ g <= m /\ m <= g
    BY <2>1, <2>3
  <2> HIDE DEF g, n
  <2>5. g \in Nat /\ m \in Nat
    BY <1>0, <1>7, <2>4
  <2>6. g = m
    BY <2>4, <2>5
  <2> QED
    BY <2>1, <2>3, <2>6 DEF g
<1>9. ASSUME X \in PivotSpan(D, P) PROVE r.vector = {}
  <2>1. r.vector \in PivotSpan(D, P)
    BY <1>6, <1>9, SpanTransfers DEF Combined
  <2> QED
    BY <1>8, <2>1, SpanLaws
<1>10. IsResidue(image, tree, D, P, X, F, r)
  BY <1>6, <1>7, <1>8, <1>9 DEF IsResidue
<1> QED
  BY <1>10 DEF r, b

-----------------------------------------------------------------------------
(* Solving by the pivots.                                                  *)

IsSolution(f, image, P, start) ==
  /\ f[0] = start
  /\ \A k \in 1 .. image.checks : f[k] = SolveAt(P, f[k - 1], image.checks - k)

SolveStates(image, D) == [vector : SUBSET D, faults : SUBSET FaultsOf(image)]

\* What a step of the solution makes of s.
SolvedAt(P, s, u, p) ==
  /\ p \notin s.vector \/ p \notin DOMAIN P => u = s
  /\ p \in s.vector /\ p \in DOMAIN P =>
       u.vector = SymDiff(s.vector, P[p].vector) /\ u.faults = SymDiff(s.faults, P[p].faults)

LEMMA SolveType ==
  ASSUME NEW image, IsImage(image), NEW tree, NEW D \in SUBSET ChecksOf(image),
         NEW P, IsPivots(image, tree, D, P), NEW s \in SolveStates(image, D), NEW p
  PROVE  /\ SolveAt(P, s, p) \in SolveStates(image, D)
         /\ SolvedAt(P, s, SolveAt(P, s, p), p)
<1>1. s.vector \in SUBSET D /\ s.faults \in SUBSET FaultsOf(image)
  BY DEF SolveStates
<1>2. CASE p \notin s.vector \/ p \notin DOMAIN P
  BY <1>2 DEF SolveAt, SolvedAt
<1>3. CASE p \in s.vector /\ p \in DOMAIN P
  <2> DEFINE vector == SymDiff(s.vector, P[p].vector)
             faults == SymDiff(s.faults, P[p].faults)
  <2>1. P[p].vector \in SUBSET D /\ P[p].faults \in SUBSET FaultsOf(image)
    <3>1. P[p].vector \in SUBSET D /\ P[p].faults \in SUBSET OddFaults(image, tree, D)
      BY <1>3, PivotFacts DEF IsPivots
    <3> QED
      BY <3>1, FaultSetsFinite
  <2>2. vector \in SUBSET D /\ faults \in SUBSET FaultsOf(image)
    BY <1>1, <2>1 DEF SymDiff
  <2>3. SolveAt(P, s, p) = [vector |-> vector, faults |-> faults]
    BY <1>3 DEF SolveAt
  <2> HIDE DEF vector, faults
  <2>4. SolveAt(P, s, p) \in SolveStates(image, D)
        /\ SolveAt(P, s, p).vector = vector /\ SolveAt(P, s, p).faults = faults
    BY <2>2, <2>3 DEF SolveStates
  <2> QED
    BY <1>3, <2>4 DEF vector, faults, SolvedAt
<1> QED
  BY <1>2, <1>3

BridgeAnswer(f, image, forest, residual) ==
  ComponentBridge(image, forest, residual)
    = IF f[image.checks].vector # {} THEN Stuck ELSE Flip(f[image.checks].faults)

LEMMA SolutionByPosition ==
  ASSUME NEW image, IsImage(image), NEW tree, NEW D \in SUBSET ChecksOf(image),
         NEW forest, IsPivots(image, tree, D, forest.pivots), NEW residual,
         NEW b \in SolveStates(image, D),
         b = [vector |-> ParityVector(forest.detached, forest.tree, residual), faults |-> {}]
  PROVE  \E f : IsSolution(f, image, forest.pivots, b) /\ BridgeAnswer(f, image, forest, residual)
<1> DEFINE n == image.checks
           P == forest.pivots
           V == SolveStates(image, D)
           Step(s, k) == SolveAt(P, s, image.checks - k)
           step == [k \in 1 .. n |-> [s \in V |-> Step(s, k)]]
           Rec(h) == [S \in SUBSET (1 .. n) |-> IF S = {} THEN b ELSE Step(h[S \ {Max(S)}], Max(S))]
<1>1. n \in Nat
  BY DEF IsImage
<1>2. IsStep(step, V, n)
  <2>1. ASSUME NEW k \in 1 .. n, NEW s \in V PROVE Step(s, k) \in V
    BY SolveType
  <2> HIDE DEF V, Step
  <2> QED
    BY <2>1 DEF IsStep
<1>3. b \in V
  OBVIOUS
<1>4. PICK g : IsFold(g, V, b, n, step)
  <2> HIDE DEF step, n, V
  <2> QED
    BY <1>1, <1>2, <1>3, FoldExists
<1>5. g = Rec(g)
  <2>1. g \in [SUBSET (1 .. n) -> V] /\ g[{}] = b
    BY <1>4 DEF IsFold
  <2>2. ASSUME NEW S \in SUBSET (1 .. n), S # {} PROVE g[S] = Step(g[S \ {Max(S)}], Max(S))
    <3>1. Max(S) \in 1 .. n /\ S \ {Max(S)} \in SUBSET (1 .. n)
      BY <1>1, <2>2, MaxOfPositions
    <3>2. g[S] = step[Max(S)][g[S \ {Max(S)}]]
      BY <1>4, <2>2 DEF IsFold
    <3> HIDE DEF V, Step, n
    <3> QED
      BY <3>1, <3>2, <2>1
  <2> HIDE DEF V, Step, n
  <2> QED
    BY <2>1, <2>2
<1> DEFINE h == CHOOSE k : k = Rec(k)
           end == h[1 .. n]
<1>6. h = Rec(h)
  BY <1>5
<1>7. ComponentBridge(image, forest, residual) = IF end.vector # {} THEN Stuck ELSE Flip(end.faults)
  <2>1. Descending(image) = [k \in 1 .. n |-> image.checks - k] /\ DOMAIN Descending(image) = 1 .. n
    BY DEF Descending
  <2>2. \A S \in SUBSET (1 .. n) : S # {} => Descending(image)[Max(S)] = image.checks - Max(S)
    BY <2>1, <1>1, MaxOfPositions
  <2> DEFINE Raw(k) == [S \in SUBSET (1 .. n) |->
                          IF S = {} THEN b
                          ELSE SolveAt(P, k[S \ {Max(S)}], Descending(image)[Max(S)])]
  <2>3. \A k : Raw(k) = Rec(k)
    BY <2>2
  <2>4. FoldLeft(LAMBDA s, p : SolveAt(P, s, p), b, Descending(image))
          = (CHOOSE k : k = Raw(k))[1 .. n]
    BY <2>1 DEF FoldLeft, MapThenFoldSet
  <2>5. (CHOOSE k : k = Raw(k)) = h
    <3> HIDE DEF Raw, Rec
    <3> QED
      BY <2>3
  <2>6. FoldLeft(LAMBDA s, p : SolveAt(P, s, p), b, Descending(image)) = end
    BY <2>4, <2>5
  <2> HIDE DEF h, end
  <2> QED
    BY <2>6 DEF ComponentBridge
<1> DEFINE f == [i \in 0 .. n |-> h[1 .. i]]
<1> HIDE DEF h
<1>8. f[0] = b
  <2>1. 1 .. 0 = {}
    OBVIOUS
  <2> HIDE DEF Step
  <2> QED
    BY <2>1, <1>6, <1>1
<1>9. ASSUME NEW i \in 1 .. n PROVE f[i] = Step(f[i - 1], i)
  <2>1. Max(1 .. i) = i /\ 1 .. i \in SUBSET (1 .. n) /\ 1 .. i # {} /\ (1 .. i) \ {i} = 1 .. (i - 1)
    BY <1>1, MaxOfInterval
  <2>2. h[1 .. i] = Step(h[(1 .. i) \ {Max(1 .. i)}], Max(1 .. i))
    <3> HIDE DEF Step, n
    <3> QED
      BY <1>6, <2>1
  <2>3. h[1 .. i] = Step(h[1 .. (i - 1)], i)
    BY <2>1, <2>2
  <2>4. i \in 0 .. n /\ i - 1 \in 0 .. n
    BY <1>1
  <2> QED
    BY <2>3, <2>4
<1>10. f[n] = end
  BY <1>1
<1> HIDE DEF f
<1>11. IsSolution(f, image, P, b)
  BY <1>8, <1>9 DEF IsSolution
<1> HIDE DEF end
<1>12. BridgeAnswer(f, image, forest, residual)
  BY <1>7, <1>10 DEF BridgeAnswer
<1> QED
  BY <1>11, <1>12

\* At or above the k-th from the top no pivot is left in the vector.
Solving(image, D, P, s, k) ==
  /\ s \in SolveStates(image, D)
  /\ \A q \in s.vector : q >= image.checks - k => q \notin DOMAIN P

LEMMA SolvingStep ==
  ASSUME NEW image, IsImage(image), NEW tree, NEW D \in SUBSET ChecksOf(image),
         NEW P, IsPivots(image, tree, D, P), NEW X, NEW F, NEW s,
         NEW k \in 1 .. image.checks, Solving(image, D, P, s, k - 1),
         Combined(image, tree, D, P, X, F, s.vector, s.faults)
  PROVE  LET u == SolveAt(P, s, image.checks - k)
         IN  Solving(image, D, P, u, k) /\ Combined(image, tree, D, P, X, F, u.vector, u.faults)
<1> DEFINE p == image.checks - k
           u == SolveAt(P, s, p)
<1> SUFFICES Solving(image, D, P, u, k) /\ Combined(image, tree, D, P, X, F, u.vector, u.faults)
  OBVIOUS
<1>1. D \subseteq Nat /\ image.checks \in Nat
  BY DEF IsImage, ChecksOf
<1>2. s \in SolveStates(image, D) /\ s.vector \in SUBSET D
  BY DEF Solving, SolveStates
<1>3. p \in Int /\ image.checks - (k - 1) = p + 1
  BY <1>1
<1>4. \A q \in D : q \in Int
  BY <1>1
<1> HIDE DEF p
<1>5. u \in SolveStates(image, D) /\ u.vector \in SUBSET D
  <2>1. u \in SolveStates(image, D)
    BY <1>2, SolveType
  <2> QED
    BY <2>1 DEF SolveStates
<1>6. SolvedAt(P, s, u, p)
  BY <1>2, SolveType
<1> HIDE DEF u
<1>7. \A q \in s.vector : q > p => q \notin DOMAIN P
  <2> TAKE q \in s.vector
  <2>1. q \in Int
    BY <1>2, <1>4
  <2>2. q >= p + 1 => q \notin DOMAIN P
    BY <1>3 DEF Solving
  <2> QED
    BY <1>3, <2>1, <2>2
<1>8. ASSUME \A q \in u.vector : q > p => q \notin DOMAIN P, p \notin u.vector \/ p \notin DOMAIN P
      PROVE  Solving(image, D, P, u, k)
  <2>1. \A q \in u.vector : q >= p => q \notin DOMAIN P
    <3> TAKE q \in u.vector
    <3>1. q \in Int
      <4>1. q \in D
        BY <1>5
      <4> QED
        BY <1>4, <4>1
    <3> QED
      BY <1>3, <1>8, <3>1
  <2> QED
    BY <1>5, <2>1 DEF Solving, p
<1>9. CASE p \notin s.vector \/ p \notin DOMAIN P
  <2>1. u = s
    BY <1>6, <1>9 DEF SolvedAt
  <2> QED
    BY <1>7, <1>8, <1>9, <2>1
<1>10. CASE p \in s.vector /\ p \in DOMAIN P
  <2>1. u.vector = SymDiff(s.vector, P[p].vector) /\ u.faults = SymDiff(s.faults, P[p].faults)
    BY <1>6, <1>10 DEF SolvedAt
  <2>2. Combined(image, tree, D, P, X, F, u.vector, u.faults)
    BY <1>10, <2>1, CombinedStep
  <2>3. p \notin u.vector /\ \A q \in D : q > p => (q \in u.vector <=> q \in s.vector)
    BY <1>2, <1>10, <2>1, PivotCancels
  <2>4. \A q \in u.vector : q > p => q \notin DOMAIN P
    BY <1>5, <1>7, <2>3
  <2> QED
    BY <1>8, <2>2, <2>3, <2>4
<1> QED
  BY <1>9, <1>10

\* What the bridge promises: it finds faults with the parities of the residual whenever
\* these are in the span, and what it finds has them.
BridgeExplains(image, tree, D, P, residual, done) ==
  /\ done.stuck \in BOOLEAN
  /\ ParityVector(D, tree, residual) \in PivotSpan(D, P) => ~done.stuck
  /\ ~done.stuck => /\ done.flips \in SUBSET OddFaults(image, tree, D)
                    /\ Parity(image, tree, D, done.flips) = ParityVector(D, tree, residual)

LEMMA ComponentBridgeExact ==
  ASSUME NEW image, IsImage(image), NEW forest, forest.detached \in SUBSET ChecksOf(image),
         IsPivots(image, forest.tree, forest.detached, forest.pivots), NEW residual
  PROVE  BridgeExplains(image, forest.tree, forest.detached, forest.pivots, residual,
                        ComponentBridge(image, forest, residual))
<1> DEFINE tree == forest.tree
           D == forest.detached
           P == forest.pivots
           X == ParityVector(D, tree, residual)
           b == [vector |-> X, faults |-> {}]
           n == image.checks
           done == ComponentBridge(image, forest, residual)
<1>0. n \in Nat /\ D \in SUBSET ChecksOf(image) /\ IsPivots(image, tree, D, P) /\ X \in SUBSET D
  BY ParityType DEF IsImage
<1>1. b \in SolveStates(image, D) /\ b.vector = X /\ b.faults = {}
  BY <1>0 DEF SolveStates
<1>2. PICK f : /\ IsSolution(f, image, P, b)
               /\ done = IF f[n].vector # {} THEN Stuck ELSE Flip(f[n].faults)
  <2>1. b = [vector |-> ParityVector(forest.detached, forest.tree, residual), faults |-> {}]
    OBVIOUS
  <2>2. b \in SolveStates(image, forest.detached)
    BY <1>1
  <2> HIDE DEF b
  <2> DEFINE d == forest.detached
             t == forest.tree
  <2>3. d \in SUBSET ChecksOf(image) /\ IsPivots(image, t, d, forest.pivots) /\ b \in SolveStates(image, d)
    BY <2>2
  <2>4. b = [vector |-> ParityVector(forest.detached, forest.tree, residual), faults |-> {}]
    BY <2>1
  <2> HIDE DEF d, t
  <2>5. \E f : IsSolution(f, image, forest.pivots, b) /\ BridgeAnswer(f, image, forest, residual)
    BY <2>3, <2>4, SolutionByPosition
  <2> QED
    BY <2>5 DEF BridgeAnswer
<1> HIDE DEF b, X, D, P, tree, done
<1> DEFINE S == {k \in 0 .. n : /\ Solving(image, D, P, f[k], k)
                                /\ Combined(image, tree, D, P, X, {}, f[k].vector, f[k].faults)}
<1>3. 0 \in S
  <2>1. f[0] = b
    BY <1>2 DEF IsSolution
  <2>2. Combined(image, tree, D, P, X, {}, X, {})
    BY <1>0, CombinedStarts
  <2>3. \A q \in X : ~(q >= n - 0)
    <3> TAKE q \in X
    <3>1. q \in 0 .. n - 1
      BY <1>0 DEF ChecksOf
    <3> QED
      BY <1>0, <3>1
  <2>4. Solving(image, D, P, f[0], 0)
    BY <1>1, <2>1, <2>3 DEF Solving
  <2> QED
    BY <1>0, <1>1, <2>1, <2>2, <2>4
<1>4. \A k \in 1 .. n : k - 1 \in S => k \in S
  <2> SUFFICES ASSUME NEW k \in 1 .. n, k - 1 \in S PROVE k \in S
    OBVIOUS
  <2>1. f[k] = SolveAt(P, f[k - 1], n - k) /\ k \in 0 .. n
    BY <1>0, <1>2 DEF IsSolution
  <2>2. Solving(image, D, P, f[k - 1], k - 1)
        /\ Combined(image, tree, D, P, X, {}, f[k - 1].vector, f[k - 1].faults)
    OBVIOUS
  <2>3. Solving(image, D, P, f[k], k) /\ Combined(image, tree, D, P, X, {}, f[k].vector, f[k].faults)
    <3> HIDE DEF S
    <3> DEFINE s == f[k - 1]
    <3>1. Solving(image, D, P, s, k - 1) /\ Combined(image, tree, D, P, X, {}, s.vector, s.faults)
          /\ f[k] = SolveAt(P, s, image.checks - k)
      BY <2>1, <2>2
    <3> HIDE DEF s
    <3> QED
      BY <1>0, <3>1, SolvingStep
  <2> QED
    BY <2>1, <2>3
<1>5. n \in S
  <2> HIDE DEF S, n
  <2> QED
    BY <1>0, <1>3, <1>4, IntervalInduction
<1> DEFINE e == f[n]
<1>6. Solving(image, D, P, e, n) /\ Combined(image, tree, D, P, X, {}, e.vector, e.faults)
  BY <1>5
<1>7. done = IF e.vector # {} THEN Stuck ELSE Flip(e.faults)
  BY <1>2
<1> HIDE DEF e, S
<1>8. e.vector \in SUBSET ChecksOf(image) /\ \A q \in e.vector : q \notin DOMAIN P
  <2>1. e.vector \in SUBSET ChecksOf(image)
    BY <1>0, <1>6 DEF Solving, SolveStates
  <2>2. \A q \in e.vector : q >= n - n
    <3> TAKE q \in e.vector
    <3>1. q \in 0 .. n - 1
      BY <2>1 DEF ChecksOf
    <3> QED
      BY <1>0, <3>1
  <2> QED
    BY <1>6, <2>1, <2>2 DEF Solving
<1>9. X \in PivotSpan(D, P) => e.vector = {}
  <2> HAVE X \in PivotSpan(D, P)
  <2>1. e.vector \in PivotSpan(D, P)
    BY <1>0, <1>6, SpanTransfers DEF Combined
  <2>2. e.vector # {} => Max(e.vector) \in DOMAIN P
    BY <1>0, <2>1, SpanLaws
  <2>3. e.vector # {} => Max(e.vector) \in e.vector
    BY <1>8, GreatestCheck
  <2> QED
    BY <1>8, <2>2, <2>3
<1>10. CASE e.vector # {}
  <2>1. done.stuck = TRUE
    BY <1>7, <1>10 DEF Stuck
  <2>2. BridgeExplains(image, tree, D, P, residual, done)
    BY <1>9, <1>10, <2>1 DEF BridgeExplains, X
  <2> QED
    BY <2>2 DEF tree, D, P, done
<1>11. CASE e.vector = {}
  <2>1. done.stuck = FALSE /\ done.flips = e.faults
    BY <1>7, <1>11 DEF Flip
  <2>2. SymDiff({}, e.faults) = e.faults /\ SymDiff(X, e.vector) = X
    BY <1>11 DEF SymDiff
  <2>3. e.faults \in SUBSET OddFaults(image, tree, D) /\ Parity(image, tree, D, e.faults) = X
    BY <1>6, <2>2 DEF Combined
  <2>4. BridgeExplains(image, tree, D, P, residual, done)
    BY <2>1, <2>3 DEF BridgeExplains, X
  <2> QED
    BY <2>4 DEF tree, D, P, done
<1> QED
  BY <1>10, <1>11

-----------------------------------------------------------------------------
(* Building the bridge.                                                    *)

\* A table with one more pivot.
Extended(P, m, vector, faults) ==
  [p \in DOMAIN P \cup {m} |-> IF p \in DOMAIN P THEN P[p] ELSE [vector |-> vector, faults |-> faults]]

LEMMA ExtendPivots ==
  ASSUME NEW image, IsImage(image), NEW tree, NEW D \in SUBSET ChecksOf(image),
         NEW P, IsPivots(image, tree, D, P), NEW vector \in SUBSET D,
         NEW faults \in SUBSET OddFaults(image, tree, D),
         Parity(image, tree, D, faults) = vector,
         NEW m \in vector, m \notin DOMAIN P, \A q \in vector : q <= m
  PROVE  /\ IsPivots(image, tree, D, Extended(P, m, vector, faults))
         /\ vector \in PivotSpan(D, Extended(P, m, vector, faults))
         /\ PivotSpan(D, P) \subseteq PivotSpan(D, Extended(P, m, vector, faults))
<1> DEFINE R == Extended(P, m, vector, faults)
           new == [vector |-> vector, faults |-> faults]
           Rows == [vector : SUBSET D, faults : SUBSET OddFaults(image, tree, D)]
<1>1. DOMAIN P \in SUBSET D /\ \A p \in DOMAIN P : P[p] \in Rows
  BY PivotFacts DEF IsPivots
<1>2. new \in Rows /\ new.vector = vector /\ new.faults = faults
  OBVIOUS
<1>3. DOMAIN R = DOMAIN P \cup {m} /\ R[m] = new /\ \A p \in DOMAIN P : R[p] = P[p]
  BY DEF Extended
<1>4. R \in [DOMAIN P \cup {m} -> Rows]
  <2> HIDE DEF new, Rows
  <2>1. \A p \in DOMAIN P \cup {m} : (IF p \in DOMAIN P THEN P[p] ELSE new) \in Rows
    BY <1>1, <1>2
  <2>2. R = [p \in DOMAIN P \cup {m} |-> IF p \in DOMAIN P THEN P[p] ELSE new]
    BY DEF Extended, new
  <2> HIDE DEF R
  <2> QED
    BY <2>1, <2>2
<1>5. DOMAIN P \cup {m} \in SUBSET D
  BY <1>1
<1>6. R \in PivotTables(image, tree, D)
  BY <1>4, <1>5 DEF PivotTables
<1> HIDE DEF R, new, Rows
<1>7. ASSUME NEW p \in DOMAIN R
      PROVE  /\ p \in R[p].vector /\ \A q \in R[p].vector : q <= p
             /\ R[p].vector = Parity(image, tree, D, R[p].faults)
  <2>1. CASE p \in DOMAIN P
    BY <2>1, <1>3 DEF IsPivots
  <2>2. CASE p = m
    BY <2>2, <1>2, <1>3
  <2> QED
    BY <2>1, <2>2, <1>3
<1>8. IsPivots(image, tree, D, R)
  BY <1>6, <1>7 DEF IsPivots
<1>9. vector \in PivotSpan(D, R)
  <2>1. R[m].vector \in PivotSpan(D, R)
    BY <1>3, <1>8, SpanLaws
  <2> QED
    BY <2>1, <1>2, <1>3
<1>10. ASSUME NEW Q \in SUBSET DOMAIN P PROVE SumOf(Vectors(P), Q, D) \in PivotSpan(D, R)
  <2>1. \A q \in Q : Vectors(R)[q] = Vectors(P)[q]
    BY <1>3 DEF Vectors
  <2>2. \A c : {q \in Q : c \in Vectors(R)[q]} = {q \in Q : c \in Vectors(P)[q]}
    BY <2>1
  <2>3. SumOf(Vectors(R), Q, D) = SumOf(Vectors(P), Q, D)
    BY <2>2 DEF SumOf
  <2>4. Q \in SUBSET DOMAIN R
    BY <1>3
  <2> QED
    BY <2>3, <2>4 DEF PivotSpan
<1>11. PivotSpan(D, P) \subseteq PivotSpan(D, R)
  BY <1>10 DEF PivotSpan
<1> QED
  BY <1>8, <1>9, <1>11 DEF R

\* Taking a column keeps the pivots, and puts the column's parities in their span.
LEMMA AddColumnKeeps ==
  ASSUME NEW image, IsImage(image), NEW tree, NEW D \in SUBSET ChecksOf(image),
         NEW P, IsPivots(image, tree, D, P), NEW v \in FaultsOf(image)
  PROVE  /\ IsPivots(image, tree, D, AddColumn(image, D, tree, P, v))
         /\ PivotSpan(D, P) \subseteq PivotSpan(D, AddColumn(image, D, tree, P, v))
         /\ v \in image.neutral =>
              ParityVector(D, tree, image.columns[v]) \in PivotSpan(D, AddColumn(image, D, tree, P, v))
<1> DEFINE X == ParityVector(D, tree, image.columns[v])
           r == Reduced(image, P, [vector |-> X, faults |-> {v}, held |-> FALSE])
           m == Max(r.vector)
           R == AddColumn(image, D, tree, P, v)
<1> HIDE DEF R, m
<1>1. X \in SUBSET D /\ {v} \in SUBSET FaultsOf(image)
  BY ParityType
<1>2. /\ Combined(image, tree, D, P, X, {v}, r.vector, r.faults)
      /\ r \in ReduceStates(image, D)
      /\ r.vector # {} => m \in r.vector /\ m \notin DOMAIN P
      /\ X \in PivotSpan(D, P) => r.vector = {}
  <2> HIDE DEF X
  <2>1. IsResidue(image, tree, D, P, X, {v},
                  Reduced(image, P, [vector |-> X, faults |-> {v}, held |-> FALSE]))
    BY <1>1, ReductionEnds
  <2>2. IsResidue(image, tree, D, P, X, {v}, r)
    BY <2>1
  <2> HIDE DEF r
  <2> QED
    BY <2>2 DEF m, IsResidue
<1>3. R = IF v \in image.neutral /\ r.vector # {} THEN Extended(P, m, r.vector, r.faults) ELSE P
  BY DEF R, m, AddColumn, Extended
<1> HIDE DEF r
<1>4. CASE ~(v \in image.neutral /\ r.vector # {})
  <2>1. R = P
    BY <1>3, <1>4
  <2>2. v \in image.neutral => X \in PivotSpan(D, P)
    <3>1. v \in image.neutral => r.vector = {}
      BY <1>4
    <3>2. SymDiff(X, {}) = X
      BY SymDiffLaws
    <3> HIDE DEF X
    <3> QED
      BY <1>2, <3>1, <3>2 DEF Combined
  <2> QED
    BY <2>1, <2>2 DEF R
<1>5. CASE v \in image.neutral /\ r.vector # {}
  <2> DEFINE A == SymDiff({v}, r.faults)
             odd == OddFaults(image, tree, D)
  <2>1. R = Extended(P, m, r.vector, r.faults)
    BY <1>3, <1>5
  <2>2. /\ r.vector \in SUBSET D /\ A \in SUBSET odd /\ SymDiff(X, r.vector) \in PivotSpan(D, P)
        /\ Parity(image, tree, D, A) = SymDiff(X, r.vector)
    BY <1>2 DEF Combined
  <2>3. v \in odd
    <3>1. X # {}
      <4>1. {} \in PivotSpan(D, P)
        BY SpanLaws
      <4> HIDE DEF X
      <4> QED
        BY <1>2, <1>5, <4>1
    <3> QED
      BY <1>5, <3>1 DEF OddFaults
  <2>4. r.faults = SymDiff({v}, A)
    BY DEF SymDiff
  <2>5. Parity(image, tree, D, {v}) = X
    BY SyndromeOfOne DEF Parity
  <2> HIDE DEF A, X, odd
  <2>6. r.faults \in SUBSET odd
    BY <2>2, <2>3, <2>4 DEF SymDiff
  <2>7. IsFiniteSet(A) /\ IsFiniteSet({v})
    BY <2>2, FaultSetsFinite, FS_Singleton DEF odd
  <2>8. Parity(image, tree, D, r.faults) = SymDiff(X, SymDiff(X, r.vector))
    BY <2>2, <2>4, <2>5, <2>7, ParityAdds
  <2>9. SymDiff(X, SymDiff(X, r.vector)) = r.vector
    BY DEF SymDiff
  <2>10. m \in r.vector /\ m \notin DOMAIN P /\ \A q \in r.vector : q <= m
    <3>1. r.vector \in SUBSET ChecksOf(image)
      BY <2>2
    <3>2. \A q \in r.vector : q <= Max(r.vector)
      BY <1>5, <3>1, GreatestCheck
    <3> QED
      BY <1>2, <1>5, <3>2 DEF m
  <2>11. IsPivots(image, tree, D, R) /\ r.vector \in PivotSpan(D, R) /\ PivotSpan(D, P) \subseteq PivotSpan(D, R)
    <3> DEFINE w == r.vector
               G == r.faults
    <3>1. /\ w \in SUBSET D /\ G \in SUBSET OddFaults(image, tree, D) /\ Parity(image, tree, D, G) = w
          /\ m \in w /\ m \notin DOMAIN P /\ \A q \in w : q <= m /\ R = Extended(P, m, w, G)
      BY <2>1, <2>2, <2>6, <2>8, <2>9, <2>10 DEF odd
    <3> HIDE DEF w, G
    <3>2. IsPivots(image, tree, D, R) /\ w \in PivotSpan(D, R) /\ PivotSpan(D, P) \subseteq PivotSpan(D, R)
      BY <3>1, ExtendPivots
    <3> QED
      BY <3>2 DEF w
  <2>12. X \in PivotSpan(D, R)
    <3>1. SymDiff(X, r.vector) \in PivotSpan(D, R)
      BY <2>2, <2>11
    <3> QED
      BY <2>11, <3>1, SpanTransfers
  <2> QED
    BY <2>11, <2>12 DEF R, X
<1> QED
  BY <1>4, <1>5

\* The columns are taken in an order of all the faults.
LEMMA ColumnOrderCovers ==
  ASSUME NEW image, IsImage(image)
  PROVE  LET n == Cardinality(FaultsOf(image))
         IN  /\ n \in Nat /\ DOMAIN ColumnOrder(image) = 1 .. n
             /\ \A k \in 1 .. n : ColumnOrder(image)[k] \in FaultsOf(image)
             /\ \A v \in FaultsOf(image) : \E k \in 1 .. n : ColumnOrder(image)[k] = v
<1> DEFINE S == FaultsOf(image)
           n == Cardinality(S)
           degree(v) == Cardinality(image.columns[v])
           before(v, w) == \/ degree(v) < degree(w)
                           \/ degree(v) = degree(w) /\ v < w
           below == [x \in S |-> {y \in S : before(y, x)}]
<1>1. n \in Nat /\ IsFiniteSet(S) /\ S \subseteq Nat
  BY FS_CardinalityType DEF IsImage
<1>2. \A v \in S : degree(v) \in Nat
  <2> TAKE v \in S
  <2>1. image.columns[v] \in SUBSET ChecksOf(image)
    BY DEF IsImage
  <2>2. IsFiniteSet(image.columns[v])
    BY <2>1, ImageFacts, FS_Subset
  <2> QED
    BY <2>2, FS_CardinalityType
<1> HIDE DEF degree
<1>3. \A v \in S : v \in Nat
  BY <1>1
<1> HIDE DEF S
<1>4. \A x \in S : ~before(x, x)
  BY <1>2, <1>3
<1>5. \A x, y, z \in S : before(x, y) /\ before(y, z) => before(x, z)
  BY <1>2, <1>3
<1>6. \A x, y \in S : x # y => before(x, y) \/ before(y, x)
  <2> TAKE x, y \in S
  <2> DEFINE a == degree(x)
             b == degree(y)
  <2>1. a \in Nat /\ b \in Nat /\ x \in Nat /\ y \in Nat
    BY <1>2, <1>3
  <2>2. (before(x, y) <=> a < b \/ (a = b /\ x < y))
        /\ (before(y, x) <=> b < a \/ (b = a /\ y < x))
    OBVIOUS
  <2> HIDE DEF a, b, before
  <2> QED
    BY <2>1, <2>2
<1> HIDE DEF before
<1>7. below \in [S -> SUBSET S] /\ \A x \in S : below[x] = {y \in S : before(y, x)}
  OBVIOUS
<1> HIDE DEF below
<1>8. \A x \in S : x \notin below[x]
  BY <1>4, <1>7
<1>9. \A x, y \in S : x # y => \/ x \in below[y] /\ below[x] \subseteq below[y]
                               \/ y \in below[x] /\ below[y] \subseteq below[x]
  BY <1>5, <1>6, <1>7
<1>10. /\ \A x \in S : Cardinality(below[x]) + 1 \in 1 .. n
       /\ \A x, y \in S : Cardinality(below[x]) = Cardinality(below[y]) => x = y
       /\ \A k \in 1 .. n : \E x \in S : Cardinality(below[x]) = k - 1
  <2>1. Numbers(S, below)
    BY <1>1, <1>7, <1>8, <1>9, RanksNumber
  <2> QED
    BY <2>1 DEF Numbers
<1>11. ColumnOrder(image) = [k \in 1 .. n |-> CHOOSE x \in S : Cardinality(below[x]) = k - 1]
  <2>1. ColumnOrder(image)
          = [k \in 1 .. n |-> CHOOSE x \in S : Cardinality({y \in S : before(y, x)}) = k - 1]
    BY DEF ColumnOrder, Ordered, S, before, degree
  <2>2. \A k : (CHOOSE x \in S : Cardinality({y \in S : before(y, x)}) = k - 1)
                 = (CHOOSE x \in S : Cardinality(below[x]) = k - 1)
    BY <1>7
  <2> QED
    BY <2>1, <2>2
<1> DEFINE order == ColumnOrder(image)
<1>12. DOMAIN order = 1 .. n
  BY <1>11
<1>13. \A k \in 1 .. n : order[k] = CHOOSE x \in S : Cardinality(below[x]) = k - 1
  BY <1>11
<1> HIDE DEF order, n
<1>14. ASSUME NEW k \in 1 .. n PROVE order[k] \in S /\ Cardinality(below[order[k]]) = k - 1
  BY <1>10, <1>13
<1>15. ASSUME NEW v \in S PROVE \E k \in 1 .. n : order[k] = v
  <2> DEFINE c == Cardinality(below[v])
             k == c + 1
  <2>1. k \in 1 .. n
    BY <1>10
  <2>2. c \in Nat
    <3>1. below[v] \in SUBSET S
      BY <1>7
    <3> QED
      BY <3>1, <1>1, FS_Subset, FS_CardinalityType
  <2>3. k - 1 = c
    BY <2>2
  <2> HIDE DEF k
  <2>4. order[k] \in S /\ Cardinality(below[order[k]]) = c
    BY <2>1, <2>3, <1>14
  <2>5. order[k] = v
    BY <2>4, <1>10
  <2> QED
    BY <2>1, <2>5
<1> QED
  BY <1>1, <1>12, <1>14, <1>15 DEF order, n, S

IsBuild(f, image, D, tree) ==
  /\ f[0] = <<>>
  /\ \A k \in 1 .. Cardinality(FaultsOf(image)) :
       f[k] = AddColumn(image, D, tree, f[k - 1], ColumnOrder(image)[k])

\* No pivots.
LEMMA NoPivots ==
  ASSUME NEW image, NEW tree, NEW D
  PROVE  IsPivots(image, tree, D, <<>>) /\ DOMAIN <<>> = {}
<1> DEFINE Rows == [vector : SUBSET D, faults : SUBSET OddFaults(image, tree, D)]
<1>1. DOMAIN <<>> = {}
  OBVIOUS
<1>2. <<>> \in [{} -> Rows]
  <2> HIDE DEF Rows
  <2> QED
    OBVIOUS
<1>3. <<>> \in PivotTables(image, tree, D)
  BY <1>2 DEF PivotTables
<1> QED
  BY <1>1, <1>3 DEF IsPivots

LEMMA BridgeByPosition ==
  ASSUME NEW image, IsImage(image), NEW tree, NEW D \in SUBSET ChecksOf(image)
  PROVE  \E f : IsBuild(f, image, D, tree)
                /\ Bridge(image, D, tree) = f[Cardinality(FaultsOf(image))]
<1> DEFINE n == Cardinality(FaultsOf(image))
           order == ColumnOrder(image)
           V == {P \in PivotTables(image, tree, D) : IsPivots(image, tree, D, P)}
           b == <<>>
           Step(P, k) == AddColumn(image, D, tree, P, order[k])
           step == [k \in 1 .. n |-> [P \in V |-> Step(P, k)]]
           Rec(h) == [S \in SUBSET (1 .. n) |-> IF S = {} THEN b ELSE Step(h[S \ {Max(S)}], Max(S))]
<1>1. n \in Nat /\ DOMAIN order = 1 .. n /\ \A k \in 1 .. n : order[k] \in FaultsOf(image)
  BY ColumnOrderCovers
<1>2. IsStep(step, V, n)
  <2>1. ASSUME NEW k \in 1 .. n, NEW P \in V PROVE Step(P, k) \in V
    <3>1. order[k] \in FaultsOf(image)
      BY <1>1
    <3> HIDE DEF order
    <3>2. IsPivots(image, tree, D, Step(P, k))
      BY <3>1, AddColumnKeeps
    <3> HIDE DEF Step
    <3> QED
      BY <3>2 DEF IsPivots
  <2> HIDE DEF V, Step
  <2> QED
    BY <2>1 DEF IsStep
<1>3. b \in V
  BY NoPivots DEF IsPivots
<1>4. PICK g : IsFold(g, V, b, n, step)
  <2> HIDE DEF step, n, V, b
  <2> QED
    BY <1>1, <1>2, <1>3, FoldExists
<1>5. g = Rec(g)
  <2>1. g \in [SUBSET (1 .. n) -> V] /\ g[{}] = b
    BY <1>4 DEF IsFold
  <2>2. ASSUME NEW S \in SUBSET (1 .. n), S # {} PROVE g[S] = Step(g[S \ {Max(S)}], Max(S))
    <3>1. Max(S) \in 1 .. n /\ S \ {Max(S)} \in SUBSET (1 .. n)
      BY <1>1, <2>2, MaxOfPositions
    <3>2. g[S] = step[Max(S)][g[S \ {Max(S)}]]
      BY <1>4, <2>2 DEF IsFold
    <3> HIDE DEF V, Step, n
    <3> QED
      BY <3>1, <3>2, <2>1
  <2> HIDE DEF V, Step, n, b
  <2> QED
    BY <2>1, <2>2
<1> DEFINE h == CHOOSE k : k = Rec(k)
<1>6. h = Rec(h)
  BY <1>5
<1>7. Bridge(image, D, tree) = h[1 .. n]
  <2>1. DOMAIN order = 1 .. n
    BY <1>1
  <2>2. Bridge(image, D, tree) = (CHOOSE k : k = Rec(k))[1 .. n]
    BY <2>1 DEF Bridge, FoldLeft, MapThenFoldSet
  <2> QED
    BY <2>2
<1> DEFINE f == [i \in 0 .. n |-> h[1 .. i]]
<1> HIDE DEF h
<1>8. f[0] = b
  <2>1. 1 .. 0 = {}
    OBVIOUS
  <2> HIDE DEF Step, b, n
  <2> QED
    BY <2>1, <1>6, <1>1
<1>9. ASSUME NEW i \in 1 .. n PROVE f[i] = Step(f[i - 1], i)
  <2>1. Max(1 .. i) = i /\ 1 .. i \in SUBSET (1 .. n) /\ 1 .. i # {} /\ (1 .. i) \ {i} = 1 .. (i - 1)
    BY <1>1, MaxOfInterval
  <2>2. h[1 .. i] = Step(h[(1 .. i) \ {Max(1 .. i)}], Max(1 .. i))
    <3> HIDE DEF Step, n, b
    <3> QED
      BY <1>6, <2>1
  <2>3. h[1 .. i] = Step(h[1 .. (i - 1)], i)
    BY <2>1, <2>2
  <2>4. i \in 0 .. n /\ i - 1 \in 0 .. n
    <3> HIDE DEF n
    <3> QED
      BY <1>1
  <2> HIDE DEF n, Step
  <2> QED
    BY <2>3, <2>4
<1>10. f[n] = Bridge(image, D, tree)
  <2> HIDE DEF n
  <2> QED
    BY <1>1, <1>7
<1> HIDE DEF f
<1>11. IsBuild(f, image, D, tree)
  BY <1>8, <1>9 DEF IsBuild
<1> QED
  BY <1>10, <1>11

\* The bridge's pivots span the parities of every neutral column.
LEMMA BridgeSpansColumns ==
  ASSUME NEW image, IsImage(image), NEW tree, NEW D \in SUBSET ChecksOf(image)
  PROVE  /\ IsPivots(image, tree, D, Bridge(image, D, tree))
         /\ \A v \in image.neutral :
              ParityVector(D, tree, image.columns[v]) \in PivotSpan(D, Bridge(image, D, tree))
<1> DEFINE n == Cardinality(FaultsOf(image))
           order == ColumnOrder(image)
           X(v) == ParityVector(D, tree, image.columns[v])
           Taken(P, k) == \A j \in 1 .. k : order[j] \in image.neutral => X(order[j]) \in PivotSpan(D, P)
<1>1. /\ n \in Nat /\ \A k \in 1 .. n : order[k] \in FaultsOf(image)
      /\ \A v \in FaultsOf(image) : \E k \in 1 .. n : order[k] = v
  BY ColumnOrderCovers
<1>2. PICK f : IsBuild(f, image, D, tree) /\ Bridge(image, D, tree) = f[n]
  BY BridgeByPosition
<1> DEFINE S == {k \in 0 .. n : IsPivots(image, tree, D, f[k]) /\ Taken(f[k], k)}
<1>3. 0 \in S
  <2>1. f[0] = <<>>
    BY <1>2 DEF IsBuild
  <2>2. IsPivots(image, tree, D, f[0])
    BY <2>1, NoPivots
  <2>3. Taken(f[0], 0)
    OBVIOUS
  <2> HIDE DEF n, Taken
  <2> QED
    BY <1>1, <2>2, <2>3
<1>4. \A k \in 1 .. n : k - 1 \in S => k \in S
  <2> SUFFICES ASSUME NEW k \in 1 .. n, k - 1 \in S PROVE k \in S
    OBVIOUS
  <2> DEFINE P == f[k - 1]
             R == f[k]
  <2>1. R = AddColumn(image, D, tree, P, order[k]) /\ order[k] \in FaultsOf(image)
    BY <1>1, <1>2 DEF IsBuild
  <2>2. IsPivots(image, tree, D, P) /\ Taken(P, k - 1)
    OBVIOUS
  <2> HIDE DEF S, P, R, n
  <2>3. /\ IsPivots(image, tree, D, R) /\ PivotSpan(D, P) \subseteq PivotSpan(D, R)
        /\ order[k] \in image.neutral => X(order[k]) \in PivotSpan(D, R)
    <3> DEFINE v == order[k]
    <3>1. R = AddColumn(image, D, tree, P, v) /\ v \in FaultsOf(image)
      BY <2>1
    <3> HIDE DEF v
    <3>2. /\ IsPivots(image, tree, D, R) /\ PivotSpan(D, P) \subseteq PivotSpan(D, R)
          /\ v \in image.neutral => X(v) \in PivotSpan(D, R)
      BY <2>2, <3>1, AddColumnKeeps
    <3> QED
      BY <3>2 DEF v
  <2>4. k \in 0 .. n /\ \A j \in 1 .. k : j \in 1 .. k - 1 \/ j = k
    BY <1>1
  <2> HIDE DEF order, X
  <2>5. Taken(R, k)
    BY <2>2, <2>3, <2>4
  <2> HIDE DEF Taken
  <2> QED
    BY <2>3, <2>4, <2>5 DEF S, R
<1>5. n \in S
  <2> HIDE DEF S, n
  <2> QED
    BY <1>1, <1>3, <1>4, IntervalInduction
<1>6. IsPivots(image, tree, D, f[n]) /\ Taken(f[n], n)
  BY <1>5
<1>7. ASSUME NEW v \in image.neutral PROVE X(v) \in PivotSpan(D, f[n])
  <2>1. v \in FaultsOf(image)
    BY DEF IsImage
  <2>2. PICK k \in 1 .. n : order[k] = v
    BY <1>1, <2>1
  <2> HIDE DEF n, order, X, S
  <2> QED
    BY <1>6, <2>2
<1> HIDE DEF n
<1> QED
  BY <1>2, <1>6, <1>7

\* And so the parities of whatever neutral faults explain.
LEMMA BridgeSpans ==
  ASSUME NEW image, IsImage(image), NEW tree, NEW D \in SUBSET ChecksOf(image),
         NEW F \in SUBSET image.neutral
  PROVE  Parity(image, tree, D, F) \in PivotSpan(D, Bridge(image, D, tree))
<1> DEFINE P == Bridge(image, D, tree)
           T == {G \in SUBSET image.neutral : Parity(image, tree, D, G) \in PivotSpan(D, P)}
<1>1. IsPivots(image, tree, D, P)
      /\ \A v \in image.neutral : ParityVector(D, tree, image.columns[v]) \in PivotSpan(D, P)
  BY BridgeSpansColumns
<1> HIDE DEF P
<1>2. IsFiniteSet(image.neutral)
  BY ImageFacts
<1>3. ASSUME NEW G \in SUBSET image.neutral, \A x \in G : G \ {x} \in T PROVE G \in T
  <2>1. CASE G = {}
    <3>1. Parity(image, tree, D, {}) = {}
      BY SyndromeType, ParityType DEF Parity
    <3>2. {} \in PivotSpan(D, P)
      BY <1>1, SpanLaws
    <3>3. Parity(image, tree, D, G) \in PivotSpan(D, P)
      BY <2>1, <3>1, <3>2
    <3> QED
      BY <3>3
  <2>2. CASE G # {}
    <3>1. PICK v \in G : TRUE
      BY <2>2
    <3>2. Parity(image, tree, D, G \ {v}) \in PivotSpan(D, P)
      BY <1>3
    <3>3. IsFiniteSet(G \ {v}) /\ IsFiniteSet({v}) /\ G = SymDiff(G \ {v}, {v})
      <4>1. IsFiniteSet(G)
        BY <1>2, FS_Subset
      <4>2. G = SymDiff(G \ {v}, {v})
        BY DEF SymDiff
      <4> QED
        BY <4>1, <4>2, FS_RemoveElement, FS_Singleton
    <3>4. Parity(image, tree, D, {v}) \in PivotSpan(D, P)
      <4>1. v \in image.neutral /\ v \in FaultsOf(image)
        BY DEF IsImage
      <4>2. Parity(image, tree, D, {v}) = ParityVector(D, tree, image.columns[v])
        BY <4>1, SyndromeOfOne DEF Parity
      <4> QED
        BY <1>1, <4>1, <4>2
    <3> DEFINE H == G \ {v}
               A == Parity(image, tree, D, H)
               B == Parity(image, tree, D, {v})
    <3>5. Parity(image, tree, D, G) = SymDiff(A, B)
      <4>1. IsFiniteSet(H) /\ G = SymDiff(H, {v})
        BY <3>3
      <4> HIDE DEF H
      <4> QED
        BY <3>3, <4>1, ParityAdds
    <3>6. A \in PivotSpan(D, P) /\ B \in PivotSpan(D, P)
      BY <3>2, <3>4
    <3> HIDE DEF A, B
    <3>7. SymDiff(A, B) \in PivotSpan(D, P)
      BY <1>1, <3>6, SpanLaws
    <3> QED
      BY <3>5, <3>7
  <2> QED
    BY <2>1, <2>2
<1>4. Grows(image.neutral, T)
  <2> HIDE DEF T
  <2> QED
    BY <1>3 DEF Grows
<1>5. SUBSET image.neutral \subseteq T
  <2> HIDE DEF T
  <2> QED
    BY <1>2, <1>4, SubsetInduction
<1> QED
  BY <1>5 DEF P

-----------------------------------------------------------------------------
(* The completion is exact.                                                *)

\* What the neutral faults of S explain.
Explained(image, S) == {SyndromeOf(image, F) : F \in SUBSET S}

\* One fault more: its column is added to what is explained without it.
LEMMA ExplainedStep ==
  ASSUME NEW image, IsImage(image), NEW S \in SUBSET image.neutral, NEW v \in S
  PROVE  Explained(image, S)
           = Explained(image, S \ {v})
               \cup {SymDiff(r, image.columns[v]) : r \in Explained(image, S \ {v})}
<1> DEFINE H == S \ {v}
           c == image.columns[v]
<1>1. IsFiniteSet(H) /\ IsFiniteSet({v}) /\ SyndromeOf(image, {v}) = c
  <2>1. v \in FaultsOf(image) /\ IsFiniteSet(S)
    <3>1. IsFiniteSet(image.neutral) /\ v \in image.neutral
      BY ImageFacts
    <3> QED
      BY <3>1, FS_Subset DEF IsImage
  <2> QED
    BY <2>1, FS_RemoveElement, FS_Singleton, SyndromeOfOne
<1>2. ASSUME NEW F \in SUBSET S
      PROVE  \/ F \in SUBSET H
             \/ \E G \in SUBSET H : SyndromeOf(image, F) = SymDiff(SyndromeOf(image, G), c)
  <2>1. CASE v \notin F
    BY <2>1
  <2>2. CASE v \in F
    <3> DEFINE G == F \ {v}
    <3>1. G \in SUBSET H /\ F = SymDiff(G, {v})
      BY <2>2 DEF SymDiff
    <3> HIDE DEF G, c, H
    <3>2. IsFiniteSet(G)
      BY <1>1, <3>1, FS_Subset
    <3>3. SyndromeOf(image, F) = SymDiff(SyndromeOf(image, G), c)
      BY <1>1, <3>1, <3>2, SyndromeLinear
    <3> QED
      BY <3>1, <3>3
  <2> QED
    BY <2>1, <2>2
<1>3. ASSUME NEW G \in SUBSET H
      PROVE  \E F \in SUBSET S : SymDiff(SyndromeOf(image, G), c) = SyndromeOf(image, F)
  <2> DEFINE F == G \cup {v}
  <2>1. F \in SUBSET S /\ F = SymDiff(G, {v})
    BY DEF SymDiff
  <2>2. IsFiniteSet(G)
    BY <1>1, FS_Subset
  <2> HIDE DEF F, c, H
  <2>3. SyndromeOf(image, F) = SymDiff(SyndromeOf(image, G), c)
    BY <1>1, <2>1, <2>2, SyndromeLinear
  <2> QED
    BY <2>1, <2>3
<1>4. SUBSET H \subseteq SUBSET S
  OBVIOUS
<1> HIDE DEF H, c
<1>5. Explained(image, S) = Explained(image, H) \cup {SymDiff(r, c) : r \in Explained(image, H)}
  <2>1. ASSUME NEW x \in Explained(image, S)
        PROVE  x \in Explained(image, H) \cup {SymDiff(r, c) : r \in Explained(image, H)}
    <3>1. PICK F \in SUBSET S : x = SyndromeOf(image, F)
      BY DEF Explained
    <3> QED
      BY <1>2, <3>1 DEF Explained
  <2>2. ASSUME NEW x \in Explained(image, H) \cup {SymDiff(r, c) : r \in Explained(image, H)}
        PROVE  x \in Explained(image, S)
    BY <1>3, <1>4, <2>2 DEF Explained
  <2> QED
    BY <2>1, <2>2
<1> QED
  BY <1>5 DEF H, c

\* The residuals that can be repaired are the ones neutral faults explain.
LEMMA RepairableIsExplained ==
  ASSUME NEW image, IsImage(image)
  PROVE  Repairable(image) = Explained(image, image.neutral)
<1> DEFINE S == image.neutral
           pick(s) == CHOOSE x \in s : TRUE
           WithColumn(v, span) == span \cup {SymDiff(r, image.columns[v]) : r \in span}
           Rec(h) == [s \in SUBSET S |-> IF s = {} THEN {{}} ELSE WithColumn(pick(s), h[s \ {pick(s)}])]
           g == [s \in SUBSET S |-> Explained(image, s)]
           h == CHOOSE k : k = Rec(k)
<1>1. IsFiniteSet(S)
  BY ImageFacts
<1>2. Explained(image, {}) = {{}}
  <2>1. SyndromeOf(image, {}) = {} /\ SUBSET {} = {{}}
    BY SyndromeType
  <2> QED
    BY <2>1 DEF Explained
<1>3. ASSUME NEW s \in SUBSET S, s # {}
      PROVE  pick(s) \in s /\ Explained(image, s) = WithColumn(pick(s), Explained(image, s \ {pick(s)}))
  <2>1. pick(s) \in s
    BY <1>3
  <2> HIDE DEF pick
  <2> QED
    BY <2>1, ExplainedStep
<1>4. g = Rec(g)
  <2>1. ASSUME NEW s \in SUBSET S
        PROVE  g[s] = IF s = {} THEN {{}} ELSE WithColumn(pick(s), g[s \ {pick(s)}])
    <3>1. g[s] = Explained(image, s) /\ g[s \ {pick(s)}] = Explained(image, s \ {pick(s)})
      OBVIOUS
    <3> HIDE DEF g, Add, pick
    <3> QED
      BY <1>2, <1>3, <3>1
  <2>2. g = [s \in SUBSET S |-> g[s]]
    OBVIOUS
  <2> HIDE DEF g, Add, pick
  <2> QED
    BY <2>1, <2>2
<1>5. h = Rec(h)
  <2> HIDE DEF g, Rec
  <2> QED
    BY <1>4
<1>6. Repairable(image) = h[S]
  BY DEF Repairable, FoldSet, MapThenFoldSet
<1> HIDE DEF h, g
<1> DEFINE T == {s \in SUBSET S : h[s] = Explained(image, s)}
<1>7. ASSUME NEW s \in SUBSET S, \A x \in s : s \ {x} \in T PROVE s \in T
  <2>1. h[s] = IF s = {} THEN {{}} ELSE WithColumn(pick(s), h[s \ {pick(s)}])
    <3> HIDE DEF Add, pick
    <3> QED
      BY <1>5
  <2>2. CASE s = {}
    BY <1>2, <2>1, <2>2
  <2>3. CASE s # {}
    <3>1. pick(s) \in s /\ Explained(image, s) = WithColumn(pick(s), Explained(image, s \ {pick(s)}))
      BY <1>3, <2>3
    <3>2. h[s \ {pick(s)}] = Explained(image, s \ {pick(s)})
      <4> HIDE DEF pick
      <4> QED
        BY <1>7, <3>1
    <3> HIDE DEF Add, pick
    <3> QED
      BY <2>1, <2>3, <3>1, <3>2
  <2> QED
    BY <2>2, <2>3
<1>8. SUBSET S \subseteq T
  <2> HIDE DEF T, S
  <2>1. Grows(S, T)
    BY <1>7 DEF Grows
  <2> QED
    BY <1>1, <2>1, SubsetInduction
<1>9. S \in T
  <2> HIDE DEF T
  <2> QED
    BY <1>8
<1> QED
  BY <1>6, <1>9

\* What is compiled is a tree, detached components and pivots of them.
LEMMA CompiledForest ==
  ASSUME NEW image, IsImage(image)
  PROVE  /\ IsTree(image, Compiled(image).tree)
         /\ Compiled(image).detached = Detached(image, Compiled(image).tree)
         /\ Compiled(image).detached \in SUBSET ChecksOf(image)
         /\ Compiled(image).pivots = Bridge(image, Compiled(image).detached, Compiled(image).tree)
<1> DEFINE tree == Traversal(image)
           D == Detached(image, tree)
<1>1. IsTree(image, tree)
  BY TraversalIsTree
<1>2. Compiled(image).tree = tree /\ Compiled(image).detached = D
      /\ Compiled(image).pivots = Bridge(image, D, tree)
  BY DEF Compiled
<1> HIDE DEF tree
<1>3. D \in SUBSET ChecksOf(image)
  <2>1. tree.root \in [Nodes(image) -> Nodes(image)]
    BY <1>1 DEF IsTree, TreeRecord
  <2>2. \A c \in ChecksOf(image) : tree.root[c] \in Nodes(image)
    BY <2>1, ImageFacts
  <2> QED
    BY <2>2, ImageFacts DEF Detached
<1> QED
  BY <1>1, <1>2, <1>3

\* The bridged completion of one residual: it is stuck exactly when no neutral faults
\* explain the residual, and otherwise its flips do.
Completes(image, residual, done) ==
  /\ done.stuck \in BOOLEAN
  /\ done.stuck <=> residual \notin Repairable(image)
  /\ ~done.stuck => done.flips \in SUBSET image.neutral /\ SyndromeOf(image, done.flips) = residual

LEMMA BridgedCompletionExact ==
  ASSUME NEW image, IsImage(image), NEW residual \in SUBSET ChecksOf(image)
  PROVE  Completes(image, residual, BridgedCompletion(image, Compiled(image), residual))
<1> DEFINE forest == Compiled(image)
           D == forest.detached
           T == forest.tree
           P == forest.pivots
           bridge == ComponentBridge(image, forest, residual)
           S == SyndromeOf(image, bridge.flips)
           rest == SymDiff(residual, S)
           tree == TreeCompletion(image, forest, rest)
           done == BridgedCompletion(image, forest, residual)
           odd == OddFaults(image, T, D)
<1>1. /\ IsTree(image, T) /\ D = Detached(image, T) /\ D \in SUBSET ChecksOf(image)
      /\ P = Bridge(image, D, T)
  BY CompiledForest
<1>2. IsPivots(image, T, D, P)
  <2> HIDE DEF forest
  <2> QED
    BY <1>1, BridgeSpansColumns
<1>3. done = IF bridge.stuck THEN Stuck ELSE IF tree.stuck THEN Stuck
             ELSE Flip(bridge.flips \cup tree.flips)
  BY DEF BridgedCompletion
<1> HIDE DEF forest, done
<1>4. BridgeExplains(image, T, D, P, residual, bridge)
  BY <1>1, <1>2, ComponentBridgeExact
<1> HIDE DEF bridge
<1>5. rest \in SUBSET ChecksOf(image)
  BY SyndromeType DEF SymDiff
<1> HIDE DEF rest
<1>6. TreeExplains(image, T, D, rest, tree)
  BY <1>1, <1>5, TreeCompletionExact
<1> HIDE DEF tree, S, D, T, P, odd
<1>7. residual \in Repairable(image) => ParityVector(D, T, residual) \in PivotSpan(D, P)
  <2> HAVE residual \in Repairable(image)
  <2>1. PICK F \in SUBSET image.neutral : residual = SyndromeOf(image, F)
    BY RepairableIsExplained DEF Explained
  <2>2. Parity(image, T, D, F) \in PivotSpan(D, P)
    BY <1>1, BridgeSpans
  <2> QED
    BY <2>1, <2>2 DEF Parity
<1>8. CASE bridge.stuck
  <2>1. residual \notin Repairable(image)
    BY <1>4, <1>7, <1>8 DEF BridgeExplains
  <2>2. done = Stuck
    BY <1>3, <1>8
  <2>3. done.stuck = TRUE
    BY <2>2 DEF Stuck
  <2>4. Completes(image, residual, done)
    BY <2>1, <2>3 DEF Completes
  <2> QED
    BY <2>4 DEF done, forest
<1>9. CASE ~bridge.stuck
  <2>1. bridge.flips \in SUBSET odd /\ Parity(image, T, D, bridge.flips) = ParityVector(D, T, residual)
    BY <1>4, <1>9 DEF BridgeExplains, odd
  <2>2. IsFiniteSet(bridge.flips) /\ bridge.flips \subseteq image.neutral
    BY <2>1, FaultSetsFinite DEF odd
  <2>3. ParityVector(D, T, rest) = {}
    <3>1. IsFiniteSet(residual) /\ IsFiniteSet(S)
      BY SyndromeType, ImageFacts, FS_Subset DEF S
    <3>2. rest = SymDiff(residual, S)
      BY DEF rest
    <3>3. ParityVector(D, T, S) = ParityVector(D, T, residual)
      BY <2>1 DEF Parity, S
    <3>4. ParityVector(D, T, rest) = SymDiff(ParityVector(D, T, residual), ParityVector(D, T, residual))
      BY <3>1, <3>2, <3>3, ParityLinear
    <3> QED
      BY <3>4, SymDiffLaws
  <2>4. ~tree.stuck /\ tree.flips \in SUBSET image.neutral /\ SyndromeOf(image, tree.flips) = rest
        /\ \A v \in tree.flips : ParityVector(D, T, image.columns[v]) = {}
    BY <1>6, <2>3 DEF TreeExplains
  <2>5. bridge.flips \cap tree.flips = {}
    BY <2>1, <2>4 DEF odd, OddFaults
  <2> DEFINE both == bridge.flips \cup tree.flips
  <2>6. done = Flip(both)
    BY <1>3, <1>9, <2>4
  <2>7. both \in SUBSET image.neutral
    BY <2>2, <2>4
  <2>8. IsFiniteSet(tree.flips)
    BY <2>4, ImageFacts, FS_Subset
  <2>9. both = SymDiff(bridge.flips, tree.flips)
    BY <2>5 DEF SymDiff
  <2> HIDE DEF both
  <2>10. SyndromeOf(image, both) = SymDiff(S, rest)
    BY <2>2, <2>4, <2>8, <2>9, SyndromeLinear DEF S
  <2>11. SymDiff(S, rest) = residual
    BY DEF rest, SymDiff
  <2>12. SyndromeOf(image, both) = residual
    BY <2>10, <2>11
  <2>13. residual \in Repairable(image)
    BY <2>7, <2>12, RepairableIsExplained DEF Explained
  <2>14. done.stuck = FALSE /\ done.flips = both
    BY <2>6 DEF Flip
  <2>15. Completes(image, residual, done)
    BY <2>7, <2>12, <2>13, <2>14 DEF Completes
  <2> QED
    BY <2>15 DEF done, forest
<1> QED
  BY <1>8, <1>9

\* For every image, the completion repairs exactly the residuals that some neutral
\* faults explain, by neutral faults that explain them, and the plain tree claims no
\* repair that is not one.
THEOREM CompletionExact ==
  ASSUME NEW image, IsImage(image)
  PROVE  CompletionIsExact(image)
<1> SUFFICES ASSUME NEW residual \in SUBSET ChecksOf(image)
             PROVE  LET done == BridgedCompletion(image, Compiled(image), residual)
                        tree == TreeCompletion(image, Compiled(image), residual)
                    IN  /\ done.stuck = (residual \notin Repairable(image))
                        /\ ~done.stuck => done.flips \subseteq image.neutral
                                          /\ SyndromeOf(image, done.flips) = residual
                        /\ ~tree.stuck => SyndromeOf(image, tree.flips) = residual
  BY DEF CompletionIsExact
<1> DEFINE done == BridgedCompletion(image, Compiled(image), residual)
           tree == TreeCompletion(image, Compiled(image), residual)
<1>1. Completes(image, residual, done)
  BY BridgedCompletionExact
<1>2. TreeExplains(image, Compiled(image).tree, Detached(image, Compiled(image).tree), residual, tree)
  <2> DEFINE forest == Compiled(image)
  <2>1. IsTree(image, forest.tree)
    BY CompiledForest
  <2> HIDE DEF forest
  <2>2. TreeExplains(image, forest.tree, Detached(image, forest.tree), residual,
                     TreeCompletion(image, forest, residual))
    BY <2>1, TreeCompletionExact
  <2> QED
    BY <2>2 DEF forest
<1> HIDE DEF done, tree
<1>3. done.stuck = (residual \notin Repairable(image))
  BY <1>1 DEF Completes
<1>4. ~done.stuck => done.flips \subseteq image.neutral /\ SyndromeOf(image, done.flips) = residual
  BY <1>1 DEF Completes
<1>5. ~tree.stuck => SyndromeOf(image, tree.flips) = residual
  BY <1>2 DEF TreeExplains
<1> QED
  BY <1>3, <1>4, <1>5 DEF done, tree

-----------------------------------------------------------------------------
(* The least of some magnitudes, and of all but one.                       *)

\* The least of some naturals is one of them, and below all of them.
LEMMA LeastOfNaturals ==
  ASSUME NEW S \in SUBSET Nat, S # {}
  PROVE  Min(S) \in S /\ Min(S) \in Nat /\ \A y \in S : Min(S) <= y
<1>1. \E m \in S : \A y \in S : m <= y
  BY LeastElement
<1> QED
  BY <1>1 DEF Min

LEMMA MinIs ==
  ASSUME NEW S \in SUBSET Nat, NEW m \in S, \A y \in S : m <= y
  PROVE  Min(S) = m
<1>1. Min(S) \in S /\ Min(S) \in Nat /\ \A y \in S : Min(S) <= y
  BY LeastOfNaturals
<1>2. Min(S) <= m /\ m <= Min(S) /\ m \in Nat
  BY <1>1
<1> QED
  BY <1>1, <1>2

FirstLeast(m)  == Min({e \in DOMAIN m : \A o \in DOMAIN m : m[e] <= m[o]})
OtherValues(m, e) == {m[o] : o \in DOMAIN m \ {e}}
LeastOther(m, e) == Min(OtherValues(m, e))

\* at is a place of the least value of m; the least of the others is that value, except
\* for at itself.
HasTwoMinima(m, at, n) ==
  /\ at \in 1 .. n /\ m[at] \in Nat
  /\ LeastOther(m, at) \in OtherValues(m, at) /\ LeastOther(m, at) \in Nat
  /\ m[at] <= LeastOther(m, at)
  /\ \A o \in 1 .. n : m[at] <= m[o]
  /\ \A e \in 1 .. n : e # at => LeastOther(m, e) = m[at]

\* Two magnitudes tell all the exclusive minima.
LEMMA TwoMinimaSuffice ==
  ASSUME NEW n \in Nat \ {0, 1}, NEW m \in [1 .. n -> Nat],
         NEW at \in 1 .. n, \A o \in 1 .. n : m[at] <= m[o]
  PROVE  HasTwoMinima(m, at, n)
<1>1. ASSUME NEW e \in 1 .. n PROVE OtherValues(m, e) \in SUBSET Nat /\ OtherValues(m, e) # {}
  <2>1. (IF e = 1 THEN 2 ELSE 1) \in DOMAIN m \ {e}
    OBVIOUS
  <2> QED
    BY <2>1 DEF OtherValues
<1>2. /\ LeastOther(m, at) \in OtherValues(m, at) /\ LeastOther(m, at) \in Nat
  BY <1>1, LeastOfNaturals DEF LeastOther
<1>3. m[at] <= LeastOther(m, at)
  BY <1>2 DEF OtherValues
<1>4. ASSUME NEW e \in 1 .. n, e # at PROVE LeastOther(m, e) = m[at]
  <2>1. m[at] \in OtherValues(m, e) /\ \A v \in OtherValues(m, e) : m[at] <= v
    BY <1>4 DEF OtherValues
  <2> QED
    BY <1>1, <2>1, MinIs DEF LeastOther
<1> QED
  BY <1>2, <1>3, <1>4 DEF HasTwoMinima

LEMMA FirstLeastFacts ==
  ASSUME NEW n \in Nat \ {0}, NEW m \in [1 .. n -> Nat]
  PROVE  FirstLeast(m) \in 1 .. n /\ \A o \in 1 .. n : m[FirstLeast(m)] <= m[o]
<1> DEFINE P == {e \in 1 .. n : \A o \in 1 .. n : m[e] <= m[o]}
           V == {m[o] : o \in 1 .. n}
<1>1. V \in SUBSET Nat /\ V # {}
  <2>1. m[1] \in V
    OBVIOUS
  <2> QED
    BY <2>1
<1>2. PICK v \in V : \A y \in V : v <= y
  BY <1>1, LeastElement
<1>3. P # {}
  <2>1. PICK o \in 1 .. n : m[o] = v
    BY <1>2
  <2>2. \A q \in 1 .. n : m[o] <= m[q]
    BY <1>2, <2>1
  <2> QED
    BY <2>2
<1>4. Min(P) \in P
  <2>1. P \in SUBSET Nat
    OBVIOUS
  <2> HIDE DEF P
  <2> QED
    BY <1>3, <2>1, LeastOfNaturals
<1>5. FirstLeast(m) = Min(P)
  BY DEF FirstLeast
<1> HIDE DEF V
<1> QED
  BY <1>4, <1>5

\* The second of the values in order is the least of those beside the first place.
LEMMA SecondInOrder ==
  ASSUME NEW n \in Nat \ {0, 1}, NEW m \in [1 .. n -> Nat],
         NEW at \in 1 .. n, \A o \in 1 .. n : m[at] <= m[o]
  PROVE  KthLeast(m, 2) = LeastOther(m, at)
<1> DEFINE below(o) == {p \in 1 .. n : m[p] <= m[o]}
           K == {o \in 1 .. n : Cardinality(below(o)) >= 2}
           V == {m[o] : o \in K}
           second == LeastOther(m, at)
<1>1. HasTwoMinima(m, at, n)
  BY TwoMinimaSuffice
<1>2. PICK s \in 1 .. n : s # at /\ m[s] = second
  BY <1>1 DEF HasTwoMinima, OtherValues
<1>3. \A o \in 1 .. n : IsFiniteSet(below(o)) /\ Cardinality(below(o)) \in Nat
  <2> SUFFICES ASSUME NEW o \in 1 .. n PROVE IsFiniteSet(below(o)) /\ Cardinality(below(o)) \in Nat
    OBVIOUS
  <2>1. below(o) \in SUBSET (1 .. n) /\ IsFiniteSet(1 .. n)
    BY FS_Interval
  <2> HIDE DEF below
  <2> QED
    BY <2>1, FS_Subset, FS_CardinalityType
<1>4. s \in K
  <2>1. {at, s} \in SUBSET below(s)
    BY <1>2
  <2>2. Cardinality({at, s}) = 2
    <3> DEFINE A == {at}
               P == {at, s}
    <3>1. IsFiniteSet(A) /\ Cardinality(A) = 1
      BY FS_Singleton
    <3>2. P = A \cup {s} /\ s \notin A
      BY <1>2
    <3> HIDE DEF A, P
    <3>3. Cardinality(A \cup {s}) = IF s \in A THEN Cardinality(A) ELSE Cardinality(A) + 1
      BY <3>1, FS_AddElement
    <3>4. Cardinality(P) = 2
      BY <3>1, <3>2, <3>3
    <3> QED
      BY <3>4 DEF P
  <2> HIDE DEF below
  <2>3. Cardinality({at, s}) <= Cardinality(below(s))
    BY <1>3, <2>1, FS_Subset
  <2> QED
    BY <1>3, <2>2, <2>3
<1>5. ASSUME NEW o \in K PROVE second <= m[o]
  <2>1. CASE o # at
    <3>1. m[o] \in OtherValues(m, at)
      BY <2>1 DEF OtherValues
    <3>2. OtherValues(m, at) \in SUBSET Nat
      BY DEF OtherValues
    <3> QED
      BY <3>1, <3>2, LeastOfNaturals DEF LeastOther
  <2>2. CASE o = at
    <3>1. \E p \in below(at) : p # at
      <4> SUFFICES ASSUME below(at) \subseteq {at} PROVE FALSE
        OBVIOUS
      <4>1. IsFiniteSet({at}) /\ Cardinality({at}) = 1 /\ below(at) \in SUBSET {at}
        BY FS_Singleton
      <4> HIDE DEF below
      <4>2. Cardinality(below(at)) <= 1
        BY <4>1, FS_Subset
      <4> QED
        BY <1>3, <2>2, <4>2
    <3>2. PICK p \in below(at) : p # at
      BY <3>1
    <3>3. m[p] \in OtherValues(m, at) /\ m[p] <= m[at]
      BY <3>2 DEF OtherValues
    <3>4. OtherValues(m, at) \in SUBSET Nat
      BY DEF OtherValues
    <3>5. second <= m[p] /\ second \in Nat
      BY <1>1, <3>3, <3>4, LeastOfNaturals DEF LeastOther, HasTwoMinima
    <3> QED
      BY <2>2, <3>2, <3>3, <3>5
  <2> QED
    BY <2>1, <2>2
<1>6. V \in SUBSET Nat /\ second \in V /\ \A v \in V : second <= v
  <2> HIDE DEF second, below
  <2>1. second \in V
    BY <1>2, <1>4
  <2> QED
    BY <1>5, <2>1
<1>7. KthLeast(m, 2) = Min(V)
  BY DEF KthLeast
<1> HIDE DEF V
<1> QED
  BY <1>6, <1>7, MinIs DEF second

-----------------------------------------------------------------------------
(* Signs.                                                                  *)

\* The parity of all signs, against the own one, is that of the others.
LEMMA OwnSign ==
  ASSUME NEW n \in Nat, NEW x \in [1 .. n -> Int], NEW bit \in 0 .. 1, NEW e \in 1 .. n
  PROVE  (Negative(x, 1 .. n, bit) # (x[e] < 0)) = Negative(x, (1 .. n) \ {e}, bit)
<1> DEFINE N == {o \in 1 .. n : x[o] < 0}
           R == {o \in (1 .. n) \ {e} : x[o] < 0}
           k == Cardinality(R)
<1>1. IsFiniteSet(R) /\ k \in Nat /\ e \notin R
  <2>1. R \in SUBSET (1 .. n) /\ IsFiniteSet(1 .. n) /\ e \notin R
    BY FS_Interval
  <2> HIDE DEF R
  <2> QED
    BY <2>1, FS_Subset, FS_CardinalityType
<1>2. N = IF x[e] < 0 THEN R \cup {e} ELSE R
  OBVIOUS
<1>3. Negative(x, 1 .. n, bit) = ((bit + Cardinality(N)) % 2 = 1)
      /\ Negative(x, (1 .. n) \ {e}, bit) = ((bit + k) % 2 = 1)
  BY DEF Negative
<1> HIDE DEF N, R
<1>4. Cardinality(N) = IF x[e] < 0 THEN k + 1 ELSE k
  BY <1>1, <1>2, FS_AddElement
<1> HIDE DEF k
<1>5. ((bit + (k + 1)) % 2 = 1) = ~((bit + k) % 2 = 1)
  BY <1>1
<1>6. CASE x[e] < 0
  BY <1>3, <1>4, <1>5, <1>6
<1>7. CASE ~(x[e] < 0)
  BY <1>3, <1>4, <1>7
<1> QED
  BY <1>6, <1>7
-----------------------------------------------------------------------------
(* Four forms of one update.                                               *)

Magnitudes(x) == [e \in DOMAIN x |-> Abs(x[e])]
FirstPlace(x) == FirstLeast(Magnitudes(x))

\* The magnitudes of a row of any length.
LEMMA RowFacts ==
  ASSUME NEW n \in Nat \ {0, 1}, NEW x \in [1 .. n -> Int]
  PROVE  /\ DOMAIN x = 1 .. n /\ Len(x) = n /\ Magnitudes(x) \in [1 .. n -> Nat]
         /\ \A e \in 1 .. n : Magnitudes(x)[e] = Abs(x[e])
<1>1. x \in Seq(Int) /\ Len(x) = n
  OBVIOUS
<1>2. \A e \in 1 .. n : Abs(x[e]) \in Nat
  BY DEF Abs
<1> QED
  BY <1>1, <1>2 DEF Magnitudes

LEMMA FirstOfRow ==
  ASSUME NEW n \in Nat \ {0, 1}, NEW x \in [1 .. n -> Int]
  PROVE  /\ HasTwoMinima(Magnitudes(x), FirstPlace(x), n) /\ FirstPlace(x) \in 1 .. n
         /\ \A o \in 1 .. n : Magnitudes(x)[FirstPlace(x)] <= Magnitudes(x)[o]
<1> DEFINE m == Magnitudes(x)
<1>1. m \in [1 .. n -> Nat]
  BY RowFacts
<1> HIDE DEF m
<1>2. FirstLeast(m) \in 1 .. n /\ \A o \in 1 .. n : m[FirstLeast(m)] <= m[o]
  BY <1>1, FirstLeastFacts
<1>3. HasTwoMinima(m, FirstLeast(m), n)
  BY <1>1, <1>2, TwoMinimaSuffice
<1> QED
  BY <1>2, <1>3 DEF m, FirstPlace

\* The two minima of the scalar form.
LEMMA MinimaOfRow ==
  ASSUME NEW n \in Nat \ {0, 1}, NEW x \in [1 .. n -> Int]
  PROVE  TwoMinima(x) = [min1 |-> Magnitudes(x)[FirstPlace(x)], argmin |-> FirstPlace(x),
                         min2 |-> LeastOther(Magnitudes(x), FirstPlace(x))]
<1> DEFINE m == [e \in DOMAIN x |-> Abs(x[e])]
           at == Min({e \in DOMAIN x : \A o \in DOMAIN x : m[e] <= m[o]})
           others == {m[o] : o \in DOMAIN x \ {at}}
<1>1. m = Magnitudes(x)
  BY DEF Magnitudes
<1>2. DOMAIN x = 1 .. n /\ Len(x) # 1 /\ DOMAIN m = DOMAIN x
  BY RowFacts
<1>3. TwoMinima(x) = [min1 |-> m[at], argmin |-> at,
                      min2 |-> IF Len(x) = 1 THEN m[at] ELSE Min(others)]
  BY DEF TwoMinima
<1> HIDE DEF m
<1>4. at = FirstPlace(x)
  BY <1>1, <1>2 DEF FirstPlace, FirstLeast
<1>5. Min(others) = LeastOther(m, at)
  <2> HIDE DEF at
  <2> QED
    BY <1>2 DEF LeastOther, OtherValues
<1> HIDE DEF at, others
<1> QED
  BY <1>1, <1>2, <1>3, <1>4, <1>5

LEMMA BatchOfRow ==
  ASSUME NEW n \in Nat \ {0, 1}, NEW x \in [1 .. n -> Int], NEW bit
  PROVE  BatchCheckUpdate(x, bit) = WideCheckUpdate(x, bit)
<1> DEFINE m == [e \in DOMAIN x |-> Abs(x[e])]
           at == Min({e \in DOMAIN x : \A o \in DOMAIN x : m[e] <= m[o]})
           t == TwoMinima(x)
<1>1. DOMAIN x = 1 .. n /\ m = Magnitudes(x) /\ m \in [1 .. n -> Nat]
  <2>1. m = Magnitudes(x)
    BY DEF Magnitudes
  <2> HIDE DEF m
  <2> QED
    BY <2>1, RowFacts
<1>2. at = FirstPlace(x)
  <2> HIDE DEF m
  <2> QED
    BY <1>1 DEF FirstPlace, FirstLeast
<1>3. at \in 1 .. n /\ \A o \in 1 .. n : m[at] <= m[o]
  <2> HIDE DEF m, at
  <2> QED
    BY <1>1, <1>2, FirstOfRow
<1>4. KthLeast(m, 2) = LeastOther(m, at)
  <2> HIDE DEF m, at
  <2> QED
    BY <1>1, <1>3, SecondInOrder
<1>5. t.min1 = m[at] /\ t.argmin = at /\ t.min2 = KthLeast(m, 2)
  <2> HIDE DEF m, at
  <2> QED
    BY <1>1, <1>2, <1>4, MinimaOfRow
<1> DEFINE Batch(e) == Signed((x[e] < 0) # Negative(x, DOMAIN x, bit),
                              Normalize(IF e = at THEN KthLeast(m, 2) ELSE m[at], 3, WIDE_MAG_MAX))
           Wide(e) == Signed(Negative(x, DOMAIN x, bit) # (x[e] < 0),
                             Normalize(IF e = t.argmin THEN t.min2 ELSE t.min1, 3, WIDE_MAG_MAX))
<1>6. BatchCheckUpdate(x, bit) = [e \in DOMAIN x |-> Batch(e)]
  BY DEF BatchCheckUpdate
<1>7. WideCheckUpdate(x, bit) = [e \in DOMAIN x |-> Wide(e)]
  BY DEF WideCheckUpdate
<1>8. ASSUME NEW e \in DOMAIN x PROVE Batch(e) = Wide(e)
  <2> HIDE DEF m, at, t
  <2>1. ((x[e] < 0) # Negative(x, DOMAIN x, bit)) = (Negative(x, DOMAIN x, bit) # (x[e] < 0))
    BY DEF Negative
  <2> QED
    BY <1>5, <2>1
<1> HIDE DEF Batch, Wide
<1> QED
  BY <1>6, <1>7, <1>8

Ports == 1 .. CheckDegree

LEMMA MessageFacts ==
  ASSUME NEW x \in [Ports -> Int]
  PROVE  /\ CheckDegree \in Nat \ {0, 1} /\ DOMAIN x = Ports /\ Len(x) = CheckDegree
         /\ Magnitudes(x) \in [Ports -> Nat]
         /\ \A e \in Ports : Magnitudes(x)[e] = Abs(x[e])
BY DegreeAssumption, RowFacts DEF Ports

\* What one form sends on one edge.
LEMMA ExcludedIs ==
  ASSUME NEW x \in [Ports -> Int], NEW e \in Ports
  PROVE  {Abs(x[o]) : o \in DOMAIN x \ {e}} = OtherValues(Magnitudes(x), e)
BY MessageFacts DEF OtherValues, Magnitudes

LEMMA FirstPlaceFacts ==
  ASSUME NEW x \in [Ports -> Int]
  PROVE  /\ HasTwoMinima(Magnitudes(x), FirstPlace(x), CheckDegree)
         /\ FirstPlace(x) \in Ports
         /\ \A o \in Ports : Magnitudes(x)[FirstPlace(x)] <= Magnitudes(x)[o]
BY DegreeAssumption, FirstOfRow DEF Ports

\* The scalar form: one of two minima, the own sign against all.
LEMMA WideIsExcluding ==
  ASSUME NEW x \in [Ports -> Int], NEW bit \in 0 .. 1
  PROVE  WideCheckUpdate(x, bit) = Excluding(x, bit, WIDE_MAG_MAX, LAMBDA m : m - (m \div 8))
<1> DEFINE m == Magnitudes(x)
           at == FirstPlace(x)
           t == TwoMinima(x)
           Sent(e) == Signed(Negative(x, DOMAIN x, bit) # (x[e] < 0),
                             Normalize(IF e = t.argmin THEN t.min2 ELSE t.min1, 3, WIDE_MAG_MAX))
           Wanted(e) == Signed(Negative(x, DOMAIN x \ {e}, bit),
                               Least(Min({Abs(x[o]) : o \in DOMAIN x \ {e}})
                                       - (Min({Abs(x[o]) : o \in DOMAIN x \ {e}}) \div 8),
                                     WIDE_MAG_MAX))
<1>1. HasTwoMinima(m, at, CheckDegree) /\ CheckDegree \in Nat \ {0, 1} /\ DOMAIN x = Ports
      /\ Len(x) = CheckDegree
  BY FirstPlaceFacts, MessageFacts
<1>2. t.argmin = at /\ t.min1 = m[at] /\ t.min2 = LeastOther(m, at)
  BY <1>1, MinimaOfRow DEF Ports
<1>3. ASSUME NEW e \in Ports PROVE Sent(e) = Wanted(e)
  <2> DEFINE least == LeastOther(m, e)
  <2>1. least = Min({Abs(x[o]) : o \in DOMAIN x \ {e}})
    BY ExcludedIs DEF LeastOther
  <2>2. least = IF e = t.argmin THEN t.min2 ELSE t.min1
    BY <1>1, <1>2 DEF HasTwoMinima, Ports
  <2>3. (Negative(x, DOMAIN x, bit) # (x[e] < 0)) = Negative(x, DOMAIN x \ {e}, bit)
    BY <1>1, OwnSign DEF Ports
  <2>4. Normalize(least, 3, WIDE_MAG_MAX) = Least(least - (least \div 8), WIDE_MAG_MAX)
    <3>1. 2^3 = 8
      OBVIOUS
    <3> QED
      BY <3>1 DEF Normalize
  <2> HIDE DEF least, t
  <2>5. Sent(e) = Signed(Negative(x, DOMAIN x \ {e}, bit), Normalize(least, 3, WIDE_MAG_MAX))
    BY <2>2, <2>3
  <2> QED
    BY <2>1, <2>4, <2>5
<1>4. WideCheckUpdate(x, bit) = [e \in DOMAIN x |-> Sent(e)]
  BY DEF WideCheckUpdate
<1>5. Excluding(x, bit, WIDE_MAG_MAX, LAMBDA y : y - (y \div 8)) = [e \in DOMAIN x |-> Wanted(e)]
  BY DEF Excluding
<1> HIDE DEF Sent, Wanted
<1> QED
  BY <1>1, <1>3, <1>4, <1>5

\* The batch: the same first place, the second value in order.
LEMMA BatchIsWide ==
  ASSUME NEW x \in [Ports -> Int], NEW bit \in 0 .. 1
  PROVE  BatchCheckUpdate(x, bit) = WideCheckUpdate(x, bit)
BY DegreeAssumption, BatchOfRow DEF Ports

\* The flooding form: the second minimum, where the first is unique.
LEMMA FloodIsExcluding ==
  ASSUME NEW x \in [Ports -> Int], NEW bit \in 0 .. 1
  PROVE  FloodCheckUpdate(x, bit, 63) = Excluding(x, bit, 63, LAMBDA m : m)
<1> DEFINE m == [e \in DOMAIN x |-> Abs(x[e])]
           at == FirstPlace(x)
           first == Min({m[e] : e \in DOMAIN x})
           firsts == {e \in DOMAIN x : m[e] = first}
           beside == Min({4096} \cup {m[e] : e \in DOMAIN x \ firsts})
           second == IF Len(x) = 1 THEN 0 ELSE beside
           Sent(e) == Signed((bit = 1) # (Negative(x, DOMAIN x, 0) # (x[e] < 0)),
                             Least(IF firsts = {e} THEN second ELSE first, 63))
           Wanted(e) == Signed(Negative(x, DOMAIN x \ {e}, bit),
                               Least(Min({Abs(x[o]) : o \in DOMAIN x \ {e}}), 63))
<1>1. /\ CheckDegree \in Nat \ {0, 1} /\ DOMAIN x = 1 .. CheckDegree /\ Len(x) # 1
      /\ m = Magnitudes(x) /\ m \in [1 .. CheckDegree -> Nat] /\ Ports = 1 .. CheckDegree
  <2>1. m = Magnitudes(x)
    BY DEF Magnitudes
  <2> HIDE DEF m
  <2> QED
    BY <2>1, MessageFacts DEF Ports
<1>2. HasTwoMinima(m, at, CheckDegree)
  <2> HIDE DEF m, at
  <2> QED
    BY <1>1, FirstPlaceFacts DEF at
<1>3. first = m[at]
  <2> DEFINE V == {m[e] : e \in DOMAIN x}
  <2> HIDE DEF m, at
  <2>1. V \in SUBSET Nat /\ m[at] \in V /\ \A v \in V : m[at] <= v
    BY <1>1, <1>2 DEF HasTwoMinima
  <2> HIDE DEF V
  <2>2. Min(V) = m[at]
    BY <2>1, MinIs
  <2> QED
    BY <2>2 DEF V
<1>4. ASSUME NEW e \in Ports
      PROVE  Least(IF firsts = {e} THEN second ELSE first, 63) = Least(LeastOther(m, e), 63)
  <2> HIDE DEF m, at
  <2> HIDE DEF first
  <2>1. CASE firsts # {e}
    <3>1. first = LeastOther(m, e)
      <4>1. \E o \in Ports : o # e /\ m[o] = first
        <5>1. CASE at # e
          BY <1>1, <1>2, <1>3, <5>1 DEF HasTwoMinima
        <5>2. CASE at = e
          BY <1>1, <1>2, <1>3, <2>1, <5>2 DEF HasTwoMinima
        <5> QED
          BY <5>1, <5>2
      <4>2. PICK o \in Ports : o # e /\ m[o] = first
        BY <4>1
      <4>3. \A v \in OtherValues(m, e) : first <= v
        BY <1>1, <1>2, <1>3 DEF HasTwoMinima, OtherValues
      <4>4. OtherValues(m, e) \in SUBSET Nat /\ first \in OtherValues(m, e)
        BY <1>1, <4>2 DEF OtherValues
      <4> QED
        BY <4>3, <4>4, MinIs DEF LeastOther
    <3> QED
      BY <2>1, <3>1
  <2>2. CASE firsts = {e}
    <3> DEFINE O == OtherValues(m, e)
               least == LeastOther(m, e)
    <3>1. {m[o] : o \in DOMAIN x \ firsts} = O
      BY <1>1, <2>2 DEF OtherValues
    <3>2. O \in SUBSET Nat /\ O # {}
      <4>1. O \in SUBSET Nat
        BY <1>1 DEF OtherValues
      <4>2. (IF e = 1 THEN 2 ELSE 1) \in DOMAIN m \ {e}
        BY <1>1
      <4> QED
        BY <4>1, <4>2 DEF OtherValues
    <3>3. least \in O /\ least \in Nat /\ \A v \in O : least <= v
      BY <3>2, LeastOfNaturals DEF LeastOther
    <3> HIDE DEF O, least
    <3> DEFINE W == {4096} \cup O
               limited == IF least < 4096 THEN least ELSE 4096
    <3>4. W \in SUBSET Nat /\ limited \in W /\ \A v \in W : limited <= v
      BY <3>2, <3>3
    <3> HIDE DEF W
    <3>5. Min(W) = limited
      <4> HIDE DEF limited
      <4> QED
        BY <3>4, MinIs
    <3>6. beside = Min(W)
      BY <3>1 DEF W
    <3>7. second = limited
      <4> HIDE DEF limited, beside
      <4> QED
        BY <1>1, <3>5, <3>6
    <3>8. Least(limited, 63) = Least(least, 63)
      BY <3>3 DEF Least
    <3> HIDE DEF second, limited
    <3> QED
      BY <2>2, <3>7, <3>8 DEF least
  <2> QED
    BY <2>1, <2>2
<1>5. ASSUME NEW e \in Ports PROVE Sent(e) = Wanted(e)
  <2>1. LeastOther(m, e) = Min({Abs(x[o]) : o \in DOMAIN x \ {e}})
    <3> HIDE DEF m
    <3> QED
      BY <1>1, ExcludedIs DEF LeastOther
  <2>2. ((bit = 1) # (Negative(x, DOMAIN x, 0) # (x[e] < 0))) = Negative(x, DOMAIN x \ {e}, bit)
    <3>1. (Negative(x, 1 .. CheckDegree, 0) # (x[e] < 0)) = Negative(x, (1 .. CheckDegree) \ {e}, 0)
      <4>1. /\ CheckDegree \in Nat /\ x \in [1 .. CheckDegree -> Int] /\ 0 \in 0 .. 1
            /\ e \in 1 .. CheckDegree
        BY <1>1
      <4> QED
        BY <4>1, OwnSign
    <3> DEFINE R == {o \in (1 .. CheckDegree) \ {e} : x[o] < 0}
               k == Cardinality(R)
    <3>2. k \in Nat
      <4>1. R \in SUBSET (1 .. CheckDegree) /\ IsFiniteSet(1 .. CheckDegree)
        BY <1>1, FS_Interval
      <4> HIDE DEF R
      <4> QED
        BY <4>1, FS_Subset, FS_CardinalityType
    <3>3. Negative(x, (1 .. CheckDegree) \ {e}, 0) = ((0 + k) % 2 = 1)
          /\ Negative(x, (1 .. CheckDegree) \ {e}, bit) = ((bit + k) % 2 = 1)
      BY DEF Negative
    <3> HIDE DEF k
    <3>4. ((bit = 1) # ((0 + k) % 2 = 1)) = ((bit + k) % 2 = 1)
      <4>1. CASE bit = 0
        BY <3>2, <4>1
      <4>2. CASE bit = 1
        BY <3>2, <4>2
      <4> QED
        BY <4>1, <4>2
    <3> QED
      BY <1>1, <3>1, <3>3, <3>4
  <2> HIDE DEF m, firsts, second, first
  <2> QED
    BY <1>4, <2>1, <2>2
<1>6. FloodCheckUpdate(x, bit, 63) = [e \in DOMAIN x |-> Sent(e)]
  BY DEF FloodCheckUpdate
<1>7. Excluding(x, bit, 63, LAMBDA y : y) = [e \in DOMAIN x |-> Wanted(e)]
  BY DEF Excluding
<1> HIDE DEF Sent, Wanted
<1> QED
  BY <1>1, <1>5, <1>6, <1>7

-----------------------------------------------------------------------------
(* What a full update looks like, and what a record keeps of it.           *)

\* All magnitudes but one are alike.
IsOutgoing(y, at, low, high) ==
  /\ y \in [Ports -> Int] /\ at \in Ports
  /\ low \in 0 .. MESSAGE_MAG_MAX /\ high \in 0 .. MESSAGE_MAG_MAX /\ low <= high
  /\ \A e \in Ports : Abs(y[e]) = IF e = at THEN high ELSE low

LEMMA NormalizedType ==
  ASSUME NEW a \in Nat
  PROVE  Normalize(a, 2, MESSAGE_MAG_MAX) \in 0 .. MESSAGE_MAG_MAX
<1>1. 2^2 = 4
  OBVIOUS
<1>2. a - (a \div 4) \in Nat
  OBVIOUS
<1> QED
  BY <1>1, <1>2 DEF Normalize, Least, MESSAGE_MAG_MAX

\* The full update sends two magnitudes.
LEMMA FullIsOutgoing ==
  ASSUME NEW x \in [Ports -> Int], NEW bit \in 0 .. 1
  PROVE  \E at, low, high : IsOutgoing(FixedCheckUpdate(x, bit), at, low, high)
<1> DEFINE y == FixedCheckUpdate(x, bit)
           m == [e \in Ports |-> Normalize(Abs(x[e]), 2, MESSAGE_MAG_MAX)]
           at == FirstLeast(m)
           Sent(e) == IF DOMAIN x \ {e} = {} THEN 0
                      ELSE Signed(Negative(x, DOMAIN x \ {e}, bit),
                                  Min({Normalize(Abs(x[o]), 2, MESSAGE_MAG_MAX) : o \in DOMAIN x \ {e}}))
<1>1. CheckDegree \in Nat \ {0, 1} /\ DOMAIN x = Ports
  BY MessageFacts
<1>2. \A e \in Ports : m[e] \in 0 .. MESSAGE_MAG_MAX /\ m[e] \in Nat
  <2> SUFFICES ASSUME NEW e \in Ports PROVE m[e] \in 0 .. MESSAGE_MAG_MAX /\ m[e] \in Nat
    OBVIOUS
  <2>1. Abs(x[e]) \in Nat
    BY DEF Abs
  <2>2. Normalize(Abs(x[e]), 2, MESSAGE_MAG_MAX) \in 0 .. MESSAGE_MAG_MAX
    BY <2>1, NormalizedType
  <2> QED
    BY <2>2 DEF MESSAGE_MAG_MAX
<1>3. m \in [1 .. CheckDegree -> Nat]
  BY <1>2 DEF Ports
<1>4. HasTwoMinima(m, at, CheckDegree) /\ at \in Ports
  <2> HIDE DEF m
  <2>1. FirstLeast(m) \in 1 .. CheckDegree /\ \A o \in 1 .. CheckDegree : m[FirstLeast(m)] <= m[o]
    BY <1>1, <1>3, FirstLeastFacts
  <2> QED
    BY <1>1, <1>3, <2>1, TwoMinimaSuffice DEF Ports
<1>5. \A e \in Ports : {Normalize(Abs(x[o]), 2, MESSAGE_MAG_MAX) : o \in DOMAIN x \ {e}} = OtherValues(m, e)
  BY <1>1 DEF OtherValues
<1>6. y = [e \in Ports |-> Sent(e)]
  BY <1>1 DEF FixedCheckUpdate
<1>7. ASSUME NEW e \in Ports
      PROVE  y[e] = Signed(Negative(x, DOMAIN x \ {e}, bit), LeastOther(m, e))
  <2>1. DOMAIN x \ {e} # {}
    <3>1. (IF e = 1 THEN 2 ELSE 1) \in DOMAIN x \ {e}
      BY <1>1 DEF Ports
    <3> QED
      BY <3>1
  <2>2. Sent(e) = Signed(Negative(x, DOMAIN x \ {e}, bit), LeastOther(m, e))
    <3> HIDE DEF m
    <3> QED
      BY <1>5, <2>1 DEF LeastOther
  <2> HIDE DEF m, Sent, y
  <2> QED
    BY <1>6, <2>2
<1> DEFINE low == m[at]
           high == LeastOther(m, at)
<1>8. low \in 0 .. MESSAGE_MAG_MAX /\ high \in 0 .. MESSAGE_MAG_MAX /\ low <= high
  <2>1. high \in OtherValues(m, at) /\ low <= high
    BY <1>4 DEF HasTwoMinima
  <2>2. PICK o \in Ports : high = m[o]
    BY <2>1 DEF OtherValues
  <2> HIDE DEF m
  <2> QED
    BY <1>2, <1>4, <2>1, <2>2
<1>9. \A e \in Ports : LeastOther(m, e) = IF e = at THEN high ELSE low
  <2> HIDE DEF m, at
  <2> QED
    BY <1>4 DEF HasTwoMinima, Ports
<1> HIDE DEF y, m, low, high, at
<1>10. ASSUME NEW e \in Ports
       PROVE  y[e] \in Int /\ Abs(y[e]) = IF e = at THEN high ELSE low
  <2> DEFINE v == LeastOther(m, e)
  <2>1. v \in Nat /\ v = IF e = at THEN high ELSE low
    BY <1>8, <1>9 DEF MESSAGE_MAG_MAX
  <2> HIDE DEF v
  <2>2. y[e] = v \/ y[e] = -v
    BY <1>7 DEF Signed, v
  <2>3. y[e] \in Int /\ Abs(y[e]) = v
    BY <2>1, <2>2 DEF Abs
  <2> QED
    BY <2>1, <2>3
<1>11. y \in [Ports -> Int]
  BY <1>6, <1>10
<1>12. IsOutgoing(y, at, low, high)
  BY <1>4, <1>8, <1>10, <1>11 DEF IsOutgoing
<1> QED
  BY <1>12 DEF y

IsRecord(r) ==
  /\ r = [min1 |-> r.min1, min2 |-> r.min2, argmin |-> r.argmin, signs |-> r.signs, valid |-> TRUE]
  /\ r.min1 \in 0 .. 15 /\ r.min2 \in 0 .. 15 /\ r.argmin \in 0 .. CheckDegree - 1
  /\ r.signs \in SUBSET (0 .. CheckDegree - 1)

\* The magnitudes of an outgoing pattern, and the place of the exceptional one.
LEMMA ExceptionalFacts ==
  ASSUME NEW y, NEW at, NEW low, NEW high, IsOutgoing(y, at, low, high)
  PROVE  /\ Min({Magnitudes(y)[e] : e \in DOMAIN y}) = low
         /\ {e \in DOMAIN y : Magnitudes(y)[e] # low} = IF low = high THEN {} ELSE {at}
<1> DEFINE m == Magnitudes(y)
           V == {m[e] : e \in DOMAIN y}
<1>1. /\ CheckDegree \in Nat \ {0, 1} /\ DOMAIN y = Ports /\ m \in [Ports -> Nat]
      /\ \A e \in Ports : m[e] = Abs(y[e])
  BY MessageFacts DEF IsOutgoing
<1> HIDE DEF m
<1>2. \A e \in Ports : m[e] = IF e = at THEN high ELSE low
  BY <1>1 DEF IsOutgoing
<1>3. PICK o \in Ports : o # at
  <2>1. 1 \in Ports /\ 2 \in Ports
    BY <1>1 DEF Ports
  <2> QED
    BY <2>1
<1>4. V \in SUBSET Nat /\ low \in V /\ \A v \in V : low <= v
  <2>1. low \in V
    BY <1>1, <1>2, <1>3
  <2>2. low <= high /\ low \in Nat /\ high \in Nat
    BY DEF IsOutgoing, MESSAGE_MAG_MAX
  <2> QED
    BY <1>1, <1>2, <2>1, <2>2
<1>5. Min(V) = low
  <2> HIDE DEF V
  <2> QED
    BY <1>4, MinIs
<1>6. {e \in DOMAIN y : m[e] # low} = IF low = high THEN {} ELSE {at}
  BY <1>1, <1>2 DEF IsOutgoing
<1> QED
  BY <1>5, <1>6 DEF m

\* A record keeps an outgoing pattern whole.
LEMMA RecordIsWhole ==
  ASSUME NEW y, NEW at, NEW low, NEW high, IsOutgoing(y, at, low, high)
  PROVE  /\ Compressible(y) /\ IsRecord(Compress(y))
         /\ Reconstruct(Compress(y)) = y
<1> DEFINE m == [e \in DOMAIN y |-> Abs(y[e])]
           odd == {e \in DOMAIN y : m[e] # low}
           r == Compress(y)
           place == IF odd = {} THEN 1 ELSE Min(odd)
           Signs == {e - 1 : e \in {o \in DOMAIN y : y[o] < 0}}
<1>1. /\ CheckDegree \in Nat \ {0, 1} /\ DOMAIN y = Ports /\ m = Magnitudes(y)
  <2>1. m = Magnitudes(y)
    BY DEF Magnitudes
  <2> HIDE DEF m
  <2> QED
    BY <2>1, MessageFacts DEF IsOutgoing
<1>2. Min({m[e] : e \in DOMAIN y}) = low
  <2> HIDE DEF m
  <2> QED
    BY <1>1, ExceptionalFacts
<1>3. odd = IF low = high THEN {} ELSE {at}
  <2> HIDE DEF m
  <2> QED
    BY <1>1, ExceptionalFacts
<1>4. \A e \in Ports : m[e] = IF e = at THEN high ELSE low
  BY <1>1 DEF IsOutgoing
<1>5. Compressible(y) = (Cardinality({e \in DOMAIN y : m[e] # Min({m[o] : o \in DOMAIN y})}) <= 1)
  BY DEF Compressible
<1>6. r = [min1 |-> low, min2 |-> m[place], argmin |-> place - 1, signs |-> Signs, valid |-> TRUE]
  <2> DEFINE min1 == Min({m[e] : e \in DOMAIN y})
             others == {e \in DOMAIN y : m[e] # min1}
  <2>1. r = [min1 |-> min1, min2 |-> m[IF others = {} THEN 1 ELSE Min(others)],
             argmin |-> (IF others = {} THEN 1 ELSE Min(others)) - 1,
             signs |-> Signs, valid |-> TRUE]
    BY DEF Compress
  <2>2. min1 = low
    BY <1>2
  <2> HIDE DEF min1
  <2>3. others = odd
    BY <2>2
  <2> HIDE DEF others, odd, m, Signs, r
  <2> QED
    BY <2>1, <2>2, <2>3
<1>7. Compressible(y)
  <2> DEFINE min1 == Min({m[o] : o \in DOMAIN y})
             others == {e \in DOMAIN y : m[e] # min1}
  <2>1. Compressible(y) = (Cardinality(others) <= 1) /\ min1 = low
    BY <1>2, <1>5
  <2> HIDE DEF min1
  <2>2. others = odd
    BY <2>1
  <2> HIDE DEF others, odd
  <2>3. Cardinality({}) = 0 /\ Cardinality({at}) = 1
    BY FS_EmptySet, FS_Singleton
  <2>4. Cardinality(odd) <= 1
    <3> DEFINE A == {at}
    <3>1. Cardinality(A) = 1 /\ odd = IF low = high THEN {} ELSE A
      BY <1>3, <2>3
    <3> HIDE DEF A
    <3> QED
      BY <2>3, <3>1
  <2> QED
    BY <2>1, <2>2, <2>4
<1>8. place \in Ports /\ \A e \in Ports : m[e] = IF e = place THEN m[place] ELSE low
  <2>1. CASE low = high
    <3>1. place = 1 /\ 1 \in Ports
      BY <1>1, <1>3, <2>1 DEF Ports
    <3> HIDE DEF place, m
    <3> QED
      BY <1>4, <2>1, <3>1
  <2>2. CASE low # high
    <3>1. {at} \in SUBSET Nat /\ \A v \in {at} : at <= v
      BY <1>1 DEF IsOutgoing, Ports
    <3>2. Min({at}) = at
      BY <3>1, MinIs
    <3>3. place = at /\ at \in Ports
      BY <1>3, <2>2, <3>2 DEF IsOutgoing
    <3> HIDE DEF place, m
    <3> QED
      BY <1>4, <3>3
  <2> QED
    BY <2>1, <2>2
<1>9. m[place] \in 0 .. 15 /\ low \in 0 .. 15
  <2> HIDE DEF place, m
  <2> QED
    BY <1>4, <1>8 DEF IsOutgoing, MESSAGE_MAG_MAX
<1>10. Signs \in SUBSET (0 .. CheckDegree - 1) /\ \A e \in Ports : (e - 1 \in Signs) = (y[e] < 0)
  <2>1. Signs \in SUBSET (0 .. CheckDegree - 1)
    BY <1>1 DEF Ports
  <2>2. ASSUME NEW e \in Ports PROVE (e - 1 \in Signs) = (y[e] < 0)
    <3>1. ASSUME y[e] < 0 PROVE e - 1 \in Signs
      BY <1>1, <3>1
    <3>2. ASSUME e - 1 \in Signs PROVE y[e] < 0
      <4>1. PICK o \in Ports : y[o] < 0 /\ e - 1 = o - 1
        BY <1>1, <3>2
      <4>2. o = e
        BY <1>1, <4>1 DEF Ports
      <4> QED
        BY <4>1, <4>2
    <3> HIDE DEF Signs
    <3>3. (y[e] < 0) \in BOOLEAN /\ (e - 1 \in Signs) \in BOOLEAN
      BY DEF IsOutgoing
    <3> QED
      BY <3>1, <3>2, <3>3
  <2> QED
    BY <2>1, <2>2
<1> HIDE DEF place, m, odd, Signs, r
<1>11. place - 1 \in 0 .. CheckDegree - 1
  BY <1>1, <1>8 DEF Ports
<1>12. IsRecord(r)
  BY <1>6, <1>9, <1>10, <1>11 DEF IsRecord
<1>13. ASSUME NEW e \in Ports
       PROVE  Signed(e - 1 \in r.signs, IF e - 1 = r.argmin THEN r.min2 ELSE r.min1) = y[e]
  <2>1. (e - 1 = r.argmin) = (e = place)
    BY <1>1, <1>6, <1>8 DEF Ports
  <2>2. (IF e - 1 = r.argmin THEN r.min2 ELSE r.min1) = m[e]
    BY <1>6, <1>8, <2>1
  <2>3. (e - 1 \in r.signs) = (y[e] < 0)
    BY <1>6, <1>10
  <2>4. m[e] = Abs(y[e]) /\ y[e] \in Int
    BY <1>1 DEF IsOutgoing, m
  <2>5. Signed(y[e] < 0, Abs(y[e])) = y[e]
    BY <2>4 DEF Signed, Abs
  <2> QED
    BY <2>2, <2>3, <2>4, <2>5
<1>14. Reconstruct(r) = [e \in Ports |-> Signed(e - 1 \in r.signs,
                                                IF e - 1 = r.argmin THEN r.min2 ELSE r.min1)]
  <2>1. r.valid
    BY <1>6
  <2> QED
    BY <2>1 DEF Reconstruct, Ports
<1>15. Reconstruct(r) = y
  <2>1. y \in [Ports -> Int]
    BY DEF IsOutgoing
  <2> QED
    BY <1>13, <1>14, <2>1
<1> QED
  BY <1>7, <1>12, <1>15 DEF r

-----------------------------------------------------------------------------
(* Bits of a word.                                                         *)

BitPlaces == 0 .. WORD_BITS

LEMMA WordSizes ==
  /\ CheckDegree \in Nat /\ CheckDegree >= 2 /\ CheckDegree <= 16
  /\ VALID_BIT = CheckDegree + 12 /\ WORD_BITS = CheckDegree + 15
BY DegreeAssumption DEF VALID_BIT, WORD_BITS

\* The recursive definition of Weight has a solution, which doubles.
LEMMA WeightFacts ==
  /\ Weight[0] = 1
  /\ \A b \in 1 .. WORD_BITS : Weight[b] = 2 * Weight[b - 1]
  /\ \A b \in BitPlaces : Weight[b] \in Nat \ {0}
<1> DEFINE step == [i \in 1 .. WORD_BITS |-> [v \in Nat |-> 2 * v]]
<1>1. WORD_BITS \in Nat /\ 1 \in Nat
  BY WordSizes
<1>2. IsStep(step, Nat, WORD_BITS) /\ \A i \in 1 .. WORD_BITS, v \in Nat : step[i][v] = 2 * v
  BY DEF IsStep
<1> HIDE DEF step
<1>3. PICK f : IsIterate(f, Nat, 1, WORD_BITS, step)
  BY <1>1, <1>2, IterateExists
<1>4. \A i \in 1 .. WORD_BITS : f[i] = 2 * f[i - 1]
  <2> SUFFICES ASSUME NEW i \in 1 .. WORD_BITS PROVE f[i] = 2 * f[i - 1]
    OBVIOUS
  <2>1. f[i - 1] \in Nat
    BY <1>1, <1>3 DEF IsIterate
  <2> QED
    BY <1>2, <1>3, <2>1 DEF IsIterate
<1>5. f = [b \in 0 .. WORD_BITS |-> IF b = 0 THEN 1 ELSE 2 * f[b - 1]]
  <2>1. \A b \in 0 .. WORD_BITS : f[b] = IF b = 0 THEN 1 ELSE 2 * f[b - 1]
    BY <1>1, <1>3, <1>4 DEF IsIterate
  <2> QED
    BY <1>3, <2>1 DEF IsIterate
<1>6. Weight = [b \in 0 .. WORD_BITS |-> IF b = 0 THEN 1 ELSE 2 * Weight[b - 1]]
  BY <1>5 DEF Weight
<1>7. Weight[0] = 1 /\ \A b \in 1 .. WORD_BITS : Weight[b] = 2 * Weight[b - 1]
  BY <1>1, <1>6
<1> DEFINE S == {b \in BitPlaces : Weight[b] \in Nat \ {0}}
<1>8. 0 \in S /\ \A b \in 1 .. WORD_BITS : b - 1 \in S => b \in S
  BY <1>1, <1>7 DEF BitPlaces
<1>9. 0 .. WORD_BITS \subseteq S
  <2> HIDE DEF S
  <2> QED
    BY <1>1, <1>8, IntervalInduction
<1> QED
  BY <1>7, <1>9 DEF BitPlaces

\* Twelve places further a bit counts 4096 times as much.
LEMMA WeightShifted ==
  ASSUME NEW b \in 0 .. CheckDegree + 3
  PROVE  Weight[12 + b] = 4096 * Weight[b] /\ 12 + b \in BitPlaces /\ b \in BitPlaces
<1>1. \A k \in 0 .. 11 : Weight[b + k + 1] = 2 * Weight[b + k]
  <2> SUFFICES ASSUME NEW k \in 0 .. 11 PROVE Weight[b + k + 1] = 2 * Weight[b + k]
    OBVIOUS
  <2> DEFINE c == b + k + 1
  <2>1. c \in 1 .. WORD_BITS /\ c - 1 = b + k
    BY WordSizes
  <2> HIDE DEF c
  <2>2. Weight[c] = 2 * Weight[c - 1]
    BY <2>1, WeightFacts
  <2> QED
    BY <2>1, <2>2 DEF c
<1>2. b \in BitPlaces /\ 12 + b \in BitPlaces
  BY WordSizes DEF BitPlaces
<1> DEFINE w == Weight[b]
<1>3. w \in Nat
  BY <1>2, WeightFacts
<1>4. b + 0 = b /\ b + 12 = 12 + b
  BY WordSizes
<1>5. /\ Weight[b + 1] = 2 * w /\ Weight[b + 2] = 2 * Weight[b + 1]
      /\ Weight[b + 3] = 2 * Weight[b + 2] /\ Weight[b + 4] = 2 * Weight[b + 3]
  BY <1>1, <1>4
<1>6. /\ Weight[b + 5] = 2 * Weight[b + 4] /\ Weight[b + 6] = 2 * Weight[b + 5]
      /\ Weight[b + 7] = 2 * Weight[b + 6] /\ Weight[b + 8] = 2 * Weight[b + 7]
  BY <1>1
<1>7. /\ Weight[b + 9] = 2 * Weight[b + 8] /\ Weight[b + 10] = 2 * Weight[b + 9]
      /\ Weight[b + 11] = 2 * Weight[b + 10] /\ Weight[b + 12] = 2 * Weight[b + 11]
  BY <1>1
<1> HIDE DEF w
<1>8. Weight[b + 4] = 16 * w
  BY <1>3, <1>5
<1>9. Weight[b + 8] = 256 * w
  BY <1>3, <1>6, <1>8
<1>10. Weight[b + 12] = 4096 * w
  BY <1>3, <1>7, <1>9
<1> QED
  BY <1>2, <1>4, <1>10 DEF w

\* A higher bit counts a multiple of a lower one.
LEMMA WeightDivides ==
  ASSUME NEW b \in BitPlaces
  PROVE  \A c \in b .. WORD_BITS : \E k \in Nat : Weight[c] = Weight[b] * k
<1> DEFINE n == WORD_BITS - b
           S == {i \in 0 .. n : \E k \in Nat : Weight[b + i] = Weight[b] * k}
           w == Weight[b]
<1>1. n \in Nat /\ b \in Nat /\ WORD_BITS \in Nat /\ b <= WORD_BITS
  BY WordSizes DEF BitPlaces
<1>2. w \in Nat
  BY WeightFacts
<1>3. 0 \in S
  <2>1. b + 0 = b /\ 0 \in 0 .. n
    BY <1>1
  <2> HIDE DEF w, n
  <2>2. w = w * 1 /\ 1 \in Nat
    BY <1>2
  <2> QED
    BY <2>1, <2>2 DEF w
<1>4. ASSUME NEW i \in 1 .. n, i - 1 \in S PROVE i \in S
  <2> DEFINE c == b + i
  <2>1. c \in 1 .. WORD_BITS /\ c - 1 = b + (i - 1) /\ i \in 0 .. n
    BY <1>1
  <2>2. PICK k \in Nat : Weight[b + (i - 1)] = w * k
    BY <1>4
  <2> HIDE DEF c
  <2>3. Weight[c] = 2 * (w * k)
    BY <2>1, <2>2, WeightFacts
  <2> HIDE DEF w
  <2>4. 2 * (w * k) = w * (2 * k) /\ 2 * k \in Nat
    BY <1>2, <2>2
  <2> QED
    BY <2>1, <2>3, <2>4 DEF c, w
<1>5. 0 .. n \subseteq S
  <2> HIDE DEF S, n
  <2> QED
    BY <1>1, <1>3, <1>4, IntervalInduction
<1> SUFFICES ASSUME NEW c \in b .. WORD_BITS PROVE \E k \in Nat : Weight[c] = Weight[b] * k
  OBVIOUS
<1>6. c - b \in 0 .. n /\ b + (c - b) = c
  BY <1>1
<1>7. c - b \in S
  <2> HIDE DEF S
  <2> QED
    BY <1>5, <1>6
<1>8. \E k \in Nat : Weight[b + (c - b)] = Weight[b] * k
  BY <1>7
<1> QED
  BY <1>6, <1>8

\* A word with a bit counts that bit and the others.
LEMMA WordFacts ==
  ASSUME NEW S \in SUBSET BitPlaces
  PROVE  /\ Word(S) \in Nat
         /\ \A b \in S : Word(S) = Weight[b] + Word(S \ {b})
         /\ Word({}) = 0
<1>1. IsFiniteSet(S) /\ IsFiniteSet({}) /\ \A b \in S : Weight[b] \in Nat
  <2>1. IsFiniteSet(BitPlaces)
    BY FS_Interval, WordSizes DEF BitPlaces
  <2> QED
    BY <2>1, FS_Subset, FS_EmptySet, WeightFacts
<1>2. \A T : Word(T) = Total(Weight, T)
  BY DEF Word, Total
<1>3. Total(Weight, S) \in Nat
  <2>1. Nat \in SUBSET Int /\ 0 \in Nat /\ \A i, j \in Nat : i + j \in Nat
    OBVIOUS
  <2> QED
    BY <1>1, <2>1, SumIn
<1>4. \A b \in S : Total(Weight, S) = Weight[b] + Total(Weight, S \ {b})
  <2>1. \A b \in S : Weight[b] \in Int
    BY <1>1
  <2> QED
    BY <1>1, <2>1, SumAdds
<1>5. Total(Weight, {}) = 0
  <2>1. PICK h : h = Unfold(Weight, {}, h) /\ Total(Weight, {}) = h[{}]
    BY <1>1, SumUnfolds
  <2>2. h[{}] = 0
    BY <2>1 DEF Unfold
  <2> QED
    BY <2>1, <2>2
<1> QED
  BY <1>2, <1>3, <1>4, <1>5

\* The bits below a place count less than the place.
LEMMA WordBelow ==
  ASSUME NEW b \in BitPlaces
  PROVE  \A S \in SUBSET (0 .. b - 1) : Word(S) \in 0 .. Weight[b] - 1
<1> DEFINE Bounded == {n \in 0 .. b : \A S \in SUBSET (0 .. n - 1) : Word(S) \in 0 .. Weight[n] - 1}
<1>1. b \in Nat /\ b <= WORD_BITS /\ WORD_BITS \in Nat
  BY WordSizes DEF BitPlaces
<1>2. 0 \in Bounded
  <2>1. ASSUME NEW S \in SUBSET (0 .. 0 - 1) PROVE Word(S) \in 0 .. Weight[0] - 1
    <3>1. S = {}
      OBVIOUS
    <3>2. {} \in SUBSET BitPlaces
      OBVIOUS
    <3>3. Word({}) = 0
      BY <3>2, WordFacts
    <3> QED
      BY <3>1, <3>3, WeightFacts
  <2> QED
    BY <1>1, <2>1
<1>3. ASSUME NEW n \in 1 .. b, n - 1 \in Bounded PROVE n \in Bounded
  <2>1. ASSUME NEW S \in SUBSET (0 .. n - 1) PROVE Word(S) \in 0 .. Weight[n] - 1
    <3> DEFINE c == n - 1
    <3>1. /\ c \in BitPlaces /\ n \in 1 .. WORD_BITS /\ S \in SUBSET BitPlaces
      BY <1>1 DEF BitPlaces
    <3>2. Weight[n] = 2 * Weight[c] /\ Weight[c] \in Nat \ {0}
      BY <3>1, WeightFacts
    <3>3. \A R \in SUBSET (0 .. c - 1) : Word(R) \in 0 .. Weight[c] - 1
      BY <1>3
    <3>4. S \ {c} \in SUBSET (0 .. c - 1)
      BY <1>1
    <3> HIDE DEF c
    <3>5. Word(S \ {c}) \in 0 .. Weight[c] - 1
      BY <3>3, <3>4
    <3>6. Word(S) = Weight[c] + Word(S \ {c}) \/ Word(S) = Word(S \ {c})
      <4>1. CASE c \in S
        BY <3>1, <4>1, WordFacts
      <4>2. CASE c \notin S
        <5>1. S \ {c} = S
          BY <4>2
        <5> QED
          BY <5>1
      <4> QED
        BY <4>1, <4>2
    <3> DEFINE u == Word(S)
               v == Word(S \ {c})
               w == Weight[c]
    <3>7. w \in Nat \ {0} /\ v \in 0 .. w - 1 /\ Weight[n] = 2 * w /\ (u = w + v \/ u = v)
      BY <3>2, <3>5, <3>6
    <3> HIDE DEF u, v, w
    <3>8. u \in 0 .. 2 * w - 1
      BY <3>7
    <3> QED
      BY <3>7, <3>8 DEF u
  <2>2. n \in 0 .. b
    OBVIOUS
  <2> QED
    BY <2>1, <2>2
<1>4. 0 .. b \subseteq Bounded
  <2> HIDE DEF Bounded
  <2> QED
    BY <1>1, <1>2, <1>3, IntervalInduction
<1>5. b \in Bounded
  <2> HIDE DEF Bounded
  <2> QED
    BY <1>1, <1>4
<1> QED
  BY <1>5

\* A word is its bits below a place, the place, and twice a multiple of it.
IsSplit(S, b) ==
  \E k \in Nat : Word(S) = Word(S \cap (0 .. b - 1)) + (IF b \in S THEN Weight[b] ELSE 0)
                             + 2 * (Weight[b] * k)

LEMMA WordSplits ==
  ASSUME NEW b \in BitPlaces, NEW S \in SUBSET BitPlaces
  PROVE  IsSplit(S, b)
<1> DEFINE T == {F \in SUBSET BitPlaces : IsSplit(F, b)}
           w == Weight[b]
           Below(F) == F \cap (0 .. b - 1)
<1>1. w \in Nat /\ b \in Nat /\ b <= WORD_BITS /\ WORD_BITS \in Nat /\ BitPlaces \subseteq Nat
  BY WeightFacts, WordSizes DEF BitPlaces
<1>2. ASSUME NEW F \in SUBSET BitPlaces, \A a \in F : F \ {a} \in T
      PROVE  IsSplit(F, b)
  <2>1. CASE F = {}
    <3>1. Word({}) = 0 /\ F \cap (0 .. b - 1) = {} /\ b \notin F
      BY <2>1, WordFacts
    <3>2. 0 \in Nat /\ 0 = 0 + 0 + 2 * (w * 0)
      BY <1>1
    <3>3. Word(F) = Word(F \cap (0 .. b - 1)) + (IF b \in F THEN w ELSE 0) + 2 * (w * 0)
      BY <2>1, <3>1, <3>2
    <3> QED
      BY <3>2, <3>3 DEF IsSplit
  <2>2. CASE F # {}
    <3>1. PICK a \in F : TRUE
      BY <2>2
    <3> DEFINE R == F \ {a}
               own == IF b \in R THEN w ELSE 0
    <3>2. IsSplit(R, b) /\ R \in SUBSET BitPlaces
      BY <1>2
    <3>3. PICK k \in Nat : Word(R) = Word(Below(R)) + own + 2 * (w * k)
      BY <3>2 DEF IsSplit
    <3>4. Word(F) = Weight[a] + Word(R)
      BY WordFacts
    <3>5. Word(Below(R)) \in Nat /\ own \in Nat /\ Weight[a] \in Nat /\ w * k \in Nat
      <4>1. Below(R) \in SUBSET BitPlaces /\ a \in BitPlaces
        BY <3>2
      <4> HIDE DEF w
      <4>2. w * k \in Nat
        BY <1>1
      <4> HIDE DEF Below, R
      <4> QED
        BY <1>1, <4>1, <4>2, WordFacts, WeightFacts
    <3>6. CASE a < b
      <4>1. a \in Below(F) /\ Below(F) \ {a} = Below(R) /\ Below(F) \in SUBSET BitPlaces
        BY <1>1, <3>6
      <4>2. (b \in F) = (b \in R)
        BY <1>1, <3>6
      <4> HIDE DEF Below
      <4>3. Word(Below(F)) = Weight[a] + Word(Below(R))
        BY <4>1, WordFacts
      <4>4. own = IF b \in F THEN w ELSE 0
        BY <4>2
      <4> HIDE DEF own, w, R
      <4>5. Word(F) = Word(Below(F)) + own + 2 * (w * k)
        BY <3>3, <3>4, <3>5, <4>3
      <4> QED
        BY <4>4, <4>5 DEF IsSplit, Below, w
    <3>7. CASE a = b
      <4>1. Below(F) = Below(R) /\ b \notin R /\ b \in F
        BY <1>1, <3>7
      <4>2. own = 0 /\ Weight[a] = w
        BY <3>7, <4>1
      <4> HIDE DEF Below, own, w, R
      <4>3. Word(F) = Word(Below(F)) + w + 2 * (w * k)
        BY <1>1, <3>3, <3>4, <3>5, <4>1, <4>2
      <4> QED
        BY <4>1, <4>3 DEF IsSplit, Below, w
    <3>8. CASE a > b
      <4>1. Below(F) = Below(R) /\ (b \in F) = (b \in R)
        BY <1>1, <3>8
      <4>2. b + 1 \in BitPlaces /\ a \in (b + 1) .. WORD_BITS /\ b + 1 \in 1 .. WORD_BITS
        BY <1>1, <3>8 DEF BitPlaces
      <4>3. PICK j \in Nat : Weight[a] = Weight[b + 1] * j
        BY <4>2, WeightDivides
      <4>4. Weight[b + 1] = 2 * w
        <5>1. (b + 1) - 1 = b
          BY <1>1
        <5> QED
          BY <4>2, <5>1, WeightFacts
      <4>5. own = IF b \in F THEN w ELSE 0
        BY <4>1
      <4> HIDE DEF Below, own, w, R
      <4>6. Weight[a] = 2 * (w * j) /\ w * (k + j) = w * k + w * j /\ w * j \in Nat /\ k + j \in Nat
        BY <1>1, <4>3, <4>4
      <4> DEFINE p == w * k
                 q == w * j
      <4>7. Word(R) = Word(Below(F)) + own + 2 * p /\ Weight[a] = 2 * q /\ p \in Nat /\ q \in Nat
            /\ w * (k + j) = p + q /\ Word(Below(F)) \in Nat
        BY <3>3, <3>5, <4>1, <4>6
      <4> HIDE DEF p, q
      <4>8. Word(F) = Word(Below(F)) + own + 2 * (p + q)
        BY <3>4, <3>5, <4>7
      <4>9. Word(F) = Word(Below(F)) + own + 2 * (w * (k + j))
        BY <4>7, <4>8
      <4> QED
        BY <4>5, <4>6, <4>9 DEF IsSplit, Below, w
    <3>9. a \in Nat
      BY <1>1
    <3> QED
      BY <1>1, <3>6, <3>7, <3>8, <3>9
  <2> QED
    BY <2>1, <2>2
<1>3. \A F \in SUBSET BitPlaces : (\A a \in F : F \ {a} \in T) => F \in T
  BY <1>2
<1>4. SUBSET BitPlaces \subseteq T
  <2>1. IsFiniteSet(BitPlaces)
    BY FS_Interval, WordSizes DEF BitPlaces
  <2> HIDE DEF T
  <2>2. Grows(BitPlaces, T)
    BY <1>3 DEF Grows
  <2> QED
    BY <2>1, <2>2, SubsetInduction
<1>5. S \in T
  <2> HIDE DEF T
  <2> QED
    BY <1>4
<1> QED
  BY <1>5

\* The quotient of a word by the weight of a place is odd exactly if the bit is set.
LEMMA BitOfWord ==
  ASSUME NEW b \in BitPlaces, NEW S \in SUBSET BitPlaces
  PROVE  ((Word(S) \div Weight[b]) % 2 = 1) = (b \in S)
<1> DEFINE w == Weight[b]
           lo == Word(S \cap (0 .. b - 1))
           bit == IF b \in S THEN 1 ELSE 0
<1>1. w \in Nat \ {0} /\ lo \in 0 .. w - 1
  <2>1. S \cap (0 .. b - 1) \in SUBSET (0 .. b - 1)
    OBVIOUS
  <2> QED
    BY <2>1, WeightFacts, WordBelow
<1>2. PICK k \in Nat : Word(S) = lo + (IF b \in S THEN w ELSE 0) + 2 * (w * k)
  BY WordSplits DEF IsSplit
<1> HIDE DEF lo, w
<1> DEFINE q == bit + 2 * k
<1>3. q \in Nat /\ Word(S) = q * w + lo
  <2> DEFINE p == w * k
  <2>1. p \in Nat /\ Word(S) = lo + (IF b \in S THEN w ELSE 0) + 2 * p
    BY <1>1, <1>2
  <2>2. CASE b \in S
    <3>1. q = 1 + 2 * k
      BY <2>2
    <3>2. (1 + 2 * k) * w = w + 2 * (w * k)
      BY <1>1
    <3> HIDE DEF q, p
    <3>3. q * w = w + 2 * p /\ q \in Nat
      BY <3>1, <3>2 DEF p
    <3> QED
      BY <1>1, <2>1, <2>2, <3>3
  <2>3. CASE b \notin S
    <3>1. q = 2 * k
      BY <2>3
    <3>2. (2 * k) * w = 2 * (w * k)
      BY <1>1
    <3> HIDE DEF q, p
    <3>3. q * w = 2 * p /\ q \in Nat
      BY <3>1, <3>2 DEF p
    <3> QED
      BY <1>1, <2>1, <2>3, <3>3
  <2> QED
    BY <2>2, <2>3
<1>4. Word(S) \div w = q
  <2> HIDE DEF q
  <2>1. q \in Int
    BY <1>3
  <2> QED
    BY <1>1, <1>3, <2>1, DivMod
<1>5. q % 2 = bit
  <2>1. CASE b \in S
    BY <2>1
  <2>2. CASE b \notin S
    BY <2>2
  <2> QED
    BY <2>1, <2>2
<1> HIDE DEF q
<1> QED
  BY <1>4, <1>5 DEF w

-----------------------------------------------------------------------------
(* A record in a word.                                                     *)

\* The fields below the signs, and the word of the signs with the valid bit above them.
LowFields(r) == r.min1 + 16 * r.min2 + 256 * r.argmin
Flags(r) == r.signs \cup {CheckDegree}

LEMMA PackedFields ==
  ASSUME NEW r, IsRecord(r)
  PROVE  /\ Pack(r) = LowFields(r) + 4096 * Word(Flags(r))
         /\ LowFields(r) \in Nat /\ LowFields(r) < 4096 /\ Flags(r) \in SUBSET BitPlaces
         /\ Word(Flags(r)) \in 0 .. Weight[CheckDegree + 1] - 1
<1> DEFINE F == Flags(r)
           w == Weight[CheckDegree]
<1>1. r.valid /\ r.min1 \in 0 .. 15 /\ r.min2 \in 0 .. 15 /\ r.argmin \in 0 .. CheckDegree - 1
      /\ r.signs \in SUBSET (0 .. CheckDegree - 1)
  BY DEF IsRecord
<1>2. F \in SUBSET BitPlaces /\ F \in SUBSET (0 .. (CheckDegree + 1) - 1)
      /\ CheckDegree \in F /\ F \ {CheckDegree} = r.signs
  BY <1>1, WordSizes DEF Flags, BitPlaces
<1> HIDE DEF F
<1>3. Word(F) = w + Word(r.signs) /\ w \in Nat
  <2>1. Word(F) = w + Word(F \ {CheckDegree}) /\ CheckDegree \in BitPlaces
    BY <1>2, WordFacts
  <2> QED
    BY <1>2, <2>1, WeightFacts
<1>4. Word(r.signs) \in Nat
  <2>1. r.signs \in SUBSET BitPlaces
    BY <1>2
  <2> QED
    BY <2>1, WordFacts
<1>5. Word(F) \in 0 .. Weight[CheckDegree + 1] - 1
  <2>1. CheckDegree + 1 \in BitPlaces
    BY WordSizes DEF BitPlaces
  <2> QED
    BY <1>2, <2>1, WordBelow
<1>6. Weight[VALID_BIT] = 4096 * w
  <2>1. CheckDegree \in 0 .. CheckDegree + 3 /\ VALID_BIT = 12 + CheckDegree
    BY WordSizes
  <2> QED
    BY <2>1, WeightShifted
<1>7. Pack(r) = LowFields(r) + 4096 * Word(r.signs) + 4096 * w
  BY <1>1, <1>6 DEF Pack, LowFields
<1>8. LowFields(r) \in Nat /\ LowFields(r) < 4096
  <2> DEFINE a == r.min1
             b == r.min2
             c == r.argmin
  <2>1. a \in 0 .. 15 /\ b \in 0 .. 15 /\ c \in 0 .. 15
    BY <1>1, WordSizes
  <2>2. LowFields(r) = a + 16 * b + 256 * c
    BY DEF LowFields
  <2> HIDE DEF a, b, c
  <2>3. a + 16 * b + 256 * c \in Nat /\ a + 16 * b + 256 * c < 4096
    BY <2>1
  <2> QED
    BY <2>2, <2>3
<1> HIDE DEF w
<1>9. Pack(r) = LowFields(r) + 4096 * Word(F)
  <2> DEFINE low == LowFields(r)
             v == Word(r.signs)
             all == Word(F)
  <2>1. low \in Nat
    BY <1>8
  <2>2. all = w + v
    BY <1>3
  <2>3. Pack(r) = low + 4096 * v + 4096 * w
    BY <1>7
  <2>4. v \in Nat /\ w \in Nat
    BY <1>3, <1>4
  <2> HIDE DEF low, v, all
  <2>5. Pack(r) = low + 4096 * all
    BY <2>1, <2>2, <2>3, <2>4
  <2> QED
    BY <2>5 DEF low, all
<1> QED
  BY <1>2, <1>5, <1>8, <1>9 DEF F

\* The fields of a word of this form.
LEMMA FieldsOfWord ==
  ASSUME NEW r, IsRecord(r), NEW W \in Nat
  PROVE  LET raw == LowFields(r) + 4096 * W
         IN  raw \in Nat /\ raw % 16 = r.min1 /\ (raw \div 16) % 16 = r.min2
             /\ (raw \div 256) % 16 = r.argmin
<1> DEFINE a == r.min1
           b == r.min2
           c == r.argmin
           raw == LowFields(r) + 4096 * W
<1>1. a \in 0 .. 15 /\ b \in 0 .. 15 /\ c \in 0 .. 15
  BY WordSizes DEF IsRecord
<1>2. raw = a + 16 * b + 256 * c + 4096 * W
  BY DEF LowFields
<1> HIDE DEF a, b, c, raw
<1>3. raw \in Nat
  BY <1>1, <1>2
<1>4. raw % 16 = a
  <2> DEFINE q == b + 16 * c + 256 * W
  <2>1. raw = q * 16 + a /\ q \in Int
    BY <1>1, <1>2
  <2> HIDE DEF q
  <2> QED
    BY <1>1, <2>1, DivMod
<1>5. (raw \div 16) % 16 = b
  <2> DEFINE q == b + 16 * c + 256 * W
             p == c + 16 * W
  <2>1. raw = q * 16 + a /\ q \in Int /\ q = p * 16 + b /\ p \in Int
    BY <1>1, <1>2
  <2> HIDE DEF q, p
  <2>2. raw \div 16 = q
    BY <1>1, <2>1, DivMod
  <2>3. q % 16 = b
    BY <1>1, <2>1, DivMod
  <2> QED
    BY <2>2, <2>3
<1>6. (raw \div 256) % 16 = c
  <2> DEFINE q == c + 16 * W
             low == a + 16 * b
             n == 256
  <2>1. raw = q * n + low /\ q \in Int /\ low \in 0 .. n - 1 /\ q = W * 16 + c /\ n \in Nat \ {0}
    BY <1>1, <1>2
  <2> HIDE DEF q, low, n
  <2>2. raw \div n = q
    BY <2>1, DivMod
  <2>3. q % 16 = c
    BY <1>1, <2>1, DivMod
  <2> QED
    BY <2>2, <2>3 DEF n
<1> QED
  BY <1>3, <1>4, <1>5, <1>6 DEF a, b, c, raw

\* Twelve low bits do not change a quotient of the bits above.
LooksThrough(low, top, w) == (low + 4096 * top) \div (4096 * w) = top \div w

\* What a quotient and its remainder make.
IsQuotient(a, n) == a \div n \in Nat /\ a % n \in 0 .. n - 1 /\ a = (a \div n) * n + (a % n)

LEMMA Quotients ==
  ASSUME NEW n \in Nat \ {0}, NEW a \in Nat
  PROVE  IsQuotient(a, n)
BY DivModOf DEF IsQuotient

LEMMA AboveTheLow ==
  ASSUME NEW bits \in Nat, bits < 4096, NEW top \in Nat, NEW w \in Nat \ {0}
  PROVE  LooksThrough(bits, top, w)
<1> DEFINE q == top \div w
           s == top % w
           u == 4096 * w
           v == bits + 4096 * s
<1>1. q \in Nat /\ s \in 0 .. w - 1 /\ top = q * w + s
  <2>1. IsQuotient(top, w)
    BY Quotients
  <2> QED
    BY <2>1 DEF IsQuotient
<1> HIDE DEF q, s
<1>2. u \in Nat \ {0} /\ v \in 0 .. u - 1
  BY <1>1
<1>3. bits + 4096 * top = q * u + v
  <2> DEFINE p == q * w
  <2>1. p \in Nat /\ top = p + s
    BY <1>1
  <2>2. q * (4096 * w) = 4096 * (q * w)
    BY <1>1
  <2>3. q * u = 4096 * p
    BY <2>2
  <2> HIDE DEF p, u
  <2> QED
    BY <1>1, <2>1, <2>3
<1> HIDE DEF u, v
<1>4. (q * u + v) \div u = q
  <2>1. q \in Int
    BY <1>1
  <2> QED
    BY <1>2, <2>1, DivMod
<1>5. (bits + 4096 * top) \div u = q
  BY <1>3, <1>4
<1> QED
  BY <1>5 DEF q, u, LooksThrough

\* Packing a record and unpacking the word gives the record.
LEMMA RecordRoundTrip ==
  ASSUME NEW r, IsRecord(r)
  PROVE  Unpack(Pack(r)) = r
<1> DEFINE raw == Pack(r)
           W == Word(Flags(r))
           low == LowFields(r)
           top == Weight[CheckDegree + 1]
<1>1. raw = low + 4096 * W /\ low \in Nat /\ low < 4096 /\ Flags(r) \in SUBSET BitPlaces
      /\ W \in 0 .. top - 1 /\ W \in Nat
  <2>1. W \in Nat
    BY PackedFields, WordFacts
  <2> QED
    BY <2>1, PackedFields
<1>2. /\ r.signs \in SUBSET (0 .. CheckDegree - 1) /\ r.argmin \in 0 .. CheckDegree - 1
      /\ r = [min1 |-> r.min1, min2 |-> r.min2, argmin |-> r.argmin, signs |-> r.signs, valid |-> TRUE]
  BY DEF IsRecord
<1>3. raw % 16 = r.min1 /\ (raw \div 16) % 16 = r.min2 /\ (raw \div 256) % 16 = r.argmin /\ raw \in Nat
  <2> HIDE DEF raw, W
  <2> QED
    BY <1>1, FieldsOfWord
<1> HIDE DEF raw, W, low, top
<1>4. ASSUME NEW b \in 0 .. CheckDegree
      PROVE  ((raw \div Weight[12 + b]) % 2 = 1) = (b \in Flags(r))
  <2> DEFINE w == Weight[b]
  <2>1. b \in BitPlaces /\ b \in 0 .. CheckDegree + 3
    BY WordSizes DEF BitPlaces
  <2>2. Weight[12 + b] = 4096 * w /\ w \in Nat \ {0}
    BY <2>1, WeightShifted, WeightFacts
  <2> HIDE DEF w
  <2>3. (low + 4096 * W) \div (4096 * w) = W \div w
    <3>1. low \in Nat /\ low < 4096 /\ W \in Nat /\ w \in Nat \ {0}
      BY <1>1, <2>2
    <3>2. LooksThrough(low, W, w)
      BY <3>1, AboveTheLow
    <3> QED
      BY <3>2 DEF LooksThrough
  <2>4. raw \div Weight[12 + b] = W \div w
    BY <1>1, <2>2, <2>3
  <2>5. ((W \div w) % 2 = 1) = (b \in Flags(r))
    BY <1>1, <2>1, BitOfWord DEF W, w
  <2> QED
    BY <2>4, <2>5
<1>5. {b \in 0 .. CheckDegree - 1 : (raw \div Weight[12 + b]) % 2 = 1} = r.signs
  <2>1. \A b \in 0 .. CheckDegree - 1 : (b \in Flags(r)) = (b \in r.signs)
    BY WordSizes DEF Flags
  <2>2. \A b \in 0 .. CheckDegree - 1 : ((raw \div Weight[12 + b]) % 2 = 1) = (b \in r.signs)
    BY <1>4, <2>1, WordSizes
  <2> QED
    BY <1>2, <2>2
<1>6. (raw \div Weight[VALID_BIT]) % 2 = 1
  <2>1. CheckDegree \in 0 .. CheckDegree /\ VALID_BIT = 12 + CheckDegree /\ CheckDegree \in Flags(r)
    BY WordSizes DEF Flags
  <2> QED
    BY <1>4, <2>1
<1>7. top \in Nat \ {0} /\ Weight[VALID_BIT + 1] = 4096 * top /\ raw < 4096 * top
  <2>1. CheckDegree + 1 \in 0 .. CheckDegree + 3 /\ VALID_BIT + 1 = 12 + (CheckDegree + 1)
    BY WordSizes
  <2>2. Weight[VALID_BIT + 1] = 4096 * top /\ CheckDegree + 1 \in BitPlaces
    BY <2>1, WeightShifted DEF top
  <2>3. top \in Nat \ {0}
    BY <2>2, WeightFacts DEF top
  <2>4. raw < 4096 * top
    BY <1>1, <2>3
  <2> QED
    BY <2>2, <2>3, <2>4
<1>8. raw \div Weight[VALID_BIT + 1] = 0
  <2> DEFINE u == 4096 * top
  <2>1. u \in Nat \ {0} /\ raw \in 0 .. u - 1 /\ 0 \in Int
    BY <1>3, <1>7
  <2> HIDE DEF u
  <2>2. 0 * u + raw = raw
    BY <2>1
  <2>3. (0 * u + raw) \div u = 0
    BY <2>1, DivMod
  <2> QED
    BY <1>7, <2>2, <2>3 DEF u
<1>9. raw % Weight[WORD_BITS] = raw
  <2>1. /\ WORD_BITS \in 1 .. WORD_BITS /\ WORD_BITS - 1 \in 1 .. WORD_BITS
        /\ (WORD_BITS - 1) - 1 = VALID_BIT + 1
    BY WordSizes
  <2>2. Weight[WORD_BITS] = 2 * Weight[WORD_BITS - 1]
    BY <2>1, WeightFacts
  <2>3. Weight[WORD_BITS - 1] = 2 * Weight[VALID_BIT + 1]
    BY <2>1, WeightFacts
  <2> DEFINE u == Weight[WORD_BITS]
  <2>4. u = 4 * (4096 * top)
    BY <1>7, <2>2, <2>3
  <2> HIDE DEF u
  <2>5. u \in Nat \ {0} /\ raw \in 0 .. u - 1 /\ 0 \in Int
    BY <1>3, <1>7, <2>4
  <2>6. 0 * u + raw = raw
    BY <2>5
  <2>7. (0 * u + raw) % u = raw
    BY <2>5, DivMod
  <2> QED
    BY <2>6, <2>7 DEF u
<1> DEFINE word == raw % Weight[WORD_BITS]
           argmin == (word \div 256) % 16
           Signs == {b \in 0 .. CheckDegree - 1 : (word \div Weight[12 + b]) % 2 = 1}
<1>10. Unpack(raw) =
         [min1 |-> word % 16, min2 |-> (word \div 16) % 16, argmin |-> argmin, signs |-> Signs,
          valid |-> (word \div Weight[VALID_BIT]) % 2 = 1 /\ argmin < CheckDegree
                    /\ word \div Weight[VALID_BIT + 1] = 0]
  BY DEF Unpack
<1>11. word = raw
  BY <1>9
<1> HIDE DEF word
<1>12. Signs = r.signs
  BY <1>5, <1>11
<1> HIDE DEF Signs
<1>13. argmin = r.argmin /\ argmin < CheckDegree
  BY <1>2, <1>3, <1>11, WordSizes
<1> HIDE DEF argmin
<1>14. Unpack(raw) = [min1 |-> r.min1, min2 |-> r.min2, argmin |-> r.argmin, signs |-> r.signs,
                      valid |-> TRUE]
  BY <1>3, <1>6, <1>8, <1>10, <1>11, <1>12, <1>13
<1> QED
  BY <1>2, <1>14 DEF raw

\* For every degree a record can have, all messages and both syndrome bits: the scalar
\* form, the batch, the flooding form and the exclusion of the own edge agree, and the
\* compressed record gives every message back through its word (wide_minsum.py,
\* fixed_point.py, check_record.py, paper_gross144_stage2.py).
THEOREM UpdatesAreOne ==
  ASSUME NEW x \in [1 .. CheckDegree -> Int], NEW bit \in 0 .. 1
  PROVE  UpdatesAgree(x, bit)
<1> DEFINE full == FixedCheckUpdate(x, bit)
           record == Compress(full)
<1>1. x \in [Ports -> Int]
  BY DEF Ports
<1>2. WideCheckUpdate(x, bit) = Excluding(x, bit, WIDE_MAG_MAX, LAMBDA m : m - (m \div 8))
  BY <1>1, WideIsExcluding
<1>3. BatchCheckUpdate(x, bit) = WideCheckUpdate(x, bit)
  BY <1>1, BatchIsWide
<1>4. FloodCheckUpdate(x, bit, 63) = Excluding(x, bit, 63, LAMBDA m : m)
  BY <1>1, FloodIsExcluding
<1>5. PICK at, low, high : IsOutgoing(full, at, low, high)
  BY <1>1, FullIsOutgoing
<1> HIDE DEF full
<1>6. Compressible(full) /\ IsRecord(record) /\ Reconstruct(record) = full
  BY <1>5, RecordIsWhole
<1>7. Unpack(Pack(record)) = record
  <2> HIDE DEF record
  <2> QED
    BY <1>6, RecordRoundTrip
<1>8. Reconstruct(Unpack(Pack(Compress(full)))) = full
  BY <1>6, <1>7
<1> QED
  BY <1>2, <1>3, <1>4, <1>6, <1>8 DEF UpdatesAgree, full
-----------------------------------------------------------------------------
(* A schedule visits every check once.                                     *)

\* A sequence turned round has the same members.
LEMMA ReverseFacts ==
  ASSUME NEW T, NEW s \in Seq(T)
  PROVE  Reverse(s) \in Seq(T) /\ Len(Reverse(s)) = Len(s) /\ ToSet(Reverse(s)) = ToSet(s)
<1> DEFINE n == Len(s)
           r == Reverse(s)
<1>1. n \in Nat /\ DOMAIN s = 1..n /\ \A i \in 1..n : s[i] \in T /\ n - i + 1 \in 1..n
  OBVIOUS
<1>2. r = [i \in 1..n |-> s[n - i + 1]]
  BY DEF Reverse
<1> HIDE DEF r
<1>3. DOMAIN r = 1..n /\ r \in Seq(T) /\ Len(r) = n
  <2>1. r \in [1..n -> T]
    BY <1>1, <1>2
  <2> QED
    BY <1>1, <2>1
<1>4. \A x \in ToSet(s) : x \in ToSet(r)
  <2> SUFFICES ASSUME NEW x \in ToSet(s) PROVE x \in ToSet(r)
    OBVIOUS
  <2>1. PICK i \in 1..n : x = s[i]
    BY <1>1 DEF ToSet
  <2>2. n - i + 1 \in 1..n /\ n - (n - i + 1) + 1 = i
    BY <1>1
  <2>3. r[n - i + 1] = s[i]
    BY <1>2, <2>2
  <2> QED
    BY <1>3, <2>1, <2>2, <2>3 DEF ToSet
<1>5. \A x \in ToSet(r) : x \in ToSet(s)
  BY <1>1, <1>2, <1>3 DEF ToSet
<1>6. ToSet(r) = ToSet(s)
  BY <1>4, <1>5
<1> QED
  BY <1>3, <1>6 DEF r

\* The lanes of a slice, as they are or turned round: the groups, and each of them.
InSlice(lanes, back) ==
  FlattenSeq(IF back THEN Reverse([g \in DOMAIN lanes |-> Reverse(lanes[g])])
             ELSE [g \in DOMAIN lanes |-> lanes[g]])

LEMMA InSliceFacts ==
  ASSUME NEW lanes \in Seq(Seq(Nat)), NEW back
  PROVE  /\ InSlice(lanes, back) \in Seq(Nat)
         /\ Len(InSlice(lanes, back)) = Len(FlattenSeq(lanes))
         /\ ToSet(InSlice(lanes, back)) = ToSet(FlattenSeq(lanes))
<1> DEFINE n == Len(lanes)
           plain == [g \in DOMAIN lanes |-> lanes[g]]
           each == [g \in DOMAIN lanes |-> Reverse(lanes[g])]
           turned == Reverse(each)
<1>1. n \in Nat /\ DOMAIN lanes = 1..n /\ \A i \in 1..n : lanes[i] \in Seq(Nat) /\ n - i + 1 \in 1..n
  OBVIOUS
<1>2. plain = lanes
  OBVIOUS
<1>3. each \in Seq(Seq(Nat)) /\ Len(each) = n
  <2>1. \A i \in 1..n : Reverse(lanes[i]) \in Seq(Nat)
    BY <1>1, ReverseFacts
  <2>2. each \in [1..n -> Seq(Nat)]
    BY <1>1, <2>1
  <2>3. \A W : \A f \in [1..n -> W] : f \in Seq(W) /\ Len(f) = n
    <3>1. n \in Nat
      OBVIOUS
    <3> HIDE DEF n
    <3> QED
      BY <3>1
  <2> HIDE DEF each
  <2> QED
    BY <2>2, <2>3
<1>4. turned \in Seq(Seq(Nat)) /\ Len(turned) = n
  <2> HIDE DEF each
  <2> QED
    BY <1>3, ReverseFacts
<1>5. \A i \in 1..n : turned[i] = Reverse(lanes[n - i + 1])
  <2>1. \A i \in 1..n : each[i] = Reverse(lanes[i])
    BY <1>1
  <2> HIDE DEF each
  <2>2. turned = [i \in 1..n |-> each[n - i + 1]]
    BY <1>3 DEF Reverse
  <2> HIDE DEF turned
  <2> QED
    BY <1>1, <2>1, <2>2
<1>6. \A i \in 1..n : Len(turned[i]) = Len(lanes[n - i + 1]) /\ ToSet(turned[i]) = ToSet(lanes[n - i + 1])
  <2> HIDE DEF turned
  <2> QED
    BY <1>1, <1>5, ReverseFacts
<1> HIDE DEF plain, each, turned
<1>7. Len(FlattenSeq(turned)) = Len(FlattenSeq(lanes))
  BY <1>4, <1>6, FlattenedTurned
<1>8. ToSet(FlattenSeq(turned)) = ToSet(FlattenSeq(lanes)) /\ FlattenSeq(turned) \in Seq(Nat)
  <2>1. /\ ToSet(FlattenSeq(turned)) = UNION {ToSet(turned[i]) : i \in 1..n}
        /\ ToSet(FlattenSeq(lanes)) = UNION {ToSet(lanes[i]) : i \in 1..n}
        /\ FlattenSeq(turned) \in Seq(Nat)
    BY <1>4, FlattenedSet
  <2>2. UNION {ToSet(turned[i]) : i \in 1..n} = UNION {ToSet(lanes[i]) : i \in 1..n}
    <3>1. \A x : (\E i \in 1..n : x \in ToSet(turned[i])) => \E i \in 1..n : x \in ToSet(lanes[i])
      BY <1>1, <1>6
    <3>2. \A x : (\E i \in 1..n : x \in ToSet(lanes[i])) => \E i \in 1..n : x \in ToSet(turned[i])
      <4> SUFFICES ASSUME NEW x, NEW i \in 1..n, x \in ToSet(lanes[i])
                   PROVE  \E j \in 1..n : x \in ToSet(turned[j])
        OBVIOUS
      <4>1. n - i + 1 \in 1..n /\ n - (n - i + 1) + 1 = i
        BY <1>1
      <4>2. x \in ToSet(turned[n - i + 1])
        BY <4>1, <1>6
      <4> QED
        BY <4>1, <4>2
    <3> QED
      BY <3>1, <3>2
  <2> QED
    BY <2>1, <2>2
<1>9. InSlice(lanes, back) = IF back THEN FlattenSeq(turned) ELSE FlattenSeq(lanes)
  BY <1>2 DEF InSlice, turned, each, plain
<1>10. FlattenSeq(lanes) \in Seq(Nat)
  BY FlattenedSet
<1> QED
  BY <1>7, <1>8, <1>9, <1>10

\* The bases of the slices, each once.
IsBases(bases, slices) ==
  bases \in [1..slices -> 0 .. slices - 1] /\ \A b \in 0 .. slices - 1 : \E t \in 1..slices : bases[t] = b

LEMMA CyclicBases ==
  ASSUME NEW slices \in Nat, NEW stride \in Nat, NEW i \in Nat \ {0}, NEW back
  PROVE  IsBases(Cyclic(slices, stride, i, back), slices)
<1> DEFINE start == ((i - 1) * stride) % slices
           up == [o \in 1..slices |-> (start + (o - 1)) % slices]
           down == [o \in 1..slices |-> (start - (o - 1)) % slices]
<1>1. CASE slices = 0
  <2>1. 1..slices = {} /\ 0 .. slices - 1 = {}
    BY <1>1
  <2>2. DOMAIN Cyclic(slices, stride, i, back) = 1..slices
        /\ Cyclic(slices, stride, i, back) = [o \in 1..slices |-> Cyclic(slices, stride, i, back)[o]]
    BY DEF Cyclic
  <2> QED
    BY <2>1, <2>2 DEF IsBases
<1>2. CASE slices # 0
  <2>1. start \in 0 .. slices - 1
    <3>1. (i - 1) * stride \in Nat
      OBVIOUS
    <3> QED
      BY <3>1, <1>2, DivModOf
  <2> HIDE DEF start
  <2>2. \A a \in Int : a % slices \in 0 .. slices - 1 /\ a = (a \div slices) * slices + (a % slices)
                       /\ a \div slices \in Int
    BY <1>2
  <2>3. \A q \in Int : \A r \in 0 .. slices - 1 : (q * slices + r) % slices = r
    BY <1>2, DivMod
  <2>4. IsBases(up, slices)
    <3>1. up \in [1..slices -> 0 .. slices - 1]
      BY <2>1, <2>2
    <3>2. ASSUME NEW b \in 0 .. slices - 1 PROVE \E t \in 1..slices : up[t] = b
      <4> DEFINE r == (b - start) % slices
                 q == (b - start) \div slices
      <4>1. b - start \in Int
        BY <2>1
      <4>2. r \in 0 .. slices - 1 /\ b - start = q * slices + r /\ q \in Int
        BY <2>2, <4>1
      <4>3. -q \in Int /\ (-q) * slices = -(q * slices) /\ q * slices \in Int
        BY <4>2
      <4> HIDE DEF q, r
      <4>4. start + ((r + 1) - 1) = (-q) * slices + b /\ r + 1 \in 1..slices
        BY <2>1, <4>2, <4>3
      <4>5. (start + ((r + 1) - 1)) % slices = b
        BY <2>3, <4>3, <4>4
      <4>6. up[r + 1] = b
        BY <4>4, <4>5
      <4> QED
        BY <4>4, <4>6
    <3> HIDE DEF up
    <3> QED
      BY <3>1, <3>2 DEF IsBases
  <2>5. IsBases(down, slices)
    <3>1. down \in [1..slices -> 0 .. slices - 1]
      BY <2>1, <2>2
    <3>2. ASSUME NEW b \in 0 .. slices - 1 PROVE \E t \in 1..slices : down[t] = b
      <4> DEFINE r == (start - b) % slices
                 q == (start - b) \div slices
      <4>1. start - b \in Int
        BY <2>1
      <4>2. r \in 0 .. slices - 1 /\ start - b = q * slices + r /\ q \in Int
        BY <2>2, <4>1
      <4>3. q * slices \in Int
        BY <4>2
      <4> HIDE DEF q, r
      <4>4. start - ((r + 1) - 1) = q * slices + b /\ r + 1 \in 1..slices
        BY <2>1, <4>2, <4>3
      <4>5. (start - ((r + 1) - 1)) % slices = b
        BY <2>3, <4>2, <4>4
      <4>6. down[r + 1] = b
        BY <4>4, <4>5
      <4> QED
        BY <4>4, <4>6
    <3> HIDE DEF down
    <3> QED
      BY <3>1, <3>2 DEF IsBases
  <2>6. Cyclic(slices, stride, i, back) = IF back THEN down ELSE up
    BY DEF Cyclic, start
  <2> HIDE DEF up, down
  <2> QED
    BY <2>4, <2>5, <2>6
<1> QED
  BY <1>1, <1>2

LEMMA PlainBases ==
  ASSUME NEW slices \in Nat
  PROVE  LET plain == [t \in 1..slices |-> t - 1]
         IN  IsBases(plain, slices) /\ IsBases(Reverse(plain), slices)
<1> DEFINE plain == [t \in 1..slices |-> t - 1]
           turned == Reverse(plain)
<1>1. plain \in [1..slices -> 0 .. slices - 1] /\ Len(plain) = slices
  OBVIOUS
<1>2. \A b \in 0 .. slices - 1 : b + 1 \in 1..slices /\ plain[b + 1] = b
  OBVIOUS
<1>3. turned = [t \in 1..slices |-> plain[slices - t + 1]]
  BY <1>1 DEF Reverse
<1>4. \A t \in 1..slices : slices - t + 1 \in 1..slices /\ plain[slices - t + 1] = slices - t
  OBVIOUS
<1>5. IsBases(plain, slices)
  <2> HIDE DEF plain
  <2> QED
    BY <1>1, <1>2 DEF IsBases
<1>6. IsBases(turned, slices)
  <2> HIDE DEF plain, turned
  <2>1. turned \in [1..slices -> 0 .. slices - 1]
    BY <1>3, <1>4
  <2>2. ASSUME NEW b \in 0 .. slices - 1 PROVE \E t \in 1..slices : turned[t] = b
    <3>1. slices - b \in 1..slices /\ slices - (slices - b) = b
      OBVIOUS
    <3>2. turned[slices - b] = b
      BY <1>3, <1>4, <3>1
    <3> QED
      BY <3>1, <3>2
  <2> QED
    BY <2>1, <2>2 DEF IsBases
<1> QED
  BY <1>5, <1>6

\* The checks of the slices at their bases are all the checks.
SlicesAt(bases, spatial, inSlice) ==
  FlattenSeq([t \in DOMAIN bases |-> [k \in 1..spatial |-> bases[t] * spatial + inSlice[k] + 1]])

LEMMA SlicesCover ==
  ASSUME NEW slices \in Nat, NEW bases, IsBases(bases, slices), NEW spatial \in Nat \ {0},
         NEW inSlice \in Seq(Nat), Len(inSlice) = spatial, ToSet(inSlice) = 0 .. spatial - 1
  PROVE  /\ SlicesAt(bases, spatial, inSlice) \in Seq(1 .. slices * spatial)
         /\ Len(SlicesAt(bases, spatial, inSlice)) = slices * spatial
         /\ ToSet(SlicesAt(bases, spatial, inSlice)) = 1 .. slices * spatial
<1> DEFINE size == slices * spatial
           C == 1 .. size
           check(t, k) == bases[t] * spatial + inSlice[k] + 1
           blocks == [t \in 1..slices |-> [k \in 1..spatial |-> check(t, k)]]
<1>1. size \in Nat
  OBVIOUS
<1>2. bases \in [1..slices -> 0 .. slices - 1] /\ DOMAIN bases = 1..slices
  BY DEF IsBases
<1>3. DOMAIN inSlice = 1..spatial /\ \A k \in 1..spatial : inSlice[k] \in 0 .. spatial - 1
  <2>1. DOMAIN inSlice = 1..spatial
    OBVIOUS
  <2> QED
    BY <2>1 DEF ToSet
<1>4. \A t \in 1..slices, k \in 1..spatial : check(t, k) \in C
  <2> SUFFICES ASSUME NEW t \in 1..slices, NEW k \in 1..spatial PROVE check(t, k) \in C
    OBVIOUS
  <2> DEFINE b == bases[t]
             s == inSlice[k]
             p == b * spatial
  <2>1. b \in 0 .. slices - 1 /\ s \in 0 .. spatial - 1
    BY <1>2, <1>3
  <2>2. p \in Nat /\ p + spatial <= size
    <3> HIDE DEF b
    <3>1. b + 1 <= slices /\ b \in Nat
      BY <2>1
    <3>2. (b + 1) * spatial <= slices * spatial
      BY <3>1
    <3>3. (b + 1) * spatial = b * spatial + spatial /\ b * spatial \in Nat
      BY <3>1
    <3> QED
      BY <3>2, <3>3
  <2> HIDE DEF p, s, size
  <2>3. p + s + 1 \in C
    BY <1>1, <2>1, <2>2
  <2> QED
    BY <2>3 DEF p, s
<1>5. blocks \in Seq(Seq(C)) /\ Len(blocks) = slices /\ \A t \in 1..slices : Len(blocks[t]) = spatial
  <2> HIDE DEF check
  <2>1. \A t \in 1..slices : blocks[t] = [k \in 1..spatial |-> check(t, k)]
    OBVIOUS
  <2>2. \A t \in 1..slices : [k \in 1..spatial |-> check(t, k)] \in [1..spatial -> C]
    BY <1>4
  <2>3. [1..spatial -> C] \subseteq Seq(C) /\ \A f \in [1..spatial -> C] : Len(f) = spatial
    OBVIOUS
  <2>4. \A t \in 1..slices : blocks[t] \in Seq(C) /\ Len(blocks[t]) = spatial
    BY <2>1, <2>2, <2>3
  <2>5. DOMAIN blocks = 1..slices /\ blocks = [t \in 1..slices |-> blocks[t]]
    OBVIOUS
  <2> HIDE DEF blocks, C
  <2>6. blocks \in [1..slices -> Seq(C)]
    BY <2>4, <2>5
  <2> QED
    BY <2>4, <2>6
<1>6. SlicesAt(bases, spatial, inSlice) = FlattenSeq(blocks)
  BY <1>2 DEF SlicesAt
<1>7. \A c \in C : \E t \in 1..slices : c \in ToSet(blocks[t])
  <2> SUFFICES ASSUME NEW c \in C PROVE \E t \in 1..slices : c \in ToSet(blocks[t])
    OBVIOUS
  <2> DEFINE b == (c - 1) \div spatial
             s == (c - 1) % spatial
  <2>1. c - 1 \in Nat
    BY <1>1
  <2>2. b \in Nat /\ s \in 0 .. spatial - 1 /\ c - 1 = b * spatial + s
    BY <2>1, DivModOf
  <2> HIDE DEF b, s
  <2>3. b < slices
    <3>1. ~(b >= slices)
      <4> SUFFICES ASSUME b >= slices PROVE FALSE
        OBVIOUS
      <4>1. b * spatial >= slices * spatial
        BY <2>2
      <4>2. b * spatial \in Nat /\ slices * spatial \in Nat
        BY <2>2
      <4> QED
        BY <2>2, <4>1, <4>2
    <3> QED
      BY <2>2, <3>1
  <2>4. PICK t \in 1..slices : bases[t] = b
    BY <2>2, <2>3 DEF IsBases
  <2>5. PICK k \in 1..spatial : inSlice[k] = s
    BY <2>2, <1>3 DEF ToSet
  <2>6. check(t, k) = c
    <3>1. b * spatial \in Nat
      BY <2>2
    <3> QED
      BY <2>2, <2>4, <2>5, <3>1
  <2>7. blocks[t][k] = c /\ DOMAIN blocks[t] = 1..spatial
    BY <2>6
  <2> HIDE DEF blocks, check
  <2> QED
    BY <2>7 DEF ToSet
<1> HIDE DEF blocks, C, size
<1>8. /\ FlattenSeq(blocks) \in Seq(C)
      /\ ToSet(FlattenSeq(blocks)) = UNION {ToSet(blocks[t]) : t \in 1..slices}
  BY <1>5, FlattenedSet
<1>9. Len(FlattenSeq(blocks)) = slices * spatial
  BY <1>5, FlattenedEven
<1>10. ToSet(FlattenSeq(blocks)) = C
  <2>1. ToSet(FlattenSeq(blocks)) \subseteq C
    BY <1>8 DEF ToSet
  <2>2. C \subseteq ToSet(FlattenSeq(blocks))
    BY <1>7, <1>8
  <2> QED
    BY <2>1, <2>2
<1> QED
  BY <1>6, <1>8, <1>9, <1>10 DEF C, size

\* Every schedule visits every check once a sweep.
LEMMA ScheduleCovers ==
  ASSUME NEW R, NEW graph \in Seq(R), NEW schedule, IsSchedule(schedule, Len(graph)),
         NEW i \in Nat \ {0}
  PROVE  /\ IterationChecks(graph, schedule, i) \in Seq(DOMAIN graph)
         /\ Len(IterationChecks(graph, schedule, i)) = Len(graph)
         /\ ToSet(IterationChecks(graph, schedule, i)) = DOMAIN graph
<1> DEFINE back == Backward(schedule, i)
           n == Len(graph)
           spatial == Len(FlattenSeq(schedule.lanes))
           slices == n \div spatial
           plain == [t \in 1..slices |-> t - 1]
           turned == IF back THEN Reverse(plain) ELSE plain
           bases == CASE schedule.kind = "cyclic"  -> Cyclic(slices, schedule.stride, i, back)
                      [] schedule.kind = "twolane" -> plain
                      [] OTHER                     -> turned
           inSlice == InSlice(schedule.lanes, back)
<1>1. /\ schedule.stride \in Nat /\ schedule.lanes \in Seq(Seq(Nat))
      /\ FlattenSeq(schedule.lanes) # <<>>
      /\ ToSet(FlattenSeq(schedule.lanes)) = 0 .. spatial - 1 /\ n % spatial = 0
  BY DEF IsSchedule
<1>2. spatial \in Nat \ {0}
  <2>1. FlattenSeq(schedule.lanes) \in Seq(Nat)
    BY <1>1, FlattenedSet
  <2> QED
    BY <1>1, <2>1
<1>3. n \in Nat /\ DOMAIN graph = 1..n
  OBVIOUS
<1>4. slices \in Nat /\ slices * spatial = n
  <2> HIDE DEF spatial, n
  <2>1. n \div spatial \in Nat /\ n = (n \div spatial) * spatial + (n % spatial)
    BY <1>2, <1>3, DivModOf
  <2>2. (n \div spatial) * spatial \in Nat
    BY <1>2, <2>1
  <2> QED
    BY <1>1, <2>1, <2>2
<1>5. inSlice \in Seq(Nat) /\ Len(inSlice) = spatial /\ ToSet(inSlice) = 0 .. spatial - 1
  BY <1>1, InSliceFacts
<1>6. IsBases(plain, slices) /\ IsBases(turned, slices)
        /\ IsBases(Cyclic(slices, schedule.stride, i, back), slices)
  <2> HIDE DEF slices, back
  <2>1. IsBases(plain, slices) /\ IsBases(Reverse(plain), slices)
    BY <1>4, PlainBases
  <2>2. IsBases(Cyclic(slices, schedule.stride, i, back), slices)
    BY <1>1, <1>4, CyclicBases
  <2> HIDE DEF plain
  <2> QED
    BY <2>1, <2>2
<1>7. IsBases(bases, slices)
  <2>1. bases \in {plain, turned, Cyclic(slices, schedule.stride, i, back)}
    <3> HIDE DEF plain, turned, slices, back
    <3>1. CASE schedule.kind = "cyclic"
      BY <3>1
    <3>2. CASE schedule.kind = "twolane"
      BY <3>2
    <3>3. CASE schedule.kind # "cyclic" /\ schedule.kind # "twolane"
      BY <3>3
    <3> QED
      BY <3>1, <3>2, <3>3
  <2> HIDE DEF plain, turned, slices, back, bases
  <2> QED
    BY <1>6, <2>1
<1>8. IterationChecks(graph, schedule, i) = SlicesAt(bases, spatial, inSlice)
  <2> DEFINE turn(s) == IF back THEN Reverse(s) ELSE s
             in == FlattenSeq(turn([g \in DOMAIN schedule.lanes |-> turn(schedule.lanes[g])]))
  <2>1. in = inSlice
    <3>1. CASE back
      BY <3>1 DEF InSlice
    <3>2. CASE ~back
      BY <3>2 DEF InSlice
    <3> QED
      BY <3>1, <3>2
  <2>2. IterationChecks(graph, schedule, i)
          = FlattenSeq([t \in DOMAIN bases |-> [k \in 1..spatial |-> bases[t] * spatial + in[k] + 1]])
    BY DEF IterationChecks
  <2> HIDE DEF in, inSlice, bases, spatial
  <2> QED
    BY <2>1, <2>2 DEF SlicesAt
<1> HIDE DEF bases, spatial, inSlice, slices, n
<1>9. /\ SlicesAt(bases, spatial, inSlice) \in Seq(1 .. slices * spatial)
      /\ Len(SlicesAt(bases, spatial, inSlice)) = slices * spatial
      /\ ToSet(SlicesAt(bases, spatial, inSlice)) = 1 .. slices * spatial
  BY <1>2, <1>4, <1>5, <1>7, SlicesCover
<1> QED
  BY <1>3, <1>4, <1>8, <1>9 DEF n

-----------------------------------------------------------------------------
(* What the updates send.                                                  *)

\* The messages are whole numbers, of at most five bits in the decoders.
MessageRange == -WIDE_MAG_MAX .. WIDE_MAG_MAX

LEMMA WideType ==
  ASSUME NEW n \in Nat \ {0, 1}, NEW x \in [1 .. n -> Int], NEW bit
  PROVE  WideCheckUpdate(x, bit) \in [1 .. n -> MessageRange]
<1> DEFINE m == Magnitudes(x)
           at == FirstPlace(x)
           t == TwoMinima(x)
           least(e) == IF e = t.argmin THEN t.min2 ELSE t.min1
           Wide(e) == Signed(Negative(x, DOMAIN x, bit) # (x[e] < 0),
                             Normalize(least(e), 3, WIDE_MAG_MAX))
<1>1. HasTwoMinima(m, at, n) /\ DOMAIN x = 1 .. n
  BY FirstOfRow, RowFacts
<1>2. t.min1 = m[at] /\ t.argmin = at /\ t.min2 = LeastOther(m, at)
  BY MinimaOfRow
<1>3. \A e \in 1 .. n : least(e) \in Nat
  <2> HIDE DEF m, at, t
  <2> QED
    BY <1>1, <1>2 DEF HasTwoMinima
<1>4. \A a \in Nat : Normalize(a, 3, WIDE_MAG_MAX) \in 0 .. WIDE_MAG_MAX
  <2> SUFFICES ASSUME NEW a \in Nat PROVE Normalize(a, 3, WIDE_MAG_MAX) \in 0 .. WIDE_MAG_MAX
    OBVIOUS
  <2>1. 2^3 = 8
    OBVIOUS
  <2>2. a - (a \div 8) \in Nat
    OBVIOUS
  <2> QED
    BY <2>1, <2>2 DEF Normalize, Least, WIDE_MAG_MAX
<1>5. \A a \in 0 .. WIDE_MAG_MAX : \A b : Signed(b, a) \in MessageRange
  BY DEF Signed, MessageRange, WIDE_MAG_MAX
<1>6. WideCheckUpdate(x, bit) = [e \in DOMAIN x |-> Wide(e)]
  BY DEF WideCheckUpdate
<1> HIDE DEF least
<1>7. \A e \in 1 .. n : Wide(e) \in MessageRange
  BY <1>3, <1>4, <1>5
<1> HIDE DEF Wide
<1> QED
  BY <1>1, <1>6, <1>7

LEMMA FixedType ==
  ASSUME NEW n \in Nat \ {0, 1}, NEW x \in [1 .. n -> Int], NEW bit
  PROVE  FixedCheckUpdate(x, bit) \in [1 .. n -> MessageRange]
<1> DEFINE scaled(o) == Normalize(Abs(x[o]), 2, MESSAGE_MAG_MAX)
           V(e) == {scaled(o) : o \in DOMAIN x \ {e}}
           Sent(e) == IF DOMAIN x \ {e} = {} THEN 0
                      ELSE Signed(Negative(x, DOMAIN x \ {e}, bit), Min(V(e)))
<1>1. DOMAIN x = 1 .. n
  OBVIOUS
<1>2. \A o \in 1 .. n : scaled(o) \in 0 .. MESSAGE_MAG_MAX
  <2> SUFFICES ASSUME NEW o \in 1 .. n PROVE scaled(o) \in 0 .. MESSAGE_MAG_MAX
    OBVIOUS
  <2>1. Abs(x[o]) \in Nat
    BY DEF Abs
  <2> QED
    BY <2>1, NormalizedType
<1>3. FixedCheckUpdate(x, bit) = [e \in DOMAIN x |-> Sent(e)]
  BY DEF FixedCheckUpdate
<1>4. \A a \in 0 .. MESSAGE_MAG_MAX : \A b : Signed(b, a) \in MessageRange
  BY DEF Signed, MessageRange, WIDE_MAG_MAX, MESSAGE_MAG_MAX
<1>5. ASSUME NEW e \in 1 .. n PROVE Sent(e) \in MessageRange
  <2>1. (IF e = 1 THEN 2 ELSE 1) \in DOMAIN x \ {e}
    OBVIOUS
  <2> HIDE DEF scaled
  <2>2. V(e) \subseteq 0 .. MESSAGE_MAG_MAX /\ V(e) # {}
    BY <1>1, <1>2, <2>1
  <2>3. V(e) \in SUBSET Nat
    <3>1. 0 .. MESSAGE_MAG_MAX \subseteq Nat
      BY DEF MESSAGE_MAG_MAX
    <3> HIDE DEF V
    <3> QED
      BY <2>2, <3>1
  <2> HIDE DEF V
  <2>4. Min(V(e)) \in 0 .. MESSAGE_MAG_MAX
    BY <2>2, <2>3, LeastOfNaturals
  <2> QED
    BY <1>4, <2>1, <2>4
<1> HIDE DEF Sent
<1> QED
  BY <1>1, <1>3, <1>5

-----------------------------------------------------------------------------
(* Box-plus.                                                               *)

LEMMA BoxPlusType ==
  ASSUME NEW a \in Int, NEW b \in Int
  PROVE  BoxPlus(a, b) \in Int
<1> DEFINE l == Least(Abs(a), 15)
           r == Least(Abs(b), 15)
<1>1. l \in 0 .. 15 /\ r \in 0 .. 15
  BY DEF Least, Abs
<1>2. \A d \in 0 .. 15 : SoftPlus[d] \in Int
  <2>1. DOMAIN SoftPlus = 0 .. 15
    BY DEF SoftPlus
  <2> QED
    BY DEF SoftPlus
<1>3. \A d, s \in Nat : Correction(d, s) \in Int
  <2> SUFFICES ASSUME NEW d \in Nat, NEW s \in Nat PROVE Correction(d, s) \in Int
    OBVIOUS
  <2>1. Least(d, 15) \in 0 .. 15 /\ Least(s, 15) \in 0 .. 15
    BY DEF Least
  <2>2. SoftPlus[Least(d, 15)] \in Int /\ SoftPlus[Least(s, 15)] \in Int
    BY <1>2, <2>1
  <2> DEFINE entry == (SoftPlus[Least(d, 15)] - SoftPlus[Least(s, 15)] + 5000) \div 10000
  <2>3. entry \in Int
    BY <2>2
  <2> HIDE DEF entry
  <2>4. (IF entry < 0 THEN 0 ELSE entry) \in Int
    BY <2>3
  <2> QED
    BY <2>4 DEF Correction, entry
<1> HIDE DEF l, r
<1> DEFINE m == Least(l, r) + Correction(Abs(l - r), l + r)
<1>4. m \in Int
  <2>1. Abs(l - r) \in Nat /\ l + r \in Nat /\ Least(l, r) \in Int
    BY <1>1 DEF Abs, Least
  <2> QED
    BY <1>3, <2>1
<1> HIDE DEF m
<1>5. -Least(m, 16) \in Int /\ Least(m, 15) \in Int
  BY <1>4 DEF Least
<1>6. BoxPlus(a, b) = IF a = 0 \/ b = 0 THEN 0
                      ELSE IF (a < 0) # (b < 0) THEN -Least(m, 16) ELSE Least(m, 15)
  BY DEF BoxPlus, m, l, r
<1> QED
  BY <1>5, <1>6

\* One more message is folded in.
FoldOne(acc, v) == IF acc = 0 THEN v ELSE BoxPlus(acc, v)

LEMMA FoldedType ==
  ASSUME NEW y \in Seq(Int)
  PROVE  FoldLeft(LAMBDA acc, v : IF acc = 0 THEN v ELSE BoxPlus(acc, v), 0, y) \in Int
<1> DEFINE n == Len(y)
           V == Int
           b == 0
           Step(s, k) == FoldOne(s, y[k])
           step == [k \in 1 .. n |-> [s \in V |-> Step(s, k)]]
           Rec(h) == [S \in SUBSET (1 .. n) |-> IF S = {} THEN b ELSE Step(h[S \ {Max(S)}], Max(S))]
<1>1. n \in Nat /\ DOMAIN y = 1 .. n /\ \A k \in 1 .. n : y[k] \in Int
  OBVIOUS
<1>2. IsStep(step, V, n)
  <2>1. ASSUME NEW k \in 1 .. n, NEW s \in V PROVE Step(s, k) \in V
    BY <1>1, BoxPlusType DEF FoldOne
  <2> HIDE DEF V, Step
  <2> QED
    BY <2>1 DEF IsStep
<1>3. b \in V
  OBVIOUS
<1>4. PICK g : IsFold(g, V, b, n, step)
  <2> HIDE DEF step, n, V, b
  <2> QED
    BY <1>1, <1>2, <1>3, FoldExists
<1>5. g = Rec(g)
  <2>1. g \in [SUBSET (1 .. n) -> V] /\ g[{}] = b
    BY <1>4 DEF IsFold
  <2>2. ASSUME NEW S \in SUBSET (1 .. n), S # {} PROVE g[S] = Step(g[S \ {Max(S)}], Max(S))
    <3>1. Max(S) \in 1 .. n /\ S \ {Max(S)} \in SUBSET (1 .. n)
      BY <1>1, <2>2, MaxOfPositions
    <3>2. g[S] = step[Max(S)][g[S \ {Max(S)}]]
      BY <1>4, <2>2 DEF IsFold
    <3> HIDE DEF V, Step, n
    <3> QED
      BY <3>1, <3>2, <2>1
  <2> HIDE DEF V, Step, n, b
  <2> QED
    BY <2>1, <2>2
<1> DEFINE h == CHOOSE k : k = Rec(k)
<1>6. h = Rec(h)
  BY <1>5
<1>7. FoldLeft(LAMBDA acc, v : IF acc = 0 THEN v ELSE BoxPlus(acc, v), 0, y) = h[1 .. n]
  BY <1>1 DEF FoldLeft, MapThenFoldSet, FoldOne
<1> DEFINE D == {i \in 0 .. n : h[1 .. i] \in V}
<1> HIDE DEF h
<1>8. 0 \in D
  <2>1. 1 .. 0 = {}
    OBVIOUS
  <2> HIDE DEF Step
  <2> QED
    BY <2>1, <1>6, <1>1
<1>9. ASSUME NEW i \in 1 .. n, (i - 1) \in D PROVE i \in D
  <2>1. Max(1 .. i) = i /\ 1 .. i \in SUBSET (1 .. n) /\ 1 .. i # {} /\ (1 .. i) \ {i} = 1 .. (i - 1)
    BY <1>1, MaxOfInterval
  <2>2. h[1 .. i] = Step(h[(1 .. i) \ {Max(1 .. i)}], Max(1 .. i))
    <3> HIDE DEF Step, n, b
    <3> QED
      BY <1>6, <2>1
  <2>3. h[1 .. i] = Step(h[1 .. (i - 1)], i)
    BY <2>1, <2>2
  <2>4. h[1 .. (i - 1)] \in Int /\ y[i] \in Int /\ i \in 0 .. n
    BY <1>1, <1>9
  <2>5. Step(h[1 .. (i - 1)], i) \in Int
    BY <2>4, BoxPlusType DEF FoldOne
  <2> QED
    BY <2>3, <2>4, <2>5
<1> HIDE DEF D
<1>10. 0 .. n \subseteq D
  <2> HIDE DEF n
  <2> QED
    BY <1>1, <1>8, <1>9, IntervalInduction
<1>11. n \in 0 .. n
  BY <1>1
<1>12. n \in D
  BY <1>10, <1>11
<1>13. h[1 .. n] \in Int
  BY <1>12 DEF D
<1> QED
  BY <1>7, <1>13

LEMMA BoxType ==
  ASSUME NEW n \in Nat \ {0, 1}, NEW x \in [1 .. n -> Int], NEW bit
  PROVE  BoxPlusCheckUpdate(x, bit) \in [1 .. n -> Int]
<1> DEFINE others(e) == [k \in 1 .. Len(x) - 1 |-> x[IF k < e THEN k ELSE k + 1]]
           Folded(e) == FoldLeft(LAMBDA acc, v : IF acc = 0 THEN v ELSE BoxPlus(acc, v), 0, others(e))
           Sent(e) == Signed(bit = 1, Folded(e))
<1>1. DOMAIN x = 1 .. n /\ Len(x) = n
  OBVIOUS
<1>2. ASSUME NEW e \in 1 .. n PROVE others(e) \in Seq(Int)
  <2>1. \A k \in 1 .. n - 1 : (IF k < e THEN k ELSE k + 1) \in 1 .. n
    OBVIOUS
  <2>2. others(e) \in [1 .. n - 1 -> Int]
    BY <1>1, <2>1
  <2>3. n - 1 \in Nat
    OBVIOUS
  <2> HIDE DEF others
  <2> QED
    BY <2>2, <2>3
<1>3. BoxPlusCheckUpdate(x, bit) = [e \in DOMAIN x |-> Sent(e)]
  BY DEF BoxPlusCheckUpdate
<1> HIDE DEF others
<1>4. \A e \in 1 .. n : Folded(e) \in Int
  BY <1>2, FoldedType
<1> HIDE DEF Folded
<1>5. \A e \in 1 .. n : Sent(e) \in Int
  BY <1>4 DEF Signed
<1> HIDE DEF Sent
<1> QED
  BY <1>1, <1>3, <1>5

-----------------------------------------------------------------------------
(* One check of a decode.                                                  *)

Kernels == {"fixed", "wide", "batch", "boxplus"}

\* A graph on the variables V with bits to meet, as the decoders take it.
IsGraph(graph, target, V) ==
  /\ graph \in Seq(Seq(V)) /\ target \in [DOMAIN graph -> 0 .. 1]
  /\ \A c \in DOMAIN graph : Len(graph[c]) >= 2 /\ IsInjective(graph[c])

\* A state of a decoder on it, its messages in M.
IsState(graph, V, s, M) ==
  /\ Shaped(s, V, DOMAIN graph)
  /\ \A v \in V : s.posterior[v] \in Int
  /\ \A c \in DOMAIN graph : s.messages[c] \in [DOMAIN graph[c] -> M]

\* What a check is told, what it answers, and what becomes of its variables.
Heard(graph, kernel, s, c) ==
  [e \in DOMAIN graph[c] |-> Without(kernel, s.posterior[graph[c][e]], s.messages[c][e])]
Answered(graph, target, kernel, s, c, t) ==
  /\ Reached(graph, DOMAIN s.posterior, DOMAIN graph, c, s, t)
  /\ t.messages[c] = UpdateOf(kernel, Heard(graph, kernel, s, c), target[c])
  /\ \A e \in DOMAIN graph[c] :
       t.posterior[graph[c][e]]
         = Move(kernel, s.posterior[graph[c][e]], s.messages[c][e], t.messages[c][e])

\* The messages of a kernel.
AnswersOf(kernel) == IF kernel = "boxplus" THEN Int ELSE MessageRange

\* Every place of a row is the only one of its variable.
LEMMA PlaceOf ==
  ASSUME NEW row, IsInjective(row), NEW e \in DOMAIN row
  PROVE  (CHOOSE i \in DOMAIN row : row[i] = row[e]) = e
<1>1. \A i \in DOMAIN row : row[i] = row[e] => i = e
  BY DEF IsInjective
<1> QED
  BY <1>1

LEMMA CheckAnswers ==
  ASSUME NEW V, NEW graph, NEW target, IsGraph(graph, target, V), NEW kernel,
         NEW M, NEW s, IsState(graph, V, s, M), NEW c \in DOMAIN graph
  PROVE  Answered(graph, target, kernel, s, c, CheckStep(graph, target, kernel, s, c))
<1> DEFINE t == CheckStep(graph, target, kernel, s, c)
           row == graph[c]
           x == Heard(graph, kernel, s, c)
           new == UpdateOf(kernel, x, target[c])
           At(v) == CHOOSE i \in DOMAIN row : row[i] = v
           P(v) == Move(kernel, s.posterior[v], s.messages[c][At(v)], new[At(v)])
<1>1. Shaped(s, V, DOMAIN graph) /\ IsInjective(row)
  BY DEF IsState, IsGraph
<1>2. DOMAIN s.posterior = V /\ DOMAIN s.messages = DOMAIN graph
      /\ s.messages = [d \in DOMAIN graph |-> s.messages[d]]
  BY <1>1 DEF Shaped
<1>3. Reached(graph, V, DOMAIN graph, c, s, t)
  BY <1>1, CheckReaches
<1>4. t = [posterior |-> [v \in V |-> IF v \in ToSet(row) THEN P(v) ELSE s.posterior[v]],
           messages |-> [s.messages EXCEPT ![c] = new]]
  <2> HIDE DEF new
  <2> QED
    BY <1>2 DEF CheckStep, Replaced, Forced, new, Heard
<1> HIDE DEF t, new, x, P, At
<1>5. t.messages[c] = new
  BY <1>2, <1>4
<1>6. ASSUME NEW e \in DOMAIN row
      PROVE  t.posterior[row[e]] = Move(kernel, s.posterior[row[e]], s.messages[c][e], new[e])
  <2>1. row[e] \in ToSet(row) /\ row[e] \in V
    <3>1. graph \in Seq(Seq(V)) /\ row \in Seq(V)
      BY DEF IsGraph
    <3> QED
      BY <3>1 DEF ToSet
  <2>2. t.posterior[row[e]] = P(row[e])
    BY <1>4, <2>1
  <2>3. At(row[e]) = e
    BY <1>1, PlaceOf DEF At
  <2> QED
    BY <2>2, <2>3 DEF P
<1> QED
  BY <1>2, <1>3, <1>5, <1>6 DEF Answered, t, new, x

\* What a check hears and answers are whole numbers.
LEMMA AnswerRange ==
  ASSUME NEW V, NEW graph, NEW target, IsGraph(graph, target, V), NEW kernel \in Kernels,
         NEW M, M \subseteq Int, NEW s, IsState(graph, V, s, M), NEW c \in DOMAIN graph
  PROVE  /\ Len(graph[c]) \in Nat \ {0, 1} /\ DOMAIN graph[c] = 1 .. Len(graph[c])
         /\ Heard(graph, kernel, s, c) \in [1 .. Len(graph[c]) -> Int]
         /\ UpdateOf(kernel, Heard(graph, kernel, s, c), target[c])
              \in [1 .. Len(graph[c]) -> AnswersOf(kernel)]
<1> DEFINE row == graph[c]
           n == Len(row)
           x == Heard(graph, kernel, s, c)
           new == UpdateOf(kernel, x, target[c])
<1>1. row \in Seq(V) /\ n \in Nat \ {0, 1} /\ DOMAIN row = 1 .. n
  <2>1. graph \in Seq(Seq(V)) /\ Len(graph[c]) >= 2
    BY DEF IsGraph
  <2>2. row \in Seq(V)
    BY <2>1
  <2>3. n \in Nat /\ DOMAIN row = 1 .. n
    BY <2>2
  <2>4. n >= 2
    BY <2>1
  <2> HIDE DEF n
  <2>5. n \in Nat \ {0, 1}
    BY <2>3, <2>4
  <2> QED
    BY <2>2, <2>3, <2>5
<1>2. \A a, b \in Int : SatSub(a, b) \in Int
  BY DEF SatSub, Saturate, POSTERIOR_MIN, POSTERIOR_MAX
<1>3. x \in [1 .. n -> Int]
  <2>1. \A e \in 1 .. n : s.posterior[row[e]] \in Int /\ s.messages[c][e] \in Int
    <3>1. \A e \in 1 .. n : row[e] \in V
      BY <1>1
    <3>2. s.messages[c] \in [1 .. n -> M]
      BY <1>1 DEF IsState
    <3> QED
      BY <3>1, <3>2 DEF IsState
  <2>2. kernel # "float"
    BY DEF Kernels
  <2>3. x = [e \in 1 .. n |-> SatSub(s.posterior[row[e]], s.messages[c][e])]
    BY <1>1, <2>2 DEF Heard, Without
  <2> HIDE DEF row, n, x
  <2> QED
    BY <1>2, <2>1, <2>3
<1> HIDE DEF x, n
<1>4. /\ FixedCheckUpdate(x, target[c]) \in [1 .. n -> MessageRange]
      /\ WideCheckUpdate(x, target[c]) \in [1 .. n -> MessageRange]
      /\ BatchCheckUpdate(x, target[c]) = WideCheckUpdate(x, target[c])
      /\ BoxPlusCheckUpdate(x, target[c]) \in [1 .. n -> Int]
  BY <1>1, <1>3, FixedType, WideType, BatchOfRow, BoxType
<1>5. new \in [1 .. n -> AnswersOf(kernel)]
  <2>1. CASE kernel = "fixed"
    BY <1>4, <2>1 DEF UpdateOf, AnswersOf
  <2>2. CASE kernel = "wide"
    BY <1>4, <2>2 DEF UpdateOf, AnswersOf
  <2>3. CASE kernel = "batch"
    BY <1>4, <2>3 DEF UpdateOf, AnswersOf
  <2>4. CASE kernel = "boxplus"
    BY <1>4, <2>4 DEF UpdateOf, AnswersOf
  <2> QED
    BY <2>1, <2>2, <2>3, <2>4 DEF Kernels
<1> QED
  BY <1>1, <1>3, <1>5 DEF x, n

\* A check keeps a state a state.
LEMMA CheckKeepsState ==
  ASSUME NEW V, NEW graph, NEW target, IsGraph(graph, target, V), NEW kernel \in Kernels,
         NEW M, M \subseteq Int, AnswersOf(kernel) \subseteq M,
         NEW s, IsState(graph, V, s, M), NEW c \in DOMAIN graph
  PROVE  IsState(graph, V, CheckStep(graph, target, kernel, s, c), M)
<1> DEFINE t == CheckStep(graph, target, kernel, s, c)
           row == graph[c]
           n == Len(row)
<1>1. Answered(graph, target, kernel, s, c, t)
  BY CheckAnswers
<1>2. DOMAIN s.posterior = V
  BY DEF IsState, Shaped
<1>3. Reached(graph, V, DOMAIN graph, c, s, t)
  BY <1>1, <1>2 DEF Answered
<1>4. DOMAIN row = 1 .. n /\ t.messages[c] \in [1 .. n -> M]
  <2>1. DOMAIN row = 1 .. n /\ UpdateOf(kernel, Heard(graph, kernel, s, c), target[c])
              \in [1 .. n -> AnswersOf(kernel)]
    BY AnswerRange
  <2> HIDE DEF t, n
  <2>2. t.messages[c] \in [1 .. n -> AnswersOf(kernel)]
    BY <1>1, <2>1 DEF Answered
  <2> QED
    BY <2>1, <2>2
<1> HIDE DEF t, n
<1>5. \A d \in DOMAIN graph : t.messages[d] \in [DOMAIN graph[d] -> M]
  BY <1>3, <1>4 DEF Reached, IsState
<1>6. \A v \in V : t.posterior[v] \in Int
  <2> SUFFICES ASSUME NEW v \in V PROVE t.posterior[v] \in Int
    OBVIOUS
  <2>1. CASE v \in ToSet(row)
    <3>1. PICK e \in DOMAIN row : row[e] = v
      BY <2>1 DEF ToSet
    <3>2. t.posterior[v] = Move(kernel, s.posterior[v], s.messages[c][e], t.messages[c][e])
      BY <1>1, <3>1 DEF Answered
    <3>3. s.posterior[v] \in Int /\ s.messages[c][e] \in Int /\ t.messages[c][e] \in Int
      <4>1. s.messages[c] \in [DOMAIN row -> M]
        BY DEF IsState
      <4>2. s.messages[c][e] \in M /\ t.messages[c][e] \in M
        BY <1>4, <4>1
      <4> QED
        BY <4>2 DEF IsState
    <3>4. \A a, b, d \in Int : Move(kernel, a, b, d) \in Int
      BY DEF Move, MoveTwice, MoveOnce, SatAdd, SatSub, Saturate, POSTERIOR_MIN, POSTERIOR_MAX, Kernels
    <3> QED
      BY <3>2, <3>3, <3>4
  <2>2. CASE v \notin ToSet(row)
    BY <1>3, <2>2 DEF Reached, IsState
  <2> QED
    BY <2>1, <2>2
<1> QED
  BY <1>3, <1>5, <1>6 DEF IsState, Reached, t

-----------------------------------------------------------------------------
(* What the checks say of a variable.                                      *)

\* No posterior comes near the limits, and each is a base and what the checks say.
HasRoom(graph, V, base) == base \in [V -> Int] /\ Roomy(graph, base)
Balances(graph, s, base) ==
  \A v \in DOMAIN base : s.posterior[v] = base[v] + Received(graph, s, v)

\* What a variable receives, as a sum of terms.
ToldOf(graph, s, v) == [c \in DOMAIN graph |-> Told(graph, s, c, v)]

LEMMA ReceivedIs ==
  ASSUME NEW graph, NEW s, NEW v
  PROVE  Received(graph, s, v) = Total(ToldOf(graph, s, v), DOMAIN graph)
BY DEF Received, ToldOf, Total

\* Every term is a message or nothing.
LEMMA ToldRange ==
  ASSUME NEW V, NEW graph, NEW M, 0 \in M, NEW s, IsState(graph, V, s, M), NEW v
  PROVE  ToldOf(graph, s, v) \in [DOMAIN graph -> M]
<1>1. ASSUME NEW c \in DOMAIN graph PROVE Told(graph, s, c, v) \in M
  <2>1. s.messages[c] \in [DOMAIN graph[c] -> M]
    BY DEF IsState
  <2>2. CASE v \in ToSet(graph[c])
    <3>1. \E e \in DOMAIN graph[c] : graph[c][e] = v
      BY <2>2 DEF ToSet
    <3>2. (CHOOSE e \in DOMAIN graph[c] : graph[c][e] = v) \in DOMAIN graph[c]
      BY <3>1
    <3> QED
      BY <2>1, <2>2, <3>2 DEF Told
  <2>3. CASE v \notin ToSet(graph[c])
    BY <2>3 DEF Told
  <2> QED
    BY <2>2, <2>3
<1> QED
  BY <1>1 DEF ToldOf

\* What a variable receives is bounded.
LEMMA ReceivedRange ==
  ASSUME NEW V, NEW graph \in Seq(Seq(V)), NEW s, IsState(graph, V, s, MessageRange), NEW v
  PROVE  /\ Received(graph, s, v) \in Int /\ Degree(graph, v) \in Nat
         /\ -(WIDE_MAG_MAX * Degree(graph, v)) <= Received(graph, s, v)
         /\ Received(graph, s, v) <= WIDE_MAG_MAX * Degree(graph, v)
<1> DEFINE C == DOMAIN graph
           w == ToldOf(graph, s, v)
           F == {c \in C : v \in ToSet(graph[c])}
<1>1. IsFiniteSet(C)
  <2>1. C = 1 .. Len(graph) /\ Len(graph) \in Nat
    OBVIOUS
  <2> QED
    BY <2>1, FS_Interval
<1>2. 0 \in MessageRange /\ WIDE_MAG_MAX \in Nat
  BY DEF MessageRange, WIDE_MAG_MAX
<1>3. w \in [C -> MessageRange] /\ \A c \in C \ F : w[c] = 0
  <2>1. w \in [C -> MessageRange]
    BY <1>2, ToldRange
  <2>2. \A c \in C \ F : w[c] = 0
    BY DEF ToldOf, Told
  <2> QED
    BY <2>1, <2>2
<1>4. Received(graph, s, v) = Total(w, C) /\ Degree(graph, v) = Cardinality(F)
  BY ReceivedIs DEF Degree
<1>5. F \in SUBSET C
  OBVIOUS
<1> HIDE DEF C, w, F
<1>6. \A c \in C : w[c] \in -WIDE_MAG_MAX .. WIDE_MAG_MAX
  BY <1>3 DEF MessageRange
<1>7. /\ Total(w, C) \in Int /\ Cardinality(F) \in Nat
      /\ -(WIDE_MAG_MAX * Cardinality(F)) <= Total(w, C) /\ Total(w, C) <= WIDE_MAG_MAX * Cardinality(F)
  BY <1>1, <1>2, <1>3, <1>5, <1>6, SumBounded
<1> QED
  BY <1>4, <1>7

\* All checks but one say the same, and what a variable receives moves by what that one says.
SaysElse(graph, c, s, t) == \A d \in DOMAIN graph \ {c} : t.messages[d] = s.messages[d]
Moved(graph, c, v, s, t) ==
  Received(graph, t, v) - Told(graph, t, c, v) = Received(graph, s, v) - Told(graph, s, c, v)

LEMMA ReceivedMoves ==
  ASSUME NEW V, NEW graph \in Seq(Seq(V)), NEW s, IsState(graph, V, s, MessageRange),
         NEW t, IsState(graph, V, t, MessageRange), NEW c \in DOMAIN graph,
         SaysElse(graph, c, s, t), NEW v
  PROVE  Moved(graph, c, v, s, t)
<1> DEFINE C == DOMAIN graph
           w == ToldOf(graph, s, v)
           u == ToldOf(graph, t, v)
<1>1. IsFiniteSet(C) /\ IsFiniteSet(C \ {c})
  <2>1. C = 1 .. Len(graph) /\ Len(graph) \in Nat
    OBVIOUS
  <2>2. IsFiniteSet(C)
    BY <2>1, FS_Interval
  <2> HIDE DEF C
  <2> QED
    BY <2>2, FS_Subset
<1>2. 0 \in MessageRange /\ MessageRange \subseteq Int
  BY DEF MessageRange, WIDE_MAG_MAX
<1>3. w \in [C -> MessageRange] /\ u \in [C -> MessageRange]
  BY <1>2, ToldRange
<1>4. w[c] = Told(graph, s, c, v) /\ u[c] = Told(graph, t, c, v)
  BY DEF ToldOf
<1>5. \A d \in C \ {c} : u[d] = w[d]
  BY DEF ToldOf, Told, SaysElse
<1>6. Received(graph, s, v) = Total(w, C) /\ Received(graph, t, v) = Total(u, C)
  BY ReceivedIs
<1> HIDE DEF w, u
<1>7. \A d \in C : w[d] \in Int /\ u[d] \in Int
  BY <1>2, <1>3
<1> HIDE DEF C
<1>8. c \in C
  BY DEF C
<1>9. Total(w, C) = w[c] + Total(w, C \ {c}) /\ Total(u, C) = u[c] + Total(u, C \ {c})
  BY <1>1, <1>7, <1>8, SumAdds
<1>10. Total(u, C \ {c}) = Total(w, C \ {c})
  <2>1. \A d \in C \ {c} : w[d] \in Int
    BY <1>7
  <2> QED
    BY <1>1, <1>5, <2>1, SumsAgree
<1>11. Total(w, C \ {c}) \in Int
  <2>1. \A d \in C \ {c} : w[d] \in Int
    BY <1>7
  <2> QED
    BY <1>1, <2>1, SumIsInteger
<1>12. w[c] \in Int /\ u[c] \in Int
  BY <1>7, <1>8
<1> DEFINE r == Total(w, C \ {c})
<1>13. Total(w, C) = w[c] + r /\ Total(u, C) = u[c] + r /\ r \in Int
  BY <1>9, <1>10, <1>11
<1> HIDE DEF r
<1>14. Total(u, C) - u[c] = Total(w, C) - w[c]
  BY <1>12, <1>13
<1> QED
  BY <1>4, <1>6, <1>14 DEF Moved

-----------------------------------------------------------------------------
(* While nothing saturates.                                                *)

Compressed == {"fixed", "wide", "batch"}

\* Within the limits an edge moves the posterior by the difference of its messages.
LEMMA MovesPlainly ==
  ASSUME NEW kernel \in Compressed, NEW b \in Int, NEW r \in Int, NEW q \in Int, NEW m \in Nat,
         NEW old \in MessageRange, NEW new \in MessageRange,
         Abs(b) + m + WIDE_MAG_MAX < POSTERIOR_MAX,
         -m <= r, r <= m, -m <= q, q <= m, q - new = r - old
  PROVE  Move(kernel, b + r, old, new) = b + q
<1>1. old \in -31 .. 31 /\ new \in -31 .. 31
  BY DEF MessageRange, WIDE_MAG_MAX
<1>2. -992 < b + m /\ b + m < 992 /\ -992 < b - m /\ b - m < 992
  BY DEF Abs, WIDE_MAG_MAX, POSTERIOR_MAX
<1> DEFINE y == (b + r) - old
<1>3. y \in -1024 .. 1023 /\ y + new = b + q /\ b + q \in -1024 .. 1023
  <2>1. b + r < 992 /\ -992 < b + r /\ b + q < 992 /\ -992 < b + q /\ b + r \in Int /\ b + q \in Int
    BY <1>2
  <2>2. q = (r - old) + new
    <3>1. old \in Int /\ new \in Int /\ q - new = r - old
      BY <1>1
    <3> QED
      BY ONLY <3>1, r \in Int, q \in Int
  <2>3. y \in -1024 .. 1023
    <3> DEFINE a == b + r
    <3>1. a < 992 /\ -992 < a /\ a \in Int
      BY <2>1
    <3> HIDE DEF a
    <3>2. a - old \in -1024 .. 1023
      BY ONLY <1>1, <3>1
    <3> QED
      BY <3>2 DEF a
  <2>4. y + new = b + q
    BY <1>1, <2>2
  <2>5. b + q \in -1024 .. 1023
    BY <2>1
  <2> QED
    BY <2>3, <2>4, <2>5
<1>4. \A z \in -1024 .. 1023 : Saturate(z) = z
  BY DEF Saturate, POSTERIOR_MIN, POSTERIOR_MAX
<1>5. MoveOnce(b + r, old, new) = Saturate(y + new) /\ MoveTwice(b + r, old, new) = Saturate(Saturate(y) + new)
  BY DEF MoveOnce, MoveTwice, SatAdd, SatSub
<1> HIDE DEF y
<1>6. Saturate(y + new) = b + q /\ Saturate(Saturate(y) + new) = b + q
  <2>1. Saturate(y) = y
    <3>1. y \in -1024 .. 1023
      BY <1>3
    <3> QED
      BY ONLY <1>4, <3>1
  <2>2. Saturate(b + q) = b + q
    <3>1. b + q \in -1024 .. 1023
      BY <1>3
    <3> QED
      BY ONLY <1>4, <3>1
  <2>3. y + new = b + q
    BY <1>3
  <2> QED
    BY <2>1, <2>2, <2>3
<1> QED
  BY <1>5, <1>6 DEF Move, Compressed

\* A check keeps the balance.
LEMMA CheckBalances ==
  ASSUME NEW V, NEW graph, NEW target, IsGraph(graph, target, V), NEW kernel \in Compressed,
         NEW base, HasRoom(graph, V, base),
         NEW s, IsState(graph, V, s, MessageRange), Balances(graph, s, base),
         NEW c \in DOMAIN graph
  PROVE  Balances(graph, CheckStep(graph, target, kernel, s, c), base)
<1> DEFINE t == CheckStep(graph, target, kernel, s, c)
           row == graph[c]
<1>1. Answered(graph, target, kernel, s, c, t)
  BY CheckAnswers
<1>2. DOMAIN s.posterior = V /\ graph \in Seq(Seq(V)) /\ IsInjective(row)
  BY DEF IsState, Shaped, IsGraph
<1>3. Reached(graph, V, DOMAIN graph, c, s, t)
  BY <1>1, <1>2 DEF Answered
<1>4. IsState(graph, V, t, MessageRange)
  <2>1. kernel \in Kernels /\ MessageRange \subseteq Int
        /\ AnswersOf(kernel) \subseteq MessageRange
    BY DEF Kernels, Compressed, AnswersOf, MessageRange, WIDE_MAG_MAX
  <2> QED
    BY <2>1, CheckKeepsState
<1> HIDE DEF t
<1>5. base \in [V -> Int] /\ DOMAIN base = V
  BY DEF HasRoom
<1>6. SaysElse(graph, c, s, t)
  BY <1>3 DEF Reached, SaysElse
<1> SUFFICES ASSUME NEW v \in V PROVE t.posterior[v] = base[v] + Received(graph, t, v)
  BY <1>5 DEF Balances, t
<1> DEFINE r == Received(graph, s, v)
           q == Received(graph, t, v)
           m == WIDE_MAG_MAX * Degree(graph, v)
<1>7. m \in Nat /\ (Degree(graph, v) + 1) * WIDE_MAG_MAX = m + WIDE_MAG_MAX
  <2>1. Degree(graph, v) \in Nat
    BY <1>2, <1>4, ReceivedRange
  <2> QED
    BY <2>1 DEF WIDE_MAG_MAX
<1>8. r \in Int /\ -m <= r /\ r <= m /\ q \in Int /\ -m <= q /\ q <= m
  BY <1>2, <1>4, ReceivedRange
<1>9. q - Told(graph, t, c, v) = r - Told(graph, s, c, v)
  <2>1. Moved(graph, c, v, s, t)
    BY <1>2, <1>4, <1>6, ReceivedMoves
  <2> QED
    BY <2>1 DEF Moved
<1>10. base[v] \in Int /\ s.posterior[v] = base[v] + r
  BY <1>5 DEF Balances
<1>11. Abs(base[v]) + m + WIDE_MAG_MAX < POSTERIOR_MAX
  <2>1. Abs(base[v]) + (Degree(graph, v) + 1) * WIDE_MAG_MAX < POSTERIOR_MAX
    BY <1>5 DEF HasRoom, Roomy
  <2>2. Abs(base[v]) \in Int /\ WIDE_MAG_MAX \in Int
    BY <1>10 DEF Abs, WIDE_MAG_MAX
  <2> HIDE DEF m
  <2> QED
    BY <1>7, <2>1, <2>2
<1> HIDE DEF m, r, q
<1>12. CASE v \in ToSet(row)
  <2>1. PICK e \in DOMAIN row : row[e] = v
    BY <1>12 DEF ToSet
  <2>2. (CHOOSE i \in DOMAIN row : row[i] = v) = e
    BY <1>2, <2>1, PlaceOf
  <2> DEFINE old == s.messages[c][e]
             new == t.messages[c][e]
  <2>3. Told(graph, s, c, v) = old /\ Told(graph, t, c, v) = new
    BY <1>12, <2>2 DEF Told
  <2>4. old \in MessageRange /\ new \in MessageRange
    <3>1. s.messages[c] \in [DOMAIN row -> MessageRange] /\ t.messages[c] \in [DOMAIN row -> MessageRange]
      BY <1>4 DEF IsState
    <3> QED
      BY <2>1, <3>1
  <2>5. t.posterior[v] = Move(kernel, base[v] + r, old, new)
    BY <1>1, <1>10, <2>1 DEF Answered
  <2>6. q - new = r - old
    BY <1>9, <2>3
  <2> HIDE DEF old, new
  <2>7. Move(kernel, base[v] + r, old, new) = base[v] + q
    BY <1>7, <1>8, <1>10, <1>11, <2>4, <2>6, MovesPlainly
  <2> QED
    BY <2>5, <2>7 DEF q
<1>13. CASE v \notin ToSet(row)
  <2>1. Told(graph, s, c, v) = 0 /\ Told(graph, t, c, v) = 0
    BY <1>13 DEF Told
  <2>2. q = r
    BY <1>8, <1>9, <2>1
  <2>3. t.posterior[v] = s.posterior[v]
    BY <1>3, <1>13 DEF Reached
  <2> QED
    BY <1>10, <2>2, <2>3 DEF q
<1> QED
  BY <1>12, <1>13

\* A state that is a state and in balance.
Sound(graph, V, s, base) == IsState(graph, V, s, MessageRange) /\ Balances(graph, s, base)

\* Without saturation the batch does what the scalar decoder does.
LEMMA CheckOfBatch ==
  ASSUME NEW V, NEW graph, NEW target, IsGraph(graph, target, V),
         NEW base, HasRoom(graph, V, base), NEW s, Sound(graph, V, s, base), NEW c \in DOMAIN graph
  PROVE  CheckStep(graph, target, "batch", s, c) = CheckStep(graph, target, "wide", s, c)
<1> DEFINE t == CheckStep(graph, target, "batch", s, c)
           u == CheckStep(graph, target, "wide", s, c)
<1>1. IsState(graph, V, s, MessageRange) /\ Balances(graph, s, base) /\ base \in [V -> Int]
  BY DEF Sound, HasRoom
<1>2. Answered(graph, target, "batch", s, c, t) /\ Answered(graph, target, "wide", s, c, u)
  BY <1>1, CheckAnswers
<1>3. DOMAIN s.posterior = V
  BY <1>1 DEF IsState, Shaped
<1>4. Balances(graph, t, base) /\ Balances(graph, u, base)
  <2>1. "batch" \in Compressed /\ "wide" \in Compressed
    BY DEF Compressed
  <2> QED
    BY <1>1, <2>1, CheckBalances
<1>5. t.messages[c] = u.messages[c]
  <2> DEFINE x == Heard(graph, "wide", s, c)
             n == Len(graph[c])
  <2>1. Heard(graph, "batch", s, c) = x
    BY DEF Heard, Without
  <2>2. n \in Nat \ {0, 1} /\ x \in [1 .. n -> Int]
    <3>1. "wide" \in Kernels /\ MessageRange \subseteq Int
      BY DEF Kernels, MessageRange, WIDE_MAG_MAX
    <3> QED
      BY <1>1, <3>1, AnswerRange
  <2> HIDE DEF x, n, t, u
  <2>3. BatchCheckUpdate(x, target[c]) = WideCheckUpdate(x, target[c])
    BY <2>2, BatchOfRow
  <2>4. t.messages[c] = UpdateOf("batch", x, target[c]) /\ u.messages[c] = UpdateOf("wide", x, target[c])
    BY <1>2, <2>1 DEF Answered, x
  <2> QED
    BY <2>3, <2>4 DEF UpdateOf
<1> HIDE DEF t, u
<1>6. Reached(graph, V, DOMAIN graph, c, s, t) /\ Reached(graph, V, DOMAIN graph, c, s, u)
  BY <1>2, <1>3 DEF Answered
<1>7. t.messages = u.messages
  <2>1. \A d \in DOMAIN graph : t.messages[d] = u.messages[d]
    BY <1>5, <1>6 DEF Reached
  <2>2. t.messages = [d \in DOMAIN graph |-> t.messages[d]] /\ u.messages = [d \in DOMAIN graph |-> u.messages[d]]
    BY <1>6 DEF Reached, Shaped
  <2> QED
    BY <2>1, <2>2
<1>8. t.posterior = u.posterior
  <2>1. \A v \in V : t.posterior[v] = u.posterior[v]
    <3>1. \A v \in V : Received(graph, t, v) = Received(graph, u, v)
      BY <1>7 DEF Received, Told
    <3> QED
      BY <1>1, <1>4, <3>1 DEF Balances
  <2>2. t.posterior = [v \in V |-> t.posterior[v]] /\ u.posterior = [v \in V |-> u.posterior[v]]
    BY <1>6 DEF Reached, Shaped
  <2> QED
    BY <2>1, <2>2
<1>9. t = [posterior |-> t.posterior, messages |-> t.messages]
      /\ u = [posterior |-> u.posterior, messages |-> u.messages]
  BY <1>6 DEF Reached, Shaped
<1>10. t = u
  BY <1>7, <1>8, <1>9
<1> QED
  BY <1>10 DEF t, u

-----------------------------------------------------------------------------
(* Whole sweeps.                                                           *)

LEMMA SweepKeepsState ==
  ASSUME NEW V, NEW graph, NEW target, IsGraph(graph, target, V), NEW kernel \in Kernels,
         NEW M, M \subseteq Int, AnswersOf(kernel) \subseteq M,
         NEW s, IsState(graph, V, s, M), NEW order \in Seq(DOMAIN graph)
  PROVE  IsState(graph, V, Sweep(graph, target, kernel, s, order), M)
<1> DEFINE n == Len(order)
<1>1. n \in Nat /\ \A i \in 1 .. n : order[i] \in DOMAIN graph
  OBVIOUS
<1>2. PICK f : /\ IsSweep(f, graph, target, kernel, s, order)
               /\ Sweep(graph, target, kernel, s, order) = f[n]
  BY SweepByPosition
<1> DEFINE D == {i \in 0 .. n : IsState(graph, V, f[i], M)}
<1>3. 0 \in D
  BY <1>1, <1>2 DEF IsSweep
<1>4. ASSUME NEW i \in 1 .. n, (i - 1) \in D PROVE i \in D
  <2>1. f[i] = CheckStep(graph, target, kernel, f[i - 1], order[i])
    BY <1>2 DEF IsSweep
  <2>2. IsState(graph, V, f[i - 1], M) /\ order[i] \in DOMAIN graph
    BY <1>1, <1>4
  <2>3. IsState(graph, V, f[i], M)
    BY <2>1, <2>2, CheckKeepsState
  <2> QED
    BY <2>3
<1> HIDE DEF D
<1>5. 0 .. n \subseteq D
  <2> HIDE DEF n
  <2> QED
    BY <1>1, <1>3, <1>4, IntervalInduction
<1> QED
  BY <1>1, <1>2, <1>5 DEF D

LEMMA SweepKeepsBalance ==
  ASSUME NEW V, NEW graph, NEW target, IsGraph(graph, target, V), NEW kernel \in Compressed,
         NEW base, HasRoom(graph, V, base),
         NEW s, Sound(graph, V, s, base), NEW order \in Seq(DOMAIN graph)
  PROVE  Sound(graph, V, Sweep(graph, target, kernel, s, order), base)
<1> DEFINE n == Len(order)
<1>1. n \in Nat /\ \A i \in 1 .. n : order[i] \in DOMAIN graph
  OBVIOUS
<1>2. PICK f : /\ IsSweep(f, graph, target, kernel, s, order)
               /\ Sweep(graph, target, kernel, s, order) = f[n]
  BY SweepByPosition
<1>3. kernel \in Kernels /\ MessageRange \subseteq Int /\ AnswersOf(kernel) \subseteq MessageRange
  BY DEF Kernels, Compressed, AnswersOf, MessageRange, WIDE_MAG_MAX
<1> DEFINE D == {i \in 0 .. n : Sound(graph, V, f[i], base)}
<1>4. 0 \in D
  BY <1>1, <1>2 DEF IsSweep
<1>5. ASSUME NEW i \in 1 .. n, (i - 1) \in D PROVE i \in D
  <2>1. f[i] = CheckStep(graph, target, kernel, f[i - 1], order[i])
    BY <1>2 DEF IsSweep
  <2>2. Sound(graph, V, f[i - 1], base) /\ order[i] \in DOMAIN graph
    BY <1>1, <1>5
  <2>3. IsState(graph, V, f[i - 1], MessageRange) /\ Balances(graph, f[i - 1], base)
    BY <2>2 DEF Sound
  <2>4. IsState(graph, V, f[i], MessageRange)
    BY <1>3, <2>1, <2>2, <2>3, CheckKeepsState
  <2>5. Balances(graph, f[i], base)
    BY <2>1, <2>2, <2>3, CheckBalances
  <2> QED
    BY <2>4, <2>5 DEF Sound
<1> HIDE DEF D
<1>6. 0 .. n \subseteq D
  <2> HIDE DEF n
  <2> QED
    BY <1>1, <1>4, <1>5, IntervalInduction
<1> QED
  BY <1>1, <1>2, <1>6 DEF D

LEMMA SweepOfBatch ==
  ASSUME NEW V, NEW graph, NEW target, IsGraph(graph, target, V),
         NEW base, HasRoom(graph, V, base),
         NEW s, Sound(graph, V, s, base), NEW order \in Seq(DOMAIN graph)
  PROVE  Sweep(graph, target, "batch", s, order) = Sweep(graph, target, "wide", s, order)
<1> DEFINE n == Len(order)
<1>1. n \in Nat /\ \A i \in 1 .. n : order[i] \in DOMAIN graph
  OBVIOUS
<1>2. PICK f : /\ IsSweep(f, graph, target, "batch", s, order)
               /\ Sweep(graph, target, "batch", s, order) = f[n]
  BY SweepByPosition
<1>3. PICK g : /\ IsSweep(g, graph, target, "wide", s, order)
               /\ Sweep(graph, target, "wide", s, order) = g[n]
  BY SweepByPosition
<1>4. "wide" \in Kernels /\ "wide" \in Compressed /\ MessageRange \subseteq Int
      /\ AnswersOf("wide") \subseteq MessageRange
  BY DEF Kernels, Compressed, AnswersOf, MessageRange, WIDE_MAG_MAX
<1> DEFINE D == {i \in 0 .. n : f[i] = g[i] /\ Sound(graph, V, g[i], base)}
<1>5. 0 \in D
  BY <1>1, <1>2, <1>3 DEF IsSweep
<1>6. ASSUME NEW i \in 1 .. n, (i - 1) \in D PROVE i \in D
  <2>1. f[i] = CheckStep(graph, target, "batch", f[i - 1], order[i])
        /\ g[i] = CheckStep(graph, target, "wide", g[i - 1], order[i])
    BY <1>2, <1>3 DEF IsSweep
  <2>2. Sound(graph, V, g[i - 1], base) /\ order[i] \in DOMAIN graph /\ f[i - 1] = g[i - 1]
    BY <1>1, <1>6
  <2>3. f[i] = g[i]
    BY <2>1, <2>2, CheckOfBatch
  <2>4. IsState(graph, V, g[i - 1], MessageRange) /\ Balances(graph, g[i - 1], base)
    BY <2>2 DEF Sound
  <2>5. IsState(graph, V, g[i], MessageRange)
    BY <1>4, <2>1, <2>2, <2>4, CheckKeepsState
  <2>6. Balances(graph, g[i], base)
    BY <1>4, <2>1, <2>2, <2>4, CheckBalances
  <2> QED
    BY <2>3, <2>5, <2>6 DEF Sound
<1> HIDE DEF D
<1>7. 0 .. n \subseteq D
  <2> HIDE DEF n
  <2> QED
    BY <1>1, <1>5, <1>6, IntervalInduction
<1> QED
  BY <1>1, <1>2, <1>3, <1>7 DEF D

-----------------------------------------------------------------------------
(* What the decoders start from.                                           *)

LEMMA FreshFacts ==
  ASSUME NEW V, NEW graph \in Seq(Seq(V)), NEW prior \in [V -> Int]
  PROVE  /\ IsState(graph, V, Fresh(graph, prior), MessageRange)
         /\ HasRoom(graph, V, prior) => Balances(graph, Fresh(graph, prior), prior)
<1> DEFINE s == Fresh(graph, prior)
<1>1. DOMAIN prior = V /\ \A v \in V : prior[v] \in Int
  OBVIOUS
<1>2. s = [posterior |-> [v \in V |-> Saturate(prior[v])],
           messages  |-> [c \in DOMAIN graph |-> [e \in DOMAIN graph[c] |-> 0]]]
  BY <1>1 DEF Fresh
<1> HIDE DEF s
<1>3. \A y \in Int : Saturate(y) \in Int
  BY DEF Saturate, POSTERIOR_MIN, POSTERIOR_MAX
<1>4. 0 \in MessageRange
  BY DEF MessageRange, WIDE_MAG_MAX
<1>5. \A c \in DOMAIN graph : s.messages[c] \in [DOMAIN graph[c] -> {0}]
  BY <1>2
<1>6. Shaped(s, V, DOMAIN graph) /\ \A v \in V : s.posterior[v] \in Int
  BY <1>1, <1>2, <1>3 DEF Shaped
<1>7. IsState(graph, V, s, MessageRange) /\ IsState(graph, V, s, {0})
  <2>1. \A c \in DOMAIN graph : s.messages[c] \in [DOMAIN graph[c] -> MessageRange]
    BY <1>4, <1>5
  <2> QED
    BY <1>5, <1>6, <2>1 DEF IsState
<1>8. ASSUME HasRoom(graph, V, prior), NEW v \in V
      PROVE  s.posterior[v] = prior[v] + Received(graph, s, v)
  <2>1. Received(graph, s, v) = 0
    <3> DEFINE w == ToldOf(graph, s, v)
               C == DOMAIN graph
    <3>1. w \in [C -> {0}]
      BY <1>7, ToldRange
    <3>2. IsFiniteSet(C)
      <4>1. C = 1 .. Len(graph) /\ Len(graph) \in Nat
        OBVIOUS
      <4> QED
        BY <4>1, FS_Interval
    <3>3. Received(graph, s, v) = Total(w, C)
      BY ReceivedIs
    <3> HIDE DEF w, C
    <3>4. {0} \in SUBSET Int /\ (\A i, j \in {0} : i + j \in {0}) /\ \A a \in C : w[a] \in {0}
      BY <3>1
    <3>5. Total(w, C) \in {0}
      BY <3>2, <3>4, SumIn
    <3> QED
      BY <3>3, <3>5
  <2>2. Abs(prior[v]) < POSTERIOR_MAX
    <3>1. Abs(prior[v]) + (Degree(graph, v) + 1) * WIDE_MAG_MAX < POSTERIOR_MAX
      BY <1>1, <1>8 DEF HasRoom, Roomy
    <3>2. Degree(graph, v) \in Nat
      BY <1>7, ReceivedRange
    <3> DEFINE m == (Degree(graph, v) + 1) * WIDE_MAG_MAX
    <3>3. m \in Nat
      BY <3>2 DEF WIDE_MAG_MAX
    <3>4. Abs(prior[v]) \in Int /\ POSTERIOR_MAX \in Int
      BY <1>1 DEF Abs, POSTERIOR_MAX
    <3>5. Abs(prior[v]) + m < POSTERIOR_MAX
      BY <3>1
    <3> HIDE DEF m
    <3> QED
      BY <3>3, <3>4, <3>5
  <2>3. Saturate(prior[v]) = prior[v]
    BY <1>1, <2>2 DEF Saturate, Abs, POSTERIOR_MIN, POSTERIOR_MAX
  <2> QED
    BY <1>1, <1>2, <2>1, <2>3
<1>9. HasRoom(graph, V, prior) => Balances(graph, s, prior)
  BY <1>1, <1>8 DEF Balances
<1> QED
  BY <1>7, <1>9 DEF s

\* The conversion after the warm-up.
LEMMA ConvertedFacts ==
  ASSUME NEW V, NEW graph, NEW target, IsGraph(graph, target, V), NEW s, IsState(graph, V, s, Int)
  PROVE  /\ IsState(graph, V, Converted(graph, target, s), MessageRange)
         /\ Converted(graph, target, s).posterior = s.posterior
<1> DEFINE C == DOMAIN graph
           x(c) == [e \in DOMAIN graph[c] |-> SatSub(s.posterior[graph[c][e]], s.messages[c][e])]
           new == [c \in C |-> FixedCheckUpdate(x(c), target[c])]
           t == Converted(graph, target, s)
<1>1. t = [s EXCEPT !.messages = new]
  BY DEF Converted
<1>2. Shaped(s, V, C)
  BY DEF IsState
<1>3. s = [posterior |-> s.posterior, messages |-> s.messages]
      /\ s.posterior = [v \in V |-> s.posterior[v]]
  BY <1>2 DEF Shaped
<1> HIDE DEF t, new
<1>4. t = [posterior |-> s.posterior, messages |-> new]
  BY <1>1, <1>3
<1>5. ASSUME NEW c \in C PROVE new[c] \in [DOMAIN graph[c] -> MessageRange]
  <2> DEFINE n == Len(graph[c])
  <2>1. x(c) = Heard(graph, "fixed", s, c)
    BY DEF Heard, Without
  <2>2. "fixed" \in Kernels /\ Int \subseteq Int
    BY DEF Kernels
  <2>3. n \in Nat \ {0, 1} /\ DOMAIN graph[c] = 1 .. n /\ Heard(graph, "fixed", s, c) \in [1 .. n -> Int]
    BY <2>2, AnswerRange
  <2>4. x(c) \in [1 .. n -> Int]
    BY <2>1, <2>3
  <2> HIDE DEF x, n
  <2>5. FixedCheckUpdate(x(c), target[c]) \in [1 .. n -> MessageRange]
    BY <2>3, <2>4, FixedType
  <2> QED
    BY <2>3, <2>5 DEF new
<1>6. DOMAIN new = C /\ new = [c \in C |-> new[c]]
  BY DEF new
<1>7. Shaped(t, V, C)
  BY <1>3, <1>4, <1>6 DEF Shaped
<1>8. IsState(graph, V, t, MessageRange)
  BY <1>4, <1>5, <1>7 DEF IsState
<1> QED
  BY <1>4, <1>8 DEF t

-----------------------------------------------------------------------------
(* The orders of the sweeps.                                               *)

\* Of main checks alone the GARI decoder makes the plain order.
LEMMA MainChecksOnly ==
  ASSUME NEW graph, NEW T, NEW types \in Seq(T), ToSet(types) \subseteq {"D_X", "D_Z"},
         Len(types) = Len(graph), NEW partitions, NEW parallelism
  PROVE  GariOrder(graph, types, partitions, parallelism) = Forward(graph)
<1> DEFINE n == Len(types)
           first(i) == [c \in 1 .. i |-> c]
<1>1. n \in Nat /\ \A i \in 1 .. n : types[i] \in {"D_X", "D_Z"}
  <2>1. n \in Nat /\ DOMAIN types = 1 .. n
    OBVIOUS
  <2> QED
    BY <2>1 DEF ToSet
<1>2. MainOrder(types) = first(n)
  <2>1. PICK f : IsSelection(f, types, {"D_X", "D_Z"}) /\ Positions(types, {"D_X", "D_Z"}) = f[n]
    BY SelectionByPosition
  <2> DEFINE D == {i \in 0 .. n : f[i] = first(i)}
  <2>2. 0 \in D
    <3>1. first(0) = <<>>
      OBVIOUS
    <3>2. f[0] = <<>> /\ 0 \in 0 .. n
      BY <1>1, <2>1 DEF IsSelection
    <3> HIDE DEF first
    <3> QED
      BY <3>1, <3>2
  <2>3. ASSUME NEW i \in 1 .. n, (i - 1) \in D PROVE i \in D
    <3>1. f[i] = Append(f[i - 1], i)
      BY <1>1, <2>1 DEF IsSelection
    <3>2. f[i - 1] = first(i - 1)
      BY <2>3
    <3>3. Append(first(i - 1), i) = first(i)
      <4>1. i - 1 \in Nat /\ i \in Nat
        BY <1>1
      <4>2. first(i - 1) \in Seq(Nat) /\ Len(first(i - 1)) = i - 1
        BY <4>1
      <4>3. Append(first(i - 1), i) = [c \in 1 .. (i - 1) + 1 |-> IF c = (i - 1) + 1 THEN i ELSE first(i - 1)[c]]
        BY <4>1, <4>2
      <4>4. (i - 1) + 1 = i /\ \A c \in 1 .. i : c # i => c \in 1 .. i - 1
        BY <4>1
      <4> QED
        BY <4>3, <4>4
    <3>4. i \in 0 .. n
      BY <1>1
    <3> HIDE DEF first
    <3> QED
      BY <3>1, <3>2, <3>3, <3>4
  <2> HIDE DEF D, n
  <2>4. 0 .. n \subseteq D
    BY <1>1, <2>2, <2>3, IntervalInduction
  <2>5. n \in D
    BY <1>1, <2>4
  <2> QED
    BY <2>1, <2>5 DEF D, MainOrder
<1>3. Positions(types, {"U", "V"}) = <<>>
  <2>1. PICK f : IsSelection(f, types, {"U", "V"}) /\ Positions(types, {"U", "V"}) = f[n]
    BY SelectionByPosition
  <2> DEFINE D == {i \in 0 .. n : f[i] = <<>>}
  <2>2. 0 \in D
    BY <1>1, <2>1 DEF IsSelection
  <2>3. ASSUME NEW i \in 1 .. n, (i - 1) \in D PROVE i \in D
    <3>1. types[i] \notin {"U", "V"}
      BY <1>1
    <3>2. f[i] = f[i - 1]
      BY <2>1, <3>1 DEF IsSelection
    <3>3. f[i - 1] = <<>> /\ i \in 0 .. n
      BY <1>1, <2>3
    <3> QED
      BY <3>2, <3>3
  <2> HIDE DEF D, n
  <2>4. 0 .. n \subseteq D
    BY <1>1, <2>2, <2>3, IntervalInduction
  <2>5. n \in D
    BY <1>1, <2>4
  <2> QED
    BY <2>1, <2>5 DEF D
<1>4. AuxiliaryBatches(graph, types, partitions, parallelism) = <<>>
  <2> DEFINE order == Positions(types, {"U", "V"})
  <2>1. order = <<>> /\ order \in Seq({})
    BY <1>3
  <2>2. PICK f : /\ IsBatching(f, graph, partitions, parallelism, order)
                 /\ AuxiliaryBatches(graph, types, partitions, parallelism) = f[Len(order)]
    BY <2>1, BatchingByPosition
  <2>3. Len(order) = 0 /\ f[0] = <<>>
    BY <2>1, <2>2 DEF IsBatching
  <2> HIDE DEF order
  <2> QED
    BY <2>2, <2>3
<1>5. FlattenSeq(<<>>) = <<>>
  BY DEF FlattenSeq
<1>6. GariOrder(graph, types, partitions, parallelism) = first(n) \o <<>>
  BY <1>2, <1>4, <1>5 DEF GariOrder
<1>7. first(n) \in Seq(Nat)
  <2> HIDE DEF n
  <2> QED
    BY <1>1
<1>8. first(n) \o <<>> = first(n)
  <2> HIDE DEF first
  <2> QED
    BY <1>7
<1> QED
  BY <1>6, <1>8 DEF Forward

\* What a decoder sweeps with, and in which order.
KernelOf(name) ==
  CASE name \in {"fixed", "hybrid", "gari"} -> "fixed"
    [] name = "batch" -> "batch"
    [] OTHER -> "wide"
OrderOf(name, i) ==
  CASE name \in {"fixed", "hybrid"} -> Forward(decode.graph)
    [] name = "gari" -> GariOrder(decode.graph, decode.types, decode.partitions, decode.parallelism)
    [] OTHER -> IterationChecks(decode.graph, decode.schedule, i)

LEMMA SweepOfIs ==
  ASSUME NEW name, NEW s, NEW i
  PROVE  SweepOf(name, s, i)
           = Sweep(decode.graph, decode.target, KernelOf(name), s, OrderOf(name, i))
BY DEF SweepOf, KernelOf, OrderOf

\* What a decoder becomes in one step.
NextRun(name, i) ==
  LET r == decode.runs[name]
  IN  IF r.success /\ name # "free" THEN r
      ELSE Tested(decode.graph, decode.target, SweepOf(name, r.state, i), i)

-----------------------------------------------------------------------------
(* All decoders.                                                           *)

\* The window stays what it was.
WindowKept(window) ==
  /\ DOMAIN decode = Fields /\ DOMAIN decode.runs = Decoders
  /\ decode.graph = window.graph /\ decode.prior = window.prior /\ decode.target = window.target
  /\ decode.schedule = window.schedule /\ decode.types = window.types
  /\ decode.sweep \in Nat /\ decode.phase \in {"warm", "sweep"}
  /\ decode.phase = "warm" => "state" \in DOMAIN decode.runs["hybrid"]

\* The warm-up leaves messages of any size, the decoders do not.
RangeOf(name) == IF name = "hybrid" /\ decode.phase = "warm" THEN Int ELSE MessageRange
AllStates(window) ==
  \A n \in Decoders :
    IsState(window.graph, DOMAIN window.prior, decode.runs[n].state, RangeOf(n))
AllTested(window) ==
  \A n \in Decoders :
    (n = "hybrid" => decode.phase = "sweep") =>
      decode.runs[n].success = Met(window.graph, window.target, decode.runs[n].state)
PriorBalances(window) ==
  HasRoom(window.graph, DOMAIN window.prior, window.prior) =>
    /\ \A n \in Decoders \ {"hybrid"} : Balances(window.graph, decode.runs[n].state, window.prior)
    /\ decode.runs["batch"] = decode.runs["wide"]
OffsetBalances(window) ==
  decode.phase = "sweep" =>
    /\ decode.offset \in [DOMAIN window.prior -> Int]
    /\ HasRoom(window.graph, DOMAIN window.prior, decode.offset) =>
         Balances(window.graph, decode.runs["hybrid"].state, decode.offset)
GariIsFixed(window) ==
  ToSet(window.types) \subseteq {"D_X", "D_Z"} => decode.runs["gari"] = decode.runs["fixed"]

RunsInv(window) ==
  WindowKept(window) /\ AllStates(window) /\ AllTested(window) /\ PriorBalances(window)
  /\ OffsetBalances(window) /\ GariIsFixed(window)

LEMMA DecodableFacts ==
  ASSUME NEW window, IsDecodable(window)
  PROVE  /\ IsGraph(window.graph, window.target, DOMAIN window.prior)
         /\ window.prior \in [DOMAIN window.prior -> Int]
         /\ window.graph \in Seq(Seq(DOMAIN window.prior))
         /\ IsSchedule(window.schedule, Len(window.graph))
         /\ IsWindow(window) /\ Len(window.types) = Len(window.graph)
         /\ window.types \in Seq({"D_X", "D_Z", "U", "V"})
<1>1. IsWindow(window) /\ window.prior \in Seq(Int)
  BY DEF IsDecodable
<1>2. window.graph \in Seq(Seq(DOMAIN window.prior)) /\ Len(window.types) = Len(window.graph)
      /\ window.types \in Seq({"D_X", "D_Z", "U", "V"})
  BY <1>1 DEF IsWindow
<1>3. window.prior \in [DOMAIN window.prior -> Int]
  BY <1>1
<1>4. IsGraph(window.graph, window.target, DOMAIN window.prior)
  BY <1>2 DEF IsDecodable, IsGraph
<1> QED
  BY <1>1, <1>2, <1>3, <1>4 DEF IsDecodable

LEMMA RunFields ==
  ASSUME NEW s, NEW i, NEW success
  PROVE  /\ Run(s, i, success).state = s /\ Run(s, i, success).success = success
         /\ "state" \in DOMAIN Run(s, i, success)
BY DEF Run

LEMMA RunsInit ==
  ASSUME NEW window, IsDecodable(window), decode = StartDecode(window)
  PROVE  RunsInv(window)
<1> DEFINE V == DOMAIN window.prior
           s == Fresh(window.graph, window.prior)
           met == Met(window.graph, window.target, s)
<1>1. /\ DOMAIN decode = Fields
      /\ decode.graph = window.graph /\ decode.prior = window.prior /\ decode.target = window.target
      /\ decode.schedule = window.schedule /\ decode.types = window.types
      /\ decode.sweep = 0 /\ decode.phase = "warm"
      /\ decode.runs = [n \in Decoders |-> Run(s, 0, met /\ n # "hybrid")]
  <2> HIDE DEF s, met
  <2> QED
    BY DEF StartDecode, Fields, s, met
<1>2. /\ IsState(window.graph, V, s, MessageRange)
      /\ HasRoom(window.graph, V, window.prior) => Balances(window.graph, s, window.prior)
  BY DecodableFacts, FreshFacts
<1> DEFINE ok(n) == met /\ n # "hybrid"
<1>3. \A n \in Decoders : decode.runs[n] = Run(s, 0, ok(n))
  BY <1>1
<1> HIDE DEF s, ok
<1>4. \A n \in Decoders : /\ decode.runs[n].state = s /\ decode.runs[n].success = ok(n)
                          /\ "state" \in DOMAIN decode.runs[n]
  BY <1>3, RunFields
<1>5. WindowKept(window)
  <2>1. "hybrid" \in Decoders
    BY DEF Decoders
  <2> QED
    BY <1>1, <1>4, <2>1 DEF WindowKept
<1>6. AllStates(window)
  <2>1. IsState(window.graph, V, s, Int)
    <3>1. MessageRange \subseteq Int
      BY DEF MessageRange, WIDE_MAG_MAX
    <3> QED
      BY <1>2, <3>1 DEF IsState
  <2> QED
    BY <1>2, <1>4, <2>1 DEF AllStates, RangeOf
<1>7. AllTested(window)
  <2> SUFFICES ASSUME NEW n \in Decoders, n = "hybrid" => decode.phase = "sweep"
               PROVE  decode.runs[n].success = Met(window.graph, window.target, decode.runs[n].state)
    BY DEF AllTested
  <2>1. n # "hybrid"
    BY <1>1
  <2>2. decode.runs[n].success = ok(n) /\ decode.runs[n].state = s
    BY <1>4
  <2>3. ok(n) = met
    BY <2>1 DEF Met, ok
  <2> HIDE DEF met
  <2> QED
    BY <2>2, <2>3 DEF met
<1>8. PriorBalances(window)
  <2>1. decode.runs["batch"] = decode.runs["wide"]
    <3>1. "batch" \in Decoders /\ "wide" \in Decoders /\ ok("batch") = ok("wide")
      BY DEF Decoders, ok
    <3> QED
      BY <1>3, <3>1
  <2> QED
    BY <1>2, <1>4, <2>1 DEF PriorBalances
<1>9. OffsetBalances(window)
  BY <1>1 DEF OffsetBalances
<1>10. GariIsFixed(window)
  <2>1. "gari" \in Decoders /\ "fixed" \in Decoders /\ ok("gari") = ok("fixed")
    BY DEF Decoders, ok
  <2> QED
    BY <1>3, <2>1 DEF GariIsFixed
<1> QED
  BY <1>5, <1>6, <1>7, <1>8, <1>9, <1>10 DEF RunsInv

\* A step of the warm-up or the conversion leaves all decoders but the hybrid one.
OthersStay == \A n \in Decoders \ {"hybrid"} : decode'.runs[n] = decode.runs[n]
FieldsStay ==
  /\ DOMAIN decode' = Fields /\ DOMAIN decode'.runs = Decoders
  /\ decode'.graph = decode.graph /\ decode'.prior = decode.prior /\ decode'.target = decode.target
  /\ decode'.schedule = decode.schedule /\ decode'.types = decode.types

LEMMA OthersKeep ==
  ASSUME NEW window, RunsInv(window), FieldsStay, OthersStay,
         decode'.sweep = decode.sweep, decode'.phase \in {"warm", "sweep"},
         decode'.phase = "warm" => "state" \in DOMAIN decode'.runs["hybrid"],
         IsState(window.graph, DOMAIN window.prior, decode'.runs["hybrid"].state, RangeOf("hybrid")'),
         decode'.phase = "sweep" =>
           decode'.runs["hybrid"].success
             = Met(window.graph, window.target, decode'.runs["hybrid"].state),
         OffsetBalances(window)'
  PROVE  RunsInv(window)'
<1>1. WindowKept(window)'
  BY DEF RunsInv, WindowKept, FieldsStay
<1>2. AllStates(window)'
  <2>1. ASSUME NEW n \in Decoders, n # "hybrid"
        PROVE  IsState(window.graph, DOMAIN window.prior, decode'.runs[n].state, MessageRange)
    BY <2>1 DEF RunsInv, AllStates, RangeOf, OthersStay
  <2> QED
    BY <2>1 DEF AllStates, RangeOf
<1>3. AllTested(window)'
  <2>1. ASSUME NEW n \in Decoders, n # "hybrid"
        PROVE  decode'.runs[n].success = Met(window.graph, window.target, decode'.runs[n].state)
    BY <2>1 DEF RunsInv, AllTested, OthersStay
  <2> QED
    BY <2>1 DEF AllTested
<1>4. PriorBalances(window)'
  <2>1. "batch" \in Decoders \ {"hybrid"} /\ "wide" \in Decoders \ {"hybrid"}
    BY DEF Decoders
  <2> QED
    BY <2>1 DEF RunsInv, PriorBalances, OthersStay
<1>5. GariIsFixed(window)'
  <2>1. "gari" \in Decoders \ {"hybrid"} /\ "fixed" \in Decoders \ {"hybrid"}
    BY DEF Decoders
  <2> QED
    BY <2>1 DEF RunsInv, GariIsFixed, OthersStay
<1> QED
  BY <1>1, <1>2, <1>3, <1>4, <1>5 DEF RunsInv

LEMMA WarmKeeps ==
  ASSUME NEW window, IsDecodable(window), RunsInv(window), Warm
  PROVE  RunsInv(window)'
<1> DEFINE h == decode.runs["hybrid"]
           order == Forward(decode.graph)
           next == Sweep(decode.graph, decode.target, "boxplus", h.state, order)
<1>1. WindowKept(window) /\ AllStates(window) /\ decode.phase = "warm" /\ "hybrid" \in Decoders
  BY DEF RunsInv, Warm, Decoders
<1>2. {"graph", "prior", "target", "schedule", "types", "runs", "warmed", "phase", "offset", "sweep"}
        \subseteq Fields
  BY DEF Fields
<1>3. decode' = [decode EXCEPT !.warmed = @ + 1, !.runs["hybrid"].state = next]
  BY DEF Warm
<1> HIDE DEF next
<1>4. /\ DOMAIN decode' = Fields /\ decode'.graph = decode.graph /\ decode'.prior = decode.prior
      /\ decode'.target = decode.target /\ decode'.schedule = decode.schedule
      /\ decode'.types = decode.types /\ decode'.sweep = decode.sweep /\ decode'.phase = decode.phase
      /\ decode'.runs = [decode.runs EXCEPT !["hybrid"].state = next]
  BY <1>1, <1>2, <1>3 DEF WindowKept
<1>5. FieldsStay /\ OthersStay
  BY <1>1, <1>4 DEF FieldsStay, OthersStay, WindowKept
<1>6. IsState(window.graph, DOMAIN window.prior, next, Int)
  <2>1. IsState(window.graph, DOMAIN window.prior, h.state, Int)
    BY <1>1 DEF AllStates, RangeOf
  <2>2. order \in Seq(DOMAIN window.graph)
    <3>1. window.graph \in Seq(Seq(DOMAIN window.prior)) /\ decode.graph = window.graph
      BY <1>1, DecodableFacts DEF WindowKept
    <3> QED
      BY <3>1 DEF Forward
  <2>3. "boxplus" \in Kernels /\ Int \subseteq Int /\ AnswersOf("boxplus") \subseteq Int
    BY DEF Kernels, AnswersOf
  <2>4. IsGraph(window.graph, window.target, DOMAIN window.prior)
    BY DecodableFacts
  <2> HIDE DEF order, h
  <2>5. IsState(window.graph, DOMAIN window.prior,
                Sweep(window.graph, window.target, "boxplus", h.state, order), Int)
    BY <2>1, <2>2, <2>3, <2>4, SweepKeepsState
  <2> QED
    BY <1>1, <2>5 DEF next, WindowKept
<1>7. decode'.runs["hybrid"].state = next /\ "state" \in DOMAIN decode'.runs["hybrid"]
  <2>2. decode'.runs["hybrid"] = [h EXCEPT !.state = next]
    BY <1>1, <1>4 DEF WindowKept
  <2>3. "state" \in DOMAIN h
    BY <1>1 DEF WindowKept
  <2> QED
    BY <2>2, <2>3
<1>8. OffsetBalances(window)'
  BY <1>1, <1>4 DEF OffsetBalances
<1>9. RangeOf("hybrid")' = Int
  BY <1>1, <1>4 DEF RangeOf
<1> QED
  BY <1>1, <1>4, <1>5, <1>6, <1>7, <1>8, <1>9, OthersKeep

LEMMA ConvertKeeps ==
  ASSUME NEW window, IsDecodable(window), RunsInv(window), Convert
  PROVE  RunsInv(window)'
<1> DEFINE V == DOMAIN window.prior
           s == decode.runs["hybrid"].state
           new == Converted(decode.graph, decode.target, s)
           offset == [v \in DOMAIN s.posterior |-> s.posterior[v] - Received(decode.graph, new, v)]
           run == Tested(decode.graph, decode.target, new, 0)
<1>1. WindowKept(window) /\ AllStates(window) /\ decode.phase = "warm" /\ "hybrid" \in Decoders
  BY DEF RunsInv, Convert, Decoders
<1>2. {"graph", "prior", "target", "schedule", "types", "runs", "warmed", "phase", "offset", "sweep"}
        \subseteq Fields
  BY DEF Fields
<1>3. decode' = [decode EXCEPT !.phase = "sweep", !.offset = offset, !.runs["hybrid"] = run]
  BY DEF Convert
<1>4. decode.graph = window.graph /\ decode.target = window.target
  BY <1>1 DEF WindowKept
<1>5. IsState(window.graph, V, s, Int)
  BY <1>1 DEF AllStates, RangeOf
<1>6. IsState(window.graph, V, new, MessageRange) /\ new.posterior = s.posterior
  <2> HIDE DEF s
  <2> QED
    BY <1>4, <1>5, DecodableFacts, ConvertedFacts
<1> HIDE DEF s, new, offset, run
<1>7. /\ DOMAIN decode' = Fields /\ decode'.graph = decode.graph /\ decode'.prior = decode.prior
      /\ decode'.target = decode.target /\ decode'.schedule = decode.schedule
      /\ decode'.types = decode.types /\ decode'.sweep = decode.sweep /\ decode'.phase = "sweep"
      /\ decode'.offset = offset /\ decode'.runs = [decode.runs EXCEPT !["hybrid"] = run]
  BY <1>1, <1>2, <1>3 DEF WindowKept
<1>8. FieldsStay /\ OthersStay /\ decode'.runs["hybrid"] = run
  BY <1>1, <1>7 DEF FieldsStay, OthersStay, WindowKept
<1>9. run.state = new /\ run.success = Met(window.graph, window.target, new)
  BY <1>4 DEF run, Tested, Run
<1>10. OffsetBalances(window)'
  <2>1. DOMAIN s.posterior = V /\ \A v \in V : s.posterior[v] \in Int
    BY <1>5 DEF IsState, Shaped
  <2>2. \A v \in V : Received(window.graph, new, v) \in Int
    <3>1. window.graph \in Seq(Seq(V))
      BY DecodableFacts
    <3> QED
      BY <1>6, <3>1, ReceivedRange
  <2>3. offset = [v \in V |-> s.posterior[v] - Received(window.graph, new, v)]
    BY <1>4, <2>1 DEF offset
  <2>4. offset \in [V -> Int]
    BY <2>1, <2>2, <2>3
  <2>5. \A v \in V : new.posterior[v] = offset[v] + Received(window.graph, new, v)
    BY <1>6, <2>1, <2>2, <2>3
  <2>6. Balances(window.graph, new, offset)
    BY <2>4, <2>5 DEF Balances
  <2> QED
    BY <1>7, <1>8, <1>9, <2>4, <2>6 DEF OffsetBalances
<1>11. RangeOf("hybrid")' = MessageRange
  BY <1>7 DEF RangeOf
<1> QED
  BY <1>6, <1>7, <1>8, <1>9, <1>10, <1>11, OthersKeep

LEMMA SweepKeeps ==
  ASSUME NEW window, IsDecodable(window), RunsInv(window), SweepAll
  PROVE  RunsInv(window)'
<1> DEFINE V == DOMAIN window.prior
           g == window.graph
           y == window.target
           i == decode.sweep + 1
           runs == [n \in Decoders |-> NextRun(n, i)]
<1>1. /\ WindowKept(window) /\ AllStates(window) /\ AllTested(window) /\ PriorBalances(window)
      /\ OffsetBalances(window) /\ GariIsFixed(window) /\ decode.phase = "sweep"
  BY DEF RunsInv, SweepAll
<1>2. {"graph", "prior", "target", "schedule", "types", "runs", "warmed", "phase", "offset", "sweep"}
        \subseteq Fields
  BY DEF Fields
<1>3. decode' = [decode EXCEPT !.sweep = i, !.runs = runs]
  BY DEF SweepAll, NextRun
<1>4. decode.graph = g /\ decode.target = y /\ decode.schedule = window.schedule
      /\ decode.types = window.types /\ i \in Nat \ {0}
  BY <1>1 DEF WindowKept
<1>5. IsGraph(g, y, V) /\ g \in Seq(Seq(V))
  BY DecodableFacts
<1>6. \A n \in Decoders : OrderOf(n, i) \in Seq(DOMAIN g)
  <2>1. Forward(g) \in Seq(DOMAIN g)
    BY <1>5 DEF Forward
  <2>2. GariOrder(g, window.types, decode.partitions, decode.parallelism) \in Seq(DOMAIN g)
    <3>1. DOMAIN g = 1 .. Len(window.types) /\ window.types \in Seq({"D_X", "D_Z", "U", "V"})
      BY DecodableFacts
    <3> QED
      BY <3>1, GariOrderType
  <2>3. IterationChecks(g, window.schedule, i) \in Seq(DOMAIN g)
    <3>1. IsSchedule(window.schedule, Len(g))
      BY DecodableFacts
    <3> HIDE DEF i, g
    <3> QED
      BY <1>4, <1>5, <3>1, ScheduleCovers
  <2> HIDE DEF g, i
  <2> QED
    BY <1>4, <2>1, <2>2, <2>3 DEF OrderOf
<1>7. \A n \in Decoders : KernelOf(n) \in Compressed /\ KernelOf(n) \in Kernels
  BY DEF KernelOf, Compressed, Kernels
<1> HIDE DEF runs, i
<1>8. /\ DOMAIN decode' = Fields /\ decode'.graph = decode.graph /\ decode'.prior = decode.prior
      /\ decode'.target = decode.target /\ decode'.schedule = decode.schedule
      /\ decode'.types = decode.types /\ decode'.sweep = i /\ decode'.phase = "sweep"
      /\ decode'.offset = decode.offset /\ decode'.runs = runs
  BY <1>1, <1>2, <1>3 DEF WindowKept
<1>9. DOMAIN runs = Decoders /\ \A n \in Decoders : runs[n] = NextRun(n, i)
  BY DEF runs
<1> DEFINE swept(n) == Sweep(g, y, KernelOf(n), decode.runs[n].state, OrderOf(n, i))
           stops(n) == decode.runs[n].success /\ n # "free"
<1>10. \A n \in Decoders : runs[n] = IF stops(n) THEN decode.runs[n] ELSE Tested(g, y, swept(n), i)
  <2> SUFFICES ASSUME NEW n \in Decoders
               PROVE  runs[n] = IF stops(n) THEN decode.runs[n] ELSE Tested(g, y, swept(n), i)
    OBVIOUS
  <2>1. SweepOf(n, decode.runs[n].state, i) = swept(n)
    BY <1>4, SweepOfIs
  <2> HIDE DEF swept, g, y
  <2> QED
    BY <1>4, <1>9, <2>1 DEF NextRun
<1>11. \A n \in Decoders : runs[n].state = IF stops(n) THEN decode.runs[n].state ELSE swept(n)
  <2>1. \A n : Tested(g, y, swept(n), i).state = swept(n)
    BY RunFields DEF Tested
  <2> HIDE DEF swept, stops, g, y
  <2> QED
    BY <1>10, <2>1
<1>12. \A n \in Decoders : IsState(g, V, decode.runs[n].state, MessageRange)
  BY <1>1 DEF AllStates, RangeOf
<1>13. \A n \in Decoders : IsState(g, V, runs[n].state, MessageRange)
  <2> SUFFICES ASSUME NEW n \in Decoders PROVE IsState(g, V, runs[n].state, MessageRange)
    OBVIOUS
  <2>1. MessageRange \subseteq Int /\ AnswersOf(KernelOf(n)) \subseteq MessageRange
    BY <1>7 DEF MessageRange, WIDE_MAG_MAX, AnswersOf, Compressed
  <2>2. IsState(g, V, swept(n), MessageRange)
    <3> HIDE DEF g, y, V
    <3> QED
      BY <1>5, <1>6, <1>7, <1>12, <2>1, SweepKeepsState
  <2> HIDE DEF swept, stops, g, V
  <2> QED
    BY <1>11, <1>12, <2>2
<1>14. \A n \in Decoders : runs[n].success = Met(g, y, runs[n].state)
  <2> SUFFICES ASSUME NEW n \in Decoders PROVE runs[n].success = Met(g, y, runs[n].state)
    OBVIOUS
  <2>1. decode.runs[n].success = Met(g, y, decode.runs[n].state)
    BY <1>1 DEF AllTested
  <2>2. Tested(g, y, swept(n), i).success = Met(g, y, Tested(g, y, swept(n), i).state)
    BY DEF Tested, Run
  <2> HIDE DEF swept, stops, g, y
  <2>3. CASE stops(n)
    BY <1>10, <2>1, <2>3
  <2>4. CASE ~stops(n)
    BY <1>10, <2>2, <2>4
  <2> QED
    BY <2>3, <2>4
<1>15. ASSUME NEW base, HasRoom(g, V, base), NEW n \in Decoders,
              Balances(g, decode.runs[n].state, base)
       PROVE  Balances(g, runs[n].state, base)
  <2>1. Sound(g, V, decode.runs[n].state, base)
    BY <1>12, <1>15 DEF Sound
  <2>2. Sound(g, V, swept(n), base)
    <3> HIDE DEF g, y, V
    <3> QED
      BY <1>5, <1>6, <1>7, <1>15, <2>1, SweepKeepsBalance
  <2> HIDE DEF swept, stops, g, V
  <2> QED
    BY <1>11, <1>15, <2>2 DEF Sound
<1>16. WindowKept(window)'
  BY <1>1, <1>4, <1>8, <1>9 DEF WindowKept
<1>17. AllStates(window)'
  BY <1>8, <1>13 DEF AllStates, RangeOf
<1>18. AllTested(window)'
  BY <1>8, <1>14 DEF AllTested
<1>19. PriorBalances(window)'
  <2> SUFFICES ASSUME HasRoom(g, V, window.prior)
               PROVE  /\ \A n \in Decoders \ {"hybrid"} : Balances(g, runs[n].state, window.prior)
                      /\ runs["batch"] = runs["wide"]
    BY <1>8 DEF PriorBalances
  <2>1. /\ \A n \in Decoders \ {"hybrid"} : Balances(g, decode.runs[n].state, window.prior)
        /\ decode.runs["batch"] = decode.runs["wide"]
    BY <1>1 DEF PriorBalances
  <2>2. \A n \in Decoders \ {"hybrid"} : Balances(g, runs[n].state, window.prior)
    BY <1>15, <2>1
  <2>3. "batch" \in Decoders \ {"hybrid"} /\ "wide" \in Decoders \ {"hybrid"}
    BY DEF Decoders
  <2>4. KernelOf("batch") = "batch" /\ KernelOf("wide") = "wide" /\ OrderOf("batch", i) = OrderOf("wide", i)
    BY DEF KernelOf, OrderOf
  <2>5. Sound(g, V, decode.runs["wide"].state, window.prior)
    BY <1>12, <2>1, <2>3 DEF Sound
  <2>6. swept("batch") = swept("wide")
    <3> HIDE DEF g, y, V
    <3>1. Sweep(g, y, "batch", decode.runs["wide"].state, OrderOf("wide", i))
            = Sweep(g, y, "wide", decode.runs["wide"].state, OrderOf("wide", i))
      BY <1>5, <1>6, <2>3, <2>5, SweepOfBatch
    <3> QED
      BY <2>1, <2>4, <3>1
  <2>7. stops("batch") = stops("wide")
    BY <2>1
  <2>8. runs["batch"] = runs["wide"]
    <3> HIDE DEF swept, stops, g, y
    <3> QED
      BY <1>10, <2>1, <2>3, <2>6, <2>7
  <2> QED
    BY <2>2, <2>8
<1>20. OffsetBalances(window)'
  <2>1. "hybrid" \in Decoders
    BY DEF Decoders
  <2>2. /\ decode.offset \in [V -> Int]
        /\ HasRoom(g, V, decode.offset) => Balances(g, decode.runs["hybrid"].state, decode.offset)
    BY <1>1 DEF OffsetBalances
  <2>3. HasRoom(g, V, decode.offset) => Balances(g, runs["hybrid"].state, decode.offset)
    BY <1>15, <2>1, <2>2
  <2> QED
    BY <1>8, <2>2, <2>3 DEF OffsetBalances
<1>21. GariIsFixed(window)'
  <2> SUFFICES ASSUME ToSet(window.types) \subseteq {"D_X", "D_Z"} PROVE runs["gari"] = runs["fixed"]
    BY <1>8 DEF GariIsFixed
  <2>1. decode.runs["gari"] = decode.runs["fixed"]
    BY <1>1 DEF GariIsFixed
  <2>2. "gari" \in Decoders /\ "fixed" \in Decoders
    BY DEF Decoders
  <2>3. KernelOf("gari") = "fixed" /\ KernelOf("fixed") = "fixed"
    BY DEF KernelOf
  <2>4. OrderOf("gari", i) = OrderOf("fixed", i)
    <3>1. GariOrder(g, window.types, decode.partitions, decode.parallelism) = Forward(g)
      BY DecodableFacts, MainChecksOnly
    <3> HIDE DEF g
    <3> QED
      BY <1>4, <3>1 DEF OrderOf
  <2>5. swept("gari") = swept("fixed")
    BY <2>1, <2>3, <2>4
  <2>6. stops("gari") = stops("fixed")
    BY <2>1
  <2> HIDE DEF swept, stops, g, y
  <2> QED
    BY <1>10, <2>1, <2>2, <2>5, <2>6
<1> QED
  BY <1>16, <1>17, <1>18, <1>19, <1>20, <1>21 DEF RunsInv

LEMMA RunsStep ==
  ASSUME NEW window, IsDecodable(window), RunsInv(window), [DecodeStep]_decode
  PROVE  RunsInv(window)'
<1>1. CASE UNCHANGED decode
  BY <1>1 DEF RunsInv, WindowKept, AllStates, RangeOf, AllTested, PriorBalances, OffsetBalances,
              GariIsFixed
<1> QED
  BY <1>1, WarmKeeps, ConvertKeeps, SweepKeeps DEF DecodeStep

LEMMA RunsOfAState ==
  ASSUME NEW window, IsDecodable(window), RunsInv(window)
  PROVE  RunsAgree
<1> DEFINE V == DOMAIN window.prior
           g == window.graph
           checks == IterationChecks(decode.graph, decode.schedule, decode.sweep + 1)
<1> SUFFICES ASSUME decode.phase = "sweep"
             PROVE  /\ \A n \in Decoders :
                        decode.runs[n].success
                          = (SyndromeBits(decode.graph, HardDecision(decode.runs[n].state.posterior))
                               = decode.target)
                    /\ Len(checks) = Len(decode.graph) /\ ToSet(checks) = DOMAIN decode.graph
                    /\ Roomy(decode.graph, decode.prior) =>
                         /\ \A n \in Decoders \ {"hybrid"} : Accounted(n, decode.prior)
                         /\ decode.runs["batch"] = decode.runs["wide"]
                    /\ Roomy(decode.graph, decode.offset) => Accounted("hybrid", decode.offset)
                    /\ ToSet(decode.types) \subseteq {"D_X", "D_Z"} =>
                         decode.runs["gari"] = decode.runs["fixed"]
  BY DEF RunsAgree
<1>1. /\ WindowKept(window) /\ AllStates(window) /\ AllTested(window) /\ PriorBalances(window)
      /\ OffsetBalances(window) /\ GariIsFixed(window)
  BY DEF RunsInv
<1>2. decode.graph = g /\ decode.target = window.target /\ decode.schedule = window.schedule
      /\ decode.types = window.types /\ decode.prior = window.prior /\ decode.sweep \in Nat
  BY <1>1 DEF WindowKept
<1>3. ASSUME NEW n \in Decoders
      PROVE  decode.runs[n].success
               = (SyndromeBits(decode.graph, HardDecision(decode.runs[n].state.posterior)) = decode.target)
  BY <1>1, <1>2 DEF AllTested, Met
<1>4. Len(checks) = Len(decode.graph) /\ ToSet(checks) = DOMAIN decode.graph
  <2>1. IsSchedule(window.schedule, Len(g)) /\ g \in Seq(Seq(V))
    BY DecodableFacts
  <2>2. decode.sweep + 1 \in Nat \ {0}
    BY <1>2
  <2> HIDE DEF g, V
  <2> QED
    BY <1>2, <2>1, <2>2, ScheduleCovers
<1>5. ASSUME NEW base \in [V -> Int], Roomy(decode.graph, base) PROVE HasRoom(g, V, base)
  BY <1>2, <1>5 DEF HasRoom
<1>6. ASSUME NEW n, NEW base, Balances(g, decode.runs[n].state, base) PROVE Accounted(n, base)
  BY <1>2, <1>6 DEF Accounted, Balances
<1>7. Roomy(decode.graph, decode.prior) => /\ \A n \in Decoders \ {"hybrid"} : Accounted(n, decode.prior)
                             /\ decode.runs["batch"] = decode.runs["wide"]
  <2>1. window.prior \in [V -> Int]
    BY DecodableFacts
  <2> QED
    BY <1>1, <1>2, <1>5, <1>6, <2>1 DEF PriorBalances
<1>8. Roomy(decode.graph, decode.offset) => Accounted("hybrid", decode.offset)
  BY <1>1, <1>5, <1>6 DEF OffsetBalances
<1>9. ToSet(decode.types) \subseteq {"D_X", "D_Z"} => decode.runs["gari"] = decode.runs["fixed"]
  BY <1>1, <1>2 DEF GariIsFixed
<1> HIDE DEF checks
<1> QED
  BY <1>3, <1>4, <1>7, <1>8, <1>9

\* For every window the decoders do not refuse: a success is a decision that meets the
\* syndrome, every schedule visits every check once a sweep, no check's word is counted twice
\* or left behind while nothing saturates, the batch is the scalar decoder, and the GARI
\* order over main checks is the reference.
THEOREM DecodersAlwaysAgree ==
  ASSUME NEW window, IsDecodable(window)
  PROVE  DecodeSpec(window) => []RunsAgree
<1>1. decode = StartDecode(window) => RunsInv(window)
  BY RunsInit
<1>2. RunsInv(window) /\ [DecodeStep]_decode => RunsInv(window)'
  BY RunsStep
<1>3. RunsInv(window) => RunsAgree
  BY RunsOfAState
<1> QED
  BY <1>1, <1>2, <1>3, PTL DEF DecodeSpec

-----------------------------------------------------------------------------
(* Positions, and sequences joined, in order.                              *)


\* One more element.
LEMMA AppendedSet ==
  ASSUME NEW T, NEW s \in Seq(T), NEW x
  PROVE  /\ ToSet(Append(s, x)) = ToSet(s) \cup {x}
         /\ x \notin ToSet(s) /\ IsInjective(s) => IsInjective(Append(s, x))
<1> DEFINE n == Len(s)
           more == Append(s, x)
<1>1. n \in Nat /\ DOMAIN s = 1..n /\ DOMAIN more = 1..(n + 1)
  OBVIOUS
<1>2. more[n + 1] = x /\ \A i \in 1..n : more[i] = s[i]
  OBVIOUS
<1> HIDE DEF n, more
<1>3. 1..(n + 1) = (1..n) \cup {n + 1} /\ n + 1 \notin 1..n
  BY <1>1
<1>4. ToSet(more) = ToSet(s) \cup {x}
  BY <1>1, <1>2, <1>3 DEF ToSet
<1>5. ASSUME x \notin ToSet(s), IsInjective(s) PROVE IsInjective(more)
  <2>1. \A i \in 1..n : s[i] # x
    BY <1>1, <1>5 DEF ToSet
  <2> QED
    BY <1>1, <1>2, <1>3, <1>5, <2>1 DEF IsInjective
<1> QED
  BY <1>4, <1>5 DEF more

\* Two sequences, one after the other.
LEMMA JoinedFacts ==
  ASSUME NEW T, NEW s \in Seq(T), NEW t \in Seq(T)
  PROVE  /\ s \o t \in Seq(T) /\ ToSet(s \o t) = ToSet(s) \cup ToSet(t)
         /\ IsInjective(s) /\ IsInjective(t) /\ ToSet(s) \cap ToSet(t) = {} => IsInjective(s \o t)
<1> DEFINE m == Len(s)
           n == Len(t)
           both == s \o t
<1>1. m \in Nat /\ n \in Nat /\ DOMAIN s = 1..m /\ DOMAIN t = 1..n /\ DOMAIN both = 1..(m + n)
  OBVIOUS
<1>2. both \in Seq(T)
  OBVIOUS
<1>3. (\A i \in 1..m : both[i] = s[i]) /\ \A i \in 1..n : both[m + i] = t[i]
  OBVIOUS
<1> HIDE DEF m, n, both
<1>4. \A i \in 1..(m + n) : i \in 1..m \/ \E k \in 1..n : i = m + k
  <2>1. ASSUME NEW i \in 1..(m + n), i \notin 1..m PROVE i - m \in 1..n /\ i = m + (i - m)
    BY <1>1, <2>1
  <2> QED
    BY <2>1
<1>5. (\A i \in 1..m : i \in 1..(m + n)) /\ \A k \in 1..n : m + k \in 1..(m + n)
  BY <1>1
<1>6. ToSet(both) = ToSet(s) \cup ToSet(t)
  <2>1. \A i \in 1..(m + n) : both[i] \in ToSet(s) \cup ToSet(t)
    BY <1>1, <1>3, <1>4 DEF ToSet
  <2>2. \A x \in ToSet(s) : x \in ToSet(both)
    BY <1>1, <1>3, <1>5 DEF ToSet
  <2>3. \A x \in ToSet(t) : x \in ToSet(both)
    BY <1>1, <1>3, <1>5 DEF ToSet
  <2> QED
    BY <1>1, <2>1, <2>2, <2>3 DEF ToSet
<1>7. ASSUME IsInjective(s), IsInjective(t), ToSet(s) \cap ToSet(t) = {} PROVE IsInjective(both)
  <2>1. \A i \in 1..m, k \in 1..n : s[i] # t[k]
    BY <1>1, <1>7 DEF ToSet
  <2>2. \A i, j \in 1..m : s[i] = s[j] => i = j
    BY <1>1, <1>7 DEF IsInjective
  <2>3. \A i, j \in 1..n : t[i] = t[j] => i = j
    BY <1>1, <1>7 DEF IsInjective
  <2>4. \A i, j \in 1..(m + n) : both[i] = both[j] => i = j
    BY <1>3, <1>4, <2>1, <2>2, <2>3
  <2> QED
    BY <1>1, <2>4 DEF IsInjective
<1> QED
  BY <1>2, <1>6, <1>7 DEF both

\* Sequences without repetitions that share nothing, one after the other.
LEMMA FlattenedInjective ==
  ASSUME NEW T, NEW seqs \in Seq(Seq(T)), \A i \in 1..Len(seqs) : IsInjective(seqs[i]),
         \A i, j \in 1..Len(seqs) : i # j => ToSet(seqs[i]) \cap ToSet(seqs[j]) = {}
  PROVE  IsInjective(FlattenSeq(seqs))
<1> DEFINE n == Len(seqs)
           Before(i) == UNION {ToSet(seqs[k]) : k \in 1..i}
<1>1. n \in Nat /\ \A i \in 1..n : seqs[i] \in Seq(T)
  OBVIOUS
<1>2. PICK h : IsFlattening(h, seqs, T)
  BY FlattenByPosition
<1> DEFINE D == {i \in 0..n : IsInjective(h[i]) /\ ToSet(h[i]) = Before(i)}
<1>3. 0 \in D
  <2>1. h[0] = <<>>
    BY <1>2 DEF IsFlattening
  <2>2. IsInjective(<<>>) /\ ToSet(<<>>) = {} /\ Before(0) = {}
    BY DEF ToSet, IsInjective
  <2> QED
    BY <1>1, <2>1, <2>2
<1>4. ASSUME NEW i \in 1..n, (i - 1) \in D PROVE i \in D
  <2>1. h[i] = h[i - 1] \o seqs[i] /\ h[i - 1] \in Seq(T)
    <3>1. i - 1 \in 0..n
      BY <1>1
    <3> QED
      BY <1>2, <3>1 DEF IsFlattening
  <2>2. IsInjective(h[i - 1]) /\ ToSet(h[i - 1]) = Before(i - 1)
    BY <1>4
  <2>3. Before(i - 1) \cap ToSet(seqs[i]) = {}
    <3>1. \A k \in 1..(i - 1) : k \in 1..n /\ k # i
      BY <1>1
    <3>2. \A k \in 1..(i - 1) : ToSet(seqs[k]) \cap ToSet(seqs[i]) = {}
      BY <3>1
    <3> QED
      BY <3>2
  <2>4. Before(i) = Before(i - 1) \cup ToSet(seqs[i])
    <3>1. 1..i = (1..(i - 1)) \cup {i}
      BY <1>1
    <3> QED
      BY <3>1
  <2>5. IsInjective(seqs[i])
    OBVIOUS
  <2> HIDE DEF Before
  <2>6. IsInjective(h[i]) /\ ToSet(h[i]) = ToSet(h[i - 1]) \cup ToSet(seqs[i])
    BY <1>1, <2>1, <2>2, <2>3, <2>5, JoinedFacts
  <2>7. i \in 0..n
    BY <1>1
  <2> QED
    BY <2>2, <2>4, <2>6, <2>7
<1> HIDE DEF D
<1>5. 0..n \subseteq D
  <2> HIDE DEF n
  <2> QED
    BY <1>1, <1>3, <1>4, IntervalInduction
<1>6. n \in D
  BY <1>1, <1>5
<1>7. FlattenSeq(seqs) = h[n]
  BY <1>2 DEF IsFlattening
<1> QED
  BY <1>6, <1>7 DEF D

\* The last sequence comes last.
LEMMA FlattenedAppend ==
  ASSUME NEW T, NEW seqs \in Seq(Seq(T)), NEW s \in Seq(T)
  PROVE  FlattenSeq(Append(seqs, s)) = FlattenSeq(seqs) \o s
<1> DEFINE n == Len(seqs)
           more == Append(seqs, s)
<1>1. n \in Nat /\ more \in Seq(Seq(T)) /\ Len(more) = n + 1 /\ more[n + 1] = s
  OBVIOUS
<1>2. \A i \in 1..n : more[i] = seqs[i]
  OBVIOUS
<1>3. PICK h : IsFlattening(h, seqs, T)
  BY FlattenByPosition
<1> HIDE DEF more
<1>4. PICK g : IsFlattening(g, more, T)
  BY <1>1, FlattenByPosition
<1> DEFINE D == {i \in 0..n : g[i] = h[i]}
<1>5. 0 \in D
  BY <1>1, <1>3, <1>4 DEF IsFlattening
<1>6. ASSUME NEW i \in 1..n, (i - 1) \in D PROVE i \in D
  <2>1. i \in 0..n /\ i \in 1..(n + 1)
    BY <1>1
  <2>2. g[i] = g[i - 1] \o more[i]
    BY <1>1, <1>4, <2>1 DEF IsFlattening
  <2>3. h[i] = h[i - 1] \o seqs[i]
    BY <1>3 DEF IsFlattening
  <2> QED
    BY <1>2, <1>6, <2>1, <2>2, <2>3
<1> HIDE DEF D
<1>7. 0..n \subseteq D
  <2> HIDE DEF n
  <2> QED
    BY <1>1, <1>5, <1>6, IntervalInduction
<1>8. g[n] = h[n]
  <2>1. n \in 0..n
    BY <1>1
  <2>2. n \in D
    BY <1>7, <2>1
  <2> QED
    BY <2>2 DEF D
<1>9. g[n + 1] = g[(n + 1) - 1] \o more[n + 1] /\ (n + 1) - 1 = n
  <2>1. n + 1 \in 1..(n + 1) /\ (n + 1) - 1 = n
    BY <1>1
  <2>2. \A i \in 1..(n + 1) : g[i] = g[i - 1] \o more[i]
    BY <1>1, <1>4 DEF IsFlattening
  <2> HIDE DEF n
  <2> QED
    BY <2>1, <2>2
<1>10. FlattenSeq(more) = g[n + 1] /\ FlattenSeq(seqs) = h[n]
  BY <1>1, <1>3, <1>4 DEF IsFlattening
<1> QED
  BY <1>1, <1>8, <1>9, <1>10 DEF more

\* Positions are the places that hold one of the values, in ascending order.
LEMMA PositionsFacts ==
  ASSUME NEW T, NEW s \in Seq(T), NEW values
  PROVE  /\ Positions(s, values) \in Seq(1..Len(s))
         /\ IsInjective(Positions(s, values))
         /\ ToSet(Positions(s, values)) = {k \in 1..Len(s) : s[k] \in values}
<1> DEFINE n == Len(s)
           Held(i) == {k \in 1..i : s[k] \in values}
<1>1. n \in Nat
  OBVIOUS
<1>2. PICK f : IsSelection(f, s, values) /\ Positions(s, values) = f[n]
  BY SelectionByPosition
<1> DEFINE D == {i \in 0..n : f[i] \in Seq(Nat) /\ ToSet(f[i]) = Held(i)}
<1>3. 0 \in D
  <2>1. <<>> \in Seq(Nat) /\ ToSet(<<>>) = {} /\ Held(0) = {}
    BY DEF ToSet
  <2>2. f[0] = <<>>
    BY <1>2 DEF IsSelection
  <2>3. 0 \in 0..n
    BY <1>1
  <2>4. f[0] \in Seq(Nat) /\ ToSet(f[0]) = Held(0)
    BY <2>1, <2>2
  <2> QED
    BY <2>3, <2>4
<1>4. ASSUME NEW i \in 1..n, (i - 1) \in D PROVE i \in D
  <2> DEFINE g == f[i - 1]
  <2>1. g \in Seq(Nat) /\ ToSet(g) = Held(i - 1)
    BY <1>4
  <2>2. f[i] = IF s[i] \in values THEN Append(g, i) ELSE g
    BY <1>2 DEF IsSelection
  <2> HIDE DEF g
  <2>3. Held(i) = IF s[i] \in values THEN Held(i - 1) \cup {i} ELSE Held(i - 1)
    <3>1. 1..i = (1..(i - 1)) \cup {i}
      BY <1>1
    <3> QED
      BY <3>1
  <2>4. Append(g, i) \in Seq(Nat) /\ ToSet(Append(g, i)) = ToSet(g) \cup {i}
    <3>1. i \in Nat
      BY <1>1
    <3> QED
      BY <2>1, <3>1, AppendedSet
  <2> HIDE DEF Held
  <2>5. f[i] \in Seq(Nat) /\ ToSet(f[i]) = Held(i)
    BY <2>1, <2>2, <2>3, <2>4
  <2> QED
    BY <1>1, <2>5
<1> HIDE DEF D
<1>5. 0..n \subseteq D
  <2> HIDE DEF n
  <2> QED
    BY <1>1, <1>3, <1>4, IntervalInduction
<1>6. ToSet(f[n]) = Held(n)
  <2> HIDE DEF Held
  <2> QED
    BY <1>1, <1>5 DEF D
<1> QED
  BY <1>2, <1>6, SelectionFacts


-----------------------------------------------------------------------------
(* A whole decode, one sweep at a time.                                    *)

\* f runs through the results of a decode.
IsDecoding(f, graph, target, kernel, s, orders) ==
  /\ f[0] = Tested(graph, target, s, 0)
  /\ \A i \in 1 .. Len(orders) :
       f[i] = IF f[i - 1].success THEN f[i - 1]
              ELSE Tested(graph, target, Sweep(graph, target, kernel, f[i - 1].state, orders[i]), i)

LEMMA DecodingByPosition ==
  ASSUME NEW graph, NEW target, NEW kernel, NEW s, NEW W, NEW orders \in Seq(W)
  PROVE  \E f : IsDecoding(f, graph, target, kernel, s, orders) /\ Decoding(graph, target, kernel, s, orders) = f[Len(orders)]
<1> DEFINE n == Len(orders)
           b == Tested(graph, target, s, 0)
           Step(t, i) == IF t.success THEN t
                         ELSE Tested(graph, target, Sweep(graph, target, kernel, t.state, orders[i]), i)
           Rec(g, m) == [S \in SUBSET (1 .. m) |-> IF S = {} THEN b ELSE Step(g[S \ {Max(S)}], Max(S))]
           D == {m \in 0 .. n : \E g : g = Rec(g, m)}
<1>1. n \in Nat /\ DOMAIN orders = 1 .. n
  OBVIOUS
<1> HIDE DEF b, Step, n
<1>2. 0 \in D
  <2> DEFINE g == [S \in SUBSET (1 .. 0) |-> b]
  <2>1. \A S \in SUBSET (1 .. 0) : S = {}
    OBVIOUS
  <2>2. g = Rec(g, 0)
    BY <2>1
  <2> QED
    BY <1>1, <2>2
<1>3. ASSUME NEW m \in 1 .. n, (m - 1) \in D PROVE m \in D
  <2>1. PICK g : g = Rec(g, m - 1)
    BY <1>3
  <2> DEFINE h == [S \in SUBSET (1 .. m) |-> IF m \in S THEN Step(g[S \ {m}], m) ELSE g[S]]
  <2>2. ASSUME NEW S \in SUBSET (1 .. m)
        PROVE  h[S] = IF S = {} THEN b ELSE Step(h[S \ {Max(S)}], Max(S))
    <3>1. CASE m \in S
      <4>1. m \in Nat /\ S # {}
        BY <3>1
      <4>2. Max(S) \in 1 .. m /\ Max(S) >= m
        BY <3>1, <4>1, MaxOfPositions
      <4>3. Max(S) = m
        BY <4>1, <4>2
      <4>4. S \ {m} \in SUBSET (1 .. m) /\ m \notin S \ {m}
        OBVIOUS
      <4>5. h[S \ {m}] = g[S \ {m}]
        BY <4>4
      <4> QED
        BY <3>1, <4>1, <4>3, <4>5
    <3>2. CASE m \notin S
      <4>1. S \in SUBSET (1 .. (m - 1)) /\ h[S] = g[S] /\ m - 1 \in Nat
        BY <3>2
      <4>2. g[S] = IF S = {} THEN b ELSE Step(g[S \ {Max(S)}], Max(S))
        BY <2>1, <4>1
      <4>3. S \ {Max(S)} \in SUBSET (1 .. m) /\ m \notin S \ {Max(S)}
        BY <3>2
      <4>4. h[S \ {Max(S)}] = g[S \ {Max(S)}]
        BY <4>3
      <4> QED
        BY <4>1, <4>2, <4>4
    <3> QED
      BY <3>1, <3>2
  <2>3. h = Rec(h, m)
    BY <2>2
  <2> HIDE DEF Rec
  <2> QED
    BY <1>1, <2>3
<1> HIDE DEF D
<1>4. 0 .. n \subseteq D
  BY <1>1, <1>2, <1>3, IntervalInduction
<1>5. \E g : g = Rec(g, n)
  <2> HIDE DEF Rec
  <2> QED
    BY <1>1, <1>4 DEF D
<1> DEFINE h == CHOOSE k : k = Rec(k, n)
<1>6. h = Rec(h, n)
  BY <1>5
<1>7. Decoding(graph, target, kernel, s, orders) = h[1 .. n]
  <2> DEFINE order == [i \in DOMAIN orders |-> i]
             Raw(k) == [S \in SUBSET (1 .. n) |-> IF S = {} THEN b ELSE IF k[S \ {Max(S)}].success THEN k[S \ {Max(S)}]
                          ELSE Tested(graph, target, Sweep(graph, target, kernel, k[S \ {Max(S)}].state,
                                                           orders[order[Max(S)]]), order[Max(S)])]
  <2>1. DOMAIN order = 1 .. n
    BY <1>1
  <2>2. \A S \in SUBSET (1 .. n) : S # {} => order[Max(S)] = Max(S)
    BY <1>1, <2>1, MaxOfPositions
  <2>3. \A k : Raw(k) = Rec(k, n)
    BY <2>2 DEF Step
  <2>4. Decoding(graph, target, kernel, s, orders) = (CHOOSE k : k = Raw(k))[1 .. n]
    BY <2>1 DEF Decoding, FoldLeft, MapThenFoldSet, b
  <2>5. (CHOOSE k : k = Raw(k)) = h
    <3> HIDE DEF Raw, Rec
    <3> QED
      BY <2>3
  <2> HIDE DEF h
  <2> QED
    BY <2>4, <2>5
<1> DEFINE f == [i \in 0 .. n |-> h[1 .. i]]
<1> HIDE DEF h
<1>8. f[0] = b
  <2>1. 1 .. 0 = {}
    OBVIOUS
  <2> QED
    BY <2>1, <1>6, <1>1
<1>9. ASSUME NEW i \in 1 .. n PROVE f[i] = Step(f[i - 1], i)
  <2>1. Max(1 .. i) = i /\ 1 .. i \in SUBSET (1 .. n) /\ 1 .. i # {} /\ (1 .. i) \ {i} = 1 .. (i - 1)
    BY <1>1, MaxOfInterval
  <2>2. h[1 .. i] = Step(h[(1 .. i) \ {Max(1 .. i)}], Max(1 .. i))
    BY <1>6, <2>1
  <2>3. h[1 .. i] = Step(h[1 .. (i - 1)], i)
    BY <2>1, <2>2
  <2>4. i \in 0 .. n /\ i - 1 \in 0 .. n
    BY <1>1
  <2> QED
    BY <2>3, <2>4
<1>10. f[n] = h[1 .. n]
  BY <1>1
<1> HIDE DEF f, h
<1>11. IsDecoding(f, graph, target, kernel, s, orders)
  BY <1>8, <1>9 DEF IsDecoding, n, b, Step
<1> QED
  BY <1>7, <1>10, <1>11 DEF n

\* The results of a decode that keeps the balance: with a state that does, a number of
\* sweeps, and a success that meets the word.
IsResult(graph, V, target, base, r) ==
  /\ Sound(graph, V, r.state, base) /\ r.iterations \in Nat
  /\ r.success = Met(graph, target, r.state)

LEMMA TestedIs ==
  ASSUME NEW graph, NEW target, NEW s, NEW i
  PROVE  /\ Tested(graph, target, s, i).state = s /\ Tested(graph, target, s, i).iterations = i
         /\ Tested(graph, target, s, i).success = Met(graph, target, s)
BY DEF Tested, Run

\* The batch decodes as the scalar decoder does, and a word that is met at once is met in no
\* sweep.
LEMMA DecodingFacts ==
  ASSUME NEW V, NEW graph, NEW target, IsGraph(graph, target, V), NEW base, HasRoom(graph, V, base),
         NEW s, Sound(graph, V, s, base), NEW orders \in Seq(Seq(DOMAIN graph))
  PROVE  /\ IsResult(graph, V, target, base, Decoding(graph, target, "wide", s, orders))
         /\ Decoding(graph, target, "batch", s, orders) = Decoding(graph, target, "wide", s, orders)
         /\ Met(graph, target, s) => Decoding(graph, target, "wide", s, orders) = Tested(graph, target, s, 0)
<1> DEFINE n == Len(orders)
           W == Seq(DOMAIN graph)
           first == Tested(graph, target, s, 0)
<1>1. n \in Nat /\ \A i \in 1 .. n : orders[i] \in W
  <2>1. orders \in Seq(W)
    OBVIOUS
  <2> HIDE DEF W
  <2> QED
    BY <2>1
<1>2. PICK f : /\ IsDecoding(f, graph, target, "wide", s, orders)
               /\ Decoding(graph, target, "wide", s, orders) = f[n]
  <2> HIDE DEF W
  <2> QED
    BY DecodingByPosition
<1>3. PICK g : /\ IsDecoding(g, graph, target, "batch", s, orders)
               /\ Decoding(graph, target, "batch", s, orders) = g[n]
  <2> HIDE DEF W
  <2> QED
    BY DecodingByPosition
<1> DEFINE D == {i \in 0 .. n : /\ IsResult(graph, V, target, base, f[i]) /\ g[i] = f[i]
                                /\ Met(graph, target, s) => f[i] = first}
<1>4. 0 \in D
  <2>1. f[0] = first /\ g[0] = first
    BY <1>2, <1>3 DEF IsDecoding
  <2>2. IsResult(graph, V, target, base, first)
    BY TestedIs DEF IsResult
  <2> HIDE DEF first
  <2> QED
    BY <1>1, <2>1, <2>2
<1>5. ASSUME NEW i \in 1 .. n, (i - 1) \in D PROVE i \in D
  <2> DEFINE r == f[i - 1]
             wide == Sweep(graph, target, "wide", r.state, orders[i])
             batch == Sweep(graph, target, "batch", r.state, orders[i])
             next == Tested(graph, target, wide, i)
  <2>1. f[i] = IF r.success THEN r ELSE next
    BY <1>2 DEF IsDecoding
  <2>2. IsResult(graph, V, target, base, r) /\ g[i - 1] = r /\ (Met(graph, target, s) => r = first)
    BY <1>5
  <2>3. g[i] = IF r.success THEN r ELSE Tested(graph, target, batch, i)
    BY <1>3, <2>2 DEF IsDecoding
  <2>4. Sound(graph, V, r.state, base) /\ orders[i] \in Seq(DOMAIN graph)
    BY <1>1, <2>2 DEF IsResult
  <2>5. batch = wide
    BY <2>4, SweepOfBatch
  <2>6. Sound(graph, V, wide, base)
    <3>1. "wide" \in Compressed
      BY DEF Compressed
    <3> QED
      BY <2>4, <3>1, SweepKeepsBalance
  <2>7. IsResult(graph, V, target, base, next)
    <3>1. i \in Nat
      BY <1>1
    <3> HIDE DEF wide
    <3> QED
      BY <2>6, <3>1, TestedIs DEF IsResult
  <2>8. Met(graph, target, s) => r.success = TRUE
    <3>1. first.success = Met(graph, target, s) /\ Met(graph, target, s) \in BOOLEAN
      BY TestedIs DEF Met
    <3> HIDE DEF r, first
    <3> QED
      BY <2>2, <3>1
  <2> HIDE DEF r, next, wide, batch, first
  <2>9. g[i] = f[i]
    BY <2>1, <2>3, <2>5 DEF next
  <2>10. IsResult(graph, V, target, base, f[i])
    BY <2>1, <2>2, <2>7
  <2>11. Met(graph, target, s) => f[i] = first
    BY <2>1, <2>2, <2>8
  <2> QED
    BY <2>9, <2>10, <2>11
<1> HIDE DEF D
<1>6. 0 .. n \subseteq D
  <2> HIDE DEF n
  <2> QED
    BY <1>1, <1>4, <1>5, IntervalInduction
<1>7. n \in Nat
  BY <1>1
<1> HIDE DEF n, W, first
<1>8. n \in 0 .. n
  BY <1>7
<1>9. n \in D
  BY <1>6, <1>8
<1> QED
  BY <1>2, <1>3, <1>9 DEF D, first

-----------------------------------------------------------------------------
(* One profile over one word.                                              *)

\* A profile over the variables of a graph whose priors have room.
IsRoomyProfile(graph, V, p) ==
  /\ HasRoom(graph, V, p.prior) /\ \A v \in V : p.prior[v] >= 0
  /\ p.budget \in Nat /\ IsSchedule(p.schedule, Len(graph)) /\ p.stage \in STRING

\* What a decode under a profile is: a number of sweeps, and a success whose correction meets
\* the word.
IsRun(graph, V, target, r) ==
  /\ r.iterations \in Nat /\ r.success \in BOOLEAN
  /\ r.success => SyndromeBits(graph, HardDecision(r.state.posterior)) = target

\* The sweeps of a schedule.
LEMMA SweepsOf ==
  ASSUME NEW V, NEW graph \in Seq(Seq(V)), NEW schedule, IsSchedule(schedule, Len(graph)),
         NEW budget \in Nat
  PROVE  [i \in 1 .. budget |-> IterationChecks(graph, schedule, i)] \in Seq(Seq(DOMAIN graph))
<1> DEFINE R == Seq(V)
           W == Seq(DOMAIN graph)
           orders == [i \in 1 .. budget |-> IterationChecks(graph, schedule, i)]
<1>1. \A i \in 1 .. budget : IterationChecks(graph, schedule, i) \in W
  <2>1. graph \in Seq(R)
    OBVIOUS
  <2> HIDE DEF R
  <2> QED
    BY <2>1, ScheduleCovers
<1> HIDE DEF W
<1>2. orders \in Seq(W)
  BY <1>1
<1> QED
  BY <1>2 DEF W

LEMMA WideFacts ==
  ASSUME NEW V, NEW graph, NEW target, IsGraph(graph, target, V), NEW p, IsRoomyProfile(graph, V, p)
  PROVE  /\ IsRun(graph, V, target, WideDecode(graph, target, "wide", p))
         /\ WideDecode(graph, target, "batch", p) = WideDecode(graph, target, "wide", p)
<1> DEFINE s == Fresh(graph, p.prior)
           orders == [i \in 1 .. p.budget |-> IterationChecks(graph, p.schedule, i)]
           r == Decoding(graph, target, "wide", s, orders)
<1>1. graph \in Seq(Seq(V)) /\ p.prior \in [V -> Int] /\ p.budget \in Nat
  BY DEF IsGraph, IsRoomyProfile, HasRoom
<1>2. Sound(graph, V, s, p.prior) /\ HasRoom(graph, V, p.prior)
  BY <1>1, FreshFacts DEF IsRoomyProfile, Sound
<1>3. orders \in Seq(Seq(DOMAIN graph))
  BY <1>1, SweepsOf DEF IsRoomyProfile
<1>4. WideDecode(graph, target, "wide", p) = r
      /\ WideDecode(graph, target, "batch", p) = Decoding(graph, target, "batch", s, orders)
  BY DEF WideDecode
<1> HIDE DEF orders, s
<1>5. IsResult(graph, V, target, p.prior, r) /\ Decoding(graph, target, "batch", s, orders) = r
  BY <1>2, <1>3, DecodingFacts
<1> HIDE DEF r
<1>6. IsRun(graph, V, target, r)
  BY <1>5 DEF IsResult, IsRun, Met
<1> QED
  BY <1>4, <1>5, <1>6

\* The zero word is met by the priors.
LEMMA ZeroIsMet ==
  ASSUME NEW V, NEW graph, NEW target, IsGraph(graph, target, V), NEW p, IsRoomyProfile(graph, V, p),
         \A c \in DOMAIN target : target[c] = 0
  PROVE  /\ WideDecode(graph, target, "wide", p).success = TRUE
         /\ WideDecode(graph, target, "wide", p).iterations = 0
         /\ HardDecision(WideDecode(graph, target, "wide", p).state.posterior) = {}
<1> DEFINE s == Fresh(graph, p.prior)
           orders == [i \in 1 .. p.budget |-> IterationChecks(graph, p.schedule, i)]
           r == Decoding(graph, target, "wide", s, orders)
<1>1. graph \in Seq(Seq(V)) /\ p.prior \in [V -> Int] /\ p.budget \in Nat
  BY DEF IsGraph, IsRoomyProfile, HasRoom
<1>2. Sound(graph, V, s, p.prior) /\ HasRoom(graph, V, p.prior)
  BY <1>1, FreshFacts DEF IsRoomyProfile, Sound
<1>3. orders \in Seq(Seq(DOMAIN graph))
  BY <1>1, SweepsOf DEF IsRoomyProfile
<1>4. HardDecision(s.posterior) = {}
  <2>1. \A v \in V : Saturate(p.prior[v]) >= 0
    <3>1. \A y \in Int : y >= 0 => Saturate(y) >= 0
      BY DEF Saturate, POSTERIOR_MIN, POSTERIOR_MAX
    <3> QED
      BY <1>1, <3>1 DEF IsRoomyProfile
  <2>2. s.posterior = [v \in V |-> Saturate(p.prior[v])]
    BY <1>1 DEF Fresh
  <2>3. \A v \in V : Saturate(p.prior[v]) \in Int
    BY <1>1 DEF Saturate, POSTERIOR_MIN, POSTERIOR_MAX
  <2> QED
    BY <2>1, <2>2, <2>3 DEF HardDecision
<1>5. Met(graph, target, s)
  <2>1. SyndromeBits(graph, {}) = [c \in DOMAIN graph |-> 0]
    <3>1. \A c \in DOMAIN graph : ToSet(graph[c]) \cap {} = {}
      OBVIOUS
    <3>2. Cardinality({}) % 2 = 0
      BY FS_EmptySet
    <3> QED
      BY <3>1, <3>2 DEF SyndromeBits
  <2>2. target = [c \in DOMAIN graph |-> 0]
    <3>1. target \in [DOMAIN graph -> 0 .. 1]
      BY DEF IsGraph
    <3> QED
      BY <3>1
  <2> QED
    BY <1>4, <2>1, <2>2 DEF Met
<1>6. WideDecode(graph, target, "wide", p) = r
  BY DEF WideDecode
<1> HIDE DEF orders
<1>7. r = Tested(graph, target, s, 0)
  <2> HIDE DEF s
  <2> QED
    BY <1>2, <1>3, <1>5, DecodingFacts
<1> HIDE DEF s, r
<1>8. r.success = TRUE
  <2>1. r.success = Met(graph, target, s)
    BY <1>7, TestedIs
  <2>2. Met(graph, target, s) = TRUE
    BY <1>5 DEF Met
  <2> QED
    BY <2>1, <2>2
<1> QED
  BY <1>4, <1>6, <1>7, <1>8, TestedIs

-----------------------------------------------------------------------------
(* One word alone.                                                         *)

\* f runs through the answers of the profiles.
IsTried(f, graph, target, profiles) ==
  /\ f[0] = Deferred(0)
  /\ \A k \in 1 .. Len(profiles) :
       f[k] = IF f[k - 1].success THEN f[k - 1]
              ELSE Attempt(graph, f[k - 1], profiles[k].stage,
                           WideDecode(graph, target, "wide", profiles[k]))

LEMMA TriedByPosition ==
  ASSUME NEW graph, NEW target, NEW W, NEW profiles \in Seq(W)
  PROVE  \E f : IsTried(f, graph, target, profiles) /\ Tried(graph, target, profiles) = f[Len(profiles)]
<1> DEFINE n == Len(profiles)
           b == Deferred(0)
           Step(t, i) == IF t.success THEN t
                         ELSE Attempt(graph, t, profiles[i].stage,
                                      WideDecode(graph, target, "wide", profiles[i]))
           Rec(g, m) == [S \in SUBSET (1 .. m) |-> IF S = {} THEN b ELSE Step(g[S \ {Max(S)}], Max(S))]
           D == {m \in 0 .. n : \E g : g = Rec(g, m)}
<1>1. n \in Nat /\ DOMAIN profiles = 1 .. n
  OBVIOUS
<1> HIDE DEF b, Step, n
<1>2. 0 \in D
  <2> DEFINE g == [S \in SUBSET (1 .. 0) |-> b]
  <2>1. \A S \in SUBSET (1 .. 0) : S = {}
    OBVIOUS
  <2>2. g = Rec(g, 0)
    BY <2>1
  <2> QED
    BY <1>1, <2>2
<1>3. ASSUME NEW m \in 1 .. n, (m - 1) \in D PROVE m \in D
  <2>1. PICK g : g = Rec(g, m - 1)
    BY <1>3
  <2> DEFINE h == [S \in SUBSET (1 .. m) |-> IF m \in S THEN Step(g[S \ {m}], m) ELSE g[S]]
  <2>2. ASSUME NEW S \in SUBSET (1 .. m)
        PROVE  h[S] = IF S = {} THEN b ELSE Step(h[S \ {Max(S)}], Max(S))
    <3>1. CASE m \in S
      <4>1. m \in Nat /\ S # {}
        BY <3>1
      <4>2. Max(S) \in 1 .. m /\ Max(S) >= m
        BY <3>1, <4>1, MaxOfPositions
      <4>3. Max(S) = m
        BY <4>1, <4>2
      <4>4. S \ {m} \in SUBSET (1 .. m) /\ m \notin S \ {m}
        OBVIOUS
      <4>5. h[S \ {m}] = g[S \ {m}]
        BY <4>4
      <4> QED
        BY <3>1, <4>1, <4>3, <4>5
    <3>2. CASE m \notin S
      <4>1. S \in SUBSET (1 .. (m - 1)) /\ h[S] = g[S] /\ m - 1 \in Nat
        BY <3>2
      <4>2. g[S] = IF S = {} THEN b ELSE Step(g[S \ {Max(S)}], Max(S))
        BY <2>1, <4>1
      <4>3. S \ {Max(S)} \in SUBSET (1 .. m) /\ m \notin S \ {Max(S)}
        BY <3>2
      <4>4. h[S \ {Max(S)}] = g[S \ {Max(S)}]
        BY <4>3
      <4> QED
        BY <4>1, <4>2, <4>4
    <3> QED
      BY <3>1, <3>2
  <2>3. h = Rec(h, m)
    BY <2>2
  <2> HIDE DEF Rec
  <2> QED
    BY <1>1, <2>3
<1> HIDE DEF D
<1>4. 0 .. n \subseteq D
  BY <1>1, <1>2, <1>3, IntervalInduction
<1>5. \E g : g = Rec(g, n)
  <2> HIDE DEF Rec
  <2> QED
    BY <1>1, <1>4 DEF D
<1> DEFINE h == CHOOSE k : k = Rec(k, n)
<1>6. h = Rec(h, n)
  BY <1>5
<1>7. Tried(graph, target, profiles) = h[1 .. n]
  BY <1>1 DEF Tried, FoldLeft, MapThenFoldSet, b, Step
<1> DEFINE f == [i \in 0 .. n |-> h[1 .. i]]
<1> HIDE DEF h
<1>8. f[0] = b
  <2>1. 1 .. 0 = {}
    OBVIOUS
  <2> QED
    BY <2>1, <1>6, <1>1
<1>9. ASSUME NEW i \in 1 .. n PROVE f[i] = Step(f[i - 1], i)
  <2>1. Max(1 .. i) = i /\ 1 .. i \in SUBSET (1 .. n) /\ 1 .. i # {} /\ (1 .. i) \ {i} = 1 .. (i - 1)
    BY <1>1, MaxOfInterval
  <2>2. h[1 .. i] = Step(h[(1 .. i) \ {Max(1 .. i)}], Max(1 .. i))
    BY <1>6, <2>1
  <2>3. h[1 .. i] = Step(h[1 .. (i - 1)], i)
    BY <2>1, <2>2
  <2>4. i \in 0 .. n /\ i - 1 \in 0 .. n
    BY <1>1
  <2> QED
    BY <2>3, <2>4
<1>10. f[n] = h[1 .. n]
  BY <1>1
<1> HIDE DEF f, h
<1>11. IsTried(f, graph, target, profiles)
  BY <1>8, <1>9 DEF IsTried, n, b, Step
<1> QED
  BY <1>7, <1>10, <1>11 DEF n

LEMMA AttemptIs ==
  ASSUME NEW graph, NEW s, NEW stage, NEW r
  PROVE  /\ Attempt(graph, s, stage, r).success = r.success
         /\ Attempt(graph, s, stage, r).correction = HardDecision(r.state.posterior)
         /\ Attempt(graph, s, stage, r).stage = (IF r.success THEN stage ELSE s.stage)
         /\ Attempt(graph, s, stage, r).work = s.work + r.iterations * Len(graph)
BY DEF Attempt

LEMMA DeferredIs ==
  ASSUME NEW work
  PROVE  /\ Deferred(work).success = FALSE /\ Deferred(work).correction = {}
         /\ Deferred(work).stage = "defer" /\ Deferred(work).work = work
BY DEF Deferred

\* What every answer is: a success whose correction meets the word, or a deferral.
IsAnswer(graph, target, a) ==
  /\ a.success \in BOOLEAN
  /\ ~a.success => a.stage = "defer"
  /\ a.success => SyndromeBits(graph, a.correction) = target

\* The answer to the zero word under the first profile.
IsQuiet(profiles, a) ==
  a.success = TRUE /\ a.correction = {} /\ a.work = 0 /\ a.stage = profiles[1].stage

LEMMA TriedFacts ==
  ASSUME NEW V, NEW graph, NEW target, IsGraph(graph, target, V), NEW W, NEW profiles \in Seq(W),
         \A k \in DOMAIN profiles : IsRoomyProfile(graph, V, profiles[k]),
         NEW f, IsTried(f, graph, target, profiles)
  PROVE  /\ \A k \in 0 .. Len(profiles) : IsAnswer(graph, target, f[k])
         /\ (\A c \in DOMAIN target : target[c] = 0) =>
              \A k \in 1 .. Len(profiles) : IsQuiet(profiles, f[k])
<1> DEFINE n == Len(profiles)
           Zero == \A c \in DOMAIN target : target[c] = 0
           D == {k \in 0 .. n : IsAnswer(graph, target, f[k]) /\ (Zero /\ k # 0 => IsQuiet(profiles, f[k]))}
<1>1. n \in Nat /\ DOMAIN profiles = 1 .. n
  OBVIOUS
<1>2. 0 \in D
  <2>1. f[0] = Deferred(0)
    BY DEF IsTried
  <2>2. f[0].success = FALSE /\ f[0].stage = "defer"
    BY <2>1, DeferredIs
  <2>3. IsAnswer(graph, target, f[0])
    BY <2>2 DEF IsAnswer
  <2> QED
    BY <1>1, <2>3
<1>3. ASSUME NEW k \in 1 .. n, (k - 1) \in D PROVE k \in D
  <2> DEFINE s == f[k - 1]
             p == profiles[k]
             r == WideDecode(graph, target, "wide", p)
             a == Attempt(graph, s, p.stage, r)
  <2>1. f[k] = IF s.success THEN s ELSE a
    BY DEF IsTried
  <2>2. IsAnswer(graph, target, s) /\ (Zero /\ k - 1 # 0 => IsQuiet(profiles, s))
    BY <1>3
  <2>3. IsRoomyProfile(graph, V, p)
    BY <1>1
  <2>4. IsRun(graph, V, target, r)
    BY <2>3, WideFacts
  <2>5. Zero => r.success = TRUE /\ r.iterations = 0 /\ HardDecision(r.state.posterior) = {}
    <3>1. ASSUME Zero PROVE r.success = TRUE /\ r.iterations = 0 /\ HardDecision(r.state.posterior) = {}
      <4> HIDE DEF p
      <4> QED
        BY <2>3, <3>1, ZeroIsMet
    <3> HIDE DEF Zero, r
    <3> QED
      BY <3>1
  <2>6. k = 1 => s = Deferred(0) /\ p = profiles[1]
    BY DEF IsTried
  <2> HIDE DEF r, p, s
  <2>7. /\ a.success = r.success /\ a.correction = HardDecision(r.state.posterior)
        /\ a.stage = (IF r.success THEN p.stage ELSE s.stage)
        /\ a.work = s.work + r.iterations * Len(graph)
    BY AttemptIs
  <2> HIDE DEF a
  <2>8. s.success = FALSE => IsAnswer(graph, target, a)
    BY <2>2, <2>4, <2>7 DEF IsAnswer, IsRun
  <2>9. IsAnswer(graph, target, f[k])
    BY <2>1, <2>2, <2>8 DEF IsAnswer
  <2>10. ASSUME Zero, k = 1 PROVE IsQuiet(profiles, f[k])
    <3>1. s.success = FALSE /\ s.work = 0
      <4>1. s = Deferred(0)
        BY <2>6, <2>10
      <4> QED
        BY <4>1, DeferredIs
    <3>2. a.success = TRUE /\ a.correction = {} /\ a.stage = profiles[1].stage
      BY <2>5, <2>6, <2>7, <2>10
    <3>3. a.work = 0
      <4>1. Len(graph) \in Nat
        BY DEF IsGraph
      <4>2. a.work = 0 + 0 * Len(graph)
        BY <2>5, <2>7, <2>10, <3>1
      <4> QED
        BY <4>1, <4>2
    <3> QED
      BY <2>1, <3>1, <3>2, <3>3 DEF IsQuiet
  <2>11. ASSUME Zero, k # 1 PROVE IsQuiet(profiles, f[k])
    <3>1. IsQuiet(profiles, s)
      BY <2>2, <2>11
    <3>2. s.success = TRUE
      BY <3>1 DEF IsQuiet
    <3> QED
      BY <2>1, <3>1, <3>2
  <2> HIDE DEF Zero
  <2> QED
    BY <2>9, <2>10, <2>11
<1> HIDE DEF D
<1>4. 0 .. n \subseteq D
  <2> HIDE DEF n
  <2> QED
    BY <1>1, <1>2, <1>3, IntervalInduction
<1>5. \A k \in 0 .. n : IsAnswer(graph, target, f[k])
  BY <1>4 DEF D
<1>6. Zero => \A k \in 1 .. n : IsQuiet(profiles, f[k])
  <2>1. \A k \in 1 .. n : k \in 0 .. n /\ k # 0
    BY <1>1
  <2> HIDE DEF Zero, n
  <2> QED
    BY <1>4, <2>1 DEF D
<1> QED
  BY <1>5, <1>6

-----------------------------------------------------------------------------
(* The rows that are left.                                                 *)

LEMMA RetriedFacts ==
  ASSUME NEW T, NEW retry \in Seq(T), IsInjective(retry), NEW runs,
         \A k \in DOMAIN retry : runs[k].success \in BOOLEAN
  PROVE  /\ StillRetried(retry, runs) \in Seq(T) /\ IsInjective(StillRetried(retry, runs))
         /\ \A t : t \in ToSet(StillRetried(retry, runs)) <=>
                     \E k \in DOMAIN retry : retry[k] = t /\ runs[k].success = FALSE
<1> DEFINE n == Len(retry)
           won == [k \in DOMAIN retry |-> runs[k].success]
           left == Positions(won, {FALSE})
           kept == StillRetried(retry, runs)
<1>1. n \in Nat /\ DOMAIN retry = 1 .. n /\ \A k \in 1 .. n : retry[k] \in T
  OBVIOUS
<1>2. won \in Seq(BOOLEAN) /\ Len(won) = n
  BY <1>1
<1>3. /\ left \in Seq(1 .. n) /\ IsInjective(left)
      /\ ToSet(left) = {k \in 1 .. n : won[k] \in {FALSE}}
  <2> DEFINE l == Len(won)
  <2>1. /\ left \in Seq(1 .. l) /\ IsInjective(left)
        /\ ToSet(left) = {k \in 1 .. l : won[k] \in {FALSE}}
    <3>1. won \in Seq(BOOLEAN)
      BY <1>2
    <3> HIDE DEF won
    <3> QED
      BY <3>1, PositionsFacts
  <2>2. l = n
    BY <1>2
  <2> HIDE DEF left, l, n, won
  <2> QED
    BY <2>1, <2>2
<1>4. kept = [k \in DOMAIN left |-> retry[left[k]]]
  BY DEF StillRetried
<1>5. \A k \in 1 .. n : won[k] = runs[k].success
  BY <1>1
<1> HIDE DEF left, kept, won
<1> DEFINE m == Len(left)
           X == 1 .. n
<1>6. m \in Nat /\ DOMAIN left = 1 .. m /\ \A k \in 1 .. m : left[k] \in X
  <2>1. left \in Seq(X)
    BY <1>3
  <2> HIDE DEF X
  <2> QED
    BY <2>1
<1>7. kept \in Seq(T) /\ DOMAIN kept = 1 .. m
  <2> HIDE DEF m
  <2> QED
    BY <1>1, <1>4, <1>6
<1>8. \A k \in 1 .. m : kept[k] = retry[left[k]]
  BY <1>4, <1>6
<1> HIDE DEF m
<1>9. IsInjective(kept)
  <2>1. \A i, k \in 1 .. n : retry[i] = retry[k] => i = k
    BY <1>1 DEF IsInjective
  <2>2. \A i, k \in 1 .. m : left[i] = left[k] => i = k
    BY <1>3, <1>6 DEF IsInjective
  <2>3. \A i, k \in 1 .. m : kept[i] = kept[k] => i = k
    BY <1>6, <1>8, <2>1, <2>2
  <2> QED
    BY <1>7, <2>3 DEF IsInjective
<1>10. ASSUME NEW t, t \in ToSet(kept)
       PROVE  \E k \in DOMAIN retry : retry[k] = t /\ runs[k].success = FALSE
  <2>1. PICK i \in 1 .. m : kept[i] = t
    BY <1>7, <1>10 DEF ToSet
  <2>2. left[i] \in ToSet(left)
    BY <1>6 DEF ToSet
  <2>3. left[i] \in 1 .. n /\ won[left[i]] = FALSE
    BY <1>3, <2>2
  <2> QED
    BY <1>1, <1>5, <1>8, <2>1, <2>3
<1>11. ASSUME NEW k \in DOMAIN retry, runs[k].success = FALSE
       PROVE  retry[k] \in ToSet(kept)
  <2>1. k \in ToSet(left)
    BY <1>1, <1>3, <1>5, <1>11
  <2>2. PICK i \in 1 .. m : left[i] = k
    BY <1>6, <2>1 DEF ToSet
  <2>3. kept[i] = retry[k]
    BY <1>8, <2>2
  <2> QED
    BY <1>7, <2>3 DEF ToSet
<1> QED
  BY <1>7, <1>9, <1>10, <1>11 DEF kept

-----------------------------------------------------------------------------
(* A batch, one profile at a time.                                         *)

\* f runs through the states of a batch from state b.
IsRescues(f, graph, targets, b, profiles) ==
  /\ f[0] = b
  /\ \A k \in 1 .. Len(profiles) : f[k] = Rescue(graph, targets, f[k - 1], profiles[k])

Rescues(graph, targets, b, profiles) ==
  FoldLeft(LAMBDA s, p : Rescue(graph, targets, s, p), b, profiles)

LEMMA RescuesByPosition ==
  ASSUME NEW graph, NEW targets, NEW b0, NEW W, NEW profiles \in Seq(W)
  PROVE  \E f : IsRescues(f, graph, targets, b0, profiles) /\ Rescues(graph, targets, b0, profiles) = f[Len(profiles)]
<1> DEFINE n == Len(profiles)
           b == b0
           Step(t, i) == Rescue(graph, targets, t, profiles[i])
           Rec(g, m) == [S \in SUBSET (1 .. m) |-> IF S = {} THEN b ELSE Step(g[S \ {Max(S)}], Max(S))]
           D == {m \in 0 .. n : \E g : g = Rec(g, m)}
<1>1. n \in Nat /\ DOMAIN profiles = 1 .. n
  OBVIOUS
<1> HIDE DEF b, Step, n
<1>2. 0 \in D
  <2> DEFINE g == [S \in SUBSET (1 .. 0) |-> b]
  <2>1. \A S \in SUBSET (1 .. 0) : S = {}
    OBVIOUS
  <2>2. g = Rec(g, 0)
    BY <2>1
  <2> QED
    BY <1>1, <2>2
<1>3. ASSUME NEW m \in 1 .. n, (m - 1) \in D PROVE m \in D
  <2>1. PICK g : g = Rec(g, m - 1)
    BY <1>3
  <2> DEFINE h == [S \in SUBSET (1 .. m) |-> IF m \in S THEN Step(g[S \ {m}], m) ELSE g[S]]
  <2>2. ASSUME NEW S \in SUBSET (1 .. m)
        PROVE  h[S] = IF S = {} THEN b ELSE Step(h[S \ {Max(S)}], Max(S))
    <3>1. CASE m \in S
      <4>1. m \in Nat /\ S # {}
        BY <3>1
      <4>2. Max(S) \in 1 .. m /\ Max(S) >= m
        BY <3>1, <4>1, MaxOfPositions
      <4>3. Max(S) = m
        BY <4>1, <4>2
      <4>4. S \ {m} \in SUBSET (1 .. m) /\ m \notin S \ {m}
        OBVIOUS
      <4>5. h[S \ {m}] = g[S \ {m}]
        BY <4>4
      <4> QED
        BY <3>1, <4>1, <4>3, <4>5
    <3>2. CASE m \notin S
      <4>1. S \in SUBSET (1 .. (m - 1)) /\ h[S] = g[S] /\ m - 1 \in Nat
        BY <3>2
      <4>2. g[S] = IF S = {} THEN b ELSE Step(g[S \ {Max(S)}], Max(S))
        BY <2>1, <4>1
      <4>3. S \ {Max(S)} \in SUBSET (1 .. m) /\ m \notin S \ {Max(S)}
        BY <3>2
      <4>4. h[S \ {Max(S)}] = g[S \ {Max(S)}]
        BY <4>3
      <4> QED
        BY <4>1, <4>2, <4>4
    <3> QED
      BY <3>1, <3>2
  <2>3. h = Rec(h, m)
    BY <2>2
  <2> HIDE DEF Rec
  <2> QED
    BY <1>1, <2>3
<1> HIDE DEF D
<1>4. 0 .. n \subseteq D
  BY <1>1, <1>2, <1>3, IntervalInduction
<1>5. \E g : g = Rec(g, n)
  <2> HIDE DEF Rec
  <2> QED
    BY <1>1, <1>4 DEF D
<1> DEFINE h == CHOOSE k : k = Rec(k, n)
<1>6. h = Rec(h, n)
  BY <1>5
<1>7. Rescues(graph, targets, b0, profiles) = h[1 .. n]
  BY <1>1 DEF Rescues, FoldLeft, MapThenFoldSet, b, Step
<1> DEFINE f == [i \in 0 .. n |-> h[1 .. i]]
<1> HIDE DEF h
<1>8. f[0] = b
  <2>1. 1 .. 0 = {}
    OBVIOUS
  <2> QED
    BY <2>1, <1>6, <1>1
<1>9. ASSUME NEW i \in 1 .. n PROVE f[i] = Step(f[i - 1], i)
  <2>1. Max(1 .. i) = i /\ 1 .. i \in SUBSET (1 .. n) /\ 1 .. i # {} /\ (1 .. i) \ {i} = 1 .. (i - 1)
    BY <1>1, MaxOfInterval
  <2>2. h[1 .. i] = Step(h[(1 .. i) \ {Max(1 .. i)}], Max(1 .. i))
    BY <1>6, <2>1
  <2>3. h[1 .. i] = Step(h[1 .. (i - 1)], i)
    BY <2>1, <2>2
  <2>4. i \in 0 .. n /\ i - 1 \in 0 .. n
    BY <1>1
  <2> QED
    BY <2>3, <2>4
<1>10. f[n] = h[1 .. n]
  BY <1>1
<1> HIDE DEF f, h
<1>11. IsRescues(f, graph, targets, b0, profiles)
  BY <1>8, <1>9 DEF IsRescues, n, b, Step
<1> QED
  BY <1>7, <1>10, <1>11 DEF n

LEMMA ForcedIs ==
  ASSUME NEW value
  PROVE  Forced(value) = value
BY DEF Forced

\* F[r] are the answers of the profiles to row r alone.
AreTried(F, graph, targets, profiles) ==
  \A r \in DOMAIN targets : IsTried(F[r], graph, targets[r], profiles)

\* After k profiles every row has the answer it has alone, and the rows that are left are
\* those that failed, each once.
Abreast(F, targets, t, k) ==
  /\ DOMAIN t.rows = DOMAIN targets /\ \A r \in DOMAIN targets : t.rows[r] = F[r][k]
  /\ t.retry \in Seq(DOMAIN targets) /\ IsInjective(t.retry)
  /\ \A r \in DOMAIN targets : r \in ToSet(t.retry) <=> F[r][k].success = FALSE

\* Profiles and words over one graph.
AreRoomy(graph, V, targets, profiles) ==
  /\ \A r \in DOMAIN targets : IsGraph(graph, targets[r], V)
  /\ \A k \in DOMAIN profiles : IsRoomyProfile(graph, V, profiles[k])

LEMMA PrimaryAbreast ==
  ASSUME NEW V, NEW graph, NEW X, NEW targets \in Seq(X), NEW W, NEW profiles \in Seq(W),
         AreRoomy(graph, V, targets, profiles), profiles # <<>>, profiles[1].stage = "S1W",
         NEW F, AreTried(F, graph, targets, profiles),
         NEW runs, runs = [r \in DOMAIN targets |-> WideDecode(graph, targets[r], "batch", profiles[1])]
  PROVE  Abreast(F, targets, Primary(graph, targets, runs), 1)
<1> DEFINE R == DOMAIN targets
           p == profiles[1]
           wide(r) == WideDecode(graph, targets[r], "wide", p)
           won == [r \in R |-> runs[r].success]
           retry == Positions(won, {FALSE})
           t == Primary(graph, targets, runs)
<1>1. R = 1 .. Len(targets) /\ Len(targets) \in Nat /\ 1 \in DOMAIN profiles /\ 1 \in 1 .. Len(profiles)
  OBVIOUS
<1>2. ASSUME NEW r \in R
      PROVE  /\ runs[r] = wide(r) /\ wide(r).success \in BOOLEAN
             /\ F[r][1] = Attempt(graph, Deferred(0), "S1W", wide(r))
             /\ F[r][1].success = wide(r).success
  <2>1. IsGraph(graph, targets[r], V) /\ IsRoomyProfile(graph, V, p)
    BY <1>1 DEF AreRoomy
  <2>2. runs[r] = wide(r) /\ IsRun(graph, V, targets[r], wide(r))
    <3>1. runs[r] = WideDecode(graph, targets[r], "batch", p)
      OBVIOUS
    <3> HIDE DEF p
    <3> QED
      BY <2>1, <3>1, WideFacts
  <2>3. IsTried(F[r], graph, targets[r], profiles)
    BY DEF AreTried
  <2>4. F[r][0] = Deferred(0) /\ F[r][1] = IF F[r][0].success THEN F[r][0]
                                           ELSE Attempt(graph, F[r][0], p.stage, wide(r))
    BY <1>1, <2>3 DEF IsTried
  <2>5. F[r][0].success = FALSE
    BY <2>4, DeferredIs
  <2>6. F[r][1] = Attempt(graph, Deferred(0), "S1W", wide(r))
    BY <2>4, <2>5
  <2> HIDE DEF wide
  <2> QED
    BY <2>2, <2>6, AttemptIs DEF IsRun
<1>3. t.rows = [r \in R |-> Attempt(graph, Deferred(0), "S1W", runs[r])] /\ t.retry = retry
  BY DEF Primary
<1>4. won \in Seq(BOOLEAN) /\ Len(won) = Len(targets) /\ \A r \in R : won[r] = F[r][1].success
  <2> HIDE DEF wide
  <2> QED
    BY <1>1, <1>2
<1>5. /\ retry \in Seq(1 .. Len(won)) /\ IsInjective(retry)
      /\ ToSet(retry) = {r \in 1 .. Len(won) : won[r] \in {FALSE}}
  <2> HIDE DEF won
  <2> QED
    BY <1>4, PositionsFacts
<1> HIDE DEF retry, won, t, wide
<1>6. 1 .. Len(won) = R
  BY <1>1, <1>4
<1>7. \A r \in R : r \in ToSet(retry) <=> F[r][1].success = FALSE
  <2>1. ToSet(retry) = {r \in R : won[r] \in {FALSE}}
    BY <1>5, <1>6
  <2> QED
    BY <1>4, <2>1
<1>8. DOMAIN t.rows = R /\ \A r \in R : t.rows[r] = F[r][1]
  BY <1>2, <1>3
<1>9. retry \in Seq(R)
  BY <1>5, <1>6
<1> HIDE DEF R
<1> QED
  BY <1>3, <1>5, <1>7, <1>8, <1>9 DEF Abreast, t, R

LEMMA RescueAbreast ==
  ASSUME NEW V, NEW graph, NEW X, NEW targets \in Seq(X), NEW W, NEW profiles \in Seq(W),
         AreRoomy(graph, V, targets, profiles),
         NEW F, AreTried(F, graph, targets, profiles),
         NEW k \in 1 .. Len(profiles), NEW s, Abreast(F, targets, s, k - 1)
  PROVE  Abreast(F, targets, Rescue(graph, targets, s, profiles[k]), k)
<1> DEFINE R == DOMAIN targets
           p == profiles[k]
           retry == s.retry
           wide(r) == WideDecode(graph, targets[r], "wide", p)
           runs == [j \in DOMAIN retry |-> WideDecode(graph, targets[retry[j]], "batch", p)]
           place(r) == CHOOSE j \in DOMAIN retry : retry[j] = r
           kept == StillRetried(retry, runs)
           t == Rescue(graph, targets, s, p)
<1>1. /\ DOMAIN s.rows = R /\ \A r \in R : s.rows[r] = F[r][k - 1]
      /\ retry \in Seq(R) /\ IsInjective(retry)
      /\ \A r \in R : r \in ToSet(retry) <=> F[r][k - 1].success = FALSE
  BY DEF Abreast
<1>2. \A j \in DOMAIN retry : retry[j] \in R
  <2> HIDE DEF retry, R
  <2> QED
    BY <1>1
<1>3. ASSUME NEW r \in R
      PROVE  /\ WideDecode(graph, targets[r], "batch", p) = wide(r) /\ wide(r).success \in BOOLEAN
             /\ F[r][k] = (IF F[r][k - 1].success THEN F[r][k - 1]
                           ELSE Attempt(graph, F[r][k - 1], p.stage, wide(r)))
             /\ F[r][k - 1].success \in BOOLEAN
  <2>1. IsGraph(graph, targets[r], V) /\ IsRoomyProfile(graph, V, p)
    BY DEF AreRoomy
  <2>2. WideDecode(graph, targets[r], "batch", p) = wide(r) /\ IsRun(graph, V, targets[r], wide(r))
    <3> HIDE DEF p
    <3> QED
      BY <2>1, WideFacts
  <2>3. IsTried(F[r], graph, targets[r], profiles)
    BY DEF AreTried
  <2>4. F[r][k] = (IF F[r][k - 1].success THEN F[r][k - 1]
                   ELSE Attempt(graph, F[r][k - 1], p.stage, wide(r)))
    BY <2>3 DEF IsTried
  <2>5. IsAnswer(graph, targets[r], F[r][k - 1])
    <3>1. k - 1 \in 0 .. Len(profiles)
      OBVIOUS
    <3>2. \A j \in DOMAIN profiles : IsRoomyProfile(graph, V, profiles[j])
      BY DEF AreRoomy
    <3> QED
      BY <2>1, <2>3, <3>1, <3>2, TriedFacts
  <2> QED
    BY <2>2, <2>4, <2>5 DEF IsRun, IsAnswer
<1>4. \A j \in DOMAIN retry : runs[j] = wide(retry[j])
  <2> HIDE DEF wide, retry, p
  <2> QED
    BY <1>2, <1>3
<1>5. t = [rows |-> [r \in R |-> IF r \in ToSet(retry)
                                 THEN Attempt(graph, s.rows[r], p.stage, runs[place(r)])
                                 ELSE s.rows[r]],
           retry |-> kept]
  <2>1. Forced(runs) = runs
    BY ForcedIs
  <2> HIDE DEF runs
  <2>2. t = Rescued(graph, s, p, runs)
    BY <2>1 DEF Rescue, runs
  <2> QED
    BY <1>1, <2>2 DEF Rescued
<1>6. \A j \in DOMAIN retry : runs[j].success \in BOOLEAN
  <2> HIDE DEF wide, retry, runs
  <2> QED
    BY <1>2, <1>3, <1>4
<1>7. /\ kept \in Seq(R) /\ IsInjective(kept)
      /\ \A r : r \in ToSet(kept) <=> \E j \in DOMAIN retry : retry[j] = r /\ runs[j].success = FALSE
  <2> HIDE DEF runs, retry, R
  <2> QED
    BY <1>1, <1>6, RetriedFacts
<1>8. ASSUME NEW j \in DOMAIN retry PROVE place(retry[j]) = j
  <2> HIDE DEF retry
  <2> QED
    BY <1>1, <1>8, PlaceOf
<1> HIDE DEF runs, kept, t, place, wide
<1>9. ASSUME NEW r \in R
      PROVE  t.rows[r] = F[r][k] /\ (r \in ToSet(kept) <=> F[r][k].success = FALSE)
  <2>1. CASE r \in ToSet(retry)
    <3>1. PICK j \in DOMAIN retry : retry[j] = r
      BY <2>1 DEF ToSet
    <3>2. F[r][k - 1].success = FALSE
      BY <1>1, <2>1
    <3>3. runs[place(r)] = wide(r) /\ runs[j] = wide(r)
      BY <1>4, <1>8, <3>1
    <3>4. F[r][k] = Attempt(graph, F[r][k - 1], p.stage, wide(r))
      BY <1>3, <3>2
    <3>5. t.rows[r] = F[r][k]
      BY <1>1, <1>5, <2>1, <3>3, <3>4
    <3>6. F[r][k].success = wide(r).success
      BY <3>4, AttemptIs
    <3>7. \A i \in DOMAIN retry : retry[i] = r => runs[i] = wide(r)
      BY <1>4
    <3>8. r \in ToSet(kept) <=> wide(r).success = FALSE
      BY <1>7, <3>1, <3>3, <3>7
    <3> QED
      BY <3>5, <3>6, <3>8
  <2>2. CASE r \notin ToSet(retry)
    <3>1. F[r][k - 1].success = TRUE
      BY <1>1, <1>3, <2>2
    <3>2. F[r][k] = F[r][k - 1]
      BY <1>3, <3>1
    <3>3. t.rows[r] = F[r][k]
      BY <1>1, <1>5, <2>2, <3>2
    <3>4. r \notin ToSet(kept)
      BY <1>7, <2>2 DEF ToSet
    <3> QED
      BY <3>1, <3>2, <3>3, <3>4
  <2> QED
    BY <2>1, <2>2
<1>10. t.retry = kept /\ DOMAIN t.rows = R
  BY <1>5
<1> QED
  BY <1>7, <1>9, <1>10 DEF Abreast, t

\* The rows of a batch are the last answers.
AreRows(F, graph, targets, profiles) ==
  \A r \in DOMAIN targets : DecodeBatch(graph, targets, profiles)[r] = F[r][Len(profiles)]

LEMMA BatchAbreast ==
  ASSUME NEW V, NEW graph, NEW X, NEW targets \in Seq(X), NEW W, NEW profiles \in Seq(W),
         AreRoomy(graph, V, targets, profiles), profiles # <<>>, profiles[1].stage = "S1W",
         NEW F, AreTried(F, graph, targets, profiles)
  PROVE  AreRows(F, graph, targets, profiles)
<1> DEFINE runs == [r \in DOMAIN targets |-> WideDecode(graph, targets[r], "batch", profiles[1])]
           b == Primary(graph, targets, runs)
           rest == Tail(profiles)
           n == Len(profiles)
           m == Len(rest)
           t == Rescues(graph, targets, b, rest)
<1>1. rest \in Seq(W) /\ n \in Nat \ {0} /\ m = n - 1 /\ m \in Nat
      /\ \A i \in 1 .. m : rest[i] = profiles[i + 1] /\ i + 1 \in 1 .. n
  OBVIOUS
<1>2. DecodeBatch(graph, targets, profiles) = t.rows
  <2>1. Forced(runs) = runs
    BY ForcedIs
  <2> HIDE DEF runs
  <2>2. DecodeBatch(graph, targets, profiles)
          = FoldLeft(LAMBDA s, p : Rescue(graph, targets, s, p), Primary(graph, targets, Forced(runs)),
                     Tail(profiles)).rows
    BY DEF DecodeBatch, runs
  <2> QED
    BY <2>1, <2>2 DEF Rescues
<1>3. Abreast(F, targets, b, 1)
  <2> HIDE DEF b
  <2>1. runs = [r \in DOMAIN targets |-> WideDecode(graph, targets[r], "batch", profiles[1])]
    OBVIOUS
  <2> HIDE DEF runs
  <2>2. Abreast(F, targets, Primary(graph, targets, runs), 1)
    BY <2>1, PrimaryAbreast
  <2> QED
    BY <2>2 DEF b
<1> HIDE DEF runs, b, rest
<1>4. PICK f : IsRescues(f, graph, targets, b, rest) /\ t = f[m]
  BY <1>1, RescuesByPosition
<1> DEFINE D == {i \in 0 .. m : Abreast(F, targets, f[i], i + 1)}
<1>5. 0 \in D
  <2>1. f[0] = b /\ 0 + 1 = 1 /\ 0 \in 0 .. m
    BY <1>1, <1>4 DEF IsRescues
  <2> QED
    BY <1>3, <2>1
<1>6. ASSUME NEW i \in 1 .. m, (i - 1) \in D PROVE i \in D
  <2>1. f[i] = Rescue(graph, targets, f[i - 1], profiles[i + 1])
    BY <1>1, <1>4 DEF IsRescues
  <2> DEFINE k == i + 1
  <2>2. k \in 1 .. n /\ Abreast(F, targets, f[i - 1], k - 1)
    <3>1. (i - 1) + 1 = k - 1
      BY <1>1
    <3> QED
      BY <1>1, <1>6, <3>1
  <2> HIDE DEF k
  <2>3. Abreast(F, targets, Rescue(graph, targets, f[i - 1], profiles[k]), k)
    BY <2>2, RescueAbreast
  <2> QED
    BY <2>1, <2>3 DEF k
<1> HIDE DEF D
<1>7. 0 .. m \subseteq D
  <2> HIDE DEF m
  <2> QED
    BY <1>1, <1>5, <1>6, IntervalInduction
<1>8. Abreast(F, targets, t, n)
  <2>1. m \in D /\ m + 1 = n
    BY <1>1, <1>7
  <2> HIDE DEF m, n, t
  <2> QED
    BY <1>4, <2>1 DEF D
<1> HIDE DEF t
<1> QED
  BY <1>2, <1>8 DEF Abreast, AreRows

\* What a batch may ask is over one graph, and has room where the property supposes it.
LEMMA ShotBatchFacts ==
  ASSUME NEW graph, NEW targets, NEW profiles, IsShotBatch(graph, targets, profiles),
         \A k \in DOMAIN profiles : Roomy(graph, profiles[k].prior)
  PROVE  AreRoomy(graph, DOMAIN profiles[1].prior, targets, profiles)
<1> DEFINE V == DOMAIN profiles[1].prior
           Schedule == [kind : STRING, direction : Directions, lanes : Seq(Seq(Nat)), stride : Nat]
           Profiles == [stage : STRING, prior : Seq(Nat), budget : Nat, schedule : Schedule]
           Words == [DOMAIN graph -> 0 .. 1]
<1>1. /\ profiles \in Seq(Profiles)
      /\ graph \in Seq(Seq(V)) /\ targets \in Seq(Words)
      /\ \A c \in DOMAIN graph : Len(graph[c]) >= 2 /\ IsInjective(graph[c])
      /\ \A k \in DOMAIN profiles : DOMAIN profiles[k].prior = V /\ IsSchedule(profiles[k].schedule, Len(graph))
  BY DEF IsShotBatch
<1>2. ASSUME NEW r \in DOMAIN targets PROVE IsGraph(graph, targets[r], V)
  <2>1. targets[r] \in Words
    <3> HIDE DEF Words
    <3> QED
      BY <1>1
  <2> HIDE DEF V
  <2> QED
    BY <1>1, <2>1 DEF IsGraph
<1>3. ASSUME NEW k \in DOMAIN profiles PROVE IsRoomyProfile(graph, V, profiles[k])
  <2> DEFINE p == profiles[k]
  <2>1. p \in Profiles
    <3> HIDE DEF Profiles
    <3> QED
      BY <1>1
  <2>2. p.stage \in STRING /\ p.prior \in Seq(Nat) /\ p.budget \in Nat
    <3> HIDE DEF Schedule, p
    <3> QED
      BY <2>1
  <2>3. DOMAIN p.prior = V /\ IsSchedule(p.schedule, Len(graph)) /\ Roomy(graph, p.prior)
    BY <1>1
  <2> HIDE DEF p, V
  <2>4. p.prior \in [V -> Int] /\ \A v \in V : p.prior[v] >= 0
    BY <2>2, <2>3
  <2> QED
    BY <2>2, <2>3, <2>4 DEF IsRoomyProfile, HasRoom, p
<1> QED
  BY <1>2, <1>3 DEF AreRoomy

\* Every row of every batch is decoded as if it were alone, while no posterior can come near the
\* limits: by the same profile, with the same correction, for the same work.
THEOREM RowsAreAlone ==
  ASSUME NEW graph, NEW targets, NEW profiles, IsShotBatch(graph, targets, profiles)
  PROVE  RowsAreShots(graph, targets, profiles)
<1> DEFINE V == DOMAIN profiles[1].prior
           R == DOMAIN targets
           n == Len(profiles)
           F == [r \in R |-> CHOOSE f : IsTried(f, graph, targets[r], profiles)
                                         /\ Tried(graph, targets[r], profiles) = f[n]]
           rows == Forced(DecodeBatch(graph, targets, profiles))
<1> SUFFICES ASSUME \A k \in DOMAIN profiles : Roomy(graph, profiles[k].prior), NEW r \in R
             PROVE  RowIsShot(graph, targets[r], rows[r], DecodeOne(graph, targets[r], profiles))
  BY DEF RowsAreShots
<1>1. PICK W, X : profiles \in Seq(W) /\ targets \in Seq(X) /\ profiles # <<>> /\ profiles[1].stage = "S1W"
  BY DEF IsShotBatch
<1>2. AreRoomy(graph, V, targets, profiles)
  BY ShotBatchFacts
<1>3. ASSUME NEW q \in R
      PROVE  IsTried(F[q], graph, targets[q], profiles) /\ Tried(graph, targets[q], profiles) = F[q][n]
  <2>1. \E f : IsTried(f, graph, targets[q], profiles) /\ Tried(graph, targets[q], profiles) = f[n]
    BY <1>1, TriedByPosition
  <2> QED
    BY <2>1
<1> HIDE DEF F
<1>4. AreTried(F, graph, targets, profiles)
  BY <1>3 DEF AreTried
<1> DEFINE row == rows[r]
           last == F[r][n]
           shot == DecodeOne(graph, targets[r], profiles)
           zero == \A c \in DOMAIN targets[r] : targets[r][c] = 0
<1>5. row = last
  <2>1. DecodeBatch(graph, targets, profiles)[r] = last
    <3> HIDE DEF V, last
    <3>1. AreRows(F, graph, targets, profiles)
      <4> HIDE DEF n, R
      <4>1. /\ targets \in Seq(X) /\ profiles \in Seq(W) /\ profiles # <<>> /\ profiles[1].stage = "S1W"
            /\ AreRoomy(graph, V, targets, profiles) /\ AreTried(F, graph, targets, profiles)
        BY <1>1, <1>2, <1>4
      <4> QED
        BY ONLY <4>1, BatchAbreast
    <3> QED
      BY <3>1 DEF last, AreRows
  <2>2. rows = DecodeBatch(graph, targets, profiles)
    BY ForcedIs
  <2> QED
    BY <2>1, <2>2
<1>6. shot = IF zero THEN [success |-> TRUE, correction |-> {}, stage |-> "S0", work |-> 0]
             ELSE IF last.success THEN last ELSE Deferred(last.work)
  BY <1>3 DEF DecodeOne
<1>7. n \in 0 .. n /\ n \in 1 .. n /\ IsGraph(graph, targets[r], V)
      /\ \A k \in DOMAIN profiles : IsRoomyProfile(graph, V, profiles[k])
  BY <1>1, <1>2 DEF AreRoomy
<1>8. IsAnswer(graph, targets[r], last) /\ (zero => IsQuiet(profiles, last))
  <2>1. /\ \A k \in 0 .. n : IsAnswer(graph, targets[r], F[r][k])
        /\ zero => \A k \in 1 .. n : IsQuiet(profiles, F[r][k])
    <3> HIDE DEF V
    <3> QED
      BY <1>1, <1>3, <1>7, TriedFacts
  <2> HIDE DEF zero
  <2> QED
    BY <1>7, <2>1
<1> HIDE DEF row, rows, last, shot
<1>9. /\ last.success \in BOOLEAN /\ (~last.success => last.stage = "defer")
      /\ last.success => SyndromeBits(graph, last.correction) = targets[r]
  BY <1>8 DEF IsAnswer
<1>10. ASSUME zero PROVE RowIsShot(graph, targets[r], row, shot)
  <2>1. last.success = TRUE /\ last.correction = {} /\ last.work = 0 /\ last.stage = "S1W"
    BY <1>1, <1>8, <1>10 DEF IsQuiet
  <2>2. shot = [success |-> TRUE, correction |-> {}, stage |-> "S0", work |-> 0]
    BY <1>6, <1>10
  <2> HIDE DEF zero
  <2>3. shot.success = TRUE /\ shot.correction = {} /\ shot.stage = "S0" /\ shot.work = 0
    BY <2>2
  <2> QED
    BY <1>5, <1>9, <1>10, <2>1, <2>3 DEF RowIsShot, zero
<1>11. ASSUME ~zero PROVE RowIsShot(graph, targets[r], row, shot)
  <2>1. shot = IF last.success THEN last ELSE Deferred(last.work)
    BY <1>6, <1>11
  <2>2. CASE last.success = TRUE
    <3>1. shot = last
      BY <2>1, <2>2
    <3> QED
      BY <1>5, <1>9, <1>11, <2>2, <3>1 DEF RowIsShot, zero
  <2>3. CASE last.success = FALSE
    <3>1. shot = Deferred(last.work)
      BY <2>1, <2>3
    <3>2. shot.success = FALSE /\ shot.correction = {} /\ shot.stage = "defer" /\ shot.work = last.work
      BY <3>1, DeferredIs
    <3>3. last.stage = "defer"
      BY <1>9, <2>3
    <3> QED
      BY <1>5, <1>11, <2>3, <3>2, <3>3 DEF RowIsShot, zero
  <2> QED
    BY <1>9, <2>2, <2>3
<1> QED
  BY <1>10, <1>11 DEF row, shot

-----------------------------------------------------------------------------
(* The jobs of the library.                                                *)

LEMMA JobsStayLegal == JobSpec => []LegalJob
<1>1. LegalJob /\ [LegalJob']_job => LegalJob'
  <2>1. CASE UNCHANGED job
    BY <2>1 DEF LegalJob, Is
  <2> QED
    BY <2>1
<1> QED
  BY <1>1, PTL DEF JobSpec

\* Whatever updates the library is asked for, one after the other: its check updates agree.
THEOREM UpdatesAlwaysAgree == JobSpec => []CheckUpdatesAgree
<1>1. LegalJob => CheckUpdatesAgree
  BY UpdatesAreOne DEF LegalJob, CheckUpdatesAgree
<1> QED
  BY <1>1, JobsStayLegal, PTL

\* Whatever images the library is asked to complete over: its completions are exact.
THEOREM CompletionsAlwaysExact == JobSpec => []CompletionsAreExact
<1>1. LegalJob => CompletionsAreExact
  BY CompletionExact DEF LegalJob, CompletionsAreExact
<1> QED
  BY <1>1, JobsStayLegal, PTL

\* Whatever batches the library is asked for: every row comes out as it would alone.
THEOREM BatchesAlwaysMatch == JobSpec => []BatchesMatch
<1>1. LegalJob => BatchesMatch
  BY RowsAreAlone DEF LegalJob, BatchesMatch
<1> QED
  BY <1>1, JobsStayLegal, PTL
=============================================================================

-------------------------- MODULE NeutralCompletion --------------------------
(***************************************************************************)
(* How the S2R tail repairs a candidate that misses the syndrome: flips of *)
(* faults that change no logical observable, found along a spanning forest *)
(* of the degree-1 and degree-2 faults and, at the end of a decode, across *)
(* its detached components (paper_gross144_stage2.py).                     *)
(*                                                                         *)
(* GF(2) vectors are sets: a correction is the set of faults it flips, a   *)
(* residual the set of checks that miss, and addition is SymDiff.  An      *)
(* image is a record: checks = how many checks there are, columns[v] = the *)
(* checks fault v flips, neutral = the faults with a zero logical mask.    *)
(***************************************************************************)
EXTENDS Integers, Sequences, FiniteSets, FiniteSetsExt, SequencesExt, Gf2

ChecksOf(image) == 0 .. image.checks - 1
Nodes(image)    == 0 .. image.checks      \* the checks and the boundary
FaultsOf(image) == DOMAIN image.columns
Boundary(image) == image.checks

\* What every compiled image is: finitely many numbered faults, each flipping
\* some of the checks, some of them neutral.
IsImage(image) ==
  /\ image.checks \in Nat
  /\ FaultsOf(image) \in SUBSET Nat
  /\ IsFiniteSet(FaultsOf(image))
  /\ image.columns \in [FaultsOf(image) -> SUBSET ChecksOf(image)]
  /\ image.neutral \in SUBSET FaultsOf(image)

\* The elements of a finite set in a strict order of them.
Ordered(S, before(_, _)) ==
  [k \in 1 .. Cardinality(S) |-> CHOOSE x \in S : Cardinality({y \in S : before(y, x)}) = k - 1]

\* The checks a set of flips changes: _compact_syndrome.
SyndromeOf(image, flips) ==
  {c \in ChecksOf(image) : Odd({v \in flips : c \in image.columns[v]})}

-----------------------------------------------------------------------------
(* The forest: _build_neutral_completion_tree.                             *)

\* A neutral fault of degree one or two is a link: to the boundary, or
\* between its two checks.
IsLink(image, v) == v \in image.neutral /\ Cardinality(image.columns[v]) \in {1, 2}

Ends(image, v) ==
  IF Cardinality(image.columns[v]) = 1 THEN image.columns[v] \cup {Boundary(image)}
                                       ELSE image.columns[v]

\* What the disjoint-set structure says: which node each node is joined to by
\* the given links.
JoinLink(image, joined, v) ==
  LET merged == {joined[n] : n \in Ends(image, v)}
  IN  [n \in DOMAIN joined |-> IF joined[n] \in merged THEN Min(merged) ELSE joined[n]]

JoinedBy(image, links) ==
  FoldSet(LAMBDA v, joined : JoinLink(image, joined, v), [n \in Nodes(image) |-> n], links)

\* A link is kept unless the links before it join its ends already.
KeptLinks(image) ==
  {v \in FaultsOf(image) :
     /\ IsLink(image, v)
     /\ LET joined == JoinedBy(image, {w \in FaultsOf(image) : w < v /\ IsLink(image, w)})
        IN  Cardinality({joined[n] : n \in Ends(image, v)}) > 1}

\* The traversal of the kept links, node by node: the parent of each node, the
\* link to it, and the root that following the parents leads to.
NO_PARENT == -1
UNVISITED == -2

VisitNode(t, n, parent, link, root) ==
  [order |-> Append(t.order, n), parent |-> [t.parent EXCEPT ![n] = parent],
   link |-> [t.link EXCEPT ![n] = link], root |-> [t.root EXCEPT ![n] = root]]

\* Go on along a link that leaves the visited nodes, or else start at the
\* boundary, or else at the least check that is left.  (The code takes the links
\* from a stack; all that is read of the order is that parents come first.)
Visit(image, links, t) ==
  LET left     == {n \in Nodes(image) : t.parent[n] = UNVISITED}
      crossing == {v \in links : Ends(image, v) \cap left # {} /\ ~(Ends(image, v) \subseteq left)}
      v        == Min(crossing)
      here     == CHOOSE n \in Ends(image, v) \ left : TRUE
      first    == IF Boundary(image) \in left THEN Boundary(image) ELSE Min(left)
  IN  IF left = {} THEN t
      ELSE IF crossing = {} THEN VisitNode(t, first, NO_PARENT, -1, first)
      ELSE VisitNode(t, CHOOSE n \in Ends(image, v) \cap left : TRUE, here, v, t.root[here])

Traversal(image) ==
  LET links == KeptLinks(image)
      start == [order |-> <<>>, parent |-> [n \in Nodes(image) |-> UNVISITED],
                link |-> [n \in Nodes(image) |-> -1], root |-> [n \in Nodes(image) |-> n]]
  IN  FoldLeft(LAMBDA t, k : Visit(image, links, t), start, [k \in 1 .. image.checks + 1 |-> k])

\* The components that do not reach the boundary, each known by its root.
Detached(image, tree) == {tree.root[c] : c \in ChecksOf(image)} \ {Boundary(image)}

\* A parity vector: the detached components with an odd number of these checks.
ParityVector(detached, tree, checks) ==
  {r \in detached : Odd({c \in checks : tree.root[c] = r})}

-----------------------------------------------------------------------------
(* The bridge: _build_neutral_completion_bridge.                           *)

\* The components from the most significant down.
Descending(image) == [k \in 1 .. image.checks |-> image.checks - k]

\* Reduction forgets to record which earlier columns it used.
ReduceAtUncombined(pivots, s, p) ==
  IF s.held \/ p \notin s.vector THEN s
  ELSE IF p \notin DOMAIN pivots THEN [s EXCEPT !.held = TRUE]
  ELSE [s EXCEPT !.vector = SymDiff(@, pivots[p].vector)]

\* One step of the reduction, from the most significant component down; it
\* holds at the first component that has no pivot yet.
ReduceAt(pivots, s, p) ==
  IF s.held \/ p \notin s.vector THEN s
  ELSE IF p \notin DOMAIN pivots THEN [s EXCEPT !.held = TRUE]
  ELSE [s EXCEPT !.vector = SymDiff(@, pivots[p].vector),
                 !.faults = SymDiff(@, pivots[p].faults)]

Reduced(image, pivots, start) ==
  FoldLeft(LAMBDA s, p : ReduceAt(pivots, s, p), start, Descending(image))

AddColumn(image, detached, tree, pivots, v) ==
  LET r == Reduced(image, pivots, [vector |-> ParityVector(detached, tree, image.columns[v]),
                                   faults |-> {v}, held |-> FALSE])
  IN  IF v \in image.neutral /\ r.vector # {}
      THEN [p \in DOMAIN pivots \cup {Max(r.vector)} |->
              IF p \in DOMAIN pivots THEN pivots[p]
                                     ELSE [vector |-> r.vector, faults |-> r.faults]]
      ELSE pivots

\* Columns are taken by degree, then by number.
ColumnOrder(image) ==
  LET degree(v) == Cardinality(image.columns[v])
  IN  Ordered(FaultsOf(image), LAMBDA v, w : \/ degree(v) < degree(w)
                                             \/ degree(v) = degree(w) /\ v < w)

Bridge(image, detached, tree) ==
  FoldLeft(LAMBDA pivots, v : AddColumn(image, detached, tree, pivots, v), <<>>, ColumnOrder(image))

\* The part of the image that is compiled once and read by every completion.
Compiled(image) ==
  LET tree     == Traversal(image)
      detached == Detached(image, tree)
  IN  [tree |-> tree, detached |-> detached, pivots |-> Bridge(image, detached, tree)]

-----------------------------------------------------------------------------
(* Completion of one residual.                                             *)

Stuck == [stuck |-> TRUE]               \* the None of the Python functions
Flip(faults) == [stuck |-> FALSE, flips |-> faults]

\* Children first, a node that misses flips the link to its parent, which settles
\* it and toggles the parent; a root other than the boundary must not miss.
TreeStep(image, tree, s, n) ==
  IF n \notin s.missing THEN s
  ELSE IF tree.parent[n] = NO_PARENT THEN [s EXCEPT !.stuck = @ \/ n # Boundary(image)]
  ELSE [s EXCEPT !.missing = SymDiff(@, {n, tree.parent[n]}), !.flips = @ \cup {tree.link[n]}]

\* _neutral_tree_completion.
TreeCompletion(image, forest, residual) ==
  LET order == forest.tree.order
      end   == FoldLeft(LAMBDA s, n : TreeStep(image, forest.tree, s, n),
                        [missing |-> residual, flips |-> {}, stuck |-> FALSE], Reverse(order))
  IN  IF end.stuck THEN Stuck ELSE Flip(end.flips)

\* One pivot of _neutral_component_bridge, from the most significant down.
SolveAt(pivots, s, p) ==
  IF p \in s.vector /\ p \in DOMAIN pivots
  THEN [vector |-> SymDiff(s.vector, pivots[p].vector),
        faults |-> SymDiff(s.faults, pivots[p].faults)]
  ELSE s

\* The columns that together have the residual's parity in every detached
\* component.
ComponentBridge(image, forest, residual) ==
  LET start == [vector |-> ParityVector(forest.detached, forest.tree, residual), faults |-> {}]
      end   == FoldLeft(LAMBDA s, p : SolveAt(forest.pivots, s, p), start, Descending(image))
  IN  IF end.vector # {} THEN Stuck ELSE Flip(end.faults)

\* _neutral_bridged_completion.  The caller flips (*bridge, *tree) by one
\* indexed assignment, so a fault named in both parts is flipped once.
BridgedCompletion(image, forest, residual) ==
  LET bridge == ComponentBridge(image, forest, residual)
      tree   == TreeCompletion(image, forest, SymDiff(residual, SyndromeOf(image, bridge.flips)))
  IN  IF bridge.stuck THEN Stuck
      ELSE IF tree.stuck THEN Stuck
      ELSE Flip(bridge.flips \cup tree.flips)

-----------------------------------------------------------------------------
(* The promise.                                                            *)

\* Every residual that some set of neutral faults explains.
Repairable(image) ==
  FoldSet(LAMBDA v, span : span \cup {SymDiff(r, image.columns[v]) : r \in span},
          {{}}, image.neutral)

\* The bridged completion repairs exactly the residuals that can be repaired
\* without touching a logical observable, and what it returns does repair
\* them; the plain tree never claims a repair that is not one.  (The order of
\* elimination, the detached components and the single indexed flip all have
\* to agree.)
CompletionIsExact(image) ==
  LET forest     == Compiled(image)
      repairable == Repairable(image)
  IN  \A residual \in SUBSET ChecksOf(image) :
        LET done == BridgedCompletion(image, forest, residual)
            tree == TreeCompletion(image, forest, residual)
        IN  /\ done.stuck = (residual \notin repairable)
            /\ ~done.stuck => done.flips \subseteq image.neutral
                              /\ SyndromeOf(image, done.flips) = residual
            /\ ~tree.stuck => SyndromeOf(image, tree.flips) = residual
=============================================================================

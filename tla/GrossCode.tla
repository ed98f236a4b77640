------------------------------- MODULE GrossCode -------------------------------
(***************************************************************************)
(* The bivariate-bicycle code and its paired logical basis: gross144.py    *)
(* and graph_model.py.                                                     *)
(*                                                                         *)
(* A shape is a record: ell, m (the torus) and the polynomials a and b,    *)
(* sets of exponent pairs (ell = 12, m = 6, a = x^3 + y + y^2,             *)
(* b = y^3 + x + x^2 for the gross code).  A vector over GF(2) is the set  *)
(* of its ones among 0 .. width - 1, a matrix the sequence of its rows.    *)
(***************************************************************************)
EXTENDS Integers, Sequences, FiniteSets, FiniteSetsExt, SequencesExt, Evaluation, Gf2

\* The shapes build_gross144 is written for: the shifts of a polynomial are shifts of
\* the torus.
IsShape(shape) ==
  /\ shape.ell \in Nat \ {0} /\ shape.m \in Nat \ {0}
  /\ shape.a \subseteq (0 .. shape.ell - 1) \X (0 .. shape.m - 1)
  /\ shape.b \subseteq (0 .. shape.ell - 1) \X (0 .. shape.m - 1)

Block(shape) == shape.ell * shape.m
Width(shape) == 2 * Block(shape)

Shifted(shape, cell, dx, dy) ==
  (((cell \div shape.m) + dx) % shape.ell) * shape.m + (((cell % shape.m) + dy) % shape.m)

\* The row of one cell in the matrix of a polynomial, and in its transpose.
Monomials(shape, polynomial, cell) ==
  {Shifted(shape, cell, e[1], e[2]) : e \in polynomial}
Transposed(shape, polynomial, cell) ==
  {Shifted(shape, cell, -e[1], -e[2]) : e \in polynomial}

BesideRight(shape, left, right) == left \cup {c + Block(shape) : c \in right}

Hx(shape) == [r \in 1 .. Block(shape) |->
  BesideRight(shape, Monomials(shape, shape.a, r - 1), Monomials(shape, shape.b, r - 1))]
Hz(shape) == [r \in 1 .. Block(shape) |->
  BesideRight(shape, Transposed(shape, shape.b, r - 1), Transposed(shape, shape.a, r - 1))]

OverlapOdd(v, w) == Odd(v \cap w)

-----------------------------------------------------------------------------
(* Elimination over GF(2).                                                 *)

Swapped(rows, i, j) == [rows EXCEPT ![i] = rows[j], ![j] = rows[i]]

\* Only the rows below the pivot are cleared.
ClearBelow(rows, pivot, column) ==
  [r \in DOMAIN rows |-> IF r > pivot /\ column \in rows[r] THEN SymDiff(rows[r], rows[pivot])
                                                            ELSE rows[r]]

\* Every other row with a one in the pivot's column gets the pivot added.
Clear(rows, pivot, column) ==
  [r \in DOMAIN rows |-> IF r # pivot /\ column \in rows[r] THEN SymDiff(rows[r], rows[pivot])
                                                            ELSE rows[r]]

\* One column of _gf2_rref: the first row from s.rank + 1 on with a one in it.
ReduceColumn(s, column) ==
  LET below == {r \in s.rank + 1 .. Len(s.rows) : column \in s.rows[r]}
  IN  IF below = {} THEN s
      ELSE [rows   |-> Forced(Clear(Swapped(s.rows, s.rank + 1, Min(below)), s.rank + 1, column)),
            pivots |-> Append(s.pivots, column), rank |-> s.rank + 1]

ColumnList(width) == [c \in 1 .. width |-> c - 1]

Rref(rows, width) ==
  FoldLeft(ReduceColumn, [rows |-> rows, pivots |-> <<>>, rank |-> 0], ColumnList(width))

Rank2(rows, width) == Rref(rows, width).rank

\* _gf2_nullspace: one vector per column without a pivot.
NullVector(r, c) == {c} \cup {r.pivots[p] : p \in {q \in DOMAIN r.pivots : c \in r.rows[q]}}
WithNullVector(r, found, c) ==
  IF Contains(r.pivots, c) THEN found ELSE Append(found, NullVector(r, c))
NullVectors(r, width) ==
  FoldLeft(LAMBDA found, c : WithNullVector(r, found, c), <<>>, ColumnList(width))
Nullspace(rows, width) == NullVectors(Rref(rows, width), width)

\* _independent_extension: the candidates that raise the rank, in order.
WithCandidate(base, selected, v, width) ==
  IF Rank2(base \o Append(selected, v), width) > Rank2(base \o selected, width)
  THEN Append(selected, v)
  ELSE selected
Extension(base, candidates, width) ==
  FoldLeft(LAMBDA found, v : After(found, LAMBDA selected : WithCandidate(base, selected, v, width)),
           <<>>, candidates)

QuotientBasis(check, stabilizer, width) ==
  Extension(stabilizer, Nullspace(check, width), width)

\* _gf2_inverse: the rref of the matrix beside the identity; singular when a
\* column of the left half has no pivot.
Inverse2(rows) ==
  LET size == Len(rows)
      beside == [r \in 1 .. size |-> rows[r] \cup {size + r - 1}]
      r == Rref(beside, size)
  IN  [singular |-> r.rank < size,
       rows |-> [i \in 1 .. size |-> {c - size : c \in {d \in r.rows[i] : d >= size}}]]

\* A matrix times a matrix whose rows are vectors.
Combine(coefficients, vectors) ==
  [r \in DOMAIN coefficients |-> Added(vectors, {c + 1 : c \in coefficients[r]})]

\* build_gross144: the Z logicals as found, the X logicals recombined so that
\* each meets its own partner only.
CodeOf(hx, hz, found, lz) ==
  LET pairing == [i \in DOMAIN found |-> {j - 1 : j \in {k \in DOMAIN lz : OverlapOdd(found[i], lz[k])}}]
      inverse == Inverse2(pairing)
  IN  [hx |-> hx, hz |-> hz, lz |-> lz, singular |-> inverse.singular,
       lx |-> Combine(inverse.rows, found)]
BuildCode(shape) ==
  LET hx == Hx(shape)
      hz == Hz(shape)
  IN  CodeOf(hx, hz, QuotientBasis(hz, hx, Width(shape)), QuotientBasis(hx, hz, Width(shape)))

\* Gross144Code.validate: what the matrices must satisfy.
ValidCode(code, width, logicals) ==
  LET r == DOMAIN code.hx
  IN  /\ \A i, j \in r : ~OverlapOdd(code.hx[i], code.hz[j])
      /\ Len(code.lx) = logicals /\ Len(code.lz) = logicals
      /\ \A i \in DOMAIN code.lx, j \in r : ~OverlapOdd(code.lx[i], code.hz[j])
                                          /\ ~OverlapOdd(code.lz[i], code.hx[j])
      /\ \A i \in DOMAIN code.lx, j \in DOMAIN code.lz :
           OverlapOdd(code.lx[i], code.lz[j]) <=> i = j

\* _translation_group: both blocks and the checks move together.
VariableAction(shape, dx, dy) ==
  [v \in 0 .. Width(shape) - 1 |->
     Shifted(shape, v % Block(shape), dx, dy) + (v \div Block(shape)) * Block(shape)]
CheckAction(shape, dx, dy) == [c \in 0 .. Block(shape) - 1 |-> Shifted(shape, c, dx, dy)]

\* Graph.preserves_graph: every row goes to the row of the moved check.
PreservesGraph(rows, variables, checks) ==
  \A c \in DOMAIN checks : {variables[v] : v \in rows[c + 1]} = rows[checks[c] + 1]

-----------------------------------------------------------------------------
(* The promises.                                                           *)

Span(rows) == {Added(rows, Q) : Q \in SUBSET DOMAIN rows}

\* For every shape the construction passes the code's own validation with as
\* many logicals as the checks leave room for, the declared translations are
\* automorphisms of both graphs, and the logical bits say what they are read
\* for: an error without a syndrome is a stabilizer exactly if all its logical
\* bits are zero.
IsPaired(code, shape) ==
  LET width == Width(shape)
      Ker(rows) == {v \in SUBSET (0 .. width - 1) : \A r \in DOMAIN rows : ~OverlapOdd(v, rows[r])}
      Trivial(v, logicals) == \A l \in DOMAIN logicals : ~OverlapOdd(v, logicals[l])
      stabilizersX == Span(code.hx)
      stabilizersZ == Span(code.hz)
  IN  /\ ~code.singular
      /\ ValidCode(code, width, width - Rank2(code.hx, width) - Rank2(code.hz, width))
      /\ 2^Rank2(code.hx, width) = Cardinality(stabilizersX)
      /\ \A dx \in 0 .. shape.ell - 1, dy \in 0 .. shape.m - 1 :
           /\ PreservesGraph(code.hx, VariableAction(shape, dx, dy), CheckAction(shape, dx, dy))
           /\ PreservesGraph(code.hz, VariableAction(shape, dx, dy), CheckAction(shape, dx, dy))
      /\ \A v \in Ker(code.hz) : Trivial(v, code.lz) <=> v \in stabilizersX
      /\ \A v \in Ker(code.hx) : Trivial(v, code.lx) <=> v \in stabilizersZ
PairedBasis(shape) == IsPaired(BuildCode(shape), shape)
=============================================================================

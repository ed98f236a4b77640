------------------------------ MODULE GariCompile ------------------------------
(***************************************************************************)
(* From a circuit's detector error graph to a typed GARI image:            *)
(* circuit_graph.py (the strict importer and the transpose) and gari.py    *)
(* (compile_gari_subgraph, GariGraph.from_dict).                           *)
(*                                                                         *)
(* A circuit is a record: rounds[d] for every detector d, and the faults,  *)
(* each with its sequence of detectors, the set of logicals it flips, its  *)
(* window first .. last, an explicit check type ("none": there is none), a *)
(* basis and a partition.  Detectors, faults and checks are numbered from  *)
(* one.                                                                    *)
(***************************************************************************)
EXTENDS LayeredDecoder

CheckTypes == {"D_X", "D_Z", "U", "V"}

\* CircuitDetectorGraph.from_dict: what a graph must satisfy to be loaded.
Importable(circuit) ==
  \A f \in DOMAIN circuit.faults :
    LET fault == circuit.faults[f]
    IN  /\ fault.detectors # <<>> /\ IsInjective(fault.detectors)
        /\ fault.first <= fault.last
        /\ \A d \in ToSet(fault.detectors) :
             d \in DOMAIN circuit.rounds /\ circuit.rounds[d] \in fault.first .. fault.last
        /\ fault.logicals \subseteq 1 .. circuit.logicals

\* to_decoder_graph: the faults of every detector, in the order of the faults.
DetectorRows(circuit) ==
  [d \in DOMAIN circuit.rounds |->
     Positions([f \in DOMAIN circuit.faults |-> d \in ToSet(circuit.faults[f].detectors)], {TRUE})]

\* _classify_gari_check: an explicit type that all faults agree on, else D_Z
\* when every fault is of basis Z.  More than one value means a conflict.
Classes(circuit, faults) ==
  LET explicit == {circuit.faults[f].type : f \in faults} \ {"none"}
      bases    == {circuit.faults[f].basis : f \in faults}
  IN  IF explicit # {} THEN explicit ELSE IF bases = {"Z"} THEN {"D_Z"} ELSE {"D_X"}

\* _check_partition: of auxiliary checks only.
Partitions(circuit, faults) == {circuit.faults[f].partition : f \in faults}

Auxiliary(types, c) == types[c] \in {"U", "V"}

\* The edges of some checks, <<check, place>>, check by check.
Edges(rows, checks) ==
  FlattenSeq([c \in 1 .. Len(rows) |->
    IF c \in checks THEN [e \in 1 .. Len(rows[c]) |-> <<c, e>>] ELSE <<>>])

\* Every auxiliary edge is paired with the first main edge of its variable.
ExchangesFirst(rows, types) ==
  LET tags == Edges(rows, {c \in DOMAIN rows : Auxiliary(types, c)})
      main == Edges(rows, {c \in DOMAIN rows : ~Auxiliary(types, c)})
      at(edge) == rows[edge[1]][edge[2]]
      same(t) == Positions([k \in DOMAIN main |-> at(main[k])], {at(t)})
  IN  FlattenSeq([k \in DOMAIN tags |->
        IF same(tags[k]) = <<>> THEN <<>> ELSE <<<<tags[k], main[same(tags[k])[1]]>>>>])

\* Every auxiliary edge is paired with every main edge of its variable.
Exchanges(rows, types) ==
  LET tags == Edges(rows, {c \in DOMAIN rows : Auxiliary(types, c)})
      main == Edges(rows, {c \in DOMAIN rows : ~Auxiliary(types, c)})
      at(edge) == rows[edge[1]][edge[2]]
      values == [k \in DOMAIN main |-> at(main[k])]
  IN  FlattenSeq([k \in DOMAIN tags |->
        LET same == Positions(values, {at(tags[k])})
        IN  [n \in DOMAIN same |-> <<tags[k], main[same[n]]>>]])

NoImage == [accepted |-> FALSE]           \* one of the ValueErrors

\* from_dict on the compiler's own output: a check without a variable is the
\* one defect it can still have.
GariImage(rows, types, partitions, inverse, signatures) ==
  IF \E c \in DOMAIN rows : rows[c] = <<>> THEN NoImage
  ELSE [accepted |-> TRUE, rows |-> rows, types |-> types, partitions |-> partitions,
        inverse |-> inverse, signatures |-> signatures, exchanges |-> Exchanges(rows, types)]

\* compile_gari_subgraph.  inverse[g] is the fault of GARI variable g;
\* overrides are the types given by hand.
CompileGari(circuit, inverse, overrides) ==
  LET original == DetectorRows(circuit)
      forward  == [f \in DOMAIN inverse |-> CHOOSE g \in DOMAIN inverse : inverse[g] = f]
      classes(c) == IF c \in DOMAIN overrides THEN {overrides[c]}
                    ELSE Classes(circuit, ToSet(original[c]))
      types == [c \in DOMAIN original |-> CHOOSE t \in classes(c) : TRUE]
      parts(c) == IF ~Auxiliary(types, c) \/ original[c] = <<>> THEN {0}
                  ELSE Partitions(circuit, ToSet(original[c]))
  IN  IF \E c \in DOMAIN original : Cardinality(classes(c)) # 1 \/ Cardinality(parts(c)) # 1
      THEN NoImage
      ELSE IF ~(\A c \in DOMAIN original : types[c] \in CheckTypes) THEN NoImage
      ELSE GariImage([c \in DOMAIN original |->
                        [e \in DOMAIN original[c] |-> forward[original[c][e]]]],
                     types, [c \in DOMAIN original |-> CHOOSE p \in parts(c) : TRUE], inverse,
                     [l \in 1 .. circuit.logicals |->
                        {g \in DOMAIN inverse : l \in circuit.faults[inverse[g]].logicals}])

\* inverse_correction: back to the faults of the circuit.
InverseCorrection(image, correction) == {image.inverse[g] : g \in correction}

-----------------------------------------------------------------------------
(* The inputs, and the promise.                                            *)

\* The fields of a circuit: a graph has a fault and so a detector, and the kinds of its checks
\* are known.
IsCircuit(circuit) ==
  /\ circuit.rounds \in Seq(Nat) \ {<<>>} /\ circuit.logicals \in Nat
  /\ circuit.faults \in Seq([detectors : Seq(Nat), logicals : SUBSET Nat, first : Nat, last : Nat,
                            type : CheckTypes \cup {"none"}, basis : STRING, partition : Nat])

\* compile_gari_subgraph refuses anything else: a renumbering of the faults, and types by
\* hand for checks there are.
IsLabelling(circuit, inverse, overrides) ==
  /\ inverse \in [DOMAIN circuit.faults -> DOMAIN circuit.faults]
  /\ Range(inverse) = DOMAIN circuit.faults
  /\ overrides \in [DOMAIN overrides -> CheckTypes]
  /\ DOMAIN overrides \subseteq DOMAIN circuit.rounds

OddOverlap(a, b) == Cardinality(a \cap b) % 2 = 1

\* An importable circuit gets an image unless a detector has no fault or the
\* types or partitions given for a check conflict; and the image is the
\* circuit: whatever GARI decides, the faults it stands for have the same
\* syndrome and flip the same logicals, every check is decoded exactly once a
\* sweep, and every message of an auxiliary edge is exchanged with every main
\* edge of its variable, once.
GariRoundTrip(circuit, inverse, overrides) ==
  LET image == CompileGari(circuit, inverse, overrides)
      original == DetectorRows(circuit)
      orders == GariOrder(image.rows, image.types, image.partitions, 2)
      variable(edge) == image.rows[edge[1]][edge[2]]
      edges == {edge \in (DOMAIN original) \X (1 .. Len(circuit.faults)) :
                  edge[2] \in DOMAIN original[edge[1]]}
      faults(c) == {f \in DOMAIN circuit.faults : c \in ToSet(circuit.faults[f].detectors)}
      conflict(c) == /\ c \notin DOMAIN overrides
                     /\ Cardinality({circuit.faults[f].type : f \in faults(c)} \ {"none"}) > 1
  IN  Importable(circuit) =>
        /\ (\E c \in DOMAIN original : faults(c) = {} \/ conflict(c)) => ~image.accepted
        /\ ~image.accepted => \E c \in DOMAIN original :
             faults(c) = {} \/ conflict(c)
               \/ Cardinality({circuit.faults[f].partition : f \in faults(c)}) > 1
        /\ image.accepted =>
             /\ \A correction \in SUBSET DOMAIN inverse :
                  LET back == InverseCorrection(image, correction)
                  IN  /\ SyndromeBits(image.rows, correction) =
                           [d \in DOMAIN circuit.rounds |-> Cardinality(faults(d) \cap back) % 2]
                      /\ \A l \in 1 .. circuit.logicals :
                           OddOverlap(image.signatures[l], correction) =
                             OddOverlap({f \in DOMAIN circuit.faults :
                                           l \in circuit.faults[f].logicals}, back)
             /\ Len(orders) = Len(original) /\ ToSet(orders) = DOMAIN original
             /\ IsInjective(image.exchanges)
             /\ ToSet(image.exchanges) =
                  {pair \in edges \X edges :
                     /\ Auxiliary(image.types, pair[1][1]) /\ ~Auxiliary(image.types, pair[2][1])
                     /\ variable(pair[1]) = variable(pair[2])}
=============================================================================

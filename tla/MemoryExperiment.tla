--------------------------- MODULE MemoryExperiment ---------------------------
(***************************************************************************)
(* The memory experiment of gross144_memory.py: the circuit's schedule of  *)
(* group elements, the adapter that finds by one backward pass what every  *)
(* single fault does, the folding of its faults into decoder variables,    *)
(* and the temporal adapter, which decodes the same shots with one         *)
(* variable per data qubit and round and per measurement.                  *)
(*                                                                         *)
(* Data qubits are 0 .. width - 1, then come the X and the Z ancillas.  A  *)
(* decoder's detector is slice * block + check, a slice per round and one  *)
(* for the readout.  In X memory the relevant fault is a Z, in Z memory an *)
(* X.  The encoded preparation and Stim itself are external.               *)
(***************************************************************************)
EXTENDS GrossCode, Automorphism

-----------------------------------------------------------------------------
(* The schedule.                                                           *)

Opposite(terms) == [k \in DOMAIN terms |-> <<-terms[k][1], -terms[k][2]>>]

\* syndrome_layers: one layer per group element, in the order of the
\* polynomials; the layers of Hx are tried first, then those of Hz.
SyndromeLayers(shape, matrix) ==
  LET layers(left, right) ==
        [k \in 1 .. Len(left) + Len(right) |->
           LET by == (left \o right)[k]
           IN  [c \in 0 .. Block(shape) - 1 |->
                  Shifted(shape, c, by[1], by[2]) + IF k > Len(left) THEN Block(shape) ELSE 0]]
      candidates == <<layers(shape.termsA, shape.termsB),
                      layers(Opposite(shape.termsB), Opposite(shape.termsA))>>
      row(ls, c) == FoldLeft(LAMBDA s, l : SymDiff(s, {l[c]}), {}, ls)
      fits == {k \in DOMAIN candidates :
                 \A c \in 0 .. Block(shape) - 1 : row(candidates[k], c) = matrix[c + 1]}
  IN  IF fits = {} THEN <<>> ELSE candidates[Min(fits)]

Experiment(shape, code, basis, rounds) ==
  [shape |-> shape, block |-> Block(shape), width |-> Width(shape), basis |-> basis,
   rounds |-> rounds,
   check |-> IF basis = "X" THEN code.hx ELSE code.hz,
   logicals |-> IF basis = "X" THEN code.lx ELSE code.lz,
   layers |-> [X |-> SyndromeLayers(shape, code.hx), Z |-> SyndromeLayers(shape, code.hz)]]

Qubits(e) == 0 .. e.width + 2 * e.block - 1
Ancilla(e, section, c) == e.width + c + IF section = "Z" THEN e.block ELSE 0

Operation(name, round, section, qubits, pairs) ==
  [name |-> name, round |-> round, section |-> section, qubits |-> qubits, pairs |-> pairs]

\* One half of a round.  An X ancilla controls its data, a Z ancilla is their target.
HalfRound(e, section, round) ==
  LET ancillas == {Ancilla(e, section, c) : c \in 0 .. e.block - 1}
      pair(layer, c) == IF section = "X" THEN <<Ancilla(e, "X", c), layer[c]>>
                                         ELSE <<layer[c], Ancilla(e, "Z", c)>>
      cnots(layer) == {pair(layer, c) : c \in 0 .. e.block - 1}
      layers == e.layers[section]
  IN  <<Operation("reset", round, section, ancillas, {})>>
      \o [k \in DOMAIN layers |->
            Operation("cnot", round, section, UNION {ToSet(p) : p \in cnots(layers[k])},
                      cnots(layers[k]))]
      \o <<Operation("measure", round, section, ancillas, {})>>

\* The operations of the circuit, and of the adapter's timeline.
Timeline(e) ==
  FlattenSeq([r \in 1 .. e.rounds |-> HalfRound(e, "X", r - 1) \o HalfRound(e, "Z", r - 1)])
    \o <<Operation("final", e.rounds, "D", 0 .. e.width - 1, {})>>

-----------------------------------------------------------------------------
(* _response_records.  A response is the set of what a fault flips:        *)
(* <<"d", detector>>, <<"l", logical>> and <<"q", data qubit>>.            *)

\* A flipped measurement is seen in its own slice and in the next.
AncillaRecord(e, round, c) ==
  {<<"d", round * e.block + c>>, <<"d", (round + 1) * e.block + c>>}
FinalRecord(e, q) ==
  {<<"q", q>>} \cup {<<"d", e.rounds * e.block + c - 1>> : c \in {k \in DOMAIN e.check : q \in e.check[k]}}
    \cup {<<"l", l>> : l \in {k \in DOMAIN e.logicals : q \in e.logicals[k]}}

\* What a measurement answers to a fault just before it.
MeasureResponse(e, op, q) ==
  IF op.name = "final" THEN FinalRecord(e, q)
  ELSE IF op.section = e.basis THEN AncillaRecord(e, op.round, q - Ancilla(e, op.section, 0))
  ELSE {}

\* The qubits a CNOT copies the relevant fault to, from q.
CopiedTo(e, op, q) ==
  IF e.basis = "X" THEN {p[1] : p \in {r \in op.pairs : r[2] = q}}
                   ELSE {p[2] : p \in {r \in op.pairs : r[1] = q}}

\* One operation of the backward pass: the faults just after it (just before it,
\* for a measurement) are recorded, then the responses are taken through it.
Respond(e, s, op) ==
  LET through(q) ==
        IF q \notin op.qubits THEN s.responses[q]
        ELSE CASE op.name \in {"final", "measure"} -> MeasureResponse(e, op, q)
               [] op.name = "reset" -> {}
               [] OTHER -> FoldSet(LAMBDA p, r : SymDiff(r, s.responses[p]), s.responses[q],
                                   CopiedTo(e, op, q))
      recorded(q) == IF op.name \in {"final", "measure"} THEN through(q) ELSE s.responses[q]
  IN  Forced([responses |-> [q \in Qubits(e) |-> through(q)],
              records |-> Append(s.records, [name |-> op.name,
                                             at |-> [q \in op.qubits |-> recorded(q)]])])

\* The records, last operation first.
ResponseRecords(e) ==
  FoldLeft(LAMBDA s, op : Respond(e, s, op),
           [responses |-> [q \in Qubits(e) |-> {}], records |-> <<>>],
           Reverse(Timeline(e))).records

-----------------------------------------------------------------------------
(* _build_layout: visible faults with one response are one variable, whose *)
(* prior is a matter of how many faults of either class it stands for.     *)

Part(kind, response) == {bit[2] : bit \in {b \in response : b[1] = kind}}

Faults(records) == UNION {{<<k, q>> : q \in DOMAIN records[k].at} : k \in DOMAIN records}
ResponseAt(records, fault) == records[fault[1]].at[fault[2]]

\* A fault that flips a logical and no detector cannot be scored.
LogicalOnly(records) ==
  \E f \in Faults(records) : Part("d", ResponseAt(records, f)) = {} /\ Part("l", ResponseAt(records, f)) # {}

\* Mutant: what the detectors cannot tell apart is merged.
SameDetectors(r, s) == Part("d", r) = Part("d", s)

SameVariable(r, s) == Part("d", r) = Part("d", s) /\ Part("l", r) = Part("l", s)

\* The first component of a bucket lends the variable its data mask.
Folded(records) ==
  LET faults == Faults(records)
      bucket(f) == {g \in faults : SameVariable(ResponseAt(records, g), ResponseAt(records, f))}
      count(b, cnot) == Cardinality({g \in b : (records[g[1]].name = "cnot") = cnot})
      first(b) == CHOOSE g \in b : \A h \in b : g[1] <= h[1]
      variable(f) ==
        LET b == bucket(f)
        IN  [detectors |-> Part("d", ResponseAt(records, f)),
             logicals |-> Part("l", ResponseAt(records, f)),
             data |-> Part("q", ResponseAt(records, first(b))),
             prior |-> <<count(b, FALSE), count(b, TRUE)>>]
  IN  {variable(f) : f \in {g \in faults : Part("d", ResponseAt(records, g)) # {}}}

\* _map_detector_mask: every slice is moved alike.
MovedDetectors(e, detectors, dx, dy) ==
  {(d \div e.block) * e.block + CheckAction(e.shape, dx, dy)[d % e.block] : d \in detectors}

\* Sets in the order of the numbers they are stored as.
LessMask(a, b) == a # b /\ Max(SymDiff(a, b)) \in b

\* The variable a translation takes v to: of those with the detectors the last.
ComponentImages(e, variables, v, dx, dy) ==
  LET hits == {w \in variables : w.detectors = MovedDetectors(e, v.detectors, dx, dy)}
  IN  {w \in hits : \A x \in hits : ~LessMask(w.logicals, x.logicals)}

\* _build_component_automorphisms lets a translation through.
ComponentLiftAccepted(e, variables, dx, dy) ==
  /\ \A v \in variables : \E w \in ComponentImages(e, variables, v, dx, dy) : w.prior = v.prior
  /\ UNION {ComponentImages(e, variables, v, dx, dy) : v \in variables} = variables

\* decode: the data correction of some variables.
NetCorrection(variables) == FoldSet(LAMBDA v, net : SymDiff(net, v.data), {}, variables)

-----------------------------------------------------------------------------
(* The temporal adapter.                                                   *)

TemporalVariables(e) ==
  ({"data"} \X (0 .. e.rounds - 1) \X (0 .. e.width - 1))
    \cup ({"measure"} \X (0 .. e.rounds - 1) \X (0 .. e.block - 1))
    \cup ({"readout"} \X {e.rounds} \X (0 .. e.width - 1))

\* neighbors: a round sees its data errors, its own measurement and the one before.
TemporalCheck(e, t, c) ==
  {v \in TemporalVariables(e) :
     \/ v[1] \in {"data", "readout"} /\ v[2] = t /\ v[3] \in e.check[c + 1]
     \/ v[1] = "measure" /\ v[2] \in {t - 1, t} /\ v[3] = c}

TemporalSignature(e, l) ==
  {v \in TemporalVariables(e) : v[1] # "measure" /\ v[3] \in e.logicals[l]}

\* The lift of a translation, and graph.preserves_graph.
TemporalAction(e, v, dx, dy) ==
  <<v[1], v[2], IF v[1] = "measure" THEN CheckAction(e.shape, dx, dy)[v[3]]
                                    ELSE VariableAction(e.shape, dx, dy)[v[3]]>>
TemporalLiftAccepted(e, dx, dy) ==
  \A t \in 0 .. e.rounds, c \in 0 .. e.block - 1 :
    {TemporalAction(e, v, dx, dy) : v \in TemporalCheck(e, t, c)} =
      TemporalCheck(e, t, CheckAction(e.shape, dx, dy)[c])

\* decode: the data errors of all rounds and of the readout.
TemporalNet(correction) ==
  FoldSet(LAMBDA v, net : IF v[1] = "measure" THEN net ELSE SymDiff(net, {v[3]}), {}, correction)

-----------------------------------------------------------------------------
(* What the circuit of build_gross144_memory_circuit does with a fault: it *)
(* spreads through the CNOTs that follow and flips measurements; detectors *)
(* compare a measurement with the one before, the last with the data.      *)

\* state: the qubits that carry the fault, and the measurements it flipped.
Propagate(e, s, op) ==
  CASE op.name = "reset" -> [s EXCEPT !.on = @ \ op.qubits]
    [] op.name = "cnot" ->
         [s EXCEPT !.on = SymDiff(@, UNION {CopiedTo(e, op, q) : q \in @})]
    [] op.name = "measure" /\ op.section = e.basis ->
         [s EXCEPT !.flipped = @ \cup {<<op.round, q - Ancilla(e, op.section, 0)>> :
                                          q \in s.on \cap op.qubits}]
    [] OTHER -> s

\* What a spread fault shows: the circuit's detectors, two channels a round and
\* the boundary, the observables, and the data left wrong.
Observed(e, s) ==
  LET data == s.on \cap (0 .. e.width - 1)
      channel == IF e.basis = "X" THEN 0 ELSE 1
      cells == (0 .. e.rounds - 1) \X (0 .. e.block - 1)
      changed(r, c) == (<<r, c>> \in s.flipped) # (<<r - 1, c>> \in s.flipped)
      boundary(c) == (<<e.rounds - 1, c>> \in s.flipped) # OverlapOdd(e.check[c + 1], data)
  IN  [events |-> {(2 * rc[1] + channel) * e.block + rc[2] : rc \in {x \in cells : changed(x[1], x[2])}}
                    \cup {2 * e.rounds * e.block + c : c \in {x \in 0 .. e.block - 1 : boundary(x)}},
       observables |-> {l \in DOMAIN e.logicals : OverlapOdd(e.logicals[l], data)},
       data |-> data]

\* From a fault on q before operation k.
CircuitResponse(e, k, q) ==
  LET ops == Timeline(e)
  IN  Observed(e, FoldLeft(LAMBDA s, op : Propagate(e, s, op), [on |-> {q}, flipped |-> {}],
                           SubSeq(ops, k, Len(ops))))

\* _adapt: the slices of the own channel, then the boundary.
Adapt(e, events) ==
  LET channel == IF e.basis = "X" THEN 0 ELSE 1
  IN  {t * e.block + c : <<t, c>> \in
         {tc \in (0 .. e.rounds) \X (0 .. e.block - 1) :
            (IF tc[1] = e.rounds THEN 2 * tc[1] ELSE 2 * tc[1] + channel) * e.block + tc[2] \in events}}

-----------------------------------------------------------------------------
(* The promises.                                                           *)

\* The backward pass finds for every named fault exactly what the circuit does
\* with it.
ResponsesAreForward(e, records) ==
  LET ops == Timeline(e)
      before(k) == Len(ops) - k + IF records[k].name \in {"final", "measure"} THEN 1 ELSE 2
  IN  \A f \in Faults(records) :
        LET circuit == CircuitResponse(e, before(f[1]), f[2])
            r == ResponseAt(records, f)
        IN  /\ Part("d", r) = Adapt(e, circuit.events)
            /\ Part("l", r) = circuit.observables
            /\ Part("q", r) = circuit.data

\* Faults that were folded together differ by a stabilizer of the data, so that
\* the data mask of the first corrects them all and has the logical bits the
\* decoder predicts; and a translation lifts exactly if the detectors tell the
\* variables apart: the schedule of group elements is moved into itself, faults
\* counted.
FoldingIsExact(e, records, stabilizers) ==
  LET variables == Folded(records)
      unique == \A v, w \in variables : v.detectors = w.detectors => v = w
  IN  /\ \A f \in Faults(records) : Part("d", ResponseAt(records, f)) # {} =>
           \E v \in variables :
             /\ v.detectors = Part("d", ResponseAt(records, f))
             /\ v.logicals = Part("l", ResponseAt(records, f))
             /\ SymDiff(v.data, Part("q", ResponseAt(records, f))) \in stabilizers
             /\ v.logicals = {l \in DOMAIN e.logicals : OverlapOdd(e.logicals[l], NetCorrection({v}))}
      /\ \A dx \in 0 .. e.shape.ell - 1, dy \in 0 .. e.shape.m - 1 :
           ComponentLiftAccepted(e, variables, dx, dy) = unique

\* A temporal variable is what the circuit does with a data error between two
\* rounds, with a flipped measurement and with an error at readout; the
\* translations always lift, and the logical bits are those of the net error.
TemporalIsExact(e) ==
  LET ops == Timeline(e)
      at(v) == CASE v[1] = "data"    -> Min({k \in DOMAIN ops : ops[k].round = v[2]})
                 [] v[1] = "measure" -> Min({k \in DOMAIN ops : ops[k].name = "measure"
                                             /\ ops[k].round = v[2] /\ ops[k].section = e.basis})
                 [] OTHER -> Len(ops)
      qubit(v) == IF v[1] = "measure" THEN Ancilla(e, e.basis, v[3]) ELSE v[3]
  IN  /\ \A v \in TemporalVariables(e) :
           LET circuit == CircuitResponse(e, at(v), qubit(v))
           IN  /\ Adapt(e, circuit.events) =
                    {t * e.block + c : <<t, c>> \in
                       {tc \in (0 .. e.rounds) \X (0 .. e.block - 1) :
                          v \in TemporalCheck(e, tc[1], tc[2])}}
               /\ circuit.observables = {l \in DOMAIN e.logicals : v \in TemporalSignature(e, l)}
               /\ v[1] # "measure" => circuit.data = TemporalNet({v})
      /\ \A dx \in 0 .. e.shape.ell - 1, dy \in 0 .. e.shape.m - 1 : TemporalLiftAccepted(e, dx, dy)

\* Every declared shape has its schedule, and unless a single fault flips a
\* logical alone, both adapters decode what the circuit produces.
AdaptersAreExact(e, records, stabilizers) ==
  /\ e.layers.X # <<>> /\ e.layers.Z # <<>>
  /\ ResponsesAreForward(e, records)
  /\ ~LogicalOnly(records) => FoldingIsExact(e, records, stabilizers)
  /\ TemporalIsExact(e)
MemoryIsExact(shape, basis, rounds) ==
  LET stabilizers(code) == Span(IF basis = "X" THEN code.hz ELSE code.hx)
      exact(code, e) == AdaptersAreExact(e, ResponseRecords(e), stabilizers(code))
      ofCode(code) == exact(code, Forced(Experiment(shape, code, basis, rounds)))
  IN  ofCode(Forced(BuildCode(shape)))
=============================================================================

---------------------------- MODULE LayeredDecoder ----------------------------
(***************************************************************************)
(* The layered min-sum decoders of the library over one check step:        *)
(* minsum_reference.py (fixed point), wide_minsum.py (scalar, batch and    *)
(* schedules), hybrid_warmup.py and gari.py.                               *)
(*                                                                         *)
(* A graph is the sequence of its checks, each a sequence of distinct      *)
(* variables; a state is the posterior of every variable and the messages  *)
(* of every check.                                                         *)
(***************************************************************************)
EXTENDS CheckUpdate, Evaluation

HardDecision(posterior) == {v \in DOMAIN posterior : posterior[v] < 0}

SyndromeBits(graph, correction) ==
  [c \in DOMAIN graph |-> Cardinality(ToSet(graph[c]) \cap correction) % 2]

Fresh(graph, prior) ==
  [posterior |-> [v \in DOMAIN prior |-> Saturate(prior[v])],
   messages  |-> [c \in DOMAIN graph |-> [e \in DOMAIN graph[c] |-> 0]]]

\* Mutant: the old message is not taken out of the posterior.
MoveAdding(p, old, new) == SatAdd(p, new)

\* How one edge moves the posterior: twice saturated in the scalar decoders,
\* once in the batch and in the warm-up.
MoveTwice(p, old, new) == SatAdd(SatSub(p, old), new)
MoveOnce(p, old, new)  == Saturate(p - old + new)

\* A kernel is the arithmetic of a decoder: its check update and its move.
UpdateOf(kernel, x, bit) ==
  CASE kernel = "fixed" -> FixedCheckUpdate(x, bit)
    [] kernel = "float" -> FloatCheckUpdate(x, bit)
    [] kernel = "wide"  -> WideCheckUpdate(x, bit)
    [] kernel = "batch" -> BatchCheckUpdate(x, bit)
    [] OTHER            -> BoxPlusCheckUpdate(x, bit)
Move(kernel, p, old, new) ==
  CASE kernel = "float"              -> p - old + new
    [] kernel \in {"fixed", "wide"} -> MoveTwice(p, old, new)
    [] OTHER                         -> MoveOnce(p, old, new)
Without(kernel, p, old) == IF kernel = "float" THEN p - old ELSE SatSub(p, old)

\* The new messages of a check in place of its old ones.
Replaced(row, kernel, s, c, new) ==
  Forced([posterior |-> [v \in DOMAIN s.posterior |->
            IF v \in ToSet(row)
            THEN LET e == CHOOSE i \in DOMAIN row : row[i] = v
                 IN  Move(kernel, s.posterior[v], s.messages[c][e], new[e])
            ELSE s.posterior[v]],
          messages |-> [s.messages EXCEPT ![c] = new]])

\* One check: take its old messages out, update, put the new ones in.
CheckStep(graph, target, kernel, s, c) ==
  LET row == graph[c]
      x   == [e \in DOMAIN row |-> Without(kernel, s.posterior[row[e]], s.messages[c][e])]
  IN  Replaced(row, kernel, s, c, UpdateOf(kernel, x, target[c]))

Sweep(graph, target, kernel, s, checks) ==
  FoldLeft(LAMBDA t, c : CheckStep(graph, target, kernel, t, c), s, checks)

Met(graph, target, s) == SyndromeBits(graph, HardDecision(s.posterior)) = target

Forward(graph) == [c \in 1 .. Len(graph) |-> c]

Run(s, iterations, success) == [state |-> s, iterations |-> iterations, success |-> success]

Tested(graph, target, s, iterations) == Run(s, iterations, Met(graph, target, s))

\* A whole decode: test, then sweep and test until it is met; orders[i] are the
\* checks of the i-th sweep.
Decoding(graph, target, kernel, s, orders) ==
  FoldLeft(LAMBDA r, i :
             IF r.success THEN r
             ELSE Tested(graph, target, Sweep(graph, target, kernel, r.state, orders[i]), i),
           Tested(graph, target, s, 0), [i \in DOMAIN orders |-> i])

\* convert_to_compressed_state: new messages for every edge; the posterior,
\* which holds the old ones, is taken over as it is.
Converted(graph, target, s) ==
  LET x(c) == [e \in DOMAIN graph[c] |-> SatSub(s.posterior[graph[c][e]], s.messages[c][e])]
  IN  [s EXCEPT !.messages = [c \in DOMAIN graph |-> FixedCheckUpdate(x(c), target[c])]]

-----------------------------------------------------------------------------
(* Schedules of wide_minsum.py.  A schedule is a record: lanes = the lane  *)
(* groups of one slice, coordinates from 0 (one lane: singletons), kind,   *)
(* direction, and the stride of the cyclic kinds in slices.                *)

Directions == {"forward", "reverse", "alternating", "alternating_reverse",
               "pair_alternating", "pair_alternating_reverse"}

Backward(schedule, i) ==
  CASE schedule.direction = "forward"                  -> FALSE
    [] schedule.direction = "reverse"                  -> TRUE
    [] schedule.direction = "alternating"              -> i % 2 = 0
    [] schedule.direction = "alternating_reverse"      -> i % 2 = 1
    [] schedule.direction = "pair_alternating"         -> (i - 1) % 4 >= 2
    [] schedule.direction = "pair_alternating_reverse" -> (i - 1) % 4 < 2

\* The cyclic kinds walk from a start that moves with the sweep.
Cyclic(count, stride, i, backward) ==
  LET start == ((i - 1) * stride) % count
  IN  [o \in 1 .. count |-> IF backward THEN (start - (o - 1)) % count
                                        ELSE (start + (o - 1)) % count]

\* _iteration_checks.  The two-lane schedule reverses inside a slice and keeps
\* the slices in order; the four-lane ones reverse slices, groups and lanes.
IterationChecks(graph, schedule, i) ==
  LET back   == Backward(schedule, i)
      spatial == Len(FlattenSeq(schedule.lanes))
      slices == Len(graph) \div spatial
      turn(s) == IF back THEN Reverse(s) ELSE s
      bases  == CASE schedule.kind = "cyclic"  -> Cyclic(slices, schedule.stride, i, back)
                  [] schedule.kind = "twolane" -> [t \in 1 .. slices |-> t - 1]
                  [] OTHER                     -> turn([t \in 1 .. slices |-> t - 1])
      inSlice == FlattenSeq(turn([g \in DOMAIN schedule.lanes |-> turn(schedule.lanes[g])]))
  IN  FlattenSeq([t \in DOMAIN bases |->
        [k \in 1 .. spatial |-> bases[t] * spatial + inSlice[k] + 1]])

-----------------------------------------------------------------------------
(* gari.py.  types[c] is the type of check c, partitions[c] its partition. *)

\* The places of a sequence that hold one of some values, in order; of types, the
\* checks of some of them.
Positions(s, values) ==
  FoldLeft(LAMBDA kept, k : IF s[k] \in values THEN Append(kept, k) ELSE kept, <<>>, Forward(s))

MainOrder(types) == Positions(types, {"D_X", "D_Z"})

Independent(graph, batch, c) ==
  \A b \in ToSet(batch) : ToSet(graph[b]) \cap ToSet(graph[c]) = {}

\* Mutant: variables are not looked at.
BatchedDependent(graph, partitions, parallelism, batches, c) ==
  IF /\ batches # <<>> /\ Len(Last(batches)) < parallelism
     /\ partitions[Head(Last(batches))] = partitions[c]
  THEN Append(Front(batches), Append(Last(batches), c))
  ELSE Append(batches, <<c>>)

\* The last batch takes the next check while it has room, shares no variable with it and is
\* of the same partition; else the check opens a batch.
Batched(graph, partitions, parallelism, batches, c) ==
  IF /\ batches # <<>> /\ Len(Last(batches)) < parallelism
     /\ Independent(graph, Last(batches), c)
     /\ partitions[Head(Last(batches))] = partitions[c]
  THEN Append(Front(batches), Append(Last(batches), c))
  ELSE Append(batches, <<c>>)

\* auxiliary_batches.
AuxiliaryBatches(graph, types, partitions, parallelism) ==
  FoldLeft(LAMBDA batches, c : Batched(graph, partitions, parallelism, batches, c),
           <<>>, Positions(types, {"U", "V"}))

\* run_gari: main checks, then the auxiliary batches; the serial and the
\* layered main schedule differ in the trace only.
GariOrder(graph, types, partitions, parallelism) ==
  MainOrder(types) \o FlattenSeq(AuxiliaryBatches(graph, types, partitions, parallelism))

-----------------------------------------------------------------------------
(* The decoders side by side on one window, one sweep of each per step.    *)
(* "free" is the wide decoder with stop_on_success off, "batch" one row of *)
(* the batch decoder, which always stops.                                  *)

VARIABLE decode

Decoders == {"fixed", "wide", "free", "batch", "gari", "hybrid"}

WARMUP_ITERATIONS == 2

\* window: graph, prior, target, schedule, types, partitions, parallelism,
\* budget.  Only the hybrid decoder does not test its priors.
StartDecode(window) ==
  LET s == Fresh(window.graph, window.prior)
      met == Met(window.graph, window.target, s)
  IN  [graph |-> window.graph, prior |-> window.prior, target |-> window.target,
       schedule |-> window.schedule, types |-> window.types,
       partitions |-> window.partitions, parallelism |-> window.parallelism,
       budget |-> window.budget,
       phase |-> "warm", warmed |-> 0, sweep |-> 0, offset |-> <<>>,
       runs |-> [n \in Decoders |-> Run(s, 0, met /\ n # "hybrid")]]

\* What a check has told a variable, and what all of them have.
Told(graph, s, c, v) ==
  IF v \in ToSet(graph[c]) THEN s.messages[c][CHOOSE e \in DOMAIN graph[c] : graph[c][e] = v] ELSE 0
Received(graph, s, v) ==
  LET told == [c \in DOMAIN graph |-> Told(graph, s, c, v)]
  IN  MapThenSumSet(LAMBDA c : told[c], DOMAIN graph)

\* run_sum_product_warmup: exactly two box-plus sweeps.
Warm ==
  /\ decode.phase = "warm" /\ decode.warmed < WARMUP_ITERATIONS
  /\ decode' = [decode EXCEPT !.warmed = @ + 1,
       !.runs["hybrid"].state = Sweep(decode.graph, decode.target, "boxplus", @,
                                      Forward(decode.graph))]

\* The conversion; the compressed decoder then tests what it was handed.
Convert ==
  /\ decode.phase = "warm" /\ decode.warmed = WARMUP_ITERATIONS
  /\ LET s == decode.runs["hybrid"].state
         new == Converted(decode.graph, decode.target, s)
     IN  decode' = [decode EXCEPT !.phase = "sweep",
           !.offset = [v \in DOMAIN s.posterior |->
                         s.posterior[v] - Received(decode.graph, new, v)],
           !.runs["hybrid"] = Tested(decode.graph, decode.target, new, 0)]

\* One sweep of one decoder.
SweepOf(name, s, i) ==
  LET g == decode.graph
      y == decode.target
      order == CASE name \in {"fixed", "hybrid"} -> Forward(g)
                 [] name = "gari" -> GariOrder(g, decode.types, decode.partitions,
                                               decode.parallelism)
                 [] OTHER -> IterationChecks(g, decode.schedule, i)
      kernel == CASE name \in {"fixed", "hybrid", "gari"} -> "fixed"
                  [] name = "batch" -> "batch"
                  [] OTHER -> "wide"
  IN  Sweep(g, y, kernel, s, order)

\* A success ends every loop but the free one.
SweepAll ==
  /\ decode.phase = "sweep" /\ decode.sweep < decode.budget
  /\ LET i == decode.sweep + 1
         after(n) ==
           LET r == decode.runs[n]
           IN  IF r.success /\ n # "free" THEN r
               ELSE Tested(decode.graph, decode.target, SweepOf(n, r.state, i), i)
     IN  decode' = [decode EXCEPT !.sweep = i, !.runs = [n \in Decoders |-> after(n)]]

DecodeStep == Warm \/ Convert \/ SweepAll

\* A graph on the variables of the prior, every check of which has a type.
IsWindow(window) ==
  /\ window.graph \in Seq(Seq(DOMAIN window.prior))
  /\ window.types \in Seq({"D_X", "D_Z", "U", "V"}) /\ Len(window.types) = Len(window.graph)

\* The lanes of a slice are its coordinates, and the slices make up the checks.
IsSchedule(schedule, checks) ==
  LET flat == FlattenSeq(schedule.lanes)
  IN  /\ schedule.direction \in Directions /\ schedule.stride \in Nat
      /\ schedule.lanes \in Seq(Seq(Nat))
      /\ flat # <<>> /\ ToSet(flat) = 0 .. Len(flat) - 1 /\ checks % Len(flat) = 0

\* What the decoders do not refuse: bits to meet, checks of two or more different
\* variables, a schedule over them.
IsDecodable(window) ==
  /\ IsWindow(window)
  /\ window.prior \in Seq(Int) /\ window.target \in [DOMAIN window.graph -> 0 .. 1]
  /\ \A c \in DOMAIN window.graph : Len(window.graph[c]) >= 2 /\ IsInjective(window.graph[c])
  /\ IsSchedule(window.schedule, Len(window.graph))

DecodeSpec(window) == decode = StartDecode(window) /\ [][DecodeStep]_decode

-----------------------------------------------------------------------------
(* The promises.                                                           *)

\* No posterior can come near the limits: the base fits, and a message of every check of the
\* variable, and one more.
Degree(graph, v) == Cardinality({c \in DOMAIN graph : v \in ToSet(graph[c])})
Roomy(graph, base) ==
  \A v \in DOMAIN base : Abs(base[v]) + (Degree(graph, v) + 1) * WIDE_MAG_MAX < POSTERIOR_MAX

\* A decoder's posteriors are a base and what the checks say now.
Accounted(name, base) ==
  LET s == decode.runs[name].state
  IN  \A v \in DOMAIN base : s.posterior[v] = base[v] + Received(decode.graph, s, v)

\* After every sweep a success is a hard decision that meets the syndrome, and
\* every schedule has visited every check once.  While nothing saturates the
\* posterior is the prior plus what the checks say now: no check's word is
\* counted twice or left behind, in any order (the hybrid keeps the offset its
\* conversion left).  The GARI order over main checks only is the fixed-point
\* reference, and a row of the batch decoder is the scalar decoder.
RunsAgree ==
  decode.phase = "sweep" =>
    LET r == decode.runs
        checks == IterationChecks(decode.graph, decode.schedule, decode.sweep + 1)
    IN  /\ \A n \in Decoders :
             r[n].success = (SyndromeBits(decode.graph, HardDecision(r[n].state.posterior))
                               = decode.target)
        /\ Len(checks) = Len(decode.graph) /\ ToSet(checks) = DOMAIN decode.graph
        /\ Roomy(decode.graph, decode.prior) => /\ \A n \in Decoders \ {"hybrid"} : Accounted(n, decode.prior)
                                  /\ r["batch"] = r["wide"]
        /\ Roomy(decode.graph, decode.offset) => Accounted("hybrid", decode.offset)
        /\ ToSet(decode.types) \subseteq {"D_X", "D_Z"} => r["gari"] = r["fixed"]

\* The checks of an auxiliary batch may run together: from every state in which the GARI
\* decoder begins a batch, every order of its checks ends in the same state, in which no
\* check of the batch has seen another's update.
BatchesMayRunTogether ==
  decode.phase = "sweep" =>
    LET after(s, checks) == Sweep(decode.graph, decode.target, "fixed", s, checks)
        batches == AuxiliaryBatches(decode.graph, decode.types, decode.partitions,
                                    decode.parallelism)
    IN  \A b \in DOMAIN batches :
          LET start   == after(decode.runs["gari"].state,
                               MainOrder(decode.types) \o FlattenSeq(SubSeq(batches, 1, b - 1)))
              inOrder == after(start, batches[b])
          IN  /\ \A order \in SetToSeqs(ToSet(batches[b])) : after(start, order) = inOrder
              /\ \A c \in ToSet(batches[b]) :
                   inOrder.messages[c] = after(start, <<c>>).messages[c]
=============================================================================

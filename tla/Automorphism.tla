----------------------------- MODULE Automorphism -----------------------------
(***************************************************************************)
(* Automorphism trials: automorphism.py.  From the declared group actions  *)
(* of a graph a few are selected that move the graph's short cycles and    *)
(* trapping sets most differently; they are compiled into a table of       *)
(* permutations, and the ensemble decodes the window once per action.      *)
(*                                                                         *)
(* A graph is a sequence of checks as in LayeredDecoder; an action is a    *)
(* record of two permutations, variables and checks; logicals is the       *)
(* sequence of seed supports.  The catalogue of supports is what a search  *)
(* without its limits (4096 supports, 200000 steps) finds.                 *)
(***************************************************************************)
EXTENDS LayeredDecoder

Moved(f, S) == {f[v] : v \in S}
Identity(n) == [i \in 1 .. n |-> i]
IsPermutation(f) == {f[i] : i \in DOMAIN f} = DOMAIN f
Preserves(graph, action) ==
  \A c \in DOMAIN graph :
    Moved(action.variables, ToSet(graph[c])) = ToSet(graph[action.checks[c]])

\* _logical_action; of equal supports the last is found.
LogicalImage(logicals, variables) ==
  [i \in DOMAIN logicals |->
     Max({0} \cup {j \in DOMAIN logicals : logicals[j] = Moved(variables, logicals[i])})]

\* What _validate_trial and _logical_action let through.
Allowed(graph, logicals, action) ==
  Preserves(graph, action) /\ IsPermutation(LogicalImage(logicals, action.variables))

-----------------------------------------------------------------------------
(* The supports an action is judged by.                                    *)

\* p, q: the variables and the checks of a cycle, in turn.
IsCycle(graph, p, q) ==
  \A i \in DOMAIN p : {p[i], p[(i % Len(p)) + 1]} \subseteq ToSet(graph[q[i]])

\* _short_cycle_supports: a cycle is found from its least variable.
CycleSupports(graph, variables, longest) ==
  LET closes(S) ==
        LET k == Cardinality(S)
        IN  \E q \in [1 .. k -> {c \in DOMAIN graph : Cardinality(S \cap ToSet(graph[c])) >= 2}] :
              IsInjective(q) /\ \E rest \in SetToSeqs(S \ {Min(S)}) :
                                  IsCycle(graph, <<Min(S)>> \o rest, q)
  IN  {S \in UNION {kSubset(k, variables) : k \in 2 .. longest \div 2} : closes(S)}

OddChecks(graph, S) ==
  Cardinality({c \in DOMAIN graph : Cardinality(S \cap ToSet(graph[c])) % 2 = 1})

\* _small_trapping_set_supports: grown from the cycles (without one, from the
\* pairs on a check), one neighbour at a time.
TrappingSupports(graph, cycles, largest) ==
  LET seeds == IF cycles # {} THEN cycles
               ELSE UNION {kSubset(2, ToSet(graph[c])) : c \in DOMAIN graph}
      near(S) == UNION {ToSet(graph[c]) : c \in {d \in DOMAIN graph : ToSet(graph[d]) \cap S # {}}}
      grow(family, i) == family \cup UNION {{S \cup {v} : v \in near(S) \ S} :
                                              S \in {T \in family : Cardinality(T) < largest}}
      grown == FoldLeft(grow, {S \in seeds : Cardinality(S) <= largest}, Identity(largest))
  IN  {S \in grown : OddChecks(graph, S) \in 1 .. Cardinality(S)}

Supports(graph, variables, longest, largest) ==
  LET cycles == CycleSupports(graph, variables, longest)
  IN  cycles \cup TrappingSupports(graph, cycles, largest)

-----------------------------------------------------------------------------
(* select_decorrelated_group_trials.                                       *)

\* Sequences of numbers in dictionary order; the identity is the least permutation.
Precedes(p, q) == \E k \in DOMAIN p : p[k] < q[k] /\ \A j \in 1 .. k - 1 : p[j] = q[j]
ActionBefore(a, b) ==
  Precedes(a.variables, b.variables) \/ (a.variables = b.variables /\ Precedes(a.checks, b.checks))

\* _declared_group_actions: the identity and the declared actions, once each.
DeclaredActions(graph, size, declared) ==
  LET all == declared \cup {[variables |-> Identity(size), checks |-> Identity(Len(graph))]}
  IN  [k \in 1 .. Cardinality(all) |->
         CHOOSE a \in all : Cardinality({b \in all : ActionBefore(b, a)}) = k - 1]

\* _support_coset_representatives: the first of the actions that move the
\* supports alike.
Representatives(actions, supports) ==
  LET alike(i, j) == \A v \in UNION supports : actions[i].variables[v] = actions[j].variables[v]
      first == SelectSeq(Identity(Len(actions)), LAMBDA i : \A j \in 1 .. i - 1 : ~alike(i, j))
  IN  [k \in DOMAIN first |-> actions[first[k]]]

\* _pairwise_decorrelation_units: places of supports that two actions move apart.
Decorrelation(supports, a, b) ==
  MapThenSumSet(LAMBDA S : Cardinality({v \in S : a.variables[v] # b.variables[v]}), supports)

Matrix(actions, supports) ==
  [ij \in (DOMAIN actions) \X (DOMAIN actions) |->
     Decorrelation(supports, actions[ij[1]], actions[ij[2]])]

\* _find_clique: the first of the pool that can be completed; {} for None.
RECURSIVE Clique(_, _, _, _)
Clique(matrix, threshold, pool, needed) ==
  IF needed = 0 THEN {<<>>}
  ELSE LET tails == [k \in DOMAIN pool |->
             Clique(matrix, threshold,
                    SelectSeq(SubSeq(pool, k + 1, Len(pool)),
                              LAMBDA o : matrix[<<pool[k], o>>] >= threshold), needed - 1)]
           hits == {k \in DOMAIN pool : tails[k] # {}}
       IN  IF Len(pool) < needed \/ hits = {} THEN {}
           ELSE {<<pool[Min(hits)]>> \o tail : tail \in tails[Min(hits)]}

\* _find_threshold_clique: the identity is in the clique.
ThresholdClique(matrix, threshold, size, count) ==
  {<<1>> \o tail : tail \in
     Clique(matrix, threshold,
            SelectSeq(Identity(size), LAMBDA i : i > 1 /\ matrix[<<1, i>>] >= threshold), count - 1)}

\* The search ends when one threshold is left to try.
RECURSIVE BestCliqueEarly(_, _, _, _, _)
BestCliqueEarly(matrix, thresholds, range, count, best) ==
  IF range[1] >= range[2] THEN best
  ELSE LET middle == (range[1] + range[2]) \div 2
           size == Cardinality({ij \in DOMAIN matrix : ij[1] = 1})
           found == ThresholdClique(matrix, thresholds[middle], size, count)
       IN  IF found = {} THEN BestCliqueEarly(matrix, thresholds, <<range[1], middle - 1>>, count, best)
           ELSE BestCliqueEarly(matrix, thresholds, <<middle + 1, range[2]>>, count, found)

\* _maximin_group_selection: a binary search over the decorrelations that occur.
RECURSIVE BestClique(_, _, _, _, _)
BestClique(matrix, thresholds, range, count, best) ==
  IF range[1] > range[2] THEN best
  ELSE LET middle == (range[1] + range[2]) \div 2
           size == Cardinality({ij \in DOMAIN matrix : ij[1] = 1})
           found == ThresholdClique(matrix, thresholds[middle], size, count)
       IN  IF found = {} THEN BestClique(matrix, thresholds, <<range[1], middle - 1>>, count, best)
           ELSE BestClique(matrix, thresholds, <<middle + 1, range[2]>>, count, found)

MaximinSelection(actions, supports, count) ==
  IF count = 1 THEN {<<1>>}
  ELSE LET matrix == Matrix(actions, supports)
           values == {matrix[ij] : ij \in {p \in DOMAIN matrix : p[1] < p[2]}}
           thresholds == SetToSortSeq(values, <)
       IN  BestClique(matrix, thresholds, <<1, Len(thresholds)>>, count, {})

\* The chosen actions, none if the selection is refused.
Selected(graph, size, logicals, declared, count, longest, largest) ==
  LET supports == Supports(graph, 1 .. size, longest, largest)
      reps == Representatives(DeclaredActions(graph, size, declared), supports)
      refused == \/ supports = {} \/ declared = {}
                 \/ \E a \in declared : ~Allowed(graph, logicals, a)
                 \/ Len(reps) < count
      chosen == IF refused THEN {} ELSE MaximinSelection(reps, supports, count)
  IN  {[k \in DOMAIN c |-> reps[c[k]]] : c \in chosen}

-----------------------------------------------------------------------------
(* compile_automorphism_trials and the action table.                       *)

Compiled1(logicals, action) ==
  [variables |-> action.variables, variableInverse |-> AntiFunction(action.variables),
   checks |-> action.checks, checkInverse |-> AntiFunction(action.checks),
   logicals |-> LogicalImage(logicals, action.variables)]

\* _validate_compiled_action.
CompiledIsValid(graph, logicals, entry) ==
  /\ Preserves(graph, entry)
  /\ \A v \in DOMAIN entry.variables : entry.variableInverse[entry.variables[v]] = v
  /\ \A c \in DOMAIN entry.checks : entry.checkInverse[entry.checks[c]] = c
  /\ entry.logicals = LogicalImage(logicals, entry.variables)

\* The bits of the largest number below n, at least one.
FieldWidth(n) == Min({w \in 1 .. 16 : n <= 2^w})
FieldBytes(n) == (n * FieldWidth(n) + 7) \div 8

\* _pack_table_values: the bit positions set, values counted from 0.
PackField(values) ==
  LET width == FieldWidth(Len(values))
  IN  {p \in 0 .. Len(values) * width - 1 :
         ((values[(p \div width) + 1] - 1) \div 2^(p % width)) % 2 = 1}
UnpackField(bits, n) ==
  [i \in 1 .. n |->
     1 + MapThenSumSet(LAMBDA b : 2^b,
           {b \in 0 .. FieldWidth(n) - 1 : (i - 1) * FieldWidth(n) + b \in bits})]

\* The five fields of a record, each on whole bytes: starts[k] is where field k begins.
Sizes(graph, size, logicals) == <<size, size, Len(graph), Len(graph), Len(logicals)>>
Starts(sizes) ==
  [k \in DOMAIN sizes |-> FoldLeft(LAMBDA sum, j : sum + 8 * FieldBytes(sizes[j]), 0,
                                   Identity(k - 1))]

PackRecord(sizes, entry) ==
  LET fields == <<entry.variables, entry.variableInverse, entry.checks, entry.checkInverse,
                  entry.logicals>>
  IN  UNION {{Starts(sizes)[k] + p : p \in PackField(fields[k])} : k \in DOMAIN fields}
UnpackRecord(sizes, bits) ==
  LET field(k) == UnpackField({p - Starts(sizes)[k] :
                                 p \in {q \in bits : q >= Starts(sizes)[k]
                                             /\ q < Starts(sizes)[k] + 8 * FieldBytes(sizes[k])}},
                              sizes[k])
  IN  [variables |-> field(1), variableInverse |-> field(2), checks |-> field(3),
       checkInverse |-> field(4), logicals |-> field(5)]

-----------------------------------------------------------------------------
(* run_automorphism_ensemble.  A trial is an action with its id, whether   *)
(* it is enabled and a perturbation of the priors (<<>> for none).         *)

\* transform_graph: old numbers become new ones; a row keeps its order.
Transformed(graph, action) ==
  [n \in DOMAIN graph |->
     LET old == graph[AntiFunction(action.checks)[n]]
     IN  [e \in DOMAIN old |-> action.variables[old[e]]]]

\* A table indexed by old numbers, by new ones: apply_variable_action.
Carried(table, permutation) == [n \in DOMAIN table |-> table[AntiFunction(permutation)[n]]]

\* _transform_prior.
TrialPrior(prior, trial) ==
  LET moved == Carried(prior, trial.variables)
  IN  IF trial.perturbation = <<>> THEN moved
      ELSE [v \in DOMAIN moved |-> moved[v] + trial.perturbation[v]]

\* The decoder of a trial: the whole-number reference, or the hybrid decoder
\* the release workflow passes in.
Warmed(graph, target, prior) ==
  FoldLeft(LAMBDA s, i : Sweep(graph, target, "boxplus", s, Forward(graph)),
           Fresh(graph, prior), Identity(WARMUP_ITERATIONS))
TrialDecode(decoder, graph, prior, target, budget) ==
  IF decoder = "float"
  THEN Decoding(graph, target, "float", [Fresh(graph, prior) EXCEPT !.posterior = prior],
               [i \in 1 .. budget |-> Forward(graph)])
  ELSE [Decoding(graph, target, "fixed",
                 Converted(graph, target, Forced(Warmed(graph, target, prior))),
                 [i \in 1 .. budget |-> Forward(graph)])
          EXCEPT !.iterations = @ + WARMUP_ITERATIONS]

\* _inverse_correction: the old numbers of the variables set.
Back(correction, variables) == {v \in DOMAIN variables : variables[v] \in correction}

Weigh(prior, word) == MapThenSumSet(LAMBDA v : prior[v], word)

\* What one trial answers, judged by make_candidate on the original window.
Judgement(graph, prior, target, trial, r) ==
  LET word == Back(HardDecision(r.state.posterior), trial.variables)
      valid == SyndromeBits(graph, word) = target
  IN  [id |-> trial.id, word |-> word, decoded |-> HardDecision(r.state.posterior),
       success |-> r.success, accepted |-> r.success /\ valid,
       score |-> Weigh(prior, word), work |-> r.iterations * Len(graph)]
TrialAnswer(graph, prior, target, decoder, budget, trial) ==
  Judgement(graph, prior, target, trial,
            TrialDecode(decoder, Forced(Transformed(graph, trial)),
                        Forced(TrialPrior(prior, trial)), Forced(Carried(target, trial.checks)),
                        budget))

Disabled(trial) ==
  [id |-> trial.id, word |-> {}, decoded |-> {}, success |-> FALSE, accepted |-> FALSE,
   score |-> 0, work |-> 0]

\* bound: a set with the early-stop score, or empty.
Ensemble(graph, prior, target, decoder, budget, trials, bound) ==
  LET taken(s, a) == [answers |-> Append(s.answers, a), work |-> s.work + a.work,
                      stopped |-> a.accepted /\ \E b \in bound : a.score <= b]
      run(s, trial) ==
        IF s.stopped THEN s
        ELSE taken(s, IF trial.enabled
                      THEN TrialAnswer(graph, prior, target, decoder, budget, trial)
                      ELSE Disabled(trial))
  IN  FoldLeft(run, [answers |-> <<>>, work |-> 0, stopped |-> FALSE], trials)

\* select_best: the least score, then the least trial.
BestAnswer(answers) ==
  LET accepted == {i \in DOMAIN answers : answers[i].accepted}
      before(i, j) == \/ answers[i].score < answers[j].score
                      \/ answers[i].score = answers[j].score /\ answers[i].id <= answers[j].id
  IN  {answers[i] : i \in {k \in accepted : \A j \in accepted : before(k, j)}}

-----------------------------------------------------------------------------
(* The promises.                                                           *)

\* The search finds what trying every set of actions would: a selection is
\* refused only for lack of supports, actions or classes, it starts with the
\* identity, and no other choice with the identity keeps its members further
\* apart.  The table gives back the actions that were packed.
SelectionIsMaximin(graph, size, logicals, declared, count, longest, largest) ==
  LET chosen == Selected(graph, size, logicals, declared, count, longest, largest)
      supports == Supports(graph, 1 .. size, longest, largest)
      identity == [variables |-> Identity(size), checks |-> Identity(Len(graph))]
      actions == declared \cup {identity}
      worst(S) == Min({Decorrelation(supports, p[1], p[2]) : p \in {q \in S \X S : q[1] # q[2]}})
      sizes == Sizes(graph, size, logicals)
      classes == {[v \in UNION supports |-> a.variables[v]] : a \in actions}
  IN  /\ (chosen = {}) = (\/ supports = {} \/ declared = {} \/ Cardinality(classes) < count
                          \/ \E a \in declared : ~Allowed(graph, logicals, a))
      /\ \A trials \in chosen :
           /\ trials[1] = identity /\ Len(trials) = count
           /\ count > 1 =>
                /\ worst(ToSet(trials)) > 0
                /\ \A others \in kSubset(count - 1, actions \ {identity}) :
                     worst(others \cup {identity}) <= worst(ToSet(trials))
           /\ \A k \in DOMAIN trials :
                LET entry == Compiled1(logicals, trials[k])
                IN  /\ CompiledIsValid(graph, logicals, entry)
                    /\ UnpackRecord(sizes, PackRecord(sizes, entry)) = entry

\* Decoding in a moved graph answers the window that was asked: the moved
\* graph has the checks of the graph, a trial is accepted exactly if its
\* decoder succeeded, and its logical bits are those of the decoded word
\* under the compiled permutation.  The ensemble never does worse than the
\* plain decoder, and unless it stops early at its bound it answers with the
\* cheapest word any trial found.
RunIsSound(graph, logicals, prior, trials, bound, run, plain) ==
  LET best == BestAnswer(run.answers)
      parity(S, i) == Cardinality(S \cap logicals[i]) % 2
  IN  /\ \A k \in DOMAIN run.answers :
           LET a == run.answers[k]
               permuted == Compiled1(logicals, trials[k]).logicals
           IN  /\ {ToSet(Transformed(graph, trials[k])[c]) : c \in DOMAIN graph}
                    = {ToSet(graph[c]) : c \in DOMAIN graph}
               /\ a.accepted = a.success
               /\ \A i \in DOMAIN logicals : parity(a.word, i) = parity(a.decoded, permuted[i])
      /\ run.work = MapThenSumSet(LAMBDA k : run.answers[k].work, DOMAIN run.answers)
      /\ trials[1].enabled /\ trials[1].perturbation = <<>> /\ plain.success =>
           \A a \in best : a.score <= Weigh(prior, HardDecision(plain.state.posterior))
      /\ (best = {}) = (\A k \in DOMAIN run.answers : ~run.answers[k].accepted)
      /\ Len(run.answers) < Len(trials) =>
           \E a \in best, b \in bound : a.score <= b
      /\ \A a \in best, k \in DOMAIN run.answers :
           run.answers[k].accepted => a.score <= run.answers[k].score
EnsembleIsSound(graph, logicals, prior, target, decoder, budget, trials, bound) ==
  RunIsSound(graph, logicals, prior, trials, bound,
             Ensemble(graph, prior, target, decoder, budget, trials, bound),
             TrialDecode(decoder, graph, prior, target, budget))
=============================================================================

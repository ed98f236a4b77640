------------------------------ MODULE StreamedS2 ------------------------------
(***************************************************************************)
(* The S2 decoders over a compiled template image: the causal pass that    *)
(* keeps only the live faults (S2C), the flooding Relay tail with logical- *)
(* neutral completion (S2R), its retained-posterior legs and its bridge    *)
(* retries (paper_gross144_stage2.py).                                     *)
(*                                                                         *)
(* A correction is the set of the fault addresses it flips, a target the   *)
(* set of the detectors that fired.                                        *)
(***************************************************************************)
EXTENDS LayeredDecoder, QuotientImage, NeutralCompletion

Addresses(image) == 0 .. image.orbits * GroupOrder - 1
OrbitPrior(image, a) == image.prior[a \div GroupOrder]
Bit(set, x) == IF x \in set THEN 1 ELSE 0
Row(image, d) == CompactNeighbors(image, SliceOf(d), d % GroupOrder)

LOGICALS == 12

\* The logical observables a mask names: its bits.
Observables(mask) == {k \in 0 .. LOGICALS - 1 : (mask \div 2^k) % 2 = 1}

LogicalMasks(image) ==
  [a \in Addresses(image) |-> Observables(LogicalMask(image, a \div GroupOrder, a % GroupOrder))]

\* _compact_logicals: the exclusive or of the masks of the flipped faults, that
\* is the observables an odd number of them names.
LogicalWord(masks, correction) ==
  {k \in 0 .. LOGICALS - 1 : Odd({a \in correction : k \in masks[a]})}

-----------------------------------------------------------------------------
(* S2C: run_streamed_s2.                                                   *)

Born(image, t) == {a \in Addresses(image) : image.start[a \div GroupOrder] = t}
\* Mutant: a fault retires one slice before its last.
DyingEarly(image, t) ==
  {a \in Addresses(image) : Max({image.start[a \div GroupOrder], image.end[a \div GroupOrder] - 1}) = t}

Dying(image, t) == {a \in Addresses(image) : image.end[a \div GroupOrder] = t}

Admit(image, live, t) ==
  [a \in Born(image, t) \cup DOMAIN live |-> IF a \in Born(image, t) THEN OrbitPrior(image, a) ELSE live[a]]

\* One check, visited once: the live values of its faults are its input.
StreamCheck(image, target, live, d) ==
  LET row == Row(image, d)
      out == WideCheckUpdate([e \in DOMAIN row |-> live[row[e]]], Bit(target, d))
  IN  [a \in DOMAIN live |->
         IF a \in ToSet(row)
         THEN SatAdd(live[a], out[CHOOSE e \in DOMAIN row : row[e] = a])
         ELSE live[a]]

Retire(image, s, dying) ==
  LET flipped == {a \in dying : s.live[a] < 0}
  IN  [s EXCEPT !.live = Restrict(@, DOMAIN @ \ dying),
                !.correction = @ \cup flipped,
                !.logicals = SymDiff(@, LogicalWord(LogicalMasks(image), flipped))]

\* A row reads only faults that are live: anything else is a KeyError.
StreamSlice(image, target, s, t) ==
  LET admitted == Admit(image, s.live, t)
      ds == [c \in 1 .. GroupOrder |-> t * GroupOrder + c - 1]
      readable == UNION {ToSet(Row(image, ds[c])) : c \in DOMAIN ds} \subseteq DOMAIN admitted
  IN  IF s.failed \/ ~readable THEN [s EXCEPT !.failed = TRUE]
      ELSE Retire(image,
             [s EXCEPT !.live = FoldLeft(LAMBDA live, d : StreamCheck(image, target, live, d),
                                         admitted, ds),
                       !.peak = Max({@, Cardinality(DOMAIN admitted)})],
             Dying(image, t))

\* A quiet target is answered without a pass.
RunStreamed(image, target) ==
  LET idle == [live |-> <<>>, correction |-> {}, logicals |-> {}, peak |-> 0, failed |-> FALSE]
      result(s) == [failed |-> s.failed \/ DOMAIN s.live # {}, correction |-> s.correction,
                    logicals |-> s.logicals, peak |-> s.peak,
                    accepted |-> CompactSyndrome(image, s.correction) = target]
  IN  result(IF target = {} THEN idle
             ELSE FoldLeft(LAMBDA r, t : StreamSlice(image, target, r, t - 1),
                           idle, [t \in 1 .. Slices |-> t]))

\* What the image says of the memory the pass needs: max_live_variables.
MaxLive(image) ==
  Max({GroupOrder * Cardinality({o \in 0 .. image.orbits - 1 : t \in image.start[o] .. image.end[o]})
         : t \in Times})

-----------------------------------------------------------------------------
(* S2R: run_streamed_s2_relay.  A profile is a configuration: iterations,  *)
(* limit (the message magnitude), start and interval of the screening      *)
(* (start 0: none), dither[a] added to the prior of a, and the memory      *)
(* weight memory[a] out of divisor (a power of two, or Q7 per fault).      *)

\* The image as the completion reads it.
Columns(image) ==
  [checks  |-> Slices * GroupOrder,
   columns |-> [a \in Addresses(image) |-> {d \in Detectors : a \in ToSet(Row(image, d))}],
   neutral |-> {a \in Addresses(image) : LogicalMasks(image)[a] = {}}]

\* What a tail keeps of an image: its columns, _compact_edge_faults, the repeated
\* priors, the logical masks and the compiled forest.
Expand(image) ==
  [image  |-> Columns(image),
   rows   |-> [d \in Detectors |-> Row(image, d)],
   prior  |-> [a \in Addresses(image) |-> OrbitPrior(image, a)],
   masks  |-> LogicalMasks(image),
   forest |-> Compiled(Columns(image))]

\* Half, rounded away from zero.
Halve(x) == IF x >= 0 THEN (x + 1) \div 2 ELSE -((1 - x) \div 2)
Clip(x, limit) == IF x > limit THEN limit ELSE IF x < -limit THEN -limit ELSE x

\* The messages fault a is sent.
Inbox(x, messages, a) ==
  MapThenSumSet(LAMBDA d : messages[d][CHOOSE e \in DOMAIN x.rows[d] : x.rows[d][e] = a],
                x.image.columns[a])

HardFaults(posterior) == {a \in DOMAIN posterior : posterior[a] < 0}

FloodStep(x, target, profile, s) ==
  LET prior(a) == x.prior[a] + profile.dither[a]
      proposed(d) ==
        FloodCheckUpdate([e \in DOMAIN x.rows[d] |->
                            s.posterior[x.rows[d][e]] - s.messages[d][e]],
                         Bit(target, d), profile.limit)
      messages == [d \in Detectors |->
                     LET new == proposed(d)
                     IN  [e \in DOMAIN new |->
                            Clip(Halve(s.messages[d][e] + new[e]), profile.limit)]]
      memory(a) == ((profile.divisor - profile.memory[a]) * prior(a)
                      + profile.memory[a] * s.posterior[a]) \div profile.divisor
  IN  [messages |-> messages,
       posterior |-> [a \in DOMAIN x.prior |-> Saturate(memory(a) + Inbox(x, messages, a))]]

Cost(x, correction) == MapThenSumSet(LAMBDA a : x.prior[a], correction)

RelayResult(x, target, correction, flips, iterations, attempts, how) ==
  [accepted |-> SyndromeOf(x.image, correction) = target, correction |-> correction,
   flips |-> flips, iterations |-> iterations, attempts |-> attempts, how |-> how,
   cost |-> Cost(x, correction)]

Screens(profile, i) ==
  profile.start > 0 /\ i >= profile.start /\ (i - profile.start) % profile.interval = 0

\* The last iteration is screened with the plain tree only.
TerminalCompletionTree(x, residual) ==
  TreeCompletion(x.image, x.forest, residual)

TerminalCompletion(x, residual) ==
  BridgedCompletion(x.image, x.forest, residual)

\* A completion is taken only if the completed word meets the target.
Repairs(x, residual, done) ==
  IF done.stuck THEN FALSE ELSE SyndromeOf(x.image, done.flips) = residual

-----------------------------------------------------------------------------
(* One image after the other: run_streamed_s2_relay inside                 *)
(* run_streamed_s2_relay_bridge_retry_portfolio.  An iteration is a step;  *)
(* results holds the answers of the images that ended.                     *)

VARIABLE tail

Profile == tail.profiles[Len(tail.results) + 1]
Hard    == HardFaults(tail.posterior)
Residual(x, correction) == SymDiff(SyndromeOf(x.image, correction), tail.target)

FreshImage(x, profile) ==
  [posterior |-> [a \in DOMAIN x.prior |-> x.prior[a] + profile.dither[a]],
   messages  |-> [d \in Detectors |-> [e \in DOMAIN x.rows[d] |-> 0]]]

\* An image is only started for a target that is not quiet.
StartTail(x, target, profiles) ==
  LET first == FreshImage(x, Head(profiles))
  IN  [phase |-> IF target = {} THEN "quiet" ELSE "iterate", x |-> x, target |-> target,
       profiles |-> profiles, results |-> <<>>, iteration |-> 0, attempts |-> 0,
       posterior |-> first.posterior, messages |-> first.messages]

\* An image has answered: the next one runs only after a bridged answer.
Answer(result, posterior, messages) ==
  LET results == Append(tail.results, result)
      more == result.how = "bridged" /\ Len(results) < Len(tail.profiles)
      next == FreshImage(tail.x, tail.profiles[IF more THEN Len(results) + 1 ELSE 1])
  IN  IF more
      THEN [tail EXCEPT !.results = results, !.iteration = 0, !.attempts = 0,
                        !.posterior = next.posterior, !.messages = next.messages]
      ELSE [tail EXCEPT !.results = results, !.phase = "select",
                        !.posterior = posterior, !.messages = messages]

\* One iteration: flood, test, and where the schedule says so try the tree.
Iterate ==
  /\ tail.phase = "iterate" /\ tail.iteration < Profile.iterations
  /\ LET x == tail.x
         i == tail.iteration + 1
         flood == FloodStep(x, tail.target, Profile, [posterior |-> tail.posterior,
                                                      messages |-> tail.messages])
         hard == HardFaults(flood.posterior)
         residual == Residual(x, hard)
         tree == TreeCompletion(x.image, x.forest, residual)
         attempts == tail.attempts + (IF Screens(Profile, i) THEN 1 ELSE 0)
     IN  tail' = IF residual = {}
                 THEN Answer(RelayResult(x, tail.target, hard, {}, i, tail.attempts, "converged"),
                             flood.posterior, flood.messages)
                 ELSE IF Screens(Profile, i) /\ Repairs(x, residual, tree)
                 THEN Answer(RelayResult(x, tail.target, SymDiff(hard, tree.flips), tree.flips,
                                         i, attempts, "early"), flood.posterior, flood.messages)
                 ELSE [tail EXCEPT !.iteration = i, !.attempts = attempts,
                                   !.posterior = flood.posterior, !.messages = flood.messages]

\* The budget is spent: the bridge, and otherwise a deferral.  The completion
\* is not counted when the tree has just seen the same residual.
Terminal ==
  /\ tail.phase = "iterate" /\ tail.iteration = Profile.iterations
  /\ LET x == tail.x
         i == Profile.iterations
         residual == Residual(x, Hard)
         done == TerminalCompletion(x, residual)
         attempts == tail.attempts + (IF Screens(Profile, i) THEN 0 ELSE 1)
     IN  tail' = IF Repairs(x, residual, done)
                 THEN Answer(RelayResult(x, tail.target, SymDiff(Hard, done.flips), done.flips,
                                         i, attempts, "bridged"), tail.posterior, tail.messages)
                 ELSE Answer(RelayResult(x, tail.target, Hard, {}, i, attempts, "deferred"),
                             tail.posterior, tail.messages)

Quiet ==
  /\ tail.phase = "quiet"
  /\ tail' = [tail EXCEPT !.phase = "select",
                          !.results = <<RelayResult(tail.x, {}, {}, {}, 0, 0, "quiet")>>]

\* select_streamed_s2_relay_bridge_retry_candidate; min keeps the first.
Rank(r) == <<IF r.how = "bridged" THEN 1 ELSE 0, r.cost, Cardinality(r.correction)>>

Ranked(p, q) == \E k \in 1 .. 3 : p[k] < q[k] /\ \A j \in 1 .. k - 1 : p[j] = q[j]

Best(results) == FoldLeft(LAMBDA b, r : IF Ranked(Rank(r), Rank(b)) THEN r ELSE b,
                          Head(results), Tail(results))

Accepted(results) ==
  FoldLeft(LAMBDA found, r : IF r.accepted THEN Append(found, r) ELSE found, <<>>, results)

\* The selection once left the primary out whenever a retry had run.
ChosenRetry(results) ==
  LET accepted == Accepted(Tail(results))
  IN  IF Len(results) = 1 \/ accepted = <<>> THEN Head(results) ELSE Best(accepted)

Chosen(results) ==
  LET accepted == Accepted(results)
  IN  IF Len(results) = 1 \/ accepted = <<>> THEN Head(results) ELSE Best(accepted)

SelectAnswer ==
  /\ tail.phase = "select"
  /\ tail' = [phase |-> "done", x |-> tail.x, target |-> tail.target,
              profiles |-> tail.profiles, results |-> tail.results, chosen |-> Chosen(tail.results)]

\* streamed_s2_relay_cycle_plan: the completions the cycle floor charges.
PlannedAttempts(profile) ==
  LET screened == IF profile.start = 0 \/ profile.start > profile.iterations THEN 0
                  ELSE 1 + (profile.iterations - profile.start) \div profile.interval
      terminal == profile.start > 0 /\ profile.start <= profile.iterations
                  /\ (profile.iterations - profile.start) % profile.interval = 0
  IN  screened + (IF terminal THEN 0 ELSE 1)

-----------------------------------------------------------------------------
(* run_streamed_s2_relay_lite: legs that keep the posterior of the leg     *)
(* before.  gammas[k] is the memory weight (Q7) of leg k per fault and     *)
(* budgets[k] its iterations.                                              *)

INT16_MAX == 32767                       \* the legs' messages are 16-bit, not clipped
RELAY_SOLUTIONS == 3                     \* exact words that end the legs

TowardZero(n, d) == IF n >= 0 THEN n \div d ELSE -((-n) \div d)
Silent(x) == [d \in Detectors |-> [e \in DOMAIN x.rows[d] |-> 0]]

StartLegs(x, target, gammas, budgets) ==
  [phase |-> IF target = {} THEN "rest" ELSE "leg", x |-> x, target |-> target,
   gammas |-> gammas, budgets |-> budgets, leg |-> 1, local |-> 0, iteration |-> 0, met |-> 0,
   best |-> <<>>, posterior |-> [a \in DOMAIN x.prior |-> 32 * x.prior[a]],
   messages |-> Silent(x)]

\* The first iteration of a later leg listens to the priors alone.
LegStep ==
  LET x == tail.x
      prior(a) == 32 * x.prior[a]
      heard(d, e) == IF tail.leg > 1 /\ tail.local = 0 THEN prior(x.rows[d][e])
                     ELSE tail.posterior[x.rows[d][e]] - tail.messages[d][e]
      messages == [d \in Detectors |->
                     FloodCheckUpdate([e \in DOMAIN x.rows[d] |-> heard(d, e)],
                                      Bit(tail.target, d), INT16_MAX)]
      gamma == tail.gammas[tail.leg]
  IN  [messages |-> messages,
       posterior |-> [a \in DOMAIN x.prior |->
         Clip(TowardZero(prior(a), 128) * (128 - gamma[a])
                + TowardZero(tail.posterior[a], 128) * gamma[a]
                + Inbox(x, messages, a), 2047)]]

Better(x, word, best) ==
  \/ best = <<>>
  \/ Cost(x, word) < Cost(x, best[1])
  \/ Cost(x, word) = Cost(x, best[1]) /\ Cardinality(word) < Cardinality(best[1])

\* A leg ends on a word that meets the target or with its budget; its messages
\* are cleared, its posterior is kept.
LegIterate ==
  /\ tail.phase = "leg"
  /\ LET n == LegStep
         word == HardFaults(n.posterior)
         met == SyndromeOf(tail.x.image, word) = tail.target
         ends == met \/ tail.local + 1 = tail.budgets[tail.leg]
         found == tail.met + (IF met THEN 1 ELSE 0)
         over == ends /\ (found >= RELAY_SOLUTIONS \/ tail.leg = Len(tail.gammas))
     IN  tail' = [tail EXCEPT
           !.posterior = n.posterior, !.iteration = @ + 1, !.met = found,
           !.messages = IF ends THEN Silent(tail.x) ELSE n.messages,
           !.best = IF met /\ Better(tail.x, word, @) THEN <<word>> ELSE @,
           !.local = IF ends THEN 0 ELSE @ + 1,
           !.leg = IF ends /\ ~over THEN @ + 1 ELSE @,
           !.phase = IF over THEN "rest" ELSE @]

\* What the legs answer: the cheapest exact word, or the last word.
LegsWord == IF tail.best # <<>> THEN tail.best[1] ELSE Hard

TailStep == Iterate \/ Terminal \/ Quiet \/ SelectAnswer \/ LegIterate

\* One answer of the tail: a target decoded under a primary profile and its retries.
TailSpec(x, target, profiles) ==
  tail = StartTail(x, target, profiles) /\ [][TailStep]_tail

-----------------------------------------------------------------------------
(* The promises.                                                           *)

\* The compressed pass is one forward sweep of the wide decoder over the whole
\* error model: retiring a fault at the end of its lifetime loses nothing, no
\* row reads a fault that is not live, the live table never outgrows what the
\* image states, and the logical word gathered on retirement is that of the
\* correction.
PassMatchesSweep(image, target) ==
  LET graph == [n \in 1 .. Slices * GroupOrder |->
                  LET row == Row(image, n - 1) IN [e \in DOMAIN row |-> row[e] + 1]]
      prior == [n \in 1 .. image.orbits * GroupOrder |-> OrbitPrior(image, n - 1)]
      bits  == [n \in 1 .. Slices * GroupOrder |-> Bit(target, n - 1)]
      sweep == Sweep(graph, bits, "wide", Fresh(graph, prior), Forward(graph))
      pass  == RunStreamed(image, target)
  IN  image.accepted =>
        /\ ~pass.failed
        /\ pass.peak <= MaxLive(image)
        /\ pass.logicals = LogicalWord(LogicalMasks(image), pass.correction)
        /\ target # {} => pass.correction = {v - 1 : v \in HardDecision(sweep.posterior)}
StreamMatchesSweep(dem, target) == PassMatchesSweep(Compile(dem), target)

\* What the compiler and the pass do not refuse: every fault moves a detector, a prior is a
\* rounded and limited likelihood ratio of a fault that is rather absent, and a check has two
\* faults or more.
IsStream(dem, target) ==
  /\ dem \in Models(0 .. POSTERIOR_MAX) /\ target \in SUBSET Detectors
  /\ \A v \in DOMAIN dem : dem[v].mask # {}
  /\ \A d \in Detectors : Cardinality({v \in DOMAIN dem : d \in dem[v].mask}) >= 2

\* A tail that defers has left a residual that no set of neutral faults
\* explains; what it repairs keeps the logical word of the word it repaired;
\* it never spends more completions than the cycle plan charges, and all of
\* them when it runs to the end.
DeferralIsFinal ==
  tail.phase \in {"iterate", "select", "done"} =>
    LET word(correction) == LogicalWord(tail.x.masks, correction)
    IN  \A k \in DOMAIN tail.results :
          LET r == tail.results[k]
          IN  /\ ~r.accepted => Residual(tail.x, r.correction) \notin Repairable(tail.x.image)
              /\ r.how \in {"early", "bridged"} =>
                   r.accepted /\ word(r.correction) = word(SymDiff(r.correction, r.flips))
              /\ r.attempts <= PlannedAttempts(tail.profiles[k])
              /\ r.how \in {"bridged", "deferred"} =>
                   r.attempts = PlannedAttempts(tail.profiles[k])

\* The retries never cost the answer: the portfolio answers exactly when its
\* primary image does, with a bridged word only if every image that answered
\* needed the bridge, and never trades the primary's word for a costlier one
\* of the same kind.
RetriesNeverRegress ==
  tail.phase = "done" =>
    LET primary == Head(tail.results)
        bridged(r) == r.how = "bridged"
    IN  /\ tail.chosen.accepted = primary.accepted
        /\ bridged(tail.chosen) => \A k \in DOMAIN tail.results :
                                     tail.results[k].accepted => bridged(tail.results[k])
        /\ (bridged(tail.chosen) = bridged(primary)) => tail.chosen.cost <= primary.cost
=============================================================================

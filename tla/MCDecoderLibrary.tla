---------------------------- MODULE MCDecoderLibrary ----------------------------
(***************************************************************************)
(* The software library for TLC.  A behaviour picks one job, then its      *)
(* inputs in one or two steps: a check update, a code, an error model, a   *)
(* circuit, or a machine to run (a release workflow, a layered decode, a   *)
(* Relay tail).  The other machines stay off.                              *)
(***************************************************************************)
EXTENDS ReleaseWorkflow, LibraryJobs, Automorphism, MemoryExperiment

allVars == <<job, decode, tail, wvars>>

Off == [phase |-> "off"]

Pick(record) == job' = record /\ UNCHANGED <<decode, tail, wvars>>

-----------------------------------------------------------------------------
(* Workflow calls.                                                         *)

Request(type, target, image, original, identity) ==
  [type |-> type, target |-> target, image |-> image, original |-> original,
   identity |-> identity, sections |-> TRUE, groups |-> TRUE, trials |-> 0, relay |-> TRUE,
   host |-> TRUE, budgets |-> ToSet(Stages)]
Bare == [Request("CIRCUIT", "image", "none", TRUE, TRUE) EXCEPT !.relay = FALSE, !.host = FALSE]
Idle == [Bare EXCEPT !.type = "STATIC"]

\* Circuits over a bound image, static recoveries over one that lost its graph or
\* renumbers, and calls whose profile, selection, budgets or image is missing.
MCCalls ==
  {Request("CIRCUIT", t, "A", TRUE, FALSE) : t \in {"zero", "image", "other"}}
  \cup {[Request("STATIC_RECOVERY", t, "B", FALSE, id) EXCEPT !.groups = FALSE, !.host = FALSE]
          : t \in {"image", "other"}, id \in BOOLEAN}
  \cup {[Bare EXCEPT !.trials = 4],
        [Bare EXCEPT !.image = "A", !.sections = FALSE, !.trials = 3],
        [Bare EXCEPT !.image = "A", !.sections = FALSE, !.groups = FALSE,
                     !.budgets = @ \ {"S2R"}],
        Idle}

-----------------------------------------------------------------------------
(* Check updates, codes and neutral completions.                           *)

Values == {-40, -4, -1, 0, 1, 3, 20}

PickUpdate ==
  \/ Is("start") /\ \E first \in [1 .. 2 -> Values] : Pick([kind |-> "half", x |-> first])
  \/ Is("half") /\ \E rest \in [1 .. CheckDegree - 2 -> Values], bit \in 0 .. 1 :
       Pick([kind |-> "update", x |-> job.x \o rest, bit |-> bit])

Polynomials(shape) ==
  {p \in SUBSET ((0 .. shape.ell - 1) \X (0 .. shape.m - 1)) : Cardinality(p) \in 1 .. 3}

PickCode ==
  \/ Is("start") /\ \E size \in {<<2, 2>>, <<4, 1>>, <<3, 1>>} :
       Pick([kind |-> "torus", ell |-> size[1], m |-> size[2]])
  \/ Is("torus") /\ \E a, b \in Polynomials(job) :
       Pick([kind |-> "code", ell |-> job.ell, m |-> job.m, a |-> a, b |-> b])

\* Six faults on four checks in mirrored pairs; boundary, link and wide faults.
Responses == {{0}, {0, 1}, {0, 2}, {0, 3}, {2}, {2, 3}, {0, 1, 2}, {0, 2, 3}, {0, 1, 2, 3}}
Mirror(S) == {2 * (c \div 2) + (1 - (c % 2)) : c \in S}

PickImage ==
  \/ Is("start") /\ \E a, b \in Responses : Pick([kind |-> "pairs", a |-> a, b |-> b])
  \/ Is("pairs") /\ \E c \in Responses, neutral \in {0 .. 5, {0, 1, 4, 5}} :
       Pick([kind |-> "completion", image |->
               [checks |-> 4, neutral |-> neutral,
                columns |-> [v \in 0 .. 5 |-> LET s == CASE v < 2 -> job.a [] v \in 2 .. 3 -> job.b
                                                         [] OTHER -> c
                                              IN  IF v % 2 = 0 THEN s ELSE Mirror(s)]]])

-----------------------------------------------------------------------------
(* Detector error models: two orbits, complete or with a defect, in three  *)
(* orders.                                                                 *)

Seeds == {{0}, {0, 4}, {0, 5}, {0, 1}, {0, 1, 2}, {0, 3, 5}, {0, 1, 2, 3}, {4}, {0, 1, 6}}

OrbitOf(mask, prior) ==
  LET masks == SetToSeq({Translate(mask, by) : by \in Coordinates})
  IN  [i \in DOMAIN masks |-> [mask |-> masks[i], prior |-> prior]]

Defect(dem, defect) == CASE defect = "short" -> Tail(dem)
                         [] defect = "prior" -> [dem EXCEPT ![1].prior = 2]
                         [] OTHER            -> dem

Labelled(dem, step) ==
  [i \in DOMAIN dem |-> dem[i] @@ [logical |-> (i * step) % 3]]

Riffled(dem) ==
  LET half == Len(dem) \div 2
  IN  [i \in 1 .. 2 * half |-> dem[IF i % 2 = 1 THEN (i + 1) \div 2 ELSE half + i \div 2]]

PickModel ==
  \/ Is("start") /\ \E a, b \in Seeds : Pick([kind |-> "seeds", a |-> a, b |-> b])
  \/ Is("seeds") /\ \E prior \in {1, 2}, defect \in {"none", "short", "prior"}, step \in {1, 2} :
       LET dem == Defect(OrbitOf(job.a, 1) \o OrbitOf(job.b, prior), defect)
       IN  \E order \in {dem, Reverse(dem), Riffled(dem)} :
             order # <<>> /\ Pick([kind |-> "model", dem |-> Labelled(order, step)])

-----------------------------------------------------------------------------
(* Circuits of three detectors and three faults for the GARI compiler.     *)

FaultKinds == {<<"none", "X", 0>>, <<"U", "X", 0>>, <<"U", "Z", 1>>, <<"none", "Z", 1>>}
FaultOf(detectors, kind, logicals) ==
  [detectors |-> detectors, logicals |-> logicals, first |-> 0, last |-> 1,
   type |-> kind[1], basis |-> kind[2], partition |-> kind[3]]

PickCircuit ==
  \/ Is("start") /\ \E d \in [1 .. 3 -> {<<1>>, <<1, 2>>, <<2, 3>>, <<3, 1, 2>>}] :
       Pick([kind |-> "faults", detectors |-> d])
  \/ Is("faults")
       /\ \E k \in [1 .. 3 -> FaultKinds], overrides \in {<<>>, 2 :> "V", 1 :> "D_Z" @@ 3 :> "U"},
             inverse \in {<<1, 2, 3>>, <<3, 1, 2>>, <<2, 1, 3>>} :
            LET d == job.detectors
            IN  Pick([kind |-> "circuit", overrides |-> overrides, inverse |-> inverse,
                      circuit |-> [rounds |-> <<0, 1, 1>>, logicals |-> 2,
                                   faults |-> <<FaultOf(d[1], k[1], {}), FaultOf(d[2], k[2], {1}),
                                                FaultOf(d[3], k[3], {1, 2})>>]])

-----------------------------------------------------------------------------
(* Windows of the layered decoders: four checks on four variables.         *)

WindowGraphs ==
  {<< <<1, 2>>, <<2, 3>>, <<3, 4>>, <<4, 1>> >>, << <<1, 2, 3>>, <<2, 4>>, <<1, 4>>, <<3, 4, 2>> >>,
   << <<1, 2>>, <<3, 4>>, <<2, 3, 4>>, <<1, 3>> >>}

ScheduleOf(kind, direction, lanes) ==
  [kind |-> kind, direction |-> direction, lanes |-> lanes, stride |-> 1]
Schedules ==
  {ScheduleOf("plain", "alternating", << <<0>>, <<1>> >>),
   ScheduleOf("twolane", "pair_alternating", << <<0, 1>> >>),
   ScheduleOf("cyclic", "alternating_reverse", << <<0, 1>> >>)}

\* A prior of 1020 saturates.
WindowPriors == {<<p, q, r, r>> : p \in {-3, 9}, q \in {-7, 2}, r \in {4, 1020, -6}}

PickWindow ==
  \/ Is("start") /\ \E graph \in WindowGraphs, schedule \in Schedules :
       Pick([kind |-> "graph", graph |-> graph, schedule |-> schedule])
  \/ /\ Is("graph")
     /\ \E types \in {<<"D_X", "D_X", "D_X", "D_X">>, <<"U", "V", "D_Z", "U">>,
                      <<"U", "U", "V", "D_X">>},
           prior \in WindowPriors, partitions \in {<<0, 0, 0, 0>>, <<0, 1, 0, 1>>},
           target \in {<<0, 0, 0, 0>>, <<1, 0, 0, 0>>, <<1, 0, 1, 1>>} :
          decode' = StartDecode([graph |-> job.graph, schedule |-> job.schedule, prior |-> prior,
                                 target |-> target, types |-> types, partitions |-> partitions,
                                 parallelism |-> 3, budget |-> 3])
     /\ job' = [kind |-> "decode"]
     /\ UNCHANGED <<tail, wvars>>

-----------------------------------------------------------------------------
(* Batches of three words under two or three Stage-1 profiles.             *)

Stage1Profile(stage, prior, schedule, budget) ==
  [stage |-> stage, prior |-> prior, schedule |-> schedule, budget |-> budget]
RescueProfiles(schedule, p, q) ==
  LET primary == Stage1Profile("S1W", <<p, q, 4, 9>>, schedule, 2)
      flat    == Stage1Profile("S1W_R1", <<3, 3, 3, 2>>, [schedule EXCEPT !.direction = "reverse"], 3)
      steep   == Stage1Profile("S1W_R2", <<2 * q, p, 25, 7>>, schedule, 3)
  IN  {<<primary, flat>>, <<primary, flat, steep>>, <<primary, steep, flat>>}

Batches ==
  {<< <<1, 0, 0, 0>>, <<0, 0, 0, 0>>, <<1, 1, 0, 0>> >>, << <<0, 1, 1, 0>>, <<1, 0, 1, 1>>, <<1, 1, 1, 1>> >>,
   << <<1, 1, 1, 1>>, <<1, 0, 0, 0>>, <<0, 1, 0, 1>> >>}

PickBatch ==
  \/ Is("start") /\ \E graph \in WindowGraphs, schedule \in Schedules :
       Pick([kind |-> "rows", graph |-> graph, schedule |-> schedule])
  \/ Is("rows") /\ \E p \in {5, 12}, q \in {2, 8}, targets \in Batches :
       \E profiles \in RescueProfiles(job.schedule, p, q) :
         Pick([kind |-> "batch", graph |-> job.graph, targets |-> targets, profiles |-> profiles])

-----------------------------------------------------------------------------
(* S2 windows: three orbits, targets, image profiles and Relay-lite legs.  *)

S2Model(a, b, c, prior, logical(_)) ==
  LET orbits == [i \in 1 .. 3 * GroupOrder |->
        LET o == (i - 1) \div GroupOrder
            by == (i - 1) % GroupOrder
        IN  CASE o = 0 -> [mask |-> Translate(a, by), prior |-> prior]
              [] o = 1 -> [mask |-> Translate(b, by), prior |-> 5]
              [] OTHER -> [mask |-> Translate(c, by), prior |-> 3]]
  IN  [i \in DOMAIN orbits |-> orbits[i] @@ [logical |-> logical(i)]]

Targets == {{}, {0}, {0, 1}, {0, 4}, {1, 6}, {0, 1, 2}, {0, 3, 5, 6}}

S2Faults == 0 .. 3 * GroupOrder - 1

\* The primary has no dither; the retries differ by seed.
ProfileOf(iterations, start, interval, seed) ==
  [iterations |-> iterations, limit |-> 63, start |-> start, interval |-> interval,
   dither |-> [a \in S2Faults |-> IF seed = 0 THEN 0 ELSE IF (a * seed) % 3 = 0 THEN 2 ELSE -2],
   memory |-> [a \in S2Faults |-> IF seed = 0 THEN 1 ELSE ((a * seed * 29) % 100) - 40],
   divisor |-> IF seed = 0 THEN 16 ELSE 128]
Portfolios ==
  {<<ProfileOf(3, 1, 1, 0), ProfileOf(2, 0, 1, 1), ProfileOf(3, 2, 2, 2)>>,
   <<ProfileOf(2, 0, 1, 0), ProfileOf(3, 3, 2, 1)>>}
Gammas == [k \in 1 .. 4 |-> [a \in S2Faults |-> IF k = 1 THEN 12 ELSE ((a * k * 37) % 115) - 30]]

PickTail ==
  \/ Is("start") /\ \E a \in {{0}, {0, 1}, {0, 1, 2}, {0, 4, 5}}, b \in {{0}, {0, 4}, {0, 1, 6}},
                       c \in {{0, 4}, {0, 5}}, prior \in {2, 9}, two \in BOOLEAN :
       LET dem == S2Model(a, b, c, prior, LAMBDA i : IF two THEN ((i * 5) \div 3) % 4 ELSE 0)
           image == Compile(dem)
       IN  image.accepted /\ Pick([kind |-> "s2", dem |-> dem, x |-> Expand(image)])
  \/ Is("s2") /\ \E target \in Targets :
       \/ IsStream(job.dem, target) /\ Pick([kind |-> "stream", dem |-> job.dem, target |-> target])
       \/ /\ job' = [kind |-> "tail"]
          /\ \/ \E profiles \in Portfolios : tail' = StartTail(job.x, target, profiles)
             \/ tail' = StartLegs(job.x, target, Gammas, <<3, 2, 2, 2>>)
          /\ UNCHANGED <<decode, wvars>>

-----------------------------------------------------------------------------
(* Group selections on small codes, and ensembles over what is selected.   *)

Cells(code) == [c \in 1 .. Block(code) |-> SetToSortSeq({v + 1 : v \in Hx(code)[c]}, <)]
Translations(code) ==
  {[variables |-> [v \in 1 .. Width(code) |-> VariableAction(code, dx, dy)[v - 1] + 1],
    checks    |-> [c \in 1 .. Block(code) |-> CheckAction(code, dx, dy)[c - 1] + 1]] :
     dx \in 0 .. code.ell - 1, dy \in 0 .. code.m - 1}

CodeGraphs ==
  {[graph |-> Cells(c), size |-> Width(c), actions |-> Translations(c)] :
     c \in {[ell |-> 4, m |-> 1, a |-> {<<0, 0>>}, b |-> {<<1, 0>>, <<2, 0>>}],
           [ell |-> 2, m |-> 2, a |-> {<<0, 0>>, <<1, 0>>}, b |-> {<<0, 1>>, <<1, 1>>}]}}

\* Rings of checks with all their symmetries, which have fixed points; on three
\* variables this is the triangle of identity_and_cyclic_trials.
Ring(n) == [c \in 1 .. n |-> <<c, (c % n) + 1>>]
Symmetries(n) ==
  LET permutations == {p \in [1 .. n -> 1 .. n] : IsInjective(p)}
  IN  {a \in [variables : permutations, checks : permutations] : Preserves(Ring(n), a)}
RingGraphs == {[graph |-> Ring(n), size |-> n, actions |-> Symmetries(n)] : n \in {3, 4}}

\* No logicals, the orbit of a support, and an orbit with a member missing.
SeedLogicals(actions, kind) ==
  LET orbit == SetToSeq({Moved(a.variables, {1, 2}) : a \in actions})
  IN  CASE kind = "none" -> <<>> [] kind = "orbit" -> orbit [] OTHER -> Tail(orbit)

CYCLE_LENGTH == 6
TRAPPING_SIZE == 3

TrialOf(action, id, enabled, perturbation) ==
  action @@ [id |-> id, enabled |-> enabled, perturbation |-> perturbation]

PickTrials ==
  \/ /\ Is("start")
     /\ \E g \in CodeGraphs \cup RingGraphs, kind \in {"none", "orbit", "broken"}, count \in {1, 2, 4},
           declared \in {"all", "most", "none"} :
          LET logicals == SeedLogicals(g.actions, kind)
              known    == CASE declared = "all" -> g.actions
                            [] declared = "most" -> {a \in g.actions : a.variables[1] # 1}
                            [] OTHER -> {}
          IN  Pick([kind |-> "group", graph |-> g.graph, size |-> g.size, count |-> count,
                    logicals |-> logicals, declared |-> known,
                    chosen |-> Selected(g.graph, g.size, logicals, known, count,
                                        CYCLE_LENGTH, TRAPPING_SIZE)])
  \/ /\ Is("group") /\ job.count > 1
     /\ \E chosen \in job.chosen, target \in {{}, {1}, {1, 2}, {2, 4}},
           q \in {-5, 6}, decoder \in {"float", "hybrid"},
           bound \in {{}, {6}}, off \in {0, 2}, bend \in BOOLEAN :
          Pick([kind |-> "ensemble", graph |-> job.graph, logicals |-> job.logicals,
                prior |-> [v \in 1 .. job.size |-> IF v % 3 = 0 THEN q ELSE 9],
                target |-> [c \in DOMAIN job.graph |-> IF c \in target THEN 1 ELSE 0],
                decoder |-> decoder, bound |-> bound,
                trials |-> [k \in DOMAIN chosen |->
                  TrialOf(chosen[k], k - 1, k # off,
                          IF bend /\ k > 1 THEN [v \in 1 .. job.size |-> ((v * k) % 5) - 2]
                                          ELSE <<>>)]])

-----------------------------------------------------------------------------
(* Memory experiments of two rounds: polynomials in an order, codes with   *)
(* and without logicals, with and without faults that look alike.          *)

TermLists == {<<<<0, 0>>>>, <<<<1, 0>>, <<0, 0>>>>, <<<<0, 0>>, <<1, 0>>, <<0, 1>>>>}
ShapeOf(ell, m, p, q) ==
  [ell |-> ell, m |-> m, termsA |-> p, termsB |-> q, a |-> ToSet(p), b |-> ToSet(q)]
MemoryShapes ==
  {ShapeOf(2, 2, p, q) : p \in TermLists, q \in TermLists}
    \cup {ShapeOf(3, 3, <<<<1, 0>>, <<0, 0>>>>, q) : q \in {<<<<0, 0>>, <<0, 1>>>>, <<<<0, 1>>, <<0, 0>>>>}}
    \cup {ShapeOf(3, 1, <<<<1, 0>>, <<0, 0>>>>, <<<<1, 0>>, <<0, 0>>>>)}

PickMemory ==
  \/ Is("start") /\ \E shape \in MemoryShapes : Pick([kind |-> "shape", shape |-> shape])
  \/ Is("shape") /\ \E basis \in {"X", "Z"} :
       Pick([kind |-> "memory", shape |-> job.shape, basis |-> basis])

-----------------------------------------------------------------------------

Init ==
  /\ decode = Off /\ tail = Off /\ WorkflowInit
  /\ \/ job = [kind |-> "workflow"]
     \/ job = [kind |-> "start"] /\ call = Idle

Next ==
  \/ PickUpdate \/ PickCode \/ PickImage \/ PickModel \/ PickCircuit \/ PickWindow \/ PickBatch
  \/ PickTail \/ PickTrials \/ PickMemory
  \/ Is("workflow") /\ WorkflowStep /\ UNCHANGED <<job, decode, tail>>
  \/ Is("decode") /\ DecodeStep /\ UNCHANGED <<job, tail, wvars>>
  \/ Is("tail") /\ TailStep /\ UNCHANGED <<job, decode, wvars>>

Spec == Init /\ [][Next]_allVars

-----------------------------------------------------------------------------
(* The promises of the parts that LibraryJobs leaves out.                  *)

\* SelectionIsMaximin and EnsembleIsSound of Automorphism: the trials are as far apart
\* as trials can be, and decoding in moved graphs answers the window that was asked.
TrialsAreSound ==
  /\ Is("group") => SelectionIsMaximin(job.graph, job.size, job.logicals, job.declared, job.count,
                                       CYCLE_LENGTH, TRAPPING_SIZE)
  /\ Is("ensemble") => EnsembleIsSound(job.graph, job.logicals, job.prior, job.target,
                                       job.decoder, 3, job.trials, job.bound)

\* MemoryIsExact of MemoryExperiment: what the adapters take a fault of the circuit
\* for is what the circuit does with it.
MemoriesAreExact == Is("memory") => MemoryIsExact(job.shape, job.basis, 2)
=============================================================================

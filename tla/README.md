# Verification of the Gross144 FPGA decoder

TLA+ modules, TLC configurations and TLAPS proofs for the decoder that this
repository builds: the SystemVerilog under `rtl/`, the host software under
`python/gross144_decoder/` and `tools/`. Line numbers in `PROJECT.json` refer to
the sources as modelled.

## 1. The system and its parts

A host sends detector words to an FPGA board over a serial line and gets logical
classes back. The board runs a bounded layered min-sum search; what it cannot
finish it *defers*, and the host's C tail decodes it.

| Part | State it keeps | Operations | Talks to |
| --- | --- | --- | --- |
| Campaign loop and `Board` (`tools/run_paper_gross144_four_lane_board_campaign.py`) | `sequence`, current parser, serial port, counters of the report | `decode_payload` (two attempts), `_reconnect`, shot loop, verdict | board over the serial line, C tail |
| Frame parser (`protocol.py`) | byte buffer, `crc_errors`, `format_errors` | `feed` | `Board` |
| UART framer (`rtl/protocol/uart_framer.sv`) | receive FSM, held frame, transmit FSM | receive a byte, hold and release a frame, serialise a reply | endpoint, UART |
| Endpoint (`rtl/top/..._uart_top.sv`) | clk27: request latch and toggle, seen result toggle; clk51: control FSM, seen request toggle, result registers | accept, probe, answer; clear, load, start, wait, publish | framer, payload RAM, decoder, PLL |
| Controller (`rtl/decoder/..._four_lane_controller.sv`) | one-hot FSM, sweep and replay ordinals, sticky flags, guards, verdict | shot_clear, load, start, sweep, decide, replay, project | endpoint, hash, schedule, engines, memories |
| Residual hash, schedule | target and correction hash; none | load, clear, emit; query | controller |
| Check engines, memories, crossbar | records, posteriors | gather, two-minimum, emit, write back | controller |
| C tail worker (`tools/c_tail_worker.c`) | scratch arrays per thread, settings from the environment | one request: fast first leg, portfolio, selection, relay legs with a fallback range, quorum | telescope adapter over a pipe |
| Host side of the tail (`paper_gross144_cpu_telescope.py`) | cached image and binary, the worker process | build, spawn, request, close | campaign loop, C tail |
| Check updates and layered decoders (`fixed_point.py`, `check_record.py`, `wide_minsum.py`, `minsum_reference.py`, `sumproduct_reference.py`, `hybrid_warmup.py`) | posteriors, messages or records of a decode | sweep, stop when the syndrome is met | Stage 1, GARI, trials |
| Stage-1 oracle (`paper_gross144.py`) | layout, profiles | decode with rescues, batch decode | release workflow |
| Stage-2 (`paper_gross144_stage2.py`, component templates) | template images, posterior banks, live faults, tail legs | compile, pack, stream, relay, complete, retry | release workflow, C tail's image |
| Controllers (`unified_stage_controller.py`, `telescope.py`, `release_workflow.py`, `stage2_integration.py`, `relay_reference.py`) | budgets, trace, resident Stage-2 image | S0, S1, S1A, S2, S2R, HOST | all decoders |
| Code, circuits, trials (`gross144.py`, `gari.py`, `circuit_graph.py`, `automorphism.py`, `gross144_memory.py`) | none over time | construct, validate, compile, fold, select | files, decoders |

What is hard about it, and what makes each part correct:

* **Controller.** Sticky flags, a sampled hash, three copies of the retry block, a
  replay that jumps, guards that preempt any state. Correct when a success is
  exact, the hash only rejects, the budget ends in a defer, sweeps are counted
  once, and every shot ends.
* **Endpoint.** Two clocks, unsynchronised snapshots behind toggles, handlers that
  assign the same register in one cycle, a PLL that may lock late or lose lock on
  one side only. Correct when every accepted request is answered once, in order,
  with its own decode.
* **Link.** Timeouts that race late answers, one retry, a reconnect that discards
  state, damaged and cut frames on both ways. Correct when an answer is given to
  the shot that asked, one fault is absorbed, and the verdict counts what failed.
* **C tail.** Parallel relay legs, a selection whose candidate set depends on the
  fast path, a second call of the range that is seeded by the first, a quorum among
  three candidates. Correct when nothing exact is thrown away, the quorum decides, a
  bridged candidate is the last resort, and every request is answered.
* **Campaign and tail process.** Cached files that a killed build left half written, a
  worker that stops, lies or hangs, a dozen counters, two verdicts. Correct when the
  failures are the wrong shots, whatever lost them, and those whose reply was an error, and
  exit code 0 is earned.
* **Controllers.** A resident image bound to another window, adapters that raise, two
  budgets, two controllers meant to agree, ties. Correct when an accepted correction
  meets the syndrome that was asked for.
* **Decoders.** The same arithmetic written six times at different widths, with
  saturation at different places; batches that must decide as single shots do. Correct
  when all of them agree, step by step.
* **Compilers.** Graphs, templates, circuits and permutations that are renumbered several
  times on the way to an image. Correct when the image decides for what it was made of.
* **Framer and parser at byte level, engines and memories of the RTL.** Not modelled yet,
  see section 5; the framer and the parser are modelled at frame level.

The line-by-line list of hazards with the properties that cover them is
`hazards` in `PROJECT.json`.

## 2. Modules

| Module | What it is |
| --- | --- |
| `DecoderSpec` | abstract: what the decoder promises over the shot_clear / start / done handshake |
| `S1WController` | the controller's FSM; implements `DecoderSpec` |
| `MCS1WController` | instance for TLC: 3 groups, 2 profiles, 5 builds |
| `S1WControllerProofs` | TLAPS: type correctness, the four safety properties, the refinement of `DecoderSpec` |
| `StopAndWait` | abstract: what the endpoint promises to the host |
| `UartEndpoint` | the endpoint with framer, payload RAM, PLL, over `DecoderSpec`; implements `StopAndWait` |
| `UartEndpointProofs` | TLAPS: types, the properties of both PLL regimes, the refinement of `StopAndWait` |
| `BoardLink` | campaign loop, `Board`, frame parser, lossy line, over the endpoint's queue of two requests |
| `BoardLinkProofs` | TLAPS: types, the three safety properties of `BoardLink` |
| `CTail` | one request of the C tail worker |
| `MCCTail` | instance for TLC: three settings of the environment |
| `Campaign` | the campaign's `main` with the host side of the tail |
| `HostProofs` | TLAPS: type correctness of `CTail` and `Campaign`, their five safety properties |
| `ReleaseWorkflow` | both controllers, the five stages, Stage-2 integration, relay vote |
| `CheckUpdate` | every check update, compressed record, box-plus |
| `LayeredDecoder` | the layered decoders and schedules over one check step |
| `PaperStage1` | Stage-1 rescues, for one word and for a batch |
| `StreamedS2` | streamed pass, flooding Relay tail, retained legs, bridge retries |
| `NeutralCompletion` | spanning forest and bridge of logical-neutral faults |
| `DecoderProofs` | TLAPS: the layered decoders agree and the batches of GARI may run in any order, a batch of shots is its shots, the completion is exact, the check updates are one |
| `QuotientImage` | Stage-2 template compiler and the packing of its banks |
| `ImageProofs` | TLAPS, over `DecoderProofs`: the template image is the error model, its banks never collide, the streamed pass over it is a sweep, the two properties of the S2R tail, the Stage-1 compilers make the same image, a GARI image decides for its circuit |
| `ComponentTemplates` | both Stage-1 template compilers, lifts of trial actions |
| `GrossCode` | bivariate-bicycle code, GF(2) elimination, paired logical basis |
| `Gf2` | parity, and sums of vectors that are sets |
| `LibraryProofs` | TLAPS: shape of a call's trace and the four properties of `ReleaseWorkflow`; the code of `GrossCode` is paired |
| `GariCompile` | circuit import, transpose, GARI image |
| `Automorphism` | selection of group actions, their table, the ensemble of trials |
| `MemoryExperiment` | memory circuit, its backward pass, both adapters |
| `LibraryJobs` | the jobs of the pure parts of the library and what each promises |
| `Induction` | TLAPS: least-number principle, iterates, folds, sums and ranks, for the proofs of the other modules |
| `Evaluation` | helpers that fix the order in which a value is computed |
| `MCDecoderLibrary` | instance for TLC of the modules from `ReleaseWorkflow` to `MemoryExperiment` |
| `MCBoxPlus` | instance for TLC of `BoxPlusIsSound` |

The layers meet at the abstract modules: the controller is shown to implement the
`DecoderSpec` that the endpoint contains, the endpoint is shown to implement
`StopAndWait`, and the board of `BoardLink` is its queue. `Campaign` takes a shot's
outcome from what `BoardLink` can end in and a tail answer from what `CTail` can
answer. Among the software modules, `ReleaseWorkflow` takes a decoder's result as
given; `LayeredDecoder`, `PaperStage1`, `StreamedS2` and `Automorphism` say how it comes
about, over the arithmetic of `CheckUpdate`, on the images that `GariCompile`,
`QuotientImage`, `ComponentTemplates` and `MemoryExperiment` compile.

### S1WController

One step is one visit of an FSM state (`S_RECORD_LOAD`, `S_RUN`, ... take many clock
cycles each), so that a structural guard may strike between any two of them.
`Goto(s)` is the last assignment of the clocked block: a pending guard wins over
whatever the state assigns to `state`, while the other registers of that state
are still written. `(time_ordinal, group_ordinal)` is one ordinal `1..Groups`.

The posterior memory is the set `unsat` of groups whose parity the resident
correction does not satisfy. `S_INIT` makes it the set of groups with a nonzero
syndrome, an emit may change it arbitrarily. The hash is modelled by linearity:
when it is in step with the correction, a satisfied word hashes to zero, anything
else may or may not (a collision is always possible, which is more than a hash of
20 bits can do). After `shot_clear` the correction half of the hash still belongs
to the last shot, so it says nothing until `S_INIT` clears it.

The build's compile-time switches are the constant-in-time variable `mode`, so one run
covers several builds. Production is `ProductionMode` (inline check on, exact
replay forced, terminal sweep deferred, replay interval 1, one profile).

Abstractions: emit arithmetic, records, templates and the logical projection's
value; `RaiseGuard` may raise a guard at any time, where the code needs a
conflict on a wire. `PREFETCH_RECORDS` is the choice between `RECORD_LOAD` and
`START` after a group.

### UartEndpoint

`Tick27` is one edge of clk27, `Tick51` one of clk51, in any order and at any
ratio; all registers of a domain read their values from before the edge. Bytes
are abstracted to the two events that the endpoint can tell apart: a frame's
first payload byte (from which on the RAM holds a mixture, `Torn`) and its last CRC
byte. A request is named by its sequence number and so is its word, so "the
decode of its own word" is `answer = seq`. `replies` records the answers to decode frames;
a reply to a probe only occupies the transmitter.

Three timing facts of the hardware are assumed, each where it is used:

* `CoreIsFetching`: nine bytes at 3 Mbaud (30 us) pass before the next frame's
  payload reaches the RAM; a locked core has fetched the 234 nibbles of the last
  request by then (234 cycles at 40.5 MHz are 6 us).
* `Settled`: a shot takes at least its load, far longer than three clk27 edges, so
  the UART side has seen one flip of the result toggle before the next. With a
  busy transmitter a result may still wait; that is not excluded.
* In `endpoint` the host probes only while it waits for nothing (`ProbeAnytime =
  FALSE`), as the campaign does; `endpoint_probe` lifts this.

### BoardLink

One action per call or event of `decode_payload`: write (or its failure), read of a
chunk of any number of replies, the deadline, `_reconnect` (or its failure), the
second failure. `FailShot` and `Return` include what the shot loop of `main` does
with the outcome, up to the counters of the verdict. `FrameParser.feed` is folded
over the messages of a chunk: it keeps the head of a cut frame, which swallows the
next message, and counts damaged ones. Frames behind the first match of a chunk
are parsed and dropped, as in the code.

The board is a queue of at most two requests (the latched one and the held frame),
deaf for a third. The line and the driver may at any time lose, damage or cut a
message, be late, reject a call or refuse to reopen; `faults` counts these, up to
2. Not modelled: `decode_payload`'s `RuntimeError` for a reply of the wrong command
or length, which the endpoint never sends under a host's sequence number, and
bytes `MT` that noise forms by chance.

### CTail

One action per step of a request: the speculative first leg, the portfolio (its legs
run on arrays of their own, so only the set of results matters), the selection, one
relay set of one leg, the move of a leg to its fallback range, the join of the two
sections, the decision. The two legs interleave set by set. A leg's result is
"rejected", or a correction of the requested syndrome with a logical word and a cost;
`cost` stands for the pair (prior cost, weight), compared in that order. `env` is what
the worker read from its environment.

Left out: `run_config` and the arithmetic of Relay-lite, the benchmark switches
(`skip_relay`, `relay_only`, `escape_only`, `only_config`), parsing of a request and
start-up checks, which end the process before the first request.

### Campaign

One action per call that can end in more than one way: building or reusing each cached
file (a kill leaves none or part of it), the spawn, a batch's sampling, `decode_payload`
of a shot, the tail's answer, failure or hang, the counters, the close, the report. The
wrong basis aborts through the `finally` clause. `StartAgain` is the operator's next
campaign over the same build directory. A reply carries the three flags of the endpoint
as they are: a guard sets `error` beside a success or a deferral that the same cycle wrote, so a
reply may be an error and right, or an error that the tail still repairs. `answers` is a
history variable: per shot, was the endpoint's answer accepted and right, and if so, was
the reply it rests on an error (`flagged`)? The campaign counts a flagged shot as a failure.

Left out: latency statistics (their gate is a free Boolean), the corpus file's
contents, the manifest and digests.

### ReleaseWorkflow

One action per stage, with everything the controller makes of the result (budgets,
converted exceptions, malformed results, the trace). A caller decodes one window
after another over one Stage-2 cache, so that the resident image of one window meets
the next. A candidate is three bits: what its maker claims, what validation says, and
whether it meets the syndrome the caller asked for (the model's own knowledge). For Stage 2 the
last two differ: B07 judges by the syndrome the image was bound to, and an inverse-mapped
correction without its original graph is judged by the image in another order of the variables,
where it may give any syndrome (`GivenSyndromes`).
`Telescope` is the older controller as a function of the same results.

### The decoders

`CheckUpdate` has the scalar, compressed, wide, batch and flooding forms of one check,
`UpdatesAgree` compares them. `LayeredDecoder` builds six decoders from one sweep and a
kernel (a check update and the way an edge moves the posterior) and runs them side by
side; a step is a sweep. `PaperStage1` writes `decode` as a loop over profiles for
one word and `decode_wide_batch` as a loop over profiles of the rows that are left.
`StreamedS2` has the slice-by-slice pass with its births and retirements, and the tail
as a machine whose step is an iteration: candidates, screening, completion, retries.
Messages and posteriors keep the widths of the code (11, 5 and 6 bits); the Relay-lite
arithmetic of Python keeps 16 bits without a clip.

The float decoder is modelled on whole numbers, with its own rounding: it floors
three quarters of a magnitude where the integer forms round up.

### The compilers

Vectors over GF(2) are sets and their sum is the symmetric difference. `GrossCode`
follows the elimination of `gross144.py` row by row; `GariCompile` keeps the file's order
of checks, exchanges and inverse map; `QuotientImage` and `ComponentTemplates` number
orbits, coordinates, rows and lanes as the code does; `MemoryExperiment` builds the
circuit's operations from the polynomials' order and propagates faults backwards once,
as the adapter does, and forwards as the definition it is compared with.

Where the code searches, the model allows every result the search may have: any
colouring of banks at the lower bound, or none after 10,000 attempts, whether one
exists or not (`MayGiveUp`); and the catalogue of cycles and trapping sets that an
automorphism search without its limits (4096 supports, 200000 steps) finds. The switch
of the paper's compiler that takes a suboptimal schedule of banks is left off.
Priors are counts of fault classes or plain numbers that are only compared. Stim is
external: only the meaning of the circuit's operations is used.

## 3. Runs

| Run | Bounds | Result |
| --- | --- | --- |
| `controller` | 3 groups, 2 profiles with 2 and 1 sweeps, 5 builds | all properties hold, 165k states |
| `controller_inline` | same, build without forced replay | `InlineParityIsExact` violated |
| `endpoint` | 3 requests, 1 probe, words of 2 nibbles, PLL locked | all properties hold, 38k states |
| `endpoint_pll` | 2 requests, PLL locks late and is lost once | all properties hold, 637k states |
| `endpoint_probe` | 1 request, 1 probe at any time | `AnswerIsSent` violated |
| `endpoint_wedge` | 2 requests, 1 PLL loss | `RequestReleased` violated |
| `link` | 3 shots, sequence numbers 1..3 | all properties hold, 241k states |
| `link_crc` | 2 shots | `PassMeansNoCrcError` violated |
| `tail` | 3 settings (three legs; two legs with a fallback range, with and without fast-first), 3 logical words, 2 costs | all properties hold, 437k states |
| `campaign` | 3 shots in batches of 2, 1 kept failure case, 1 allowed failure, 2 campaigns | all properties hold, 286k states |
| `decoder_library` | see below | all properties hold, 155k states |
| `boxplus` | all pairs of five-bit messages | `CombinedIsSound` violated |

Why the bounds are enough: three groups are a first, an inner and a terminal group
of sweep and replay, so that a replay can fail, jump and pass at its end; two
sweeps have one with budget left and a terminal one; the second profile is in
standard order and so takes the remap path. There is no bound on the number of shots:
the endpoint may clear and load again forever, so stale state of one shot meets the next.
Three requests are one answered, one latched and one held; two nibbles are a first
and a last one. Three shots let a late reply of the first meet the second and
third, and three sequence numbers make them wrap while replies are outstanding.

For `tail`, three legs are a first one, a winner and a disagreeing one; two costs are a
cheaper and a dearer candidate, with ties; three words let all three candidates of
the quorum differ; ranges of 1 to 2 and 2 to 3 sets give a fallback range that runs.
For `campaign`, three shots in batches of two are a full and a cut batch, one kept
case is a full list, and two campaigns let the second meet what a killed one left.

`decoder_library` is one run because its parts share modules; a behaviour picks one of
these jobs and its inputs:

| Job | Inputs | Invariants |
| --- | --- | --- |
| release workflow | 2 windows over one cache, 11 calls, stage budget 2, total 5, 4 relay legs with quorum 2 | `AcceptedMeetsRequest`, `EscalationIsPaidFor`, `ControllersAgree`, `RelayNeedsQuorum` |
| check update | 4 messages out of 7 values with zero, ties and saturation, both syndrome bits | `CheckUpdatesAgree` |
| code | tori 2x2, 4x1, 3x1, every pair of polynomials of up to 3 terms | `CodesArePaired` |
| neutral completion | 4 checks, 6 faults, 9 responses each, two sets of neutral faults, every residual | `CompletionsAreExact` |
| error model | 2 orbits on a 2x2 torus with 2 slices, complete or with a fault missing or of another prior, 3 orders | `ImagesAreExact`, `BeatsAreConflictFree` |
| circuit | 3 detectors, 3 faults of 4 supports and 4 kinds, overrides, 3 inverse maps | `CircuitsRoundTrip` |
| window | 3 graphs of 4 checks, 3 schedules, 12 priors (one saturates), 3 targets, 3 sweeps | `RunsAgree`, `BatchesMayRunTogether` |
| batch | the same graphs and schedules, 3 batches of 3 words (one a zero word), 2 or 3 profiles | `PassesAndBatchesAgree` |
| S2 window | 3 orbits on a 2x2 torus, passes over the models that `IsStream` admits, 7 targets, 2 portfolios, 4 relay legs | `PassesAndBatchesAgree`, `DeferralIsFinal`, `RetriesNeverRegress` |
| trials | two codes with their translations, rings of 3 and 4 with all symmetries, up to 4 trials, 3 kinds of logicals | `TrialsAreSound` |
| memory | 12 pairs of polynomials on 2x2, 3x3 and 3x1 tori, both bases, 2 rounds | `MemoriesAreExact` |

Four bounded values where the code has 9 or 35 neighbours of a check are enough for two
minima, a tie between them and a third message that is neither. Two slices are a
fault that spans them, one that does not, and a first and last slice. Two windows let
the image of one be resident in the next. Two rounds have a first one, whose
detectors compare with the preparation, an inner difference, and the readout's.

### What the properties say

* `ExactAcceptance`, `SolvedNeverRejected`, `TerminalDefer`, `SweepAccounting`,
  `EveryShotEnds`: see section 1. `ExactAcceptance` speaks of builds in which every
  way to the projection passes the replay (`ExactMode`).
* `ReplyIsOwn`, `SnapshotsHeld`: reply and request match; nothing moves while the
  other clock may read it. `ReplyNeedsDecode`, `NewestReplyIsOwn`: what is left of
  them when the PLL loses lock.
* `OwnUntilExhausted`: the answer of another shot is only possible after an
  exhausted retry. `PassMeansOwn`: never under `transport_pass`.
  `FirstErrorNeedsTwoFaults`: one retry absorbs one fault, except one that leaves
  the framer inside a frame.

* `NeverLosesExact`, `QuorumRespected`, `BridgedIsLastResort`: the fast path changes what
  the selection looks at, the fallback what a leg holds, the quorum what is
  answered; none of them may lose a correction. `Answered`: in every interleaving of the
  two sections.
* `ExitZeroIsEarned`, `FailuresAreTheWrongShots`: the counters, which a dozen statements
  write, against the history of what was answered: the failures are the shots without an
  accepted, right answer and, beyond these, those whose reply was an error, which a release
  gate does not excuse although the answer was right. `EndsUnlessHung`: `readline` has no
  deadline, and only a worker that neither answers nor ends keeps a campaign.
* `AcceptedMeetsRequest`: for the syndrome of the caller, whatever image is resident, but
  for one case (`Untold`) that the code lets through and that the smaller observations below describe.
  `EscalationIsPaidFor`, `ControllersAgree`: what a success cost, and the two controllers
  on the same results.
* `RunsAgree`: six decoders, sweep by sweep: a success is a decision that meets the syndrome,
  a schedule visits every check once, and no check's word is counted twice or left behind
  while nothing saturates. `BatchesMayRunTogether`: checks that GARI puts into one batch share no variable.
* `CodesArePaired`, `CircuitsRoundTrip`, `ImagesAreExact`, `MemoriesAreExact`: what is
  compiled decides for what it was compiled from. `TrialsAreSound`: no selection of
  as many actions is farther apart, and a trial's answer, moved back, meets the
  window that was asked.
* `PassesAndBatchesAgree`: the pass with a window of live faults is one sweep of the wide
  decoder, and a batch rescues each row as a single decode would. `CompletionsAreExact`, `DeferralIsFinal`, `RetriesNeverRegress`: a residual is
  repaired exactly when neutral faults can repair it, the tail defers only a residual that
  they cannot, keeps the logical word of what it repairs, and a retry never replaces a
  better answer.

### Disagreements between code and comments or docs

1. `controller_inline`. The comment over the inline branch of `S_SWEEP_DECIDE` calls
   the emit parity exact; later groups flip what it sampled. Production forces the
   replay and is not affected.
2. `endpoint_probe`. Probing "remains available while a decode is running", but a
   probe that becomes valid in the cycle after a result raised `frame_tx_start`
   takes the transmitter, and the decode reply is lost.
3. `endpoint_wedge`. After a PLL loss the two halves of a toggle pair disagree. A
   request can stay latched forever and with it every later one.
4. `link_crc`. `docs/PRODUCTION_PATH.md` counts CRC errors as failures, but
   `_reconnect` replaces the parser and with it the counters that `transport_pass`
   tests.

5. `boxplus`. The module calls itself an exact and low-precision box-plus. The
   correction of box-plus is subtracted from the smaller magnitude; the code adds it,
   in the table form and in the float form alike, so that a check sends a belief
   stronger than any it received.

Smaller observations, which the models follow and no run refutes:

* `c_tail_worker.c` continues the fallback range at the end of the primary range, where a
  comment says "the first unvisited set"; after an early stop these differ, and the
  sets between them are never tried. After a bridged fast-first candidate the
  portfolio starts at leg 1, where a comment says that the complete portfolio is kept.
* The hybrid warm-up hands the posterior over together with messages of the old format.
* The Relay-lite arithmetic in Python keeps 16 bits without the clip to 2047 that the C
  worker has.
* A batch keeps the last correction of a row that failed, where a single decode returns a
  zero one, and reports a zero word as stage S1W, where a single decode says S0;
  `RowsAreShots` states both differences and that there is no other while there is room.
* The final validation of Stage 2 asks for the syndrome of the image, not for the requested one
  (`stage2_integration.py` 157-168). With the original graph `run_gari` has compared before. Without
  it, an image whose map moves variables and that is bound to another syndrome may return SUCCESS
  for a correction that does not give the requested syndrome: checks {0,1} and {2,3}, a map that
  swaps the pairs, image (1,0), requested (0,1). `AcceptedMeetsRequest` leaves this case out,
  and only this one.
* The bank search of the Stage-1 compilers may refuse a model that has a colouring at the lower bound;
  a comment says that it reaches the bound consistently for the frozen templates.
* That detector masks of `gross144_memory.py` are unique, as a comment says, follows only from
  its check that every lift is a permutation.

### Fairness

* `S1WController`: the FSM's steps are weakly fair, because the clock runs. Nothing is
  promised of the endpoint or the guards.
* `UartEndpoint`: both clocks run, the transmitter drains at line rate, a PLL locks
  again, and a decode that has started ends; the last is `EveryShotEnds`, checked
  for the controller. Host and line owe nothing.
* `BoardLink`: the host's steps are weakly fair, because the deadline of an attempt is
  real time. Board and line owe nothing.
* `CTail`: every section of a parallel region is run and the region ends with all of them
  (OpenMP), so each leg and the sequential part are weakly fair.
* `Campaign`: the program runs on by itself, and a wait for a worker that answers, fails or
  stops ends; nothing is promised of a worker that hangs or of the operator.
* `MCDecoderLibrary`: none, it has safety properties only.

## 4. Proofs

All theorems hold for every value of the constants that the assumptions of their modules
allow. Each step lemma has one case per action, and the inductive invariants were checked
with TLC on the instances of the runs before they were proved. `PROJECT.json` lists the
theorems and the properties of the runs that they state.

### Induction

The prover cannot instantiate a theorem that takes an operator, and that is how its
library states induction. `Induction` states it for sets instead: a nonempty set of naturals
has a least element (`LeastElement`, from the well-foundedness of the strict subset
ordering on finite sets), so a set that holds 0 and, with a number, the next one holds a whole
interval (`IntervalInduction`). From it follow that a function over `0..n` is defined by its
start and its steps (`IterateExists`) and that the recursion of the community modules' folds,
which take positions off a set from the greatest down, has a solution (`FoldExists`).
`SubsetInduction` is the same for the subsets of a finite set. The sum of a function over a
finite set is recursive in the same way: it unfolds at any element (`SumUnfolds`), adds over
disjoint sets (`SumAdds`) and counts their union (`SumCounts`). `DivMod` and `DivModOf` say
that a number has one quotient and remainder; parity and sums over GF(2) are linear
(`OddSymDiff`, `SumLinear`). A finite set of naturals is numbered by the ranks of its members
(`RanksNumber`), and a strict order that is total has a first element in each of its finite sets
(`FirstExists`).

A proof about a fold of a model goes through these steps: the fold's recursion has a solution, so
the one that `CHOOSE` takes is one; its values on the first `i` positions form a running
value `f` with `f[0]` the base and `f[i]` one step of the fold from `f[i - 1]`; what is wanted is
then an induction over `i`. The running values are `IsRunningWork`, `IsRunningTrace`, `IsParse`,
`IsSweep`, `IsSelection`, `IsBatching`, `IsTraversal`, `IsCompletion`, `IsReduction`, `IsSolution`,
`IsBuild`, `IsFiltering`, `IsContest`, `IsDecoding`, `IsTried`, `IsRescues`, `IsLive`, `IsPass`, `IsGrouping`,
`IsOrbiting`, `IsListing`, `IsElimination`, `IsNullListing` and `IsExtension`. `SelectSeq`, `SortSeq`, `@@` and overlapping guards of a
`CASE` are opaque to the prover; where a proof needed them, the models say the same with
a fold, a record and `IF`.

### S1WController

For any number of groups, profiles and sweeps and any set of builds (`SizeAssumption`,
`ModeAssumption`):

* `TypeCorrect`: `TypeOK` is inductive.
* `SuccessIsExact`: `ExactAcceptance` is not inductive; `AcceptInv`
  adds that a replay which has not failed has seen every group before `vOrd`
  satisfied (`\A g \in unsat : vOrd <= g`), that only a finished replay
  leads to the projection, and that the word is stale while a shot is under way, so
  that nothing but the clear of the next shot can touch an answered one.
* `HashOnlyRejects`: `SolvedNeverRejected`. `HashInv` adds that every
  way to `S_INIT` finds `init_first` set, hence that the hash is in step with the
  correction from `S_INIT` on, and that the sticky sample is clear until the last
  emit of the sweep.
* `BudgetEndsInDefer`: `TerminalDefer`. A defer ends the last sweep of its profile. While a profile is
  left only a build with the risk defer gives up, and an exact one only on a correction that satisfies the
  word, which is where `AcceptInv` is used. `BudgetInv` adds that a shot under way has no verdict and
  that a build with the terminal defer never reaches the projection in its last sweep.
* `SweepsCounted`: `SweepAccounting`. `CountInv` gives the count at every state of the FSM, as
  the sum of the budgets of the profiles before, a recursive function that
  `SweepsBeforeFacts` unfolds.
* `ImplementsHandshake`: every step is a step of `DecoderSpec` or none under the
  refinement mapping. It needs `TypeOK` and `AcceptInv`: a success must still be exact when
  the handshake publishes it.

### UartEndpoint

The clocks interleave freely in all theorems (`EndpointAssumption`).

* Whatever the PLL does: `EndpointTypes`; `AnswersNeedDecodes`, from `PllInv`: frames come in the
  order of their numbers (`InOrder`), an answer leaves once it has begun (`AnswersDrain`), and the
  numbered replies, with the one under way, never outnumber the decodes (`Counted`).
  `NewestAnswers` needs a host that sends no probes (`MaxProbes = 0`), which the run
  `endpoint_pll` has too: the probe of `endpoint_probe` loses a reply, and its successor
  is what the host hears next.
* Under `Undisturbed` (the PLL locks before the first frame and stays locked, and probes come
  between decodes only, as the campaign sends them): `ExchangeInv` adds to `PllInv` that one
  request is under way at a time and where it is (`Crossing`), that nothing stands between
  an answer and the transmitter (`ClearWay`), that the core has the word of the request
  before the next frame may touch the RAM (`Fetched`), and that a number is accepted once
  (`Fresh`). From it `AnswersAreOwn`, `SnapshotsHold`, and `ImplementsExchange`: the endpoint
  implements the safety part of `StopAndWait` (`SawSafety`).

`Undisturbed` cannot be dropped: `endpoint_probe` and `endpoint_wedge` are the counterexamples.

### BoardLink

For any number of shots and any width of the sequence number (`LinkAssumption`), from
`LinkInv`: the types with the board's two places (`LinkTypeOK`), that every message in flight
or in the parser carries the shot whose number it has, until an exhausted retry
(`OwnMessages`), what the results were made of (`ResultsExplained`), and that the attempts of the
present shot have been paid for with faults (`Charged`). `LinkTypes`, `DecodesAreOwn`, `PassesAreOwn`
and `ErrorsArePaidFor` follow. That a sequence number wraps is what `OwnMessages` is about.

### CTail and Campaign

The part of `HostProofs` about `CTail`, for any settings, logical words and costs (`CTailAssumption`), from the
inductive `TailInv`: `TypeCorrect`, `NeverLoses`, `QuorumDecides`, `BridgedLast`. `TailInv`
adds to the types that nothing of a range has converged before its first set
(`CountInv`), that a leg's best is one of those it found and no dearer than any of them
and that a leg which is off has found nothing (`LegsInv`), that the selected candidate
is preferred to all others (`SelectInv`), and what an answer was decided from
(`AnswerInv`). `LegsInv` is what the fallback range could break: its second call starts
over except for the best.

The part about `Campaign`, for any number of shots, batch size, case limit, allowed
failures and number of campaigns (`CampaignAssumption`), from the
inductive `CampaignInv`: `CampaignTypeCorrect`, `FailuresCounted`, `ZeroIsEarned`. `CampaignInv`
adds what a phase implies of the batch (`PhaseInv`) and of the shot (`ShotInv`), that the
counters of the board and the tail run ahead of the failures by one while a shot is
tallied (`CounterInv`), that the failures are the wrong and the flagged shots so far
(`WrongInv`), and what a report was made of (`ReportInv`).

### ReleaseWorkflow

For any calls, windows, budgets, relay legs and quorum (`WorkflowAssumption`), from
`WorkflowInv`: the shape of trace and executions (`WorkflowShape`), what was paid
(`PaidFor`), that the telescope, run over the same results, stands where the unified controller
stands (`SameTrace`), and the properties that are inductive by themselves; `AcceptedCorrections` has the
exception of its property, `Untold`. `TraceKeepsShape`,
`AcceptedCorrections`, `Escalation`, `ControllersAreEquivalent` and `RelayElects` follow.
`ControllersAreEquivalent` is an induction over the trace (`TraceOfAppend`).

### LayeredDecoder

`BatchesAreIndependent`: for every window (`IsWindow`: the checks name variables that have a
prior, and every check has a type; `GariGraph.from_dict` rejects anything else), the checks of an
auxiliary batch may run in any order or at once. What a check does depends on its own
variables and messages only (`CheckSees`) and reaches no others (`CheckReaches`), so checks
that share no variable end where each of them, run alone from the start, would
(`Together`, `ApartSweep`), in every order (`OrdersOf`); and `auxiliary_batches` makes batches
that repeat no check and share no variable (`BatchesFacts`). The invariant `GariInv` carries the
shape of the GARI decoder's state over the sweeps. No arithmetic is used, so it holds
of every width.

`DecodersAlwaysAgree`: for every window that the decoders do not refuse (`IsDecodable`: bits to
meet, checks of two or more different variables, a schedule whose slices make up the checks;
`wide_minsum.py` raises for anything else), `RunsAgree` holds in every state. `RunsInv` is inductive:

* Each state is a posterior and a message for every edge, in the range the kernel can write
  (`AllStates`); a success is the test of that state (`AllTested`).
* The posterior of a variable is the prior and the sum of what its checks say now
  (`PriorBalances`). A check moves each posterior by new word minus old (`MovesPlainly`,
  `ReceivedMoves`), which is a plain difference while the window is `Roomy`: the sum of what
  its checks can say is bounded by their number, the `Degree` of the variable (`SumBounded`), so
  neither a posterior nor a difference reaches a limit. Then the batch form, which adds its two moves in another order and
  with other clips, makes the same state from the same update (`CheckOfBatch`).
* The hybrid decoder keeps the offset that its conversion leaves (`OffsetBalances`). Its
  room is asked of that offset: the box-plus warm-up may strengthen a belief without bound
  (disagreement 5 of section 3), so room of the prior says nothing about what it hands over.
* With main checks only the GARI order is the forward order (`GariIsFixed`).

Every schedule is a permutation of the checks (`ScheduleCovers`): the checks of a slice are a
window of the numbers, a lane a place in it, and quotient and remainder say which (`DivModOf`); an
alternating or strided direction permutes the slices.

### GariCompile

`CircuitsAlwaysRoundTrip` states, for every circuit (`IsCircuit`), every renumbering of its faults and every
choice of types that the compiler takes (`IsLabelling`), what `CircuitsRoundTrip` checks on
the circuits of the run. It is `CircuitRoundTrip`, job by job:

* The positions of the members of a set in a sequence are listed in order and each once
  (`PositionsFacts`), so a row of the transpose names every fault on its detector once
  (`DetectorRowsFacts`), and a detector without a fault or with faults of two types is refused
  (`ClassesFacts`, `CompileFacts`).
* A renumbering is a bijection, under which the faults of a row on one side are those of the row on the
  other (`RenumberedCount`). Hence a correction and what the inverse map makes of it have the same
  parity on every detector and every observable (`ImageDecides`).
* Main checks come by type and auxiliary checks by batch; batches that are flattened give back the order
  they were cut from (`BatchesInOrder`), and so a GARI order is a permutation of the checks (`GariCovers`).
* The edges of an image are listed once each, and so are the pairs an exchange is made of
  (`EdgesFacts`, `ExchangesFacts`).

### PaperStage1

`BatchesAlwaysMatch`: for every graph, every list of words and every list of profiles that
`decode_wide_batch` takes (`IsShotBatch`), `BatchesMatch`. It is `RowsAreAlone`. After `k` profiles a row holds the
answer that its word has after `k` profiles when it is decoded alone, and the rows still retried are the
rows whose word has no answer by then, each once (`RescueAbreast`, `BatchAbreast`): the list is
filtered by the results of the present run, so that a place in it is not the number of the row. The runs
of the two decoders are one because their kernels are while there is room (`WideFacts`, with the invariant
of `DecodersAlwaysAgree`); the room is asked of every profile's prior. A zero word is met before the
first sweep, since no prior is negative (`ZeroIsMet`), whatever the profile, which is why the batch may
leave the special case out.

### CheckUpdate

`UpdatesAlwaysAgree` states, for every degree from 2 to 16 (`DegreeAssumption`: a record keeps the place of
a message in four bits), all integer messages and both syndrome bits (`LegalJob`), what `CheckUpdatesAgree` checks on the
messages of the run; it is `UpdatesAreOne`, job by job:

* The scalar, the batch and the flooding form send each edge what all the others say. The least
  magnitude, its place and the least of the rest tell the least of all others for every
  edge (`TwoMinimaSuffice`); the second in the order of the batch is the least of the rest, ties
  included (`SecondInOrder`); the parity of all signs against the own one is that of the others
  (`OwnSign`).
* The outgoing messages of the full update have one exceptional magnitude at most, all in the range
  of a field (`FullIsOutgoing`), so that a record of two magnitudes and a place rebuilds them
  (`RecordIsWhole`).
* The word of a record reads as it was packed (`RecordRoundTrip`). The sum of the weights of some
  bits splits at every bit into a quotient, the bit and a remainder below the weight
  (`WordSplits`, `BitOfWord`), and the three fields of four bits lie below the signs (`FieldsOfWord`,
  `AboveTheLow`).

The box-plus form and the float form are not part of it.

### QuotientImage

For every torus, number of slices and banks (`TorusAssumption`) and every error model, a
sequence of faults with any sets of detectors, priors and logical masks (`Models`):

* `ImageExact`: a model is refused exactly when the translations do not act freely on it; an
  accepted image gives back the detectors, the logical mask and the prior of each fault, at an
  address of its own, within the lifetime of its orbit.
* `BankingSound`: whatever the colours of the orbits, the beats of a row hold each of its edges
  once and no two of one bank, in every check that the row is expanded to, and a step of the
  colour descent is never worse.

`BeatsAlwaysConflictFree` is the second for a library that compiles one model after another, and so the
property `BeatsAreConflictFree` of the run. `ImageExact` is the first half of `ImagesAreExact`; the
other half is the next section. The arguments:

* The translations are a group that acts on the detectors (`AddAssociates`, `AddCancels`,
  `OppositeFacts`, `MoveLaws`), and in a model that is not ambiguous a fault has at most one answer to
  each (`KeysDiffer`).
* The orbit by orbit pass keeps `Orbited`: every placed fault answers its representative at the
  coordinate it got, and the orbits so far are complete. A pass that ends well has numbered all
  faults (`Numbered`); one that does not has found a representative without an answer, or with
  two translations to one fault (`SpoiledIsNotFree`, `OrbitsEnd`). Conversely a numbering leaves
  no room for a fixed fault (`NumberedIsFree`).
* Addresses are a bijection (`AddressFacts`), and the faults on a detector are those on the origin
  of its slice, moved (`MovedPlace`, `RowExpands`). Hence the code's own comparison of every
  generated row never refuses a model that the orbits accept (`RowsAreExact`), and the column
  of an address is its fault's mask (`ColumnIsMask`).
* The list of distinct label patterns holds the pattern of every orbit (`ListedFacts`, `LabelsAreExact`); a
  translation keeps the slices of a fault, so the lifetime of a representative is that
  of its orbit (`TranslationKeepsSlices`, `LifetimesCover`).
* Two edges of one bank differ in their rank (`RanksDiffer`), so a beat holds one edge of a
  bank, and the beats partition the row (`EveryEdgeOnce`). Moving a row shifts all its banks by the
  same amount (`BankMoves`, `BeatMoves`): here `XDim % BankCount = 0` is used, and without it
  the wrap of the x coordinate would make two banks meet.
* The colour that `Recolor` takes is a minimum of a total order on objectives, and the old colour is a
  candidate (`RecolorIsNoWorse`).

### ComponentTemplates

`ComponentsExact`, for every error model that has a fault and every torus of more than one coordinate
(`LanesAssumption`; the two lanes of a torus of one would be the same check). With `ImageExact` it is
`ImagesAlwaysExact`, and so the property `ImagesAreExact`. The model without faults is left out of the
promise, not of the proof: all its lifts are one, and the Stage-1 compilers refuse what the Stage-2
compiler accepts.

* The table of responses finds the last fault of a response (`LookupFinds`). Lifts that are permutations
  answer like the faults they move (`ValidLifts`), and lifts that do are permutations that take each row
  to the moved row (`LiftsAreValid`) and differ where the action is free (`LiftsDiffer`).
* The Stage-1 grouping by lifts, which knows no answers, follows the Stage-2 grouping by answers orbit by
  orbit (`StepsAlike`, `GroupsAlike`). So the two images have the same addresses, orbits and templates, and one
  compiler refuses where the other does, but for lanes and colours (`PaperImageFacts`). Beside that image
  stands the refusal of a search that gives up, except where every colouring reaches the bound
  (`GivesUpOrEnds`): so a Stage-1 compiler that accepts has made the image, and that it does is certain
  there only.
* The adapter is the paper's compiler over the model without its priors (`Blind`, `AdapterIsBlind`). Where both
  accept, they lift alike (`LiftsAgree`) and make one image (`FlavoursAgree`).
* A lift adds to the coordinate (`LiftsAdd`). The rows of two checks half the torus apart are the
  rows of the origin and its partner, moved, so that lanes which are disjoint there are disjoint
  everywhere (`LanesReach`). A row takes as many beats as its fullest bank has edges, which the objective covers (`BeatsAreFew`).
* Every choice of trials is a choice of lifts (`PaperTrialsLift`, `AdapterTrialsLift`).

### NeutralCompletion

`CompletionExact` states, for every image (`IsImage`: finitely many faults, the columns are sets of
checks), what `CompletionsAreExact` checks on the images of the run: the bridged completion repairs
exactly the residuals that some set of neutral faults explains, by neutral faults that
explain them, and the plain tree claims no repair that is not one. `CompletionsAlwaysExact` is that
property, job after job. The argument has three parts.

* The traversal of the kept links is a tree (`TraversalIsTree`): every node is placed once and
  after its parent, a link joins the two, and a node has the root of its parent
  (`Placed`, `Walked`). The model leaves the stack of the code open as to which link it
  takes next, which is all the proof may use.
* The walk from the leaves settles a node for good (`Settled`): its bit is clear, and what
  the flips so far change is what the residual has lost. It is stuck exactly
  if a component that does not reach the boundary misses an odd number of checks
  (`TreeCompletionExact`).
* The pivots are in echelon form, each the parity of the faults recorded with it (`IsPivots`),
  and they span the parity of every neutral column (`BridgeSpans`), so the elimination of a
  residual's parity fails only where no set of neutral faults has it (`ComponentBridgeExact`). The
  tree flips no fault that the bridge flips, since a link has even parity and a pivot's faults
  have not; this is why one indexed assignment for both is enough.

That the faults explain what `Repairable` says is an induction over subsets (`SubsetInduction`).

### StreamedS2

For every template image, target and portfolio of profiles (`IsTemplate`: a prior for each
orbit; `IsPortfolio`: iterations and start are naturals, the interval is positive),
whatever the dither and the memory weights are, two theorems about the tail:

* `DeferralsAreFinal`: `DeferralIsFinal`.
* `RetriesAreSafe`: `RetriesNeverRegress`.

Both follow from the inductive `TailInv`: while an image runs all answers before were bridged, and
the attempts are the screened iterations so far (`Screened`); when the portfolio ends all
answers but the last were bridged; and every answer is `Justified` under the profile it was
found with. `Justified` rests on `CompletionExact` (a terminal completion that fails leaves a
residual beyond the neutral faults), on the linearity of the syndrome, and on the
arithmetic of the schedule (`PlanCovers`: the screened iterations, and one more completion
if the last iteration was not screened, are what the cycle plan charges). The
selection is a fold whose running value is no worse than what it has seen
(`BestFacts`). The floods are not looked at: nothing of the two properties depends on which
words the iterations find.

`StreamIsSweep` is about the streamed pass: for every model and target that it takes (`IsStream`: priors in the
range of a posterior, no fault without a detector, two faults or more on each detector, as
the wide decoder asks), the pass never misses a live record, holds no more than it was built for, and
returns the decision of one sweep of the wide decoder with its logical word. With
`BatchesAlwaysMatch` it is `PassesAndBatchesAlwaysAgree`. Beside the pass runs the sweep over the
same rows, check by check (`IsPassSweep`), and `IsPassed` relates them after each slice:

* A live record holds the posterior that the sweep has (`Mirrors`). The first visit of a row takes nothing out,
  for its messages are new (`FirstVisit`), and the pass keeps no message: each row is visited once.
* Outside its lifetime a fault is on no row (`NotRead`): the sweep has its prior until it is born and
  leaves it alone once it has died (`OutOfLifetime`), so the decision taken at its retirement is
  the sweep's last.
* The live faults of a slice are whole orbits, so counting orbits bounds the peak (`PeakIsStated`).
* The retired sets are disjoint, and the logical word of a union of disjoint sets is the sum of
  their words (`WordsAdd`).

### GrossCode

`CodesAlwaysPaired` states, for every torus and every two polynomials whose exponents lie on it (`IsShape`), what
`CodesArePaired` checks on the tori of the run: the pairing is never singular, the code passes its own
`validate` with `width - rank(hx) - rank(hz)` logicals, the declared translations are automorphisms, and an error
without a syndrome is a sum of checks exactly if all its logical bits are zero. That the gross code has 12
logicals is a number the proof does not compute; `_logical_quotient_basis` tests it. The argument
(`PairedBasisFacts`):

* The checks commute (`ChecksCommute`): the cells that an X and a Z check share on the left are opposite, between
  the two, to those they share on the right (`OppositeExchanges`), so their number is even. Shifts
  add up (`ShiftsAdd`), hence commute, and a translation takes each row to the row of the moved
  check (`TranslationsPreserve`).
* A swap and a cleared column keep what the rows span and whether they are independent, since each is an
  involution that adds one row to others (`InvolutionKeeps`, `SwapKeeps`, `ClearKeeps`). After `c` columns the
  rows are in echelon form on them (`Echelon`, `ReduceColumnStep`, `RrefReduces`). So the rows with a
  pivot are a basis (`RrefBasis`) and the rank is the dimension: as many sums as the power of two says
  (`RankIsDimension`, from `SpanSize`).
* Each null vector meets every row evenly and has one column without a pivot of its own (`NullVectorFacts`);
  a vector of the kernel without such columns is zero (`PivotsDecide`). So they are a basis of the kernel
  (`KernelBasis`), of dimension `width - rank`, and what meets the whole kernel evenly is a sum of
  rows (`PerpOfKernel`, by comparing sizes).
* The extension takes a candidate exactly when it lies outside of what base and selection span
  (`ExtendedStep`), so what it ends with is independent of the stabilizers and spans the kernel with them
  (`QuotientFacts`), and the two quotients have the same size (`BasesFacts`).
* A sum of X operators that meets every Z operator evenly is a stabilizer (`EvenIsStabilizer`), and so empty:
  the pairing has independent rows (`PairingIndependent`), its elimination beside the identity ends
  in the inverse (`InverseFacts`), and the recombined X operators meet their partner alone
  (`RecombinedFacts`). Then an error without a syndrome is a stabilizer plus a sum of logicals whose members
  the bits name (`LogicalsExact`).

### Model-checked only

* All liveness: `EveryShotEnds`, `CampaignEnds`, `Answered`, `EndsUnlessHung`, and the fairness of
  `StopAndWait`. Fairness and `ENABLED` are out of the prover's reach.
* `TrialsAreSound`, `MemoriesAreExact`: the search for automorphisms and the passes over
  a memory circuit have no proof yet. They hold for the inputs that `MCDecoderLibrary`
  enumerates.
* The legs that keep their posterior (`LegIterate`): no property of a run is about what a leg answers.

## 5. Plan

In this order:

1. `UartFramer`: the byte FSM against a reference parse, all commands and lengths; the
   host's `FrameParser` and its resynchronisation against the same reference. Two
   hazards wait for it: an unknown command that is held, and bytes dropped while a
   frame is held.
2. `CheckEngine`: the RTL's gather, two-minimum and emit against `CheckUpdate`.
3. `ScheduleFunctions`, `BankedAddress`, `Crossbar`: each sweep visits each group once,
   the address map is a bijection, conflict-free ports; the linear algebra of the hash.
4. Proofs: for given actions, apart from the search for them, that a trial's answer, moved back,
   meets the window that was asked (the second half of `TrialsAreSound`).

Not modelled, and why:

* ROM images and their exporters (constant data and the scripts that write it), matrix
  files and hash tables (reading and writing of files), benchmarks, build and flash
  scripts (sequential, around external tools).
* What Stim computes: the detector error models, detector filters and samples of
  `paper_gross144.py` and the Stage-2 layout, the encoded preparation of the memory
  experiment and the search for its factors.
* The memory that the sections of the C tail share (two scratch areas and read-only globals): the model
  gives each leg a state of its own, so it shows what the order of the sections may do and not
  that they keep apart.
* Numbers that are only reported: cycle estimates, storage plans, latency statistics,
  SHA-256 identities, trace digests.
* The bit level of the UART before the framer is done.

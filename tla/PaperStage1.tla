------------------------------ MODULE PaperStage1 ------------------------------
(***************************************************************************)
(* The Stage-1 oracle of paper_gross144.py: the wide decoder under a       *)
(* primary profile and then under rescue profiles, for one word (decode)   *)
(* and for a batch in which every profile sees the rows that are left      *)
(* (decode_wide_batch).                                                    *)
(*                                                                         *)
(* A profile is a record: stage, prior, schedule, budget; the widths and   *)
(* shifts it also sets go into the check update alike in both paths.  A    *)
(* profile's prior is the layout's, quantized to its scale.                *)
(***************************************************************************)
EXTENDS LayeredDecoder

\* run_wide_layered_minsum, a whole decode; a row of its batch form.
WideDecode(graph, target, kernel, profile) ==
  Decoding(graph, target, kernel, Fresh(graph, profile.prior),
           [i \in 1 .. profile.budget |-> IterationChecks(graph, profile.schedule, i)])

\* A run r of one more profile after s.
Attempt(graph, s, stage, r) ==
  [success |-> r.success, correction |-> HardDecision(r.state.posterior),
   stage |-> IF r.success THEN stage ELSE s.stage, work |-> s.work + r.iterations * Len(graph)]

Deferred(work) == [success |-> FALSE, correction |-> {}, stage |-> "defer", work |-> work]

\* The profiles in turn, until one meets the word.
Tried(graph, target, profiles) ==
  FoldLeft(LAMBDA s, p : IF s.success THEN s
                         ELSE Attempt(graph, s, p.stage, WideDecode(graph, target, "wide", p)),
           Deferred(0), profiles)

\* PaperGross144Stage1FpgaAdapter.decode: without a profile that meets the word the
\* correction is zero.
DecodeOne(graph, target, profiles) ==
  LET last == Tried(graph, target, profiles)
  IN  IF \A c \in DOMAIN target : target[c] = 0
      THEN [success |-> TRUE, correction |-> {}, stage |-> "S0", work |-> 0]
      ELSE IF last.success THEN last ELSE Deferred(last.work)

\* Mutant: the runs that succeeded are dropped by their place among the retried.
StillRetriedByPlace(retry, runs) == SelectSeq(retry, LAMBDA r : r \notin DOMAIN runs \/ ~runs[r].success)

\* retry[~rescue.success]: the rows left for the next profile.
StillRetried(retry, runs) ==
  LET left == Positions([k \in DOMAIN retry |-> runs[k].success], {FALSE})
  IN  [k \in DOMAIN left |-> retry[left[k]]]

\* One rescue profile over the rows that are left: the result of the k-th run
\* goes to row retry[k].
Rescued(graph, s, p, runs) ==
  LET place(r) == CHOOSE k \in DOMAIN s.retry : s.retry[k] = r
  IN  [rows  |-> [r \in DOMAIN s.rows |->
                    IF r \in ToSet(s.retry) THEN Attempt(graph, s.rows[r], p.stage, runs[place(r)])
                                            ELSE s.rows[r]],
       retry |-> StillRetried(s.retry, runs)]
Rescue(graph, targets, s, p) ==
  Rescued(graph, s, p,
          Forced([k \in DOMAIN s.retry |-> WideDecode(graph, targets[s.retry[k]], "batch", p)]))

\* The primary profile over every row.
Primary(graph, targets, runs) ==
  [rows  |-> [r \in DOMAIN targets |-> Attempt(graph, Deferred(0), "S1W", runs[r])],
   retry |-> Positions([r \in DOMAIN targets |-> runs[r].success], {FALSE})]

\* decode_wide_batch: the primary profile, then the rescues.
DecodeBatch(graph, targets, profiles) ==
  LET decoded == [r \in DOMAIN targets |-> WideDecode(graph, targets[r], "batch", profiles[1])]
  IN  FoldLeft(LAMBDA s, p : Rescue(graph, targets, s, p),
               Primary(graph, targets, Forced(decoded)), Tail(profiles)).rows

-----------------------------------------------------------------------------
(* The promise.                                                            *)

\* One row of a batch against the same word alone.
RowIsShot(graph, target, row, shot) ==
  LET zero == \A c \in DOMAIN target : target[c] = 0
  IN  /\ row.success = shot.success /\ row.work = shot.work
      /\ ~zero => row.stage = shot.stage
      /\ zero => row.stage = "S1W" /\ shot.stage = "S0"
      /\ row.success => row.correction = shot.correction /\ SyndromeBits(graph, row.correction) = target
      /\ ~row.success => shot.correction = {}

\* What decode_wide_batch does not refuse: rows of bits for the checks of one graph, under
\* profiles that begin with the primary one.  Their priors are of the same faults, and none is
\* negative: a fault is the rarer case.
IsShotBatch(graph, targets, profiles) ==
  /\ profiles # <<>> /\ profiles[1].stage = "S1W"
  /\ profiles \in Seq([stage : STRING, prior : Seq(Nat), budget : Nat,
                       schedule : [kind : STRING, direction : Directions,
                                   lanes : Seq(Seq(Nat)), stride : Nat]])
  /\ graph \in Seq(Seq(DOMAIN profiles[1].prior)) /\ targets \in Seq([DOMAIN graph -> 0 .. 1])
  /\ \A c \in DOMAIN graph : Len(graph[c]) >= 2 /\ IsInjective(graph[c])
  /\ \A k \in DOMAIN profiles : /\ DOMAIN profiles[k].prior = DOMAIN profiles[1].prior
                                /\ IsSchedule(profiles[k].schedule, Len(graph))

\* While no posterior can come near the limits, where the two updates part, every row of a
\* batch is decoded as if it were alone: by the same profile, with the same correction, for the
\* same work, whatever the other rows need.  Two differences are the code's own: a row that
\* failed keeps the correction of its last attempt, and a zero word is not special in a batch,
\* where it comes out as a decode of no work and no correction.  A success always meets its own
\* word, and the work is that of every profile tried.
RowsAreShots(graph, targets, profiles) ==
  (\A k \in DOMAIN profiles : Roomy(graph, profiles[k].prior)) =>
    LET rows == Forced(DecodeBatch(graph, targets, profiles))
    IN  \A r \in DOMAIN targets :
          RowIsShot(graph, targets[r], rows[r], DecodeOne(graph, targets[r], profiles))
=============================================================================

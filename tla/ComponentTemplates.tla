-------------------------- MODULE ComponentTemplates --------------------------
(***************************************************************************)
(* The S1 template images and the automorphisms lifted to a detector error *)
(* model: gross144_component_templates.py (the circuit adapter's layout,   *)
(* faults told apart by their detectors), paper_gross144_component_        *)
(* templates.py (the paper's layout, by detectors and prior) and the trial *)
(* actions of paper_gross144.py and gross144_memory.py.                    *)
(*                                                                         *)
(* The flavour of an image is "adapter" or "paper"; error models and       *)
(* coordinates are those of QuotientImage.                                 *)
(***************************************************************************)
EXTENDS QuotientImage, Evaluation

\* The two lanes work on different checks of a slice.
ASSUME LanesAssumption == GroupOrder > 1

Response(dem, flavour, v) == IF flavour = "paper" THEN Key(dem[v]) ELSE dem[v].mask

\* What a fault answers when every slice is moved: _map_detector_mask.
MovedResponse(dem, flavour, v, by) ==
  IF flavour = "paper" THEN <<Translate(dem[v].mask, by), dem[v].prior>>
  ELSE Translate(dem[v].mask, by)

\* A table from responses to faults; the adapter's keeps the last of two equal ones.
Lookup(dem, flavour, response) ==
  Max({0} \cup {w \in DOMAIN dem : Response(dem, flavour, w) = response})

\* One translation lifted to the faults; 0 where it leaves the image.
Lifted(dem, flavour, by) ==
  [v \in DOMAIN dem |-> Lookup(dem, flavour, MovedResponse(dem, flavour, v, by))]

\* graph.preserves_graph: a permutation that takes every row to the moved row.
LiftIsValid(dem, action, by) ==
  /\ Range(action) = DOMAIN dem
  /\ \A d \in Detectors :
       {action[v] : v \in ToSet(Neighbors(dem, d))} =
         ToSet(Neighbors(dem, SliceOf(d) * GroupOrder + Add(d % GroupOrder, by)))

\* _full_component_actions and _full_translation_actions: all lifts, none refused.
FullActionsAccepted(dem, flavour) ==
  LET lifts == [by \in Coordinates |-> Lifted(dem, flavour, by)]
  IN  /\ flavour = "paper" => ~Ambiguous(dem)
      /\ \A by \in Coordinates : LiftIsValid(dem, lifts[by], by)
      /\ IsInjective(lifts)

\* _compile_paper_automorphisms and _build_component_automorphisms lift the
\* trials only; the adapter compares the priors afterwards.
TrialActionsAccepted(dem, flavour, trials) ==
  /\ flavour = "paper" => ~Ambiguous(dem)
  /\ \A by \in trials :
       LET action == Lifted(dem, flavour, by)
       IN  /\ LiftIsValid(dem, action, by)
           /\ \A v \in DOMAIN dem : dem[action[v]].prior = dem[v].prior

\* Orbits are the images of the least fault left under the lifts.
AddLiftedOrbit(dem, lifts, s, id) ==
  IF ~s.ok \/ s.left = {} THEN s
  ELSE LET rep   == Min(s.left)
           orbit == {lifts[by][rep] : by \in Coordinates}
       IN  IF Cardinality(orbit) # GroupOrder THEN [s EXCEPT !.ok = FALSE]
           ELSE [s EXCEPT !.left = @ \ orbit, !.count = @ + 1,
                          !.at = [v \in DOMAIN @ \cup orbit |->
                                    IF v \in orbit
                                    THEN <<id, CHOOSE by \in Coordinates : lifts[by][rep] = v>>
                                    ELSE @[v]]]

LiftedOrbits(dem, flavour) ==
  LET lifts == [by \in Coordinates |-> Lifted(dem, flavour, by)]
  IN  FoldLeft(LAMBDA s, id : AddLiftedOrbit(dem, lifts, s, id - 1),
               [ok |-> TRUE, left |-> DOMAIN dem, count |-> 0, at |-> <<>>],
               [i \in 1 .. Len(dem) |-> i])

\* The two checks half the torus apart are updated together.
LanesDisjoint(dem) ==
  \A t \in Times, c \in 0 .. (GroupOrder \div 2) - 1 :
    ToSet(Neighbors(dem, t * GroupOrder + c))
      \cap ToSet(Neighbors(dem, t * GroupOrder + c + GroupOrder \div 2)) = {}

\* _bank_schedule: a seeded search for colours in which no template has more
\* edges in a bank than the widest template needs; any that reach this bound.
LowerBound(templates) ==
  Max({(Len(templates[t]) + BankCount - 1) \div BankCount : t \in Times})
AllColourings(orbits) == [0 .. orbits - 1 -> 0 .. BankCount - 1]
Colourings(templates, orbits) ==
  {c \in AllColourings(orbits) : Objective(templates, c)[1] = LowerBound(templates)}

\* A row read from its template is the row of the graph, in any order.
RowsAreExact(dem, rows, at) ==
  \A t \in Times, c \in Coordinates :
    ToSet(CompactNeighbors(rows, t, c)) =
      {Address(at[v]) : v \in ToSet(Neighbors(dem, t * GroupOrder + c))}

\* The image over the lifted orbits s where the search reaches the bound, which
\* it cannot without a colouring.
LiftedImage(dem, s) ==
  LET rows == [templates |-> Templates(dem, s.at)]
      colourings == Colourings(rows.templates, s.count)
  IN  IF ~s.ok THEN Refused
      ELSE IF ~RowsAreExact(dem, rows, s.at) \/ colourings = {} \/ ~LanesDisjoint(dem) THEN Refused
      ELSE [accepted |-> TRUE, at |-> s.at, orbits |-> s.count,
            templates |-> rows.templates, colourings |-> colourings]

ComponentImage(dem, flavour) ==
  IF ~FullActionsAccepted(dem, flavour) THEN Refused
  ELSE LiftedImage(dem, LiftedOrbits(dem, flavour))

\* The search gives up after 10,000 attempts, wherever it is then; it is sure to
\* reach the bound only if every colouring does, so that it starts there.  (The
\* switch that takes a worse schedule, allow_suboptimal_bank_schedule, is off.)
MayGiveUp(image) == image.accepted /\ image.colourings # AllColourings(image.orbits)

\* compile_component_templates, compile_paper_stage1_component_templates.
CompiledImages(dem, flavour) ==
  LET image == ComponentImage(dem, flavour)
  IN  {image} \cup (IF MayGiveUp(image) THEN {Refused} ELSE {})

-----------------------------------------------------------------------------
(* The promise.                                                            *)

\* The S1 and the S2 compiler store one model as one image.  The paper flavour
\* can be accepted exactly if the S2 image is, its lanes are disjoint and a
\* colouring reaches the lower bound; whether it is lies with a bounded search
\* unless every colouring does.  Where it is accepted, faults have the addresses
\* and the templates of the S2 image; so has the adapter's whenever both are
\* accepted.  In an accepted image a lifted translation only adds to the
\* coordinate, which is all the hardware does, so that the two lanes write
\* disjoint addresses and every row takes at most the lower bound of beats; and
\* every choice of trial translations lifts, except by a prior the adapter's
\* image cannot see.
CompilersAgree(dem, full, images) ==
  LET same(a, b) == a.at = b.at /\ a.templates = b.templates /\ a.orbits = b.orbits
      accepted(f) == {image \in images[f] : image.accepted}
      reaches(image, t, c) == ToSet(CompactNeighbors(image, t, c))
  IN  /\ accepted("paper") # {} <=>
           full.accepted /\ LanesDisjoint(dem) /\ Colourings(full.templates, full.orbits) # {}
      /\ accepted("paper") = images["paper"] <=>
           /\ full.accepted /\ LanesDisjoint(dem)
           /\ Colourings(full.templates, full.orbits) = AllColourings(full.orbits)
      /\ \A image \in accepted("paper") : same(image, full)
      /\ \A a \in accepted("adapter"), p \in accepted("paper") : same(a, p)
      /\ \A f \in DOMAIN images : \A image \in accepted(f) :
           /\ \A v \in DOMAIN dem, by \in Coordinates :
                image.at[Lifted(dem, f, by)[v]] = <<image.at[v][1], Add(image.at[v][2], by)>>
           /\ \A t \in Times, c \in Coordinates :
                reaches(image, t, c)
                  \cap reaches(image, t, Add(c, GroupOrder \div 2)) = {}
           /\ \A colors \in image.colourings, t \in Times :
                Len(Beats(image.templates[t], colors)) <= LowerBound(image.templates)
           /\ \A trials \in SUBSET Coordinates :
                TrialActionsAccepted(dem, f, trials)
                  \/ \E v \in DOMAIN dem, by \in trials :
                       f = "adapter" /\ dem[Lifted(dem, f, by)[v]].prior # dem[v].prior
ComponentImageIsExact(dem) ==
  CompilersAgree(dem, Compile(dem),
                 Forced([f \in {"adapter", "paper"} |-> CompiledImages(dem, f)]))
=============================================================================

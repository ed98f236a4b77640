---------------------------- MODULE QuotientImage ----------------------------
(***************************************************************************)
(* The S2 template image: the full detector error model stored once per    *)
(* orbit of the code's spatial translations, and the four-bank packing of  *)
(* its rows (paper_gross144_stage2.py).                                    *)
(*                                                                         *)
(* A detector is slice * GROUP_ORDER + coordinate, a coordinate is         *)
(* x * YDim + y.  An error model is a sequence of faults, each a record of *)
(* its detector set (mask), its prior and its logical mask; priors and     *)
(* logical masks are numbers that are only compared.                       *)
(***************************************************************************)
EXTENDS Integers, Sequences, FiniteSets, FiniteSetsExt, SequencesExt, Evaluation

CONSTANTS
  XDim, YDim,           \* the torus of translations (12 by 6)
  Slices,               \* detector-time slices (24)
  BankCount             \* posterior banks (4)

ASSUME TorusAssumption ==
  /\ XDim \in Nat \ {0} /\ YDim \in Nat \ {0} /\ Slices \in Nat \ {0}
  /\ BankCount \in Nat \ {0} /\ XDim % BankCount = 0

GroupOrder  == XDim * YDim
Coordinates == 0 .. GroupOrder - 1
Times       == 0 .. Slices - 1
Detectors   == 0 .. Slices * GroupOrder - 1

\* _add_coordinates: componentwise on the torus.
Add(a, b) ==
  (((a \div YDim) + (b \div YDim)) % XDim) * YDim + (((a % YDim) + (b % YDim)) % YDim)

\* Error models, whatever their priors are.
Models(Priors) == Seq([mask : SUBSET Detectors, prior : Priors, logical : Nat])

\* _translation_permutations: every slice is translated alike.
Translate(mask, by) ==
  {(d \div GroupOrder) * GroupOrder + Add(d % GroupOrder, by) : d \in mask}

-----------------------------------------------------------------------------
(* Compiling: compile_paper_gross144_stage2_templates.                     *)

Refused == [accepted |-> FALSE]          \* one of the ValueErrors

\* _fault_response_keys: what a fault does and how likely it is.
Key(fault) == <<fault.mask, fault.prior>>
Ambiguous(dem) == ~IsInjective([v \in DOMAIN dem |-> Key(dem[v])])

\* The translation forgets that a fault has a prior.
TranslatedIgnoringPrior(dem, v, by) ==
  {w \in DOMAIN dem : dem[w].mask = Translate(dem[v].mask, by)}

\* _translated_variable: the faults that answer like v translated (at most
\* one when the model is not ambiguous).
Translated(dem, v, by) ==
  {w \in DOMAIN dem : Key(dem[w]) = <<Translate(dem[v].mask, by), dem[v].prior>>}

\* Orbit by orbit, from the least fault that has none: at[v] is its orbit and
\* its coordinate in it.
AddOrbit(dem, s, id) ==
  IF ~s.ok \/ s.left = {} THEN s
  ELSE LET rep    == Min(s.left)
           image  == [by \in Coordinates |-> Translated(dem, rep, by)]
           orbit  == UNION Range(image)
       IN  IF (\E by \in Coordinates : image[by] = {}) \/ Cardinality(orbit) # GroupOrder
           THEN [s EXCEPT !.ok = FALSE]
           ELSE [s EXCEPT !.left = @ \ orbit, !.reps = Append(@, rep),
                          !.at = [v \in DOMAIN @ \cup orbit |->
                                    IF v \in orbit
                                    THEN <<id, CHOOSE by \in Coordinates : v \in image[by]>>
                                    ELSE @[v]]]

Orbits(dem) ==
  FoldLeft(LAMBDA s, id : AddOrbit(dem, s, id - 1),
           [ok |-> TRUE, left |-> DOMAIN dem, reps |-> <<>>, at |-> <<>>],
           [i \in 1 .. Len(dem) |-> i])

\* The numbers of a set in their order.
InOrder(S) ==
  Forced([k \in 1 .. Cardinality(S) |-> CHOOSE x \in S : Cardinality({y \in S : y < x}) = k - 1])

Address(place) == place[1] * GroupOrder + place[2]

\* The faults on one detector, in the order of the model.
Neighbors(dem, detector) == InOrder({v \in DOMAIN dem : detector \in dem[v].mask})

\* The row of a slice is the row of its check at the origin.
Templates(dem, at) ==
  [t \in Times |-> LET row == Neighbors(dem, t * GroupOrder)
                   IN  [e \in DOMAIN row |-> at[row[e]]]]

\* _compact_neighbors: one check row, expanded from its template.
CompactNeighbors(image, t, c) ==
  LET row == image.templates[t]
  IN  [e \in DOMAIN row |-> row[e][1] * GroupOrder + Add(row[e][2], c)]

SliceOf(detector) == detector \div GroupOrder
FirstSlice(mask) == Min({SliceOf(d) : d \in mask})
LastSlice(mask)  == Max({SliceOf(d) : d \in mask})

\* The distinct patterns of n orbits, in the order they are met.
Listed(pattern, n) ==
  FoldLeft(LAMBDA ps, o : IF Contains(ps, pattern[o - 1]) THEN ps ELSE Append(ps, pattern[o - 1]),
           <<>>, [i \in 1 .. n |-> i])

\* The logical projection is not translation invariant: one label per fault,
\* kept as one template per distinct label pattern of an orbit.
Labels(dem, at, orbits) ==
  LET dictionary == InOrder({dem[v].logical : v \in DOMAIN dem})
      faultAt    == [a \in 0 .. Len(dem) - 1 |-> CHOOSE v \in DOMAIN dem : Address(at[v]) = a]
      label(a)   == CHOOSE l \in DOMAIN dictionary : dictionary[l] = dem[faultAt[a]].logical
      pattern    == Forced([o \in 0 .. orbits - 1 |->
                              [c \in Coordinates |-> label(o * GroupOrder + c)]])
      patterns   == Listed(pattern, orbits)
  IN  [dictionary |-> dictionary, labelTemplates |-> patterns,
       labelIds   |-> [o \in 0 .. orbits - 1 |->
                         CHOOSE i \in DOMAIN patterns : patterns[i] = pattern[o]]]

\* The image over the orbits s, if every row of the model is its template moved.
ImageOf(dem, s) ==
  LET rows == [templates |-> Templates(dem, s.at)]
      rep(o) == dem[s.reps[o + 1]]
      ids  == 0 .. Len(s.reps) - 1
      labels == Labels(dem, s.at, Len(s.reps))
      exact == \A t \in Times, c \in Coordinates :
                 ToSet(CompactNeighbors(rows, t, c)) =
                   {Address(s.at[v]) : v \in ToSet(Neighbors(dem, t * GroupOrder + c))}
  IN  IF ~s.ok THEN Refused
      ELSE IF ~exact THEN Refused
      ELSE [accepted |-> TRUE, at |-> s.at, orbits |-> Len(s.reps),
            templates |-> rows.templates,
            prior |-> [o \in ids |-> rep(o).prior],
            start |-> [o \in ids |-> FirstSlice(rep(o).mask)],
            end   |-> [o \in ids |-> LastSlice(rep(o).mask)],
            dictionary |-> labels.dictionary, labelTemplates |-> labels.labelTemplates,
            labelIds |-> labels.labelIds]

Compile(dem) == IF Ambiguous(dem) THEN Refused ELSE ImageOf(dem, Orbits(dem))

\* The logical mask of one address, through the dictionary: _compact_logicals.
LogicalMask(image, orbit, c) ==
  image.dictionary[image.labelTemplates[image.labelIds[orbit]][c]]

\* _compact_syndrome: replay of a correction (a set of addresses).
CompactSyndrome(image, correction) ==
  {tc[1] * GroupOrder + tc[2] : tc \in
     {tc \in Times \X Coordinates :
        Cardinality(correction \cap ToSet(CompactNeighbors(image, tc[1], tc[2]))) % 2 = 1}}

-----------------------------------------------------------------------------
(* Banking: _four_bank_schedule.                                           *)

Bank(colors, orbit, coordinate) == (colors[orbit] + coordinate \div YDim) % BankCount

\* How many edges of each template fall into each bank.
Occupancy(templates, colors) ==
  [t \in Times |-> [b \in 0 .. BankCount - 1 |->
     Cardinality({e \in DOMAIN templates[t] :
                    Bank(colors, templates[t][e][1], templates[t][e][2]) = b})]]

\* The fullest bank of any template, then the sum of squares.
Objective(templates, colors) ==
  LET o == Occupancy(templates, colors)
      cells == Times \X (0 .. BankCount - 1)
  IN  <<Max({o[tb[1]][tb[2]] : tb \in cells}),
        MapThenSumSet(LAMBDA tb : o[tb[1]][tb[2]] * o[tb[1]][tb[2]], cells)>>

Less(p, q) == p[1] < q[1] \/ (p[1] = q[1] /\ p[2] < q[2])

\* One step of the coordinate descent: the first of the best colours.
Recolor(templates, colors, orbit) ==
  LET cost(c) == Objective(templates, [colors EXCEPT ![orbit] = c])
  IN  [colors EXCEPT ![orbit] =
         Min({c \in 0 .. BankCount - 1 :
                \A d \in 0 .. BankCount - 1 : ~Less(cost(d), cost(c))})]

\* The k-th edge of every bank, as <<bank, edge>> pairs; bank is a function of the edges.
Packed(bank) ==
  LET rank == Forced([e \in DOMAIN bank |-> Cardinality({o \in 1 .. e : bank[o] = bank[e]})])
  IN  [k \in 1 .. Max({0} \cup Range(rank)) |->
         {<<bank[e], e>> : e \in {o \in DOMAIN bank : rank[o] = k}}]

\* Packing looks at the colour of the orbit only.
BeatsByColor(row, colors) == Packed([e \in DOMAIN row |-> colors[row[e][1]]])

\* The beats of a row.
Beats(row, colors) == Packed([e \in DOMAIN row |-> Bank(colors, row[e][1], row[e][2])])

-----------------------------------------------------------------------------
(* The promises.                                                           *)

Closed(dem) ==
  \A v \in DOMAIN dem, by \in Coordinates :
    \E w \in DOMAIN dem : Key(dem[w]) = <<Translate(dem[v].mask, by), dem[v].prior>>

Free(dem) ==
  \A v \in DOMAIN dem, by \in Coordinates \ {0} : Translate(dem[v].mask, by) # dem[v].mask

\* An error model is refused only when the translations do not act freely on
\* it, and an accepted image is the model: the addresses number its faults,
\* every expanded row is the detector's row, every address has its fault's
\* logical mask, and the lifetime of an orbit covers every slice of its faults.
IsImageOf(image, dem) ==
  LET address(v) == Address(image.at[v])
  IN  /\ image.accepted = (~Ambiguous(dem) /\ Closed(dem) /\ Free(dem))
      /\ image.accepted =>
           /\ {address(v) : v \in DOMAIN dem} = 0 .. Len(dem) - 1
           /\ \A v \in DOMAIN dem :
                /\ {tc[1] * GroupOrder + tc[2] : tc \in
                      {tc \in Times \X Coordinates :
                         address(v) \in ToSet(CompactNeighbors(image, tc[1], tc[2]))}}
                     = dem[v].mask
                /\ LogicalMask(image, image.at[v][1], image.at[v][2]) = dem[v].logical
                /\ image.prior[image.at[v][1]] = dem[v].prior
                /\ \A d \in dem[v].mask :
                     SliceOf(d) \in image.start[image.at[v][1]] .. image.end[image.at[v][1]]
ImageIsExact(dem) == IsImageOf(Compile(dem), dem)

\* How many edges the beats hold together.
EdgesIn(beats) == MapThenSumSet(LAMBDA k : Cardinality(beats[k]), DOMAIN beats)

\* Whatever colours the descent ends on: no step of it makes the schedule
\* worse, the beats hold every edge of a row once, and no two edges of a beat
\* meet in a bank, for the template itself and for every check it is expanded
\* to.  (The bank of an expanded edge is its orbit's colour plus its own x
\* coordinate: the rows of the other checks are packed only because BankCount
\* divides XDim.)
BeatsNeverCollide(image) ==
  image.accepted => \A colors \in [0 .. image.orbits - 1 -> 0 .. BankCount - 1] :
    /\ \A o \in DOMAIN colors :
         ~Less(Objective(image.templates, colors),
               Objective(image.templates, Recolor(image.templates, colors, o)))
    /\ \A t \in Times :
         LET row   == image.templates[t]
             beats == Beats(row, colors)
         IN  /\ EdgesIn(beats) = Len(row)
             /\ UNION {{be[2] : be \in beats[k]} : k \in DOMAIN beats} = DOMAIN row
             /\ \A k \in DOMAIN beats, c \in Coordinates :
                  Cardinality({Bank(colors, row[be[2]][1], Add(row[be[2]][2], c))
                                 : be \in beats[k]}) = Cardinality(beats[k])
BanksNeverCollide(dem) == BeatsNeverCollide(Compile(dem))
=============================================================================

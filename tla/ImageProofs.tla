----------------------------- MODULE ImageProofs -----------------------------
(***************************************************************************)
(* What TLAPS proves of the images that the library compiles, and of the   *)
(* decoding of Stage 2 on them.                                            *)
(*                                                                         *)
(* ImageExact and BankingSound (QuotientImage): for every torus and every  *)
(* error model the S2 templates are compiled exactly when the translations *)
(* act freely on the model, what they expand to is the model, and no two   *)
(* edges of a beat meet in a bank. The argument: faults are told apart by  *)
(* what they answer, the translations act on the answers as the torus does *)
(* on itself, and the grouping runs through whole orbits, each the torus   *)
(* moved once.                                                             *)
(*                                                                         *)
(* StreamIsSweep (StreamedS2): for every compiled model and every target   *)
(* the streamed pass is one sweep of the wide decoder. The argument: an    *)
(* orbit is untouched outside its lifetime, so that a first visit takes    *)
(* nothing out and a retired fault has said its last; what the records     *)
(* hold after k rows is what the decoder holds after the checks of those   *)
(* rows.                                                                   *)
(*                                                                         *)
(* DeferralsAreFinal and RetriesAreSafe (StreamedS2): for every template   *)
(* image, target and portfolio of profiles, by the inductive invariant     *)
(* TailInv: a deferral is final, a repair changes no observable, the       *)
(* completions are those the cycle plan charges, and the retries never     *)
(* cost the answer.                                                        *)
(*                                                                         *)
(* CircuitsAlwaysRoundTrip (GariCompile): for every circuit, every         *)
(* renumbering of its faults and every choice of overrides, a GARI image   *)
(* decides for its circuit. The argument: the rows of the transpose list   *)
(* every touching fault once, so that the renumbering is a bijection under *)
(* which parities agree.                                                   *)
(*                                                                         *)
(* ComponentsExact (ComponentTemplates): the S1 and the S2 compilers store *)
(* a model that has a fault as one image, on which the addition of         *)
(* coordinates is the translation of the faults. The argument: the S1      *)
(* grouping follows the S2 grouping orbit by orbit, and the adapter's      *)
(* image is that of the model without its priors.                          *)
(*                                                                         *)
(* The last section states the promises of the jobs with them:             *)
(* BeatsAlwaysConflictFree, CircuitsAlwaysRoundTrip,                       *)
(* PassesAndBatchesAlwaysAgree, ImagesAlwaysExact.                         *)
(***************************************************************************)
EXTENDS DecoderProofs

-----------------------------------------------------------------------------
(* Quotients and remainders.                                               *)

\* A remainder of a sum of two remainders.
LEMMA ModOfSum ==
  ASSUME NEW n \in Nat \ {0}, NEW p \in 0 .. n - 1, NEW q \in 0 .. n - 1
  PROVE  /\ (p + q) % n = IF p + q < n THEN p + q ELSE p + q - n
         /\ (p + q) % n \in 0 .. n - 1
OBVIOUS

-----------------------------------------------------------------------------
(* Coordinates, and what a translation does to a detector.                 *)

LEMMA Sizes == GroupOrder \in Nat \ {0} /\ 0 \in Coordinates /\ Coordinates \subseteq Nat
<1>1. XDim * YDim \in Nat \ {0}
  BY TorusAssumption
<1> QED
  BY <1>1 DEF GroupOrder, Coordinates

\* A coordinate is a place on the torus.
LEMMA CoordinateParts ==
  ASSUME NEW c \in Coordinates
  PROVE  /\ c \div YDim \in 0 .. XDim - 1 /\ c % YDim \in 0 .. YDim - 1
         /\ c = (c \div YDim) * YDim + (c % YDim)
<1> DEFINE q == c \div YDim
           r == c % YDim
<1>1. c \in Nat /\ c < XDim * YDim
  BY TorusAssumption DEF Coordinates, GroupOrder
<1>2. q \in Nat /\ r \in 0 .. YDim - 1 /\ c = q * YDim + r
  BY <1>1, TorusAssumption, DivModOf
<1> HIDE DEF q, r
<1>3. q < XDim
  BY <1>1, <1>2, TorusAssumption
<1>4. q \in 0 .. XDim - 1
  BY <1>2, <1>3, TorusAssumption
<1> QED
  BY <1>2, <1>4 DEF q, r

LEMMA CoordinateOf ==
  ASSUME NEW p \in 0 .. XDim - 1, NEW q \in 0 .. YDim - 1
  PROVE  /\ p * YDim + q \in Coordinates
         /\ (p * YDim + q) \div YDim = p /\ (p * YDim + q) % YDim = q
<1>1. p * YDim + q \in Nat /\ p * YDim + q < XDim * YDim
  BY TorusAssumption
<1>2. (p * YDim + q) \div YDim = p /\ (p * YDim + q) % YDim = q
  BY TorusAssumption, DivMod
<1> QED
  BY <1>1, <1>2, TorusAssumption DEF Coordinates, GroupOrder

\* The parts of a sum are the sums of the parts, on the torus.
LEMMA AddParts ==
  ASSUME NEW a \in Coordinates, NEW b \in Coordinates
  PROVE  /\ Add(a, b) \in Coordinates
         /\ Add(a, b) \div YDim = ((a \div YDim) + (b \div YDim)) % XDim
         /\ Add(a, b) % YDim = ((a % YDim) + (b % YDim)) % YDim
<1> DEFINE p == ((a \div YDim) + (b \div YDim)) % XDim
           q == ((a % YDim) + (b % YDim)) % YDim
<1>1. p \in 0 .. XDim - 1
  BY CoordinateParts, ModOfSum, TorusAssumption
<1>2. q \in 0 .. YDim - 1
  BY CoordinateParts, ModOfSum, TorusAssumption
<1>3. Add(a, b) = p * YDim + q
  BY DEF Add
<1> HIDE DEF p, q
<1>4. Add(a, b) \in Coordinates /\ Add(a, b) \div YDim = p /\ Add(a, b) % YDim = q
  BY <1>1, <1>2, <1>3, CoordinateOf
<1> QED
  BY <1>4 DEF p, q

\* Coordinates with the same parts are the same.
LEMMA SameParts ==
  ASSUME NEW a \in Coordinates, NEW b \in Coordinates,
         a \div YDim = b \div YDim, a % YDim = b % YDim
  PROVE  a = b
<1>1. a = (a \div YDim) * YDim + (a % YDim) /\ b = (b \div YDim) * YDim + (b % YDim)
  BY CoordinateParts
<1> QED
  BY <1>1

LEMMA AddZero ==
  ASSUME NEW a \in Coordinates
  PROVE  Add(a, 0) = a /\ Add(0, a) = a
<1> DEFINE p == a \div YDim
           q == a % YDim
<1>1. p \in 0 .. XDim - 1 /\ q \in 0 .. YDim - 1 /\ a = p * YDim + q
  BY CoordinateParts
<1>2. 0 \div YDim = 0 /\ 0 % YDim = 0
  BY TorusAssumption
<1>3. Add(a, 0) = ((p + 0) % XDim) * YDim + ((q + 0) % YDim)
      /\ Add(0, a) = ((0 + p) % XDim) * YDim + ((0 + q) % YDim)
  BY <1>2 DEF Add
<1> HIDE DEF p, q
<1>4. (p + 0) % XDim = p /\ (q + 0) % YDim = q /\ (0 + p) % XDim = p /\ (0 + q) % YDim = q
  BY <1>1, TorusAssumption
<1> QED
  BY <1>1, <1>3, <1>4

\* Sums on a cycle of length n associate.
LEMMA ModAssociates ==
  ASSUME NEW n \in Nat \ {0}, NEW p \in 0 .. n - 1, NEW q \in 0 .. n - 1, NEW r \in 0 .. n - 1
  PROVE  (((p + q) % n) + r) % n = (p + ((q + r) % n)) % n
<1> DEFINE s == (p + q) % n
           t == (q + r) % n
<1>1. s \in 0 .. n - 1 /\ s = IF p + q < n THEN p + q ELSE p + q - n
  BY ModOfSum
<1>2. t \in 0 .. n - 1 /\ t = IF q + r < n THEN q + r ELSE q + r - n
  BY ModOfSum
<1> HIDE DEF s, t
<1>3. (s + r) % n = IF s + r < n THEN s + r ELSE s + r - n
  BY <1>1, ModOfSum
<1>4. (p + t) % n = IF p + t < n THEN p + t ELSE p + t - n
  BY <1>2, ModOfSum
<1>5. (s + r) % n = (p + t) % n
  BY <1>1, <1>2, <1>3, <1>4
<1> QED
  BY <1>5 DEF s, t

LEMMA AddAssociates ==
  ASSUME NEW a \in Coordinates, NEW b \in Coordinates, NEW c \in Coordinates
  PROVE  Add(Add(a, b), c) = Add(a, Add(b, c))
<1>1. Add(a, b) \in Coordinates /\ Add(b, c) \in Coordinates
  BY AddParts
<1>2. Add(Add(a, b), c) \in Coordinates /\ Add(a, Add(b, c)) \in Coordinates
  BY <1>1, AddParts
<1>3. Add(Add(a, b), c) \div YDim = Add(a, Add(b, c)) \div YDim
  <2> DEFINE p == a \div YDim
             q == b \div YDim
             r == c \div YDim
  <2>1. p \in 0 .. XDim - 1 /\ q \in 0 .. XDim - 1 /\ r \in 0 .. XDim - 1
    BY CoordinateParts
  <2>2. Add(Add(a, b), c) \div YDim = (((p + q) % XDim) + r) % XDim
    BY <1>1, AddParts
  <2>3. Add(a, Add(b, c)) \div YDim = (p + ((q + r) % XDim)) % XDim
    BY <1>1, AddParts
  <2> HIDE DEF p, q, r
  <2> QED
    BY <2>1, <2>2, <2>3, ModAssociates, TorusAssumption
<1>4. Add(Add(a, b), c) % YDim = Add(a, Add(b, c)) % YDim
  <2> DEFINE p == a % YDim
             q == b % YDim
             r == c % YDim
  <2>1. p \in 0 .. YDim - 1 /\ q \in 0 .. YDim - 1 /\ r \in 0 .. YDim - 1
    BY CoordinateParts
  <2>2. Add(Add(a, b), c) % YDim = (((p + q) % YDim) + r) % YDim
    BY <1>1, AddParts
  <2>3. Add(a, Add(b, c)) % YDim = (p + ((q + r) % YDim)) % YDim
    BY <1>1, AddParts
  <2> HIDE DEF p, q, r
  <2> QED
    BY <2>1, <2>2, <2>3, ModAssociates, TorusAssumption
<1> QED
  BY <1>2, <1>3, <1>4, SameParts

\* The coordinate that takes c back to the origin.
Opposite(c) ==
  (IF c \div YDim = 0 THEN 0 ELSE XDim - (c \div YDim)) * YDim
    + (IF c % YDim = 0 THEN 0 ELSE YDim - (c % YDim))

LEMMA OppositeFacts ==
  ASSUME NEW c \in Coordinates
  PROVE  Opposite(c) \in Coordinates /\ Add(c, Opposite(c)) = 0 /\ Add(Opposite(c), c) = 0
<1> DEFINE p == c \div YDim
           q == c % YDim
           r == IF p = 0 THEN 0 ELSE XDim - p
           s == IF q = 0 THEN 0 ELSE YDim - q
<1>1. p \in 0 .. XDim - 1 /\ q \in 0 .. YDim - 1
  BY CoordinateParts
<1>2. Opposite(c) = r * YDim + s
  BY DEF Opposite
<1>3. Add(c, Opposite(c)) = ((p + (Opposite(c) \div YDim)) % XDim) * YDim
                              + ((q + (Opposite(c) % YDim)) % YDim)
      /\ Add(Opposite(c), c) = (((Opposite(c) \div YDim) + p) % XDim) * YDim
                              + (((Opposite(c) % YDim) + q) % YDim)
  BY DEF Add
<1> HIDE DEF p, q
<1>4. r \in 0 .. XDim - 1 /\ s \in 0 .. YDim - 1
  BY <1>1, TorusAssumption
<1>5. (p + r) % XDim = 0 /\ (r + p) % XDim = 0 /\ (q + s) % YDim = 0 /\ (s + q) % YDim = 0
  BY <1>1, TorusAssumption
<1> HIDE DEF r, s
<1>6. Opposite(c) \in Coordinates /\ Opposite(c) \div YDim = r /\ Opposite(c) % YDim = s
  BY <1>2, <1>4, CoordinateOf
<1>7. Add(c, Opposite(c)) = 0 * YDim + 0 /\ Add(Opposite(c), c) = 0 * YDim + 0
  BY <1>3, <1>5, <1>6
<1> QED
  BY <1>6, <1>7, TorusAssumption

\* A sum is taken back by the opposite, from either side.
LEMMA AddCancels ==
  ASSUME NEW a \in Coordinates, NEW b \in Coordinates, NEW c \in Coordinates
  PROVE  /\ Add(a, b) = Add(a, c) => b = c
         /\ Add(Add(a, Opposite(b)), b) = a
         /\ Add(Add(a, b), Opposite(b)) = a
<1>1. Opposite(a) \in Coordinates /\ Opposite(b) \in Coordinates
  BY OppositeFacts
<1>2. Add(Opposite(a), Add(a, b)) = b /\ Add(Opposite(a), Add(a, c)) = c
  <2>1. Add(Opposite(a), Add(a, b)) = Add(Add(Opposite(a), a), b)
        /\ Add(Opposite(a), Add(a, c)) = Add(Add(Opposite(a), a), c)
    BY <1>1, AddAssociates
  <2> QED
    BY <2>1, OppositeFacts, AddZero
<1>3. Add(Add(a, Opposite(b)), b) = a /\ Add(Add(a, b), Opposite(b)) = a
  <2>1. Add(Add(a, Opposite(b)), b) = Add(a, Add(Opposite(b), b))
        /\ Add(Add(a, b), Opposite(b)) = Add(a, Add(b, Opposite(b)))
    BY <1>1, AddAssociates
  <2> QED
    BY <2>1, OppositeFacts, AddZero
<1> QED
  BY <1>2, <1>3

\* A detector of a slice and a coordinate, and where a translation takes it.
LEMMA DetectorParts ==
  ASSUME NEW d \in Detectors
  PROVE  /\ d \div GroupOrder \in Times /\ d % GroupOrder \in Coordinates
         /\ d = (d \div GroupOrder) * GroupOrder + (d % GroupOrder)
<1> DEFINE g == GroupOrder
           t == d \div g
           c == d % g
<1>1. g \in Nat \ {0} /\ d \in Nat /\ d < Slices * g
  BY Sizes, TorusAssumption DEF Detectors
<1> HIDE DEF g
<1>2. t \in Nat /\ c \in 0 .. g - 1 /\ d = t * g + c
  BY <1>1, DivModOf
<1> HIDE DEF t, c
<1>3. t < Slices
  BY <1>1, <1>2, TorusAssumption
<1>4. t \in Times
  BY <1>2, <1>3, TorusAssumption DEF Times
<1> QED
  BY <1>2, <1>4 DEF g, t, c, Coordinates

LEMMA DetectorOf ==
  ASSUME NEW t \in Times, NEW c \in Coordinates
  PROVE  /\ t * GroupOrder + c \in Detectors
         /\ (t * GroupOrder + c) \div GroupOrder = t /\ (t * GroupOrder + c) % GroupOrder = c
<1> DEFINE g == GroupOrder
<1>1. g \in Nat \ {0} /\ c \in 0 .. g - 1 /\ t \in Nat /\ t < Slices
  BY Sizes, TorusAssumption DEF Coordinates, Times
<1> HIDE DEF g
<1>2. t * g + c \in Nat /\ t * g + c < Slices * g
  BY <1>1, TorusAssumption
<1>3. (t * g + c) \div g = t /\ (t * g + c) % g = c
  BY <1>1, DivMod
<1>4. t * g + c \in 0 .. Slices * g - 1
  BY <1>1, <1>2, TorusAssumption
<1> QED
  BY <1>3, <1>4 DEF g, Detectors

Shift(d, by) == (d \div GroupOrder) * GroupOrder + Add(d % GroupOrder, by)

LEMMA MoveParts ==
  ASSUME NEW d \in Detectors, NEW by \in Coordinates
  PROVE  /\ Shift(d, by) \in Detectors
         /\ Shift(d, by) \div GroupOrder = d \div GroupOrder
         /\ Shift(d, by) % GroupOrder = Add(d % GroupOrder, by)
  BY DetectorParts, DetectorOf, AddParts DEF Shift

LEMMA MoveLaws ==
  ASSUME NEW d \in Detectors, NEW a \in Coordinates, NEW b \in Coordinates
  PROVE  /\ Shift(d, 0) = d
         /\ Shift(Shift(d, a), b) = Shift(d, Add(a, b))
         /\ Shift(Shift(d, a), Opposite(a)) = d /\ Shift(Shift(d, Opposite(a)), a) = d
<1>1. d % GroupOrder \in Coordinates /\ d = (d \div GroupOrder) * GroupOrder + (d % GroupOrder)
  BY DetectorParts
<1>2. Shift(d, 0) = d
  BY <1>1, AddZero DEF Shift
<1>3. ASSUME NEW x \in Coordinates, NEW y \in Coordinates PROVE Shift(Shift(d, x), y) = Shift(d, Add(x, y))
  <2>1. Shift(Shift(d, x), y) = (d \div GroupOrder) * GroupOrder + Add(Add(d % GroupOrder, x), y)
    BY MoveParts DEF Shift
  <2> QED
    BY <1>1, <2>1, AddAssociates DEF Shift
<1>4. Opposite(a) \in Coordinates /\ Add(a, Opposite(a)) = 0 /\ Add(Opposite(a), a) = 0
  BY OppositeFacts
<1> QED
  BY <1>2, <1>3, <1>4

\* Translating a set of detectors.
LEMMA TranslateIsMove ==
  \A mask, by : Translate(mask, by) = {Shift(d, by) : d \in mask}
  BY DEF Translate, Shift

LEMMA TranslateType ==
  ASSUME NEW mask \in SUBSET Detectors, NEW by \in Coordinates
  PROVE  Translate(mask, by) \in SUBSET Detectors
  BY TranslateIsMove, MoveParts

LEMMA TranslateZero ==
  ASSUME NEW mask \in SUBSET Detectors
  PROVE  Translate(mask, 0) = mask
<1>1. \A d \in mask : Shift(d, 0) = d
  BY MoveLaws, Sizes
<1> QED
  BY <1>1, TranslateIsMove

LEMMA TranslateTwice ==
  ASSUME NEW mask \in SUBSET Detectors, NEW a \in Coordinates, NEW b \in Coordinates
  PROVE  Translate(Translate(mask, a), b) = Translate(mask, Add(a, b))
<1>1. \A d \in mask : Shift(Shift(d, a), b) = Shift(d, Add(a, b))
  BY MoveLaws
<1>2. Translate(Translate(mask, a), b) = {Shift(Shift(d, a), b) : d \in mask}
  BY TranslateIsMove
<1>3. Translate(mask, Add(a, b)) = {Shift(d, Add(a, b)) : d \in mask}
  BY TranslateIsMove
<1> QED
  BY <1>1, <1>2, <1>3

LEMMA TranslateMember ==
  ASSUME NEW mask \in SUBSET Detectors, NEW by \in Coordinates, NEW d \in Detectors
  PROVE  Shift(d, by) \in Translate(mask, by) <=> d \in mask
<1>1. ASSUME NEW x \in mask, Shift(x, by) = Shift(d, by) PROVE x = d
  BY <1>1, MoveLaws
<1> QED
  BY <1>1, TranslateIsMove

-----------------------------------------------------------------------------
(* Error models, and faults that answer alike.                             *)

IsModel(dem) ==
  /\ Len(dem) \in Nat /\ DOMAIN dem = 1 .. Len(dem)
  /\ \A v \in DOMAIN dem : dem[v].mask \in SUBSET Detectors /\ dem[v].logical \in Nat

LEMMA ModelFacts ==
  ASSUME NEW Priors, NEW dem \in Models(Priors)
  PROVE  IsModel(dem)
<1> DEFINE F == [mask : SUBSET Detectors, prior : Priors, logical : Nat]
<1>1. dem \in Seq(F)
  BY DEF Models
<1>2. \A x \in F : x.mask \in SUBSET Detectors /\ x.logical \in Nat
  OBVIOUS
<1> HIDE DEF F
<1>3. Len(dem) \in Nat /\ DOMAIN dem = 1 .. Len(dem) /\ \A v \in DOMAIN dem : dem[v] \in F
  BY <1>1
<1> QED
  BY <1>2, <1>3 DEF IsModel

\* w answers like v translated.
AnswersAs(dem, v, by, w) ==
  dem[w].mask = Translate(dem[v].mask, by) /\ dem[w].prior = dem[v].prior

LEMMA TranslatedAnswers ==
  \A dem, v, by : Translated(dem, v, by) = {w \in DOMAIN dem : AnswersAs(dem, v, by, w)}
  BY DEF Translated, Key, AnswersAs

LEMMA KeysDiffer ==
  ASSUME NEW dem, ~Ambiguous(dem), NEW v \in DOMAIN dem, NEW w \in DOMAIN dem,
         dem[v].mask = dem[w].mask, dem[v].prior = dem[w].prior
  PROVE  v = w
  BY DEF Ambiguous, Key, IsInjective

LEMMA AnswersLaws ==
  ASSUME NEW dem, IsModel(dem), NEW v \in DOMAIN dem, NEW w \in DOMAIN dem, NEW x \in DOMAIN dem,
         NEW a \in Coordinates, NEW b \in Coordinates
  PROVE  /\ AnswersAs(dem, v, 0, v)
         /\ AnswersAs(dem, v, a, w) /\ AnswersAs(dem, w, b, x) => AnswersAs(dem, v, Add(a, b), x)
         /\ AnswersAs(dem, v, a, w) => AnswersAs(dem, w, Opposite(a), v)
<1>1. dem[v].mask \in SUBSET Detectors /\ dem[w].mask \in SUBSET Detectors
  BY DEF IsModel
<1>2. AnswersAs(dem, v, 0, v)
  BY <1>1, TranslateZero DEF AnswersAs
<1>3. AnswersAs(dem, v, a, w) /\ AnswersAs(dem, w, b, x) => AnswersAs(dem, v, Add(a, b), x)
  BY <1>1, TranslateTwice DEF AnswersAs
<1>4. AnswersAs(dem, v, a, w) => AnswersAs(dem, w, Opposite(a), v)
  <2>1. Opposite(a) \in Coordinates /\ Add(a, Opposite(a)) = 0
    BY OppositeFacts
  <2>2. Translate(Translate(dem[v].mask, a), Opposite(a)) = dem[v].mask
    BY <1>1, <2>1, TranslateTwice, TranslateZero
  <2> QED
    BY <2>2 DEF AnswersAs
<1> QED
  BY <1>2, <1>3, <1>4

\* Two translations of a fault that answer alike differ by one that leaves it as it is.
LEMMA SameAnswer ==
  ASSUME NEW dem, IsModel(dem), NEW v \in DOMAIN dem, NEW a \in Coordinates, NEW b \in Coordinates,
         Translate(dem[v].mask, a) = Translate(dem[v].mask, b)
  PROVE  /\ Add(a, Opposite(b)) \in Coordinates
         /\ Translate(dem[v].mask, Add(a, Opposite(b))) = dem[v].mask
         /\ Add(a, Opposite(b)) = 0 => a = b
<1>1. dem[v].mask \in SUBSET Detectors
  BY DEF IsModel
<1>2. Opposite(b) \in Coordinates /\ Add(b, Opposite(b)) = 0
  BY OppositeFacts
<1>3. Add(a, Opposite(b)) \in Coordinates
  BY <1>2, AddParts
<1>4. Translate(dem[v].mask, Add(a, Opposite(b))) = dem[v].mask
  <2>1. Translate(Translate(dem[v].mask, a), Opposite(b)) = Translate(dem[v].mask, Add(a, Opposite(b)))
    BY <1>1, <1>2, TranslateTwice
  <2>2. Translate(Translate(dem[v].mask, b), Opposite(b)) = dem[v].mask
    BY <1>1, <1>2, TranslateTwice, TranslateZero
  <2> QED
    BY <2>1, <2>2
<1>5. ASSUME Add(a, Opposite(b)) = 0 PROVE a = b
  <2>1. Add(Add(a, Opposite(b)), b) = a /\ Add(0, b) = b
    BY AddCancels, AddZero
  <2> QED
    BY <1>5, <2>1
<1> QED
  BY <1>3, <1>4, <1>5

-----------------------------------------------------------------------------
(* Orbits.                                                                 *)

\* What AddOrbit looks at.
Images(dem, rep) == [by \in Coordinates |-> Translated(dem, rep, by)]
OrbitOf(dem, rep) == UNION Range(Images(dem, rep))
Spoiled(dem, rep) ==
  (\E by \in Coordinates : Images(dem, rep)[by] = {}) \/ Cardinality(OrbitOf(dem, rep)) # GroupOrder
CoordinateIn(dem, rep, v) == CHOOSE by \in Coordinates : v \in Images(dem, rep)[by]

Ended(s) == ~s.ok \/ s.left = {}

LEMMA AddOrbitCases ==
  ASSUME NEW dem, NEW s, NEW id
  PROVE  AddOrbit(dem, s, id) =
           IF Ended(s) THEN s
           ELSE IF Spoiled(dem, Min(s.left)) THEN [s EXCEPT !.ok = FALSE]
           ELSE [s EXCEPT !.left = @ \ OrbitOf(dem, Min(s.left)),
                          !.reps = Append(@, Min(s.left)),
                          !.at = [v \in DOMAIN @ \cup OrbitOf(dem, Min(s.left)) |->
                                    IF v \in OrbitOf(dem, Min(s.left))
                                    THEN <<id, CoordinateIn(dem, Min(s.left), v)>>
                                    ELSE @[v]]]
  BY DEF AddOrbit, Ended, Spoiled, OrbitOf, CoordinateIn, Images

LEMMA OrbitMembers ==
  ASSUME NEW dem, NEW rep
  PROVE  /\ OrbitOf(dem, rep) \subseteq DOMAIN dem
         /\ \A v \in DOMAIN dem :
              v \in OrbitOf(dem, rep) <=> \E by \in Coordinates : AnswersAs(dem, rep, by, v)
         /\ \A v \in OrbitOf(dem, rep) : /\ CoordinateIn(dem, rep, v) \in Coordinates
                                         /\ AnswersAs(dem, rep, CoordinateIn(dem, rep, v), v)
<1>1. \A v : v \in OrbitOf(dem, rep) <=> \E by \in Coordinates : v \in Images(dem, rep)[by]
  BY DEF OrbitOf, Range, Images
<1>2. \A by \in Coordinates : Images(dem, rep)[by] = {w \in DOMAIN dem : AnswersAs(dem, rep, by, w)}
  BY TranslatedAnswers DEF Images
<1>3. \A v \in OrbitOf(dem, rep) : /\ CoordinateIn(dem, rep, v) \in Coordinates
                                   /\ v \in Images(dem, rep)[CoordinateIn(dem, rep, v)]
  BY <1>1 DEF CoordinateIn
<1> QED
  BY <1>1, <1>2, <1>3

\* The states of the compilation.
OrbitStates(dem) ==
  [ok : BOOLEAN, left : SUBSET DOMAIN dem, reps : Seq(DOMAIN dem),
   at : UNION {[D -> Nat \X Coordinates] : D \in SUBSET DOMAIN dem}]

LEMMA LeastLeft ==
  ASSUME NEW dem, IsModel(dem), NEW left \in SUBSET DOMAIN dem, left # {}
  PROVE  Min(left) \in left /\ Min(left) \in DOMAIN dem
  BY MinOfPositions DEF IsModel

LEMMA StateExcept ==
  ASSUME NEW A, NEW B, NEW C, NEW E, NEW s \in [ok : A, left : B, reps : C, at : E],
         NEW l \in B, NEW r \in C, NEW a \in E
  PROVE  [s EXCEPT !.left = l, !.reps = r, !.at = a] \in [ok : A, left : B, reps : C, at : E]
OBVIOUS

LEMMA AddOrbitType ==
  ASSUME NEW dem, IsModel(dem), NEW s \in OrbitStates(dem), NEW id \in Nat
  PROVE  AddOrbit(dem, s, id) \in OrbitStates(dem)
<1> DEFINE D == DOMAIN dem
           rep == Min(s.left)
           orbit == OrbitOf(dem, rep)
           old == DOMAIN s.at
           at == [v \in old \cup orbit |-> IF v \in orbit THEN <<id, CoordinateIn(dem, rep, v)>> ELSE s.at[v]]
           A == UNION {[E -> Nat \X Coordinates] : E \in SUBSET D}
<1>1. s.ok \in BOOLEAN /\ s.left \in SUBSET D /\ s.reps \in Seq(D) /\ s.at \in A
  BY DEF OrbitStates
<1>2. CASE Ended(s)
  BY <1>2, AddOrbitCases
<1>3. CASE ~Ended(s) /\ Spoiled(dem, rep)
  <2>1. AddOrbit(dem, s, id) = [s EXCEPT !.ok = FALSE]
    BY <1>3, AddOrbitCases
  <2> QED
    BY <2>1 DEF OrbitStates
<1>4. CASE ~Ended(s) /\ ~Spoiled(dem, rep)
  <2>1. rep \in D
    BY <1>1, <1>4, LeastLeft DEF Ended
  <2>2. old \subseteq D /\ s.at \in [old -> Nat \X Coordinates]
    BY <1>1
  <2>3. orbit \subseteq D /\ \A v \in orbit : CoordinateIn(dem, rep, v) \in Coordinates
    BY OrbitMembers
  <2>4. AddOrbit(dem, s, id) = [s EXCEPT !.left = @ \ orbit, !.reps = Append(@, rep), !.at = at]
    BY <1>4, AddOrbitCases
  <2> HIDE DEF rep, orbit, old
  <2>5. at \in [old \cup orbit -> Nat \X Coordinates]
    BY <2>2, <2>3
  <2>6. old \cup orbit \in SUBSET D
    BY <2>2, <2>3
  <2> HIDE DEF at
  <2>7. at \in A
    BY <2>5, <2>6
  <2>8. Append(s.reps, rep) \in Seq(D) /\ s.left \ orbit \in SUBSET D
    BY <1>1, <2>1
  <2>11. s \in [ok : BOOLEAN, left : SUBSET D, reps : Seq(D), at : A]
    BY DEF OrbitStates
  <2> HIDE DEF A, D
  <2>9. [s EXCEPT !.left = @ \ orbit, !.reps = Append(@, rep), !.at = at]
           \in [ok : BOOLEAN, left : SUBSET D, reps : Seq(D), at : A]
    BY <2>7, <2>8, <2>11, StateExcept
  <2> QED
    BY <2>4, <2>9 DEF OrbitStates, A, D
<1> QED
  BY <1>2, <1>3, <1>4

\* f[k] is the state after k steps of the compilation.
Start(dem) == [ok |-> TRUE, left |-> DOMAIN dem, reps |-> <<>>, at |-> <<>>]
IsOrbiting(f, dem) ==
  /\ f[0] = Start(dem)
  /\ \A k \in 1 .. Len(dem) : f[k] = AddOrbit(dem, f[k - 1], k - 1)

LEMMA StartType ==
  ASSUME NEW dem
  PROVE  Start(dem) \in OrbitStates(dem)
<1> DEFINE D == DOMAIN dem
           A == UNION {[E -> Nat \X Coordinates] : E \in SUBSET D}
<1>1. <<>> \in A
  <2>1. <<>> \in [{} -> Nat \X Coordinates] /\ {} \in SUBSET D
    OBVIOUS
  <2> QED
    BY <2>1
<1>2. <<>> \in Seq(D)
  OBVIOUS
<1> HIDE DEF A
<1>3. Start(dem) \in [ok : BOOLEAN, left : SUBSET D, reps : Seq(D), at : A]
  BY <1>1, <1>2 DEF Start
<1> QED
  BY <1>3 DEF A, OrbitStates

LEMMA OrbitsByPosition ==
  ASSUME NEW dem, IsModel(dem)
  PROVE  \E f : IsOrbiting(f, dem) /\ Orbits(dem) = f[Len(dem)]
<1> DEFINE n == Len(dem)
           V == OrbitStates(dem)
           b == Start(dem)
           Next(s, k) == AddOrbit(dem, s, k - 1)
           step == [k \in 1 .. n |-> [s \in V |-> Next(s, k)]]
           Rec(h) == [S \in SUBSET (1 .. n) |-> IF S = {} THEN b ELSE Next(h[S \ {Max(S)}], Max(S))]
<1>1. n \in Nat
  BY DEF IsModel
<1>2. \A k \in 1 .. n : \A s \in V : Next(s, k) \in V
  <2> SUFFICES ASSUME NEW k \in 1 .. n, NEW s \in V PROVE AddOrbit(dem, s, k - 1) \in V
    OBVIOUS
  <2>1. k - 1 \in Nat
    BY <1>1
  <2> QED
    BY <2>1, AddOrbitType
<1>3. IsStep(step, V, n) /\ b \in V
  <2>1. b \in V
    BY StartType
  <2> HIDE DEF V, b, Next, n
  <2> QED
    BY <1>2, <2>1 DEF IsStep
<1>4. PICK g : IsFold(g, V, b, n, step)
  <2> HIDE DEF step, n, V, b
  <2> QED
    BY <1>1, <1>3, FoldExists
<1>5. g = Rec(g)
  <2>1. g \in [SUBSET (1 .. n) -> V] /\ g[{}] = b
    BY <1>4 DEF IsFold
  <2>2. ASSUME NEW S \in SUBSET (1 .. n), S # {} PROVE g[S] = Next(g[S \ {Max(S)}], Max(S))
    <3>1. Max(S) \in 1 .. n /\ S \ {Max(S)} \in SUBSET (1 .. n)
      BY <1>1, <2>2, MaxOfPositions
    <3>2. g[S] = step[Max(S)][g[S \ {Max(S)}]]
      BY <1>4, <2>2 DEF IsFold
    <3> HIDE DEF V, b, Next, n
    <3> QED
      BY <3>1, <3>2, <2>1
  <2> HIDE DEF V, b, Next, n
  <2> QED
    BY <2>1, <2>2
<1> DEFINE id == [i \in 1 .. n |-> i]
           Here(k) == [S \in SUBSET (1 .. n) |->
                         IF S = {} THEN b ELSE AddOrbit(dem, k[S \ {Max(S)}], id[Max(S)] - 1)]
           h == CHOOSE k : k = Here(k)
<1>6. h = Rec(h)
  <2>1. \A S \in SUBSET (1 .. n) : S # {} => id[Max(S)] = Max(S)
    BY <1>1, MaxOfPositions
  <2>2. \A k : Here(k) = Rec(k)
    BY <2>1
  <2> HIDE DEF Here, Rec
  <2>3. h = Here(h)
    BY <1>5, <2>2
  <2> QED
    BY <2>2, <2>3
<1>7. Orbits(dem) = h[1 .. n]
  <2>1. DOMAIN id = 1 .. n
    OBVIOUS
  <2> QED
    BY <2>1 DEF Orbits, FoldLeft, MapThenFoldSet, Start
<1> DEFINE f == [i \in 0 .. n |-> h[1 .. i]]
<1> HIDE DEF h
<1>8. f[0] = b
  <2>1. 1 .. 0 = {}
    OBVIOUS
  <2> HIDE DEF b, Next
  <2> QED
    BY <2>1, <1>6, <1>1
<1>9. ASSUME NEW i \in 1 .. n PROVE f[i] = Next(f[i - 1], i)
  <2>1. Max(1 .. i) = i /\ 1 .. i \in SUBSET (1 .. n) /\ 1 .. i # {} /\ (1 .. i) \ {i} = 1 .. (i - 1)
    BY <1>1, MaxOfInterval
  <2> HIDE DEF b, Next
  <2>2. h[1 .. i] = Next(h[(1 .. i) \ {Max(1 .. i)}], Max(1 .. i))
    BY <1>6, <2>1
  <2>3. h[1 .. i] = Next(h[1 .. (i - 1)], i)
    BY <2>1, <2>2
  <2>4. i \in 0 .. n /\ i - 1 \in 0 .. n
    BY <1>1
  <2> QED
    BY <2>3, <2>4
<1>10. f[n] = h[1 .. n]
  BY <1>1
<1> HIDE DEF f
<1>11. IsOrbiting(f, dem)
  BY <1>8, <1>9 DEF IsOrbiting
<1> QED
  BY <1>7, <1>10, <1>11

\* The fault that answers like rep at each coordinate.
Answerer(dem, rep) == [by \in Coordinates |-> CHOOSE v : v \in Images(dem, rep)[by]]

LEMMA AnswererFacts ==
  ASSUME NEW dem, IsModel(dem), ~Ambiguous(dem), NEW rep \in DOMAIN dem,
         \A by \in Coordinates : Images(dem, rep)[by] # {}
  PROVE  /\ Answerer(dem, rep) \in Surjection(Coordinates, OrbitOf(dem, rep))
         /\ \A by \in Coordinates : AnswersAs(dem, rep, by, Answerer(dem, rep)[by])
         /\ \A by \in Coordinates, v \in DOMAIN dem :
              AnswersAs(dem, rep, by, v) => Answerer(dem, rep)[by] = v
<1> DEFINE g == Answerer(dem, rep)
           O == OrbitOf(dem, rep)
<1>1. \A by \in Coordinates : g[by] \in DOMAIN dem /\ AnswersAs(dem, rep, by, g[by])
  <2> SUFFICES ASSUME NEW by \in Coordinates PROVE g[by] \in DOMAIN dem /\ AnswersAs(dem, rep, by, g[by])
    OBVIOUS
  <2>1. Images(dem, rep)[by] = {w \in DOMAIN dem : AnswersAs(dem, rep, by, w)}
    BY TranslatedAnswers DEF Images
  <2>2. g[by] \in Images(dem, rep)[by]
    BY DEF Answerer
  <2> QED
    BY <2>1, <2>2
<1>2. \A by \in Coordinates, v \in DOMAIN dem : AnswersAs(dem, rep, by, v) => g[by] = v
  <2> SUFFICES ASSUME NEW by \in Coordinates, NEW v \in DOMAIN dem, AnswersAs(dem, rep, by, v)
               PROVE  g[by] = v
    OBVIOUS
  <2>1. dem[g[by]].mask = dem[v].mask /\ dem[g[by]].prior = dem[v].prior
    BY <1>1 DEF AnswersAs
  <2> HIDE DEF g
  <2> QED
    BY <1>1, <2>1, KeysDiffer
<1>3. g \in [Coordinates -> O]
  <2>1. \A by \in Coordinates : g[by] \in O
    BY <1>1, OrbitMembers
  <2>2. DOMAIN g = Coordinates /\ g = [by \in Coordinates |-> g[by]]
    BY DEF Answerer
  <2> HIDE DEF g, O
  <2> QED
    BY <2>1, <2>2
<1>4. \A v \in O : \E by \in Coordinates : g[by] = v
  BY <1>2, OrbitMembers
<1>5. g \in Surjection(Coordinates, O)
  <2> HIDE DEF g, O
  <2> QED
    BY <1>3, <1>4 DEF Surjection
<1> QED
  BY <1>1, <1>2, <1>5

LEMMA CoordinateCount == IsFiniteSet(Coordinates) /\ Cardinality(Coordinates) = GroupOrder
<1>1. GroupOrder \in Nat \ {0} /\ 0 \in Int /\ GroupOrder - 1 \in Int
  BY Sizes
<1> QED
  BY <1>1, FS_Interval DEF Coordinates

\* A representative is not spoiled: every coordinate has its own fault.
LEMMA OwnFaults ==
  ASSUME NEW dem, IsModel(dem), ~Ambiguous(dem), NEW rep \in DOMAIN dem, ~Spoiled(dem, rep)
  PROVE  \A c \in Coordinates : \E v \in OrbitOf(dem, rep) : CoordinateIn(dem, rep, v) = c
<1> DEFINE g == Answerer(dem, rep)
           O == OrbitOf(dem, rep)
<1>1. /\ \A by \in Coordinates : Images(dem, rep)[by] # {}
      /\ Cardinality(O) = GroupOrder
  BY DEF Spoiled
<1>2. /\ g \in Surjection(Coordinates, O)
      /\ \A by \in Coordinates : AnswersAs(dem, rep, by, g[by])
      /\ \A by \in Coordinates, v \in DOMAIN dem : AnswersAs(dem, rep, by, v) => g[by] = v
  BY <1>1, AnswererFacts
<1> HIDE DEF g
<1>3. g \in Injection(Coordinates, O)
  <2> HIDE DEF O
  <2> QED
    BY <1>1, <1>2, CoordinateCount, FS_SurjSameCardinalityImpliesInj
<1> SUFFICES ASSUME NEW c \in Coordinates PROVE \E v \in O : CoordinateIn(dem, rep, v) = c
  OBVIOUS
<1>4. g[c] \in O
  <2> HIDE DEF O
  <2> QED
    BY <1>3 DEF Injection
<1>5. /\ CoordinateIn(dem, rep, g[c]) \in Coordinates /\ AnswersAs(dem, rep, CoordinateIn(dem, rep, g[c]), g[c])
      /\ g[c] \in DOMAIN dem
  BY <1>4, OrbitMembers
<1>6. g[CoordinateIn(dem, rep, g[c])] = g[c]
  BY <1>2, <1>5
<1>7. CoordinateIn(dem, rep, g[c]) = c
  <2> DEFINE p == CoordinateIn(dem, rep, g[c])
  <2>1. p \in Coordinates /\ g[p] = g[c]
    BY <1>5, <1>6
  <2> HIDE DEF p, O
  <2>2. p = c
    BY <1>3, <2>1 DEF Injection, IsInjective
  <2> QED
    BY <2>2 DEF p
<1> QED
  BY <1>4, <1>7

\* A representative is spoiled only if the translations do not act freely.
LEMMA SpoiledIsNotFree ==
  ASSUME NEW dem, IsModel(dem), ~Ambiguous(dem), NEW rep \in DOMAIN dem, Spoiled(dem, rep)
  PROVE  ~(Closed(dem) /\ Free(dem))
<1> SUFFICES ASSUME Closed(dem), Free(dem) PROVE FALSE
  OBVIOUS
<1> DEFINE g == Answerer(dem, rep)
           O == OrbitOf(dem, rep)
<1>1. ASSUME NEW by \in Coordinates PROVE Images(dem, rep)[by] # {}
  BY DEF Closed, Images, Translated
<1>2. /\ g \in Surjection(Coordinates, O)
      /\ \A by \in Coordinates : AnswersAs(dem, rep, by, g[by])
  BY <1>1, AnswererFacts
<1>3. Cardinality(O) # GroupOrder
  BY <1>1 DEF Spoiled
<1> HIDE DEF g
<1>4. ASSUME NEW a \in Coordinates, NEW b \in Coordinates, g[a] = g[b] PROVE a = b
  <2>1. Translate(dem[rep].mask, a) = Translate(dem[rep].mask, b)
    BY <1>2, <1>4 DEF AnswersAs
  <2>2. /\ Add(a, Opposite(b)) \in Coordinates
        /\ Translate(dem[rep].mask, Add(a, Opposite(b))) = dem[rep].mask
        /\ Add(a, Opposite(b)) = 0 => a = b
    BY <2>1, SameAnswer
  <2> QED
    BY <2>2 DEF Free
<1>5. g \in Injection(Coordinates, O)
  <2> HIDE DEF O
  <2> QED
    BY <1>2, <1>4 DEF Injection, Surjection, IsInjective
<1>6. Cardinality(O) = Cardinality(Coordinates)
  <2> HIDE DEF O
  <2> QED
    BY <1>2, <1>5, CoordinateCount, FS_Surjection
<1> QED
  BY <1>3, <1>6, CoordinateCount

\* Every fault of an orbit so far has the place it answers from, and every place is taken.
PlacesKept(dem, s) ==
  /\ \A v \in DOMAIN s.at :
       \E o \in 0 .. Len(s.reps) - 1, c \in Coordinates :
          s.at[v] = <<o, c>> /\ AnswersAs(dem, s.reps[o + 1], c, v)
  /\ \A o \in 0 .. Len(s.reps) - 1, c \in Coordinates : \E v \in DOMAIN s.at : s.at[v] = <<o, c>>

\* The state after k steps.
Orbited(dem, s, k) ==
  /\ s \in OrbitStates(dem)
  /\ s.ok => /\ DOMAIN s.at \subseteq DOMAIN dem /\ s.left = DOMAIN dem \ DOMAIN s.at
             /\ s.left # {} => Len(s.reps) = k
             /\ Cardinality(s.left) <= Len(dem) - k
             /\ PlacesKept(dem, s)
  /\ ~s.ok => ~(Closed(dem) /\ Free(dem))

\* The orbit of a fault that is left is left.
LEMMA OrbitIsLeft ==
  ASSUME NEW dem, IsModel(dem), ~Ambiguous(dem), NEW s \in OrbitStates(dem),
         DOMAIN s.at \subseteq DOMAIN dem, s.left = DOMAIN dem \ DOMAIN s.at, PlacesKept(dem, s),
         NEW rep \in s.left
  PROVE  OrbitOf(dem, rep) \cap DOMAIN s.at = {} /\ rep \in OrbitOf(dem, rep)
<1>0. rep \in DOMAIN dem /\ s.reps \in Seq(DOMAIN dem)
  BY DEF OrbitStates
<1>1. rep \in OrbitOf(dem, rep)
  BY <1>0, AnswersLaws, OrbitMembers, Sizes
<1>2. ASSUME NEW w \in OrbitOf(dem, rep), w \in DOMAIN s.at PROVE FALSE
  <2>1. PICK a \in Coordinates : AnswersAs(dem, rep, a, w)
    BY <1>2, OrbitMembers
  <2>2. PICK o \in 0 .. Len(s.reps) - 1, c \in Coordinates : AnswersAs(dem, s.reps[o + 1], c, w)
    BY <1>2 DEF PlacesKept
  <2> DEFINE r == s.reps[o + 1]
             b == Add(c, Opposite(a))
  <2>3. r \in DOMAIN dem
    BY <1>0
  <2>4. w \in DOMAIN dem
    BY <1>2
  <2>5. AnswersAs(dem, w, Opposite(a), rep) /\ Opposite(a) \in Coordinates
    BY <1>0, <2>1, <2>4, AnswersLaws, OppositeFacts
  <2>6. AnswersAs(dem, r, b, rep) /\ b \in Coordinates
    <3>1. AnswersAs(dem, r, c, w)
      BY <2>2
    <3> HIDE DEF r
    <3> QED
      BY <1>0, <2>3, <2>4, <2>5, <3>1, AnswersLaws, AddParts
  <2> HIDE DEF b
  <2>7. PICK v \in DOMAIN s.at : s.at[v] = <<o, b>>
    BY <2>6 DEF PlacesKept
  <2>8. AnswersAs(dem, r, b, v) /\ v \in DOMAIN dem
    BY <2>7 DEF PlacesKept
  <2>9. v = rep
    BY <1>0, <2>6, <2>8, KeysDiffer DEF AnswersAs
  <2> QED
    BY <2>9
<1> QED
  BY <1>1, <1>2

LEMMA OrbitedStep ==
  ASSUME NEW dem, IsModel(dem), ~Ambiguous(dem), NEW k \in 1 .. Len(dem), NEW s, Orbited(dem, s, k - 1)
  PROVE  Orbited(dem, AddOrbit(dem, s, k - 1), k)
<1> DEFINE rep == Min(s.left)
           O == OrbitOf(dem, rep)
           u == AddOrbit(dem, s, k - 1)
           n == Len(dem)
<1>0. n \in Nat /\ k \in Nat /\ k - 1 \in Nat /\ DOMAIN dem = 1 .. n
  BY DEF IsModel
<1>1. s \in OrbitStates(dem) /\ u \in OrbitStates(dem)
  BY <1>0, AddOrbitType DEF Orbited
<1>2. s.left \in SUBSET DOMAIN dem /\ IsFiniteSet(s.left) /\ s.reps \in Seq(DOMAIN dem)
  <2>1. s.left \in SUBSET DOMAIN dem /\ s.reps \in Seq(DOMAIN dem)
    BY <1>1 DEF OrbitStates
  <2>2. IsFiniteSet(DOMAIN dem)
    BY <1>0, FS_Interval
  <2> QED
    BY <2>1, <2>2, FS_Subset
<1>3. CASE Ended(s)
  <2>1. u = s
    BY <1>3, AddOrbitCases
  <2>2. s.ok => s.left = {}
    BY <1>3 DEF Ended
  <2>3. s.ok => Cardinality(s.left) <= n - k
    BY <1>0, <2>2, FS_EmptySet
  <2> HIDE DEF n
  <2> QED
    BY <2>1, <2>2, <2>3 DEF Orbited, n
<1>4. CASE ~Ended(s) /\ Spoiled(dem, rep)
  <2>1. u = [s EXCEPT !.ok = FALSE]
    BY <1>4, AddOrbitCases
  <2>2. ~u.ok
    BY <1>1, <2>1 DEF OrbitStates
  <2>3. ~(Closed(dem) /\ Free(dem))
    BY <1>2, <1>4, LeastLeft, SpoiledIsNotFree DEF Ended
  <2> QED
    BY <1>1, <2>2, <2>3 DEF Orbited
<1>5. CASE ~Ended(s) /\ ~Spoiled(dem, rep)
  <2> DEFINE at == [v \in DOMAIN s.at \cup O |->
                      IF v \in O THEN <<k - 1, CoordinateIn(dem, rep, v)>> ELSE s.at[v]]
  <2>1. s.ok /\ rep \in s.left /\ rep \in DOMAIN dem
    BY <1>2, <1>5, LeastLeft DEF Ended
  <2>2. u = [s EXCEPT !.left = @ \ O, !.reps = Append(@, rep), !.at = at]
    BY <1>5, AddOrbitCases
  <2>3. u.ok = s.ok /\ u.left = s.left \ O /\ u.reps = Append(s.reps, rep) /\ u.at = at
    <3> HIDE DEF O, rep, at, u
    <3> QED
      BY <1>1, <2>2 DEF OrbitStates
  <2>4. /\ DOMAIN s.at \subseteq DOMAIN dem /\ s.left = DOMAIN dem \ DOMAIN s.at
        /\ Len(s.reps) = k - 1 /\ Cardinality(s.left) <= n - (k - 1) /\ PlacesKept(dem, s)
    BY <1>5, <2>1 DEF Orbited, Ended
  <2>5. O \cap DOMAIN s.at = {} /\ rep \in O
    BY <1>1, <2>1, <2>4, OrbitIsLeft
  <2>6. /\ O \subseteq DOMAIN dem
        /\ \A v \in O : CoordinateIn(dem, rep, v) \in Coordinates /\ AnswersAs(dem, rep, CoordinateIn(dem, rep, v), v)
    BY OrbitMembers
  <2>7. \A c \in Coordinates : \E v \in O : CoordinateIn(dem, rep, v) = c
    BY <1>5, <2>1, OwnFaults
  <2> HIDE DEF O, rep, u
  <2>8. DOMAIN at = DOMAIN s.at \cup O
    OBVIOUS
  <2>9. /\ \A v \in O : at[v] = <<k - 1, CoordinateIn(dem, rep, v)>>
        /\ \A v \in DOMAIN s.at : at[v] = s.at[v]
    BY <2>5
  <2> HIDE DEF at
  <2>10. Len(u.reps) = k /\ u.reps[k] = rep /\ \A i \in 1 .. k - 1 : u.reps[i] = s.reps[i]
    BY <1>0, <1>2, <2>1, <2>3, <2>4
  <2>11. DOMAIN u.at \subseteq DOMAIN dem /\ u.left = DOMAIN dem \ DOMAIN u.at
    BY <2>3, <2>4, <2>6, <2>8
  <2>12. Cardinality(u.left) <= n - k
    <3>1. IsFiniteSet(s.left \ {rep}) /\ Cardinality(s.left \ {rep}) = Cardinality(s.left) - 1
      BY <1>2, <2>1, FS_RemoveElement
    <3>2. u.left \in SUBSET (s.left \ {rep})
      BY <2>3, <2>5
    <3>3. Cardinality(u.left) <= Cardinality(s.left \ {rep}) /\ IsFiniteSet(u.left)
      BY <3>1, <3>2, FS_Subset
    <3> DEFINE x == Cardinality(u.left)
               y == Cardinality(s.left)
    <3>4. x \in Nat /\ y \in Nat
      BY <1>2, <3>3, FS_CardinalityType
    <3>5. x <= y - 1 /\ y <= n - (k - 1)
      BY <2>4, <3>1, <3>3
    <3> HIDE DEF x, y, n
    <3>6. x <= n - k
      BY <1>0, <3>4, <3>5
    <3> QED
      BY <3>6 DEF x
  <2>13. ASSUME NEW v \in DOMAIN u.at
         PROVE  \E o \in 0 .. k - 1, c \in Coordinates : u.at[v] = <<o, c>> /\ AnswersAs(dem, u.reps[o + 1], c, v)
    <3>1. CASE v \in O
      <4>1. u.at[v] = <<k - 1, CoordinateIn(dem, rep, v)>>
        BY <2>3, <2>9, <3>1
      <4>2. k - 1 \in 0 .. k - 1 /\ k - 1 + 1 = k
        BY <1>0
      <4> QED
        BY <2>6, <2>10, <3>1, <4>1, <4>2
    <3>2. CASE v \in DOMAIN s.at
      <4>1. PICK o \in 0 .. k - 1 - 1, c \in Coordinates :
              s.at[v] = <<o, c>> /\ AnswersAs(dem, s.reps[o + 1], c, v)
        BY <2>4, <3>2 DEF PlacesKept
      <4>2. o \in 0 .. k - 1 /\ o + 1 \in 1 .. k - 1
        BY <1>0
      <4>3. u.reps[o + 1] = s.reps[o + 1] /\ u.at[v] = s.at[v]
        BY <2>3, <2>9, <2>10, <3>2, <4>2
      <4> QED
        BY <4>1, <4>2, <4>3
    <3> QED
      BY <2>3, <2>8, <3>1, <3>2
  <2>14. ASSUME NEW o \in 0 .. k - 1, NEW c \in Coordinates PROVE \E v \in DOMAIN u.at : u.at[v] = <<o, c>>
    <3>1. CASE o = k - 1
      <4>1. PICK v \in O : CoordinateIn(dem, rep, v) = c
        BY <2>7
      <4> QED
        BY <2>3, <2>8, <2>9, <3>1, <4>1
    <3>2. CASE o # k - 1
      <4>1. o \in 0 .. k - 1 - 1
        BY <1>0, <3>2
      <4>2. PICK v \in DOMAIN s.at : s.at[v] = <<o, c>>
        BY <2>4, <4>1 DEF PlacesKept
      <4> QED
        BY <2>3, <2>8, <2>9, <4>2
    <3> QED
      BY <3>1, <3>2
  <2>15. PlacesKept(dem, u)
    BY <2>10, <2>13, <2>14 DEF PlacesKept
  <2>16. u.ok
    BY <2>1, <2>3
  <2>17. Orbited(dem, u, k)
    BY <1>1, <2>10, <2>11, <2>12, <2>15, <2>16 DEF Orbited
  <2> QED
    BY <2>17 DEF u
<1> QED
  BY <1>3, <1>4, <1>5

\* All faults have a place.
Numbered(dem, s) ==
  s \in OrbitStates(dem) /\ DOMAIN s.at = DOMAIN dem /\ PlacesKept(dem, s)

LEMMA OrbitsEnd ==
  ASSUME NEW dem, IsModel(dem), ~Ambiguous(dem)
  PROVE  /\ Orbits(dem).ok => Numbered(dem, Orbits(dem))
         /\ Orbits(dem).ok \in BOOLEAN
         /\ ~Orbits(dem).ok => ~(Closed(dem) /\ Free(dem))
<1> DEFINE n == Len(dem)
           s == Orbits(dem)
<1>1. n \in Nat /\ DOMAIN dem = 1 .. n
  BY DEF IsModel
<1>2. PICK f : IsOrbiting(f, dem) /\ s = f[n]
  BY OrbitsByPosition
<1> HIDE DEF s
<1> DEFINE T == {k \in 0 .. n : Orbited(dem, f[k], k)}
<1>3. 0 \in T
  <2> DEFINE b == Start(dem)
  <2>1. f[0] = b
    BY <1>2 DEF IsOrbiting
  <2>2. b \in OrbitStates(dem)
    BY StartType
  <2>3. b.ok /\ b.left = DOMAIN dem /\ Len(b.reps) = 0 /\ DOMAIN b.at = {}
    BY DEF Start
  <2>4. Cardinality(DOMAIN dem) = n - 0
    <3>1. Cardinality(1 .. n) = IF 1 > n THEN 0 ELSE n - 1 + 1
      BY <1>1, FS_Interval
    <3> HIDE DEF n
    <3> QED
      BY <1>1, <3>1
  <2> HIDE DEF b
  <2>5. PlacesKept(dem, b)
    BY <2>3 DEF PlacesKept
  <2>6. Cardinality(b.left) <= n - 0
    <3> HIDE DEF n
    <3> QED
      BY <1>1, <2>3, <2>4
  <2>7. Orbited(dem, b, 0)
    BY <2>2, <2>3, <2>5, <2>6 DEF Orbited
  <2> QED
    BY <1>1, <2>1, <2>7
<1>4. \A k \in 1 .. n : k - 1 \in T => k \in T
  <2> SUFFICES ASSUME NEW k \in 1 .. n, k - 1 \in T PROVE k \in T
    OBVIOUS
  <2>1. f[k] = AddOrbit(dem, f[k - 1], k - 1) /\ k \in 0 .. n
    BY <1>1, <1>2 DEF IsOrbiting
  <2>2. Orbited(dem, f[k - 1], k - 1)
    OBVIOUS
  <2>3. Orbited(dem, AddOrbit(dem, f[k - 1], k - 1), k)
    <3> DEFINE r == f[k - 1]
    <3>1. Orbited(dem, r, k - 1)
      BY <2>2
    <3> HIDE DEF r, T
    <3>2. Orbited(dem, AddOrbit(dem, r, k - 1), k)
      BY <3>1, OrbitedStep
    <3> QED
      BY <3>2 DEF r
  <2> QED
    BY <2>1, <2>3
<1>5. n \in T
  <2> HIDE DEF T, n
  <2> QED
    BY <1>1, <1>3, <1>4, IntervalInduction
<1>6. Orbited(dem, s, n)
  BY <1>2, <1>5
<1>7. s \in OrbitStates(dem) /\ s.ok \in BOOLEAN /\ s.left \in SUBSET DOMAIN dem
  BY <1>6 DEF Orbited, OrbitStates
<1>8. ASSUME s.ok PROVE Numbered(dem, s)
  <2>1. /\ DOMAIN s.at \subseteq DOMAIN dem /\ s.left = DOMAIN dem \ DOMAIN s.at
        /\ Cardinality(s.left) <= n - n /\ PlacesKept(dem, s)
    BY <1>6, <1>8 DEF Orbited
  <2>2. IsFiniteSet(s.left)
    <3>1. IsFiniteSet(DOMAIN dem)
      BY <1>1, FS_Interval
    <3> QED
      BY <1>7, <3>1, FS_Subset
  <2>3. Cardinality(s.left) = 0
    <3> DEFINE x == Cardinality(s.left)
    <3>1. x \in Nat /\ x <= n - n
      BY <2>1, <2>2, FS_CardinalityType
    <3> HIDE DEF x, n
    <3>2. x = 0
      BY <1>1, <3>1
    <3> QED
      BY <3>2 DEF x
  <2>4. s.left = {}
    BY <2>2, <2>3, FS_EmptySet
  <2> QED
    BY <1>7, <2>1, <2>4 DEF Numbered
<1>9. ~s.ok => ~(Closed(dem) /\ Free(dem))
  BY <1>6 DEF Orbited
<1> QED
  BY <1>7, <1>8, <1>9 DEF s

\* A place, and the fault that is moved from it.
LEMMA PlaceFacts ==
  ASSUME NEW dem, IsModel(dem), ~Ambiguous(dem), NEW s, Numbered(dem, s), NEW v \in DOMAIN dem
  PROVE  /\ s.at[v] = <<s.at[v][1], s.at[v][2]>>
         /\ s.at[v][1] \in 0 .. Len(s.reps) - 1 /\ s.at[v][2] \in Coordinates
         /\ s.reps[s.at[v][1] + 1] \in DOMAIN dem
         /\ AnswersAs(dem, s.reps[s.at[v][1] + 1], s.at[v][2], v)
<1>1. PICK o \in 0 .. Len(s.reps) - 1, c \in Coordinates :
        s.at[v] = <<o, c>> /\ AnswersAs(dem, s.reps[o + 1], c, v)
  BY DEF Numbered, PlacesKept
<1>2. s.reps \in Seq(DOMAIN dem)
  BY DEF Numbered, OrbitStates
<1>3. s.reps[o + 1] \in DOMAIN dem
  BY <1>2
<1>4. s.at[v][1] = o /\ s.at[v][2] = c
  BY <1>1
<1> QED
  BY <1>1, <1>3, <1>4

\* No two faults have the same place.
LEMMA PlacesDiffer ==
  ASSUME NEW dem, IsModel(dem), ~Ambiguous(dem), NEW s, Numbered(dem, s),
         NEW v \in DOMAIN dem, NEW w \in DOMAIN dem, s.at[v] = s.at[w]
  PROVE  v = w
<1>1. /\ AnswersAs(dem, s.reps[s.at[v][1] + 1], s.at[v][2], v)
      /\ AnswersAs(dem, s.reps[s.at[v][1] + 1], s.at[v][2], w)
  BY PlaceFacts
<1> QED
  BY <1>1, KeysDiffer DEF AnswersAs

\* w answers like v translated and has its place moved.
MovesTo(dem, s, v, by, w) ==
  AnswersAs(dem, v, by, w) /\ s.at[w] = <<s.at[v][1], Add(s.at[v][2], by)>>

\* The fault at a place moved.
LEMMA MovedPlace ==
  ASSUME NEW dem, IsModel(dem), ~Ambiguous(dem), NEW s, Numbered(dem, s),
         NEW v \in DOMAIN dem, NEW by \in Coordinates
  PROVE  \E w \in DOMAIN dem : MovesTo(dem, s, v, by, w)
<1> DEFINE o == s.at[v][1]
           c == s.at[v][2]
           r == s.reps[o + 1]
<1>1. o \in 0 .. Len(s.reps) - 1 /\ c \in Coordinates /\ r \in DOMAIN dem /\ AnswersAs(dem, r, c, v)
  BY PlaceFacts
<1> HIDE DEF c, r
<1>2. Add(c, by) \in Coordinates
  BY <1>1, AddParts
<1>3. PICK w \in DOMAIN dem : s.at[w] = <<o, Add(c, by)>>
  BY <1>1, <1>2 DEF Numbered, PlacesKept
<1>4. AnswersAs(dem, r, Add(c, by), w)
  <2>1. s.at[w][1] = o /\ s.at[w][2] = Add(c, by)
    BY <1>3
  <2> QED
    BY <2>1, PlaceFacts DEF r
<1>5. AnswersAs(dem, v, by, w)
  <2>1. dem[r].mask \in SUBSET Detectors
    BY <1>1 DEF IsModel
  <2>2. Translate(Translate(dem[r].mask, c), by) = Translate(dem[r].mask, Add(c, by))
    BY <1>1, <2>1, TranslateTwice
  <2> QED
    BY <1>1, <1>4, <2>2 DEF AnswersAs
<1> QED
  BY <1>3, <1>5 DEF c, MovesTo

\* The translations act freely on a numbered model.
LEMMA NumberedIsFree ==
  ASSUME NEW dem, IsModel(dem), ~Ambiguous(dem), NEW s, Numbered(dem, s)
  PROVE  Closed(dem) /\ Free(dem)
<1>1. Closed(dem)
  <2> SUFFICES ASSUME NEW v \in DOMAIN dem, NEW by \in Coordinates
               PROVE  \E w \in DOMAIN dem : Key(dem[w]) = <<Translate(dem[v].mask, by), dem[v].prior>>
    BY DEF Closed
  <2>1. PICK w \in DOMAIN dem : MovesTo(dem, s, v, by, w)
    BY MovedPlace
  <2> QED
    BY <2>1 DEF MovesTo, AnswersAs, Key
<1>2. Free(dem)
  <2> SUFFICES ASSUME NEW v \in DOMAIN dem, NEW by \in Coordinates, by # 0,
                      Translate(dem[v].mask, by) = dem[v].mask
               PROVE  FALSE
    BY DEF Free
  <2>1. PICK w \in DOMAIN dem : MovesTo(dem, s, v, by, w)
    BY MovedPlace
  <2>2. w = v
    BY <2>1, KeysDiffer DEF MovesTo, AnswersAs
  <2> DEFINE c == s.at[v][2]
  <2>3. Add(c, by) = c /\ c \in Coordinates
    BY <2>1, <2>2, PlaceFacts DEF MovesTo
  <2> HIDE DEF c
  <2>4. Add(c, by) = Add(c, 0) /\ 0 \in Coordinates
    BY <2>3, AddZero, Sizes
  <2>5. by = 0
    BY <2>3, <2>4, AddCancels
  <2> QED
    BY <2>5
<1> QED
  BY <1>1, <1>2

-----------------------------------------------------------------------------
(* Numbers in their order.                                                 *)

LEMMA ForcedValue == \A value : Forced(value) = value
BY DEF Forced

LEMMA InOrderFacts ==
  ASSUME NEW S \in SUBSET Nat, IsFiniteSet(S)
  PROVE  /\ Cardinality(S) \in Nat
         /\ InOrder(S) \in [1 .. Cardinality(S) -> S]
         /\ \A x \in S : \E k \in 1 .. Cardinality(S) : InOrder(S)[k] = x
<1> DEFINE below == [x \in S |-> {y \in S : y < x}]
           n == Cardinality(S)
           f == [k \in 1 .. n |-> CHOOSE x \in S : Cardinality({y \in S : y < x}) = k - 1]
<1>1. n \in Nat
  BY FS_CardinalityType
<1>2. Numbers(S, below)
  <2>1. below \in [S -> SUBSET S] /\ \A x \in S : x \notin below[x]
    OBVIOUS
  <2>2. ASSUME NEW x \in S, NEW y \in S, x # y
        PROVE  \/ x \in below[y] /\ below[x] \subseteq below[y]
               \/ y \in below[x] /\ below[y] \subseteq below[x]
    <3>1. x \in Nat /\ y \in Nat /\ \A z \in S : z \in Nat
      OBVIOUS
    <3>2. x < y \/ y < x
      BY <2>2, <3>1
    <3>3. \A z, w \in S : z \in below[w] <=> z < w
      OBVIOUS
    <3>4. below[x] \subseteq S /\ below[y] \subseteq S
      OBVIOUS
    <3> HIDE DEF below
    <3>5. ASSUME x < y PROVE x \in below[y] /\ below[x] \subseteq below[y]
      <4>1. ASSUME NEW z \in below[x] PROVE z \in below[y]
        <5>1. z \in S /\ z \in Nat /\ z < x
          BY <3>1, <3>3, <3>4
        <5>2. z < y
          BY <3>1, <3>5, <5>1
        <5> QED
          BY <3>3, <5>1, <5>2
      <4> QED
        BY <3>3, <3>5, <4>1
    <3>6. ASSUME y < x PROVE y \in below[x] /\ below[y] \subseteq below[x]
      <4>1. ASSUME NEW z \in below[y] PROVE z \in below[x]
        <5>1. z \in S /\ z \in Nat /\ z < y
          BY <3>1, <3>3, <3>4
        <5>2. z < x
          BY <3>1, <3>6, <5>1
        <5> QED
          BY <3>3, <5>1, <5>2
      <4> QED
        BY <3>3, <3>6, <4>1
    <3> QED
      BY <3>2, <3>5, <3>6
  <2> HIDE DEF below
  <2> QED
    BY <2>1, <2>2, RanksNumber
<1>3. InOrder(S) = f
  BY DEF InOrder, Forced
<1>4. \A x \in S : below[x] = {y \in S : y < x}
  OBVIOUS
<1> HIDE DEF below, n
<1>5. ASSUME NEW k \in 1 .. n
      PROVE  f[k] \in S /\ Cardinality(below[f[k]]) = k - 1
  <2>1. \E x \in S : Cardinality(below[x]) = k - 1
    BY <1>2 DEF Numbers, n
  <2>2. \E x \in S : Cardinality({y \in S : y < x}) = k - 1
    BY <1>4, <2>1
  <2> DEFINE g == CHOOSE x \in S : Cardinality({y \in S : y < x}) = k - 1
  <2>3. g \in S /\ Cardinality({y \in S : y < g}) = k - 1
    BY <2>2
  <2>4. f[k] = g
    OBVIOUS
  <2> HIDE DEF g, f
  <2> QED
    BY <1>4, <2>3, <2>4
<1>6. f \in [1 .. n -> S]
  BY <1>5
<1>7. ASSUME NEW x \in S PROVE \E k \in 1 .. n : f[k] = x
  <2> DEFINE k == Cardinality(below[x]) + 1
  <2>1. k \in 1 .. n
    BY <1>2 DEF Numbers, n
  <2>2. IsFiniteSet(below[x])
    BY <1>4, FS_Subset
  <2>3. k - 1 = Cardinality(below[x])
    BY <2>2, FS_CardinalityType
  <2> HIDE DEF k, f
  <2>4. f[k] \in S /\ Cardinality(below[f[k]]) = Cardinality(below[x])
    BY <1>5, <2>1, <2>3
  <2>5. f[k] = x
    BY <1>2, <2>4 DEF Numbers
  <2> QED
    BY <2>1, <2>5
<1> QED
  BY <1>1, <1>3, <1>6, <1>7 DEF n

LEMMA NeighborFacts ==
  ASSUME NEW dem, IsModel(dem), NEW d
  PROVE  /\ \E n \in Nat : Neighbors(dem, d) \in [1 .. n -> DOMAIN dem]
         /\ ToSet(Neighbors(dem, d)) = {v \in DOMAIN dem : d \in dem[v].mask}
<1> DEFINE S == {v \in DOMAIN dem : d \in dem[v].mask}
           f == Neighbors(dem, d)
<1>1. S \in SUBSET Nat /\ S \subseteq DOMAIN dem
  BY DEF IsModel
<1>2. IsFiniteSet(S)
  <2>1. IsFiniteSet(DOMAIN dem)
    BY FS_Interval DEF IsModel
  <2> QED
    BY <1>1, <2>1, FS_Subset
<1>3. f = InOrder(S)
  BY DEF Neighbors
<1> HIDE DEF S, f
<1>4. /\ Cardinality(S) \in Nat /\ f \in [1 .. Cardinality(S) -> S]
      /\ \A x \in S : \E k \in 1 .. Cardinality(S) : f[k] = x
  BY <1>1, <1>2, <1>3, InOrderFacts
<1>5. ToSet(f) = S
  BY <1>4 DEF ToSet
<1>6. f \in [1 .. Cardinality(S) -> DOMAIN dem]
  BY <1>1, <1>4
<1> QED
  BY <1>4, <1>5, <1>6 DEF S, f

-----------------------------------------------------------------------------
(* The rows.                                                               *)

\* What a template is expanded to at a coordinate, and what its detector sees.
Expanded(dem, s, t, c) ==
  {s.at[v][1] * GroupOrder + Add(s.at[v][2], c) : v \in {w \in DOMAIN dem : t * GroupOrder \in dem[w].mask}}
Seen(dem, s, t, c) ==
  {Address(s.at[v]) : v \in {w \in DOMAIN dem : t * GroupOrder + c \in dem[w].mask}}

LEMMA RowExpands ==
  ASSUME NEW dem, IsModel(dem), NEW s, NEW image, image.templates = Templates(dem, s.at),
         NEW t \in Times, NEW c
  PROVE  ToSet(CompactNeighbors(image, t, c)) = Expanded(dem, s, t, c)
<1> DEFINE nb == Neighbors(dem, t * GroupOrder)
           row == image.templates[t]
           out == [e \in DOMAIN row |-> row[e][1] * GroupOrder + Add(row[e][2], c)]
<1>1. DOMAIN row = DOMAIN nb /\ \A e \in DOMAIN nb : row[e] = s.at[nb[e]]
  BY DEF Templates
<1>2. ToSet(nb) = {w \in DOMAIN dem : t * GroupOrder \in dem[w].mask}
  BY NeighborFacts
<1>3. CompactNeighbors(image, t, c) = out
  BY DEF CompactNeighbors
<1>4. ToSet(out) = {s.at[nb[e]][1] * GroupOrder + Add(s.at[nb[e]][2], c) : e \in DOMAIN nb}
  <2> HIDE DEF nb, row
  <2>1. DOMAIN out = DOMAIN nb
        /\ \A e \in DOMAIN nb : out[e] = s.at[nb[e]][1] * GroupOrder + Add(s.at[nb[e]][2], c)
    BY <1>1
  <2> HIDE DEF out
  <2> QED
    BY <2>1 DEF ToSet
<1> HIDE DEF nb, out
<1>5. ToSet(nb) = {nb[e] : e \in DOMAIN nb}
  BY DEF ToSet
<1>6. ToSet(out) = {s.at[v][1] * GroupOrder + Add(s.at[v][2], c) : v \in ToSet(nb)}
  BY <1>4, <1>5
<1> QED
  BY <1>2, <1>3, <1>6 DEF Expanded

LEMMA SeesRow ==
  ASSUME NEW dem, IsModel(dem), NEW s, NEW t, NEW c
  PROVE  {Address(s.at[v]) : v \in ToSet(Neighbors(dem, t * GroupOrder + c))} = Seen(dem, s, t, c)
  BY NeighborFacts DEF Seen

\* A template moved is the row of its detector.
LEMMA ExactRows ==
  ASSUME NEW dem, IsModel(dem), ~Ambiguous(dem), NEW s, Numbered(dem, s),
         NEW t \in Times, NEW c \in Coordinates
  PROVE  Expanded(dem, s, t, c) = Seen(dem, s, t, c)
<1> DEFINE origin == t * GroupOrder
           d == t * GroupOrder + c
<1>1. /\ origin \in Detectors /\ d \in Detectors
      /\ Shift(origin, c) = d /\ Shift(d, Opposite(c)) = origin
  <2>1. 0 \in Coordinates /\ t * GroupOrder + 0 = origin
    BY Sizes DEF Times
  <2>2. origin \in Detectors /\ origin \div GroupOrder = t /\ origin % GroupOrder = 0
    BY <2>1, DetectorOf
  <2>3. d \in Detectors /\ d \div GroupOrder = t /\ d % GroupOrder = c
    BY DetectorOf
  <2>4. Shift(origin, c) = d
    BY <2>2, AddZero DEF Shift
  <2>5. Shift(d, Opposite(c)) = t * GroupOrder + 0
    BY <2>3, OppositeFacts DEF Shift
  <2> QED
    BY <2>1, <2>2, <2>3, <2>4, <2>5
<1> HIDE DEF origin, d
<1>2. ASSUME NEW v \in DOMAIN dem, origin \in dem[v].mask
      PROVE  \E w \in DOMAIN dem : d \in dem[w].mask
               /\ Address(s.at[w]) = s.at[v][1] * GroupOrder + Add(s.at[v][2], c)
  <2>1. PICK w \in DOMAIN dem : MovesTo(dem, s, v, c, w)
    BY MovedPlace
  <2>2. dem[w].mask = Translate(dem[v].mask, c)
    BY <2>1 DEF MovesTo, AnswersAs
  <2>3. d \in dem[w].mask
    BY <1>1, <1>2, <2>2, TranslateMember DEF IsModel
  <2>4. Address(s.at[w]) = s.at[v][1] * GroupOrder + Add(s.at[v][2], c)
    BY <2>1 DEF MovesTo, Address
  <2> QED
    BY <2>3, <2>4
<1>3. ASSUME NEW w \in DOMAIN dem, d \in dem[w].mask
      PROVE  \E v \in DOMAIN dem : origin \in dem[v].mask
               /\ Address(s.at[w]) = s.at[v][1] * GroupOrder + Add(s.at[v][2], c)
  <2>0. Opposite(c) \in Coordinates
    BY OppositeFacts
  <2>1. PICK v \in DOMAIN dem : MovesTo(dem, s, w, Opposite(c), v)
    BY <2>0, MovedPlace
  <2>2. dem[v].mask = Translate(dem[w].mask, Opposite(c))
    BY <2>1 DEF MovesTo, AnswersAs
  <2>3. origin \in dem[v].mask
    BY <1>1, <1>3, <2>0, <2>2, TranslateMember DEF IsModel
  <2>4. s.at[v][1] = s.at[w][1] /\ s.at[v][2] = Add(s.at[w][2], Opposite(c))
    BY <2>1 DEF MovesTo
  <2>5. Add(s.at[v][2], c) = s.at[w][2]
    <3>1. s.at[w][2] \in Coordinates
      BY PlaceFacts
    <3> QED
      BY <2>4, <3>1, AddCancels
  <2> QED
    BY <2>3, <2>4, <2>5 DEF Address
<1> QED
  BY <1>2, <1>3 DEF Expanded, Seen, origin, d

-----------------------------------------------------------------------------
(* The addresses.                                                          *)

LEMMA AddressFacts ==
  ASSUME NEW dem, IsModel(dem), ~Ambiguous(dem), NEW s, Numbered(dem, s)
  PROVE  /\ {Address(s.at[v]) : v \in DOMAIN dem} = 0 .. Len(dem) - 1
         /\ \A v, w \in DOMAIN dem : Address(s.at[v]) = Address(s.at[w]) => v = w
<1> DEFINE n == Len(dem)
           m == Len(s.reps)
           g == GroupOrder
           A == 0 .. m * g - 1
           f == [v \in 1 .. n |-> Address(s.at[v])]
<1>1. n \in Nat /\ DOMAIN dem = 1 .. n
  BY DEF IsModel
<1>2. m \in Nat /\ g \in Nat \ {0}
  BY Sizes DEF Numbered, OrbitStates
<1>3. Coordinates = 0 .. g - 1
  BY DEF Coordinates
<1>4. \A v \in 1 .. n : /\ s.at[v] = <<s.at[v][1], s.at[v][2]>>
                        /\ s.at[v][1] \in 0 .. m - 1 /\ s.at[v][2] \in Coordinates
                        /\ f[v] = s.at[v][1] * g + s.at[v][2]
  BY <1>1, PlaceFacts DEF Address
<1>5. \A o \in 0 .. m - 1, c \in Coordinates : \E v \in 1 .. n : s.at[v] = <<o, c>>
  BY <1>1 DEF Numbered, PlacesKept
<1> HIDE DEF m, g, f
<1>6. ASSUME NEW v \in 1 .. n
      PROVE  f[v] \in A /\ f[v] \div g = s.at[v][1] /\ f[v] % g = s.at[v][2]
  <2> DEFINE o == s.at[v][1]
             c == s.at[v][2]
  <2>1. o \in 0 .. m - 1 /\ c \in 0 .. g - 1 /\ f[v] = o * g + c
    BY <1>3, <1>4
  <2> HIDE DEF o, c
  <2>2. o * g + c \in A
    <3>1. o * g + c \in Nat /\ o * g + c < m * g
      BY <1>2, <2>1
    <3>2. m * g \in Nat
      BY <1>2
    <3> QED
      BY <3>1, <3>2
  <2>3. (o * g + c) \div g = o /\ (o * g + c) % g = c
    BY <1>2, <2>1, DivMod
  <2> HIDE DEF A
  <2> QED
    BY <2>1, <2>2, <2>3 DEF o, c
<1>7. ASSUME NEW a \in A PROVE \E v \in 1 .. n : f[v] = a
  <2> DEFINE o == a \div g
             c == a % g
  <2>0. a \in Nat /\ a < m * g
    BY <1>2
  <2>1. o \in Nat /\ c \in 0 .. g - 1 /\ a = o * g + c
    BY <1>2, <2>0, DivModOf
  <2> HIDE DEF o, c
  <2>2. o < m
    BY <1>2, <2>0, <2>1
  <2>3. o \in 0 .. m - 1
    BY <1>2, <2>1, <2>2
  <2>4. PICK v \in 1 .. n : s.at[v] = <<o, c>>
    BY <1>3, <1>5, <2>1, <2>3
  <2>5. f[v] = o * g + c
    BY <1>4, <2>4
  <2> QED
    BY <2>1, <2>5
<1>8. \A v, w \in 1 .. n : f[v] = f[w] => v = w
  <2> SUFFICES ASSUME NEW v \in 1 .. n, NEW w \in 1 .. n, f[v] = f[w] PROVE v = w
    OBVIOUS
  <2>1. s.at[v] = s.at[w]
    BY <1>4, <1>6
  <2> QED
    BY <1>1, <2>1, PlacesDiffer
<1>9. DOMAIN f = 1 .. n /\ f \in [1 .. n -> A]
  <2>1. DOMAIN f = 1 .. n /\ f = [v \in 1 .. n |-> f[v]]
    BY DEF f
  <2> HIDE DEF A, n
  <2> QED
    BY <1>6, <2>1
<1>10. m * g = n
  <2>1. f \in Bijection(1 .. n, A)
    <3> HIDE DEF A, n
    <3> QED
      BY <1>7, <1>8, <1>9 DEF Bijection, Injection, Surjection, IsInjective
  <2>2. IsFiniteSet(1 .. n) /\ Cardinality(1 .. n) = n
    <3>1. IsFiniteSet(1 .. n) /\ Cardinality(1 .. n) = IF 1 > n THEN 0 ELSE n - 1 + 1
      BY <1>1, FS_Interval
    <3> HIDE DEF n
    <3> QED
      BY <1>1, <3>1
  <2>3. Cardinality(A) = n
    <3> HIDE DEF A, n
    <3> QED
      BY <2>1, <2>2, FS_Bijection DEF ExistsBijection
  <2>4. m * g \in Nat
    BY <1>2
  <2> DEFINE x == m * g
  <2>5. Cardinality(A) = IF 0 > x - 1 THEN 0 ELSE x - 1 - 0 + 1
    <3>1. 0 \in Int /\ x - 1 \in Int
      BY <2>4
    <3> QED
      BY <3>1, FS_Interval
  <2>6. x \in Nat
    BY <2>4
  <2> HIDE DEF x, A, n
  <2>7. x = n
    BY <2>3, <2>5, <2>6, <1>1
  <2> QED
    BY <2>7 DEF x
<1>11. {f[v] : v \in 1 .. n} = 0 .. n - 1
  <2>1. {f[v] : v \in 1 .. n} = A
    <3> HIDE DEF A, n
    <3> QED
      BY <1>6, <1>7
  <2>2. A = 0 .. n - 1
    BY <1>10
  <2> QED
    BY <2>1, <2>2
<1>12. \A v \in 1 .. n : f[v] = Address(s.at[v])
  BY DEF f
<1> HIDE DEF n
<1> QED
  BY <1>1, <1>8, <1>11, <1>12 DEF n

\* A column of the expanded rows is the fault's mask.
LEMMA ColumnIsMask ==
  ASSUME NEW dem, IsModel(dem), ~Ambiguous(dem), NEW s, Numbered(dem, s),
         NEW image, image.templates = Templates(dem, s.at), NEW v \in DOMAIN dem
  PROVE  {tc[1] * GroupOrder + tc[2] : tc \in
            {tc \in Times \X Coordinates :
               Address(s.at[v]) \in ToSet(CompactNeighbors(image, tc[1], tc[2]))}}
           = dem[v].mask
<1>1. ASSUME NEW t \in Times, NEW c \in Coordinates
      PROVE  Address(s.at[v]) \in ToSet(CompactNeighbors(image, t, c))
               <=> t * GroupOrder + c \in dem[v].mask
  <2>1. ToSet(CompactNeighbors(image, t, c)) = Seen(dem, s, t, c)
    BY RowExpands, ExactRows
  <2>2. \A w \in DOMAIN dem : Address(s.at[v]) = Address(s.at[w]) => v = w
    BY AddressFacts
  <2> QED
    BY <2>1, <2>2 DEF Seen
<1>2. \A d \in dem[v].mask : d \in Detectors
  BY DEF IsModel
<1>3. \A d \in dem[v].mask : /\ d \div GroupOrder \in Times /\ d % GroupOrder \in Coordinates
                             /\ d = (d \div GroupOrder) * GroupOrder + (d % GroupOrder)
  BY <1>2, DetectorParts
<1> DEFINE In(t, c) == Address(s.at[v]) \in ToSet(CompactNeighbors(image, t, c))
           P == {tc \in Times \X Coordinates : In(tc[1], tc[2])}
<1>4. \A t \in Times, c \in Coordinates : In(t, c) <=> t * GroupOrder + c \in dem[v].mask
  BY <1>1
<1> HIDE DEF In
<1>5. {tc[1] * GroupOrder + tc[2] : tc \in P} = dem[v].mask
  <2>1. ASSUME NEW tc \in P PROVE tc[1] * GroupOrder + tc[2] \in dem[v].mask
    BY <1>4
  <2>2. ASSUME NEW d \in dem[v].mask PROVE \E tc \in P : d = tc[1] * GroupOrder + tc[2]
    <3> DEFINE t == d \div GroupOrder
               c == d % GroupOrder
    <3>1. t \in Times /\ c \in Coordinates /\ d = t * GroupOrder + c
      BY <1>3
    <3> HIDE DEF t, c
    <3>2. <<t, c>> \in P
      BY <1>4, <3>1
    <3> QED
      BY <3>1, <3>2
  <2> QED
    BY <2>1, <2>2
<1> QED
  BY <1>5 DEF In

-----------------------------------------------------------------------------
(* The logical masks.                                                      *)

\* f[k] is the list after k orbits.
IsListing(f, pattern, n) ==
  /\ f[0] = <<>>
  /\ \A k \in 1 .. n : f[k] = IF Contains(f[k - 1], pattern[k - 1]) THEN f[k - 1]
                              ELSE Append(f[k - 1], pattern[k - 1])

LEMMA ListedByPosition ==
  ASSUME NEW n \in Nat, NEW P, NEW pattern \in [0 .. n - 1 -> P]
  PROVE  \E f : /\ IsListing(f, pattern, n) /\ Listed(pattern, n) = f[n]
                /\ f \in [0 .. n -> Seq(P)]
<1> DEFINE V == Seq(P)
           b == <<>>
           Next(s, k) == IF Contains(s, pattern[k - 1]) THEN s ELSE Append(s, pattern[k - 1])
           step == [k \in 1 .. n |-> [s \in V |-> Next(s, k)]]
           Rec(h) == [S \in SUBSET (1 .. n) |-> IF S = {} THEN b ELSE Next(h[S \ {Max(S)}], Max(S))]
<1>1. \A k \in 1 .. n : \A s \in V : Next(s, k) \in V
  <2> SUFFICES ASSUME NEW k \in 1 .. n, NEW s \in V PROVE Next(s, k) \in V
    OBVIOUS
  <2>1. pattern[k - 1] \in P
    BY k - 1 \in 0 .. n - 1
  <2> QED
    BY <2>1
<1>2. IsStep(step, V, n) /\ b \in V
  <2>1. b \in V
    OBVIOUS
  <2> HIDE DEF V, b, Next
  <2> QED
    BY <1>1, <2>1 DEF IsStep
<1>3. PICK g : IsFold(g, V, b, n, step)
  <2> HIDE DEF step, V, b
  <2> QED
    BY <1>2, FoldExists
<1>4. g \in [SUBSET (1 .. n) -> V] /\ g[{}] = b
  BY <1>3 DEF IsFold
<1>5. g = Rec(g)
  <2>2. ASSUME NEW S \in SUBSET (1 .. n), S # {} PROVE g[S] = Next(g[S \ {Max(S)}], Max(S))
    <3>1. Max(S) \in 1 .. n /\ S \ {Max(S)} \in SUBSET (1 .. n)
      BY <2>2, MaxOfPositions
    <3>2. g[S] = step[Max(S)][g[S \ {Max(S)}]]
      BY <1>3, <2>2 DEF IsFold
    <3> HIDE DEF V, b, Next
    <3> QED
      BY <3>1, <3>2, <1>4
  <2> HIDE DEF V, b, Next
  <2> QED
    BY <1>4, <2>2
<1> DEFINE id == [i \in 1 .. n |-> i]
           Here(k) == [S \in SUBSET (1 .. n) |->
                         IF S = {} THEN b
                         ELSE IF Contains(k[S \ {Max(S)}], pattern[id[Max(S)] - 1]) THEN k[S \ {Max(S)}]
                              ELSE Append(k[S \ {Max(S)}], pattern[id[Max(S)] - 1])]
           h == CHOOSE k : k = Here(k)
<1>6. \A k : Here(k) = Rec(k)
  <2>1. \A S \in SUBSET (1 .. n) : S # {} => id[Max(S)] = Max(S)
    BY MaxOfPositions
  <2> QED
    BY <2>1
<1>7. Listed(pattern, n) = h[1 .. n]
  <2>1. DOMAIN id = 1 .. n
    OBVIOUS
  <2> QED
    BY <2>1 DEF Listed, FoldLeft, MapThenFoldSet
<1> DEFINE Same(k) == k = Rec(k)
<1>8. h = Rec(h)
  <2> HIDE DEF Here, Rec
  <2>1. h = Here(h)
    BY <1>5, <1>6
  <2> QED
    BY <1>6, <2>1
<1>9. \A S \in SUBSET (1 .. n) : h[S] \in V
  <2> DEFINE T == {S \in SUBSET (1 .. n) : h[S] \in V}
  <2> HIDE DEF h, V, b, Next
  <2>1. b \in V
    BY <1>2
  <2>2. ASSUME NEW F \in SUBSET (1 .. n), \A x \in F : F \ {x} \in T PROVE F \in T
    <3>1. CASE F = {}
      BY <1>8, <2>1, <3>1
    <3>2. CASE F # {}
      <4>1. Max(F) \in F /\ Max(F) \in 1 .. n
        BY <3>2, MaxOfPositions
      <4>2. h[F \ {Max(F)}] \in V
        BY <2>2, <4>1
      <4>3. h[F] = Next(h[F \ {Max(F)}], Max(F))
        BY <1>8, <3>2
      <4> QED
        BY <1>1, <4>1, <4>2, <4>3
    <3> QED
      BY <3>1, <3>2
  <2>3. Grows(1 .. n, T)
    BY <2>2 DEF Grows
  <2>4. IsFiniteSet(1 .. n)
    BY FS_Interval
  <2> HIDE DEF T
  <2>5. SUBSET (1 .. n) \subseteq T
    BY <2>3, <2>4, SubsetInduction
  <2> QED
    BY <2>5 DEF T
<1> DEFINE f == [i \in 0 .. n |-> h[1 .. i]]
<1> HIDE DEF h
<1>10. f[0] = b
  <2>1. 1 .. 0 = {}
    OBVIOUS
  <2> HIDE DEF b, Next
  <2> QED
    BY <2>1, <1>8
<1>11. ASSUME NEW i \in 1 .. n PROVE f[i] = Next(f[i - 1], i)
  <2>1. Max(1 .. i) = i /\ 1 .. i \in SUBSET (1 .. n) /\ 1 .. i # {} /\ (1 .. i) \ {i} = 1 .. (i - 1)
    BY MaxOfInterval
  <2> HIDE DEF b, Next
  <2>2. h[1 .. i] = Next(h[(1 .. i) \ {Max(1 .. i)}], Max(1 .. i))
    BY <1>8, <2>1
  <2>3. h[1 .. i] = Next(h[1 .. (i - 1)], i)
    BY <2>1, <2>2
  <2>4. i \in 0 .. n /\ i - 1 \in 0 .. n
    OBVIOUS
  <2> QED
    BY <2>3, <2>4
<1>12. f[n] = h[1 .. n]
  OBVIOUS
<1>13. f \in [0 .. n -> V]
  <2>1. \A i \in 0 .. n : 1 .. i \in SUBSET (1 .. n)
    OBVIOUS
  <2> HIDE DEF V
  <2> QED
    BY <1>9, <2>1
<1> HIDE DEF f
<1>14. IsListing(f, pattern, n)
  BY <1>10, <1>11 DEF IsListing
<1> QED
  BY <1>7, <1>12, <1>13, <1>14

\* Every pattern is listed.
LEMMA ListedFacts ==
  ASSUME NEW n \in Nat, NEW P, NEW pattern \in [0 .. n - 1 -> P]
  PROVE  \A o \in 0 .. n - 1 : \E i \in DOMAIN Listed(pattern, n) : Listed(pattern, n)[i] = pattern[o]
<1>1. PICK f \in [0 .. n -> Seq(P)] : IsListing(f, pattern, n) /\ Listed(pattern, n) = f[n]
  BY ListedByPosition
<1> DEFINE Has(s, k) == \A o \in 0 .. k - 1 : \E i \in DOMAIN s : s[i] = pattern[o]
           T == {k \in 0 .. n : Has(f[k], k)}
<1>2. 0 \in T
  OBVIOUS
<1>3. \A k \in 1 .. n : k - 1 \in T => k \in T
  <2> SUFFICES ASSUME NEW k \in 1 .. n, k - 1 \in T PROVE k \in T
    OBVIOUS
  <2>0. k \in 0 .. n
    OBVIOUS
  <2>1. k - 1 \in 0 .. n /\ f[k - 1] \in Seq(P) /\ k - 1 \in 0 .. n - 1 /\ pattern[k - 1] \in P
    OBVIOUS
  <2> DEFINE s == f[k - 1]
             p == pattern[k - 1]
  <2>2. f[k] = IF Contains(s, p) THEN s ELSE Append(s, p)
    BY <1>1 DEF IsListing
  <2>3. s \in Seq(P) /\ p \in P /\ Has(s, k - 1)
    BY <2>1
  <2> HIDE DEF s
  <2>4. ASSUME Contains(s, p) PROVE Has(f[k], k)
    <3>1. PICK i \in 1 .. Len(s) : s[i] = p
      BY <2>4 DEF Contains
    <3>2. i \in DOMAIN s
      BY <2>3, <3>1
    <3>3. ASSUME NEW o \in 0 .. k - 1 PROVE o \in 0 .. k - 1 - 1 \/ o = k - 1
      OBVIOUS
    <3> HIDE DEF p
    <3>4. \A o \in 0 .. k - 1 : \E j \in DOMAIN s : s[j] = pattern[o]
      BY <2>3, <3>1, <3>2, <3>3 DEF p
    <3> QED
      BY <2>2, <2>4, <3>4
  <2>5. ASSUME ~Contains(s, p) PROVE Has(f[k], k)
    <3> DEFINE u == Append(s, p)
    <3>1. /\ Len(s) + 1 \in DOMAIN u /\ u[Len(s) + 1] = p
          /\ \A i \in DOMAIN s : i \in DOMAIN u /\ u[i] = s[i]
      BY <2>3
    <3>3. ASSUME NEW o \in 0 .. k - 1 PROVE o \in 0 .. k - 1 - 1 \/ o = k - 1
      OBVIOUS
    <3> HIDE DEF p, u
    <3>4. \A o \in 0 .. k - 1 : \E j \in DOMAIN u : u[j] = pattern[o]
      BY <2>3, <3>1, <3>3 DEF p
    <3> QED
      BY <2>2, <2>5, <3>4 DEF u
  <2>6. Has(f[k], k)
    BY <2>4, <2>5
  <2> QED
    BY <2>0, <2>6
<1>4. n \in T
  <2>1. 0 .. n \subseteq T
    <3> HIDE DEF T
    <3> QED
      BY <1>2, <1>3, IntervalInduction
  <2>2. n \in 0 .. n
    OBVIOUS
  <2> HIDE DEF T
  <2> QED
    BY <2>1, <2>2
<1> QED
  BY <1>1, <1>4

\* Through the dictionary and the templates an address finds its fault's logical mask.
LEMMA LabelsAreExact ==
  ASSUME NEW dem, IsModel(dem), ~Ambiguous(dem), NEW s, Numbered(dem, s),
         NEW image, NEW v \in DOMAIN dem,
         image.dictionary = Labels(dem, s.at, Len(s.reps)).dictionary,
         image.labelTemplates = Labels(dem, s.at, Len(s.reps)).labelTemplates,
         image.labelIds = Labels(dem, s.at, Len(s.reps)).labelIds
  PROVE  LogicalMask(image, s.at[v][1], s.at[v][2]) = dem[v].logical
<1> DEFINE m == Len(s.reps)
           S == {dem[w].logical : w \in DOMAIN dem}
           D == InOrder(S)
           F == [a \in 0 .. Len(dem) - 1 |-> CHOOSE w \in DOMAIN dem : Address(s.at[w]) = a]
           L(a) == CHOOSE l \in DOMAIN D : D[l] = dem[F[a]].logical
           p == [o \in 0 .. m - 1 |-> [c \in Coordinates |-> L(o * GroupOrder + c)]]
           ls == Listed(p, m)
           ids == [o \in 0 .. m - 1 |-> CHOOSE i \in DOMAIN ls : ls[i] = p[o]]
           o == s.at[v][1]
           c == s.at[v][2]
           a == Address(s.at[v])
<1>1. Labels(dem, s.at, m) = [dictionary |-> D, labelTemplates |-> ls, labelIds |-> ids]
  <2> DEFINE q == Forced(p)
             lq == Listed(q, m)
  <2>1. Labels(dem, s.at, m) =
          [dictionary |-> D, labelTemplates |-> lq,
           labelIds |-> [x \in 0 .. m - 1 |-> CHOOSE i \in DOMAIN lq : lq[i] = q[x]]]
    BY DEF Labels
  <2>2. q = p
    BY ForcedValue
  <2> HIDE DEF p, q, D
  <2> QED
    BY <2>1, <2>2
<1>2. image.dictionary = D /\ image.labelTemplates = ls /\ image.labelIds = ids
  <2> HIDE DEF D, ls, ids
  <2> QED
    BY <1>1
<1>3. o \in 0 .. m - 1 /\ c \in Coordinates /\ a = o * GroupOrder + c
  BY PlaceFacts DEF Address
<1>4. m \in Nat
  BY DEF Numbered, OrbitStates
<1>5. a \in 0 .. Len(dem) - 1 /\ F[a] = v
  <2>1. a \in 0 .. Len(dem) - 1
    BY AddressFacts
  <2>2. \A w \in DOMAIN dem : Address(s.at[w]) = a => w = v
    BY AddressFacts
  <2> DEFINE w == CHOOSE w \in DOMAIN dem : Address(s.at[w]) = a
  <2>3. w \in DOMAIN dem /\ Address(s.at[w]) = a
    OBVIOUS
  <2>4. F[a] = w
    BY <2>1
  <2> HIDE DEF w, F, a
  <2> QED
    BY <2>1, <2>2, <2>3, <2>4
<1>6. \E l \in DOMAIN D : D[l] = dem[v].logical
  <2>1. S \in SUBSET Nat
    BY DEF IsModel
  <2>2. IsFiniteSet(S)
    <3>1. IsFiniteSet(DOMAIN dem)
      BY FS_Interval DEF IsModel
    <3> DEFINE val == [w \in DOMAIN dem |-> dem[w].logical]
    <3>2. val \in Surjection(DOMAIN dem, S)
      BY DEF Surjection
    <3> HIDE DEF val, S
    <3> QED
      BY <3>1, <3>2, FS_Surjection
  <2>3. dem[v].logical \in S
    OBVIOUS
  <2> HIDE DEF S
  <2>4. /\ D \in [1 .. Cardinality(S) -> S]
        /\ \A x \in S : \E k \in 1 .. Cardinality(S) : D[k] = x
    BY <2>1, <2>2, InOrderFacts
  <2> QED
    BY <2>3, <2>4
<1>7. L(a) \in DOMAIN D /\ D[L(a)] = dem[v].logical
  <2> HIDE DEF D, F, a
  <2> QED
    BY <1>5, <1>6
<1>8. p[o][c] = L(a)
  <2> HIDE DEF L, a, o, c
  <2> QED
    BY <1>3
<1>9. ids[o] \in DOMAIN ls /\ ls[ids[o]] = p[o]
  <2> DEFINE Q == {p[x] : x \in 0 .. m - 1}
  <2>1. p \in [0 .. m - 1 -> Q]
    OBVIOUS
  <2> HIDE DEF p, Q, o, m
  <2>2. \E i \in DOMAIN ls : ls[i] = p[o]
    BY <1>3, <1>4, <2>1, ListedFacts
  <2> HIDE DEF ls
  <2> QED
    BY <1>3, <2>2
<1>10. LogicalMask(image, o, c) = D[ls[ids[o]][c]]
  <2> HIDE DEF D, ls, ids, o, c
  <2> QED
    BY <1>2 DEF LogicalMask
<1> HIDE DEF D, ls, ids, p, L, a
<1>11. LogicalMask(image, o, c) = dem[v].logical
  BY <1>7, <1>8, <1>9, <1>10
<1> QED
  BY <1>11

-----------------------------------------------------------------------------
(* Lifetimes.                                                              *)

LEMMA SlicesOf ==
  ASSUME NEW mask \in SUBSET Detectors
  PROVE  \A d \in mask : SliceOf(d) \in FirstSlice(mask) .. LastSlice(mask)
<1> SUFFICES ASSUME mask # {}
             PROVE  \A d \in mask : SliceOf(d) \in FirstSlice(mask) .. LastSlice(mask)
  OBVIOUS
<1> DEFINE S == {SliceOf(d) : d \in mask}
<1>1. S \in SUBSET Times
  BY DetectorParts DEF SliceOf
<1>2. S # {} /\ \A d \in mask : SliceOf(d) \in S
  OBVIOUS
<1>3. Times \subseteq Nat /\ \A t \in Times : t <= Slices
  BY TorusAssumption DEF Times
<1> DEFINE R == {t + 1 : t \in S}
<1> HIDE DEF S
<1>4. Min(S) \in S /\ \A t \in S : Min(S) <= t
  <2>1. \E x \in S : \A y \in S : x <= y
    <3>1. S \in SUBSET Nat
      BY <1>1, <1>3
    <3> QED
      BY <1>2, <3>1, LeastElement
  <2> QED
    BY <2>1 DEF Min
<1>5. Max(S) \in S /\ \A t \in S : Max(S) >= t
  <2>1. R \in SUBSET (1 .. Slices) /\ R # {}
    <3>1. \A t \in S : t + 1 \in 1 .. Slices
      BY <1>1, TorusAssumption DEF Times
    <3>2. \E t \in S : TRUE
      BY <1>2
    <3> QED
      BY <3>1, <3>2
  <2> HIDE DEF R
  <2>2. PICK x \in R : \A y \in R : x >= y
    BY <2>1, GreatestElement, TorusAssumption
  <2>3. \A t \in S : t + 1 \in R
    BY DEF R
  <2>4. PICK z \in S : x = z + 1
    BY <2>2 DEF R
  <2>5. \A t \in S : z >= t
    <3>1. \A t \in S : t \in Nat
      BY <1>1, <1>3
    <3> QED
      BY <2>2, <2>3, <2>4, <3>1
  <2> QED
    BY <2>4, <2>5 DEF Max
<1> DEFINE lo == Min(S)
           hi == Max(S)
<1>6. lo \in Nat /\ hi \in Nat /\ FirstSlice(mask) = lo /\ LastSlice(mask) = hi
  BY <1>1, <1>3, <1>4, <1>5 DEF FirstSlice, LastSlice, S
<1>7. \A t \in S : t \in Nat /\ lo <= t /\ t <= hi
  BY <1>1, <1>3, <1>4, <1>5
<1> HIDE DEF lo, hi
<1>8. \A t \in S : t \in lo .. hi
  BY <1>6, <1>7
<1> QED
  BY <1>2, <1>6, <1>8

\* A translation leaves every detector in its slice.
LEMMA TranslationKeepsSlices ==
  ASSUME NEW mask \in SUBSET Detectors, NEW by \in Coordinates
  PROVE  {SliceOf(d) : d \in Translate(mask, by)} = {SliceOf(d) : d \in mask}
<1>1. \A d \in mask : SliceOf(Shift(d, by)) = SliceOf(d)
  BY MoveParts DEF SliceOf
<1>2. Translate(mask, by) = {Shift(d, by) : d \in mask}
  BY TranslateIsMove
<1> QED
  BY <1>1, <1>2

LEMMA LifetimesCover ==
  ASSUME NEW dem, IsModel(dem), ~Ambiguous(dem), NEW s, Numbered(dem, s), NEW v \in DOMAIN dem
  PROVE  /\ dem[s.reps[s.at[v][1] + 1]].prior = dem[v].prior
         /\ \A d \in dem[v].mask :
              SliceOf(d) \in FirstSlice(dem[s.reps[s.at[v][1] + 1]].mask)
                               .. LastSlice(dem[s.reps[s.at[v][1] + 1]].mask)
<1> DEFINE r == s.reps[s.at[v][1] + 1]
           c == s.at[v][2]
<1>1. c \in Coordinates /\ r \in DOMAIN dem /\ AnswersAs(dem, r, c, v)
  BY PlaceFacts
<1> HIDE DEF r, c
<1>2. dem[v].prior = dem[r].prior /\ dem[v].mask = Translate(dem[r].mask, c)
  BY <1>1 DEF AnswersAs
<1>3. dem[r].mask \in SUBSET Detectors /\ dem[v].mask \in SUBSET Detectors
  BY <1>1 DEF IsModel
<1>4. {SliceOf(d) : d \in dem[v].mask} = {SliceOf(d) : d \in dem[r].mask}
  BY <1>1, <1>2, <1>3, TranslationKeepsSlices
<1>5. FirstSlice(dem[v].mask) = FirstSlice(dem[r].mask) /\ LastSlice(dem[v].mask) = LastSlice(dem[r].mask)
  BY <1>4 DEF FirstSlice, LastSlice
<1> QED
  BY <1>2, <1>3, <1>5, SlicesOf DEF r

-----------------------------------------------------------------------------
(* The image.                                                              *)

\* The image holds what the orbits s make of the model.
IsTemplateImage(image, dem, s) ==
  /\ image.accepted /\ image.at = s.at /\ image.orbits = Len(s.reps)
  /\ image.templates = Templates(dem, s.at)
  /\ \A o \in 0 .. Len(s.reps) - 1 : /\ image.prior[o] = dem[s.reps[o + 1]].prior
                                     /\ image.start[o] = FirstSlice(dem[s.reps[o + 1]].mask)
                                     /\ image.end[o] = LastSlice(dem[s.reps[o + 1]].mask)
  /\ image.dictionary = Labels(dem, s.at, Len(s.reps)).dictionary
  /\ image.labelTemplates = Labels(dem, s.at, Len(s.reps)).labelTemplates
  /\ image.labelIds = Labels(dem, s.at, Len(s.reps)).labelIds

LEMMA TemplateFacts ==
  ASSUME NEW dem, IsModel(dem), ~Ambiguous(dem), NEW s, Numbered(dem, s), s.ok
  PROVE  IsTemplateImage(ImageOf(dem, s), dem, s)
<1> DEFINE rows == [templates |-> Templates(dem, s.at)]
<1>1. \A t \in Times, c \in Coordinates :
        ToSet(CompactNeighbors(rows, t, c)) =
          {Address(s.at[v]) : v \in ToSet(Neighbors(dem, t * GroupOrder + c))}
  <2> SUFFICES ASSUME NEW t \in Times, NEW c \in Coordinates
               PROVE  ToSet(CompactNeighbors(rows, t, c)) =
                        {Address(s.at[v]) : v \in ToSet(Neighbors(dem, t * GroupOrder + c))}
    OBVIOUS
  <2>1. rows.templates = Templates(dem, s.at)
    OBVIOUS
  <2> HIDE DEF rows
  <2> QED
    BY <2>1, RowExpands, SeesRow, ExactRows
<1> QED
  BY <1>1 DEF ImageOf, IsTemplateImage

\* For every torus and every error model the templates are compiled exactly when the
\* translations act freely on the model, and what they expand to is the model: its
\* faults, its rows, its logical masks, its priors and its lifetimes
\* (compile_paper_gross144_stage2_templates).
THEOREM ImageExact ==
  ASSUME NEW Priors, NEW dem \in Models(Priors)
  PROVE  ImageIsExact(dem)
<1>0. IsModel(dem)
  BY ModelFacts
<1>1. CASE Ambiguous(dem)
  <2>1. Compile(dem).accepted = FALSE
    BY <1>1 DEF Compile, Refused
  <2> QED
    BY <1>1, <2>1 DEF ImageIsExact, IsImageOf
<1>2. CASE ~Ambiguous(dem)
  <2> DEFINE s == Orbits(dem)
             image == Compile(dem)
  <2>1. image = ImageOf(dem, s)
    BY <1>2 DEF Compile
  <2>2. (s.ok => Numbered(dem, s)) /\ s.ok \in BOOLEAN /\ (~s.ok => ~(Closed(dem) /\ Free(dem)))
    BY <1>0, <1>2, OrbitsEnd
  <2> HIDE DEF s
  <2>3. CASE ~s.ok
    <3>1. image.accepted = FALSE
      BY <2>1, <2>3 DEF ImageOf, Refused
    <3> HIDE DEF image
    <3> QED
      BY <2>2, <2>3, <3>1 DEF ImageIsExact, IsImageOf, image
  <2>4. CASE s.ok
    <3> HIDE DEF image
    <3>1. Numbered(dem, s) /\ Closed(dem) /\ Free(dem)
      BY <1>0, <1>2, <2>2, <2>4, NumberedIsFree
    <3>2. IsTemplateImage(image, dem, s)
      BY <1>0, <1>2, <2>1, <2>4, <3>1, TemplateFacts
    <3>3. {Address(image.at[v]) : v \in DOMAIN dem} = 0 .. Len(dem) - 1
      BY <1>0, <1>2, <3>1, <3>2, AddressFacts DEF IsTemplateImage
    <3>4. ASSUME NEW v \in DOMAIN dem
          PROVE  /\ {tc[1] * GroupOrder + tc[2] : tc \in
                       {tc \in Times \X Coordinates :
                          Address(image.at[v]) \in ToSet(CompactNeighbors(image, tc[1], tc[2]))}}
                      = dem[v].mask
                 /\ LogicalMask(image, image.at[v][1], image.at[v][2]) = dem[v].logical
                 /\ image.prior[image.at[v][1]] = dem[v].prior
                 /\ \A d \in dem[v].mask :
                      SliceOf(d) \in image.start[image.at[v][1]] .. image.end[image.at[v][1]]
      <4>1. {tc[1] * GroupOrder + tc[2] : tc \in
               {tc \in Times \X Coordinates :
                  Address(s.at[v]) \in ToSet(CompactNeighbors(image, tc[1], tc[2]))}}
              = dem[v].mask
        BY <1>0, <1>2, <3>1, <3>2, ColumnIsMask DEF IsTemplateImage
      <4>2. LogicalMask(image, s.at[v][1], s.at[v][2]) = dem[v].logical
        BY <1>0, <1>2, <3>1, <3>2, LabelsAreExact DEF IsTemplateImage
      <4>3. s.at[v][1] \in 0 .. Len(s.reps) - 1
        BY <1>0, <1>2, <3>1, PlaceFacts
      <4>4. /\ dem[s.reps[s.at[v][1] + 1]].prior = dem[v].prior
            /\ \A d \in dem[v].mask :
                 SliceOf(d) \in FirstSlice(dem[s.reps[s.at[v][1] + 1]].mask)
                                  .. LastSlice(dem[s.reps[s.at[v][1] + 1]].mask)
        BY <1>0, <1>2, <3>1, LifetimesCover
      <4> QED
        BY <3>2, <4>1, <4>2, <4>3, <4>4 DEF IsTemplateImage
    <3> QED
      BY <1>0, <1>2, <3>1, <3>2, <3>3, <3>4 DEF ImageIsExact, IsImageOf, IsTemplateImage, image
  <2> QED
    BY <2>2, <2>3, <2>4
<1> QED
  BY <1>1, <1>2

-----------------------------------------------------------------------------
(* Packing.                                                                *)

RankIn(bank, e) == Cardinality({o \in 1 .. e : bank[o] = bank[e]})

\* Which edges are in which beat.
ArePacked(beats, bank, n, m) ==
  /\ DOMAIN beats = 1 .. m
  /\ \A e \in 1 .. n : RankIn(bank, e) \in 1 .. m
  /\ m # 0 => \E e \in 1 .. n : RankIn(bank, e) = m
  /\ \A k \in 1 .. m : beats[k] = {<<bank[e], e>> : e \in {o \in 1 .. n : RankIn(bank, o) = k}}

LEMMA PackedFacts ==
  ASSUME NEW n \in Nat, NEW B, NEW bank \in [1 .. n -> B]
  PROVE  \E m \in Nat : ArePacked(Packed(bank), bank, n, m)
<1> DEFINE rank == [e \in DOMAIN bank |-> Cardinality({o \in 1 .. e : bank[o] = bank[e]})]
           R == {0} \cup Range(rank)
           m == Max(R)
<1>1. \A e \in 1 .. n : rank[e] = RankIn(bank, e)
  BY DEF RankIn
<1>2. \A e \in 1 .. n : RankIn(bank, e) \in Nat /\ RankIn(bank, e) >= 1
  <2> SUFFICES ASSUME NEW e \in 1 .. n PROVE RankIn(bank, e) \in Nat /\ RankIn(bank, e) >= 1
    OBVIOUS
  <2> DEFINE S == {o \in 1 .. e : bank[o] = bank[e]}
  <2>1. IsFiniteSet(1 .. e) /\ S \in SUBSET (1 .. e) /\ e \in S
    BY FS_Interval
  <2> HIDE DEF S
  <2>2. IsFiniteSet(S)
    BY <2>1, FS_Subset
  <2>3. Cardinality(S) \in Nat /\ Cardinality(S) # 0
    BY <2>1, <2>2, FS_CardinalityType, FS_EmptySet
  <2> QED
    BY <2>3 DEF S, RankIn
<1>3. DOMAIN rank = 1 .. n
  OBVIOUS
<1> HIDE DEF rank
<1>4. R \in SUBSET Int /\ IsFiniteSet(R) /\ R # {} /\ 0 \in R
  <2>1. Range(rank) \in SUBSET Int
    BY <1>1, <1>2, <1>3 DEF Range
  <2>2. IsFiniteSet(Range(rank))
    <3>1. rank \in Surjection(1 .. n, Range(rank))
      <4>1. rank = [e \in 1 .. n |-> rank[e]]
        BY <1>3 DEF rank
      <4> QED
        BY <1>3, <4>1 DEF Surjection, Range
    <3> QED
      BY <3>1, FS_Interval, FS_Surjection
  <2>3. IsFiniteSet(R)
    BY <2>2, FS_AddElement
  <2> QED
    BY <2>1, <2>3
<1> HIDE DEF R
<1>5. m \in R /\ \A x \in R : m >= x
  BY <1>4, MaxOfFinite
<1>6. m \in Nat /\ \A e \in 1 .. n : RankIn(bank, e) \in 1 .. m
  <2>1. \A e \in 1 .. n : RankIn(bank, e) \in R
    BY <1>1, <1>3 DEF R, Range
  <2>2. m \in Int /\ m >= 0
    BY <1>4, <1>5
  <2> HIDE DEF m
  <2> QED
    BY <1>2, <1>5, <2>1, <2>2 DEF m
<1>7. Packed(bank) = [k \in 1 .. m |-> {<<bank[e], e>> : e \in {o \in 1 .. n : rank[o] = k}}]
  <2>1. Forced(rank) = rank
    BY ForcedValue
  <2>2. Packed(bank) = [k \in 1 .. Max({0} \cup Range(Forced(rank))) |->
                          {<<bank[e], e>> : e \in {o \in DOMAIN bank : Forced(rank)[o] = k}}]
    BY DEF Packed, rank
  <2> QED
    BY <2>1, <2>2 DEF R
<1> HIDE DEF m
<1>8. \A k \in 1 .. m : Packed(bank)[k] = {<<bank[e], e>> : e \in {o \in 1 .. n : RankIn(bank, o) = k}}
  BY <1>1, <1>7
<1>9. DOMAIN Packed(bank) = 1 .. m
  BY <1>7
<1>10. m # 0 => \E e \in 1 .. n : RankIn(bank, e) = m
  <2>1. m \in {0} \cup Range(rank)
    BY <1>5 DEF R, m
  <2> HIDE DEF m
  <2> QED
    BY <1>1, <1>3, <2>1 DEF Range
<1>11. ArePacked(Packed(bank), bank, n, m)
  BY <1>6, <1>8, <1>9, <1>10 DEF ArePacked
<1> QED
  BY <1>6, <1>11

\* Edges of one bank have different ranks.
LEMMA RanksDiffer ==
  ASSUME NEW n \in Nat, NEW bank, NEW e \in 1 .. n, NEW f \in 1 .. n,
         bank[e] = bank[f], RankIn(bank, e) = RankIn(bank, f)
  PROVE  e = f
<1>1. ASSUME NEW x \in 1 .. n, NEW y \in 1 .. n, bank[x] = bank[y],
             RankIn(bank, x) = RankIn(bank, y), x < y
      PROVE  FALSE
  <2> DEFINE S == {o \in 1 .. x : bank[o] = bank[x]}
             T == {o \in 1 .. y : bank[o] = bank[y]}
  <2>1. S \in SUBSET T /\ y \in T /\ y \notin S
    BY <1>1
  <2>2. IsFiniteSet(T)
    <3>1. IsFiniteSet(1 .. y) /\ T \in SUBSET (1 .. y)
      BY FS_Interval
    <3> HIDE DEF T
    <3> QED
      BY <3>1, FS_Subset
  <2>3. Cardinality(S) = Cardinality(T)
    BY <1>1 DEF RankIn
  <2> HIDE DEF S, T
  <2> QED
    BY <2>1, <2>2, <2>3, FS_Subset
<1>2. e < f \/ f < e \/ e = f
  OBVIOUS
<1> QED
  BY <1>1, <1>2

\* The beats hold every edge once.
LEMMA EveryEdgeOnce ==
  ASSUME NEW n \in Nat, NEW B, NEW bank \in [1 .. n -> B]
  PROVE  /\ EdgesIn(Packed(bank)) = n
         /\ UNION {{be[2] : be \in Packed(bank)[k]} : k \in DOMAIN Packed(bank)} = 1 .. n
<1> DEFINE beats == Packed(bank)
<1>0. PICK m \in Nat : ArePacked(beats, bank, n, m)
  BY PackedFacts
<1> HIDE DEF beats
<1>1. /\ DOMAIN beats = 1 .. m
      /\ \A e \in 1 .. n : RankIn(bank, e) \in 1 .. m
      /\ \A k \in 1 .. m : beats[k] = {<<bank[e], e>> : e \in {o \in 1 .. n : RankIn(bank, o) = k}}
  BY <1>0 DEF ArePacked
<1>2. UNION {{be[2] : be \in beats[k]} : k \in DOMAIN beats} = 1 .. n
  <2>1. ASSUME NEW k \in 1 .. m, NEW be \in beats[k] PROVE be[2] \in 1 .. n
    BY <1>1
  <2>2. ASSUME NEW e \in 1 .. n PROVE \E k \in 1 .. m : \E be \in beats[k] : be[2] = e
    <3> DEFINE k == RankIn(bank, e)
    <3>1. k \in 1 .. m /\ <<bank[e], e>> \in beats[k]
      BY <1>1
    <3> HIDE DEF k
    <3> QED
      BY <3>1
  <2> QED
    BY <1>1, <2>1, <2>2
<1> DEFINE class == [e \in 1 .. n |-> RankIn(bank, e)]
           w == [k \in 1 .. m |-> Cardinality(beats[k])]
<1>3. EdgesIn(beats) = Total(w, 1 .. m)
  <2>1. EdgesIn(beats) = MapThenSumSet(LAMBDA k : Cardinality(beats[k]), 1 .. m)
    BY <1>1 DEF EdgesIn
  <2> DEFINE Here(g) == [s \in SUBSET (1 .. m) |-> IF s = {} THEN 0 ELSE Cardinality(beats[Some(s)]) + g[s \ {Some(s)}]]
             There(g) == [s \in SUBSET (1 .. m) |-> IF s = {} THEN 0 ELSE w[Some(s)] + g[s \ {Some(s)}]]
             h == CHOOSE g : g = Here(g)
             k == CHOOSE g : g = There(g)
  <2>2. \A g : Here(g) = There(g)
    <3>1. \A s \in SUBSET (1 .. m) : s # {} => Some(s) \in 1 .. m
      BY DEF Some
    <3> QED
      BY <3>1
  <2>3. MapThenSumSet(LAMBDA x : Cardinality(beats[x]), 1 .. m) = h[1 .. m]
    BY DEF MapThenSumSet, MapThenFoldSet, Some
  <2>4. Total(w, 1 .. m) = k[1 .. m]
    BY DEF Total, MapThenSumSet, MapThenFoldSet, Some
  <2>5. h = k
    <3> HIDE DEF Here, There
    <3> QED
      BY <2>2
  <2> HIDE DEF h, k, w
  <2> QED
    BY <2>1, <2>3, <2>4, <2>5
<1>4. \A k \in 1 .. m : w[k] = Cardinality({e \in 1 .. n : class[e] = k})
  <2> SUFFICES ASSUME NEW k \in 1 .. m PROVE Cardinality(beats[k]) = Cardinality({e \in 1 .. n : class[e] = k})
    OBVIOUS
  <2> DEFINE E == {o \in 1 .. n : RankIn(bank, o) = k}
             f == [e \in E |-> <<bank[e], e>>]
  <2>1. f \in Bijection(E, beats[k])
    <3>1. beats[k] = {<<bank[e], e>> : e \in E}
      BY <1>1
    <3> HIDE DEF E
    <3>2. f \in [E -> beats[k]] /\ (\A e, o \in E : f[e] = f[o] => e = o)
          /\ \A b \in beats[k] : \E e \in E : f[e] = b
      BY <3>1
    <3>3. DOMAIN f = E
      OBVIOUS
    <3> HIDE DEF f
    <3> QED
      BY <3>2, <3>3 DEF Bijection, Injection, Surjection, IsInjective
  <2>2. IsFiniteSet(E)
    BY FS_Interval, FS_Subset
  <2>3. E = {e \in 1 .. n : class[e] = k}
    OBVIOUS
  <2> HIDE DEF E, f
  <2>4. Cardinality(beats[k]) = Cardinality(E)
    BY <2>1, <2>2, FS_Bijection DEF ExistsBijection
  <2> QED
    BY <2>3, <2>4
<1>5. class \in [1 .. n -> 1 .. m]
  BY <1>1
<1>6. IsFiniteSet(1 .. n) /\ IsFiniteSet(1 .. m) /\ Cardinality(1 .. n) = n
  <2>1. IsFiniteSet(1 .. n) /\ IsFiniteSet(1 .. m) /\ Cardinality(1 .. n) = IF 1 > n THEN 0 ELSE n - 1 + 1
    BY FS_Interval
  <2> QED
    BY <2>1
<1> HIDE DEF w, class
<1>7. Total(w, 1 .. m) = Cardinality(1 .. n)
  BY <1>4, <1>5, <1>6, SumCounts
<1> QED
  BY <1>2, <1>3, <1>6, <1>7 DEF beats

\* Where a translation takes a bank: as many banks on as it takes columns.
LEMMA ModOfMultiple ==
  ASSUME NEW n \in Nat \ {0}, NEW k \in Nat \ {0}, NEW a \in Nat
  PROVE  (a % (k * n)) % n = a % n
<1> DEFINE m == k * n
           q == a \div m
           r == a % m
           u == r \div n
           v == r % n
           w == q * k + u
<1>1. m \in Nat \ {0}
  OBVIOUS
<1>2. q \in Nat /\ r \in 0 .. m - 1 /\ a = q * m + r
  <2> HIDE DEF m
  <2> QED
    BY <1>1, DivModOf
<1>3. r \in Nat
  <2> HIDE DEF m, r
  <2> QED
    BY <1>1, <1>2
<1> HIDE DEF q, r
<1>4. u \in Nat /\ v \in 0 .. n - 1 /\ r = u * n + v
  BY <1>3, DivModOf
<1> HIDE DEF u, v
<1>5. q * m = (q * k) * n /\ w * n = (q * k) * n + u * n /\ w \in Int
  BY <1>2, <1>4
<1>6. a = w * n + v
  BY <1>2, <1>4, <1>5
<1> HIDE DEF w
<1>7. a % n = v
  BY <1>4, <1>5, <1>6, DivMod
<1> QED
  BY <1>7 DEF v, r, m

LEMMA BankMoves ==
  ASSUME NEW colors, NEW o, colors[o] \in 0 .. BankCount - 1,
         NEW x \in Coordinates, NEW c \in Coordinates
  PROVE  /\ Bank(colors, o, x) \in 0 .. BankCount - 1
         /\ Bank(colors, o, Add(x, c)) = (Bank(colors, o, x) + (c \div YDim)) % BankCount
<1> DEFINE B == BankCount
           h == colors[o]
           p == x \div YDim
           q == c \div YDim
           s == (p + q) % XDim
<1>1. B \in Nat \ {0} /\ XDim \in Nat \ {0} /\ XDim % B = 0
  BY TorusAssumption
<1>2. h \in Nat /\ p \in Nat /\ q \in Nat
  BY <1>1, CoordinateParts
<1>3. Bank(colors, o, x) = (h + p) % B
  BY DEF Bank
<1>4. Bank(colors, o, Add(x, c)) = (h + s) % B
  BY AddParts DEF Bank
<1> HIDE DEF B, h, p, q
<1>5. s % B = (p + q) % B /\ s \in Nat
  <2>1. PICK k \in Nat \ {0} : XDim = k * B
    <3> DEFINE k == XDim \div B
    <3>1. k \in Nat /\ XDim = k * B + (XDim % B)
      BY <1>1, DivModOf
    <3> HIDE DEF k
    <3>2. XDim = k * B /\ k # 0
      BY <1>1, <3>1
    <3> QED
      BY <3>1, <3>2
  <2>2. p + q \in Nat
    BY <1>2
  <2>3. ((p + q) % (k * B)) % B = (p + q) % B
    BY <1>1, <2>2, ModOfMultiple
  <2> QED
    BY <1>1, <2>1, <2>2, <2>3
<1>6. ASSUME NEW i \in Nat, NEW j \in Nat, NEW l \in Nat, i % B = j % B PROVE (l + i) % B = (l + j) % B
  <2> DEFINE a == i \div B
             b == j \div B
             r == i % B
  <2>1. a \in Int /\ b \in Int /\ r \in 0 .. B - 1 /\ i = a * B + r /\ j = b * B + r
    BY <1>1, <1>6, DivModOf
  <2> HIDE DEF a, b, r
  <2> DEFINE w == l + r
             u == w \div B
             v == w % B
  <2>0. w \in Nat
    BY <1>1, <2>1
  <2> HIDE DEF w
  <2>2. u \in Int /\ v \in 0 .. B - 1 /\ w = u * B + v
    <3>1. B \in Nat \ {0}
      BY <1>1
    <3>2. u \in Nat /\ v \in 0 .. B - 1 /\ w = u * B + v
      BY ONLY <2>0, <3>1, DivModOf DEF u, v
    <3> QED
      BY <3>2
  <2> HIDE DEF u, v
  <2> DEFINE y == u + a
             z == u + b
  <2>3. l + i = y * B + v /\ l + j = z * B + v /\ y \in Int /\ z \in Int
    BY <1>1, <2>1, <2>2 DEF w
  <2> HIDE DEF y, z
  <2>4. (y * B + v) % B = v /\ (z * B + v) % B = v
    BY <1>1, <2>2, <2>3, DivMod
  <2> QED
    BY <2>3, <2>4
<1> DEFINE t == (h + p) % B
<1>7. t \in 0 .. B - 1 /\ t \in Nat /\ t % B = (h + p) % B
  BY <1>1, <1>2
<1> HIDE DEF s, t
<1>8. (h + s) % B = (h + (p + q)) % B
  BY <1>2, <1>5, <1>6
<1>9. (q + t) % B = (q + (h + p)) % B
  BY <1>2, <1>6, <1>7
<1>10. h + (p + q) = q + (h + p) /\ q + t = t + q
  BY <1>2, <1>7
<1>11. (h + s) % B = (t + q) % B
  BY <1>8, <1>9, <1>10
<1> QED
  BY <1>3, <1>4, <1>7, <1>11 DEF t, q, B

\* Adding the same to two remainders keeps them apart.
LEMMA ShiftsDiffer ==
  ASSUME NEW n \in Nat \ {0}, NEW p \in 0 .. n - 1, NEW q \in 0 .. n - 1, NEW a \in Nat,
         (p + a) % n = (q + a) % n
  PROVE  p = q
<1> DEFINE u == a \div n
           r == a % n
<1>1. u \in Nat /\ r \in 0 .. n - 1 /\ a = u * n + r
  BY DivModOf
<1> HIDE DEF u, r
<1> DEFINE x == (p + r) % n
           y == (q + r) % n
<1>2. /\ x = IF p + r < n THEN p + r ELSE p + r - n
      /\ y = IF q + r < n THEN q + r ELSE q + r - n
      /\ x \in 0 .. n - 1 /\ y \in 0 .. n - 1
  BY <1>1, ModOfSum
<1> HIDE DEF x, y
<1>3. PICK i \in Int, j \in Int : p + a = i * n + x /\ q + a = j * n + y
  <2>1. p + r = x \/ p + r = n + x
    BY <1>1, <1>2
  <2>2. q + r = y \/ q + r = n + y
    BY <1>1, <1>2
  <2>3. p + a = u * n + x \/ p + a = (u + 1) * n + x
    BY <1>1, <1>2, <2>1
  <2>4. q + a = u * n + y \/ q + a = (u + 1) * n + y
    BY <1>1, <1>2, <2>2
  <2>5. u \in Int /\ u + 1 \in Int
    BY <1>1
  <2> QED
    BY <2>3, <2>4, <2>5
<1>4. (i * n + x) % n = x /\ (j * n + y) % n = y
  BY <1>2, DivMod
<1>5. x = y
  BY <1>3, <1>4
<1> QED
  BY <1>1, <1>2, <1>5

\* A row of a template.
IsTemplateRow(row, n, orbits) == row \in [1 .. n -> (0 .. orbits - 1) \X Coordinates]

\* No two edges of a beat meet in a bank, wherever the row is moved.
LEMMA BeatMoves ==
  ASSUME NEW n \in Nat, NEW m \in Nat, NEW row, IsTemplateRow(row, n, m),
         NEW colors \in [0 .. m - 1 -> 0 .. BankCount - 1],
         NEW k \in DOMAIN Beats(row, colors), NEW c \in Coordinates
  PROVE  Cardinality({Bank(colors, row[be[2]][1], Add(row[be[2]][2], c)) : be \in Beats(row, colors)[k]})
           = Cardinality(Beats(row, colors)[k])
<1> DEFINE bank == [e \in DOMAIN row |-> Bank(colors, row[e][1], row[e][2])]
           beat == Beats(row, colors)[k]
           moved(e) == Bank(colors, row[e][1], Add(row[e][2], c))
           a == c \div YDim
           banks == 0 .. BankCount - 1
<1>1. DOMAIN row = 1 .. n /\ \A e \in 1 .. n : row[e][1] \in 0 .. m - 1 /\ row[e][2] \in Coordinates
  BY DEF IsTemplateRow
<1>2. \A e \in 1 .. n : /\ bank[e] \in banks /\ moved(e) = (bank[e] + a) % BankCount
  BY <1>1, BankMoves
<1>3. bank \in [1 .. n -> banks]
  BY <1>1, <1>2
<1>4. Beats(row, colors) = Packed(bank)
  BY DEF Beats
<1> HIDE DEF bank
<1>5. PICK l \in Nat : ArePacked(Packed(bank), bank, n, l)
  BY <1>3, PackedFacts
<1>6. beat = {<<bank[e], e>> : e \in {o \in 1 .. n : RankIn(bank, o) = k}}
  BY <1>4, <1>5 DEF ArePacked
<1> DEFINE E == {o \in 1 .. n : RankIn(bank, o) = k}
           f == [be \in beat |-> moved(be[2])]
           T == {moved(be[2]) : be \in beat}
<1>7. IsFiniteSet(beat)
  <2>1. IsFiniteSet(1 .. n)
    BY FS_Interval
  <2>2. E \in SUBSET (1 .. n)
    OBVIOUS
  <2> HIDE DEF E
  <2>3. IsFiniteSet(E)
    BY <2>1, <2>2, FS_Subset
  <2> DEFINE g == [e \in E |-> <<bank[e], e>>]
  <2>4. g \in Surjection(E, beat)
    <3>1. beat = {<<bank[e], e>> : e \in E}
      BY <1>6 DEF E
    <3> HIDE DEF beat
    <3> QED
      BY <3>1 DEF Surjection
  <2> HIDE DEF g, beat
  <2> QED
    BY <2>3, <2>4, FS_Surjection
<1>8. \A be, bf \in beat : moved(be[2]) = moved(bf[2]) => be = bf
  <2> SUFFICES ASSUME NEW be \in beat, NEW bf \in beat, moved(be[2]) = moved(bf[2]) PROVE be = bf
    OBVIOUS
  <2>1. PICK e \in 1 .. n : RankIn(bank, e) = k /\ be = <<bank[e], e>>
    BY <1>6
  <2>2. PICK g \in 1 .. n : RankIn(bank, g) = k /\ bf = <<bank[g], g>>
    BY <1>6
  <2>3. moved(e) = moved(g)
    BY <2>1, <2>2
  <2> HIDE DEF moved
  <2>4. (bank[e] + a) % BankCount = (bank[g] + a) % BankCount
    BY <1>2, <2>3
  <2>5. a \in Nat /\ bank[e] \in banks /\ bank[g] \in banks
    <3>1. a \in 0 .. XDim - 1
      BY CoordinateParts
    <3> QED
      BY <1>2, <3>1
  <2> HIDE DEF a
  <2>6. bank[e] = bank[g]
    BY <2>4, <2>5, ShiftsDiffer, TorusAssumption
  <2>7. e = g
    BY <2>1, <2>2, <2>6, RanksDiffer
  <2> QED
    BY <2>1, <2>2, <2>7
<1> HIDE DEF beat, moved
<1>9. f \in Surjection(beat, T) /\ f \in Injection(beat, T)
  <2>1. f \in [beat -> T] /\ (\A x \in T : \E be \in beat : f[be] = x)
    OBVIOUS
  <2>2. DOMAIN f = beat /\ \A be, bf \in beat : f[be] = f[bf] => be = bf
    BY <1>8
  <2> HIDE DEF f, T
  <2> QED
    BY <2>1, <2>2 DEF Surjection, Injection, IsInjective
<1> HIDE DEF f, T
<1>10. Cardinality(T) = Cardinality(beat)
  BY <1>7, <1>9, FS_Surjection
<1> QED
  BY <1>10 DEF T, moved, beat

-----------------------------------------------------------------------------
(* The descent of the colours.                                             *)

Cells == Times \X (0 .. BankCount - 1)

LEMMA CellsFinite == IsFiniteSet(Cells) /\ Cells # {}
<1>1. IsFiniteSet(Times) /\ IsFiniteSet(0 .. BankCount - 1)
  BY TorusAssumption, FS_Interval DEF Times
<1>2. <<0, 0>> \in Cells
  BY TorusAssumption DEF Times, Cells
<1> QED
  BY <1>1, <1>2, FS_Product DEF Cells

\* The templates of an image with so many orbits.
AreTemplates(templates, orbits) ==
  \A t \in Times : \E n \in Nat : IsTemplateRow(templates[t], n, orbits)

LEMMA OccupancyType ==
  ASSUME NEW templates, NEW m, AreTemplates(templates, m), NEW colors
  PROVE  \A tb \in Cells : Occupancy(templates, colors)[tb[1]][tb[2]] \in Nat
<1> SUFFICES ASSUME NEW t \in Times, NEW b \in 0 .. BankCount - 1
             PROVE  Occupancy(templates, colors)[t][b] \in Nat
  BY DEF Cells
<1> DEFINE S == {e \in DOMAIN templates[t] : Bank(colors, templates[t][e][1], templates[t][e][2]) = b}
<1>1. Occupancy(templates, colors)[t][b] = Cardinality(S)
  BY DEF Occupancy
<1>2. PICK n \in Nat : IsTemplateRow(templates[t], n, m)
  BY DEF AreTemplates
<1>3. DOMAIN templates[t] = 1 .. n /\ IsFiniteSet(1 .. n)
  BY <1>2, FS_Interval DEF IsTemplateRow
<1>4. S \in SUBSET (1 .. n)
  BY <1>3
<1> HIDE DEF S
<1>5. Cardinality(S) \in Nat
  BY <1>3, <1>4, FS_Subset, FS_CardinalityType
<1> QED
  BY <1>1, <1>5

LEMMA ObjectiveType ==
  ASSUME NEW templates, NEW m, AreTemplates(templates, m), NEW colors
  PROVE  Objective(templates, colors)[1] \in Int /\ Objective(templates, colors)[2] \in Int
<1> DEFINE o == Occupancy(templates, colors)
           w == [tb \in Cells |-> o[tb[1]][tb[2]] * o[tb[1]][tb[2]]]
           S == {o[tb[1]][tb[2]] : tb \in Cells}
           q == MapThenSumSet(LAMBDA tb : o[tb[1]][tb[2]] * o[tb[1]][tb[2]], Cells)
<1>1. Objective(templates, colors) = <<Max(S), q>>
  BY DEF Objective, Cells
<1>2. \A tb \in Cells : o[tb[1]][tb[2]] \in Nat
  BY OccupancyType
<1> HIDE DEF o
<1>3. Max(S) \in Int
  <2>1. S \in SUBSET Int
    BY <1>2
  <2>2. S # {}
    BY CellsFinite
  <2> DEFINE f == [tb \in Cells |-> o[tb[1]][tb[2]]]
  <2>3. f \in Surjection(Cells, S)
    BY DEF Surjection
  <2> HIDE DEF f, S
  <2>4. IsFiniteSet(S)
    BY <2>3, CellsFinite, FS_Surjection
  <2> QED
    BY <2>1, <2>2, <2>4, MaxOfFinite
<1>4. q = Total(w, Cells)
  <2> DEFINE Here(g) == [s \in SUBSET Cells |-> IF s = {} THEN 0
                           ELSE o[Some(s)[1]][Some(s)[2]] * o[Some(s)[1]][Some(s)[2]] + g[s \ {Some(s)}]]
             There(g) == [s \in SUBSET Cells |-> IF s = {} THEN 0 ELSE w[Some(s)] + g[s \ {Some(s)}]]
             h == CHOOSE g : g = Here(g)
             k == CHOOSE g : g = There(g)
  <2>1. \A g : Here(g) = There(g)
    <3>1. \A s \in SUBSET Cells : s # {} => Some(s) \in Cells
      BY DEF Some
    <3> QED
      BY <3>1
  <2>2. q = h[Cells]
    BY DEF MapThenSumSet, MapThenFoldSet, Some
  <2>3. Total(w, Cells) = k[Cells]
    BY DEF Total, MapThenSumSet, MapThenFoldSet, Some
  <2>4. h = k
    <3> HIDE DEF Here, There
    <3> QED
      BY <2>1
  <2> HIDE DEF h, k, w, q
  <2> QED
    BY <2>2, <2>3, <2>4
<1>5. \A tb \in Cells : w[tb] \in Int
  BY <1>2
<1> HIDE DEF w, q, S
<1>6. Total(w, Cells) \in Int
  BY <1>5, CellsFinite, SumIsInteger
<1> QED
  BY <1>1, <1>3, <1>4, <1>6

LEMMA RecolorIsNoWorse ==
  ASSUME NEW templates, NEW m, AreTemplates(templates, m), NEW D,
         NEW colors \in [D -> 0 .. BankCount - 1], NEW o \in D
  PROVE  ~Less(Objective(templates, colors), Objective(templates, Recolor(templates, colors, o)))
<1> DEFINE B == 0 .. BankCount - 1
           cost == [c \in B |-> Objective(templates, [colors EXCEPT ![o] = c])]
           L == {p \in B \X B : Less(cost[p[1]], cost[p[2]])}
           best == {c \in B : \A d \in B : ~Less(cost[d], cost[c])}
<1>1. \A c \in B : cost[c][1] \in Int /\ cost[c][2] \in Int
  BY ObjectiveType
<1>2. Recolor(templates, colors, o) = [colors EXCEPT ![o] = Min(best)]
  BY DEF Recolor
<1>3. colors[o] \in B /\ Objective(templates, colors) = cost[colors[o]]
  <2>1. [colors EXCEPT ![o] = colors[o]] = colors
    OBVIOUS
  <2> QED
    BY <2>1
<1>4. \A c \in B : Objective(templates, [colors EXCEPT ![o] = c]) = cost[c]
  OBVIOUS
<1> HIDE DEF cost
<1>5. \A x, y \in B : <<x, y>> \in L <=> Less(cost[x], cost[y])
  OBVIOUS
<1>6. IsFiniteSet(B) /\ B # {} /\ B \subseteq Nat
  BY TorusAssumption, FS_Interval
<1> HIDE DEF B
<1>7. IsStrictOrder(L, B)
  <2>1. \A x \in B : ~Less(cost[x], cost[x])
    BY <1>1 DEF Less
  <2>2. \A x, y, z \in B : Less(cost[x], cost[y]) /\ Less(cost[y], cost[z]) => Less(cost[x], cost[z])
    <3> SUFFICES ASSUME NEW x \in B, NEW y \in B, NEW z \in B,
                        Less(cost[x], cost[y]), Less(cost[y], cost[z])
                 PROVE  Less(cost[x], cost[z])
      OBVIOUS
    <3>1. /\ cost[x][1] \in Int /\ cost[x][2] \in Int /\ cost[y][1] \in Int /\ cost[y][2] \in Int
          /\ cost[z][1] \in Int /\ cost[z][2] \in Int
      BY <1>1
    <3> QED
      BY <3>1 DEF Less
  <2> HIDE DEF L
  <2> QED
    BY <1>5, <2>1, <2>2 DEF IsStrictOrder
<1> HIDE DEF L
<1>8. PICK c : IsFirst(c, L, B)
  BY <1>6, <1>7, FirstExists
<1>9. c \in best
  BY <1>5, <1>8 DEF IsFirst
<1>10. Min(best) \in best
  <2>1. best \in SUBSET Nat /\ best # {}
    BY <1>6, <1>9
  <2> HIDE DEF best
  <2>2. \E x \in best : \A y \in best : x <= y
    BY <2>1, LeastElement
  <2> QED
    BY <2>2 DEF Min
<1> DEFINE x == Min(best)
<1>11. x \in B /\ \A d \in B : ~Less(cost[d], cost[x])
  <2>1. x \in best
    BY <1>10
  <2> HIDE DEF x
  <2> QED
    BY <2>1
<1>12. Objective(templates, Recolor(templates, colors, o)) = cost[x]
  BY <1>2, <1>4, <1>11
<1> QED
  BY <1>3, <1>11, <1>12

-----------------------------------------------------------------------------
\* The rows of an accepted image hold places.
LEMMA TemplateRows ==
  ASSUME NEW dem, IsModel(dem), ~Ambiguous(dem), NEW s, Numbered(dem, s)
  PROVE  AreTemplates(Templates(dem, s.at), Len(s.reps))
<1> SUFFICES ASSUME NEW t \in Times
             PROVE  \E n \in Nat : IsTemplateRow(Templates(dem, s.at)[t], n, Len(s.reps))
  BY DEF AreTemplates
<1> DEFINE nb == Neighbors(dem, t * GroupOrder)
<1>1. PICK n \in Nat : nb \in [1 .. n -> DOMAIN dem]
  BY NeighborFacts
<1>2. Templates(dem, s.at)[t] = [e \in DOMAIN nb |-> s.at[nb[e]]]
  BY DEF Templates
<1> HIDE DEF nb
<1>3. \A e \in 1 .. n : s.at[nb[e]] \in (0 .. Len(s.reps) - 1) \X Coordinates
  <2> SUFFICES ASSUME NEW e \in 1 .. n PROVE s.at[nb[e]] \in (0 .. Len(s.reps) - 1) \X Coordinates
    OBVIOUS
  <2>1. nb[e] \in DOMAIN dem
    BY <1>1
  <2> DEFINE v == nb[e]
  <2> HIDE DEF v
  <2>2. v \in DOMAIN dem
    BY <2>1 DEF v
  <2>3. /\ s.at[v] = <<s.at[v][1], s.at[v][2]>>
        /\ s.at[v][1] \in 0 .. Len(s.reps) - 1 /\ s.at[v][2] \in Coordinates
    BY <2>2, PlaceFacts
  <2> QED
    BY <2>3 DEF v
<1>4. IsTemplateRow(Templates(dem, s.at)[t], n, Len(s.reps))
  BY <1>1, <1>2, <1>3 DEF IsTemplateRow
<1> QED
  BY <1>4

\* For every torus whose columns the banks divide, every error model and whatever colours
\* the descent has reached: no step of it makes the schedule worse, and the beats of every
\* row hold each edge once, never two of one bank, wherever the row is expanded
\* (_four_bank_schedule).
THEOREM BankingSound ==
  ASSUME NEW Priors, NEW dem \in Models(Priors)
  PROVE  BanksNeverCollide(dem)
<1>0. IsModel(dem)
  BY ModelFacts
<1> DEFINE image == Compile(dem)
<1> SUFFICES ASSUME image.accepted PROVE BeatsNeverCollide(image)
  BY DEF BanksNeverCollide, BeatsNeverCollide
<1> DEFINE s == Orbits(dem)
<1>1. ~Ambiguous(dem) /\ image = ImageOf(dem, s)
  <2>1. image = IF Ambiguous(dem) THEN Refused ELSE ImageOf(dem, s)
    BY DEF Compile
  <2> HIDE DEF s, image
  <2> QED
    BY <2>1 DEF Refused
<1>2. (s.ok => Numbered(dem, s)) /\ s.ok \in BOOLEAN
  BY <1>0, <1>1, OrbitsEnd
<1> HIDE DEF s, image
<1>3. s.ok
  BY <1>1 DEF ImageOf, Refused
<1>4. image.templates = Templates(dem, s.at) /\ image.orbits = Len(s.reps)
  BY <1>0, <1>1, <1>2, <1>3, TemplateFacts DEF IsTemplateImage
<1>5. AreTemplates(image.templates, image.orbits) /\ image.orbits \in Nat
  BY <1>0, <1>1, <1>2, <1>3, <1>4, TemplateRows DEF Numbered, OrbitStates
<1> DEFINE m == image.orbits
<1>6. ASSUME NEW colors \in [0 .. m - 1 -> 0 .. BankCount - 1], NEW t \in Times
      PROVE  LET row   == image.templates[t]
                 beats == Beats(row, colors)
             IN  /\ EdgesIn(beats) = Len(row)
                 /\ UNION {{be[2] : be \in beats[k]} : k \in DOMAIN beats} = DOMAIN row
                 /\ \A k \in DOMAIN beats, c \in Coordinates :
                      Cardinality({Bank(colors, row[be[2]][1], Add(row[be[2]][2], c))
                                     : be \in beats[k]}) = Cardinality(beats[k])
  <2> DEFINE row == image.templates[t]
             beats == Beats(row, colors)
             bank == [e \in DOMAIN row |-> Bank(colors, row[e][1], row[e][2])]
             B == 0 .. BankCount - 1
  <2>1. PICK n \in Nat : IsTemplateRow(row, n, m)
    BY <1>5 DEF AreTemplates
  <2> HIDE DEF row, m
  <2>2. DOMAIN row = 1 .. n /\ Len(row) = n
    <3>1. DOMAIN row = 1 .. n
      BY <2>1 DEF IsTemplateRow
    <3>2. row \in Seq((0 .. m - 1) \X Coordinates)
      BY <2>1 DEF IsTemplateRow
    <3> QED
      BY <3>1, <3>2
  <2>3. bank \in [1 .. n -> B]
    <3>1. \A e \in 1 .. n : row[e][1] \in 0 .. m - 1 /\ row[e][2] \in Coordinates
      BY <2>1 DEF IsTemplateRow
    <3>2. \A e \in 1 .. n : Bank(colors, row[e][1], row[e][2]) \in B
      BY <3>1, BankMoves, Sizes
    <3> QED
      BY <2>2, <3>2
  <2>4. beats = Packed(bank)
    BY DEF Beats
  <2> HIDE DEF bank, B
  <2>5. EdgesIn(beats) = n /\ UNION {{be[2] : be \in beats[k]} : k \in DOMAIN beats} = 1 .. n
    <3> DEFINE packed == Packed(bank)
    <3>1. EdgesIn(packed) = n /\ UNION {{be[2] : be \in packed[k]} : k \in DOMAIN packed} = 1 .. n
      BY <2>3, EveryEdgeOnce
    <3>2. beats = packed
      BY <2>4
    <3> HIDE DEF packed, beats
    <3> QED
      BY <3>1, <3>2
  <2>6. \A k \in DOMAIN beats, c \in Coordinates :
          Cardinality({Bank(colors, row[be[2]][1], Add(row[be[2]][2], c)) : be \in beats[k]})
            = Cardinality(beats[k])
    BY <1>5, <2>1, BeatMoves DEF m
  <2> HIDE DEF beats
  <2>7. /\ EdgesIn(beats) = Len(row)
        /\ UNION {{be[2] : be \in beats[k]} : k \in DOMAIN beats} = DOMAIN row
        /\ \A k \in DOMAIN beats, c \in Coordinates :
             Cardinality({Bank(colors, row[be[2]][1], Add(row[be[2]][2], c)) : be \in beats[k]})
               = Cardinality(beats[k])
    BY <2>2, <2>5, <2>6
  <2> QED
    BY <2>7 DEF beats, row
<1>7. ASSUME NEW colors \in [0 .. m - 1 -> 0 .. BankCount - 1], NEW o \in DOMAIN colors
      PROVE  ~Less(Objective(image.templates, colors),
                   Objective(image.templates, Recolor(image.templates, colors, o)))
  BY <1>5, RecolorIsNoWorse
<1> QED
  BY <1>6, <1>7 DEF BeatsNeverCollide
-----------------------------------------------------------------------------
(* A template image as a pass reads it.                                    *)

Birth(image, a) == image.start[a \div GroupOrder]
Death(image, a) == image.end[a \div GroupOrder]

\* A row names two or more different faults, each in its lifetime.
IsPassRow(image, d) ==
  /\ \E n \in Nat \ {0, 1} : Row(image, d) \in [1 .. n -> Addresses(image)]
  /\ IsInjective(Row(image, d))
  /\ \A e \in DOMAIN Row(image, d) : /\ Birth(image, Row(image, d)[e]) <= SliceOf(d)
                                     /\ SliceOf(d) <= Death(image, Row(image, d)[e])

IsLifetime(image, o) ==
  /\ image.start[o] \in Times /\ image.end[o] \in Times /\ image.start[o] <= image.end[o]

IsPassImage(image) ==
  /\ image.orbits \in Nat
  /\ \A o \in 0 .. image.orbits - 1 : image.prior[o] \in 0 .. POSTERIOR_MAX /\ IsLifetime(image, o)
  /\ \A d \in Detectors : IsPassRow(image, d)

\* The slices of a mask that is not empty are slices.
LEMMA SlicesInRange ==
  ASSUME NEW mask \in SUBSET Detectors, mask # {}
  PROVE  /\ FirstSlice(mask) \in Times /\ LastSlice(mask) \in Times
         /\ FirstSlice(mask) <= LastSlice(mask)
<1> DEFINE S == {SliceOf(d) : d \in mask}
<1>1. S \in SUBSET Times /\ S # {}
  BY DetectorParts DEF SliceOf
<1>2. IsFiniteSet(Times) /\ Times \subseteq Int
  BY FS_Interval, TorusAssumption DEF Times
<1> HIDE DEF S
<1>3. IsFiniteSet(S) /\ S \in SUBSET Int /\ S \in SUBSET Nat
  <2>1. Times \subseteq Nat
    BY TorusAssumption DEF Times
  <2> QED
    BY <1>1, <1>2, <2>1, FS_Subset
<1>4. Max(S) \in S /\ \A x \in S : Max(S) >= x
  BY <1>1, <1>3, MaxOfFinite
<1>5. Min(S) \in S
  <2>1. \E x \in S : \A y \in S : x <= y
    BY <1>1, <1>3, LeastElement
  <2> QED
    BY <2>1 DEF Min
<1>6. FirstSlice(mask) = Min(S) /\ LastSlice(mask) = Max(S)
  BY DEF FirstSlice, LastSlice, S
<1>7. Max(S) >= Min(S)
  BY <1>4, <1>5
<1> DEFINE lo == Min(S)
           hi == Max(S)
<1>8. lo \in Int /\ hi \in Int /\ hi >= lo /\ lo \in Times /\ hi \in Times
  BY <1>1, <1>3, <1>4, <1>5, <1>7
<1> HIDE DEF lo, hi
<1>9. lo <= hi
  BY <1>8
<1> QED
  BY <1>6, <1>8, <1>9 DEF lo, hi

\* The address of a place.
LEMMA FaultParts ==
  ASSUME NEW m \in Nat, NEW o \in 0 .. m - 1, NEW c \in Coordinates
  PROVE  /\ o * GroupOrder + c \in 0 .. m * GroupOrder - 1
         /\ (o * GroupOrder + c) \div GroupOrder = o /\ (o * GroupOrder + c) % GroupOrder = c
<1> DEFINE g == GroupOrder
<1>1. g \in Nat \ {0} /\ c \in 0 .. g - 1
  BY Sizes DEF Coordinates
<1> HIDE DEF g
<1>2. (o * g + c) \div g = o /\ (o * g + c) % g = c
  BY <1>1, DivMod
<1>3. o * g + c \in 0 .. m * g - 1
  <2>1. m * g = o * g + (m - o) * g /\ m - o \in Nat /\ m - o >= 1
    BY <1>1
  <2>2. (m - o) * g >= g /\ (m - o) * g \in Nat /\ o * g \in Nat /\ m * g \in Nat
    BY <1>1, <2>1
  <2> QED
    BY <1>1, <2>1, <2>2
<1> QED
  BY <1>2, <1>3 DEF g

\* An address has an orbit.
LEMMA AddressParts ==
  ASSUME NEW m \in Nat, NEW a \in 0 .. m * GroupOrder - 1
  PROVE  a \div GroupOrder \in 0 .. m - 1 /\ a % GroupOrder \in Coordinates
<1> DEFINE g == GroupOrder
           o == a \div g
           c == a % g
<1>1. g \in Nat \ {0} /\ Coordinates = 0 .. g - 1
  BY Sizes DEF Coordinates
<1> HIDE DEF g
<1>2. m * g \in Nat
  BY <1>1
<1>3. a \in Nat /\ a < m * g
  BY <1>2 DEF g
<1>4. o \in Nat /\ c \in 0 .. g - 1 /\ a = o * g + c
  BY <1>1, <1>3, DivModOf
<1> HIDE DEF o, c
<1>5. o < m
  <2> SUFFICES ASSUME o >= m PROVE FALSE
    BY <1>4
  <2>1. o * g = m * g + (o - m) * g /\ o - m \in Nat
    BY <1>1, <1>4
  <2>2. (o - m) * g \in Nat /\ o * g \in Nat
    BY <1>1, <1>4, <2>1
  <2> QED
    BY <1>2, <1>3, <1>4, <2>1, <2>2
<1>6. o \in 0 .. m - 1
  BY <1>4, <1>5
<1> QED
  BY <1>1, <1>4, <1>6 DEF o, c, g

\* Every fault on a detector has one place in the detector's list.
LEMMA NeighborsDiffer ==
  ASSUME NEW dem, IsModel(dem), NEW d,
         Cardinality({v \in DOMAIN dem : d \in dem[v].mask}) >= 2
  PROVE  /\ \E n \in Nat \ {0, 1} : Neighbors(dem, d) \in [1 .. n -> DOMAIN dem]
         /\ IsInjective(Neighbors(dem, d))
         /\ \A e \in DOMAIN Neighbors(dem, d) : d \in dem[Neighbors(dem, d)[e]].mask
<1> DEFINE S == {v \in DOMAIN dem : d \in dem[v].mask}
           n == Cardinality(S)
           f == Neighbors(dem, d)
<1>1. S \in SUBSET Nat /\ S \subseteq DOMAIN dem /\ \A v \in S : d \in dem[v].mask
  BY DEF IsModel
<1>2. IsFiniteSet(S)
  <2>1. IsFiniteSet(DOMAIN dem)
    BY FS_Interval DEF IsModel
  <2> QED
    BY <1>1, <2>1, FS_Subset
<1>3. f = InOrder(S) /\ n >= 2
  BY DEF Neighbors
<1> HIDE DEF S, f
<1>4. n \in Nat /\ f \in [1 .. n -> S] /\ \A x \in S : \E k \in 1 .. n : f[k] = x
  BY <1>1, <1>2, <1>3, InOrderFacts
<1>5. IsFiniteSet(1 .. n) /\ Cardinality(1 .. n) = n
  <2> HIDE DEF n
  <2>1. 0 \in Int /\ 1 \in Int /\ n \in Int /\ ~(1 > n)
    BY <1>3, <1>4
  <2>2. IsFiniteSet(1 .. n) /\ Cardinality(1 .. n) = n - 1 + 1
    BY <2>1, FS_Interval
  <2> QED
    BY <1>4, <2>2
<1>6. f \in Surjection(1 .. n, S)
  BY <1>4 DEF Surjection
<1>7. f \in Injection(1 .. n, S)
  <2>1. Cardinality(1 .. n) = Cardinality(S)
    BY <1>5
  <2> HIDE DEF n
  <2> QED
    BY <1>5, <1>6, <2>1, FS_SurjSameCardinalityImpliesInj
<1> HIDE DEF n
<1>8. DOMAIN f = 1 .. n /\ \A a, b \in 1 .. n : f[a] = f[b] => a = b
  BY <1>4, <1>7 DEF Injection, IsInjective
<1>9. IsInjective(f)
  BY <1>8 DEF IsInjective
<1>10. n \in Nat \ {0, 1} /\ f \in [1 .. n -> DOMAIN dem]
  <2>1. n \in Nat \ {0, 1}
    BY <1>3, <1>4
  <2> QED
    BY <1>1, <1>4, <2>1
<1>11. \A e \in DOMAIN f : d \in dem[f[e]].mask
  BY <1>1, <1>4, <1>8
<1> QED
  BY <1>9, <1>10, <1>11 DEF f

\* The rows of a compiled image are rows of a pass.
LEMMA RowsOfPass ==
  ASSUME NEW dem, IsModel(dem), ~Ambiguous(dem), NEW s, Numbered(dem, s),
         NEW image, IsTemplateImage(image, dem, s), NEW d \in Detectors,
         Cardinality({v \in DOMAIN dem : SliceOf(d) * GroupOrder \in dem[v].mask}) >= 2
  PROVE  IsPassRow(image, d)
<1> DEFINE t == SliceOf(d)
           c == d % GroupOrder
           nb == Neighbors(dem, t * GroupOrder)
           row == Row(image, d)
           m == Len(s.reps)
           Orbit(e) == s.at[nb[e]][1]
           At(e) == s.at[nb[e]][2]
<1>1. t \in Times /\ c \in Coordinates
  BY DetectorParts DEF SliceOf
<1>2. /\ \E n \in Nat \ {0, 1} : nb \in [1 .. n -> DOMAIN dem]
      /\ IsInjective(nb)
      /\ \A e \in DOMAIN nb : t * GroupOrder \in dem[nb[e]].mask
  BY NeighborsDiffer
<1>3. m \in Nat /\ image.orbits = m
  BY DEF Numbered, OrbitStates, IsTemplateImage
<1>4. row = [e \in DOMAIN nb |-> Orbit(e) * GroupOrder + Add(At(e), c)]
  <2>1. image.templates[t] = [e \in DOMAIN nb |-> s.at[nb[e]]]
    BY <1>1 DEF IsTemplateImage, Templates
  <2> HIDE DEF nb
  <2>2. row = [e \in DOMAIN nb |-> s.at[nb[e]][1] * GroupOrder + Add(s.at[nb[e]][2], c)]
    BY <2>1 DEF Row, CompactNeighbors
  <2> QED
    BY <2>2
<1> HIDE DEF nb, row, m
<1>5. ASSUME NEW e \in DOMAIN nb
      PROVE  /\ nb[e] \in DOMAIN dem /\ s.at[nb[e]] = <<Orbit(e), At(e)>>
             /\ Orbit(e) \in 0 .. m - 1 /\ At(e) \in Coordinates /\ Add(At(e), c) \in Coordinates
             /\ row[e] \in Addresses(image)
             /\ row[e] \div GroupOrder = Orbit(e) /\ row[e] % GroupOrder = Add(At(e), c)
  <2>1. nb[e] \in DOMAIN dem
    BY <1>2
  <2>2. /\ s.at[nb[e]] = <<Orbit(e), At(e)>>
        /\ Orbit(e) \in 0 .. m - 1 /\ At(e) \in Coordinates
    BY <2>1, PlaceFacts DEF m
  <2>3. Add(At(e), c) \in Coordinates
    BY <1>1, <2>2, AddParts
  <2>4. row[e] = Orbit(e) * GroupOrder + Add(At(e), c)
    BY <1>4
  <2> DEFINE o == Orbit(e)
             x == Add(At(e), c)
  <2>5. o \in 0 .. m - 1 /\ x \in Coordinates
    BY <2>2, <2>3
  <2> HIDE DEF o, x
  <2>6. /\ o * GroupOrder + x \in 0 .. m * GroupOrder - 1
        /\ (o * GroupOrder + x) \div GroupOrder = o /\ (o * GroupOrder + x) % GroupOrder = x
    BY <1>3, <2>5, FaultParts
  <2>7. row[e] = o * GroupOrder + x /\ Addresses(image) = 0 .. m * GroupOrder - 1
    BY <2>4, <1>3 DEF o, x, Addresses
  <2> QED
    BY <2>1, <2>2, <2>3, <2>6, <2>7 DEF o, x
<1>6. DOMAIN row = DOMAIN nb
  BY <1>4
<1>7. \E n \in Nat \ {0, 1} : row \in [1 .. n -> Addresses(image)]
  <2>1. PICK n \in Nat \ {0, 1} : nb \in [1 .. n -> DOMAIN dem]
    BY <1>2
  <2>2. row \in [1 .. n -> Addresses(image)]
    <3>1. DOMAIN nb = 1 .. n
      BY <2>1
    <3>2. \A e \in 1 .. n : row[e] \in Addresses(image)
      BY <1>5, <3>1
    <3>3. row = [e \in 1 .. n |-> row[e]]
      BY <1>4, <3>1
    <3> QED
      BY <3>2, <3>3
  <2> QED
    BY <2>2
<1>8. ASSUME NEW e \in DOMAIN row, NEW f \in DOMAIN row, row[e] = row[f]
      PROVE  e = f
  <2>1. e \in DOMAIN nb /\ f \in DOMAIN nb
    BY <1>6
  <2>2. Orbit(e) = Orbit(f) /\ Add(At(e), c) = Add(At(f), c) /\ At(e) \in Coordinates /\ At(f) \in Coordinates
    BY <1>5, <1>8, <2>1
  <2>3. At(e) = Add(Add(At(e), c), Opposite(c)) /\ At(f) = Add(Add(At(f), c), Opposite(c))
    BY <1>1, <2>2, AddCancels
  <2>4. At(e) = At(f)
    BY <2>2, <2>3
  <2>5. s.at[nb[e]] = s.at[nb[f]] /\ nb[e] \in DOMAIN dem /\ nb[f] \in DOMAIN dem
    BY <1>5, <2>1, <2>2, <2>4
  <2>6. nb[e] = nb[f]
    BY <2>5, PlacesDiffer
  <2> QED
    BY <1>2, <2>1, <2>6 DEF IsInjective
<1>9. ASSUME NEW e \in DOMAIN row
      PROVE  Birth(image, row[e]) <= t /\ t <= Death(image, row[e])
  <2> DEFINE o == Orbit(e)
             r == s.reps[o + 1]
             lo == FirstSlice(dem[r].mask)
             hi == LastSlice(dem[r].mask)
  <2>1. o \in 0 .. m - 1 /\ row[e] \div GroupOrder = o /\ nb[e] \in DOMAIN dem
    BY <1>5, <1>6
  <2>2. image.start[o] = lo /\ image.end[o] = hi
    BY <2>1 DEF IsTemplateImage, m
  <2>3. \A x \in dem[nb[e]].mask : SliceOf(x) \in lo .. hi
    BY <2>1, LifetimesCover
  <2>4. t * GroupOrder \in dem[nb[e]].mask
    BY <1>2, <1>6
  <2>5. SliceOf(t * GroupOrder) = t
    <3>1. 0 \in Coordinates /\ t * GroupOrder + 0 = t * GroupOrder
      BY <1>1, Sizes DEF Times
    <3>2. (t * GroupOrder + 0) \div GroupOrder = t
      BY <1>1, <3>1, DetectorOf
    <3> QED
      BY <3>1, <3>2 DEF SliceOf
  <2>6. t \in lo .. hi
    BY <2>3, <2>4, <2>5
  <2>7. dem[r].mask \in SUBSET Detectors
    <3>1. r \in DOMAIN dem
      BY <2>1, PlaceFacts
    <3> QED
      BY <3>1 DEF IsModel
  <2>8. Birth(image, row[e]) = lo /\ Death(image, row[e]) = hi
    BY <2>1, <2>2 DEF Birth, Death
  <2> HIDE DEF lo, hi, t
  <2>9. lo <= t /\ t <= hi
    BY <2>6
  <2> QED
    BY <2>8, <2>9
<1>10. IsInjective(row)
  BY <1>8 DEF IsInjective
<1> QED
  BY <1>7, <1>9, <1>10 DEF IsPassRow, row

\* What the compiler accepts, the pass can read.
LEMMA PassImageFacts ==
  ASSUME NEW dem, NEW target, IsStream(dem, target), Compile(dem).accepted
  PROVE  IsPassImage(Compile(dem))
<1> DEFINE s == Orbits(dem)
           image == Compile(dem)
<1>1. dem \in Models(0 .. POSTERIOR_MAX) /\ IsModel(dem)
  BY ModelFacts DEF IsStream
<1>2. ~Ambiguous(dem)
  BY DEF Compile, Refused
<1>3. image = ImageOf(dem, s)
  BY <1>2 DEF Compile
<1>4. (s.ok => Numbered(dem, s)) /\ s.ok \in BOOLEAN
  BY <1>1, <1>2, OrbitsEnd
<1> HIDE DEF s
<1>5. s.ok
  BY <1>3 DEF ImageOf, Refused
<1>6. Numbered(dem, s)
  BY <1>4, <1>5
<1>7. IsTemplateImage(image, dem, s)
  BY <1>1, <1>2, <1>3, <1>5, <1>6, TemplateFacts
<1> HIDE DEF image
<1> DEFINE m == Len(s.reps)
<1>8. m \in Nat /\ image.orbits = m /\ s.reps \in Seq(DOMAIN dem)
  BY <1>6, <1>7 DEF Numbered, OrbitStates, IsTemplateImage
<1>9. ASSUME NEW o \in 0 .. m - 1
      PROVE  image.prior[o] \in 0 .. POSTERIOR_MAX /\ IsLifetime(image, o)
  <2> DEFINE r == s.reps[o + 1]
  <2>1. r \in DOMAIN dem
    BY <1>8
  <2>2. dem[r].prior \in 0 .. POSTERIOR_MAX
    <3>1. dem[r] \in [mask : SUBSET Detectors, prior : 0 .. POSTERIOR_MAX, logical : Nat]
      <4> DEFINE X == [mask : SUBSET Detectors, prior : 0 .. POSTERIOR_MAX, logical : Nat]
      <4>1. dem \in Seq(X)
        BY <1>1 DEF Models
      <4> HIDE DEF X
      <4>2. dem[r] \in X
        BY <2>1, <4>1
      <4> QED
        BY <4>2 DEF X
    <3> QED
      BY <3>1
  <2>3. dem[r].mask \in SUBSET Detectors /\ dem[r].mask # {}
    BY <1>1, <2>1 DEF IsModel, IsStream
  <2>4. /\ FirstSlice(dem[r].mask) \in Times /\ LastSlice(dem[r].mask) \in Times
        /\ FirstSlice(dem[r].mask) <= LastSlice(dem[r].mask)
    BY <2>3, SlicesInRange
  <2> QED
    BY <1>7, <2>2, <2>4 DEF IsTemplateImage, IsLifetime
<1>10. ASSUME NEW d \in Detectors PROVE IsPassRow(image, d)
  <2>1. SliceOf(d) \in Times
    BY DetectorParts DEF SliceOf
  <2>2. SliceOf(d) * GroupOrder \in Detectors
    <3>1. 0 \in Coordinates /\ SliceOf(d) * GroupOrder + 0 = SliceOf(d) * GroupOrder
      BY <2>1, Sizes DEF Times
    <3>2. SliceOf(d) * GroupOrder + 0 \in Detectors
      BY <2>1, <3>1, DetectorOf
    <3> QED
      BY <3>1, <3>2
  <2>3. Cardinality({v \in DOMAIN dem : SliceOf(d) * GroupOrder \in dem[v].mask}) >= 2
    BY <2>2 DEF IsStream
  <2> QED
    BY <1>1, <1>2, <1>6, <1>7, <2>3, RowsOfPass
<1> HIDE DEF m
<1>11. \A o \in 0 .. image.orbits - 1 : image.prior[o] \in 0 .. POSTERIOR_MAX /\ IsLifetime(image, o)
  BY <1>8, <1>9
<1> QED
  BY <1>8, <1>10, <1>11 DEF IsPassImage, image

-----------------------------------------------------------------------------
(* The same rows as a graph, swept forward.                                *)

PassGraph(image) ==
  [n \in 1 .. Slices * GroupOrder |->
     LET row == Row(image, n - 1) IN [e \in DOMAIN row |-> row[e] + 1]]
PassPrior(image) == [n \in 1 .. image.orbits * GroupOrder |-> OrbitPrior(image, n - 1)]
PassBits(target) == [n \in 1 .. Slices * GroupOrder |-> Bit(target, n - 1)]
PassVariables(image) == 1 .. image.orbits * GroupOrder

\* f runs through the states of the sweep.
IsPassSweep(f, image, target) ==
  /\ f[0] = Fresh(PassGraph(image), PassPrior(image))
  /\ \A i \in 1 .. Slices * GroupOrder :
       f[i] = CheckStep(PassGraph(image), PassBits(target), "wide", f[i - 1], i)

LEMMA PassSizes ==
  ASSUME NEW image, IsPassImage(image)
  PROVE  /\ Slices * GroupOrder \in Nat /\ image.orbits * GroupOrder \in Nat
         /\ \A n \in 1 .. Slices * GroupOrder : n - 1 \in Detectors
         /\ \A d \in Detectors : d + 1 \in 1 .. Slices * GroupOrder /\ d \in Nat
         /\ \A a \in Addresses(image) : a + 1 \in PassVariables(image) /\ a \in Nat
         /\ \A v \in PassVariables(image) : v - 1 \in Addresses(image) /\ v \in Nat
<1> DEFINE m == Slices * GroupOrder
           n == image.orbits * GroupOrder
<1>1. m \in Nat /\ n \in Nat
  <2>1. Slices \in Nat /\ GroupOrder \in Nat /\ image.orbits \in Nat
    BY TorusAssumption, Sizes DEF IsPassImage
  <2> QED
    BY <2>1
<1>2. Detectors = 0 .. m - 1 /\ Addresses(image) = 0 .. n - 1 /\ PassVariables(image) = 1 .. n
  BY DEF Detectors, Addresses, PassVariables
<1> HIDE DEF m, n
<1> QED
  BY <1>1, <1>2 DEF m, n

\* The prior of an address is a posterior in range.
LEMMA PriorInRange ==
  ASSUME NEW image, IsPassImage(image), NEW a \in Addresses(image)
  PROVE  /\ OrbitPrior(image, a) \in 0 .. POSTERIOR_MAX
         /\ Birth(image, a) \in Times /\ Death(image, a) \in Times
         /\ Birth(image, a) <= Death(image, a)
<1>1. a \div GroupOrder \in 0 .. image.orbits - 1
  BY AddressParts DEF IsPassImage, Addresses
<1> QED
  BY <1>1 DEF IsPassImage, IsLifetime, OrbitPrior, Birth, Death

LEMMA PassIsGraph ==
  ASSUME NEW image, IsPassImage(image), NEW target
  PROVE  /\ IsGraph(PassGraph(image), PassBits(target), PassVariables(image))
         /\ PassPrior(image) \in [PassVariables(image) -> 0 .. POSTERIOR_MAX]
         /\ DOMAIN PassGraph(image) = 1 .. Slices * GroupOrder
         /\ \A d \in Detectors :
              /\ PassGraph(image)[d + 1] = [e \in DOMAIN Row(image, d) |-> Row(image, d)[e] + 1]
              /\ PassBits(target)[d + 1] = Bit(target, d)
         /\ \A a \in Addresses(image) : PassPrior(image)[a + 1] = OrbitPrior(image, a)
<1> DEFINE m == Slices * GroupOrder
           V == PassVariables(image)
           g == PassGraph(image)
<1>1. /\ m \in Nat
      /\ \A n \in 1 .. m : n - 1 \in Detectors
      /\ \A d \in Detectors : d + 1 \in 1 .. m /\ d \in Nat
      /\ \A a \in Addresses(image) : a + 1 \in V /\ a \in Nat
      /\ \A v \in V : v - 1 \in Addresses(image) /\ v \in Nat
  BY PassSizes
<1>2. DOMAIN g = 1 .. m
  BY DEF PassGraph
<1>3. ASSUME NEW n \in 1 .. m
      PROVE  g[n] \in Seq(V) /\ Len(g[n]) >= 2 /\ IsInjective(g[n])
  <2> DEFINE row == Row(image, n - 1)
             grow == [e \in DOMAIN row |-> row[e] + 1]
  <2>1. IsPassRow(image, n - 1)
    BY <1>1 DEF IsPassImage
  <2>2. PICK k \in Nat \ {0, 1} : row \in [1 .. k -> Addresses(image)]
    BY <2>1 DEF IsPassRow
  <2>3. g[n] = grow
    BY DEF PassGraph
  <2>4. \A e \in 1 .. k : row[e] + 1 \in V /\ row[e] \in Nat
    BY <1>1, <2>2
  <2>5. DOMAIN row = 1 .. k
    BY <2>2
  <2>6. IsInjective(row)
    BY <2>1 DEF IsPassRow
  <2> HIDE DEF row, V
  <2>7. grow \in [1 .. k -> V]
    BY <2>4, <2>5
  <2>8. grow \in Seq(V) /\ Len(grow) = k
    <3> HIDE DEF grow
    <3> QED
      BY <2>2, <2>7
  <2>9. IsInjective(grow)
    BY <2>4, <2>5, <2>6 DEF IsInjective
  <2>10. k >= 2
    BY <2>2
  <2> HIDE DEF grow, g
  <2> QED
    BY <2>3, <2>8, <2>9, <2>10
<1>4. g \in Seq(Seq(V))
  <2> DEFINE W == Seq(V)
  <2>1. \A n \in 1 .. m : g[n] \in W
    BY <1>3
  <2> HIDE DEF W, m, g
  <2>2. g \in [1 .. m -> W]
    <3>1. g = [n \in 1 .. m |-> g[n]]
      <4>1. g = [n \in DOMAIN g |-> g[n]]
        BY DEF g, PassGraph
      <4> QED
        BY <1>2, <4>1
    <3> QED
      BY <2>1, <3>1
  <2>3. g \in Seq(W)
    BY <1>1, <2>2
  <2> QED
    BY <2>3 DEF W
<1>5. PassBits(target) \in [1 .. m -> 0 .. 1]
  BY DEF PassBits, Bit
<1>6. ASSUME NEW d \in Detectors
      PROVE  /\ g[d + 1] = [e \in DOMAIN Row(image, d) |-> Row(image, d)[e] + 1]
             /\ PassBits(target)[d + 1] = Bit(target, d)
  <2> DEFINE k == d + 1
  <2>1. k \in 1 .. m /\ k - 1 = d
    BY <1>1
  <2> HIDE DEF k
  <2>2. g[k] = [e \in DOMAIN Row(image, k - 1) |-> Row(image, k - 1)[e] + 1]
    BY <2>1 DEF PassGraph
  <2>3. PassBits(target)[k] = Bit(target, k - 1)
    BY <2>1 DEF PassBits
  <2> QED
    BY <2>1, <2>2, <2>3 DEF k
<1>7. PassPrior(image) \in [V -> 0 .. POSTERIOR_MAX]
  BY <1>1, PriorInRange DEF PassPrior, PassVariables
<1>8. ASSUME NEW a \in Addresses(image) PROVE PassPrior(image)[a + 1] = OrbitPrior(image, a)
  <2> DEFINE k == a + 1
  <2>1. k \in V /\ k - 1 = a
    BY <1>1
  <2> HIDE DEF k
  <2>2. PassPrior(image)[k] = OrbitPrior(image, k - 1)
    BY <2>1 DEF PassPrior, PassVariables
  <2> QED
    BY <2>1, <2>2 DEF k
<1> HIDE DEF V, g, m
<1>9. IsGraph(g, PassBits(target), V)
  BY <1>2, <1>3, <1>4, <1>5 DEF IsGraph
<1> QED
  BY <1>2, <1>6, <1>7, <1>8, <1>9 DEF g, m, V

\* A state of the sweep before the checks from i on: the posteriors keep their width, and the
\* checks not yet visited have said nothing.
IsPassState(image, s, i) ==
  /\ IsState(PassGraph(image), PassVariables(image), s, MessageRange)
  /\ \A v \in PassVariables(image) : s.posterior[v] \in POSTERIOR_MIN .. POSTERIOR_MAX
  /\ \A d \in Detectors : d >= i => \A e \in DOMAIN Row(image, d) : s.messages[d + 1][e] = 0

\* What a fault hears of a check at its first visit: the live values go in.
LiveUpdate(image, target, s, d) ==
  WideCheckUpdate([e \in DOMAIN Row(image, d) |-> s.posterior[Row(image, d)[e] + 1]], Bit(target, d))

\* t is s after the first visit of the check of detector d.
Visited(image, target, d, s, t) ==
  /\ \A a \in Addresses(image) : a \notin ToSet(Row(image, d)) => t.posterior[a + 1] = s.posterior[a + 1]
  /\ \A e \in DOMAIN Row(image, d) :
       t.posterior[Row(image, d)[e] + 1]
         = SatAdd(s.posterior[Row(image, d)[e] + 1], LiveUpdate(image, target, s, d)[e])

LEMMA SaturatedInWidth ==
  \A x \in Int : /\ Saturate(x) \in POSTERIOR_MIN .. POSTERIOR_MAX
                 /\ x \in POSTERIOR_MIN .. POSTERIOR_MAX => Saturate(x) = x
BY DEF Saturate, POSTERIOR_MIN, POSTERIOR_MAX

\* A first visit takes nothing out of the posteriors, and what it says of a variable is added.
LEMMA FirstVisit ==
  ASSUME NEW image, IsPassImage(image), NEW target, NEW d \in Detectors,
         NEW s, IsPassState(image, s, d)
  PROVE  LET t == CheckStep(PassGraph(image), PassBits(target), "wide", s, d + 1)
         IN  IsPassState(image, t, d + 1) /\ Visited(image, target, d, s, t)
<1> DEFINE g == PassGraph(image)
           V == PassVariables(image)
           bits == PassBits(target)
           m == Slices * GroupOrder
           row == Row(image, d)
           c == d + 1
           t == CheckStep(g, bits, "wide", s, c)
           x == [e \in DOMAIN row |-> s.posterior[row[e] + 1]]
           told == WideCheckUpdate(x, Bit(target, d))
<1>1. /\ IsGraph(g, bits, V) /\ DOMAIN g = 1 .. m
      /\ g[c] = [e \in DOMAIN row |-> row[e] + 1] /\ bits[c] = Bit(target, d)
  BY PassIsGraph
<1>2. c \in 1 .. m /\ d \in Nat /\ \A b \in Detectors : b + 1 \in 1 .. m /\ b \in Nat
  BY PassSizes
<1>3. \A a \in Addresses(image) : a + 1 \in V /\ a \in Nat
  BY PassSizes
<1>4. \A v \in V : v - 1 \in Addresses(image) /\ v \in Nat
  BY PassSizes
<1>5. PICK k \in Nat \ {0, 1} : row \in [1 .. k -> Addresses(image)]
  BY DEF IsPassImage, IsPassRow
<1>6. IsState(g, V, s, MessageRange) /\ \A e \in DOMAIN row : s.messages[c][e] = 0
  <2>1. d >= d
    BY <1>2
  <2> QED
    BY <2>1 DEF IsPassState
<1>7. \A v \in V : s.posterior[v] \in POSTERIOR_MIN .. POSTERIOR_MAX
  BY DEF IsPassState
<1>8. "wide" \in Kernels /\ AnswersOf("wide") = MessageRange /\ MessageRange \subseteq Int
  BY DEF Kernels, AnswersOf, MessageRange, WIDE_MAG_MAX
<1> HIDE DEF g, bits, V, m, row, c
<1>9. Answered(g, bits, "wide", s, c, t) /\ IsState(g, V, t, MessageRange)
  BY <1>1, <1>2, <1>6, <1>8, CheckAnswers, CheckKeepsState
<1> HIDE DEF t
<1>10. DOMAIN row = 1 .. k /\ DOMAIN g[c] = 1 .. k /\ \A e \in 1 .. k : g[c][e] = row[e] + 1
  BY <1>1, <1>5
<1>11. \A e \in 1 .. k : row[e] \in Addresses(image) /\ row[e] + 1 \in V
  BY <1>3, <1>5
<1>12. Heard(g, "wide", s, c) = x
  <2>1. \A e \in 1 .. k : SatSub(s.posterior[row[e] + 1], 0) = s.posterior[row[e] + 1]
    <3> SUFFICES ASSUME NEW e \in 1 .. k
                 PROVE  SatSub(s.posterior[row[e] + 1], 0) = s.posterior[row[e] + 1]
      OBVIOUS
    <3> DEFINE p == s.posterior[row[e] + 1]
    <3>1. p \in POSTERIOR_MIN .. POSTERIOR_MAX
      BY <1>7, <1>11
    <3> HIDE DEF p
    <3>2. p \in Int /\ p - 0 = p
      BY <3>1 DEF POSTERIOR_MIN, POSTERIOR_MAX
    <3> QED
      BY <3>1, <3>2, SaturatedInWidth DEF SatSub, p
  <2>2. Heard(g, "wide", s, c) = [e \in 1 .. k |-> SatSub(s.posterior[row[e] + 1], 0)]
    <3>1. Heard(g, "wide", s, c) = [e \in 1 .. k |-> SatSub(s.posterior[g[c][e]], s.messages[c][e])]
      BY <1>10 DEF Heard, Without
    <3> QED
      BY <1>6, <1>10, <3>1
  <2> QED
    BY <2>1, <2>2, <1>10
<1>13. t.messages[c] = told
  BY <1>1, <1>9, <1>12 DEF Answered, UpdateOf
<1>14. told \in [1 .. k -> MessageRange]
  <2>1. x \in [1 .. k -> Int]
    <3>1. \A e \in 1 .. k : s.posterior[row[e] + 1] \in Int
      BY <1>6, <1>11 DEF IsState
    <3> QED
      BY <3>1, <1>10
  <2> HIDE DEF x
  <2> QED
    BY <1>5, <2>1, WideType
<1> HIDE DEF told, x
<1>15. \A e \in 1 .. k : t.posterior[row[e] + 1] = SatAdd(s.posterior[row[e] + 1], told[e])
  <2> SUFFICES ASSUME NEW e \in 1 .. k
               PROVE  t.posterior[row[e] + 1] = SatAdd(s.posterior[row[e] + 1], told[e])
    OBVIOUS
  <2> DEFINE p == s.posterior[row[e] + 1]
  <2>1. t.posterior[row[e] + 1] = Move("wide", p, s.messages[c][e], t.messages[c][e])
    BY <1>9, <1>10 DEF Answered
  <2>2. s.messages[c][e] = 0 /\ t.messages[c][e] = told[e]
    BY <1>6, <1>10, <1>13
  <2>3. p \in POSTERIOR_MIN .. POSTERIOR_MAX
    BY <1>7, <1>11
  <2> HIDE DEF p
  <2>4. Move("wide", p, 0, told[e]) = SatAdd(SatSub(p, 0), told[e])
    BY DEF Move, MoveTwice
  <2>5. p \in Int /\ p - 0 = p
    BY <2>3 DEF POSTERIOR_MIN, POSTERIOR_MAX
  <2>6. SatSub(p, 0) = p
    BY <2>3, <2>5, SaturatedInWidth DEF SatSub
  <2> QED
    BY <2>1, <2>2, <2>4, <2>6 DEF p
<1>16. /\ \A v \in V \ ToSet(g[c]) : t.posterior[v] = s.posterior[v]
       /\ \A b \in DOMAIN g \ {c} : t.messages[b] = s.messages[b]
  <2>1. DOMAIN s.posterior = V
    BY <1>6 DEF IsState, Shaped
  <2> QED
    BY <1>9, <2>1 DEF Answered, Reached
<1>17. \A a \in Addresses(image) : a \notin ToSet(row) => a + 1 \notin ToSet(g[c])
  <2> SUFFICES ASSUME NEW a \in Addresses(image), a + 1 \in ToSet(g[c]) PROVE a \in ToSet(row)
    OBVIOUS
  <2>1. PICK e \in 1 .. k : a + 1 = g[c][e]
    BY <1>10 DEF ToSet
  <2>2. a + 1 = row[e] + 1 /\ row[e] \in Nat /\ a \in Nat
    BY <2>1, <1>3, <1>10, <1>11
  <2>3. a = row[e]
    BY <2>2
  <2> QED
    BY <2>3, <1>10 DEF ToSet
<1>18. \A a \in Addresses(image) : a \notin ToSet(row) => t.posterior[a + 1] = s.posterior[a + 1]
  BY <1>3, <1>16, <1>17
<1>19. \A v \in V : t.posterior[v] \in POSTERIOR_MIN .. POSTERIOR_MAX
  <2> SUFFICES ASSUME NEW v \in V PROVE t.posterior[v] \in POSTERIOR_MIN .. POSTERIOR_MAX
    OBVIOUS
  <2>1. CASE v \in ToSet(g[c])
    <3>1. PICK e \in 1 .. k : v = row[e] + 1
      BY <2>1, <1>10 DEF ToSet
    <3>2. t.posterior[v] = Saturate(s.posterior[v] + told[e])
      BY <3>1, <1>15 DEF SatAdd
    <3>3. s.posterior[v] \in Int /\ told[e] \in Int
      BY <1>6, <1>8, <1>14 DEF IsState
    <3>4. s.posterior[v] + told[e] \in Int
      BY <3>3
    <3> QED
      BY <3>2, <3>4, SaturatedInWidth
  <2>2. CASE v \notin ToSet(g[c])
    BY <2>2, <1>7, <1>16
  <2> QED
    BY <2>1, <2>2
<1>20. ASSUME NEW b \in Detectors, b >= d + 1, NEW e \in DOMAIN Row(image, b)
       PROVE  t.messages[b + 1][e] = 0
  <2>1. b + 1 \in DOMAIN g /\ b + 1 # c /\ b >= d
    BY <1>1, <1>2, <1>20 DEF c
  <2>2. t.messages[b + 1] = s.messages[b + 1]
    BY <1>16, <2>1
  <2>3. s.messages[b + 1][e] = 0
    BY <2>1 DEF IsPassState
  <2> QED
    BY <2>2, <2>3
<1>21. IsPassState(image, t, d + 1)
  BY <1>9, <1>19, <1>20 DEF IsPassState, g, V
<1>22. Visited(image, target, d, s, t)
  BY <1>10, <1>15, <1>18 DEF Visited, LiveUpdate, told, x, row
<1> QED
  BY <1>21, <1>22 DEF t, g, bits, c

\* Every state of the sweep is one, and every step a first visit.
LEMMA PassSweepFacts ==
  ASSUME NEW image, IsPassImage(image), NEW target, NEW f, IsPassSweep(f, image, target)
  PROVE  /\ \A i \in 0 .. Slices * GroupOrder : IsPassState(image, f[i], i)
         /\ \A d \in Detectors : Visited(image, target, d, f[d], f[d + 1])
<1> DEFINE g == PassGraph(image)
           V == PassVariables(image)
           bits == PassBits(target)
           prior == PassPrior(image)
           m == Slices * GroupOrder
           D == {i \in 0 .. m : IsPassState(image, f[i], i)}
<1>1. m \in Nat /\ (\A n \in 1 .. m : n - 1 \in Detectors)
      /\ \A d \in Detectors : d + 1 \in 1 .. m /\ d \in Nat
  BY PassSizes
<1>2. /\ IsGraph(g, bits, V) /\ prior \in [V -> 0 .. POSTERIOR_MAX] /\ DOMAIN g = 1 .. m
      /\ \A d \in Detectors : g[d + 1] = [e \in DOMAIN Row(image, d) |-> Row(image, d)[e] + 1]
  BY PassIsGraph
<1>3. f[0] = Fresh(g, prior) /\ \A i \in 1 .. m : f[i] = CheckStep(g, bits, "wide", f[i - 1], i)
  BY DEF IsPassSweep
<1>4. IsPassState(image, f[0], 0)
  <2>1. g \in Seq(Seq(V)) /\ prior \in [V -> Int]
    <3> HIDE DEF g, V, prior, bits
    <3>1. 0 .. POSTERIOR_MAX \subseteq Int
      BY DEF POSTERIOR_MAX
    <3>2. prior \in [V -> Int]
      BY <1>2, <3>1
    <3> QED
      BY <1>2, <3>2 DEF IsGraph
  <2>2. IsState(g, V, f[0], MessageRange)
    <3> HIDE DEF g, V, prior
    <3> QED
      BY <1>3, <2>1, FreshFacts
  <2>3. f[0] = [posterior |-> [v \in V |-> Saturate(prior[v])],
                messages  |-> [c \in DOMAIN g |-> [e \in DOMAIN g[c] |-> 0]]]
    <3> HIDE DEF g, V, prior
    <3> QED
      BY <1>2, <1>3 DEF Fresh
  <2>4. \A v \in V : f[0].posterior[v] \in POSTERIOR_MIN .. POSTERIOR_MAX
    <3>1. \A v \in V : prior[v] \in Int
      BY <2>1
    <3> HIDE DEF V, prior, g
    <3> QED
      BY <2>3, <3>1, SaturatedInWidth
  <2>5. ASSUME NEW d \in Detectors, NEW e \in DOMAIN Row(image, d) PROVE f[0].messages[d + 1][e] = 0
    <3>1. d + 1 \in DOMAIN g /\ e \in DOMAIN g[d + 1]
      BY <1>1, <1>2
    <3> HIDE DEF g, V, prior
    <3> QED
      BY <2>3, <3>1
  <2> QED
    BY <2>2, <2>4, <2>5 DEF IsPassState
<1>5. ASSUME NEW i \in 1 .. m, IsPassState(image, f[i - 1], i - 1)
      PROVE  IsPassState(image, f[i], i) /\ Visited(image, target, i - 1, f[i - 1], f[i])
  <2> DEFINE d == i - 1
  <2>1. d \in Detectors /\ d + 1 = i
    BY <1>1
  <2> HIDE DEF d, g, bits
  <2>2. f[i] = CheckStep(g, bits, "wide", f[d], d + 1)
    BY <1>3, <2>1 DEF d
  <2>3. IsPassState(image, f[d], d)
    BY <1>5 DEF d
  <2>4. IsPassState(image, f[i], d + 1) /\ Visited(image, target, d, f[d], f[i])
    BY <2>1, <2>2, <2>3, FirstVisit DEF g, bits
  <2> QED
    BY <2>1, <2>4 DEF d
<1> HIDE DEF m
<1>6. 0 .. m \subseteq D
  <2>1. 0 \in D
    BY <1>1, <1>4
  <2>2. \A i \in 1 .. m : (i - 1) \in D => i \in D
    BY <1>1, <1>5
  <2> HIDE DEF D
  <2> QED
    BY <1>1, <2>1, <2>2, IntervalInduction
<1>7. \A i \in 0 .. m : IsPassState(image, f[i], i)
  BY <1>6
<1>8. ASSUME NEW d \in Detectors PROVE Visited(image, target, d, f[d], f[d + 1])
  <2> DEFINE i == d + 1
  <2>1. i \in 1 .. m /\ i - 1 = d /\ i - 1 \in 0 .. m
    BY <1>1
  <2> HIDE DEF i
  <2>2. Visited(image, target, i - 1, f[i - 1], f[i])
    BY <1>5, <1>7, <2>1
  <2> QED
    BY <2>1, <2>2 DEF i
<1> QED
  BY <1>7, <1>8 DEF m

-----------------------------------------------------------------------------
(* One check, and the checks of a slice.                                   *)

\* The live table holds what the sweep holds of its faults.
Mirrors(image, live, s) ==
  DOMAIN live \subseteq Addresses(image) /\ \A a \in DOMAIN live : live[a] = s.posterior[a + 1]

\* A check of the pass does what its visit in the sweep does.
LEMMA StreamVisit ==
  ASSUME NEW image, IsPassImage(image), NEW target, NEW d \in Detectors,
         NEW s, NEW t, Visited(image, target, d, s, t),
         NEW live, Mirrors(image, live, s), ToSet(Row(image, d)) \subseteq DOMAIN live
  PROVE  /\ DOMAIN StreamCheck(image, target, live, d) = DOMAIN live
         /\ Mirrors(image, StreamCheck(image, target, live, d), t)
<1> DEFINE row == Row(image, d)
           next == StreamCheck(image, target, live, d)
           x == [e \in DOMAIN row |-> live[row[e]]]
           out == WideCheckUpdate(x, Bit(target, d))
<1>1. IsInjective(row) /\ \A e \in DOMAIN row : row[e] \in ToSet(row)
  BY DEF IsPassImage, IsPassRow, ToSet
<1>2. out = LiveUpdate(image, target, s, d)
  <2>1. x = [e \in DOMAIN row |-> s.posterior[row[e] + 1]]
    BY <1>1 DEF Mirrors
  <2> QED
    BY <2>1 DEF LiveUpdate
<1>3. next = [a \in DOMAIN live |->
                IF a \in ToSet(row) THEN SatAdd(live[a], out[CHOOSE e \in DOMAIN row : row[e] = a])
                ELSE live[a]]
  BY DEF StreamCheck
<1> HIDE DEF next, out, x
<1>4. DOMAIN next = DOMAIN live
  BY <1>3
<1>5. ASSUME NEW a \in DOMAIN live PROVE next[a] = t.posterior[a + 1]
  <2>1. CASE a \in ToSet(row)
    <3>1. PICK e \in DOMAIN row : a = row[e]
      BY <2>1 DEF ToSet
    <3>2. (CHOOSE i \in DOMAIN row : row[i] = row[e]) = e
      <4> HIDE DEF row
      <4> QED
        BY <1>1, PlaceOf
    <3>3. next[a] = SatAdd(live[a], out[e])
      BY <1>3, <2>1, <3>1, <3>2
    <3>4. live[a] = s.posterior[a + 1]
      BY DEF Mirrors
    <3>5. t.posterior[row[e] + 1] = SatAdd(s.posterior[row[e] + 1], LiveUpdate(image, target, s, d)[e])
      BY DEF Visited
    <3> QED
      BY <1>2, <3>1, <3>3, <3>4, <3>5
  <2>2. CASE a \notin ToSet(row)
    <3>1. next[a] = live[a]
      BY <1>3, <2>2
    <3>2. a \in Addresses(image) /\ live[a] = s.posterior[a + 1]
      BY DEF Mirrors
    <3>3. t.posterior[a + 1] = s.posterior[a + 1]
      BY <2>2, <3>2 DEF Visited
    <3> QED
      BY <3>1, <3>2, <3>3
  <2> QED
    BY <2>1, <2>2
<1>6. DOMAIN live \subseteq Addresses(image)
  BY DEF Mirrors
<1>7. Mirrors(image, next, t)
  BY <1>4, <1>5, <1>6 DEF Mirrors
<1> QED
  BY <1>4, <1>7 DEF next

\* A fault that no check from i on names before j keeps its posterior.
LEMMA Untouched ==
  ASSUME NEW image, IsPassImage(image), NEW target, NEW f, IsPassSweep(f, image, target),
         NEW a \in Addresses(image), NEW i \in Nat, NEW j \in Nat, i <= j, j <= Slices * GroupOrder,
         \A d \in Detectors : i <= d /\ d < j => a \notin ToSet(Row(image, d))
  PROVE  f[j].posterior[a + 1] = f[i].posterior[a + 1]
<1> DEFINE m == Slices * GroupOrder
           P(k) == f[k].posterior[a + 1]
           D == {n \in 0 .. j - i : P(i + n) = P(i)}
<1>1. m \in Nat /\ Detectors = 0 .. m - 1
  BY PassSizes DEF Detectors
<1>2. \A d \in Detectors : a \notin ToSet(Row(image, d)) => P(d + 1) = P(d)
  BY PassSweepFacts DEF Visited
<1> HIDE DEF P, m
<1>3. 0 \in D
  <2>1. 0 \in 0 .. j - i /\ i + 0 = i
    OBVIOUS
  <2> QED
    BY <2>1
<1>4. ASSUME NEW n \in 1 .. j - i, (n - 1) \in D PROVE n \in D
  <2> DEFINE d == i + (n - 1)
  <2>1. d \in 0 .. m - 1 /\ i <= d /\ d < j /\ d + 1 = i + n
    BY <1>1 DEF m
  <2> HIDE DEF d
  <2>2. P(d + 1) = P(d)
    BY <1>1, <1>2, <2>1
  <2>3. P(d) = P(i)
    BY <1>4 DEF d
  <2>4. n \in 0 .. j - i
    OBVIOUS
  <2> QED
    BY <2>1, <2>2, <2>3, <2>4
<1>5. 0 .. j - i \subseteq D
  <2>1. j - i \in Nat
    OBVIOUS
  <2> HIDE DEF D
  <2> QED
    BY <1>3, <1>4, <2>1, IntervalInduction
<1>6. j - i \in 0 .. j - i /\ i + (j - i) = j
  OBVIOUS
<1>7. P(j) = P(i)
  <2>1. j - i \in D
    BY <1>5, <1>6
  <2>2. P(i + (j - i)) = P(i)
    BY <2>1
  <2> QED
    BY <1>6, <2>2
<1> QED
  BY <1>7 DEF P

\* The live table after some checks, and g, which runs through it.
LiveAfter(image, target, live, ds) ==
  FoldLeft(LAMBDA table, d : StreamCheck(image, target, table, d), live, ds)
IsLive(g, image, target, live, ds) ==
  g[0] = live /\ \A c \in 1 .. Len(ds) : g[c] = StreamCheck(image, target, g[c - 1], ds[c])

LEMMA LiveByPosition ==
  ASSUME NEW image, NEW target, NEW live, NEW C, NEW ds \in Seq(C)
  PROVE  \E f : IsLive(f, image, target, live, ds) /\ LiveAfter(image, target, live, ds) = f[Len(ds)]
<1> DEFINE n == Len(ds)
           b == live
           Step(t, i) == StreamCheck(image, target, t, ds[i])
           Rec(g, m) == [S \in SUBSET (1 .. m) |-> IF S = {} THEN b ELSE Step(g[S \ {Max(S)}], Max(S))]
           D == {m \in 0 .. n : \E g : g = Rec(g, m)}
<1>1. n \in Nat /\ DOMAIN ds = 1 .. n
  OBVIOUS
<1> HIDE DEF b, Step, n
<1>2. 0 \in D
  <2> DEFINE g == [S \in SUBSET (1 .. 0) |-> b]
  <2>1. \A S \in SUBSET (1 .. 0) : S = {}
    OBVIOUS
  <2>2. g = Rec(g, 0)
    BY <2>1
  <2> QED
    BY <1>1, <2>2
<1>3. ASSUME NEW m \in 1 .. n, (m - 1) \in D PROVE m \in D
  <2>1. PICK g : g = Rec(g, m - 1)
    BY <1>3
  <2> DEFINE h == [S \in SUBSET (1 .. m) |-> IF m \in S THEN Step(g[S \ {m}], m) ELSE g[S]]
  <2>2. ASSUME NEW S \in SUBSET (1 .. m)
        PROVE  h[S] = IF S = {} THEN b ELSE Step(h[S \ {Max(S)}], Max(S))
    <3>1. CASE m \in S
      <4>1. m \in Nat /\ S # {}
        BY <3>1
      <4>2. Max(S) \in 1 .. m /\ Max(S) >= m
        BY <3>1, <4>1, MaxOfPositions
      <4>3. Max(S) = m
        BY <4>1, <4>2
      <4>4. S \ {m} \in SUBSET (1 .. m) /\ m \notin S \ {m}
        OBVIOUS
      <4>5. h[S \ {m}] = g[S \ {m}]
        BY <4>4
      <4> QED
        BY <3>1, <4>1, <4>3, <4>5
    <3>2. CASE m \notin S
      <4>1. S \in SUBSET (1 .. (m - 1)) /\ h[S] = g[S] /\ m - 1 \in Nat
        BY <3>2
      <4>2. g[S] = IF S = {} THEN b ELSE Step(g[S \ {Max(S)}], Max(S))
        BY <2>1, <4>1
      <4>3. S \ {Max(S)} \in SUBSET (1 .. m) /\ m \notin S \ {Max(S)}
        BY <3>2
      <4>4. h[S \ {Max(S)}] = g[S \ {Max(S)}]
        BY <4>3
      <4> QED
        BY <4>1, <4>2, <4>4
    <3> QED
      BY <3>1, <3>2
  <2>3. h = Rec(h, m)
    BY <2>2
  <2> HIDE DEF Rec
  <2> QED
    BY <1>1, <2>3
<1> HIDE DEF D
<1>4. 0 .. n \subseteq D
  BY <1>1, <1>2, <1>3, IntervalInduction
<1>5. \E g : g = Rec(g, n)
  <2> HIDE DEF Rec
  <2> QED
    BY <1>1, <1>4 DEF D
<1> DEFINE h == CHOOSE k : k = Rec(k, n)
<1>6. h = Rec(h, n)
  BY <1>5
<1>7. LiveAfter(image, target, live, ds) = h[1 .. n]
  BY <1>1 DEF LiveAfter, FoldLeft, MapThenFoldSet, b, Step
<1> DEFINE f == [i \in 0 .. n |-> h[1 .. i]]
<1> HIDE DEF h
<1>8. f[0] = b
  <2>1. 1 .. 0 = {}
    OBVIOUS
  <2> QED
    BY <2>1, <1>6, <1>1
<1>9. ASSUME NEW i \in 1 .. n PROVE f[i] = Step(f[i - 1], i)
  <2>1. Max(1 .. i) = i /\ 1 .. i \in SUBSET (1 .. n) /\ 1 .. i # {} /\ (1 .. i) \ {i} = 1 .. (i - 1)
    BY <1>1, MaxOfInterval
  <2>2. h[1 .. i] = Step(h[(1 .. i) \ {Max(1 .. i)}], Max(1 .. i))
    BY <1>6, <2>1
  <2>3. h[1 .. i] = Step(h[1 .. (i - 1)], i)
    BY <2>1, <2>2
  <2>4. i \in 0 .. n /\ i - 1 \in 0 .. n
    BY <1>1
  <2> QED
    BY <2>3, <2>4
<1>10. f[n] = h[1 .. n]
  BY <1>1
<1> HIDE DEF f, h
<1>11. IsLive(f, image, target, live, ds)
  BY <1>8, <1>9 DEF IsLive, n, b, Step
<1> QED
  BY <1>7, <1>10, <1>11 DEF n

\* The checks of a slice.
SliceChecks(t) == [c \in 1 .. GroupOrder |-> t * GroupOrder + c - 1]

LEMMA SliceCheckFacts ==
  ASSUME NEW t \in Times
  PROVE  /\ SliceChecks(t) \in Seq(Detectors) /\ Len(SliceChecks(t)) = GroupOrder
         /\ \A c \in 1 .. GroupOrder : /\ SliceChecks(t)[c] = t * GroupOrder + (c - 1)
                                       /\ SliceOf(SliceChecks(t)[c]) = t
         /\ t * GroupOrder \in Nat /\ t * GroupOrder + GroupOrder = (t + 1) * GroupOrder
         /\ (t + 1) * GroupOrder <= Slices * GroupOrder
<1> DEFINE n == GroupOrder
           b == t * n
           ds == SliceChecks(t)
<1>1. n \in Nat \ {0} /\ Coordinates = 0 .. n - 1
  BY Sizes DEF Coordinates
<1>2. t \in Nat /\ t + 1 <= Slices /\ Slices \in Nat
  BY TorusAssumption DEF Times
<1> HIDE DEF n
<1>3. b \in Nat /\ b + n = (t + 1) * n /\ (t + 1) * n <= Slices * n
  <2>1. b \in Nat /\ b + n = (t + 1) * n
    BY <1>1, <1>2
  <2>2. Slices * n = (t + 1) * n + (Slices - (t + 1)) * n /\ Slices - (t + 1) \in Nat
    BY <1>1, <1>2
  <2>3. (Slices - (t + 1)) * n \in Nat /\ (t + 1) * n \in Nat
    BY <1>1, <1>2, <2>2
  <2> QED
    BY <2>1, <2>2, <2>3
<1>4. ds = [c \in 1 .. n |-> b + c - 1]
  BY DEF SliceChecks, n
<1> HIDE DEF ds
<1>5. ASSUME NEW c \in 1 .. n
      PROVE  ds[c] = b + (c - 1) /\ ds[c] \in Detectors /\ SliceOf(ds[c]) = t
  <2> DEFINE x == c - 1
  <2>1. x \in Coordinates
    BY <1>1
  <2>2. ds[c] = b + x
    <3> HIDE DEF b
    <3> QED
      BY <1>3, <1>4
  <2> HIDE DEF x
  <2>3. t * n + x \in Detectors /\ (t * n + x) \div n = t
    BY <2>1, DetectorOf DEF n
  <2> QED
    BY <2>2, <2>3 DEF SliceOf, n, x
<1>6. ds \in [1 .. n -> Detectors]
  BY <1>4, <1>5
<1>7. ds \in Seq(Detectors) /\ Len(ds) = n
  BY <1>1, <1>6
<1> QED
  BY <1>3, <1>5, <1>7 DEF ds, b, n

\* The checks of a slice do what they do in the sweep.
LEMMA SliceMirrors ==
  ASSUME NEW image, IsPassImage(image), NEW target, NEW f, IsPassSweep(f, image, target),
         NEW t \in Times, NEW live, Mirrors(image, live, f[t * GroupOrder]),
         \A d \in Detectors : SliceOf(d) = t => ToSet(Row(image, d)) \subseteq DOMAIN live
  PROVE  LET next == LiveAfter(image, target, live, SliceChecks(t))
         IN  DOMAIN next = DOMAIN live /\ Mirrors(image, next, f[(t + 1) * GroupOrder])
<1> DEFINE n == GroupOrder
           b == t * n
           ds == SliceChecks(t)
           next == LiveAfter(image, target, live, ds)
<1>1. /\ ds \in Seq(Detectors) /\ Len(ds) = n
      /\ \A c \in 1 .. n : ds[c] = b + (c - 1) /\ SliceOf(ds[c]) = t
      /\ b \in Nat /\ b + n = (t + 1) * n
  BY SliceCheckFacts
<1>2. n \in Nat
  BY Sizes
<1>3. \A d \in Detectors : Visited(image, target, d, f[d], f[d + 1])
  BY PassSweepFacts
<1> HIDE DEF n, b, ds
<1>4. PICK g : IsLive(g, image, target, live, ds) /\ LiveAfter(image, target, live, ds) = g[Len(ds)]
  BY <1>1, LiveByPosition
<1>5. g[0] = live /\ \A c \in 1 .. n : g[c] = StreamCheck(image, target, g[c - 1], ds[c])
  BY <1>1, <1>4 DEF IsLive
<1> DEFINE Good(c) == DOMAIN g[c] = DOMAIN live /\ Mirrors(image, g[c], f[b + c])
           D == {c \in 0 .. n : Good(c)}
<1>6. 0 \in D
  <2>1. b + 0 = b /\ 0 \in 0 .. n
    BY <1>1, <1>2
  <2>2. Good(0)
    BY <1>5, <2>1 DEF b, n
  <2> QED
    BY <2>1, <2>2
<1>7. ASSUME NEW c \in 1 .. n, (c - 1) \in D PROVE c \in D
  <2> DEFINE d == ds[c]
             l == g[c - 1]
  <2>1. d \in Detectors /\ d = b + (c - 1) /\ SliceOf(d) = t /\ d + 1 = b + c
    <3>1. DOMAIN ds = 1 .. n
      BY <1>1
    <3>2. ds[c] \in Detectors
      BY <1>1, <3>1
    <3>3. ds[c] = b + (c - 1) /\ SliceOf(ds[c]) = t
      BY <1>1
    <3>4. b + (c - 1) + 1 = b + c
      BY <1>1, <1>2
    <3> QED
      BY <3>2, <3>3, <3>4
  <2>2. Good(c - 1)
    BY <1>7
  <2> HIDE DEF d, l
  <2>3. DOMAIN l = DOMAIN live /\ Mirrors(image, l, f[d])
    BY <2>1, <2>2 DEF l
  <2>4. ToSet(Row(image, d)) \subseteq DOMAIN l
    BY <2>1, <2>3
  <2>5. /\ DOMAIN StreamCheck(image, target, l, d) = DOMAIN l
        /\ Mirrors(image, StreamCheck(image, target, l, d), f[d + 1])
    BY <1>3, <2>1, <2>3, <2>4, StreamVisit
  <2>6. g[c] = StreamCheck(image, target, l, d)
    BY <1>5 DEF d, l
  <2>7. Good(c)
    BY <2>1, <2>3, <2>5, <2>6
  <2> HIDE DEF Good
  <2> QED
    BY <2>7
<1>8. 0 .. n \subseteq D
  <2> HIDE DEF D
  <2> QED
    BY <1>2, <1>6, <1>7, IntervalInduction
<1>9. Good(n)
  BY <1>2, <1>8
<1>10. next = g[n]
  BY <1>1, <1>4
<1> HIDE DEF next
<1>11. DOMAIN next = DOMAIN live /\ Mirrors(image, next, f[(t + 1) * n])
  BY <1>1, <1>9, <1>10
<1> QED
  BY <1>11 DEF next, ds, n

-----------------------------------------------------------------------------
(* The size of the live table.                                             *)

\* The faults that are live while slice t is processed, and their orbits.
Present(image, t) == {a \in Addresses(image) : Birth(image, a) <= t /\ t <= Death(image, a)}
LiveOrbits(image, t) == {o \in 0 .. image.orbits - 1 : t \in image.start[o] .. image.end[o]}

LEMMA PresentFits ==
  ASSUME NEW image, IsPassImage(image), NEW t \in Times
  PROVE  /\ IsFiniteSet(Present(image, t)) /\ IsFiniteSet(LiveOrbits(image, t))
         /\ Cardinality(Present(image, t)) \in Nat /\ Cardinality(LiveOrbits(image, t)) \in Nat
         /\ Cardinality(Present(image, t)) <= GroupOrder * Cardinality(LiveOrbits(image, t))
<1> DEFINE L == LiveOrbits(image, t)
           P == Present(image, t)
           m == image.orbits
           n == GroupOrder
           h == [oc \in L \X Coordinates |-> oc[1] * n + oc[2]]
<1>1. m \in Nat /\ n \in Nat /\ IsFiniteSet(Coordinates) /\ Cardinality(Coordinates) = n
  BY Sizes, CoordinateCount DEF IsPassImage
<1>2. \A o \in 0 .. m - 1 : image.start[o] \in Int /\ image.end[o] \in Int /\ t \in Int
  <2>1. Times \subseteq Int
    BY DEF Times
  <2> QED
    BY <2>1 DEF IsPassImage, IsLifetime
<1> HIDE DEF m
<1>3. L \subseteq 0 .. m - 1 /\ IsFiniteSet(L)
  <2>1. L \subseteq 0 .. m - 1
    BY DEF LiveOrbits, m
  <2>2. IsFiniteSet(0 .. m - 1)
    <3>1. 0 \in Int /\ m - 1 \in Int
      BY <1>1
    <3> QED
      BY <3>1, FS_Interval
  <2> QED
    BY <2>1, <2>2, FS_Subset
<1>4. \A o \in L : image.start[o] <= t /\ t <= image.end[o]
  BY <1>2, <1>3 DEF LiveOrbits
<1>5. \A o \in 0 .. m - 1 : image.start[o] <= t /\ t <= image.end[o] => o \in L
  BY <1>2 DEF LiveOrbits, m
<1> HIDE DEF L, n
<1>6. ASSUME NEW oc \in L \X Coordinates PROVE h[oc] \in P
  <2> DEFINE o == oc[1]
             c == oc[2]
  <2>1. o \in L /\ o \in 0 .. m - 1 /\ c \in Coordinates /\ h[oc] = o * n + c
    BY <1>3
  <2> HIDE DEF o, c, h
  <2>2. o * n + c \in 0 .. m * n - 1 /\ (o * n + c) \div n = o
    BY <1>1, <2>1, FaultParts DEF n
  <2>3. Birth(image, h[oc]) = image.start[o] /\ Death(image, h[oc]) = image.end[o]
    BY <2>1, <2>2 DEF Birth, Death, n
  <2>4. image.start[o] <= t /\ t <= image.end[o]
    BY <1>4, <2>1
  <2>5. h[oc] \in Addresses(image)
    BY <2>1, <2>2 DEF Addresses, n, m
  <2> QED
    BY <2>3, <2>4, <2>5 DEF Present
<1>7. ASSUME NEW a \in P PROVE \E oc \in L \X Coordinates : h[oc] = a
  <2> DEFINE o == a \div n
             c == a % n
  <2>1. a \in Addresses(image) /\ Birth(image, a) <= t /\ t <= Death(image, a)
    BY DEF Present
  <2>2. a \in 0 .. m * n - 1
    BY <2>1 DEF Addresses, m, n
  <2>3. o \in 0 .. m - 1 /\ c \in Coordinates
    BY <1>1, <2>2, AddressParts DEF n
  <2>4. a = o * n + c
    <3>1. n \in Nat \ {0}
      BY Sizes DEF n
    <3>2. a \in Nat
      <4>1. m * n \in Nat
        BY <1>1
      <4> QED
        BY <2>2, <4>1
    <3> QED
      BY <3>1, <3>2, DivModOf
  <2>5. image.start[o] <= t /\ t <= image.end[o]
    BY <2>1 DEF Birth, Death, n
  <2> HIDE DEF o, c
  <2>6. o \in L
    BY <1>5, <2>3, <2>5
  <2>7. <<o, c>> \in L \X Coordinates /\ h[<<o, c>>] = o * n + c
    BY <2>3, <2>6
  <2> QED
    BY <2>4, <2>7
<1> HIDE DEF h, P
<1>8. h \in Surjection(L \X Coordinates, P)
  <2>1. h \in [L \X Coordinates -> P]
    <3>1. h = [oc \in L \X Coordinates |-> h[oc]]
      BY DEF h
    <3> QED
      BY <1>6, <3>1
  <2> QED
    BY <1>7, <2>1 DEF Surjection
<1>9. IsFiniteSet(L \X Coordinates) /\ Cardinality(L \X Coordinates) = Cardinality(L) * n
  BY <1>1, <1>3, FS_Product
<1>10. IsFiniteSet(P) /\ Cardinality(P) <= Cardinality(L) * n
  BY <1>8, <1>9, FS_Surjection
<1>11. Cardinality(P) \in Nat /\ Cardinality(L) \in Nat
  BY <1>3, <1>10, FS_CardinalityType
<1>12. Cardinality(L) * n = n * Cardinality(L)
  BY <1>1, <1>11
<1>13. Cardinality(P) <= n * Cardinality(L)
  BY <1>10, <1>12
<1> QED
  BY <1>3, <1>10, <1>11, <1>13 DEF L, P, n

\* No slice has more live faults than the image states.
LEMMA PeakIsStated ==
  ASSUME NEW image, IsPassImage(image)
  PROVE  /\ MaxLive(image) \in Nat
         /\ \A t \in Times : Cardinality(Present(image, t)) <= MaxLive(image)
<1> DEFINE Room(t) == GroupOrder * Cardinality(LiveOrbits(image, t))
           w == [t \in Times |-> Room(t)]
           S == {Room(t) : t \in Times}
<1>1. MaxLive(image) = Max(S)
  BY DEF MaxLive, LiveOrbits
<1>2. \A t \in Times : Room(t) \in Nat
  <2> SUFFICES ASSUME NEW t \in Times PROVE Room(t) \in Nat
    OBVIOUS
  <2>1. Cardinality(LiveOrbits(image, t)) \in Nat /\ GroupOrder \in Nat
    BY PresentFits, Sizes
  <2>2. \A i, j \in Nat : i * j \in Nat
    OBVIOUS
  <2> QED
    BY <2>1, <2>2
<1>3. IsFiniteSet(Times) /\ Times # {}
  <2>1. 0 \in Int /\ Slices - 1 \in Int /\ 0 \in Times
    BY TorusAssumption DEF Times
  <2> QED
    BY <2>1, FS_Interval DEF Times
<1> HIDE DEF Room
<1>4. w \in Surjection(Times, S)
  BY DEF Surjection
<1> HIDE DEF w
<1>5. IsFiniteSet(S)
  BY <1>3, <1>4, FS_Surjection
<1>6. S \in SUBSET Int /\ S \subseteq Nat /\ S # {}
  BY <1>2, <1>3
<1>7. Max(S) \in S /\ \A x \in S : Max(S) >= x
  <2> HIDE DEF S
  <2> QED
    BY <1>5, <1>6, MaxOfFinite
<1> DEFINE top == Max(S)
<1>8. top \in Nat /\ \A t \in Times : top >= Room(t)
  BY <1>6, <1>7
<1> HIDE DEF top
<1>9. ASSUME NEW t \in Times PROVE Cardinality(Present(image, t)) <= top
  <2>1. Cardinality(Present(image, t)) \in Nat /\ Cardinality(Present(image, t)) <= Room(t)
    BY PresentFits DEF Room
  <2> QED
    BY <1>2, <1>8, <2>1
<1> QED
  BY <1>1, <1>8, <1>9 DEF top

-----------------------------------------------------------------------------
(* Logical words.                                                          *)

\* The words of disjoint corrections add up to that of both.
LEMMA WordsAdd ==
  ASSUME NEW masks, NEW A, NEW B, IsFiniteSet(A), IsFiniteSet(B), A \cap B = {}
  PROVE  SymDiff(LogicalWord(masks, A), LogicalWord(masks, B)) = LogicalWord(masks, A \cup B)
<1> DEFINE Named(C, k) == {a \in C : k \in masks[a]}
           K == 0 .. LOGICALS - 1
<1>1. ASSUME NEW k \in K
      PROVE  Odd(Named(A \cup B, k)) <=> ~(Odd(Named(A, k)) <=> Odd(Named(B, k)))
  <2> DEFINE X == Named(A, k)
             Y == Named(B, k)
  <2>1. IsFiniteSet(X) /\ IsFiniteSet(Y)
    BY FS_Subset
  <2>2. Named(A \cup B, k) = SymDiff(X, Y)
    BY DEF SymDiff
  <2> HIDE DEF X, Y
  <2>3. Odd(SymDiff(X, Y)) <=> ~(Odd(X) <=> Odd(Y))
    BY <2>1, OddSymDiff
  <2> QED
    BY <2>2, <2>3 DEF X, Y
<1>2. \A C : LogicalWord(masks, C) = {k \in K : Odd(Named(C, k))}
  BY DEF LogicalWord
<1> HIDE DEF Named, K
<1> QED
  BY <1>1, <1>2 DEF SymDiff

\* The empty correction has the empty word.
LEMMA WordOfNone ==
  ASSUME NEW masks
  PROVE  LogicalWord(masks, {}) = {}
<1>1. \A k : {a \in {} : k \in masks[a]} = {}
  OBVIOUS
<1> QED
  BY <1>1, OddSmall DEF LogicalWord

-----------------------------------------------------------------------------
(* A slice of the pass.                                                    *)

Waiting(image, t) == {a \in Addresses(image) : Birth(image, a) < t /\ t <= Death(image, a)}
Retired(image, s, t) == {a \in Addresses(image) : Death(image, a) < t /\ s.posterior[a + 1] < 0}

PassRecord(live, correction, logicals, peak) ==
  [live |-> live, correction |-> correction, logicals |-> logicals, peak |-> peak, failed |-> FALSE]

\* The pass before slice t: it holds the faults whose lifetime runs on, and it has flipped the
\* faults whose lifetime is over as the sweep f will.
IsPassed(image, f, s, t) ==
  /\ s = PassRecord(s.live, s.correction, s.logicals, s.peak)
  /\ DOMAIN s.live = Waiting(image, t) /\ Mirrors(image, s.live, f[t * GroupOrder])
  /\ s.correction = Retired(image, f[t * GroupOrder], t)
  /\ s.logicals = LogicalWord(LogicalMasks(image), s.correction)
  /\ s.peak \in Nat /\ s.peak <= MaxLive(image)

\* A row reads live faults.
LEMMA RowsAreLive ==
  ASSUME NEW image, IsPassImage(image), NEW d \in Detectors
  PROVE  ToSet(Row(image, d)) \subseteq Present(image, SliceOf(d))
<1>1. IsPassRow(image, d)
  BY DEF IsPassImage
<1>2. PICK n \in Nat : Row(image, d) \in [1 .. n -> Addresses(image)]
  BY <1>1 DEF IsPassRow
<1> QED
  BY <1>1, <1>2 DEF IsPassRow, Present, ToSet

\* A fault is not read outside its lifetime.
LEMMA NotRead ==
  ASSUME NEW image, IsPassImage(image), NEW a \in Addresses(image), NEW d \in Detectors,
         SliceOf(d) < Birth(image, a) \/ SliceOf(d) > Death(image, a)
  PROVE  a \notin ToSet(Row(image, d))
<1> SUFFICES ASSUME a \in ToSet(Row(image, d)) PROVE FALSE
  OBVIOUS
<1>1. Birth(image, a) <= SliceOf(d) /\ SliceOf(d) <= Death(image, a)
  BY RowsAreLive DEF Present
<1>2. Birth(image, a) \in Int /\ Death(image, a) \in Int /\ SliceOf(d) \in Int
  <2>1. Times \subseteq Int
    BY DEF Times
  <2>2. SliceOf(d) \in Times
    BY DetectorParts DEF SliceOf
  <2> QED
    BY <2>1, <2>2, PriorInRange
<1> QED
  BY <1>1, <1>2

\* The slice of a detector, by its number.
LEMMA SliceBounds ==
  ASSUME NEW d \in Detectors, NEW t \in Nat
  PROVE  /\ d < t * GroupOrder => SliceOf(d) < t
         /\ t * GroupOrder <= d => t <= SliceOf(d)
         /\ d < (t + 1) * GroupOrder => SliceOf(d) <= t
<1> DEFINE n == GroupOrder
           q == d \div n
           c == d % n
<1>1. n \in Nat \ {0} /\ q \in Nat /\ c \in 0 .. n - 1 /\ d = q * n + c
  <2>1. d \div n \in Times /\ d % n \in Coordinates /\ d = (d \div n) * n + (d % n)
    BY DetectorParts
  <2>2. Times \subseteq Nat /\ Coordinates = 0 .. n - 1 /\ n \in Nat \ {0}
    BY TorusAssumption, Sizes DEF Times, Coordinates
  <2> QED
    BY <2>1, <2>2
<1>2. SliceOf(d) = q
  BY DEF SliceOf
<1> HIDE DEF n, q, c
<1>3. \A k \in Nat : k <= q => k * n <= d
  <2> SUFFICES ASSUME NEW k \in Nat, k <= q PROVE k * n <= d
    OBVIOUS
  <2>1. q * n = k * n + (q - k) * n /\ q - k \in Nat
    BY <1>1
  <2>2. (q - k) * n \in Nat /\ k * n \in Nat /\ q * n \in Nat
    BY <1>1, <2>1
  <2> QED
    BY <1>1, <2>1, <2>2
<1>4. \A k \in Nat : q < k => d < k * n
  <2> SUFFICES ASSUME NEW k \in Nat, q < k PROVE d < k * n
    OBVIOUS
  <2>1. k * n = q * n + n + (k - q - 1) * n /\ k - q - 1 \in Nat
    BY <1>1
  <2>2. (k - q - 1) * n \in Nat /\ k * n \in Nat /\ q * n \in Nat
    BY <1>1, <2>1
  <2> QED
    BY <1>1, <2>1, <2>2
<1>5. t * n \in Nat /\ (t + 1) * n \in Nat /\ d \in Nat
  BY <1>1
<1>6. d < t * n => q < t
  BY <1>1, <1>3, <1>5
<1>7. t * n <= d => t <= q
  BY <1>1, <1>4, <1>5
<1>8. d < (t + 1) * n => q <= t
  <2> SUFFICES ASSUME d < (t + 1) * n, q > t PROVE FALSE
    BY <1>1
  <2>1. t + 1 \in Nat /\ t + 1 <= q
    BY <1>1
  <2>2. (t + 1) * n <= d
    BY <1>3, <2>1
  <2> QED
    BY <1>1, <1>5, <2>2
<1> QED
  BY <1>2, <1>6, <1>7, <1>8 DEF n

\* Before its first slice a fault holds its prior, after its last slice it holds still.
LEMMA OutOfLifetime ==
  ASSUME NEW image, IsPassImage(image), NEW target, NEW f, IsPassSweep(f, image, target),
         NEW a \in Addresses(image), NEW t \in Times
  PROVE  /\ Birth(image, a) >= t => f[t * GroupOrder].posterior[a + 1] = OrbitPrior(image, a)
         /\ Death(image, a) < t =>
              f[(t + 1) * GroupOrder].posterior[a + 1] = f[t * GroupOrder].posterior[a + 1]
<1> DEFINE b == t * GroupOrder
           e == (t + 1) * GroupOrder
<1>1. b \in Nat /\ e \in Nat /\ b <= e /\ b <= Slices * GroupOrder /\ e <= Slices * GroupOrder
  <2>1. b \in Nat /\ b + GroupOrder = e /\ e <= Slices * GroupOrder /\ GroupOrder \in Nat
    BY SliceCheckFacts, Sizes
  <2>2. Slices * GroupOrder \in Nat
    BY PassSizes
  <2> HIDE DEF b, e
  <2> QED
    BY <2>1, <2>2
<1>2. t \in Nat /\ Birth(image, a) \in Int /\ Death(image, a) \in Int
  <2>1. Times \subseteq Int /\ Times \subseteq Nat
    BY TorusAssumption DEF Times
  <2> QED
    BY <2>1, PriorInRange
<1>3. \A d \in Detectors : /\ d < b => SliceOf(d) < t
                           /\ b <= d => t <= SliceOf(d)
                           /\ SliceOf(d) \in Int
  BY <1>2, SliceBounds, DetectorParts DEF SliceOf, Times
<1>4. ASSUME Birth(image, a) >= t PROVE f[b].posterior[a + 1] = OrbitPrior(image, a)
  <2>1. ASSUME NEW d \in Detectors, d < b PROVE a \notin ToSet(Row(image, d))
    <3>1. SliceOf(d) < Birth(image, a)
      BY <1>2, <1>3, <1>4, <2>1
    <3> QED
      BY <3>1, NotRead
  <2>2. f[b].posterior[a + 1] = f[0].posterior[a + 1]
    <3>1. 0 \in Nat /\ 0 <= b
      BY <1>1
    <3> HIDE DEF b
    <3> QED
      BY <1>1, <2>1, <3>1, Untouched
  <2>3. f[0].posterior[a + 1] = Saturate(OrbitPrior(image, a))
    <3> DEFINE V == PassVariables(image)
               p == PassPrior(image)
    <3>1. p \in [V -> 0 .. POSTERIOR_MAX] /\ p[a + 1] = OrbitPrior(image, a) /\ a + 1 \in V
      BY PassIsGraph, PassSizes
    <3>2. f[0] = Fresh(PassGraph(image), p)
      BY DEF IsPassSweep
    <3> HIDE DEF V, p
    <3>3. f[0].posterior = [v \in V |-> Saturate(p[v])]
      BY <3>1, <3>2 DEF Fresh
    <3> QED
      BY <3>1, <3>3
  <2>4. OrbitPrior(image, a) \in Int /\ OrbitPrior(image, a) \in POSTERIOR_MIN .. POSTERIOR_MAX
    <3>1. OrbitPrior(image, a) \in 0 .. POSTERIOR_MAX
      BY PriorInRange
    <3> QED
      BY <3>1 DEF POSTERIOR_MIN, POSTERIOR_MAX
  <2> QED
    BY <2>2, <2>3, <2>4, SaturatedInWidth
<1>5. ASSUME Death(image, a) < t PROVE f[e].posterior[a + 1] = f[b].posterior[a + 1]
  <2>1. ASSUME NEW d \in Detectors, b <= d, d < e PROVE a \notin ToSet(Row(image, d))
    <3>1. SliceOf(d) > Death(image, a)
      BY <1>2, <1>3, <1>5, <2>1
    <3> QED
      BY <3>1, NotRead
  <2> HIDE DEF b, e
  <2> QED
    BY <1>1, <2>1, Untouched
<1> QED
  BY <1>4, <1>5

-----------------------------------------------------------------------------
(* One slice.                                                              *)

\* The pass after slice t, when the checks have left the live table as next says.
AfterSlice(image, s, next, t) ==
  LET flipped == {a \in Dying(image, t) : next[a] < 0}
  IN  PassRecord(Restrict(next, DOMAIN next \ Dying(image, t)), s.correction \cup flipped,
                 SymDiff(s.logicals, LogicalWord(LogicalMasks(image), flipped)),
                 Max({s.peak, Cardinality(DOMAIN next)}))

\* Replacing fields of a record of the pass.
IsPassRecord(s) == s = PassRecord(s.live, s.correction, s.logicals, s.peak)

LEMMA RecordPeak ==
  ASSUME NEW s, IsPassRecord(s), NEW n, NEW q
  PROVE  [s EXCEPT !.live = n, !.peak = q] = PassRecord(n, s.correction, s.logicals, q)
<1> DEFINE l == s.live
           c == s.correction
           w == s.logicals
           p == s.peak
           X == [live : {l, n}, correction : {c}, logicals : {w}, peak : {p, q}, failed : {FALSE}]
           r == [s EXCEPT !.live = n, !.peak = q]
<1>1. s = PassRecord(l, c, w, p)
  BY DEF IsPassRecord
<1> HIDE DEF l, c, w, p
<1>2. s \in X /\ PassRecord(n, c, w, q) \in X
  BY <1>1 DEF PassRecord
<1>3. s.correction = c /\ s.logicals = w /\ s.failed = FALSE
  BY <1>1 DEF PassRecord
<1>4. r \in X
  BY <1>2
<1>5. r.live = n /\ r.correction = c /\ r.logicals = w /\ r.peak = q /\ r.failed = FALSE
  BY <1>2, <1>3
<1> HIDE DEF r
<1>6. r = PassRecord(n, c, w, q)
  BY <1>4, <1>5 DEF PassRecord
<1> QED
  BY <1>6 DEF r, c, w

LEMMA RecordRetired ==
  ASSUME NEW s, IsPassRecord(s), NEW n, NEW d, NEW v
  PROVE  [s EXCEPT !.live = n, !.correction = d, !.logicals = v] = PassRecord(n, d, v, s.peak)
<1> DEFINE l == s.live
           c == s.correction
           w == s.logicals
           p == s.peak
           X == [live : {l, n}, correction : {c, d}, logicals : {w, v}, peak : {p}, failed : {FALSE}]
           t == [s EXCEPT !.live = n, !.correction = d, !.logicals = v]
<1>1. s = PassRecord(l, c, w, p)
  BY DEF IsPassRecord
<1> HIDE DEF l, c, w, p
<1>2. s \in X /\ PassRecord(n, d, v, p) \in X
  BY <1>1 DEF PassRecord
<1>3. s.peak = p /\ s.failed = FALSE
  BY <1>1 DEF PassRecord
<1>4. t \in X
  BY <1>2
<1>5. t.live = n /\ t.correction = d /\ t.logicals = v /\ t.peak = p /\ t.failed = FALSE
  BY <1>2, <1>3
<1> HIDE DEF t
<1>6. t = PassRecord(n, d, v, p)
  BY <1>4, <1>5 DEF PassRecord
<1> QED
  BY <1>6 DEF t, p

\* A slice whose rows read live faults fills in the record of the pass.
LEMMA SliceValue ==
  ASSUME NEW image, NEW target, NEW t, NEW s, IsPassRecord(s),
         NEW next, next = LiveAfter(image, target, Admit(image, s.live, t), SliceChecks(t)),
         DOMAIN next = DOMAIN Admit(image, s.live, t),
         UNION {ToSet(Row(image, SliceChecks(t)[c])) : c \in DOMAIN SliceChecks(t)} \subseteq DOMAIN next
  PROVE  StreamSlice(image, target, s, t) = AfterSlice(image, s, next, t)
<1> DEFINE admitted == Admit(image, s.live, t)
           peak == Max({s.peak, Cardinality(DOMAIN admitted)})
           dying == Dying(image, t)
           flipped == {a \in dying : next[a] < 0}
           r == [s EXCEPT !.live = next, !.peak = peak]
           l == Restrict(next, DOMAIN next \ dying)
           c == s.correction \cup flipped
           w == SymDiff(s.logicals, LogicalWord(LogicalMasks(image), flipped))
<1>1. s.failed = FALSE
  <2> DEFINE p == PassRecord(s.live, s.correction, s.logicals, s.peak)
  <2>1. p.failed = FALSE
    BY DEF PassRecord
  <2>2. s = p
    BY DEF IsPassRecord
  <2> HIDE DEF p
  <2> QED
    BY <2>1, <2>2
<1>2. StreamSlice(image, target, s, t) = Retire(image, r, dying)
  BY <1>1 DEF StreamSlice, SliceChecks, LiveAfter
<1>3. r = PassRecord(next, s.correction, s.logicals, peak)
  <2> HIDE DEF peak
  <2> QED
    BY RecordPeak
<1>4. r.live = next /\ r.correction = s.correction /\ r.logicals = s.logicals /\ r.peak = peak
  BY <1>3 DEF PassRecord
<1>5. IsPassRecord(r)
  <2> HIDE DEF r, peak
  <2> QED
    BY <1>3, <1>4 DEF IsPassRecord
<1> HIDE DEF r
<1>6. Retire(image, r, dying) = [r EXCEPT !.live = l, !.correction = c, !.logicals = w]
  BY <1>4 DEF Retire
<1>7. [r EXCEPT !.live = l, !.correction = c, !.logicals = w] = PassRecord(l, c, w, r.peak)
  <2> HIDE DEF l, c, w
  <2> QED
    BY <1>5, RecordRetired
<1>8. peak = Max({s.peak, Cardinality(DOMAIN next)})
  OBVIOUS
<1> HIDE DEF peak
<1> QED
  BY <1>2, <1>4, <1>6, <1>7, <1>8 DEF AfterSlice

LEMMA AddressesAreFinite ==
  ASSUME NEW image, IsPassImage(image)
  PROVE  IsFiniteSet(Addresses(image))
<1> DEFINE n == image.orbits * GroupOrder
<1>1. n \in Nat
  BY PassSizes
<1>2. Addresses(image) = 0 .. n - 1
  BY DEF Addresses
<1> HIDE DEF n
<1> QED
  BY <1>1, <1>2, FS_Interval

\* A slice keeps the pass in step with the sweep.
LEMMA SliceKeepsStep ==
  ASSUME NEW image, IsPassImage(image), NEW target, NEW f, IsPassSweep(f, image, target),
         NEW t \in Times, NEW s, IsPassed(image, f, s, t)
  PROVE  IsPassed(image, f, StreamSlice(image, target, s, t), t + 1)
<1> DEFINE here == f[t * GroupOrder]
           there == f[(t + 1) * GroupOrder]
           admitted == Admit(image, s.live, t)
           next == LiveAfter(image, target, admitted, SliceChecks(t))
           masks == LogicalMasks(image)
           flipped == {a \in Dying(image, t) : next[a] < 0}
           r == AfterSlice(image, s, next, t)
<1>1. /\ s = PassRecord(s.live, s.correction, s.logicals, s.peak)
      /\ DOMAIN s.live = Waiting(image, t) /\ Mirrors(image, s.live, here)
      /\ s.correction = Retired(image, here, t)
      /\ s.logicals = LogicalWord(masks, s.correction)
      /\ s.peak \in Nat /\ s.peak <= MaxLive(image)
  BY DEF IsPassed
<1>2. t \in Int /\ \A a \in Addresses(image) : /\ Birth(image, a) \in Int /\ Death(image, a) \in Int
                                               /\ Birth(image, a) <= Death(image, a)
  <2>1. Times \subseteq Int
    BY DEF Times
  <2> QED
    BY <2>1, PriorInRange
<1>3. /\ Born(image, t) = {a \in Addresses(image) : Birth(image, a) = t}
      /\ Dying(image, t) = {a \in Addresses(image) : Death(image, a) = t}
  BY DEF Born, Dying, Birth, Death
<1>4. DOMAIN admitted = Present(image, t)
  <2>1. DOMAIN admitted = Born(image, t) \cup Waiting(image, t)
    BY <1>1 DEF Admit
  <2>2. Born(image, t) \cup Waiting(image, t) = Present(image, t)
    BY <1>2, <1>3 DEF Waiting, Present
  <2> QED
    BY <2>1, <2>2
<1>5. Mirrors(image, admitted, here)
  <2>1. ASSUME NEW a \in Present(image, t) PROVE admitted[a] = here.posterior[a + 1]
    <3>1. a \in Addresses(image) /\ a \in DOMAIN admitted /\ a \in Born(image, t) \cup DOMAIN s.live
      BY <2>1, <1>4 DEF Present, Admit
    <3>2. CASE a \in Born(image, t)
      <4>1. admitted[a] = OrbitPrior(image, a)
        BY <3>1, <3>2 DEF Admit
      <4>2. Birth(image, a) >= t
        BY <1>2, <1>3, <3>1, <3>2
      <4> QED
        BY <3>1, <4>1, <4>2, OutOfLifetime
    <3>3. CASE a \notin Born(image, t)
      <4>1. admitted[a] = s.live[a] /\ a \in DOMAIN s.live
        BY <3>1, <3>3 DEF Admit
      <4> QED
        BY <1>1, <4>1 DEF Mirrors
    <3> QED
      BY <3>2, <3>3
  <2>2. DOMAIN admitted \subseteq Addresses(image)
    BY <1>4 DEF Present
  <2> HIDE DEF admitted, here
  <2> QED
    BY <1>4, <2>1, <2>2 DEF Mirrors
<1>6. \A d \in Detectors : SliceOf(d) = t => ToSet(Row(image, d)) \subseteq DOMAIN admitted
  BY <1>4, RowsAreLive
<1>7. DOMAIN next = Present(image, t) /\ Mirrors(image, next, there)
  <2> HIDE DEF admitted
  <2> QED
    BY <1>4, <1>5, <1>6, SliceMirrors
<1>8. StreamSlice(image, target, s, t) = r
  <2>1. ASSUME NEW c \in DOMAIN SliceChecks(t)
        PROVE  ToSet(Row(image, SliceChecks(t)[c])) \subseteq DOMAIN next
    <3>1. DOMAIN SliceChecks(t) = 1 .. GroupOrder
      BY DEF SliceChecks
    <3>2. SliceChecks(t) \in Seq(Detectors) /\ Len(SliceChecks(t)) = GroupOrder
          /\ SliceOf(SliceChecks(t)[c]) = t
      BY <2>1, <3>1, SliceCheckFacts
    <3>3. SliceChecks(t)[c] \in Detectors
      BY <2>1, <3>2
    <3> QED
      BY <1>4, <1>6, <1>7, <3>2, <3>3
  <2>2. UNION {ToSet(Row(image, SliceChecks(t)[c])) : c \in DOMAIN SliceChecks(t)} \subseteq DOMAIN next
    <3> HIDE DEF next
    <3> QED
      BY <2>1
  <2>3. DOMAIN next = DOMAIN Admit(image, s.live, t)
    BY <1>4, <1>7
  <2> HIDE DEF r
  <2>4. StreamSlice(image, target, s, t) = AfterSlice(image, s, next, t)
    BY <1>1, <2>2, <2>3, SliceValue DEF IsPassRecord
  <2> QED
    BY <2>4 DEF r
<1> HIDE DEF next, admitted
<1>9. r = PassRecord(r.live, r.correction, r.logicals, r.peak)
  BY DEF AfterSlice, PassRecord
<1>10. /\ r.live = Restrict(next, DOMAIN next \ Dying(image, t))
       /\ r.correction = s.correction \cup flipped
       /\ r.logicals = SymDiff(s.logicals, LogicalWord(masks, flipped))
       /\ r.peak = Max({s.peak, Cardinality(DOMAIN next)})
  BY DEF AfterSlice, PassRecord
<1> HIDE DEF r, here, there, masks
<1>11. DOMAIN r.live = Waiting(image, t + 1) /\ Mirrors(image, r.live, there)
  <2>1. DOMAIN next \ Dying(image, t) = Waiting(image, t + 1)
    BY <1>2, <1>3, <1>7 DEF Present, Waiting
  <2>2. r.live = [a \in DOMAIN next \ Dying(image, t) |-> next[a]]
    BY <1>10 DEF Restrict
  <2>3. DOMAIN r.live = DOMAIN next \ Dying(image, t)
        /\ \A a \in DOMAIN r.live : r.live[a] = next[a] /\ a \in DOMAIN next
    BY <2>2
  <2>4. DOMAIN r.live \subseteq Addresses(image)
    BY <2>1, <2>3 DEF Waiting
  <2>5. \A a \in DOMAIN r.live : r.live[a] = there.posterior[a + 1]
    BY <1>7, <2>3 DEF Mirrors
  <2> QED
    BY <2>1, <2>3, <2>4, <2>5 DEF Mirrors
<1>12. flipped = {a \in Addresses(image) : Death(image, a) = t /\ there.posterior[a + 1] < 0}
  <2>1. ASSUME NEW a \in Dying(image, t) PROVE next[a] = there.posterior[a + 1]
    <3>1. a \in Present(image, t)
      BY <1>2, <1>3, <2>1 DEF Present
    <3> QED
      BY <1>7, <3>1 DEF Mirrors
  <2> QED
    BY <1>3, <2>1
<1>13. s.correction = {a \in Addresses(image) : Death(image, a) < t /\ there.posterior[a + 1] < 0}
  <2>1. \A a \in Addresses(image) : Death(image, a) < t => there.posterior[a + 1] = here.posterior[a + 1]
    BY OutOfLifetime DEF here, there
  <2> QED
    BY <1>1, <2>1 DEF Retired
<1> HIDE DEF flipped
<1>14. r.correction = Retired(image, there, t + 1)
  <2>1. \A a \in Addresses(image) : Death(image, a) < t + 1 <=> Death(image, a) < t \/ Death(image, a) = t
    BY <1>2
  <2> QED
    BY <1>10, <1>12, <1>13, <2>1 DEF Retired
<1>15. r.logicals = LogicalWord(masks, r.correction)
  <2>1. s.correction \cap flipped = {}
    BY <1>2, <1>12, <1>13
  <2>2. IsFiniteSet(s.correction) /\ IsFiniteSet(flipped)
    BY <1>12, <1>13, AddressesAreFinite, FS_Subset
  <2> QED
    BY <1>1, <1>10, <2>1, <2>2, WordsAdd
<1>16. r.peak \in Nat /\ r.peak <= MaxLive(image)
  <2> DEFINE n == Cardinality(Present(image, t))
             S == {s.peak, n}
  <2>1. n \in Nat /\ n <= MaxLive(image)
    BY PresentFits, PeakIsStated
  <2> HIDE DEF n
  <2>2. S \in SUBSET Int /\ S # {} /\ IsFiniteSet(S)
    <3>1. IsFiniteSet({s.peak}) /\ IsFiniteSet({n}) /\ S = {s.peak} \cup {n}
      BY FS_Singleton
    <3>2. IsFiniteSet(S)
      BY <3>1, FS_Union
    <3> QED
      BY <1>1, <2>1, <3>2
  <2>3. Max(S) \in S
    <3> HIDE DEF S
    <3> QED
      BY <2>2, MaxOfFinite
  <2>4. r.peak = Max(S)
    BY <1>7, <1>10 DEF n
  <2> QED
    BY <1>1, <2>1, <2>3, <2>4
<1> QED
  BY <1>8, <1>9, <1>11, <1>14, <1>15, <1>16 DEF IsPassed, there, masks

-----------------------------------------------------------------------------
(* The whole pass.                                                         *)

Unstarted == PassRecord(<<>>, {}, {}, 0)

\* The pass after all slices, and g, which runs through its slices.
Passes(image, target) ==
  FoldLeft(LAMBDA r, t : StreamSlice(image, target, r, t - 1), Unstarted, [t \in 1 .. Slices |-> t])
IsPass(g, image, target) ==
  /\ g[0] = Unstarted
  /\ \A t \in 1 .. Slices : g[t] = StreamSlice(image, target, g[t - 1], t - 1)

LEMMA PassByPosition ==
  ASSUME NEW image, NEW target
  PROVE  \E f : IsPass(f, image, target) /\ Passes(image, target) = f[Slices]
<1> DEFINE n == Slices
           b == Unstarted
           Step(t, i) == StreamSlice(image, target, t, i - 1)
           Rec(g, m) == [S \in SUBSET (1 .. m) |-> IF S = {} THEN b ELSE Step(g[S \ {Max(S)}], Max(S))]
           D == {m \in 0 .. n : \E g : g = Rec(g, m)}
<1>1. n \in Nat /\ DOMAIN [t \in 1 .. Slices |-> t] = 1 .. n
  BY TorusAssumption
<1> HIDE DEF b, Step, n
<1>2. 0 \in D
  <2> DEFINE g == [S \in SUBSET (1 .. 0) |-> b]
  <2>1. \A S \in SUBSET (1 .. 0) : S = {}
    OBVIOUS
  <2>2. g = Rec(g, 0)
    BY <2>1
  <2> QED
    BY <1>1, <2>2
<1>3. ASSUME NEW m \in 1 .. n, (m - 1) \in D PROVE m \in D
  <2>1. PICK g : g = Rec(g, m - 1)
    BY <1>3
  <2> DEFINE h == [S \in SUBSET (1 .. m) |-> IF m \in S THEN Step(g[S \ {m}], m) ELSE g[S]]
  <2>2. ASSUME NEW S \in SUBSET (1 .. m)
        PROVE  h[S] = IF S = {} THEN b ELSE Step(h[S \ {Max(S)}], Max(S))
    <3>1. CASE m \in S
      <4>1. m \in Nat /\ S # {}
        BY <3>1
      <4>2. Max(S) \in 1 .. m /\ Max(S) >= m
        BY <3>1, <4>1, MaxOfPositions
      <4>3. Max(S) = m
        BY <4>1, <4>2
      <4>4. S \ {m} \in SUBSET (1 .. m) /\ m \notin S \ {m}
        OBVIOUS
      <4>5. h[S \ {m}] = g[S \ {m}]
        BY <4>4
      <4> QED
        BY <3>1, <4>1, <4>3, <4>5
    <3>2. CASE m \notin S
      <4>1. S \in SUBSET (1 .. (m - 1)) /\ h[S] = g[S] /\ m - 1 \in Nat
        BY <3>2
      <4>2. g[S] = IF S = {} THEN b ELSE Step(g[S \ {Max(S)}], Max(S))
        BY <2>1, <4>1
      <4>3. S \ {Max(S)} \in SUBSET (1 .. m) /\ m \notin S \ {Max(S)}
        BY <3>2
      <4>4. h[S \ {Max(S)}] = g[S \ {Max(S)}]
        BY <4>3
      <4> QED
        BY <4>1, <4>2, <4>4
    <3> QED
      BY <3>1, <3>2
  <2>3. h = Rec(h, m)
    BY <2>2
  <2> HIDE DEF Rec
  <2> QED
    BY <1>1, <2>3
<1> HIDE DEF D
<1>4. 0 .. n \subseteq D
  BY <1>1, <1>2, <1>3, IntervalInduction
<1>5. \E g : g = Rec(g, n)
  <2> HIDE DEF Rec
  <2> QED
    BY <1>1, <1>4 DEF D
<1> DEFINE h == CHOOSE k : k = Rec(k, n)
<1>6. h = Rec(h, n)
  BY <1>5
<1>7. Passes(image, target) = h[1 .. n]
  <2> DEFINE order == [t \in 1 .. Slices |-> t]
             Raw(k) == [S \in SUBSET (1 .. n) |-> IF S = {} THEN b ELSE StreamSlice(image, target, k[S \ {Max(S)}], order[Max(S)] - 1)]
  <2>1. DOMAIN order = 1 .. n
    BY <1>1
  <2>2. \A S \in SUBSET (1 .. n) : S # {} => order[Max(S)] = Max(S)
    BY <1>1, <2>1, MaxOfPositions
  <2>3. \A k : Raw(k) = Rec(k, n)
    BY <2>2 DEF Step
  <2>4. Passes(image, target) = (CHOOSE k : k = Raw(k))[1 .. n]
    BY <2>1 DEF Passes, FoldLeft, MapThenFoldSet, b
  <2>5. (CHOOSE k : k = Raw(k)) = h
    <3> HIDE DEF Raw, Rec
    <3> QED
      BY <2>3
  <2> HIDE DEF h
  <2> QED
    BY <2>4, <2>5
<1> DEFINE f == [i \in 0 .. n |-> h[1 .. i]]
<1> HIDE DEF h
<1>8. f[0] = b
  <2>1. 1 .. 0 = {}
    OBVIOUS
  <2> QED
    BY <2>1, <1>6, <1>1
<1>9. ASSUME NEW i \in 1 .. n PROVE f[i] = Step(f[i - 1], i)
  <2>1. Max(1 .. i) = i /\ 1 .. i \in SUBSET (1 .. n) /\ 1 .. i # {} /\ (1 .. i) \ {i} = 1 .. (i - 1)
    BY <1>1, MaxOfInterval
  <2>2. h[1 .. i] = Step(h[(1 .. i) \ {Max(1 .. i)}], Max(1 .. i))
    BY <1>6, <2>1
  <2>3. h[1 .. i] = Step(h[1 .. (i - 1)], i)
    BY <2>1, <2>2
  <2>4. i \in 0 .. n /\ i - 1 \in 0 .. n
    BY <1>1
  <2> QED
    BY <2>3, <2>4
<1>10. f[n] = h[1 .. n]
  BY <1>1
<1> HIDE DEF f, h
<1>11. IsPass(f, image, target)
  BY <1>8, <1>9 DEF IsPass, n, b, Step
<1> QED
  BY <1>7, <1>10, <1>11 DEF n

\* The sweep ends in the last of its states.
LEMMA SweepOfPass ==
  ASSUME NEW image, IsPassImage(image), NEW target
  PROVE  \E f : /\ IsPassSweep(f, image, target)
                /\ Sweep(PassGraph(image), PassBits(target), "wide",
                         Fresh(PassGraph(image), PassPrior(image)), Forward(PassGraph(image)))
                     = f[Slices * GroupOrder]
<1> DEFINE n == Slices * GroupOrder
           graph == PassGraph(image)
           s == Fresh(graph, PassPrior(image))
           order == Forward(graph)
<1>1. n \in Nat
  BY PassSizes
<1>2. Len(graph) = n
  <2> HIDE DEF n
  <2>1. graph = [i \in 1 .. n |-> LET row == Row(image, i - 1) IN [e \in DOMAIN row |-> row[e] + 1]]
    BY DEF PassGraph, n
  <2> HIDE DEF graph
  <2> QED
    BY <1>1, <2>1
<1>3. order = [c \in 1 .. n |-> c]
  <2> HIDE DEF graph, n
  <2> QED
    BY <1>2 DEF Forward
<1> HIDE DEF graph, s, order, n
<1>4. order \in Seq(1 .. n) /\ Len(order) = n
  BY <1>1, <1>3
<1>5. PICK f : /\ IsSweep(f, graph, PassBits(target), "wide", s, order)
               /\ Sweep(graph, PassBits(target), "wide", s, order) = f[Len(order)]
  <2> DEFINE C == 1 .. n
  <2>1. order \in Seq(C)
    BY <1>4
  <2> HIDE DEF C
  <2> QED
    BY <2>1, SweepByPosition
<1>6. IsPassSweep(f, image, target)
  <2>1. \A i \in 1 .. n : order[i] = i
    BY <1>3
  <2>2. f[0] = s
    BY <1>5 DEF IsSweep
  <2>3. \A i \in 1 .. n : f[i] = CheckStep(graph, PassBits(target), "wide", f[i - 1], i)
    BY <1>4, <1>5, <2>1 DEF IsSweep
  <2> QED
    BY <2>2, <2>3 DEF IsPassSweep, graph, s, n
<1> QED
  BY <1>4, <1>5, <1>6 DEF graph, s, order, n

\* The pass starts in step with the sweep.
LEMMA StartsInStep ==
  ASSUME NEW image, IsPassImage(image), NEW f
  PROVE  IsPassed(image, f, Unstarted, 0)
<1> DEFINE s == Unstarted
           masks == LogicalMasks(image)
<1>1. /\ s.live = <<>> /\ s.correction = {} /\ s.logicals = {} /\ s.peak = 0
      /\ s = PassRecord(s.live, s.correction, s.logicals, s.peak)
  BY DEF Unstarted, PassRecord
<1> HIDE DEF s, masks
<1>2. \A a \in Addresses(image) : Birth(image, a) \in Nat /\ Death(image, a) \in Nat
  <2>1. Times \subseteq Nat
    BY TorusAssumption DEF Times
  <2> QED
    BY <2>1, PriorInRange
<1>3. Waiting(image, 0) = {} /\ Retired(image, f[0 * GroupOrder], 0) = {}
  BY <1>2 DEF Waiting, Retired
<1>4. DOMAIN s.live = {}
  BY <1>1
<1>5. Mirrors(image, s.live, f[0 * GroupOrder])
  BY <1>4 DEF Mirrors
<1>6. s.logicals = LogicalWord(masks, s.correction)
  BY <1>1, WordOfNone
<1>7. s.peak \in Nat /\ s.peak <= MaxLive(image)
  BY <1>1, PeakIsStated
<1>8. IsPassed(image, f, s, 0)
  BY <1>1, <1>3, <1>4, <1>5, <1>6, <1>7 DEF IsPassed, masks
<1> QED
  BY <1>8 DEF s

\* The pass ends in step with the sweep: it holds no fault, and it has flipped those the sweep
\* decides for.
LEMMA PassEnds ==
  ASSUME NEW image, IsPassImage(image), NEW target, NEW f, IsPassSweep(f, image, target)
  PROVE  /\ IsPassRecord(Passes(image, target)) /\ DOMAIN Passes(image, target).live = {}
         /\ Passes(image, target).peak <= MaxLive(image)
         /\ Passes(image, target).logicals = LogicalWord(LogicalMasks(image), Passes(image, target).correction)
         /\ Passes(image, target).correction
              = {v - 1 : v \in HardDecision(f[Slices * GroupOrder].posterior)}
<1>1. PICK g : IsPass(g, image, target) /\ Passes(image, target) = g[Slices]
  BY PassByPosition
<1> DEFINE D == {t \in 0 .. Slices : IsPassed(image, f, g[t], t)}
<1>2. Slices \in Nat
  BY TorusAssumption
<1>3. 0 \in D
  <2>1. g[0] = Unstarted
    BY <1>1 DEF IsPass
  <2>2. 0 \in 0 .. Slices
    BY <1>2
  <2> QED
    BY <2>1, <2>2, StartsInStep
<1>4. ASSUME NEW t \in 1 .. Slices, (t - 1) \in D PROVE t \in D
  <2> DEFINE p == t - 1
  <2>1. p \in Times /\ p + 1 = t /\ t \in 0 .. Slices
    BY <1>2 DEF Times
  <2>2. g[t] = StreamSlice(image, target, g[p], p) /\ IsPassed(image, f, g[p], p)
    BY <1>1, <1>4 DEF IsPass
  <2> HIDE DEF p
  <2>3. IsPassed(image, f, StreamSlice(image, target, g[p], p), p + 1)
    BY <2>1, <2>2, SliceKeepsStep
  <2> QED
    BY <2>1, <2>2, <2>3
<1> HIDE DEF D
<1>5. 0 .. Slices \subseteq D
  BY <1>2, <1>3, <1>4, IntervalInduction
<1> DEFINE s == Passes(image, target)
           end == f[Slices * GroupOrder]
<1>6. IsPassed(image, f, s, Slices)
  <2>1. Slices \in 0 .. Slices
    BY <1>2
  <2> QED
    BY <1>1, <1>5, <2>1 DEF D
<1>7. \A a \in Addresses(image) : Death(image, a) \in Int /\ Death(image, a) < Slices
  <2>1. \A t \in Times : t \in Int /\ t < Slices
    BY <1>2 DEF Times
  <2> QED
    BY <2>1, PriorInRange
<1>8. Waiting(image, Slices) = {}
  BY <1>2, <1>7 DEF Waiting
<1> HIDE DEF s
<1>9. /\ IsPassRecord(s) /\ DOMAIN s.live = {} /\ s.peak <= MaxLive(image)
      /\ s.logicals = LogicalWord(LogicalMasks(image), s.correction)
      /\ s.correction = Retired(image, end, Slices)
  BY <1>6, <1>8 DEF IsPassed, IsPassRecord
<1>10. Retired(image, end, Slices) = {v - 1 : v \in HardDecision(end.posterior)}
  <2> DEFINE n == Slices * GroupOrder
             V == PassVariables(image)
  <2>1. n \in 0 .. n
    BY PassSizes
  <2>2. IsPassState(image, f[n], n)
    <3> HIDE DEF n
    <3> QED
      BY <2>1, PassSweepFacts DEF n
  <2>3. DOMAIN end.posterior = V
    <3> DEFINE p == f[n].posterior
    <3>1. DOMAIN p = V
      <4> HIDE DEF n, V
      <4> QED
        BY <2>2 DEF IsPassState, IsState, Shaped, V
    <3>2. end.posterior = p
      OBVIOUS
    <3> HIDE DEF p, end, V
    <3> QED
      BY <3>1, <3>2
  <2>4. Retired(image, end, Slices) = {a \in Addresses(image) : end.posterior[a + 1] < 0}
    BY <1>7 DEF Retired
  <2>5. HardDecision(end.posterior) = {v \in V : end.posterior[v] < 0}
    BY <2>3 DEF HardDecision
  <2> HIDE DEF end, V
  <2>6. ASSUME NEW a \in Addresses(image), end.posterior[a + 1] < 0
        PROVE  a \in {v - 1 : v \in HardDecision(end.posterior)}
    <3>1. a + 1 \in V /\ (a + 1) - 1 = a
      BY PassSizes DEF V
    <3> QED
      BY <2>5, <2>6, <3>1
  <2>7. ASSUME NEW v \in V, end.posterior[v] < 0
        PROVE  v - 1 \in Addresses(image) /\ end.posterior[(v - 1) + 1] < 0
    <3>1. v - 1 \in Addresses(image) /\ (v - 1) + 1 = v
      BY PassSizes DEF V
    <3> QED
      BY <2>7, <3>1
  <2> QED
    BY <2>4, <2>5, <2>6, <2>7
<1> QED
  BY <1>9, <1>10 DEF s, end

\* On every image a pass can read, the compressed pass is one forward sweep.
LEMMA PassMatches ==
  ASSUME NEW image, NEW target, IsPassImage(image)
  PROVE  PassMatchesSweep(image, target)
<1> DEFINE graph == PassGraph(image)
           bits == PassBits(target)
           sweep == Sweep(graph, bits, "wide", Fresh(graph, PassPrior(image)), Forward(graph))
           pass == RunStreamed(image, target)
           masks == LogicalMasks(image)
           r == IF target = {} THEN Unstarted ELSE Passes(image, target)
<1>1. PICK f : IsPassSweep(f, image, target) /\ sweep = f[Slices * GroupOrder]
  BY SweepOfPass
<1>2. /\ IsPassRecord(r) /\ DOMAIN r.live = {} /\ r.peak <= MaxLive(image)
      /\ r.logicals = LogicalWord(masks, r.correction)
      /\ target # {} => r.correction = {v - 1 : v \in HardDecision(sweep.posterior)}
  <2> HIDE DEF sweep, masks
  <2>1. CASE target = {}
    <3>1. r = Unstarted
      BY <2>1
    <3> DEFINE u == Unstarted
    <3> HIDE DEF r
    <3>2. u.live = <<>> /\ u.correction = {} /\ u.logicals = {} /\ u.peak = 0
          /\ u = PassRecord(u.live, u.correction, u.logicals, u.peak)
      BY DEF Unstarted, PassRecord
    <3>6. r.live = <<>> /\ r.correction = {} /\ r.logicals = {} /\ r.peak = 0 /\ IsPassRecord(r)
      <4> HIDE DEF u
      <4>1. IsPassRecord(u)
        BY <3>2 DEF IsPassRecord
      <4>2. r = u
        BY <3>1 DEF u
      <4> QED
        BY <3>2, <4>1, <4>2
    <3>3. r.peak <= MaxLive(image)
      BY <3>6, PeakIsStated
    <3>4. DOMAIN r.live = {}
      BY <3>6
    <3>5. r.logicals = LogicalWord(masks, r.correction)
      BY <3>6, WordOfNone
    <3> QED
      BY <2>1, <3>3, <3>4, <3>5, <3>6
  <2>2. CASE target # {}
    <3>1. r = Passes(image, target)
      BY <2>2
    <3> HIDE DEF r
    <3> QED
      BY <1>1, <3>1, PassEnds DEF masks
  <2> QED
    BY <2>1, <2>2
<1>3. r.failed = FALSE
  <2> DEFINE p == PassRecord(r.live, r.correction, r.logicals, r.peak)
  <2>1. p.failed = FALSE
    BY DEF PassRecord
  <2>2. r = p
    BY <1>2 DEF IsPassRecord
  <2> HIDE DEF p, r
  <2> QED
    BY <2>1, <2>2
<1>4. /\ pass.failed = (r.failed \/ DOMAIN r.live # {}) /\ pass.correction = r.correction
      /\ pass.logicals = r.logicals /\ pass.peak = r.peak
  BY DEF RunStreamed, Passes, Unstarted, PassRecord
<1> HIDE DEF r, pass, sweep, masks
<1>5. /\ ~pass.failed /\ pass.peak <= MaxLive(image)
      /\ pass.logicals = LogicalWord(masks, pass.correction)
      /\ target # {} => pass.correction = {v - 1 : v \in HardDecision(sweep.posterior)}
  BY <1>2, <1>3, <1>4
<1> QED
  BY <1>5 DEF PassMatchesSweep, pass, sweep, masks, PassGraph, PassPrior, PassBits

\* For every torus and every error model whose checks have two faults or more: the streamed
\* pass over its compiled image, which keeps only the faults whose lifetime runs, never reads
\* a fault that is not live, never holds more than the image states, and ends in the decision
\* of one forward sweep of the whole model, with the logical word of that decision
\* (run_streamed_s2).
THEOREM StreamIsSweep ==
  ASSUME NEW dem, NEW target, IsStream(dem, target)
  PROVE  StreamMatchesSweep(dem, target)
<1> DEFINE image == Compile(dem)
<1>1. CASE image.accepted
  BY <1>1, PassImageFacts, PassMatches DEF StreamMatchesSweep
<1>2. CASE ~image.accepted
  BY <1>2 DEF StreamMatchesSweep, PassMatchesSweep
<1> QED
  BY <1>1, <1>2

-----------------------------------------------------------------------------
(* How many completions a tail attempts.                                   *)

\* A multiple of k counts one more multiple than the number before it; any other
\* number counts the same.
LEMMA QuotientSteps ==
  ASSUME NEW k \in Nat \ {0}, NEW d \in Nat \ {0}
  PROVE  d \div k = (d - 1) \div k + (IF d % k = 0 THEN 1 ELSE 0)
<1> DEFINE q == d \div k
           r == d % k
           p == (d - 1) \div k
           s == (d - 1) % k
<1>1. q \in Int /\ r \in Int /\ p \in Int /\ s \in Int
  OBVIOUS
<1>2. d = k * q + r /\ 0 <= r /\ r < k
  OBVIOUS
<1>3. d - 1 = k * p + s /\ 0 <= s /\ s < k
  OBVIOUS
<1> HIDE DEF q, r, p, s
<1>4. k * (q - p) = 1 + s - r
  BY <1>1, <1>2, <1>3
<1>5. CASE r = 0
  <2>1. k * (q - p) > 0 /\ k * (q - p) <= k
    BY <1>1, <1>2, <1>3, <1>4, <1>5
  <2>2. q - p = 1
    BY <1>1, <2>1
  <2> QED
    BY <1>1, <1>5, <2>2 DEF q, p, r
<1>6. CASE r # 0
  <2>1. k * (q - p) < k /\ k * (q - p) > -k
    BY <1>1, <1>2, <1>3, <1>4, <1>6
  <2>2. q - p = 0
    BY <1>1, <2>1
  <2> QED
    BY <1>1, <1>6, <2>2 DEF q, p, r
<1> QED
  BY <1>5, <1>6

IsProfile(profile) ==
  profile.iterations \in Nat /\ profile.start \in Nat /\ profile.interval \in Nat \ {0}

\* How many of the first i iterations are screened.
Screened(profile, i) ==
  IF profile.start = 0 \/ profile.start > i THEN 0
  ELSE 1 + (i - profile.start) \div profile.interval

LEMMA ScreenedSteps ==
  ASSUME NEW profile, IsProfile(profile)
  PROVE  /\ Screened(profile, 0) = 0
         /\ \A i \in Nat : Screened(profile, i) \in Nat
         /\ \A i \in Nat : Screened(profile, i + 1)
                             = Screened(profile, i) + (IF Screens(profile, i + 1) THEN 1 ELSE 0)
<1> DEFINE a == profile.start
           k == profile.interval
<1>1. a \in Nat /\ k \in Nat \ {0}
  BY DEF IsProfile
<1>2. \A i \in Nat : Screened(profile, i) = IF a = 0 \/ a > i THEN 0 ELSE 1 + (i - a) \div k
  BY DEF Screened
<1>3. \A i \in Nat : Screens(profile, i) <=> a > 0 /\ i >= a /\ (i - a) % k = 0
  BY DEF Screens
<1> HIDE DEF a, k
<1>4. Screened(profile, 0) = 0
  BY <1>1, <1>2
<1>5. \A d \in Nat : d \div k \in Nat
  BY <1>1
<1>6. ASSUME NEW i \in Nat PROVE Screened(profile, i) \in Nat
  <2>1. CASE a = 0 \/ a > i
    BY <1>2, <2>1
  <2>2. CASE ~(a = 0 \/ a > i)
    <3> DEFINE d == i - a
    <3>1. d \in Nat
      BY <1>1, <2>2
    <3> HIDE DEF d
    <3>2. d \div k \in Nat
      BY <1>5, <3>1
    <3>3. Screened(profile, i) = 1 + d \div k
      BY <1>2, <2>2 DEF d
    <3> QED
      BY <3>2, <3>3
  <2> QED
    BY <2>1, <2>2
<1>7. ASSUME NEW i \in Nat
      PROVE  Screened(profile, i + 1) = Screened(profile, i) + (IF Screens(profile, i + 1) THEN 1 ELSE 0)
  <2>0. i + 1 \in Nat
    OBVIOUS
  <2>1. CASE a = 0 \/ a > i + 1
    <3>1. Screened(profile, i + 1) = 0 /\ Screened(profile, i) = 0 /\ ~Screens(profile, i + 1)
      BY <1>1, <1>2, <1>3, <2>0, <2>1
    <3> QED
      BY <3>1
  <2>2. CASE a # 0 /\ a = i + 1
    <3>1. Screened(profile, i) = 0
      BY <1>1, <1>2, <2>2
    <3>2. 0 \div k = 0 /\ 0 % k = 0 /\ i + 1 - a = 0
      BY <1>1, <2>2
    <3>3. Screened(profile, i + 1) = 1
      BY <1>1, <1>2, <2>0, <2>2, <3>2
    <3>4. Screens(profile, i + 1)
      BY <1>1, <1>3, <2>0, <2>2, <3>2
    <3> QED
      BY <3>1, <3>3, <3>4
  <2>3. CASE a # 0 /\ a <= i
    <3> DEFINE d == i + 1 - a
    <3>1. d \in Nat \ {0} /\ d - 1 = i - a
      BY <1>1, <2>3
    <3>2. Screened(profile, i + 1) = 1 + d \div k /\ (Screens(profile, i + 1) <=> d % k = 0)
      BY <1>1, <1>2, <1>3, <2>0, <2>3
    <3>3. Screened(profile, i) = 1 + (d - 1) \div k
      BY <1>1, <1>2, <2>3, <3>1
    <3> HIDE DEF d
    <3>4. d \div k = (d - 1) \div k + (IF d % k = 0 THEN 1 ELSE 0)
      BY <1>1, <3>1, QuotientSteps
    <3>5. d \div k \in Int /\ (d - 1) \div k \in Int
      BY <1>1, <3>1
    <3> QED
      BY <3>2, <3>3, <3>4, <3>5
  <2> QED
    BY <1>1, <2>1, <2>2, <2>3
<1> QED
  BY <1>4, <1>6, <1>7

\* What is screened up to an iteration of the budget is part of what is planned, and a
\* budget spent with a last completion, if its last iteration was not screened, is all.
LEMMA PlanCovers ==
  ASSUME NEW profile, IsProfile(profile)
  PROVE  /\ PlannedAttempts(profile) \in Nat
         /\ \A i \in 0 .. profile.iterations : Screened(profile, i) <= PlannedAttempts(profile)
         /\ PlannedAttempts(profile)
              = Screened(profile, profile.iterations)
                  + (IF Screens(profile, profile.iterations) THEN 0 ELSE 1)
<1> DEFINE n == profile.iterations
           c == Screened(profile, n)
<1>1. n \in Nat /\ c \in Nat
  BY ScreenedSteps DEF IsProfile
<1>2. PlannedAttempts(profile) = c + (IF Screens(profile, n) THEN 0 ELSE 1)
  <2>1. Screens(profile, n) <=> profile.start > 0 /\ profile.start <= n
                                /\ (n - profile.start) % profile.interval = 0
    BY DEF Screens, IsProfile
  <2>2. c = IF profile.start = 0 \/ profile.start > n THEN 0
            ELSE 1 + (n - profile.start) \div profile.interval
    BY DEF Screened
  <2> HIDE DEF c
  <2> QED
    BY <2>1, <2>2 DEF PlannedAttempts
<1>3. PlannedAttempts(profile) \in Nat /\ c <= PlannedAttempts(profile)
  <2> HIDE DEF c, n
  <2> QED
    BY <1>1, <1>2
<1> DEFINE S == {k \in 0 .. n : Screened(profile, n - k) <= c}
<1>4. 0 \in S
  <2>1. n - 0 = n
    BY <1>1
  <2> QED
    BY <1>1, <2>1
<1>5. \A k \in 1 .. n : k - 1 \in S => k \in S
  <2> SUFFICES ASSUME NEW k \in 1 .. n, k - 1 \in S PROVE k \in S
    OBVIOUS
  <2> DEFINE i == n - k
             t == Screened(profile, i)
             u == Screened(profile, i + 1)
  <2>1. i \in Nat /\ n - (k - 1) = i + 1 /\ k \in 0 .. n
    BY <1>1
  <2>2. u <= c
    BY <2>1
  <2> HIDE DEF i
  <2>3. t \in Nat /\ u = t + (IF Screens(profile, i + 1) THEN 1 ELSE 0)
    BY <2>1, ScreenedSteps
  <2> HIDE DEF t, u, c
  <2>4. t <= c
    BY <1>1, <2>2, <2>3
  <2> QED
    BY <2>1, <2>4 DEF t, i
<1>6. 0 .. n \subseteq S
  <2> HIDE DEF S, n
  <2> QED
    BY <1>1, <1>4, <1>5, IntervalInduction
<1>7. ASSUME NEW i \in 0 .. n PROVE Screened(profile, i) <= PlannedAttempts(profile)
  <2>1. n - i \in 0 .. n /\ n - (n - i) = i /\ i \in Nat
    BY <1>1
  <2>2. n - i \in S
    <3> HIDE DEF S
    <3> QED
      BY <1>6, <2>1
  <2>3. Screened(profile, i) <= c
    BY <2>1, <2>2
  <2>4. Screened(profile, i) \in Nat
    BY <2>1, ScreenedSteps
  <2> HIDE DEF S, c
  <2> QED
    BY <1>1, <1>3, <2>3, <2>4
<1> QED
  BY <1>2, <1>3, <1>7

-----------------------------------------------------------------------------
(* What a tail keeps of an image.                                          *)

\* A template image as far as the tail depends on it.
IsTemplate(image) == image.orbits \in Nat /\ image.prior \in [0 .. image.orbits - 1 -> Int]

IsTail(x) ==
  /\ IsImage(x.image) /\ x.forest = Compiled(x.image)
  /\ x.prior \in [FaultsOf(x.image) -> Int]
  /\ \A v \in x.image.neutral : x.masks[v] = {}

\* Every address belongs to an orbit.
LEMMA OrbitOfAddress ==
  ASSUME NEW image, IsTemplate(image), NEW a \in Addresses(image)
  PROVE  a \div GroupOrder \in 0 .. image.orbits - 1
<1> DEFINE n == image.orbits
           g == GroupOrder
           q == a \div g
           r == a % g
<1>1. n \in Nat /\ g \in Nat \ {0} /\ a \in 0 .. n * g - 1
  <2>1. g \in Nat \ {0}
    <3>1. XDim \in Nat \ {0} /\ YDim \in Nat \ {0}
      BY TorusAssumption
    <3>2. \A i, j \in Nat \ {0} : i * j \in Nat \ {0}
      OBVIOUS
    <3> QED
      BY <3>1, <3>2 DEF GroupOrder
  <2> QED
    BY <2>1 DEF IsTemplate, Addresses
<1> HIDE DEF g
<1>2. a \in Nat /\ q \in Int /\ r \in Int /\ a = g * q + r /\ 0 <= r /\ r < g
  BY <1>1
<1> HIDE DEF n, q, r
<1>3. q >= 0
  <2> SUFFICES ASSUME q <= -1 PROVE FALSE
    BY <1>2
  <2>1. g * q <= -g
    BY <1>1, <1>2
  <2> QED
    BY <1>1, <1>2, <2>1
<1>4. q < n
  <2> SUFFICES ASSUME q >= n PROVE FALSE
    BY <1>1, <1>2
  <2>1. g * q >= n * g
    BY <1>1, <1>2
  <2> QED
    BY <1>1, <1>2, <2>1
<1>5. q \in 0 .. n - 1
  BY <1>1, <1>2, <1>3, <1>4
<1> QED
  BY <1>5 DEF q, g, n

LEMMA ExpandIsTail ==
  ASSUME NEW image, IsTemplate(image)
  PROVE  IsTail(Expand(image)) /\ ChecksOf(Expand(image).image) = Detectors
<1> DEFINE x == Expand(image)
           c == Columns(image)
           A == Addresses(image)
<1>1. /\ x.image = c /\ x.forest = Compiled(c)
      /\ x.prior = [a \in A |-> OrbitPrior(image, a)] /\ x.masks = LogicalMasks(image)
  BY DEF Expand
<1>2. /\ c.checks = Slices * GroupOrder
      /\ c.columns = [a \in A |-> {d \in Detectors : a \in ToSet(Row(image, d))}]
      /\ c.neutral = {a \in A : LogicalMasks(image)[a] = {}}
  BY DEF Columns
<1> HIDE DEF x, c
<1>3. FaultsOf(c) = A /\ ChecksOf(c) = Detectors
  BY <1>2 DEF FaultsOf, ChecksOf, Detectors
<1>4. Slices * GroupOrder \in Nat /\ image.orbits * GroupOrder \in Nat
  <2>1. XDim \in Nat /\ YDim \in Nat /\ Slices \in Nat /\ image.orbits \in Nat
    BY TorusAssumption DEF IsTemplate
  <2>2. \A i, j \in Nat : i * j \in Nat
    OBVIOUS
  <2>3. GroupOrder \in Nat
    BY <2>1, <2>2 DEF GroupOrder
  <2> QED
    BY <2>1, <2>2, <2>3
<1>5. A \in SUBSET Nat /\ IsFiniteSet(A)
  <2> DEFINE k == image.orbits * GroupOrder
  <2>1. A = 0 .. k - 1 /\ k \in Nat
    BY <1>4 DEF Addresses
  <2> HIDE DEF k, A
  <2>2. k - 1 \in Int
    BY <2>1
  <2>3. IsFiniteSet(A)
    BY <2>1, <2>2, FS_Interval
  <2> QED
    BY <2>1, <2>3
<1> HIDE DEF A
<1>6. IsImage(c)
  <2>1. c.columns \in [FaultsOf(c) -> SUBSET ChecksOf(c)]
    BY <1>2, <1>3
  <2>2. c.neutral \in SUBSET FaultsOf(c)
    BY <1>2, <1>3
  <2> QED
    BY <1>2, <1>3, <1>4, <1>5, <2>1, <2>2 DEF IsImage
<1>7. x.prior \in [FaultsOf(x.image) -> Int]
  <2>1. ASSUME NEW a \in A PROVE OrbitPrior(image, a) \in Int
    BY <2>1, OrbitOfAddress DEF OrbitPrior, IsTemplate, A
  <2> QED
    BY <1>1, <1>3, <2>1
<1>8. \A v \in x.image.neutral : x.masks[v] = {}
  BY <1>1, <1>2
<1> QED
  BY <1>1, <1>3, <1>6, <1>7, <1>8 DEF IsTail, x

-----------------------------------------------------------------------------
(* One answer of the tail.                                                 *)

Endings == {"quiet", "converged", "early", "bridged", "deferred"}

Answers(x) ==
  [accepted : BOOLEAN, correction : SUBSET FaultsOf(x.image), flips : SUBSET FaultsOf(x.image),
   iterations : Nat, attempts : Nat, how : Endings, cost : Int]

LEMMA AnswerType ==
  ASSUME NEW x, IsTail(x), NEW target, NEW word \in SUBSET FaultsOf(x.image),
         NEW flips \in SUBSET FaultsOf(x.image), NEW i \in Nat, NEW n \in Nat, NEW how \in Endings
  PROVE  LET r == RelayResult(x, target, word, flips, i, n, how)
         IN  /\ r \in Answers(x)
             /\ SyndromeOf(x.image, word) = target => r.accepted
             /\ r.correction = word /\ r.flips = flips /\ r.attempts = n /\ r.how = how
<1>1. Cost(x, word) \in Int
  <2>1. IsFiniteSet(word)
    <3>1. IsFiniteSet(FaultsOf(x.image))
      BY DEF IsTail, IsImage
    <3> QED
      BY <3>1, FS_Subset
  <2>2. \A a \in word : x.prior[a] \in Int
    BY DEF IsTail
  <2>3. Cost(x, word) = Total(x.prior, word)
    BY DEF Cost, Total
  <2> QED
    BY <2>1, <2>2, <2>3, SumIsInteger
<1> QED
  BY <1>1 DEF RelayResult, Answers

\* What an answer owes to the profile it was found under.
Justified(x, target, profile, r) ==
  /\ ~r.accepted => SymDiff(SyndromeOf(x.image, r.correction), target) \notin Repairable(x.image)
  /\ r.how \in {"early", "bridged"} =>
       r.accepted /\ LogicalWord(x.masks, r.correction)
                       = LogicalWord(x.masks, SymDiff(r.correction, r.flips))
  /\ r.attempts <= PlannedAttempts(profile)
  /\ r.how \in {"bridged", "deferred"} => r.attempts = PlannedAttempts(profile)

\* Neutral flips that explain what a word misses complete it, and change no observable.
LEMMA CompletedWord ==
  ASSUME NEW x, IsTail(x), NEW target \in SUBSET ChecksOf(x.image),
         NEW word \in SUBSET FaultsOf(x.image), NEW flips \in SUBSET x.image.neutral,
         SyndromeOf(x.image, flips) = SymDiff(SyndromeOf(x.image, word), target)
  PROVE  LET both == SymDiff(word, flips)
         IN  /\ both \in SUBSET FaultsOf(x.image) /\ flips \in SUBSET FaultsOf(x.image)
             /\ SyndromeOf(x.image, both) = target
             /\ LogicalWord(x.masks, both) = LogicalWord(x.masks, SymDiff(both, flips))
<1> DEFINE both == SymDiff(word, flips)
           s == SyndromeOf(x.image, word)
<1>1. x.image.neutral \in SUBSET FaultsOf(x.image) /\ IsFiniteSet(FaultsOf(x.image))
  BY DEF IsTail, IsImage
<1>2. flips \in SUBSET FaultsOf(x.image) /\ both \in SUBSET FaultsOf(x.image)
  BY <1>1 DEF SymDiff
<1>3. SyndromeOf(x.image, both) = SymDiff(s, SymDiff(s, target))
  BY <1>1, <1>2, FS_Subset, SyndromeLinear
<1>4. SymDiff(s, SymDiff(s, target)) = target
  BY DEF SymDiff
<1>5. ASSUME NEW k \in 0 .. LOGICALS - 1
      PROVE  {a \in both : k \in x.masks[a]} = {a \in SymDiff(both, flips) : k \in x.masks[a]}
  <2>1. \A a \in flips : k \notin x.masks[a]
    BY DEF IsTail
  <2> HIDE DEF both
  <2> QED
    BY <2>1 DEF SymDiff
<1> HIDE DEF both
<1>6. LogicalWord(x.masks, both) = LogicalWord(x.masks, SymDiff(both, flips))
  BY <1>5 DEF LogicalWord
<1> QED
  BY <1>2, <1>3, <1>4, <1>6 DEF both

\* What the tree and the terminal completion repair, and what the latter leaves.
LEMMA TreeRepairs ==
  ASSUME NEW x, IsTail(x), NEW residual \in SUBSET ChecksOf(x.image),
         Repairs(x, residual, TreeCompletion(x.image, x.forest, residual))
  PROVE  LET done == TreeCompletion(x.image, x.forest, residual)
         IN  done.flips \in SUBSET x.image.neutral /\ SyndromeOf(x.image, done.flips) = residual
<1> DEFINE done == TreeCompletion(x.image, x.forest, residual)
<1>1. IsImage(x.image) /\ IsTree(x.image, x.forest.tree)
  BY CompiledForest DEF IsTail
<1>2. TreeExplains(x.image, x.forest.tree, Detached(x.image, x.forest.tree), residual, done)
  BY <1>1, TreeCompletionExact
<1>3. ~done.stuck
  BY DEF Repairs
<1> HIDE DEF done
<1>4. done.flips \in SUBSET x.image.neutral /\ SyndromeOf(x.image, done.flips) = residual
  BY <1>2, <1>3 DEF TreeExplains
<1> QED
  BY <1>4 DEF done

LEMMA TerminalRepairs ==
  ASSUME NEW x, IsTail(x), NEW residual \in SUBSET ChecksOf(x.image)
  PROVE  LET done == TerminalCompletion(x, residual)
         IN  /\ Repairs(x, residual, done) =>
                  /\ done.flips \in SUBSET x.image.neutral
                  /\ SyndromeOf(x.image, done.flips) = residual
             /\ ~Repairs(x, residual, done) => residual \notin Repairable(x.image)
<1> DEFINE done == TerminalCompletion(x, residual)
<1>1. Completes(x.image, residual, done)
  <2>1. IsImage(x.image) /\ done = BridgedCompletion(x.image, Compiled(x.image), residual)
    BY DEF IsTail, TerminalCompletion
  <2> HIDE DEF done
  <2> QED
    BY <2>1, BridgedCompletionExact
<1> HIDE DEF done
<1>2. Repairs(x, residual, done) <=> ~done.stuck /\ SyndromeOf(x.image, done.flips) = residual
  BY DEF Repairs
<1>3. /\ Repairs(x, residual, done) => /\ done.flips \in SUBSET x.image.neutral
                                       /\ SyndromeOf(x.image, done.flips) = residual
      /\ ~Repairs(x, residual, done) => residual \notin Repairable(x.image)
  BY <1>1, <1>2 DEF Completes
<1> QED
  BY <1>3 DEF done

-----------------------------------------------------------------------------
(* The invariant of the tail.                                              *)

IsPortfolio(profiles) ==
  /\ profiles \in Seq(ToSet(profiles)) /\ profiles # <<>>
  /\ \A k \in DOMAIN profiles : IsProfile(profiles[k])

Bridged(results, k) == results[k].how = "bridged"

\* All answers before the last, and all of them while an image runs, were bridged; the
\* attempts are those the schedule has asked for so far.
TailInv(x, target, profiles) ==
  /\ tail.x = x /\ tail.target = target /\ tail.profiles = profiles
  /\ tail.phase \in {"quiet", "iterate", "select", "done"}
  /\ tail.phase # "done" =>
       tail = [phase |-> tail.phase, x |-> tail.x, target |-> tail.target,
               profiles |-> tail.profiles, results |-> tail.results,
               iteration |-> tail.iteration, attempts |-> tail.attempts,
               posterior |-> tail.posterior, messages |-> tail.messages]
  /\ tail.results \in Seq(Answers(x)) /\ Len(tail.results) <= Len(profiles)
  /\ \A k \in 1 .. Len(tail.results) : Justified(x, target, profiles[k], tail.results[k])
  /\ tail.phase = "quiet" => target = {} /\ tail.results = <<>>
  /\ tail.phase = "iterate" =>
       /\ Len(tail.results) < Len(profiles)
       /\ \A k \in 1 .. Len(tail.results) : Bridged(tail.results, k)
       /\ tail.iteration \in 0 .. Profile.iterations
       /\ tail.attempts = Screened(Profile, tail.iteration)
       /\ DOMAIN tail.posterior = FaultsOf(x.image)
  /\ tail.phase \in {"select", "done"} =>
       /\ tail.results # <<>>
       /\ \A k \in 1 .. Len(tail.results) - 1 : Bridged(tail.results, k)
  /\ tail.phase = "done" => tail.chosen = Chosen(tail.results)

\* The profile of the image that runs.
LEMMA ProfileFacts ==
  ASSUME NEW x, NEW target, NEW profiles, IsPortfolio(profiles), TailInv(x, target, profiles),
         tail.phase \in {"quiet", "iterate"}
  PROVE  /\ Len(tail.results) \in Nat /\ Len(tail.results) + 1 \in 1 .. Len(profiles)
         /\ Profile = profiles[Len(tail.results) + 1] /\ IsProfile(Profile)
<1>1. profiles \in Seq(ToSet(profiles)) /\ profiles # <<>>
  BY DEF IsPortfolio
<1>2. Len(profiles) \in Nat /\ DOMAIN profiles = 1 .. Len(profiles) /\ Len(profiles) # 0
  BY <1>1, EmptySeq, LenProperties
<1>3. Len(tail.results) \in Nat
  <2>1. tail.results \in Seq(Answers(x))
    BY DEF TailInv
  <2> QED
    BY <2>1, LenProperties
<1>4. Len(tail.results) < Len(profiles)
  <2>1. CASE tail.phase = "iterate"
    BY <2>1 DEF TailInv
  <2>2. CASE tail.phase = "quiet"
    <3>1. Len(tail.results) = 0
      BY <2>2 DEF TailInv
    <3> QED
      BY <3>1, <1>2
  <2> QED
    BY <2>1, <2>2
<1>5. Len(tail.results) + 1 \in 1 .. Len(profiles)
  BY <1>2, <1>3, <1>4
<1>6. Profile = profiles[Len(tail.results) + 1]
  BY DEF Profile, TailInv
<1> QED
  BY <1>2, <1>3, <1>5, <1>6 DEF IsPortfolio

\* An image that answers keeps the invariant: the next one starts fresh, or the
\* portfolio is over.
LEMMA AnswerKeeps ==
  ASSUME NEW x, IsTail(x), NEW target, NEW profiles, IsPortfolio(profiles),
         TailInv(x, target, profiles), tail.phase = "iterate",
         NEW r \in Answers(x), Justified(x, target, Profile, r), NEW posterior, NEW messages,
         tail' = Answer(r, posterior, messages)
  PROVE  TailInv(x, target, profiles)'
<1> DEFINE old == tail.results
           new == Append(old, r)
           n == Len(old)
           more == r.how = "bridged" /\ Len(new) < Len(profiles)
           next == FreshImage(x, profiles[IF more THEN Len(new) + 1 ELSE 1])
<1>1. /\ n \in Nat /\ n + 1 \in 1 .. Len(profiles)
      /\ Profile = profiles[n + 1] /\ IsProfile(Profile)
  BY ProfileFacts
<1>2. /\ tail.x = x /\ tail.target = target /\ tail.profiles = profiles
      /\ old \in Seq(Answers(x)) /\ n < Len(profiles) /\ Len(profiles) \in Nat
      /\ \A k \in 1 .. n : Justified(x, target, profiles[k], old[k])
      /\ \A k \in 1 .. n : Bridged(old, k)
  <2>1. Len(profiles) \in Nat
    BY LenProperties DEF IsPortfolio
  <2> QED
    BY <2>1 DEF TailInv
<1>3. tail = [phase |-> tail.phase, x |-> tail.x, target |-> tail.target,
              profiles |-> tail.profiles, results |-> tail.results,
              iteration |-> tail.iteration, attempts |-> tail.attempts,
              posterior |-> tail.posterior, messages |-> tail.messages]
  BY DEF TailInv
<1>4. /\ new \in Seq(Answers(x)) /\ Len(new) = n + 1 /\ new # <<>>
      /\ \A k \in 1 .. n : new[k] = old[k]
      /\ new[n + 1] = r
  <2>1. new \in Seq(Answers(x)) /\ Len(new) = n + 1
    BY <1>2, AppendProperties
  <2>2. \A k \in 1 .. n : new[k] = old[k]
    BY <1>2, AppendProperties
  <2>3. new[n + 1] = r
    BY <1>2, AppendProperties
  <2>4. new # <<>>
    BY <1>1, <2>1, EmptySeq
  <2> QED
    BY <2>1, <2>2, <2>3, <2>4
<1>5. \A k \in 1 .. Len(new) : Justified(x, target, profiles[k], new[k])
  <2> TAKE k \in 1 .. Len(new)
  <2>1. CASE k \in 1 .. n
    BY <1>2, <1>4, <2>1
  <2>2. CASE k = n + 1
    BY <1>1, <1>4, <2>2
  <2>3. k \in 1 .. n \/ k = n + 1
    <3> HIDE DEF new, n
    <3> QED
      BY <1>1, <1>4
  <2> QED
    BY <2>1, <2>2, <2>3
<1>6. \A k \in 1 .. n : Bridged(new, k)
  BY <1>2, <1>4 DEF Bridged
<1>7. tail' = IF more
              THEN [tail EXCEPT !.results = new, !.iteration = 0, !.attempts = 0,
                                !.posterior = next.posterior, !.messages = next.messages]
              ELSE [tail EXCEPT !.results = new, !.phase = "select",
                                !.posterior = posterior, !.messages = messages]
  BY <1>2 DEF Answer
<1>8. DOMAIN next.posterior = FaultsOf(x.image)
  BY DEF FreshImage, IsTail
<1> HIDE DEF new, n, more, next, old
<1>9. CASE more
  <2>1. tail' = [phase |-> tail.phase, x |-> tail.x, target |-> tail.target,
                 profiles |-> tail.profiles, results |-> new, iteration |-> 0, attempts |-> 0,
                 posterior |-> next.posterior, messages |-> next.messages]
    BY <1>3, <1>7, <1>9
  <2>2. /\ tail'.phase = "iterate" /\ tail'.x = x /\ tail'.target = target
        /\ tail'.profiles = profiles /\ tail'.results = new /\ tail'.iteration = 0
        /\ tail'.attempts = 0 /\ tail'.posterior = next.posterior
        /\ tail'.messages = next.messages
    BY <1>2, <2>1
  <2>3. n + 1 < Len(profiles) /\ Bridged(new, n + 1)
    BY <1>4, <1>9 DEF more, Bridged
  <2>4. \A k \in 1 .. Len(new) : Bridged(new, k)
    <3> TAKE k \in 1 .. Len(new)
    <3>1. k \in 1 .. n \/ k = n + 1
      BY <1>1, <1>4
    <3> QED
      BY <1>6, <2>3, <3>1
  <2>5. Profile' = profiles[n + 2] /\ IsProfile(Profile')
    <3>1. Profile' = profiles[Len(new) + 1]
      BY <2>2 DEF Profile
    <3>2. Len(new) + 1 = n + 2 /\ n + 2 \in 1 .. Len(profiles)
      BY <1>1, <1>2, <1>4, <2>3
    <3>3. DOMAIN profiles = 1 .. Len(profiles)
      BY LenProperties DEF IsPortfolio
    <3>4. IsProfile(profiles[n + 2])
      BY <3>2, <3>3 DEF IsPortfolio
    <3> QED
      BY <3>1, <3>2, <3>4
  <2>6. tail'.iteration \in 0 .. (Profile').iterations
        /\ tail'.attempts = Screened(Profile', tail'.iteration)
    <3>1. (Profile').iterations \in Nat /\ Screened(Profile', 0) = 0
      BY <2>5, ScreenedSteps DEF IsProfile
    <3> QED
      BY <2>2, <3>1
  <2>7. DOMAIN tail'.posterior = FaultsOf(x.image)
    BY <1>8, <2>2
  <2>8. Len(new) < Len(profiles)
    BY <1>4, <2>3
  <2> QED
    BY <1>4, <1>5, <2>1, <2>2, <2>4, <2>6, <2>7, <2>8 DEF TailInv
<1>10. CASE ~more
  <2>1. tail' = [phase |-> "select", x |-> tail.x, target |-> tail.target,
                 profiles |-> tail.profiles, results |-> new, iteration |-> tail.iteration,
                 attempts |-> tail.attempts, posterior |-> posterior, messages |-> messages]
    BY <1>3, <1>7, <1>10
  <2>2. /\ tail'.phase = "select" /\ tail'.x = x /\ tail'.target = target
        /\ tail'.profiles = profiles /\ tail'.results = new
        /\ tail'.iteration = tail.iteration /\ tail'.attempts = tail.attempts
        /\ tail'.posterior = posterior /\ tail'.messages = messages
    BY <1>2, <2>1
  <2>3. Len(new) <= Len(profiles) /\ Len(new) - 1 = n
    BY <1>1, <1>4
  <2> QED
    BY <1>4, <1>5, <1>6, <2>1, <2>2, <2>3 DEF TailInv
<1> QED
  BY <1>9, <1>10

\* What a word misses is a set of checks.
LEMMA ResidualFacts ==
  ASSUME NEW x, NEW target \in SUBSET ChecksOf(x.image), NEW word, tail.target = target
  PROVE  /\ Residual(x, word) \in SUBSET ChecksOf(x.image)
         /\ Residual(x, word) = SymDiff(SyndromeOf(x.image, word), target)
         /\ Residual(x, word) = {} => SyndromeOf(x.image, word) = target
<1>1. Residual(x, word) = SymDiff(SyndromeOf(x.image, word), target)
  BY DEF Residual
<1>2. SyndromeOf(x.image, word) \in SUBSET ChecksOf(x.image)
  BY DEF SyndromeOf
<1> QED
  BY <1>1, <1>2 DEF SymDiff

\* An iteration that goes on keeps the invariant.
LEMMA IterationGoesOn ==
  ASSUME NEW x, IsTail(x), NEW target, NEW profiles, IsPortfolio(profiles),
         TailInv(x, target, profiles), tail.phase = "iterate", tail.iteration < Profile.iterations,
         NEW posterior, DOMAIN posterior = FaultsOf(x.image), NEW messages,
         NEW attempts, attempts = Screened(Profile, tail.iteration + 1),
         tail' = [tail EXCEPT !.iteration = tail.iteration + 1, !.attempts = attempts,
                              !.posterior = posterior, !.messages = messages]
  PROVE  TailInv(x, target, profiles)'
<1>1. /\ tail.x = x /\ tail.target = target /\ tail.profiles = profiles
      /\ tail.iteration \in 0 .. Profile.iterations
  BY DEF TailInv
<1>2. tail = [phase |-> tail.phase, x |-> tail.x, target |-> tail.target,
              profiles |-> tail.profiles, results |-> tail.results,
              iteration |-> tail.iteration, attempts |-> tail.attempts,
              posterior |-> tail.posterior, messages |-> tail.messages]
  BY DEF TailInv
<1>3. tail' = [phase |-> tail.phase, x |-> tail.x, target |-> tail.target,
               profiles |-> tail.profiles, results |-> tail.results,
               iteration |-> tail.iteration + 1, attempts |-> attempts,
               posterior |-> posterior, messages |-> messages]
  BY <1>2
<1>4. /\ tail'.phase = "iterate" /\ tail'.x = x /\ tail'.target = target
      /\ tail'.profiles = profiles /\ tail'.results = tail.results
      /\ tail'.iteration = tail.iteration + 1 /\ tail'.attempts = attempts
      /\ tail'.posterior = posterior /\ tail'.messages = messages
  BY <1>1, <1>3
<1>5. Profile' = Profile
  BY <1>1, <1>4 DEF Profile
<1>6. tail'.iteration \in 0 .. (Profile').iterations
  <2>1. IsProfile(Profile)
    BY ProfileFacts
  <2>2. Profile.iterations \in Nat
    BY <2>1 DEF IsProfile
  <2> QED
    BY <1>1, <1>4, <1>5, <2>2
<1>7. tail'.attempts = Screened(Profile', tail'.iteration)
  BY <1>4, <1>5
<1>8. tail' = [phase |-> tail'.phase, x |-> tail'.x, target |-> tail'.target,
               profiles |-> tail'.profiles, results |-> tail'.results,
               iteration |-> tail'.iteration, attempts |-> tail'.attempts,
               posterior |-> tail'.posterior, messages |-> tail'.messages]
  BY <1>3
<1> QED
  BY <1>4, <1>6, <1>7, <1>8 DEF TailInv

LEMMA IterateKeeps ==
  ASSUME NEW x, IsTail(x), NEW target \in SUBSET ChecksOf(x.image), NEW profiles,
         IsPortfolio(profiles), TailInv(x, target, profiles), Iterate
  PROVE  TailInv(x, target, profiles)'
<1> DEFINE i == tail.iteration + 1
           flood == FloodStep(x, target, Profile, [posterior |-> tail.posterior,
                                                   messages |-> tail.messages])
           hard == HardFaults(flood.posterior)
           residual == Residual(x, hard)
           tree == TreeCompletion(x.image, x.forest, residual)
           attempts == tail.attempts + (IF Screens(Profile, i) THEN 1 ELSE 0)
           converged == RelayResult(x, target, hard, {}, i, tail.attempts, "converged")
           early == RelayResult(x, target, SymDiff(hard, tree.flips), tree.flips, i, attempts,
                                "early")
<1>1. tail.phase = "iterate" /\ tail.iteration < Profile.iterations
  BY DEF Iterate
<1>2. /\ tail.x = x /\ tail.target = target /\ tail.iteration \in 0 .. Profile.iterations
      /\ tail.attempts = Screened(Profile, tail.iteration)
  BY <1>1 DEF TailInv
<1>3. tail' = IF residual = {} THEN Answer(converged, flood.posterior, flood.messages)
              ELSE IF Screens(Profile, i) /\ Repairs(x, residual, tree)
              THEN Answer(early, flood.posterior, flood.messages)
              ELSE [tail EXCEPT !.iteration = i, !.attempts = attempts,
                                !.posterior = flood.posterior, !.messages = flood.messages]
  BY <1>2 DEF Iterate
<1>4. IsProfile(Profile)
  BY <1>1, ProfileFacts
<1>5. DOMAIN flood.posterior = FaultsOf(x.image)
  BY DEF FloodStep, IsTail
<1> HIDE DEF flood
<1>6. hard \in SUBSET FaultsOf(x.image)
  BY <1>5 DEF HardFaults
<1> HIDE DEF hard
<1>7. /\ residual \in SUBSET ChecksOf(x.image)
      /\ residual = SymDiff(SyndromeOf(x.image, hard), target)
      /\ residual = {} => SyndromeOf(x.image, hard) = target
  BY <1>2, ResidualFacts
<1> HIDE DEF residual
<1>8. /\ i \in Nat /\ i \in 0 .. Profile.iterations /\ tail.iteration \in Nat
      /\ attempts = Screened(Profile, i)
      /\ tail.attempts \in Nat /\ tail.attempts <= PlannedAttempts(Profile)
      /\ attempts \in Nat /\ attempts <= PlannedAttempts(Profile)
  <2>1. Profile.iterations \in Nat
    BY <1>4 DEF IsProfile
  <2>2. tail.iteration \in Nat /\ i \in Nat /\ i \in 0 .. Profile.iterations
    BY <1>1, <1>2, <2>1
  <2>3. attempts = Screened(Profile, i)
    BY <1>2, <1>4, <2>2, ScreenedSteps
  <2>4. Screened(Profile, tail.iteration) \in Nat /\ Screened(Profile, i) \in Nat
    BY <1>4, <2>2, ScreenedSteps
  <2>5. /\ Screened(Profile, tail.iteration) <= PlannedAttempts(Profile)
        /\ Screened(Profile, i) <= PlannedAttempts(Profile)
    BY <1>2, <1>4, <2>2, PlanCovers
  <2> HIDE DEF attempts, i
  <2> QED
    BY <1>2, <2>2, <2>3, <2>4, <2>5
<1> HIDE DEF attempts
<1>9. CASE residual = {}
  <2>1. SyndromeOf(x.image, hard) = target
    BY <1>7, <1>9
  <2> HIDE DEF i
  <2>2. /\ converged \in Answers(x) /\ converged.accepted /\ converged.how = "converged"
        /\ converged.attempts = tail.attempts
    BY <1>6, <1>8, <2>1, AnswerType DEF Endings
  <2> HIDE DEF converged
  <2>3. Justified(x, target, Profile, converged)
    BY <1>8, <2>2 DEF Justified
  <2>4. tail' = Answer(converged, flood.posterior, flood.messages)
    BY <1>3, <1>9
  <2> QED
    BY <1>1, <2>2, <2>3, <2>4, AnswerKeeps
<1>10. CASE residual # {} /\ Screens(Profile, i) /\ Repairs(x, residual, tree)
  <2>1. tree.flips \in SUBSET x.image.neutral /\ SyndromeOf(x.image, tree.flips) = residual
    BY <1>7, <1>10, TreeRepairs
  <2> DEFINE flips == tree.flips
             both == SymDiff(hard, flips)
  <2> HIDE DEF tree
  <2>2. /\ both \in SUBSET FaultsOf(x.image) /\ flips \in SUBSET FaultsOf(x.image)
        /\ SyndromeOf(x.image, both) = target
        /\ LogicalWord(x.masks, both) = LogicalWord(x.masks, SymDiff(both, flips))
    BY <1>6, <1>7, <2>1, CompletedWord
  <2>3. early = RelayResult(x, target, both, flips, i, attempts, "early")
    OBVIOUS
  <2> HIDE DEF i, early, both, flips
  <2>4. /\ early \in Answers(x) /\ early.accepted /\ early.how = "early"
        /\ early.correction = both /\ early.flips = flips /\ early.attempts = attempts
    BY <1>8, <2>2, <2>3, AnswerType DEF Endings
  <2>5. Justified(x, target, Profile, early)
    BY <1>8, <2>2, <2>4 DEF Justified
  <2>6. tail' = Answer(early, flood.posterior, flood.messages)
    BY <1>3, <1>10
  <2> QED
    BY <1>1, <2>4, <2>5, <2>6, AnswerKeeps
<1>11. CASE residual # {} /\ ~(Screens(Profile, i) /\ Repairs(x, residual, tree))
  <2>1. tail' = [tail EXCEPT !.iteration = tail.iteration + 1, !.attempts = attempts,
                             !.posterior = flood.posterior, !.messages = flood.messages]
    BY <1>3, <1>11
  <2>2. attempts = Screened(Profile, tail.iteration + 1)
    BY <1>8
  <2> QED
    BY <1>1, <1>5, <2>1, <2>2, IterationGoesOn
<1> QED
  BY <1>9, <1>10, <1>11

LEMMA TerminalKeeps ==
  ASSUME NEW x, IsTail(x), NEW target \in SUBSET ChecksOf(x.image), NEW profiles,
         IsPortfolio(profiles), TailInv(x, target, profiles), Terminal
  PROVE  TailInv(x, target, profiles)'
<1> DEFINE i == Profile.iterations
           hard == Hard
           residual == Residual(x, hard)
           done == TerminalCompletion(x, residual)
           attempts == tail.attempts + (IF Screens(Profile, i) THEN 0 ELSE 1)
           bridged == RelayResult(x, target, SymDiff(hard, done.flips), done.flips, i, attempts,
                                  "bridged")
           deferred == RelayResult(x, target, hard, {}, i, attempts, "deferred")
<1>1. tail.phase = "iterate" /\ tail.iteration = Profile.iterations
  BY DEF Terminal
<1>2. /\ tail.x = x /\ tail.target = target
      /\ tail.attempts = Screened(Profile, tail.iteration)
      /\ DOMAIN tail.posterior = FaultsOf(x.image)
  BY <1>1 DEF TailInv
<1>3. tail' = IF Repairs(x, residual, done) THEN Answer(bridged, tail.posterior, tail.messages)
              ELSE Answer(deferred, tail.posterior, tail.messages)
  BY <1>2 DEF Terminal
<1>4. IsProfile(Profile) /\ i \in Nat
  BY <1>1, ProfileFacts DEF IsProfile
<1>5. hard \in SUBSET FaultsOf(x.image)
  BY <1>2 DEF Hard, HardFaults
<1> HIDE DEF hard
<1>6. /\ residual \in SUBSET ChecksOf(x.image)
      /\ residual = SymDiff(SyndromeOf(x.image, hard), target)
  BY <1>2, ResidualFacts
<1> HIDE DEF residual
<1>7. attempts = PlannedAttempts(Profile) /\ attempts \in Nat
  BY <1>1, <1>2, <1>4, PlanCovers
<1> HIDE DEF attempts, i
<1>8. /\ Repairs(x, residual, done) => /\ done.flips \in SUBSET x.image.neutral
                                       /\ SyndromeOf(x.image, done.flips) = residual
      /\ ~Repairs(x, residual, done) => residual \notin Repairable(x.image)
  BY <1>6, TerminalRepairs
<1> HIDE DEF done
<1>9. CASE Repairs(x, residual, done)
  <2> DEFINE flips == done.flips
             both == SymDiff(hard, flips)
  <2>1. /\ both \in SUBSET FaultsOf(x.image) /\ flips \in SUBSET FaultsOf(x.image)
        /\ SyndromeOf(x.image, both) = target
        /\ LogicalWord(x.masks, both) = LogicalWord(x.masks, SymDiff(both, flips))
    BY <1>5, <1>6, <1>8, <1>9, CompletedWord
  <2>2. bridged = RelayResult(x, target, both, flips, i, attempts, "bridged")
    OBVIOUS
  <2> HIDE DEF bridged, both, flips
  <2>3. /\ bridged \in Answers(x) /\ bridged.accepted /\ bridged.how = "bridged"
        /\ bridged.correction = both /\ bridged.flips = flips /\ bridged.attempts = attempts
    BY <1>4, <1>7, <2>1, <2>2, AnswerType DEF Endings
  <2>4. Justified(x, target, Profile, bridged)
    BY <1>7, <2>1, <2>3 DEF Justified
  <2>5. tail' = Answer(bridged, tail.posterior, tail.messages)
    BY <1>3, <1>9
  <2> QED
    BY <1>1, <2>3, <2>4, <2>5, AnswerKeeps
<1>10. CASE ~Repairs(x, residual, done)
  <2>1. /\ deferred \in Answers(x) /\ deferred.how = "deferred"
        /\ deferred.correction = hard /\ deferred.attempts = attempts
    BY <1>4, <1>5, <1>7, AnswerType DEF Endings
  <2> HIDE DEF deferred
  <2>2. SymDiff(SyndromeOf(x.image, hard), target) \notin Repairable(x.image)
    BY <1>6, <1>8, <1>10
  <2>3. Justified(x, target, Profile, deferred)
    BY <1>7, <2>1, <2>2 DEF Justified
  <2>4. tail' = Answer(deferred, tail.posterior, tail.messages)
    BY <1>3, <1>10
  <2> QED
    BY <1>1, <2>1, <2>3, <2>4, AnswerKeeps
<1> QED
  BY <1>9, <1>10

LEMMA QuietKeeps ==
  ASSUME NEW x, IsTail(x), NEW target, NEW profiles, IsPortfolio(profiles),
         TailInv(x, target, profiles), Quiet
  PROVE  TailInv(x, target, profiles)'
<1> DEFINE r == RelayResult(x, {}, {}, {}, 0, 0, "quiet")
           new == <<r>>
<1>1. tail.phase = "quiet"
  BY DEF Quiet
<1>2. /\ tail.x = x /\ tail.target = target /\ tail.profiles = profiles /\ target = {}
      /\ tail.results = <<>>
  BY <1>1 DEF TailInv
<1>3. tail' = [tail EXCEPT !.phase = "select", !.results = new]
  BY <1>2 DEF Quiet
<1>4. tail = [phase |-> tail.phase, x |-> tail.x, target |-> tail.target,
              profiles |-> tail.profiles, results |-> tail.results,
              iteration |-> tail.iteration, attempts |-> tail.attempts,
              posterior |-> tail.posterior, messages |-> tail.messages]
  BY <1>1 DEF TailInv
<1>5. r \in Answers(x) /\ r.accepted /\ r.how = "quiet" /\ r.attempts = 0
  <2>1. SyndromeOf(x.image, {}) = {}
    BY SyndromeIsSum, SumOfNone
  <2>2. {} \in SUBSET FaultsOf(x.image) /\ 0 \in Nat /\ "quiet" \in Endings
    BY DEF Endings
  <2> QED
    BY <2>1, <2>2, AnswerType
<1> HIDE DEF r
<1>6. Len(profiles) >= 1 /\ IsProfile(profiles[1])
  <2>1. Len(tail.results) = 0
    BY <1>2
  <2>2. 0 + 1 \in 1 .. Len(profiles) /\ Profile = profiles[0 + 1] /\ IsProfile(Profile)
    BY <1>1, <2>1, ProfileFacts
  <2> QED
    BY <2>2
<1>7. Justified(x, target, profiles[1], r)
  <2>1. PlannedAttempts(profiles[1]) \in Nat
    BY <1>6, PlanCovers
  <2> QED
    BY <1>5, <2>1 DEF Justified
<1>8. new \in Seq(Answers(x)) /\ Len(new) = 1 /\ new # <<>> /\ new[1] = r
  BY <1>5
<1> HIDE DEF new
<1>9. tail' = [phase |-> "select", x |-> tail.x, target |-> tail.target,
               profiles |-> tail.profiles, results |-> new,
               iteration |-> tail.iteration, attempts |-> tail.attempts,
               posterior |-> tail.posterior, messages |-> tail.messages]
  BY <1>3, <1>4
<1>10. /\ tail'.phase = "select" /\ tail'.x = x /\ tail'.target = target
       /\ tail'.profiles = profiles /\ tail'.results = new
  BY <1>2, <1>9
<1>11. tail' = [phase |-> tail'.phase, x |-> tail'.x, target |-> tail'.target,
                profiles |-> tail'.profiles, results |-> tail'.results,
                iteration |-> tail'.iteration, attempts |-> tail'.attempts,
                posterior |-> tail'.posterior, messages |-> tail'.messages]
  BY <1>9
<1>12. \A k \in 1 .. Len(new) : Justified(x, target, profiles[k], new[k])
  BY <1>7, <1>8
<1>13. \A k \in 1 .. Len(new) - 1 : Bridged(new, k)
  BY <1>8
<1>14. Len(new) <= Len(profiles)
  BY <1>6, <1>8
<1> QED
  BY <1>8, <1>10, <1>11, <1>12, <1>13, <1>14 DEF TailInv

LEMMA SelectKeeps ==
  ASSUME NEW x, NEW target, NEW profiles, TailInv(x, target, profiles), SelectAnswer
  PROVE  TailInv(x, target, profiles)'
<1>1. tail.phase = "select"
  BY DEF SelectAnswer
<1>2. /\ tail'.phase = "done" /\ tail'.x = tail.x /\ tail'.target = tail.target
      /\ tail'.profiles = tail.profiles /\ tail'.results = tail.results
      /\ tail'.chosen = Chosen(tail.results)
  BY DEF SelectAnswer
<1> QED
  BY <1>1, <1>2 DEF TailInv

LEMMA TailStarts ==
  ASSUME NEW x, IsTail(x), NEW target, NEW profiles, IsPortfolio(profiles),
         tail = StartTail(x, target, profiles)
  PROVE  TailInv(x, target, profiles)
<1> DEFINE first == FreshImage(x, Head(profiles))
<1>1. tail = [phase |-> IF target = {} THEN "quiet" ELSE "iterate", x |-> x, target |-> target,
              profiles |-> profiles, results |-> <<>>, iteration |-> 0, attempts |-> 0,
              posterior |-> first.posterior, messages |-> first.messages]
  BY DEF StartTail
<1>2. DOMAIN first.posterior = FaultsOf(x.image)
  BY DEF FreshImage, IsTail
<1> HIDE DEF first
<1>3. /\ tail.phase = IF target = {} THEN "quiet" ELSE "iterate"
      /\ tail.x = x /\ tail.target = target /\ tail.profiles = profiles /\ tail.results = <<>>
      /\ tail.iteration = 0 /\ tail.attempts = 0 /\ tail.posterior = first.posterior
      /\ tail.messages = first.messages
  BY <1>1
<1>4. tail = [phase |-> tail.phase, x |-> tail.x, target |-> tail.target,
              profiles |-> tail.profiles, results |-> tail.results,
              iteration |-> tail.iteration, attempts |-> tail.attempts,
              posterior |-> tail.posterior, messages |-> tail.messages]
  BY <1>1
<1>5. Len(profiles) \in Nat /\ Len(profiles) # 0 /\ 1 \in DOMAIN profiles
  <2>1. profiles \in Seq(ToSet(profiles)) /\ profiles # <<>>
    BY DEF IsPortfolio
  <2> QED
    BY <2>1, EmptySeq, LenProperties
<1>6. IsProfile(profiles[1])
  BY <1>5 DEF IsPortfolio
<1>7. <<>> \in Seq(Answers(x)) /\ Len(<<>>) = 0
  OBVIOUS
<1>8. Profile = profiles[1]
  BY <1>3 DEF Profile
<1>9. 0 \in 0 .. Profile.iterations /\ Screened(Profile, 0) = 0
  BY <1>6, <1>8, ScreenedSteps DEF IsProfile
<1>10. CASE target = {}
  BY <1>3, <1>4, <1>5, <1>7, <1>10 DEF TailInv
<1>11. CASE target # {}
  BY <1>2, <1>3, <1>4, <1>5, <1>7, <1>9, <1>11 DEF TailInv
<1> QED
  BY <1>10, <1>11

LEMMA TailStepKeeps ==
  ASSUME NEW x, IsTail(x), NEW target \in SUBSET ChecksOf(x.image), NEW profiles,
         IsPortfolio(profiles), TailInv(x, target, profiles), [TailStep]_tail
  PROVE  TailInv(x, target, profiles)'
<1>1. CASE Iterate
  BY <1>1, IterateKeeps
<1>2. CASE Terminal
  BY <1>2, TerminalKeeps
<1>3. CASE Quiet
  BY <1>3, QuietKeeps
<1>4. CASE SelectAnswer
  BY <1>4, SelectKeeps
<1>5. CASE LegIterate
  <2>1. tail.phase = "leg"
    BY <1>5 DEF LegIterate
  <2> QED
    BY <2>1 DEF TailInv
<1>6. CASE UNCHANGED tail
  BY <1>6 DEF TailInv, Profile
<1> QED
  BY <1>1, <1>2, <1>3, <1>4, <1>5, <1>6 DEF TailStep

LEMMA TailImpliesFinal ==
  ASSUME NEW x, NEW target, NEW profiles, TailInv(x, target, profiles)
  PROVE  DeferralIsFinal
<1>1. /\ tail.x = x /\ tail.target = target /\ tail.profiles = profiles
      /\ tail.results \in Seq(Answers(x))
      /\ \A k \in 1 .. Len(tail.results) : Justified(x, target, profiles[k], tail.results[k])
  BY DEF TailInv
<1>2. DOMAIN tail.results = 1 .. Len(tail.results)
  BY <1>1, LenProperties
<1> SUFFICES ASSUME NEW k \in DOMAIN tail.results
             PROVE  LET r == tail.results[k]
                        word(correction) == LogicalWord(tail.x.masks, correction)
                    IN  /\ ~r.accepted => Residual(tail.x, r.correction) \notin Repairable(tail.x.image)
                        /\ r.how \in {"early", "bridged"} =>
                             r.accepted /\ word(r.correction) = word(SymDiff(r.correction, r.flips))
                        /\ r.attempts <= PlannedAttempts(tail.profiles[k])
                        /\ r.how \in {"bridged", "deferred"} =>
                             r.attempts = PlannedAttempts(tail.profiles[k])
  BY DEF DeferralIsFinal
<1> DEFINE r == tail.results[k]
<1>3. Justified(x, target, profiles[k], r)
  BY <1>1, <1>2
<1>4. Residual(tail.x, r.correction) = SymDiff(SyndromeOf(x.image, r.correction), target)
  BY <1>1 DEF Residual
<1> QED
  BY <1>1, <1>3, <1>4 DEF Justified

\* What the spanning tree or the bridge repairs keeps the logical word, what is
\* deferred is beyond every set of neutral faults, and the completions are those the
\* cycle plan charges: for every template image, target and portfolio.
THEOREM DeferralsAreFinal ==
  ASSUME NEW image, IsTemplate(image), NEW target \in SUBSET Detectors,
         NEW profiles, IsPortfolio(profiles)
  PROVE  TailSpec(Expand(image), target, profiles) => []DeferralIsFinal
<1> DEFINE x == Expand(image)
           Inv == TailInv(x, target, profiles)
<1>1. IsTail(x) /\ target \in SUBSET ChecksOf(x.image)
  BY ExpandIsTail
<1> HIDE DEF x
<1>2. tail = StartTail(x, target, profiles) => Inv
  BY <1>1, TailStarts
<1>3. Inv /\ [TailStep]_tail => Inv'
  BY <1>1, TailStepKeeps
<1>4. Inv => DeferralIsFinal
  BY TailImpliesFinal
<1> HIDE DEF Inv
<1>5. TailSpec(x, target, profiles) => []DeferralIsFinal
  BY <1>2, <1>3, <1>4, PTL DEF TailSpec
<1> QED
  BY <1>5 DEF x

-----------------------------------------------------------------------------
(* The selection.                                                          *)

Kind(r) == IF r.how = "bridged" THEN 1 ELSE 0

\* r is at least as good as q: of a better kind, or of the same and no costlier.
NoWorse(r, q) == Kind(r) < Kind(q) \/ (Kind(r) = Kind(q) /\ r.cost <= q.cost)

LEMMA RankedFacts ==
  ASSUME NEW x, NEW r \in Answers(x), NEW q \in Answers(x)
  PROVE  /\ Ranked(Rank(r), Rank(q)) => NoWorse(r, q)
         /\ ~Ranked(Rank(r), Rank(q)) => NoWorse(q, r)
<1> DEFINE a == Kind(r)
           b == Kind(q)
           c == r.cost
           d == q.cost
           e == Cardinality(r.correction)
           f == Cardinality(q.correction)
<1>1. a \in 0 .. 1 /\ b \in 0 .. 1 /\ c \in Int /\ d \in Int
  BY DEF Kind, Answers
<1>2. Rank(r) = <<a, c, e>> /\ Rank(q) = <<b, d, f>>
  BY DEF Rank, Kind
<1>3. NoWorse(r, q) <=> a < b \/ (a = b /\ c <= d)
  BY DEF NoWorse
<1>4. NoWorse(q, r) <=> b < a \/ (b = a /\ d <= c)
  BY DEF NoWorse
<1> HIDE DEF a, b, c, d, e, f
<1>5. Ranked(<<a, c, e>>, <<b, d, f>>)
        <=> a < b \/ (a = b /\ c < d) \/ (a = b /\ c = d /\ e < f)
  <2> DEFINE p == <<a, c, e>>
             s == <<b, d, f>>
             At(k) == p[k] < s[k] /\ \A j \in 1 .. k - 1 : p[j] = s[j]
  <2>1. 1 .. 3 = {1, 2, 3} /\ 1 .. 1 - 1 = {} /\ 1 .. 2 - 1 = {1} /\ 1 .. 3 - 1 = {1, 2}
    OBVIOUS
  <2>2. p[1] = a /\ p[2] = c /\ p[3] = e /\ s[1] = b /\ s[2] = d /\ s[3] = f
    OBVIOUS
  <2> HIDE DEF p, s
  <2>3. Ranked(p, s) <=> At(1) \/ At(2) \/ At(3)
    BY <2>1 DEF Ranked
  <2>4. (At(1) <=> a < b) /\ (At(2) <=> c < d /\ a = b) /\ (At(3) <=> e < f /\ a = b /\ c = d)
    BY <2>1, <2>2
  <2> QED
    BY <2>3, <2>4 DEF p, s
<1> QED
  BY <1>1, <1>2, <1>3, <1>4, <1>5

\* The order on answers is transitive.
LEMMA NoWorseTransitive ==
  ASSUME NEW x, NEW r \in Answers(x), NEW q \in Answers(x), NEW s \in Answers(x),
         NoWorse(r, q), NoWorse(q, s)
  PROVE  NoWorse(r, s)
<1>1. \A t \in Answers(x) : Kind(t) \in 0 .. 1 /\ t.cost \in Int
  BY DEF Kind, Answers
<1> QED
  BY <1>1 DEF NoWorse

\* One more answer is looked at.
AcceptOne(found, r) == IF r.accepted THEN Append(found, r) ELSE found

\* f runs through what is found.
IsFiltering(f, results) ==
  /\ f[0] = <<>>
  /\ \A i \in 1 .. Len(results) : f[i] = AcceptOne(f[i - 1], results[i])

LEMMA AcceptedByPosition ==
  ASSUME NEW A, NEW results \in Seq(A)
  PROVE  \E f : IsFiltering(f, results) /\ Accepted(results) = f[Len(results)]
<1> DEFINE n == Len(results)
           V == Seq(A)
           b == <<>>
           Step(s, k) == AcceptOne(s, results[k])
           step == [k \in 1 .. n |-> [s \in V |-> Step(s, k)]]
           Rec(h) == [S \in SUBSET (1 .. n) |-> IF S = {} THEN b ELSE Step(h[S \ {Max(S)}], Max(S))]
<1>1. n \in Nat /\ DOMAIN results = 1 .. n /\ \A k \in 1 .. n : results[k] \in A
  BY LenProperties, ElementOfSeq
<1>2. IsStep(step, V, n)
  <2>1. ASSUME NEW k \in 1 .. n, NEW s \in V PROVE Step(s, k) \in V
    <3>1. results[k] \in A
      BY <1>1
    <3>2. Append(s, results[k]) \in Seq(A)
      BY <3>1, AppendProperties
    <3> QED
      BY <3>2 DEF AcceptOne
  <2> HIDE DEF V, Step
  <2> QED
    BY <2>1 DEF IsStep
<1>3. b \in V
  OBVIOUS
<1>4. PICK g : IsFold(g, V, b, n, step)
  <2> HIDE DEF step, n, V, b
  <2> QED
    BY <1>1, <1>2, <1>3, FoldExists
<1>5. g = Rec(g)
  <2>1. g \in [SUBSET (1 .. n) -> V] /\ g[{}] = b
    BY <1>4 DEF IsFold
  <2>2. ASSUME NEW S \in SUBSET (1 .. n), S # {} PROVE g[S] = Step(g[S \ {Max(S)}], Max(S))
    <3>1. Max(S) \in 1 .. n /\ S \ {Max(S)} \in SUBSET (1 .. n)
      BY <1>1, <2>2, MaxOfPositions
    <3>2. g[S] = step[Max(S)][g[S \ {Max(S)}]]
      BY <1>4, <2>2 DEF IsFold
    <3> HIDE DEF V, Step, n
    <3> QED
      BY <3>1, <3>2, <2>1
  <2> HIDE DEF V, Step, n, b
  <2> QED
    BY <2>1, <2>2
<1> DEFINE h == CHOOSE k : k = Rec(k)
<1>6. h = Rec(h)
  BY <1>5
<1>7. Accepted(results) = h[1 .. n]
  <2> DEFINE Raw(k) == [S \in SUBSET DOMAIN results |->
                          IF S = {} THEN <<>>
                          ELSE IF results[Max(S)].accepted
                               THEN Append(k[S \ {Max(S)}], results[Max(S)])
                               ELSE k[S \ {Max(S)}]]
  <2>1. \A k : Raw(k) = Rec(k)
    BY <1>1 DEF AcceptOne
  <2>2. Accepted(results) = (CHOOSE k : k = Raw(k))[DOMAIN results]
    BY DEF Accepted, FoldLeft, MapThenFoldSet
  <2>3. (CHOOSE k : k = Raw(k)) = h
    <3> HIDE DEF Raw, Rec
    <3> QED
      BY <2>1
  <2> HIDE DEF h, Raw
  <2> QED
    BY <1>1, <2>2, <2>3
<1> DEFINE f == [i \in 0 .. n |-> h[1 .. i]]
<1> HIDE DEF h
<1>8. f[0] = b
  <2>1. 1 .. 0 = {}
    OBVIOUS
  <2> HIDE DEF Step
  <2> QED
    BY <2>1, <1>6, <1>1
<1>9. ASSUME NEW i \in 1 .. n PROVE f[i] = Step(f[i - 1], i)
  <2>1. Max(1 .. i) = i /\ 1 .. i \in SUBSET (1 .. n) /\ 1 .. i # {} /\ (1 .. i) \ {i} = 1 .. (i - 1)
    BY <1>1, MaxOfInterval
  <2>2. h[1 .. i] = Step(h[(1 .. i) \ {Max(1 .. i)}], Max(1 .. i))
    <3> HIDE DEF Step, n, b
    <3> QED
      BY <1>6, <2>1
  <2>3. h[1 .. i] = Step(h[1 .. (i - 1)], i)
    BY <2>1, <2>2
  <2>4. i \in 0 .. n /\ i - 1 \in 0 .. n
    BY <1>1
  <2> QED
    BY <2>3, <2>4
<1>10. f[n] = Accepted(results)
  BY <1>1, <1>7
<1> HIDE DEF f
<1>11. IsFiltering(f, results)
  BY <1>8, <1>9 DEF IsFiltering
<1> QED
  BY <1>10, <1>11

\* What is found among the first answers are those that are accepted.
FoundAmong(A, results, found, i) ==
  /\ found \in Seq(A)
  /\ ToSet(found) = {results[k] : k \in {j \in 1 .. i : results[j].accepted}}

LEMMA AcceptedFacts ==
  ASSUME NEW A, NEW results \in Seq(A)
  PROVE  FoundAmong(A, results, Accepted(results), Len(results))
<1> DEFINE n == Len(results)
<1>1. n \in Nat /\ \A k \in 1 .. n : results[k] \in A
  BY LenProperties, ElementOfSeq
<1>2. PICK f : IsFiltering(f, results) /\ Accepted(results) = f[n]
  BY AcceptedByPosition
<1> DEFINE S == {i \in 0 .. n : FoundAmong(A, results, f[i], i)}
<1>3. 0 \in S
  <2>1. f[0] = <<>> /\ <<>> \in Seq(A) /\ ToSet(<<>>) = {} /\ 1 .. 0 = {}
    BY <1>2 DEF IsFiltering, ToSet
  <2>2. {results[k] : k \in {j \in 1 .. 0 : results[j].accepted}} = {}
    BY <2>1
  <2>3. FoundAmong(A, results, f[0], 0)
    BY <2>1, <2>2 DEF FoundAmong
  <2> QED
    BY <1>1, <2>3
<1>4. \A i \in 1 .. n : i - 1 \in S => i \in S
  <2> SUFFICES ASSUME NEW i \in 1 .. n, i - 1 \in S PROVE FoundAmong(A, results, f[i], i)
    BY <1>1
  <2> DEFINE old == f[i - 1]
             r == results[i]
             Kept(m) == {j \in 1 .. m : results[j].accepted}
  <2>1. FoundAmong(A, results, old, i - 1)
    OBVIOUS
  <2>2. f[i] = AcceptOne(old, r) /\ r \in A
    BY <1>1, <1>2 DEF IsFiltering
  <2>3. 1 .. i = (1 .. i - 1) \cup {i}
    BY <1>1
  <2> HIDE DEF old
  <2>4. CASE r.accepted
    <3>1. Append(old, r) \in Seq(A) /\ ToSet(Append(old, r)) = ToSet(old) \cup {r}
      <4>1. /\ old \in Seq(A) /\ Append(old, r) \in Seq(A) /\ Len(old) \in Nat
            /\ DOMAIN old = 1 .. Len(old) /\ DOMAIN Append(old, r) = 1 .. Len(old) + 1
            /\ \A k \in 1 .. Len(old) : Append(old, r)[k] = old[k]
            /\ Append(old, r)[Len(old) + 1] = r
        BY <2>1, <2>2, AppendProperties, LenProperties DEF FoundAmong
      <4> DEFINE s == Append(old, r)
                 m == Len(old)
      <4>2. 1 .. m + 1 = (1 .. m) \cup {m + 1}
        BY <4>1
      <4> HIDE DEF s, m
      <4>3. {s[k] : k \in 1 .. m + 1} = {old[k] : k \in 1 .. m} \cup {r}
        BY <4>1, <4>2 DEF s, m
      <4> QED
        BY <4>1, <4>3 DEF ToSet, s, m
    <3>2. Kept(i) = Kept(i - 1) \cup {i}
      BY <2>3, <2>4
    <3>3. {results[k] : k \in Kept(i)} = {results[k] : k \in Kept(i - 1)} \cup {r}
      <4> HIDE DEF Kept
      <4> QED
        BY <3>2
    <3>4. f[i] = Append(old, r)
      BY <2>2, <2>4 DEF AcceptOne
    <3> QED
      BY <2>1, <3>1, <3>3, <3>4 DEF FoundAmong
  <2>5. CASE ~r.accepted
    <3>1. Kept(i) = Kept(i - 1)
      BY <2>3, <2>5
    <3>2. f[i] = old
      BY <2>2, <2>5 DEF AcceptOne
    <3> QED
      BY <2>1, <3>1, <3>2 DEF FoundAmong
  <2> QED
    BY <2>4, <2>5
<1>5. n \in S
  <2> HIDE DEF S
  <2>1. 0 .. n \subseteq S
    <3> HIDE DEF n
    <3> QED
      BY <1>1, <1>3, <1>4, IntervalInduction
  <2> QED
    BY <1>1, <2>1
<1> QED
  BY <1>2, <1>5

\* One more answer competes.
BetterOf(b, r) == IF Ranked(Rank(r), Rank(b)) THEN r ELSE b

\* f runs through the best so far.
IsContest(f, results) ==
  /\ f[0] = results[1]
  /\ \A i \in 1 .. Len(results) - 1 : f[i] = BetterOf(f[i - 1], results[i + 1])

LEMMA BestByPosition ==
  ASSUME NEW A, NEW results \in Seq(A), results # <<>>
  PROVE  \E f : IsContest(f, results) /\ Best(results) = f[Len(results) - 1]
<1> DEFINE n == Len(results) - 1
           V == A
           b == results[1]
           Step(s, k) == BetterOf(s, results[k + 1])
           step == [k \in 1 .. n |-> [s \in V |-> Step(s, k)]]
           Rec(h) == [S \in SUBSET (1 .. n) |-> IF S = {} THEN b ELSE Step(h[S \ {Max(S)}], Max(S))]
<1>1. /\ n \in Nat /\ b \in A /\ \A k \in 1 .. n : results[k + 1] \in A
      /\ Head(results) = b /\ DOMAIN Tail(results) = 1 .. n
      /\ \A k \in 1 .. n : Tail(results)[k] = results[k + 1]
  <2>1. Len(results) \in Nat \ {0} /\ \A k \in 1 .. Len(results) : results[k] \in A
    BY LenProperties, ElementOfSeq, EmptySeq
  <2>2. Head(results) = b
    OBVIOUS
  <2>3. Tail(results) \in Seq(A) /\ Len(Tail(results)) = n
    BY HeadTailProperties
  <2>4. \A k \in 1 .. n : Tail(results)[k] = results[k + 1]
    BY <2>3, HeadTailProperties
  <2>5. DOMAIN Tail(results) = 1 .. n
    BY <2>3, LenProperties
  <2>6. n \in Nat /\ 1 \in 1 .. Len(results) /\ \A k \in 1 .. n : k + 1 \in 1 .. Len(results)
    BY <2>1
  <2> QED
    BY <2>1, <2>2, <2>4, <2>5, <2>6
<1>2. IsStep(step, V, n)
  <2>1. ASSUME NEW k \in 1 .. n, NEW s \in V PROVE Step(s, k) \in V
    BY <1>1, <2>1 DEF BetterOf
  <2> HIDE DEF V, Step
  <2> QED
    BY <2>1 DEF IsStep
<1>3. b \in V
  OBVIOUS
<1>4. PICK g : IsFold(g, V, b, n, step)
  <2> HIDE DEF step, n, V, b
  <2> QED
    BY <1>1, <1>2, <1>3, FoldExists
<1>5. g = Rec(g)
  <2>1. g \in [SUBSET (1 .. n) -> V] /\ g[{}] = b
    BY <1>4 DEF IsFold
  <2>2. ASSUME NEW S \in SUBSET (1 .. n), S # {} PROVE g[S] = Step(g[S \ {Max(S)}], Max(S))
    <3>1. Max(S) \in 1 .. n /\ S \ {Max(S)} \in SUBSET (1 .. n)
      BY <1>1, <2>2, MaxOfPositions
    <3>2. g[S] = step[Max(S)][g[S \ {Max(S)}]]
      BY <1>4, <2>2 DEF IsFold
    <3> HIDE DEF V, Step, n
    <3> QED
      BY <3>1, <3>2, <2>1
  <2> HIDE DEF V, Step, n, b
  <2> QED
    BY <2>1, <2>2
<1> DEFINE h == CHOOSE k : k = Rec(k)
<1>6. h = Rec(h)
  BY <1>5
<1>7. Best(results) = h[1 .. n]
  <2> DEFINE Raw(k) == [S \in SUBSET DOMAIN Tail(results) |->
                          IF S = {} THEN Head(results)
                          ELSE IF Ranked(Rank(Tail(results)[Max(S)]), Rank(k[S \ {Max(S)}]))
                               THEN Tail(results)[Max(S)] ELSE k[S \ {Max(S)}]]
  <2>1. \A k : Raw(k) = Rec(k)
    <3>1. \A S \in SUBSET (1 .. n) : S # {} => Tail(results)[Max(S)] = results[Max(S) + 1]
      BY <1>1, MaxOfPositions
    <3> QED
      BY <1>1, <3>1 DEF BetterOf
  <2>2. Best(results) = (CHOOSE k : k = Raw(k))[DOMAIN Tail(results)]
    BY DEF Best, FoldLeft, MapThenFoldSet
  <2>3. (CHOOSE k : k = Raw(k)) = h
    <3> HIDE DEF Raw, Rec
    <3> QED
      BY <2>1
  <2> HIDE DEF h, Raw
  <2> QED
    BY <1>1, <2>2, <2>3
<1> DEFINE f == [i \in 0 .. n |-> h[1 .. i]]
<1> HIDE DEF h
<1>8. f[0] = b
  <2>1. 1 .. 0 = {}
    OBVIOUS
  <2> HIDE DEF Step
  <2> QED
    BY <2>1, <1>6, <1>1
<1>9. ASSUME NEW i \in 1 .. n PROVE f[i] = Step(f[i - 1], i)
  <2>1. Max(1 .. i) = i /\ 1 .. i \in SUBSET (1 .. n) /\ 1 .. i # {} /\ (1 .. i) \ {i} = 1 .. (i - 1)
    BY <1>1, MaxOfInterval
  <2>2. h[1 .. i] = Step(h[(1 .. i) \ {Max(1 .. i)}], Max(1 .. i))
    <3> HIDE DEF Step, n, b
    <3> QED
      BY <1>6, <2>1
  <2>3. h[1 .. i] = Step(h[1 .. (i - 1)], i)
    BY <2>1, <2>2
  <2>4. i \in 0 .. n /\ i - 1 \in 0 .. n
    BY <1>1
  <2> QED
    BY <2>3, <2>4
<1>10. f[n] = Best(results)
  BY <1>1, <1>7
<1> HIDE DEF f
<1>11. IsContest(f, results)
  BY <1>8, <1>9 DEF IsContest
<1> QED
  BY <1>10, <1>11

\* b is one of the first answers and no worse than any of them.
Leads(x, results, b, i) ==
  /\ b \in Answers(x)
  /\ \E k \in 1 .. i + 1 : b = results[k]
  /\ \A k \in 1 .. i + 1 : NoWorse(b, results[k])

LEMMA BestFacts ==
  ASSUME NEW x, NEW results \in Seq(Answers(x)), results # <<>>
  PROVE  Leads(x, results, Best(results), Len(results) - 1)
<1> DEFINE n == Len(results) - 1
<1>1. n \in Nat /\ \A k \in 1 .. n + 1 : results[k] \in Answers(x)
  <2>1. Len(results) \in Nat \ {0} /\ \A k \in 1 .. Len(results) : results[k] \in Answers(x)
    BY LenProperties, ElementOfSeq, EmptySeq
  <2>2. n + 1 = Len(results)
    BY <2>1
  <2> QED
    BY <2>1, <2>2
<1>2. PICK f : IsContest(f, results) /\ Best(results) = f[n]
  BY BestByPosition
<1>3. f[0] = results[1] /\ \A i \in 1 .. n : f[i] = BetterOf(f[i - 1], results[i + 1])
  BY <1>2 DEF IsContest
<1> HIDE DEF n
<1> DEFINE S == {i \in 0 .. n : Leads(x, results, f[i], i)}
<1>4. 0 \in S
  <2>1. 1 .. 0 + 1 = {1} /\ 1 \in 1 .. n + 1
    BY <1>1
  <2>2. NoWorse(results[1], results[1])
    <3>1. results[1] \in Answers(x)
      BY <1>1, <2>1
    <3>2. Kind(results[1]) = Kind(results[1]) /\ results[1].cost \in Int
      BY <3>1 DEF Answers
    <3> QED
      BY <3>2 DEF NoWorse
  <2>3. Leads(x, results, f[0], 0)
    BY <1>1, <1>3, <2>1, <2>2 DEF Leads
  <2> QED
    BY <1>1, <2>3
<1>5. \A i \in 1 .. n : i - 1 \in S => i \in S
  <2> SUFFICES ASSUME NEW i \in 1 .. n, i - 1 \in S PROVE Leads(x, results, f[i], i)
    BY <1>1
  <2> DEFINE b == f[i - 1]
             r == results[i + 1]
  <2>1. /\ b \in Answers(x) /\ r \in Answers(x) /\ f[i] = BetterOf(b, r)
        /\ \E k \in 1 .. i - 1 + 1 : b = results[k]
        /\ \A k \in 1 .. i - 1 + 1 : NoWorse(b, results[k])
    <3>1. i + 1 \in 1 .. n + 1
      BY <1>1
    <3>2. Leads(x, results, b, i - 1)
      OBVIOUS
    <3> HIDE DEF b
    <3> QED
      BY <1>1, <1>3, <3>1, <3>2 DEF Leads, b
  <2>2. i - 1 + 1 = i /\ 1 .. i + 1 = (1 .. i) \cup {i + 1} /\ i \in 1 .. n
    BY <1>1
  <2>3. \A k \in 1 .. i : results[k] \in Answers(x) /\ NoWorse(b, results[k])
    <3>1. \A k \in 1 .. i : k \in 1 .. n + 1
      BY <1>1
    <3> QED
      BY <1>1, <2>1, <2>2, <3>1
  <2>4. \E k \in 1 .. i : b = results[k]
    BY <2>1, <2>2
  <2> HIDE DEF b
  <2>5. CASE Ranked(Rank(r), Rank(b))
    <3>1. f[i] = r /\ NoWorse(r, b)
      BY <2>1, <2>5, RankedFacts DEF BetterOf
    <3>2. \A k \in 1 .. i : NoWorse(r, results[k])
      BY <2>1, <2>3, <3>1, NoWorseTransitive
    <3>3. NoWorse(r, r)
      <4>1. r.cost \in Int
        BY <2>1 DEF Answers
      <4> HIDE DEF r
      <4> QED
        BY <4>1 DEF NoWorse
    <3>4. \A k \in 1 .. i + 1 : NoWorse(r, results[k])
      BY <2>2, <3>2, <3>3
    <3>5. i + 1 \in 1 .. i + 1
      BY <2>2
    <3> QED
      BY <2>1, <3>1, <3>4, <3>5 DEF Leads
  <2>6. CASE ~Ranked(Rank(r), Rank(b))
    <3>1. f[i] = b /\ NoWorse(b, r)
      BY <2>1, <2>6, RankedFacts DEF BetterOf
    <3>2. \A k \in 1 .. i + 1 : NoWorse(b, results[k])
      BY <2>2, <2>3, <3>1
    <3>3. \E k \in 1 .. i + 1 : b = results[k]
      BY <2>2, <2>4
    <3> QED
      BY <2>1, <3>1, <3>2, <3>3 DEF Leads
  <2> QED
    BY <2>5, <2>6
<1>6. n \in S
  <2> HIDE DEF S
  <2>1. 0 .. n \subseteq S
    BY <1>1, <1>4, <1>5, IntervalInduction
  <2> QED
    BY <1>1, <2>1
<1> QED
  BY <1>2, <1>6 DEF n

\* The selection, when more than one image ran and one of them was accepted: an
\* accepted answer that is no worse than any accepted answer.
LEMMA ChosenFacts ==
  ASSUME NEW x, NEW results \in Seq(Answers(x)), results # <<>>
  PROVE  \/ Chosen(results) = results[1] /\ Len(results) = 1
         \/ /\ Chosen(results) = results[1]
            /\ \A k \in 1 .. Len(results) : ~results[k].accepted
         \/ /\ Chosen(results) \in Answers(x) /\ Chosen(results).accepted
            /\ \A k \in 1 .. Len(results) :
                 results[k].accepted => NoWorse(Chosen(results), results[k])
<1> DEFINE found == Accepted(results)
           n == Len(results)
<1>1. found \in Seq(Answers(x)) /\ ToSet(found) = {results[k] : k \in {j \in 1 .. n : results[j].accepted}}
  BY AcceptedFacts DEF FoundAmong
<1>2. Head(results) = results[1]
  OBVIOUS
<1>3. Chosen(results) = IF n = 1 \/ found = <<>> THEN results[1] ELSE Best(found)
  BY <1>2 DEF Chosen
<1> HIDE DEF found
<1>4. /\ DOMAIN found = 1 .. Len(found) /\ Len(found) \in Nat
      /\ ToSet(found) = {found[k] : k \in 1 .. Len(found)}
  <2>1. DOMAIN found = 1 .. Len(found) /\ Len(found) \in Nat
    BY <1>1, LenProperties
  <2> QED
    BY <2>1 DEF ToSet
<1>5. CASE n = 1
  BY <1>3, <1>5
<1>6. CASE n # 1 /\ found = <<>>
  <2>1. ToSet(found) = {}
    BY <1>6 DEF ToSet
  <2>2. \A k \in 1 .. n : ~results[k].accepted
    BY <1>1, <2>1
  <2> QED
    BY <1>3, <1>6, <2>2
<1>7. CASE n # 1 /\ found # <<>>
  <2> DEFINE best == Best(found)
             m == Len(found)
  <2>1. Leads(x, found, best, m - 1) /\ m - 1 + 1 = m
    BY <1>1, <1>4, <1>7, BestFacts
  <2>2. best \in Answers(x) /\ (\E k \in 1 .. m : best = found[k]) /\ \A k \in 1 .. m : NoWorse(best, found[k])
    <3> HIDE DEF best, m
    <3> QED
      BY <2>1 DEF Leads
  <2> HIDE DEF best
  <2>3. best \in ToSet(found) /\ \A r \in ToSet(found) : NoWorse(best, r)
    BY <1>4, <2>2
  <2>4. best.accepted
    BY <1>1, <2>3
  <2>5. \A k \in 1 .. n : results[k].accepted => NoWorse(best, results[k])
    BY <1>1, <2>3
  <2>6. Chosen(results) = best
    BY <1>3, <1>7 DEF best
  <2> QED
    BY <2>2, <2>4, <2>5, <2>6
<1> QED
  BY <1>5, <1>6, <1>7

LEMMA TailImpliesBest ==
  ASSUME NEW x, NEW target, NEW profiles, TailInv(x, target, profiles)
  PROVE  RetriesNeverRegress
<1> SUFFICES ASSUME tail.phase = "done"
             PROVE  LET primary == Head(tail.results)
                        bridged(r) == r.how = "bridged"
                    IN  /\ tail.chosen.accepted = primary.accepted
                        /\ bridged(tail.chosen) => \A k \in DOMAIN tail.results :
                                                     tail.results[k].accepted => bridged(tail.results[k])
                        /\ (bridged(tail.chosen) = bridged(primary)) => tail.chosen.cost <= primary.cost
  BY DEF RetriesNeverRegress
<1> DEFINE results == tail.results
           n == Len(results)
           primary == results[1]
           chosen == tail.chosen
           bridged(r) == r.how = "bridged"
<1>1. /\ results \in Seq(Answers(x)) /\ results # <<>> /\ chosen = Chosen(results)
      /\ \A k \in 1 .. n - 1 : Bridged(results, k)
      /\ \A k \in 1 .. n : Justified(x, target, profiles[k], results[k])
  BY DEF TailInv
<1>2. /\ n \in Nat \ {0} /\ DOMAIN results = 1 .. n /\ Head(results) = primary
      /\ \A k \in 1 .. n : results[k] \in Answers(x)
  BY <1>1, LenProperties, ElementOfSeq, EmptySeq
<1>3. /\ \A k \in 1 .. n : results[k].accepted \in BOOLEAN /\ results[k].cost \in Int
      /\ primary \in Answers(x)
  BY <1>2 DEF Answers
<1>4. primary.cost <= primary.cost
  <2>1. primary.cost \in Int
    BY <1>2, <1>3
  <2> QED
    BY <2>1
<1>5. n # 1 => primary.accepted
  <2> SUFFICES ASSUME n # 1 PROVE primary.accepted
    OBVIOUS
  <2>1. 1 \in 1 .. n - 1 /\ 1 \in 1 .. n
    <3> HIDE DEF n
    <3> QED
      BY <1>2
  <2>2. primary.how = "bridged"
    BY <1>1, <2>1 DEF Bridged
  <2>3. Justified(x, target, profiles[1], primary)
    BY <1>1, <2>1
  <2> QED
    BY <2>2, <2>3 DEF Justified
<1>6. CASE chosen = primary /\ n = 1
  <2>1. \A k \in 1 .. n : results[k] = chosen
    BY <1>2, <1>6
  <2> QED
    BY <1>2, <1>4, <1>6, <2>1
<1>7. CASE chosen = primary /\ \A k \in 1 .. n : ~results[k].accepted
  BY <1>2, <1>4, <1>7
<1>8. CASE /\ chosen \in Answers(x) /\ chosen.accepted
           /\ \A k \in 1 .. n : results[k].accepted => NoWorse(chosen, results[k])
  <2>1. CASE n = 1
    <3>1. chosen = primary
      BY <1>1, <1>2, <2>1 DEF Chosen
    <3> QED
      BY <1>6, <2>1, <3>1
  <2>2. CASE n # 1
    <3>1. primary.accepted /\ 1 \in 1 .. n
      BY <1>2, <1>5, <2>2
    <3>2. NoWorse(chosen, primary)
      BY <1>8, <3>1
    <3>3. chosen.accepted = primary.accepted
      <4>1. chosen.accepted \in BOOLEAN
        BY <1>8 DEF Answers
      <4> QED
        BY <1>3, <1>8, <3>1, <4>1
    <3>4. bridged(chosen) => \A k \in 1 .. n : results[k].accepted => bridged(results[k])
      <4> SUFFICES ASSUME chosen.how = "bridged", NEW k \in 1 .. n, results[k].accepted
                   PROVE  results[k].how = "bridged"
        OBVIOUS
      <4>1. NoWorse(chosen, results[k])
        BY <1>8
      <4>2. Kind(chosen) = 1 /\ Kind(results[k]) \in {0, 1}
        BY DEF Kind
      <4>3. Kind(results[k]) = 1
        BY <4>1, <4>2 DEF NoWorse
      <4> QED
        BY <4>3 DEF Kind
    <3>5. bridged(chosen) = bridged(primary) => chosen.cost <= primary.cost
      <4> SUFFICES ASSUME (chosen.how = "bridged") = (primary.how = "bridged")
                   PROVE  chosen.cost <= primary.cost
        OBVIOUS
      <4>1. Kind(chosen) = Kind(primary) /\ Kind(chosen) \in {0, 1}
        BY DEF Kind
      <4> QED
        BY <3>2, <4>1 DEF NoWorse
    <3> QED
      BY <1>2, <3>3, <3>4, <3>5
  <2> QED
    BY <2>1, <2>2
<1> QED
  <2>1. \/ chosen = primary /\ n = 1
        \/ chosen = primary /\ \A k \in 1 .. n : ~results[k].accepted
        \/ /\ chosen \in Answers(x) /\ chosen.accepted
           /\ \A k \in 1 .. n : results[k].accepted => NoWorse(chosen, results[k])
    BY <1>1, ChosenFacts
  <2> QED
    BY <1>6, <1>7, <1>8, <2>1

\* The portfolio answers when its primary image does and never with a worse word, for
\* every template image, target and portfolio.
THEOREM RetriesAreSafe ==
  ASSUME NEW image, IsTemplate(image), NEW target \in SUBSET Detectors,
         NEW profiles, IsPortfolio(profiles)
  PROVE  TailSpec(Expand(image), target, profiles) => []RetriesNeverRegress
<1> DEFINE x == Expand(image)
           Inv == TailInv(x, target, profiles)
<1>1. IsTail(x) /\ target \in SUBSET ChecksOf(x.image)
  BY ExpandIsTail
<1> HIDE DEF x
<1>2. tail = StartTail(x, target, profiles) => Inv
  BY <1>1, TailStarts
<1>3. Inv /\ [TailStep]_tail => Inv'
  BY <1>1, TailStepKeeps
<1>4. Inv => RetriesNeverRegress
  BY TailImpliesBest
<1> HIDE DEF Inv
<1>5. TailSpec(x, target, profiles) => []RetriesNeverRegress
  BY <1>2, <1>3, <1>4, PTL DEF TailSpec
<1> QED
  BY <1>5 DEF x

-----------------------------------------------------------------------------
(* Edges and exchanges of a GARI image.                                    *)

\* The edges of some rows.
EdgeSet(rows) == {p \in Nat \X Nat : p[1] \in DOMAIN rows /\ p[2] \in DOMAIN rows[p[1]]}

LEMMA EdgesFacts ==
  ASSUME NEW V, NEW rows \in Seq(Seq(V)), NEW checks
  PROVE  /\ Edges(rows, checks) \in Seq(EdgeSet(rows)) /\ IsInjective(Edges(rows, checks))
         /\ ToSet(Edges(rows, checks)) = {p \in EdgeSet(rows) : p[1] \in checks}
<1> DEFINE E == EdgeSet(rows)
           n == Len(rows)
           part == [c \in 1..n |->
                      IF c \in checks THEN [e \in 1..Len(rows[c]) |-> <<c, e>>] ELSE <<>>]
<1>1. n \in Nat /\ DOMAIN rows = 1..n /\ 1..n \subseteq Nat
  OBVIOUS
<1>2. \A c \in 1..n : Len(rows[c]) \in Nat /\ DOMAIN rows[c] = 1..Len(rows[c])
  OBVIOUS
<1>3. ASSUME NEW c \in 1..n
      PROVE  /\ part[c] \in Seq(E) /\ IsInjective(part[c])
             /\ ToSet(part[c]) = {p \in E : p[1] = c /\ c \in checks}
  <2> DEFINE m == Len(rows[c])
             s == [e \in 1..m |-> <<c, e>>]
  <2>1. m \in Nat /\ DOMAIN rows[c] = 1..m /\ c \in Nat /\ 1..m \subseteq Nat
    BY <1>1, <1>2
  <2>2. \A e \in 1..m : <<c, e>> \in E
    BY <1>1, <2>1 DEF EdgeSet
  <2>3. \A p \in E : p[1] = c => p[2] \in 1..m /\ p = <<c, p[2]>>
    BY <2>1 DEF EdgeSet
  <2>4. \A e \in 1..m : <<c, e>>[1] = c
    OBVIOUS
  <2>5. \A d, e \in 1..m : <<c, d>> = <<c, e>> => d = e
    OBVIOUS
  <2> HIDE DEF m, E
  <2>6. s \in Seq(E) /\ DOMAIN s = 1..m /\ \A e \in 1..m : s[e] = <<c, e>>
    BY <2>1, <2>2
  <2> HIDE DEF s
  <2>7. IsInjective(s)
    BY <2>5, <2>6 DEF IsInjective
  <2>8. ToSet(s) = {p \in E : p[1] = c}
    <3>1. ASSUME NEW p \in ToSet(s) PROVE p \in E /\ p[1] = c
      <4>1. PICK e \in 1..m : p = <<c, e>>
        BY <2>6 DEF ToSet
      <4> QED
        BY <4>1, <2>2, <2>4
    <3>2. ASSUME NEW p \in E, p[1] = c PROVE p \in ToSet(s)
      <4>1. p[2] \in 1..m /\ p = <<c, p[2]>>
        BY <2>3, <3>2
      <4>2. s[p[2]] = p
        BY <4>1, <2>6
      <4> QED
        BY <4>1, <4>2, <2>6 DEF ToSet
    <3> QED
      BY <3>1, <3>2
  <2>9. <<>> \in Seq(E) /\ IsInjective(<<>>) /\ ToSet(<<>>) = {}
    BY DEF IsInjective, ToSet
  <2>10. part[c] = IF c \in checks THEN s ELSE <<>>
    BY DEF s, m
  <2> HIDE DEF part
  <2> QED
    BY <2>6, <2>7, <2>8, <2>9, <2>10
<1>4. part \in Seq(Seq(E)) /\ Len(part) = n
  <2> HIDE DEF E, n
  <2>1. \A c \in 1..n : part[c] \in Seq(E)
    BY <1>3
  <2>2. DOMAIN part = 1..n
    OBVIOUS
  <2>3. part = [c \in 1..n |-> part[c]]
    OBVIOUS
  <2> DEFINE W == Seq(E)
  <2>4. \A c \in 1..n : part[c] \in W
    BY <2>1
  <2> HIDE DEF W, part
  <2>5. part \in Seq(W) /\ Len(part) = n
    <3>1. n \in Nat
      BY <1>1
    <3>2. part \in [1..n -> W]
      BY <2>3, <2>4
    <3> QED
      BY <3>1, <3>2
  <2> QED
    BY <2>5 DEF W
<1>5. Edges(rows, checks) = FlattenSeq(part)
  BY DEF Edges
<1> HIDE DEF part, E
<1>6. \A c, d \in 1..n : c # d => ToSet(part[c]) \cap ToSet(part[d]) = {}
  BY <1>3
<1>7. IsInjective(FlattenSeq(part))
  <2>1. \A c \in 1..Len(part) : IsInjective(part[c])
    BY <1>3, <1>4
  <2>2. \A c, d \in 1..Len(part) : c # d => ToSet(part[c]) \cap ToSet(part[d]) = {}
    BY <1>4, <1>6
  <2> QED
    BY <1>4, <2>1, <2>2, FlattenedInjective
<1>8. /\ FlattenSeq(part) \in Seq(E)
      /\ ToSet(FlattenSeq(part)) = UNION {ToSet(part[c]) : c \in 1..n}
  BY <1>4, FlattenedSet
<1>9. UNION {ToSet(part[c]) : c \in 1..n} = {p \in E : p[1] \in checks}
  <2>1. \A p \in E : p[1] \in 1..n
    BY <1>1 DEF E, EdgeSet
  <2> HIDE DEF n
  <2> QED
    BY <1>3, <2>1
<1> QED
  BY <1>5, <1>7, <1>8, <1>9 DEF E

\* The exchanges pair every auxiliary edge with every main edge of its variable, once.
PairsOf(rows, types) ==
  {p \in EdgeSet(rows) \X EdgeSet(rows) :
     /\ Auxiliary(types, p[1][1]) /\ ~Auxiliary(types, p[2][1])
     /\ rows[p[1][1]][p[1][2]] = rows[p[2][1]][p[2][2]]}

LEMMA ExchangesFacts ==
  ASSUME NEW V, NEW rows \in Seq(Seq(V)), NEW types
  PROVE  /\ IsInjective(Exchanges(rows, types))
         /\ ToSet(Exchanges(rows, types)) = PairsOf(rows, types)
<1> DEFINE E == EdgeSet(rows)
           aux == {c \in DOMAIN rows : Auxiliary(types, c)}
           others == {c \in DOMAIN rows : ~Auxiliary(types, c)}
           tags == Edges(rows, aux)
           main == Edges(rows, others)
           at(edge) == rows[edge[1]][edge[2]]
           values == [k \in DOMAIN main |-> at(main[k])]
           same(k) == Positions(values, {at(tags[k])})
           part == [k \in DOMAIN tags |-> [n \in DOMAIN same(k) |-> <<tags[k], main[same(k)[n]]>>]]
<1>1. /\ tags \in Seq(E) /\ IsInjective(tags)
      /\ ToSet(tags) = {p \in E : Auxiliary(types, p[1])}
  <2>1. \A p \in E : p[1] \in DOMAIN rows
    BY DEF EdgeSet
  <2>2. {p \in E : p[1] \in aux} = {p \in E : Auxiliary(types, p[1])}
    BY <2>1
  <2> HIDE DEF aux
  <2> QED
    BY <2>2, EdgesFacts
<1>2. /\ main \in Seq(E) /\ IsInjective(main)
      /\ ToSet(main) = {p \in E : ~Auxiliary(types, p[1])}
  <2>1. \A p \in E : p[1] \in DOMAIN rows
    BY DEF EdgeSet
  <2>2. {p \in E : p[1] \in others} = {p \in E : ~Auxiliary(types, p[1])}
    BY <2>1
  <2> HIDE DEF others
  <2> QED
    BY <2>2, EdgesFacts
<1>3. \A p \in E : at(p) \in V
  <2>1. ASSUME NEW p \in E PROVE at(p) \in V
    <3>1. p[1] \in DOMAIN rows /\ p[2] \in DOMAIN rows[p[1]]
      BY DEF EdgeSet
    <3>2. rows[p[1]] \in Seq(V)
      BY <3>1
    <3> QED
      BY <3>1, <3>2
  <2> QED
    BY <2>1
<1>4. Exchanges(rows, types) = FlattenSeq(part)
  BY DEF Exchanges
<1> HIDE DEF tags, main, E, at
<1> DEFINE P == E \X E
           m == Len(main)
<1>5. values \in Seq(V) /\ Len(values) = m /\ m \in Nat /\ DOMAIN main = 1..m
      /\ \A k \in 1..m : main[k] \in E /\ values[k] = at(main[k])
  <2>1. m \in Nat /\ DOMAIN main = 1..m /\ \A k \in 1..m : main[k] \in E
    BY <1>2
  <2>2. DOMAIN values = 1..m /\ \A k \in 1..m : values[k] = at(main[k])
    BY <2>1
  <2>3. \A k \in 1..m : values[k] \in V
    BY <1>3, <2>1, <2>2
  <2>4. values = [k \in 1..m |-> values[k]]
    BY <2>1
  <2> HIDE DEF values, m
  <2>5. values \in Seq(V) /\ Len(values) = m
    BY <2>1, <2>2, <2>3, <2>4
  <2> QED
    BY <2>1, <2>2, <2>5
<1> HIDE DEF values
<1>6. ASSUME NEW k \in 1..Len(tags)
      PROVE  /\ part[k] \in Seq(P) /\ IsInjective(part[k])
             /\ ToSet(part[k]) = {p \in P : p[1] = tags[k] /\ p[2] \in ToSet(main) /\ at(p[2]) = at(tags[k])}
  <2> DEFINE q == Positions(values, {at(tags[k])})
             s == [n \in DOMAIN q |-> <<tags[k], main[q[n]]>>]
  <2>1. k \in DOMAIN tags /\ tags[k] \in E
    BY <1>1
  <2>2. part[k] = s
    BY <2>1
  <2>3. q \in Seq(1..m) /\ IsInjective(q) /\ ToSet(q) = {j \in 1..m : values[j] \in {at(tags[k])}}
    BY <1>5, PositionsFacts
  <2> HIDE DEF q, part, m
  <2>4. DOMAIN q = 1..Len(q) /\ Len(q) \in Nat /\ \A n \in 1..Len(q) : q[n] \in 1..m
    <3> DEFINE M == 1..m
    <3>1. q \in Seq(M)
      BY <2>3
    <3> HIDE DEF M
    <3>2. DOMAIN q = 1..Len(q) /\ Len(q) \in Nat /\ \A n \in 1..Len(q) : q[n] \in M
      BY <3>1
    <3> QED
      BY <3>2 DEF M
  <2>5. \A n \in 1..Len(q) : main[q[n]] \in E /\ <<tags[k], main[q[n]]>> \in P
    BY <1>5, <2>1, <2>4
  <2> HIDE DEF P
  <2>6. s \in Seq(P) /\ DOMAIN s = 1..Len(q) /\ \A n \in 1..Len(q) : s[n] = <<tags[k], main[q[n]]>>
    BY <2>4, <2>5
  <2> HIDE DEF s
  <2>7. IsInjective(s)
    <3>1. ASSUME NEW i \in 1..Len(q), NEW j \in 1..Len(q), s[i] = s[j] PROVE i = j
      <4>1. main[q[i]] = main[q[j]]
        BY <2>6, <3>1
      <4>2. q[i] = q[j]
        BY <4>1, <2>4, <1>2, <1>5 DEF IsInjective
      <4> QED
        BY <4>2, <2>3, <2>4 DEF IsInjective
    <3> QED
      BY <2>6, <3>1 DEF IsInjective
  <2>8. ASSUME NEW p \in ToSet(s)
        PROVE  p \in P /\ p[1] = tags[k] /\ p[2] \in ToSet(main) /\ at(p[2]) = at(tags[k])
    <3>1. PICK n \in 1..Len(q) : p = <<tags[k], main[q[n]]>>
      BY <2>6 DEF ToSet
    <3>2. q[n] \in ToSet(q)
      BY <2>4 DEF ToSet
    <3>3. values[q[n]] = at(tags[k]) /\ q[n] \in 1..m
      BY <3>2, <2>3
    <3>4. main[q[n]] \in ToSet(main) /\ at(main[q[n]]) = at(tags[k])
      BY <3>3, <1>5 DEF ToSet
    <3>5. p \in P /\ p[1] = tags[k] /\ p[2] = main[q[n]]
      BY <3>1, <2>5
    <3> QED
      BY <3>4, <3>5
  <2>9. ASSUME NEW p \in P, p[1] = tags[k], p[2] \in ToSet(main), at(p[2]) = at(tags[k])
        PROVE  p \in ToSet(s)
    <3>1. PICK j \in 1..m : main[j] = p[2]
      BY <2>9, <1>5 DEF ToSet
    <3>2. j \in ToSet(q)
      BY <3>1, <2>3, <2>9, <1>5
    <3>3. PICK n \in 1..Len(q) : q[n] = j
      BY <3>2, <2>4 DEF ToSet
    <3>4. p = <<p[1], p[2]>>
      BY DEF P
    <3> QED
      BY <3>1, <3>3, <3>4, <2>6, <2>9 DEF ToSet
  <2> QED
    BY <2>2, <2>6, <2>7, <2>8, <2>9
<1>7. part \in Seq(Seq(P)) /\ Len(part) = Len(tags) /\ Len(tags) \in Nat
  <2>1. Len(tags) \in Nat /\ DOMAIN tags = 1..Len(tags)
    BY <1>1
  <2>2. DOMAIN part = 1..Len(tags) /\ part = [k \in 1..Len(tags) |-> part[k]]
    BY <2>1
  <2>3. \A k \in 1..Len(tags) : part[k] \in Seq(P)
    BY <1>6
  <2> DEFINE W == Seq(P)
  <2>4. \A k \in 1..Len(tags) : part[k] \in W
    BY <2>3
  <2> HIDE DEF W, part, P
  <2>5. part \in Seq(W) /\ Len(part) = Len(tags)
    BY <2>1, <2>2, <2>4
  <2> QED
    BY <2>1, <2>5 DEF W
<1> HIDE DEF part
<1>8. IsInjective(FlattenSeq(part))
  <2>1. \A k \in 1..Len(part) : IsInjective(part[k])
    BY <1>6, <1>7
  <2>2. ASSUME NEW i \in 1..Len(part), NEW j \in 1..Len(part), i # j
        PROVE  ToSet(part[i]) \cap ToSet(part[j]) = {}
    <3>1. tags[i] # tags[j]
      <4>1. DOMAIN tags = 1..Len(tags) /\ i \in 1..Len(tags) /\ j \in 1..Len(tags)
        BY <1>1, <1>7
      <4> QED
        BY <4>1, <2>2, <1>1 DEF IsInjective
    <3> QED
      BY <3>1, <1>6, <1>7
  <2> HIDE DEF P
  <2> QED
    BY <1>7, <2>1, <2>2, FlattenedInjective
<1>9. ToSet(FlattenSeq(part)) = UNION {ToSet(part[k]) : k \in 1..Len(tags)}
  BY <1>7, FlattenedSet
<1>10. UNION {ToSet(part[k]) : k \in 1..Len(tags)} = PairsOf(rows, types)
  <2>1. PairsOf(rows, types) = {p \in P : p[1] \in ToSet(tags) /\ p[2] \in ToSet(main) /\ at(p[2]) = at(p[1])}
    <3>1. \A p \in P : p[1] \in E /\ p[2] \in E
      OBVIOUS
    <3> QED
      BY <3>1, <1>1, <1>2 DEF PairsOf, E, at
  <2>2. ToSet(tags) = {tags[k] : k \in 1..Len(tags)}
    <3>1. DOMAIN tags = 1..Len(tags)
      BY <1>1
    <3> QED
      BY <3>1 DEF ToSet
  <2> HIDE DEF P
  <2>3. \A p \in PairsOf(rows, types) : \E k \in 1..Len(tags) : p \in ToSet(part[k])
    BY <1>6, <2>1, <2>2
  <2>4. \A k \in 1..Len(tags) : tags[k] \in ToSet(tags)
    BY <2>2
  <2>5. \A k \in 1..Len(tags) : \A p \in ToSet(part[k]) : p \in PairsOf(rows, types)
    BY <1>6, <2>1, <2>4
  <2> QED
    BY <2>3, <2>5
<1> QED
  BY <1>4, <1>8, <1>9, <1>10
-----------------------------------------------------------------------------
(* The order of a GARI sweep.                                              *)

\* A check has been added behind all that were batched.
ComesLast(C, c, batches, more) ==
  more \in Seq(Seq(C)) /\ FlattenSeq(more) = Append(FlattenSeq(batches), c)

LEMMA BatchedLast ==
  ASSUME NEW graph, NEW partitions, NEW parallelism, NEW C, NEW c \in C,
         NEW batches \in Seq(Seq(C))
  PROVE  ComesLast(C, c, batches, Batched(graph, partitions, parallelism, batches, c))
<1> DEFINE more == Batched(graph, partitions, parallelism, batches, c)
           n == Len(batches)
<1>1. more \in Seq(Seq(C))
  BY BatchedFacts DEF Grew
<1>2. n \in Nat /\ <<c>> \in Seq(C) /\ FlattenSeq(batches) \in Seq(C)
  BY FlattenedSet
<1>3. CASE more = Append(batches, <<c>>)
  <2>1. FlattenSeq(more) = FlattenSeq(batches) \o <<c>>
    BY <1>2, <1>3, FlattenedAppend
  <2>2. FlattenSeq(batches) \o <<c>> = Append(FlattenSeq(batches), c)
    BY <1>2
  <2> QED
    BY <1>1, <2>1, <2>2 DEF ComesLast
<1>4. CASE batches # <<>> /\ more = Append(Front(batches), Append(Last(batches), c))
  <2> DEFINE front == Front(batches)
             last == Last(batches)
             grown == Append(last, c)
  <2>1. n \in 1..n /\ last = batches[n]
    BY <1>2, <1>4 DEF Last
  <2>2. last \in Seq(C)
    BY <2>1
  <2>3. front = SubSeq(batches, 1, n - 1) /\ n - 1 \in 0..n
    BY <1>2, <2>1 DEF Front
  <2>4. front \in Seq(Seq(C)) /\ Len(front) = n - 1 /\ \A b \in 1..(n - 1) : front[b] = batches[b]
    <3> DEFINE W == Seq(C)
    <3>1. 1 \in 1..(n + 1) /\ n - 1 \in 0..n
      BY <1>2, <2>1
    <3>2. batches \in Seq(W)
      OBVIOUS
    <3> HIDE DEF W
    <3>3. front \in Seq(W) /\ Len(front) = n - 1 /\ \A b \in 1..(n - 1) : front[b] = batches[b]
      <4>1. \A i \in 1..(n - 1) : batches[i] \in W
        BY <1>2, <3>2
      <4>2. 1 \in Int /\ n - 1 \in Int /\ (n - 1) - 1 + 1 = n - 1 /\ \A i \in 1..(n - 1) : 1 + i - 1 = i
        BY <1>2
      <4> HIDE DEF n, front
      <4>3. n - 1 = IF 1 <= n - 1 THEN (n - 1) - 1 + 1 ELSE 0
        BY <1>2, <2>1
      <4>4. /\ SubSeq(batches, 1, n - 1) \in Seq(W)
            /\ Len(SubSeq(batches, 1, n - 1)) = IF 1 <= n - 1 THEN (n - 1) - 1 + 1 ELSE 0
            /\ \A i \in 1..((n - 1) - 1 + 1) : SubSeq(batches, 1, n - 1)[i] = batches[1 + i - 1]
        BY <4>1, <4>2, SubSeqProperties
      <4> QED
        BY <2>3, <4>2, <4>3, <4>4
    <3> QED
      BY <3>3 DEF W
  <2>5. batches = Append(front, last)
    <3> DEFINE W == Seq(C)
    <3>1. batches \in Seq(W) /\ front \in Seq(W) /\ last \in W
      BY <2>2, <2>4
    <3> HIDE DEF W, front, last
    <3>2. DOMAIN batches = 1..n /\ DOMAIN Append(front, last) = 1..((n - 1) + 1)
      BY <3>1, <2>4
    <3>3. \A b \in 1..n : Append(front, last)[b] = IF b = n THEN last ELSE front[b]
      BY <3>1, <2>1, <2>4
    <3>4. \A b \in 1..n : b = n \/ b \in 1..(n - 1)
      BY <1>2
    <3>5. (n - 1) + 1 = n
      BY <1>2
    <3>6. Append(front, last) \in Seq(W)
      BY <3>1
    <3>7. \A b \in 1..n : Append(front, last)[b] = batches[b]
      BY <2>1, <2>4, <3>3, <3>4
    <3> HIDE DEF n
    <3>8. DOMAIN Append(front, last) = 1..n
      BY <3>2, <3>5
    <3> DEFINE more2 == Append(front, last)
    <3>9. batches = [b \in 1..n |-> batches[b]]
      BY <3>1, <3>2
    <3> HIDE DEF more2
    <3>10. more2 = [b \in 1..n |-> more2[b]]
      <4>1. more2 \in Seq(W) /\ DOMAIN more2 = 1..n
        BY <3>6, <3>8 DEF more2
      <4> QED
        BY <4>1
    <3> QED
      BY <3>7, <3>9, <3>10 DEF more2
  <2> HIDE DEF front, last
  <2>6. grown \in Seq(C)
    BY <2>2
  <2>7. FlattenSeq(batches) = FlattenSeq(front) \o last
    BY <2>2, <2>4, <2>5, FlattenedAppend
  <2>8. more = Append(front, grown)
    BY <1>4 DEF front, last
  <2> HIDE DEF grown, more
  <2>9. FlattenSeq(more) = FlattenSeq(front) \o grown
    BY <2>4, <2>6, <2>8, FlattenedAppend
  <2>10. FlattenSeq(front) \in Seq(C)
    BY <2>4, FlattenedSet
  <2>11. FlattenSeq(front) \o grown = Append(FlattenSeq(front) \o last, c)
    BY <2>2, <2>10 DEF grown
  <2> QED
    BY <1>1, <2>7, <2>9, <2>11 DEF more, ComesLast
<1> QED
  BY <1>3, <1>4 DEF Batched

\* The batches are the auxiliary checks in their order.
LEMMA BatchesInOrder ==
  ASSUME NEW graph, NEW T, NEW types \in Seq(T), NEW partitions, NEW parallelism
  PROVE  FlattenSeq(AuxiliaryBatches(graph, types, partitions, parallelism))
           = Positions(types, {"U", "V"})
<1> DEFINE C == 1..Len(types)
           order == Positions(types, {"U", "V"})
           n == Len(order)
           first(i) == [k \in 1..i |-> order[k]]
<1>1. order \in Seq(C)
  BY SelectionFacts
<1>2. PICK f : /\ IsBatching(f, graph, partitions, parallelism, order)
               /\ AuxiliaryBatches(graph, types, partitions, parallelism) = f[n]
  <2> HIDE DEF C
  <2> QED
    BY <1>1, BatchingByPosition
<1> HIDE DEF order, C
<1>3. n \in Nat /\ DOMAIN order = 1..n /\ \A i \in 1..n : order[i] \in C
  BY <1>1
<1> DEFINE D == {i \in 0..n : f[i] \in Seq(Seq(C)) /\ FlattenSeq(f[i]) = first(i)}
<1>4. 0 \in D
  <2>1. f[0] = <<>> /\ 0 \in 0..n
    BY <1>2, <1>3 DEF IsBatching
  <2>2. FlattenSeq(<<>>) = <<>> /\ first(0) = <<>> /\ <<>> \in Seq(Seq(C))
    BY DEF FlattenSeq
  <2> HIDE DEF first
  <2> QED
    BY <2>1, <2>2
<1>5. ASSUME NEW i \in 1..n, (i - 1) \in D PROVE i \in D
  <2>1. f[i] = Batched(graph, partitions, parallelism, f[i - 1], order[i])
    BY <1>2 DEF IsBatching
  <2>2. f[i - 1] \in Seq(Seq(C)) /\ FlattenSeq(f[i - 1]) = first(i - 1) /\ order[i] \in C
    BY <1>3, <1>5
  <2>3. f[i] \in Seq(Seq(C)) /\ FlattenSeq(f[i]) = Append(first(i - 1), order[i])
    <3> DEFINE old == f[i - 1]
               c == order[i]
    <3>1. old \in Seq(Seq(C)) /\ c \in C /\ f[i] = Batched(graph, partitions, parallelism, old, c)
      BY <2>1, <2>2
    <3> HIDE DEF first, old, c
    <3> DEFINE more == Batched(graph, partitions, parallelism, old, c)
    <3>4. ComesLast(C, c, old, more)
      BY <3>1, BatchedLast
    <3>2. more \in Seq(Seq(C)) /\ FlattenSeq(more) = Append(FlattenSeq(old), c)
      BY <3>4 DEF ComesLast
    <3>3. f[i] = more /\ FlattenSeq(old) = first(i - 1) /\ c = order[i]
      BY <2>2, <3>1 DEF old, c
    <3> HIDE DEF more
    <3> QED
      BY <3>2, <3>3
  <2>4. Append(first(i - 1), order[i]) = first(i)
    <3>1. i \in Nat /\ i - 1 \in Nat /\ (i - 1) + 1 = i /\ \A k \in 1..i : k # i => k \in 1..(i - 1)
      BY <1>3
    <3>2. \A k \in 1..(i - 1) : order[k] \in C
      BY <1>3
    <3>3. first(i - 1) \in Seq(C) /\ Len(first(i - 1)) = i - 1
      BY <3>1, <3>2
    <3>4. Append(first(i - 1), order[i])
            = [k \in 1..((i - 1) + 1) |-> IF k = (i - 1) + 1 THEN order[i] ELSE first(i - 1)[k]]
      BY <3>1, <3>3
    <3> QED
      BY <3>1, <3>4
  <2>5. i \in 0..n
    BY <1>3
  <2> HIDE DEF first
  <2> QED
    BY <2>3, <2>4, <2>5
<1> HIDE DEF D
<1>6. 0..n \subseteq D
  <2> HIDE DEF n
  <2> QED
    BY <1>3, <1>4, <1>5, IntervalInduction
<1>7. n \in D
  BY <1>3, <1>6
<1>8. FlattenSeq(f[n]) = first(n)
  BY <1>7 DEF D
<1>9. first(n) = order
  BY <1>1, <1>3
<1> QED
  BY <1>2, <1>8, <1>9 DEF order

\* A sequence of all numbers to n without repetitions has n of them.
LEMMA PermutationLength ==
  ASSUME NEW n \in Nat, NEW s \in Seq(1..n), IsInjective(s), ToSet(s) = 1..n
  PROVE  Len(s) = n
<1>1. Len(s) \in Nat /\ DOMAIN s = 1..Len(s) /\ s \in [1..Len(s) -> 1..n]
  OBVIOUS
<1>2. s \in Bijection(1..Len(s), 1..n)
  <2>1. \A a, b \in 1..Len(s) : s[a] = s[b] => a = b
    BY <1>1 DEF IsInjective
  <2>2. \A k \in 1..n : \E a \in 1..Len(s) : s[a] = k
    BY <1>1 DEF ToSet
  <2> QED
    BY <1>1, <2>1, <2>2 DEF Bijection, Injection, Surjection, IsInjective
<1>3. ExistsBijection(1..Len(s), 1..n)
  BY <1>2 DEF ExistsBijection
<1>4. IsFiniteSet(1..Len(s)) /\ Cardinality(1..Len(s)) = Len(s) /\ Cardinality(1..n) = n
  <2> DEFINE m == Len(s)
  <2>1. m \in Nat
    BY <1>1
  <2> HIDE DEF m
  <2>2. IsFiniteSet(1..m) /\ Cardinality(1..m) = m /\ Cardinality(1..n) = n
    BY <2>1, FS_Interval
  <2> QED
    BY <2>2 DEF m
<1> QED
  BY <1>2, <1>3, <1>4, FS_Bijection, FS_SameCardinalityBij

\* A GARI sweep visits every check once.
LEMMA GariCovers ==
  ASSUME NEW graph, NEW types \in Seq(CheckTypes), NEW partitions, NEW parallelism
  PROVE  /\ Len(GariOrder(graph, types, partitions, parallelism)) = Len(types)
         /\ ToSet(GariOrder(graph, types, partitions, parallelism)) = 1..Len(types)
<1> DEFINE n == Len(types)
           C == 1..n
           main == Positions(types, {"D_X", "D_Z"})
           aux == Positions(types, {"U", "V"})
<1>1. n \in Nat /\ \A c \in C : types[c] \in CheckTypes
  OBVIOUS
<1>2. GariOrder(graph, types, partitions, parallelism) = main \o aux
  BY BatchesInOrder DEF GariOrder, MainOrder
<1>3. /\ main \in Seq(C) /\ IsInjective(main)
      /\ ToSet(main) = {c \in C : types[c] \in {"D_X", "D_Z"}}
  BY PositionsFacts
<1>4. /\ aux \in Seq(C) /\ IsInjective(aux)
      /\ ToSet(aux) = {c \in C : types[c] \in {"U", "V"}}
  BY PositionsFacts
<1> HIDE DEF main, aux
<1>5. ToSet(main) \cap ToSet(aux) = {} /\ ToSet(main) \cup ToSet(aux) = C
  BY <1>1, <1>3, <1>4 DEF CheckTypes
<1> HIDE DEF C
<1>6. main \o aux \in Seq(C) /\ ToSet(main \o aux) = C /\ IsInjective(main \o aux)
  <2>1. main \in Seq(C) /\ aux \in Seq(C) /\ IsInjective(main) /\ IsInjective(aux)
    BY <1>3, <1>4
  <2>2. ToSet(main \o aux) = ToSet(main) \cup ToSet(aux) /\ main \o aux \in Seq(C)
    BY <2>1, JoinedFacts
  <2>3. IsInjective(main \o aux)
    BY <2>1, <1>5, JoinedFacts
  <2> QED
    BY <1>5, <2>2, <2>3
<1> HIDE DEF n
<1>7. Len(main \o aux) = n
  BY <1>1, <1>6, PermutationLength DEF C
<1> QED
  BY <1>2, <1>6, <1>7 DEF C, n
-----------------------------------------------------------------------------
(* What compile_gari_subgraph makes of a circuit.                          *)

FaultNumbers(circuit) == DOMAIN circuit.faults
Touching(circuit, c) == {f \in DOMAIN circuit.faults : c \in ToSet(circuit.faults[f].detectors)}

LEMMA CircuitFacts ==
  ASSUME NEW circuit, IsCircuit(circuit)
  PROVE  /\ Len(circuit.rounds) \in Nat \ {0} /\ DOMAIN circuit.rounds = 1..Len(circuit.rounds)
         /\ Len(circuit.faults) \in Nat /\ FaultNumbers(circuit) = 1..Len(circuit.faults)
         /\ \A f \in FaultNumbers(circuit) :
              /\ circuit.faults[f].type \in CheckTypes \cup {"none"}
              /\ circuit.faults[f].partition \in Nat
<1>1. circuit.rounds \in Seq(Nat) /\ circuit.rounds # <<>>
  BY DEF IsCircuit
<1>2. Len(circuit.rounds) \in Nat \ {0} /\ DOMAIN circuit.rounds = 1..Len(circuit.rounds)
  BY <1>1
<1> DEFINE R == [detectors : Seq(Nat), logicals : SUBSET Nat, first : Nat, last : Nat,
                 type : CheckTypes \cup {"none"}, basis : STRING, partition : Nat]
<1>3. circuit.faults \in Seq(R)
  BY DEF IsCircuit
<1>4. \A r \in R : r.type \in CheckTypes \cup {"none"} /\ r.partition \in Nat
  OBVIOUS
<1> HIDE DEF R
<1>5. /\ Len(circuit.faults) \in Nat /\ FaultNumbers(circuit) = 1..Len(circuit.faults)
      /\ \A f \in FaultNumbers(circuit) : circuit.faults[f] \in R
  BY <1>3 DEF FaultNumbers
<1> QED
  BY <1>2, <1>4, <1>5

\* The row of a detector lists the faults that touch it, each once.
IsRow(circuit, c, row) ==
  row \in Seq(FaultNumbers(circuit)) /\ IsInjective(row) /\ ToSet(row) = Touching(circuit, c)

LEMMA DetectorRowsFacts ==
  ASSUME NEW circuit, IsCircuit(circuit)
  PROVE  /\ DOMAIN DetectorRows(circuit) = DOMAIN circuit.rounds
         /\ \A c \in DOMAIN circuit.rounds : IsRow(circuit, c, DetectorRows(circuit)[c])
<1>1. DOMAIN DetectorRows(circuit) = DOMAIN circuit.rounds
  BY DEF DetectorRows
<1>2. ASSUME NEW c \in DOMAIN circuit.rounds PROVE IsRow(circuit, c, DetectorRows(circuit)[c])
  <2> DEFINE touches == [f \in DOMAIN circuit.faults |-> c \in ToSet(circuit.faults[f].detectors)]
             n == Len(circuit.faults)
  <2>1. DetectorRows(circuit)[c] = Positions(touches, {TRUE})
    BY DEF DetectorRows
  <2>2. n \in Nat /\ DOMAIN circuit.faults = 1..n /\ FaultNumbers(circuit) = 1..n
    BY CircuitFacts DEF FaultNumbers
  <2>3. touches \in [1..n -> BOOLEAN]
    BY <2>2
  <2>4. touches \in Seq(BOOLEAN) /\ Len(touches) = n
    <3> HIDE DEF touches, n
    <3> QED
      BY <2>2, <2>3
  <2>5. {f \in 1..n : touches[f] \in {TRUE}} = Touching(circuit, c)
    BY <2>2 DEF Touching
  <2> HIDE DEF touches, n
  <2> DEFINE row == Positions(touches, {TRUE})
  <2>6. /\ row \in Seq(1..Len(touches)) /\ IsInjective(row)
        /\ ToSet(row) = {f \in 1..Len(touches) : touches[f] \in {TRUE}}
    BY <2>4, PositionsFacts
  <2> HIDE DEF row
  <2>7. row \in Seq(1..n) /\ ToSet(row) = Touching(circuit, c)
    BY <2>4, <2>5, <2>6
  <2> QED
    BY <2>1, <2>2, <2>6, <2>7 DEF IsRow, row
<1> QED
  BY <1>1, <1>2

\* A renumbering is one to one.
LEMMA RenumberingFacts ==
  ASSUME NEW circuit, IsCircuit(circuit), NEW inverse, NEW overrides,
         IsLabelling(circuit, inverse, overrides)
  PROVE  /\ inverse \in [FaultNumbers(circuit) -> FaultNumbers(circuit)]
         /\ \A g, h \in FaultNumbers(circuit) : inverse[g] = inverse[h] => g = h
         /\ \A f \in FaultNumbers(circuit) : \E g \in FaultNumbers(circuit) : inverse[g] = f
<1> DEFINE F == FaultNumbers(circuit)
<1>1. IsFiniteSet(F)
  BY CircuitFacts, FS_Interval
<1>2. inverse \in [F -> F] /\ \A f \in F : \E g \in F : inverse[g] = f
  <2>1. inverse \in [F -> F] /\ Range(inverse) = F
    BY DEF IsLabelling, FaultNumbers
  <2> HIDE DEF F
  <2> QED
    BY <2>1 DEF Range
<1> HIDE DEF F
<1>3. inverse \in Surjection(F, F)
  BY <1>2 DEF Surjection
<1>4. inverse \in Injection(F, F)
  BY <1>1, <1>3, FS_SurjSameCardinalityImpliesInj
<1>5. \A g, h \in F : inverse[g] = inverse[h] => g = h
  BY <1>2, <1>4 DEF Injection, IsInjective
<1> QED
  BY <1>2, <1>5 DEF F

\* As many faults as there are variables for them.
LEMMA RenumberedCount ==
  ASSUME NEW F, IsFiniteSet(F), NEW inverse \in [F -> F],
         \A g, h \in F : inverse[g] = inverse[h] => g = h,
         NEW S \in SUBSET F
  PROVE  Cardinality({inverse[g] : g \in S}) = Cardinality(S)
<1> DEFINE T == {inverse[g] : g \in S}
           b == [g \in S |-> inverse[g]]
<1>1. IsFiniteSet(S)
  BY FS_Subset
<1>2. b \in Bijection(S, T)
  BY DEF Bijection, Injection, Surjection, IsInjective
<1>3. ExistsBijection(S, T)
  BY <1>2 DEF ExistsBijection
<1> HIDE DEF T
<1>4. Cardinality(T) = Cardinality(S)
  BY <1>1, <1>3, FS_Bijection
<1> QED
  BY <1>4 DEF T

\* What the compiler works with.
ClassesOf(circuit, overrides, c) ==
  IF c \in DOMAIN overrides THEN {overrides[c]}
  ELSE Classes(circuit, ToSet(DetectorRows(circuit)[c]))
TypesOf(circuit, overrides) ==
  [c \in DOMAIN DetectorRows(circuit) |-> CHOOSE t \in ClassesOf(circuit, overrides, c) : TRUE]
PartsOf(circuit, overrides, c) ==
  IF ~Auxiliary(TypesOf(circuit, overrides), c) \/ DetectorRows(circuit)[c] = <<>> THEN {0}
  ELSE Partitions(circuit, ToSet(DetectorRows(circuit)[c]))
NumberOf(inverse) == [f \in DOMAIN inverse |-> CHOOSE g \in DOMAIN inverse : inverse[g] = f]
RowsOf(circuit, inverse) ==
  [c \in DOMAIN DetectorRows(circuit) |->
     [e \in DOMAIN DetectorRows(circuit)[c] |-> NumberOf(inverse)[DetectorRows(circuit)[c][e]]]]
SignaturesOf(circuit, inverse) ==
  [l \in 1 .. circuit.logicals |->
     {g \in DOMAIN inverse : l \in circuit.faults[inverse[g]].logicals}]
PartitionsOf(circuit, overrides) ==
  [c \in DOMAIN DetectorRows(circuit) |-> CHOOSE p \in PartsOf(circuit, overrides, c) : TRUE]
Conflicting(circuit, overrides) ==
  \E c \in DOMAIN DetectorRows(circuit) :
    Cardinality(ClassesOf(circuit, overrides, c)) # 1 \/ Cardinality(PartsOf(circuit, overrides, c)) # 1

LEMMA CompiledAs ==
  ASSUME NEW circuit, NEW inverse, NEW overrides
  PROVE  CompileGari(circuit, inverse, overrides) =
           IF Conflicting(circuit, overrides) THEN NoImage
           ELSE IF ~(\A c \in DOMAIN DetectorRows(circuit) : TypesOf(circuit, overrides)[c] \in CheckTypes)
           THEN NoImage
           ELSE GariImage(RowsOf(circuit, inverse), TypesOf(circuit, overrides),
                          PartitionsOf(circuit, overrides), inverse, SignaturesOf(circuit, inverse))
BY DEF CompileGari, ClassesOf, TypesOf, PartsOf, NumberOf, RowsOf, SignaturesOf, PartitionsOf, Conflicting

\* A check that nobody has typed by hand is typed by its faults, unless they disagree.
TypesGiven(circuit, c) == {circuit.faults[f].type : f \in Touching(circuit, c)} \ {"none"}
PartitionsGiven(circuit, c) == {circuit.faults[f].partition : f \in Touching(circuit, c)}
TypesDisagree(circuit, overrides, c) ==
  c \notin DOMAIN overrides /\ Cardinality(TypesGiven(circuit, c)) > 1

\* A nonempty finite set has more than one element or just one.
LEMMA OneOrMore ==
  ASSUME NEW S, IsFiniteSet(S), S # {}
  PROVE  /\ Cardinality(S) \in Nat
         /\ Cardinality(S) = 1 \/ Cardinality(S) > 1
<1>1. Cardinality(S) \in Nat /\ Cardinality(S) # 0
  BY FS_CardinalityType, FS_EmptySet
<1> QED
  BY <1>1

LEMMA ClassesFacts ==
  ASSUME NEW circuit, IsCircuit(circuit), NEW inverse, NEW overrides,
         IsLabelling(circuit, inverse, overrides), NEW c \in DOMAIN circuit.rounds
  PROVE  /\ ClassesOf(circuit, overrides, c) \subseteq CheckTypes
         /\ ClassesOf(circuit, overrides, c) # {}
         /\ Cardinality(ClassesOf(circuit, overrides, c)) # 1 <=> TypesDisagree(circuit, overrides, c)
<1> DEFINE row == DetectorRows(circuit)[c]
           given == TypesGiven(circuit, c)
           bases == {circuit.faults[f].basis : f \in Touching(circuit, c)}
           classes == ClassesOf(circuit, overrides, c)
<1>1. ToSet(row) = Touching(circuit, c)
  BY DetectorRowsFacts DEF IsRow
<1>2. given \subseteq CheckTypes
  BY CircuitFacts DEF TypesGiven, Touching, FaultNumbers
<1>3. IsFiniteSet(given)
  <2>1. IsFiniteSet(CheckTypes)
    <3>1. CheckTypes = (({"D_X"} \cup {"D_Z"}) \cup {"U"}) \cup {"V"}
      BY DEF CheckTypes
    <3>2. IsFiniteSet({"D_X"}) /\ IsFiniteSet({"D_Z"}) /\ IsFiniteSet({"U"}) /\ IsFiniteSet({"V"})
      BY FS_Singleton
    <3> QED
      BY <3>1, <3>2, FS_Union
  <2> QED
    BY <1>2, <2>1, FS_Subset
<1>4. CASE c \in DOMAIN overrides
  <2>1. classes = {overrides[c]} /\ overrides[c] \in CheckTypes
    BY <1>4 DEF ClassesOf, IsLabelling
  <2>2. Cardinality({overrides[c]}) = 1
    BY FS_Singleton
  <2>3. ~TypesDisagree(circuit, overrides, c)
    BY <1>4 DEF TypesDisagree
  <2> QED
    BY <2>1, <2>2, <2>3
<1>5. CASE c \notin DOMAIN overrides /\ given # {}
  <2>1. classes = given
    BY <1>1, <1>5 DEF ClassesOf, Classes, TypesGiven
  <2>2. Cardinality(given) \in Nat /\ (Cardinality(given) = 1 \/ Cardinality(given) > 1)
    <3> HIDE DEF given
    <3> QED
      BY <1>3, <1>5, OneOrMore
  <2>3. TypesDisagree(circuit, overrides, c) <=> Cardinality(given) > 1
    BY <1>5 DEF TypesDisagree
  <2> HIDE DEF given, classes
  <2>4. Cardinality(given) # 1 <=> Cardinality(given) > 1
    BY <2>2
  <2> QED
    BY <1>2, <1>5, <2>1, <2>3, <2>4 DEF classes
<1>6. CASE c \notin DOMAIN overrides /\ given = {}
  <2>1. classes = {"D_Z"} \/ classes = {"D_X"}
    BY <1>1, <1>6 DEF ClassesOf, Classes, TypesGiven
  <2>2. Cardinality(classes) = 1
    BY <2>1, FS_Singleton
  <2>3. Cardinality(given) = 0
    BY <1>6, FS_EmptySet
  <2>4. ~TypesDisagree(circuit, overrides, c)
    BY <2>3 DEF TypesDisagree
  <2> HIDE DEF classes
  <2> QED
    BY <2>1, <2>2, <2>4 DEF classes, CheckTypes
<1> QED
  BY <1>4, <1>5, <1>6

\* Every check gets a type.
LEMMA TypesFacts ==
  ASSUME NEW circuit, IsCircuit(circuit), NEW inverse, NEW overrides,
         IsLabelling(circuit, inverse, overrides)
  PROVE  /\ TypesOf(circuit, overrides) \in Seq(CheckTypes)
         /\ Len(TypesOf(circuit, overrides)) = Len(circuit.rounds)
<1> DEFINE n == Len(circuit.rounds)
           types == TypesOf(circuit, overrides)
<1>1. n \in Nat /\ DOMAIN circuit.rounds = 1..n /\ DOMAIN DetectorRows(circuit) = 1..n
  BY CircuitFacts, DetectorRowsFacts
<1>2. DOMAIN types = 1..n /\ \A c \in 1..n : types[c] = CHOOSE t \in ClassesOf(circuit, overrides, c) : TRUE
  BY <1>1 DEF TypesOf
<1>3. \A c \in 1..n : types[c] \in CheckTypes
  BY <1>1, <1>2, ClassesFacts
<1>4. types = [c \in 1..n |-> types[c]]
  BY <1>1 DEF TypesOf
<1> HIDE DEF types, n
<1>5. types \in Seq(CheckTypes) /\ Len(types) = n
  BY <1>1, <1>2, <1>3, <1>4
<1> QED
  BY <1>5 DEF types, n

\* The partition of a check is known unless its faults disagree.
LEMMA PartsFacts ==
  ASSUME NEW circuit, IsCircuit(circuit), NEW overrides, NEW c \in DOMAIN circuit.rounds,
         Cardinality(PartsOf(circuit, overrides, c)) # 1
  PROVE  Cardinality(PartitionsGiven(circuit, c)) > 1
<1> DEFINE row == DetectorRows(circuit)[c]
           S == Touching(circuit, c)
           given == PartitionsGiven(circuit, c)
<1>1. row \in Seq(FaultNumbers(circuit)) /\ ToSet(row) = S
  BY DetectorRowsFacts DEF IsRow
<1>2. row # <<>> /\ PartsOf(circuit, overrides, c) = given
  <2>1. Cardinality({0}) = 1
    BY FS_Singleton
  <2> QED
    BY <1>1, <2>1 DEF PartsOf, Partitions, PartitionsGiven
<1>3. S # {}
  <2>1. 1 \in DOMAIN row
    BY <1>1, <1>2
  <2> QED
    BY <1>1, <2>1 DEF ToSet
<1>4. IsFiniteSet(S)
  <2>1. IsFiniteSet(FaultNumbers(circuit))
    <3>1. FaultNumbers(circuit) = 1..Len(circuit.faults) /\ Len(circuit.faults) \in Nat
      BY CircuitFacts
    <3> QED
      BY <3>1, FS_Interval
  <2>2. S \subseteq FaultNumbers(circuit)
    BY DEF Touching, FaultNumbers
  <2> QED
    BY <2>1, <2>2, FS_Subset
<1>5. IsFiniteSet(given) /\ given # {}
  <2> DEFINE p == [f \in S |-> circuit.faults[f].partition]
  <2>1. p \in Surjection(S, given)
    BY DEF Surjection, PartitionsGiven
  <2>2. given # {}
    BY <1>3 DEF PartitionsGiven
  <2> HIDE DEF p, S, given
  <2> QED
    BY <1>4, <2>1, <2>2, FS_Surjection
<1>6. Cardinality(given) = 1 \/ Cardinality(given) > 1
  <2> HIDE DEF given
  <2> QED
    BY <1>5, OneOrMore
<1> QED
  BY <1>2, <1>6

\* The row of a check in the image.
LEMMA ImageRows ==
  ASSUME NEW circuit, IsCircuit(circuit), NEW inverse, NEW overrides,
         IsLabelling(circuit, inverse, overrides)
  PROVE  /\ RowsOf(circuit, inverse) \in Seq(Seq(FaultNumbers(circuit)))
         /\ Len(RowsOf(circuit, inverse)) = Len(circuit.rounds)
         /\ \A c \in DOMAIN circuit.rounds :
              /\ DOMAIN RowsOf(circuit, inverse)[c] = DOMAIN DetectorRows(circuit)[c]
              /\ RowsOf(circuit, inverse)[c] = <<>> <=> Touching(circuit, c) = {}
              /\ \A g \in FaultNumbers(circuit) :
                   g \in ToSet(RowsOf(circuit, inverse)[c]) <=> inverse[g] \in Touching(circuit, c)
<1> DEFINE F == FaultNumbers(circuit)
           number == NumberOf(inverse)
           rows == RowsOf(circuit, inverse)
           original == DetectorRows(circuit)
           n == Len(circuit.rounds)
<1>1. n \in Nat /\ DOMAIN circuit.rounds = 1..n /\ DOMAIN original = 1..n
  BY CircuitFacts, DetectorRowsFacts
<1>2. /\ DOMAIN number = F /\ DOMAIN inverse = F /\ inverse \in [F -> F]
      /\ \A f \in F : number[f] \in F /\ inverse[number[f]] = f
      /\ \A g \in F : number[inverse[g]] = g
  <2>1. /\ inverse \in [F -> F] /\ \A g, h \in F : inverse[g] = inverse[h] => g = h
        /\ \A f \in F : \E g \in F : inverse[g] = f
    BY RenumberingFacts
  <2> HIDE DEF F
  <2>2. number = [f \in F |-> CHOOSE g \in F : inverse[g] = f]
    BY <2>1 DEF NumberOf
  <2>3. \A f \in F : number[f] \in F /\ inverse[number[f]] = f
    BY <2>1, <2>2
  <2> HIDE DEF number
  <2> QED
    BY <2>1, <2>2, <2>3
<1> HIDE DEF F, number
<1>3. ASSUME NEW c \in 1..n
      PROVE  /\ rows[c] \in Seq(F) /\ DOMAIN rows[c] = DOMAIN original[c]
             /\ rows[c] = <<>> <=> Touching(circuit, c) = {}
             /\ \A g \in F : g \in ToSet(rows[c]) <=> inverse[g] \in Touching(circuit, c)
  <2> DEFINE row == original[c]
             new == rows[c]
  <2>1. row \in Seq(F) /\ ToSet(row) = Touching(circuit, c)
    BY <1>1, DetectorRowsFacts DEF IsRow, F
  <2>2. new = [e \in DOMAIN row |-> number[row[e]]]
    BY <1>1 DEF RowsOf, number
  <2> HIDE DEF row, new
  <2>3. Len(row) \in Nat /\ DOMAIN row = 1..Len(row) /\ \A e \in 1..Len(row) : row[e] \in F
    BY <2>1
  <2>4. new \in Seq(F) /\ DOMAIN new = DOMAIN row
    <3>1. \A e \in 1..Len(row) : number[row[e]] \in F
      BY <1>2, <2>3
    <3> QED
      BY <2>2, <2>3, <3>1
  <2>5. new = <<>> <=> Touching(circuit, c) = {}
    <3>1. new = <<>> <=> DOMAIN row = {}
      BY <2>4
    <3> QED
      BY <2>1, <3>1 DEF ToSet
  <2>6. ASSUME NEW g \in F PROVE g \in ToSet(new) <=> inverse[g] \in Touching(circuit, c)
    <3>1. ASSUME NEW e \in DOMAIN row, new[e] = g PROVE row[e] = inverse[g]
      BY <1>2, <2>2, <2>3, <3>1
    <3>2. ASSUME NEW e \in DOMAIN row, row[e] = inverse[g] PROVE new[e] = g
      BY <1>2, <2>2, <3>2
    <3>3. g \in ToSet(new) <=> \E e \in DOMAIN row : new[e] = g
      BY <2>4 DEF ToSet
    <3>4. inverse[g] \in ToSet(row) <=> \E e \in DOMAIN row : row[e] = inverse[g]
      BY DEF ToSet
    <3> QED
      BY <2>1, <3>1, <3>2, <3>3, <3>4
  <2> QED
    BY <2>4, <2>5, <2>6 DEF new, row
<1>4. rows \in Seq(Seq(F)) /\ Len(rows) = n
  <2> DEFINE W == Seq(F)
  <2>1. \A c \in 1..n : rows[c] \in W
    BY <1>3
  <2>2. DOMAIN rows = 1..n /\ rows = [c \in 1..n |-> rows[c]]
    BY <1>1 DEF RowsOf
  <2> HIDE DEF W, rows, n
  <2>3. rows \in Seq(W) /\ Len(rows) = n
    BY <1>1, <2>1, <2>2
  <2> QED
    BY <2>3 DEF W
<1> QED
  BY <1>1, <1>3, <1>4 DEF F

\* What an accepted image holds, and when a circuit gets one.
IsCompiled(circuit, inverse, overrides, image) ==
  /\ image.rows = RowsOf(circuit, inverse) /\ image.types = TypesOf(circuit, overrides)
  /\ image.inverse = inverse /\ image.signatures = SignaturesOf(circuit, inverse)
  /\ image.exchanges = Exchanges(image.rows, image.types)

LEMMA CompileFacts ==
  ASSUME NEW circuit, IsCircuit(circuit), NEW inverse, NEW overrides,
         IsLabelling(circuit, inverse, overrides)
  PROVE  /\ CompileGari(circuit, inverse, overrides).accepted \in BOOLEAN
         /\ (\E c \in DOMAIN circuit.rounds :
               Touching(circuit, c) = {} \/ TypesDisagree(circuit, overrides, c))
              => ~CompileGari(circuit, inverse, overrides).accepted
         /\ ~CompileGari(circuit, inverse, overrides).accepted =>
              \E c \in DOMAIN circuit.rounds :
                \/ Touching(circuit, c) = {} \/ TypesDisagree(circuit, overrides, c)
                \/ Cardinality(PartitionsGiven(circuit, c)) > 1
         /\ CompileGari(circuit, inverse, overrides).accepted =>
              IsCompiled(circuit, inverse, overrides, CompileGari(circuit, inverse, overrides))
<1> DEFINE image == CompileGari(circuit, inverse, overrides)
           rows == RowsOf(circuit, inverse)
           types == TypesOf(circuit, overrides)
           parts == PartitionsOf(circuit, overrides)
           signatures == SignaturesOf(circuit, inverse)
           made == GariImage(rows, types, parts, inverse, signatures)
           n == Len(circuit.rounds)
<1>1. DOMAIN DetectorRows(circuit) = DOMAIN circuit.rounds /\ DOMAIN rows = DOMAIN circuit.rounds
      /\ DOMAIN types = DOMAIN circuit.rounds
  BY DetectorRowsFacts DEF RowsOf, TypesOf
<1>2. \A c \in DOMAIN circuit.rounds : types[c] \in CheckTypes
  <2>1. types \in Seq(CheckTypes)
    BY TypesFacts
  <2> HIDE DEF types
  <2> QED
    BY <1>1, <2>1
<1>3. image = IF Conflicting(circuit, overrides) THEN NoImage ELSE made
  BY <1>1, <1>2, CompiledAs
<1>4. Conflicting(circuit, overrides) <=>
        \E c \in DOMAIN circuit.rounds :
          TypesDisagree(circuit, overrides, c) \/ Cardinality(PartsOf(circuit, overrides, c)) # 1
  BY <1>1, ClassesFacts DEF Conflicting
<1>5. (\E c \in DOMAIN rows : rows[c] = <<>>) <=> \E c \in DOMAIN circuit.rounds : Touching(circuit, c) = {}
  BY <1>1, ImageRows
<1>6. CASE (\E c \in DOMAIN rows : rows[c] = <<>>) \/ Conflicting(circuit, overrides)
  <2>1. image = NoImage
    BY <1>3, <1>6 DEF GariImage
  <2>2. image.accepted = FALSE
    BY <2>1 DEF NoImage
  <2>3. \E c \in DOMAIN circuit.rounds :
          \/ Touching(circuit, c) = {} \/ TypesDisagree(circuit, overrides, c)
          \/ Cardinality(PartitionsGiven(circuit, c)) > 1
    BY <1>4, <1>5, <1>6, PartsFacts
  <2> HIDE DEF image
  <2> QED
    BY <2>2, <2>3 DEF image
<1>7. CASE ~(\E c \in DOMAIN rows : rows[c] = <<>>) /\ ~Conflicting(circuit, overrides)
  <2>1. image = [accepted |-> TRUE, rows |-> rows, types |-> types, partitions |-> parts,
                 inverse |-> inverse, signatures |-> signatures, exchanges |-> Exchanges(rows, types)]
    BY <1>3, <1>7 DEF GariImage
  <2>2. ~\E c \in DOMAIN circuit.rounds :
          Touching(circuit, c) = {} \/ TypesDisagree(circuit, overrides, c)
    BY <1>4, <1>5, <1>7
  <2> HIDE DEF image, rows, types, parts, signatures
  <2>3. /\ image.accepted = TRUE /\ image.rows = rows /\ image.types = types
        /\ image.inverse = inverse /\ image.signatures = signatures
        /\ image.exchanges = Exchanges(rows, types)
    BY <2>1
  <2>4. IsCompiled(circuit, inverse, overrides, image)
    BY <2>3 DEF IsCompiled, rows, types, signatures
  <2> QED
    BY <2>2, <2>3, <2>4 DEF image
<1> QED
  BY <1>6, <1>7

\* What an accepted image decides for the circuit: the sets the promise speaks of.
Deciding(circuit, image, correction) ==
  /\ SyndromeBits(image.rows, correction) =
       [d \in DOMAIN circuit.rounds |->
          Cardinality(Touching(circuit, d) \cap InverseCorrection(image, correction)) % 2]
  /\ \A l \in 1 .. circuit.logicals :
       OddOverlap(image.signatures[l], correction) =
         OddOverlap({f \in FaultNumbers(circuit) : l \in circuit.faults[f].logicals},
                    InverseCorrection(image, correction))

LEMMA ImageDecides ==
  ASSUME NEW circuit, IsCircuit(circuit), NEW inverse, NEW overrides,
         IsLabelling(circuit, inverse, overrides),
         NEW image, IsCompiled(circuit, inverse, overrides, image),
         NEW correction \in SUBSET FaultNumbers(circuit)
  PROVE  Deciding(circuit, image, correction)
<1> DEFINE F == FaultNumbers(circuit)
           back == InverseCorrection(image, correction)
           rows == RowsOf(circuit, inverse)
<1>1. IsFiniteSet(F)
  <2>1. FaultNumbers(circuit) = 1..Len(circuit.faults) /\ Len(circuit.faults) \in Nat
    BY CircuitFacts
  <2> QED
    BY <2>1, FS_Interval
<1>2. inverse \in [F -> F] /\ \A g, h \in F : inverse[g] = inverse[h] => g = h
  BY RenumberingFacts
<1>3. back = {inverse[g] : g \in correction} /\ image.rows = rows
  BY DEF InverseCorrection, IsCompiled
<1> HIDE DEF F, back
<1>4. ASSUME NEW S, NEW T, \A f \in S : f \in F, \A g \in T : g \in F,
             \A g \in F : g \in T <=> inverse[g] \in S
      PROVE  Cardinality(T \cap correction) = Cardinality(S \cap back)
  <2>1. S \cap back = {inverse[g] : g \in T \cap correction}
    <3>1. ASSUME NEW f \in S \cap back PROVE f \in {inverse[g] : g \in T \cap correction}
      <4>1. PICK g \in correction : f = inverse[g]
        BY <1>3
      <4>2. g \in T
        BY <1>4, <4>1 DEF F
      <4> QED
        BY <4>1, <4>2
    <3>2. ASSUME NEW g \in T \cap correction PROVE inverse[g] \in S \cap back
      BY <1>3, <1>4
    <3> QED
      BY <3>1, <3>2
  <2>2. T \cap correction \in SUBSET F
    BY <1>4
  <2> QED
    BY <1>1, <1>2, <2>1, <2>2, RenumberedCount
<1>5. SyndromeBits(rows, correction) =
        [d \in DOMAIN circuit.rounds |-> Cardinality(Touching(circuit, d) \cap back) % 2]
  <2>1. DOMAIN rows = DOMAIN circuit.rounds
    BY DetectorRowsFacts DEF RowsOf
  <2>2. ASSUME NEW d \in DOMAIN circuit.rounds
        PROVE  Cardinality(ToSet(rows[d]) \cap correction) = Cardinality(Touching(circuit, d) \cap back)
    <3>1. /\ rows \in Seq(Seq(F)) /\ \A g \in F :
                g \in ToSet(rows[d]) <=> inverse[g] \in Touching(circuit, d)
      BY ImageRows DEF F
    <3>2. \A g \in ToSet(rows[d]) : g \in F
      <4>1. rows[d] \in Seq(F)
        <5> DEFINE W == Seq(F)
        <5> HIDE DEF rows, W
        <5>1. rows \in Seq(W) /\ d \in DOMAIN rows
          BY <2>1, <3>1 DEF W
        <5> QED
          BY <5>1 DEF W
      <4> HIDE DEF rows
      <4> QED
        BY <4>1 DEF ToSet
    <3>3. \A f \in Touching(circuit, d) : f \in F
      BY DEF Touching, FaultNumbers, F
    <3> HIDE DEF rows
    <3> QED
      BY <1>4, <3>1, <3>2, <3>3
  <2> HIDE DEF rows
  <2> QED
    BY <2>1, <2>2 DEF SyndromeBits
<1>6. ASSUME NEW l \in 1 .. circuit.logicals
      PROVE  OddOverlap(image.signatures[l], correction) =
               OddOverlap({f \in F : l \in circuit.faults[f].logicals}, back)
  <2> DEFINE S == {f \in F : l \in circuit.faults[f].logicals}
             T == image.signatures[l]
  <2>1. T = {g \in F : l \in circuit.faults[inverse[g]].logicals}
    <3>1. DOMAIN inverse = F
      BY <1>2
    <3> QED
      BY <3>1 DEF IsCompiled, SignaturesOf
  <2>2. \A g \in F : g \in T <=> inverse[g] \in S
    BY <1>2, <2>1
  <2>3. (\A f \in S : f \in F) /\ \A g \in T : g \in F
    BY <2>1
  <2> HIDE DEF S, T
  <2>4. Cardinality(T \cap correction) = Cardinality(S \cap back)
    BY <1>4, <2>2, <2>3
  <2> QED
    BY <2>4 DEF OddOverlap, S, T
<1> QED
  BY <1>3, <1>5, <1>6 DEF Deciding, F, back

\* The edges of the image: those of the circuit.
LEMMA ImageEdges ==
  ASSUME NEW circuit, IsCircuit(circuit), NEW inverse, NEW overrides,
         IsLabelling(circuit, inverse, overrides)
  PROVE  EdgeSet(RowsOf(circuit, inverse)) =
           {edge \in (DOMAIN DetectorRows(circuit)) \X (1 .. Len(circuit.faults)) :
              edge[2] \in DOMAIN DetectorRows(circuit)[edge[1]]}
<1> DEFINE rows == RowsOf(circuit, inverse)
           original == DetectorRows(circuit)
           D == DOMAIN circuit.rounds
           m == Len(circuit.faults)
<1>1. D \subseteq Nat /\ m \in Nat /\ FaultNumbers(circuit) = 1..m
  BY CircuitFacts
<1>2. DOMAIN original = D /\ DOMAIN rows = D /\ \A c \in D : DOMAIN rows[c] = DOMAIN original[c]
  BY DetectorRowsFacts, ImageRows DEF RowsOf
<1>3. \A c \in D : original[c] \in Seq(1..m) /\ IsInjective(original[c])
  BY <1>1, DetectorRowsFacts DEF IsRow
<1> HIDE DEF rows, original, m, D
<1>4. ASSUME NEW c \in D PROVE DOMAIN original[c] \subseteq 1..m
  <2> DEFINE row == original[c]
             k == Len(row)
  <2>1. row \in Seq(1..m) /\ IsInjective(row)
    BY <1>3
  <2> HIDE DEF row
  <2>2. k \in Nat /\ DOMAIN row = 1..k /\ row \in [1..k -> 1..m]
    <3> DEFINE X == 1..m
    <3>1. row \in Seq(X)
      BY <2>1
    <3> HIDE DEF X
    <3>2. k \in Nat /\ DOMAIN row = 1..k /\ row \in [1..k -> X]
      BY <3>1
    <3> QED
      BY <3>2 DEF X
  <2> HIDE DEF k
  <2>3. row \in Injection(1..k, 1..m)
    BY <2>1, <2>2 DEF Injection, IsInjective
  <2>4. /\ IsFiniteSet(1..m) /\ Cardinality(1..m) = m /\ Cardinality(1..k) = k
    BY <1>1, <2>2, FS_Interval
  <2>5. Cardinality(1..k) <= Cardinality(1..m)
    BY <2>3, <2>4, FS_Injection
  <2>6. k <= m
    BY <2>4, <2>5
  <2>7. 1..k \subseteq 1..m
    BY <1>1, <2>2, <2>6
  <2> QED
    BY <2>2, <2>7 DEF row
<1>5. 1..m \subseteq Nat
  BY <1>1
<1> QED
  BY <1>1, <1>2, <1>4, <1>5 DEF EdgeSet, rows, original, m

\* The exchanges of an accepted image.
LEMMA ImageExchanges ==
  ASSUME NEW circuit, IsCircuit(circuit), NEW inverse, NEW overrides,
         IsLabelling(circuit, inverse, overrides),
         NEW image, IsCompiled(circuit, inverse, overrides, image)
  PROVE  /\ IsInjective(image.exchanges)
         /\ ToSet(image.exchanges) = PairsOf(image.rows, image.types)
<1>1. /\ image.rows \in Seq(Seq(FaultNumbers(circuit)))
      /\ image.exchanges = Exchanges(image.rows, image.types)
  BY ImageRows DEF IsCompiled
<1> QED
  BY <1>1, ExchangesFacts

\* Any importable circuit, renumbered and typed in any way the compiler takes, is decided
\* for by the image it gets.
THEOREM CircuitRoundTrip ==
  ASSUME NEW circuit, IsCircuit(circuit), NEW inverse, NEW overrides,
         IsLabelling(circuit, inverse, overrides)
  PROVE  GariRoundTrip(circuit, inverse, overrides)
<1> DEFINE image == CompileGari(circuit, inverse, overrides)
           original == DetectorRows(circuit)
           D == DOMAIN circuit.rounds
           orders == GariOrder(image.rows, image.types, image.partitions, 2)
           variable(edge) == image.rows[edge[1]][edge[2]]
           edges == {edge \in (DOMAIN original) \X (1 .. Len(circuit.faults)) :
                       edge[2] \in DOMAIN original[edge[1]]}
           pairs == {pair \in edges \X edges :
                       /\ Auxiliary(image.types, pair[1][1]) /\ ~Auxiliary(image.types, pair[2][1])
                       /\ variable(pair[1]) = variable(pair[2])}
<1>1. DOMAIN original = D
  BY DetectorRowsFacts
<1>2. /\ (\E c \in D : Touching(circuit, c) = {} \/ TypesDisagree(circuit, overrides, c)) => ~image.accepted
      /\ ~image.accepted =>
           \E c \in D : \/ Touching(circuit, c) = {} \/ TypesDisagree(circuit, overrides, c)
                        \/ Cardinality(PartitionsGiven(circuit, c)) > 1
  BY CompileFacts
<1>3. image.accepted => IsCompiled(circuit, inverse, overrides, image)
  BY CompileFacts
<1> HIDE DEF image
<1>4. ASSUME image.accepted, NEW correction \in SUBSET DOMAIN inverse
      PROVE  Deciding(circuit, image, correction)
  <2>1. DOMAIN inverse = FaultNumbers(circuit)
    BY RenumberingFacts
  <2> QED
    BY <1>3, <1>4, <2>1, ImageDecides
<1>5. ASSUME image.accepted PROVE Len(orders) = Len(original) /\ ToSet(orders) = DOMAIN original
  <2>1. image.types \in Seq(CheckTypes) /\ Len(image.types) = Len(circuit.rounds)
    BY <1>3, <1>5, TypesFacts DEF IsCompiled
  <2>2. Len(orders) = Len(image.types) /\ ToSet(orders) = 1..Len(image.types)
    BY <2>1, GariCovers
  <2>3. Len(original) = Len(circuit.rounds)
    <3>1. Len(circuit.rounds) \in Nat /\ D = 1..Len(circuit.rounds)
      BY CircuitFacts
    <3>2. original = [c \in 1..Len(circuit.rounds) |-> original[c]]
      BY <3>1 DEF DetectorRows
    <3> HIDE DEF original
    <3> QED
      BY <3>1, <3>2
  <2>4. D = 1..Len(circuit.rounds)
    BY CircuitFacts
  <2> HIDE DEF orders, original, D
  <2> QED
    BY <1>1, <2>1, <2>2, <2>3, <2>4
<1>6. ASSUME image.accepted PROVE IsInjective(image.exchanges) /\ ToSet(image.exchanges) = pairs
  <2>1. /\ IsInjective(image.exchanges) /\ ToSet(image.exchanges) = PairsOf(image.rows, image.types)
        /\ image.rows = RowsOf(circuit, inverse)
    BY <1>3, <1>6, ImageExchanges DEF IsCompiled
  <2>2. EdgeSet(image.rows) = edges
    BY <2>1, ImageEdges
  <2> HIDE DEF edges
  <2>3. PairsOf(image.rows, image.types) = pairs
    BY <2>2 DEF PairsOf
  <2> QED
    BY <2>1, <2>3
<1> HIDE DEF orders, edges, pairs, original
<1>7. image.accepted => /\ Len(orders) = Len(original) /\ ToSet(orders) = DOMAIN original
                        /\ IsInjective(image.exchanges) /\ ToSet(image.exchanges) = pairs
  BY <1>5, <1>6
<1>8. ASSUME image.accepted, NEW correction \in SUBSET DOMAIN inverse
      PROVE  /\ SyndromeBits(image.rows, correction) =
                  [d \in DOMAIN circuit.rounds |->
                     Cardinality({f \in DOMAIN circuit.faults : d \in ToSet(circuit.faults[f].detectors)}
                                   \cap InverseCorrection(image, correction)) % 2]
             /\ \A l \in 1 .. circuit.logicals :
                  OddOverlap(image.signatures[l], correction) =
                    OddOverlap({f \in DOMAIN circuit.faults : l \in circuit.faults[f].logicals},
                               InverseCorrection(image, correction))
  BY <1>4, <1>8 DEF Deciding, Touching, FaultNumbers
<1>9. /\ (\E c \in D :
            {f \in DOMAIN circuit.faults : c \in ToSet(circuit.faults[f].detectors)} = {}
              \/ TypesDisagree(circuit, overrides, c)) => ~image.accepted
      /\ ~image.accepted =>
           \E c \in D :
             \/ {f \in DOMAIN circuit.faults : c \in ToSet(circuit.faults[f].detectors)} = {}
             \/ TypesDisagree(circuit, overrides, c)
             \/ Cardinality({circuit.faults[f].partition :
                  f \in {f \in DOMAIN circuit.faults : c \in ToSet(circuit.faults[f].detectors)}}) > 1
  BY <1>2 DEF Touching, PartitionsGiven
<1> QED
  BY <1>1, <1>7, <1>8, <1>9
     DEF GariRoundTrip, image, original, orders, pairs, edges, TypesDisagree, TypesGiven, Touching

-----------------------------------------------------------------------------
(* The translations lifted to the faults.                                  *)

\* All translations lifted, and what makes them so: each moves every fault to the one that
\* answers like it, moved.
Lifts(dem, flavour) == [by \in Coordinates |-> Lifted(dem, flavour, by)]
AreLifts(dem, lifts) ==
  /\ lifts \in [Coordinates -> [DOMAIN dem -> DOMAIN dem]]
  /\ \A by \in Coordinates, v \in DOMAIN dem : AnswersAs(dem, v, by, lifts[by][v])

\* A table finds the last fault of a response.
LEMMA LookupFinds ==
  ASSUME NEW dem, IsModel(dem), NEW flavour, NEW response
  PROVE  /\ Lookup(dem, flavour, response) \in {0} \cup DOMAIN dem
         /\ Lookup(dem, flavour, response) \in DOMAIN dem =>
              Response(dem, flavour, Lookup(dem, flavour, response)) = response
         /\ \A w \in DOMAIN dem : Response(dem, flavour, w) = response =>
              /\ Lookup(dem, flavour, response) \in DOMAIN dem
              /\ Lookup(dem, flavour, response) >= w
<1> DEFINE R == {w \in DOMAIN dem : Response(dem, flavour, w) = response}
           S == {0} \cup R
<1>1. DOMAIN dem = 1 .. Len(dem) /\ Len(dem) \in Nat
  BY DEF IsModel
<1>2. IsFiniteSet(S) /\ S \in SUBSET Int /\ S # {}
  <2>1. IsFiniteSet({0}) /\ IsFiniteSet(DOMAIN dem)
    <3> DEFINE n == Len(dem)
    <3> HIDE DEF n
    <3>1. n \in Nat /\ DOMAIN dem = 1 .. n
      BY <1>1 DEF n
    <3>2. IsFiniteSet(1 .. n)
      BY <3>1, FS_Interval
    <3> QED
      BY <3>1, <3>2, FS_Singleton
  <2>2. IsFiniteSet(R)
    BY <2>1, FS_Subset
  <2>3. R \in SUBSET Int
    BY <1>1
  <2> HIDE DEF R
  <2>4. IsFiniteSet({0} \cup R)
    BY <2>1, <2>2, FS_Union
  <2> QED
    BY <2>3, <2>4
<1>3. Max(S) \in S /\ \A x \in S : Max(S) >= x
  <2> HIDE DEF S
  <2> QED
    BY <1>2, MaxOfFinite
<1>4. Lookup(dem, flavour, response) = Max(S)
  BY DEF Lookup
<1> DEFINE m == Max(S)
<1>5. 0 \notin DOMAIN dem /\ m \in S /\ \A x \in S : m >= x
  BY <1>1, <1>3
<1> HIDE DEF m
<1>6. \A w \in R : m \in R /\ m >= w
  <2> SUFFICES ASSUME NEW w \in R PROVE m \in R /\ m >= w
    OBVIOUS
  <2>1. m >= w /\ w >= 1
    BY <1>1, <1>5
  <2>2. m # 0
    BY <1>1, <2>1
  <2> QED
    BY <1>5, <2>1, <2>2
<1> QED
  BY <1>4, <1>5, <1>6 DEF m

\* Where no two faults answer alike, a fault is lifted to the one that answers like it.
LEMMA PaperLift ==
  ASSUME NEW dem, IsModel(dem), ~Ambiguous(dem), NEW v \in DOMAIN dem, NEW by \in Coordinates
  PROVE  /\ Lifted(dem, "paper", by)[v] \in {0} \cup DOMAIN dem
         /\ \A w \in DOMAIN dem : Lifted(dem, "paper", by)[v] = w <=> AnswersAs(dem, v, by, w)
<1> DEFINE r == MovedResponse(dem, "paper", v, by)
           l == Lookup(dem, "paper", r)
<1>1. Lifted(dem, "paper", by)[v] = l
  BY DEF Lifted
<1>2. \A w \in DOMAIN dem : Response(dem, "paper", w) = r <=> AnswersAs(dem, v, by, w)
  BY DEF Response, MovedResponse, Key, AnswersAs
<1> HIDE DEF r
<1>3. /\ l \in {0} \cup DOMAIN dem
      /\ l \in DOMAIN dem => Response(dem, "paper", l) = r
      /\ \A w \in DOMAIN dem : Response(dem, "paper", w) = r => l \in DOMAIN dem
  BY LookupFinds
<1> HIDE DEF l
<1>4. \A w \in DOMAIN dem : l = w => AnswersAs(dem, v, by, w)
  BY <1>2, <1>3
<1>5. \A w \in DOMAIN dem : AnswersAs(dem, v, by, w) => l = w
  <2> SUFFICES ASSUME NEW w \in DOMAIN dem, AnswersAs(dem, v, by, w) PROVE l = w
    OBVIOUS
  <2>1. l \in DOMAIN dem
    BY <1>2, <1>3
  <2>2. AnswersAs(dem, v, by, l)
    BY <1>4, <2>1
  <2>3. dem[l].mask = dem[w].mask /\ dem[l].prior = dem[w].prior
    BY <2>2 DEF AnswersAs
  <2> QED
    BY <2>1, <2>3, KeysDiffer
<1> QED
  BY <1>1, <1>3, <1>4, <1>5

\* The translations lift to a model they act on.
LEMMA ClosedLifts ==
  ASSUME NEW dem, IsModel(dem), ~Ambiguous(dem), Closed(dem)
  PROVE  AreLifts(dem, Lifts(dem, "paper"))
<1>1. ASSUME NEW by \in Coordinates, NEW v \in DOMAIN dem
      PROVE  /\ Lifted(dem, "paper", by)[v] \in DOMAIN dem
             /\ AnswersAs(dem, v, by, Lifted(dem, "paper", by)[v])
  <2>1. PICK w \in DOMAIN dem : Key(dem[w]) = <<Translate(dem[v].mask, by), dem[v].prior>>
    BY DEF Closed
  <2>2. AnswersAs(dem, v, by, w)
    BY <2>1 DEF Key, AnswersAs
  <2> QED
    BY <2>2, PaperLift
<1>2. \A by \in Coordinates : Lifted(dem, "paper", by) \in [DOMAIN dem -> DOMAIN dem]
  <2> SUFFICES ASSUME NEW by \in Coordinates PROVE Lifted(dem, "paper", by) \in [DOMAIN dem -> DOMAIN dem]
    OBVIOUS
  <2> DEFINE f == Lifted(dem, "paper", by)
  <2>1. f = [v \in DOMAIN dem |-> f[v]]
    BY DEF Lifted
  <2> HIDE DEF f
  <2>2. \A v \in DOMAIN dem : f[v] \in DOMAIN dem
    BY <1>1 DEF f
  <2>3. f \in [DOMAIN dem -> DOMAIN dem]
    BY <2>1, <2>2
  <2> QED
    BY <2>3 DEF f
<1> QED
  BY <1>1, <1>2 DEF AreLifts, Lifts

\* Lifts that are permutations of the faults are lifts.
LEMMA ValidLifts ==
  ASSUME NEW dem, IsModel(dem), ~Ambiguous(dem),
         \A by \in Coordinates : LiftIsValid(dem, Lifted(dem, "paper", by), by)
  PROVE  AreLifts(dem, Lifts(dem, "paper"))
<1>1. ASSUME NEW by \in Coordinates, NEW v \in DOMAIN dem
      PROVE  Lifted(dem, "paper", by)[v] \in DOMAIN dem
  <2>1. Range(Lifted(dem, "paper", by)) = DOMAIN dem
    BY DEF LiftIsValid
  <2>2. DOMAIN Lifted(dem, "paper", by) = DOMAIN dem
    BY DEF Lifted
  <2> QED
    BY <2>1, <2>2 DEF Range
<1>2. Closed(dem)
  <2> SUFFICES ASSUME NEW v \in DOMAIN dem, NEW by \in Coordinates
               PROVE  \E w \in DOMAIN dem : Key(dem[w]) = <<Translate(dem[v].mask, by), dem[v].prior>>
    BY DEF Closed
  <2>1. AnswersAs(dem, v, by, Lifted(dem, "paper", by)[v])
    BY <1>1, PaperLift
  <2> QED
    BY <1>1, <2>1 DEF AnswersAs, Key
<1> QED
  BY <1>2, ClosedLifts

\* Lifts are valid: permutations of the faults that take every row to the moved row.
LEMMA LiftsAreValid ==
  ASSUME NEW dem, IsModel(dem), ~Ambiguous(dem), NEW lifts, AreLifts(dem, lifts), NEW by \in Coordinates
  PROVE  LiftIsValid(dem, lifts[by], by)
<1> DEFINE f == lifts[by]
<1>1. f \in [DOMAIN dem -> DOMAIN dem] /\ \A v \in DOMAIN dem : AnswersAs(dem, v, by, f[v])
  BY DEF AreLifts
<1> HIDE DEF f
<1>2. ASSUME NEW w \in DOMAIN dem PROVE \E v \in DOMAIN dem : f[v] = w
  <2> DEFINE o == Opposite(by)
             v == lifts[o][w]
  <2>1. o \in Coordinates /\ Add(o, by) = 0
    BY OppositeFacts
  <2> HIDE DEF o
  <2>2. v \in DOMAIN dem /\ AnswersAs(dem, w, o, v)
    BY <2>1 DEF AreLifts
  <2> HIDE DEF v
  <2>3. f[v] \in DOMAIN dem /\ AnswersAs(dem, v, by, f[v])
    BY <1>1, <2>2
  <2>4. AnswersAs(dem, w, Add(o, by), f[v])
    BY <2>1, <2>2, <2>3, AnswersLaws
  <2>5. dem[f[v]].mask = dem[w].mask /\ dem[f[v]].prior = dem[w].prior
    <3>1. dem[w].mask \in SUBSET Detectors
      BY DEF IsModel
    <3> QED
      BY <2>1, <2>4, <3>1, TranslateZero DEF AnswersAs
  <2>6. f[v] = w
    BY <2>3, <2>5, KeysDiffer
  <2> QED
    BY <2>2, <2>6
<1>3. Range(f) = DOMAIN dem
  BY <1>1, <1>2 DEF Range
<1>4. ASSUME NEW d \in Detectors
      PROVE  {f[v] : v \in ToSet(Neighbors(dem, d))} =
               ToSet(Neighbors(dem, SliceOf(d) * GroupOrder + Add(d % GroupOrder, by)))
  <2> DEFINE e == Shift(d, by)
  <2>1. SliceOf(d) * GroupOrder + Add(d % GroupOrder, by) = e
    BY DEF SliceOf, Shift
  <2>2. /\ ToSet(Neighbors(dem, d)) = {v \in DOMAIN dem : d \in dem[v].mask}
        /\ ToSet(Neighbors(dem, e)) = {v \in DOMAIN dem : e \in dem[v].mask}
    BY NeighborFacts
  <2>3. \A v \in DOMAIN dem : e \in dem[f[v]].mask <=> d \in dem[v].mask
    <3> SUFFICES ASSUME NEW v \in DOMAIN dem PROVE e \in dem[f[v]].mask <=> d \in dem[v].mask
      OBVIOUS
    <3>1. dem[f[v]].mask = Translate(dem[v].mask, by) /\ dem[v].mask \in SUBSET Detectors
      BY <1>1 DEF AnswersAs, IsModel
    <3> QED
      BY <3>1, TranslateMember
  <2> HIDE DEF e
  <2>4. {f[v] : v \in {w \in DOMAIN dem : d \in dem[w].mask}} = {v \in DOMAIN dem : e \in dem[v].mask}
    BY <1>1, <1>2, <2>3
  <2> QED
    BY <2>1, <2>2, <2>4
<1> QED
  BY <1>3, <1>4 DEF LiftIsValid, f

\* Different translations lift to different permutations of a model they act on freely.
LEMMA LiftsDiffer ==
  ASSUME NEW dem, IsModel(dem), Free(dem), NEW v \in DOMAIN dem, NEW lifts, AreLifts(dem, lifts)
  PROVE  IsInjective(lifts)
<1>1. DOMAIN lifts = Coordinates
  BY DEF AreLifts
<1>2. ASSUME NEW a \in Coordinates, NEW b \in Coordinates, lifts[a] = lifts[b] PROVE a = b
  <2>1. Translate(dem[v].mask, a) = Translate(dem[v].mask, b)
    BY <1>2 DEF AreLifts, AnswersAs
  <2>2. /\ Add(a, Opposite(b)) \in Coordinates
        /\ Translate(dem[v].mask, Add(a, Opposite(b))) = dem[v].mask
        /\ Add(a, Opposite(b)) = 0 => a = b
    BY <2>1, SameAnswer
  <2>3. Add(a, Opposite(b)) = 0
    BY <2>2 DEF Free
  <2> QED
    BY <2>2, <2>3
<1> QED
  BY <1>1, <1>2 DEF IsInjective

-----------------------------------------------------------------------------
(* Lifted orbits.                                                          *)

GroupStart(dem) == [ok |-> TRUE, left |-> DOMAIN dem, count |-> 0, at |-> <<>>]

\* The orbits under some lifts, and f, which runs through the states of the grouping.
Grouped(dem, lifts) ==
  FoldLeft(LAMBDA s, id : AddLiftedOrbit(dem, lifts, s, id - 1), GroupStart(dem),
           [i \in 1 .. Len(dem) |-> i])
IsGrouping(f, dem, lifts) ==
  /\ f[0] = GroupStart(dem)
  /\ \A k \in 1 .. Len(dem) : f[k] = AddLiftedOrbit(dem, lifts, f[k - 1], k - 1)

LEMMA GroupedByPosition ==
  ASSUME NEW dem, IsModel(dem), NEW lifts
  PROVE  \E f : IsGrouping(f, dem, lifts) /\ Grouped(dem, lifts) = f[Len(dem)]
<1> DEFINE n == Len(dem)
           b == GroupStart(dem)
           Step(t, i) == AddLiftedOrbit(dem, lifts, t, i - 1)
           Rec(g, m) == [S \in SUBSET (1 .. m) |-> IF S = {} THEN b ELSE Step(g[S \ {Max(S)}], Max(S))]
           D == {m \in 0 .. n : \E g : g = Rec(g, m)}
<1>1. n \in Nat /\ DOMAIN [i \in 1 .. Len(dem) |-> i] = 1 .. n
  BY DEF IsModel
<1> HIDE DEF b, Step, n
<1>2. 0 \in D
  <2> DEFINE g == [S \in SUBSET (1 .. 0) |-> b]
  <2>1. \A S \in SUBSET (1 .. 0) : S = {}
    OBVIOUS
  <2>2. g = Rec(g, 0)
    BY <2>1
  <2> QED
    BY <1>1, <2>2
<1>3. ASSUME NEW m \in 1 .. n, (m - 1) \in D PROVE m \in D
  <2>1. PICK g : g = Rec(g, m - 1)
    BY <1>3
  <2> DEFINE h == [S \in SUBSET (1 .. m) |-> IF m \in S THEN Step(g[S \ {m}], m) ELSE g[S]]
  <2>2. ASSUME NEW S \in SUBSET (1 .. m)
        PROVE  h[S] = IF S = {} THEN b ELSE Step(h[S \ {Max(S)}], Max(S))
    <3>1. CASE m \in S
      <4>1. m \in Nat /\ S # {}
        BY <3>1
      <4>2. Max(S) \in 1 .. m /\ Max(S) >= m
        BY <3>1, <4>1, MaxOfPositions
      <4>3. Max(S) = m
        BY <4>1, <4>2
      <4>4. S \ {m} \in SUBSET (1 .. m) /\ m \notin S \ {m}
        OBVIOUS
      <4>5. h[S \ {m}] = g[S \ {m}]
        BY <4>4
      <4> QED
        BY <3>1, <4>1, <4>3, <4>5
    <3>2. CASE m \notin S
      <4>1. S \in SUBSET (1 .. (m - 1)) /\ h[S] = g[S] /\ m - 1 \in Nat
        BY <3>2
      <4>2. g[S] = IF S = {} THEN b ELSE Step(g[S \ {Max(S)}], Max(S))
        BY <2>1, <4>1
      <4>3. S \ {Max(S)} \in SUBSET (1 .. m) /\ m \notin S \ {Max(S)}
        BY <3>2
      <4>4. h[S \ {Max(S)}] = g[S \ {Max(S)}]
        BY <4>3
      <4> QED
        BY <4>1, <4>2, <4>4
    <3> QED
      BY <3>1, <3>2
  <2>3. h = Rec(h, m)
    BY <2>2
  <2> HIDE DEF Rec
  <2> QED
    BY <1>1, <2>3
<1> HIDE DEF D
<1>4. 0 .. n \subseteq D
  BY <1>1, <1>2, <1>3, IntervalInduction
<1>5. \E g : g = Rec(g, n)
  <2> HIDE DEF Rec
  <2> QED
    BY <1>1, <1>4 DEF D
<1> DEFINE h == CHOOSE k : k = Rec(k, n)
<1>6. h = Rec(h, n)
  BY <1>5
<1>7. Grouped(dem, lifts) = h[1 .. n]
  <2> DEFINE order == [i \in 1 .. Len(dem) |-> i]
             Raw(k) == [S \in SUBSET (1 .. n) |-> IF S = {} THEN b ELSE AddLiftedOrbit(dem, lifts, k[S \ {Max(S)}], order[Max(S)] - 1)]
  <2>1. DOMAIN order = 1 .. n
    BY <1>1
  <2>2. \A S \in SUBSET (1 .. n) : S # {} => order[Max(S)] = Max(S)
    BY <1>1, <2>1, MaxOfPositions
  <2>3. \A k : Raw(k) = Rec(k, n)
    BY <2>2 DEF Step
  <2>4. Grouped(dem, lifts) = (CHOOSE k : k = Raw(k))[1 .. n]
    BY <2>1 DEF Grouped, FoldLeft, MapThenFoldSet, b
  <2>5. (CHOOSE k : k = Raw(k)) = h
    <3> HIDE DEF Raw, Rec
    <3> QED
      BY <2>3
  <2> HIDE DEF h
  <2> QED
    BY <2>4, <2>5
<1> DEFINE f == [i \in 0 .. n |-> h[1 .. i]]
<1> HIDE DEF h
<1>8. f[0] = b
  <2>1. 1 .. 0 = {}
    OBVIOUS
  <2> QED
    BY <2>1, <1>6, <1>1
<1>9. ASSUME NEW i \in 1 .. n PROVE f[i] = Step(f[i - 1], i)
  <2>1. Max(1 .. i) = i /\ 1 .. i \in SUBSET (1 .. n) /\ 1 .. i # {} /\ (1 .. i) \ {i} = 1 .. (i - 1)
    BY <1>1, MaxOfInterval
  <2>2. h[1 .. i] = Step(h[(1 .. i) \ {Max(1 .. i)}], Max(1 .. i))
    BY <1>6, <2>1
  <2>3. h[1 .. i] = Step(h[1 .. (i - 1)], i)
    BY <2>1, <2>2
  <2>4. i \in 0 .. n /\ i - 1 \in 0 .. n
    BY <1>1
  <2> QED
    BY <2>3, <2>4
<1>10. f[n] = h[1 .. n]
  BY <1>1
<1> HIDE DEF f, h
<1>11. IsGrouping(f, dem, lifts)
  BY <1>8, <1>9 DEF IsGrouping, n, b, Step
<1> QED
  BY <1>7, <1>10, <1>11 DEF n

LEMMA LiftedAreGrouped ==
  ASSUME NEW dem, NEW flavour
  PROVE  LiftedOrbits(dem, flavour) = Grouped(dem, Lifts(dem, flavour))
BY DEF LiftedOrbits, Grouped, GroupStart, Lifts

\* The states of the grouping, and one that says what a state of the compilation says.
GroupStates(dem) ==
  [ok : BOOLEAN, left : SUBSET DOMAIN dem, count : Nat,
   at : UNION {[D -> Nat \X Coordinates] : D \in SUBSET DOMAIN dem}]
Alike(dem, s, r) ==
  /\ s \in OrbitStates(dem) /\ r \in GroupStates(dem)
  /\ r.ok = s.ok /\ r.left = s.left /\ r.count = Len(s.reps) /\ r.at = s.at

LEMMA GroupExcept ==
  ASSUME NEW A, NEW B, NEW C, NEW E, NEW s \in [ok : A, left : B, count : C, at : E],
         NEW l \in B, NEW n \in C, NEW a \in E
  PROVE  /\ [s EXCEPT !.left = l, !.count = n, !.at = a] \in [ok : A, left : B, count : C, at : E]
         /\ [s EXCEPT !.left = l, !.count = n, !.at = a].ok = s.ok
         /\ [s EXCEPT !.left = l, !.count = n, !.at = a].left = l
         /\ [s EXCEPT !.left = l, !.count = n, !.at = a].count = n
         /\ [s EXCEPT !.left = l, !.count = n, !.at = a].at = a
OBVIOUS

LEMMA OrbitExcept ==
  ASSUME NEW A, NEW B, NEW C, NEW E, NEW s \in [ok : A, left : B, reps : C, at : E],
         NEW l \in B, NEW n \in C, NEW a \in E
  PROVE  /\ [s EXCEPT !.left = l, !.reps = n, !.at = a].ok = s.ok
         /\ [s EXCEPT !.left = l, !.reps = n, !.at = a].left = l
         /\ [s EXCEPT !.left = l, !.reps = n, !.at = a].reps = n
         /\ [s EXCEPT !.left = l, !.reps = n, !.at = a].at = a
OBVIOUS

\* The orbit of a representative, in a state that finds a coordinate for each of its faults.
LiftOrbit(lifts, rep) == {lifts[by][rep] : by \in Coordinates}
LiftCoordinate(lifts, rep, v) == CHOOSE by \in Coordinates : lifts[by][rep] = v

LEMMA AddLiftedCases ==
  ASSUME NEW dem, NEW lifts, NEW s, NEW id
  PROVE  AddLiftedOrbit(dem, lifts, s, id) =
           IF Ended(s) THEN s
           ELSE IF Cardinality(LiftOrbit(lifts, Min(s.left))) # GroupOrder THEN [s EXCEPT !.ok = FALSE]
           ELSE [s EXCEPT !.left = @ \ LiftOrbit(lifts, Min(s.left)), !.count = @ + 1,
                          !.at = [v \in DOMAIN @ \cup LiftOrbit(lifts, Min(s.left)) |->
                                    IF v \in LiftOrbit(lifts, Min(s.left))
                                    THEN <<id, LiftCoordinate(lifts, Min(s.left), v)>>
                                    ELSE @[v]]]
  BY DEF AddLiftedOrbit, Ended, LiftOrbit, LiftCoordinate

\* What the lifts say of a representative is what the table of responses says.
LEMMA OrbitsAreLifted ==
  ASSUME NEW dem, IsModel(dem), ~Ambiguous(dem), NEW lifts, AreLifts(dem, lifts), NEW rep \in DOMAIN dem
  PROVE  /\ OrbitOf(dem, rep) = LiftOrbit(lifts, rep)
         /\ Spoiled(dem, rep) <=> Cardinality(LiftOrbit(lifts, rep)) # GroupOrder
         /\ \A v : CoordinateIn(dem, rep, v) = LiftCoordinate(lifts, rep, v)
<1>1. \A by \in Coordinates : Images(dem, rep)[by] = {lifts[by][rep]}
  <2> SUFFICES ASSUME NEW by \in Coordinates PROVE Images(dem, rep)[by] = {lifts[by][rep]}
    OBVIOUS
  <2> DEFINE w == lifts[by][rep]
  <2>1. w \in DOMAIN dem /\ AnswersAs(dem, rep, by, w)
    BY DEF AreLifts
  <2> HIDE DEF w
  <2>2. Images(dem, rep)[by] = {x \in DOMAIN dem : AnswersAs(dem, rep, by, x)}
    BY TranslatedAnswers DEF Images
  <2>3. \A x \in DOMAIN dem : AnswersAs(dem, rep, by, x) => x = w
    BY <2>1, KeysDiffer DEF AnswersAs
  <2>4. Images(dem, rep)[by] = {w}
    BY <2>1, <2>2, <2>3
  <2> QED
    BY <2>4 DEF w
<1>2. DOMAIN Images(dem, rep) = Coordinates
  BY DEF Images
<1>3. OrbitOf(dem, rep) = LiftOrbit(lifts, rep)
  <2> DEFINE f == Images(dem, rep)
  <2>1. Range(f) = {{lifts[by][rep]} : by \in Coordinates}
    BY <1>1, <1>2 DEF Range
  <2>2. UNION {{lifts[by][rep]} : by \in Coordinates} = {lifts[by][rep] : by \in Coordinates}
    OBVIOUS
  <2> QED
    BY <2>1, <2>2 DEF OrbitOf, LiftOrbit
<1>4. Spoiled(dem, rep) <=> Cardinality(LiftOrbit(lifts, rep)) # GroupOrder
  BY <1>1, <1>3 DEF Spoiled
<1>5. ASSUME NEW v PROVE CoordinateIn(dem, rep, v) = LiftCoordinate(lifts, rep, v)
  <2>1. \A by \in Coordinates : v \in Images(dem, rep)[by] <=> lifts[by][rep] = v
    BY <1>1
  <2> QED
    BY <2>1 DEF CoordinateIn, LiftCoordinate
<1> QED
  BY <1>3, <1>4, <1>5

LEMMA StepsAlike ==
  ASSUME NEW dem, IsModel(dem), ~Ambiguous(dem), NEW lifts, AreLifts(dem, lifts),
         NEW id \in Nat, NEW s, NEW r, Alike(dem, s, r)
  PROVE  Alike(dem, AddOrbit(dem, s, id), AddLiftedOrbit(dem, lifts, r, id))
<1> DEFINE t == AddOrbit(dem, s, id)
           u == AddLiftedOrbit(dem, lifts, r, id)
           rep == Min(s.left)
           E == UNION {[D -> Nat \X Coordinates] : D \in SUBSET DOMAIN dem}
           left == s.left \ OrbitOf(dem, rep)
           at == [v \in DOMAIN s.at \cup OrbitOf(dem, rep) |->
                    IF v \in OrbitOf(dem, rep) THEN <<id, CoordinateIn(dem, rep, v)>> ELSE s.at[v]]
<1>1. /\ s \in OrbitStates(dem) /\ r \in GroupStates(dem)
      /\ r.ok = s.ok /\ r.left = s.left /\ r.count = Len(s.reps) /\ r.at = s.at
  BY DEF Alike
<1>2. t \in OrbitStates(dem)
  BY <1>1, AddOrbitType
<1>3. Ended(s) <=> Ended(r)
  BY <1>1 DEF Ended
<1>4. CASE Ended(s)
  <2>1. t = s /\ u = r
    BY <1>3, <1>4, AddOrbitCases, AddLiftedCases
  <2> QED
    BY <2>1
<1>5. CASE ~Ended(s)
  <2>1. s.left \in SUBSET DOMAIN dem /\ s.left # {}
    BY <1>1, <1>5 DEF Ended, OrbitStates
  <2>2. rep \in DOMAIN dem
    BY <2>1, LeastLeft
  <2>3. /\ OrbitOf(dem, rep) = LiftOrbit(lifts, rep)
        /\ Spoiled(dem, rep) <=> Cardinality(LiftOrbit(lifts, rep)) # GroupOrder
        /\ \A v : CoordinateIn(dem, rep, v) = LiftCoordinate(lifts, rep, v)
    BY <2>2, OrbitsAreLifted
  <2>4. rep = Min(r.left)
    BY <1>1
  <2>5. CASE Spoiled(dem, rep)
    <3>1. t = [s EXCEPT !.ok = FALSE] /\ u = [r EXCEPT !.ok = FALSE]
      BY <1>3, <1>5, <2>3, <2>4, <2>5, AddOrbitCases, AddLiftedCases
    <3>2. /\ t.ok = FALSE /\ t.left = s.left /\ t.reps = s.reps /\ t.at = s.at
          /\ u \in GroupStates(dem) /\ u.ok = FALSE /\ u.left = r.left /\ u.count = r.count /\ u.at = r.at
      <4> HIDE DEF t, u, E, rep, left, at
      <4> DEFINE X == UNION {[D -> Nat \X Coordinates] : D \in SUBSET DOMAIN dem}
      <4>1. s \in [ok : BOOLEAN, left : SUBSET DOMAIN dem, reps : Seq(DOMAIN dem), at : X]
        BY <1>1 DEF OrbitStates
      <4>2. r \in [ok : BOOLEAN, left : SUBSET DOMAIN dem, count : Nat, at : X]
        BY <1>1 DEF GroupStates
      <4> HIDE DEF X
      <4>3. u \in [ok : BOOLEAN, left : SUBSET DOMAIN dem, count : Nat, at : X]
        BY <3>1, <4>2
      <4>4. t.ok = FALSE /\ t.left = s.left /\ t.reps = s.reps /\ t.at = s.at
        BY <3>1, <4>1
      <4>5. u.ok = FALSE /\ u.left = r.left /\ u.count = r.count /\ u.at = r.at
        BY <3>1, <4>2
      <4> QED
        BY <4>3, <4>4, <4>5 DEF GroupStates, X
    <3> HIDE DEF t, u
    <3>3. Alike(dem, t, u)
      BY <1>1, <1>2, <3>2 DEF Alike
    <3> QED
      BY <3>3 DEF t, u
  <2>6. CASE ~Spoiled(dem, rep)
    <3> DEFINE reps == Append(s.reps, rep)
               n == r.count + 1
    <3>1. t = [s EXCEPT !.left = left, !.reps = reps, !.at = at]
      BY <1>5, <2>6, AddOrbitCases
    <3>2. at = [v \in DOMAIN r.at \cup LiftOrbit(lifts, rep) |->
                  IF v \in LiftOrbit(lifts, rep) THEN <<id, LiftCoordinate(lifts, rep, v)>> ELSE r.at[v]]
      BY <1>1, <2>3
    <3>3. left = r.left \ LiftOrbit(lifts, rep)
      BY <1>1, <2>3
    <3>4. u = [r EXCEPT !.left = left, !.count = n, !.at = at]
      <4> DEFINE O == LiftOrbit(lifts, rep)
                 a == [v \in DOMAIN r.at \cup O |->
                         IF v \in O THEN <<id, LiftCoordinate(lifts, rep, v)>> ELSE r.at[v]]
                 l == r.left \ O
      <4>1. u = [r EXCEPT !.left = l, !.count = n, !.at = a]
        BY <1>3, <1>5, <2>3, <2>4, <2>6, AddLiftedCases
      <4>2. a = at /\ l = left
        BY <3>2, <3>3
      <4> HIDE DEF u, a, l, at, left, n
      <4> QED
        BY <4>1, <4>2
    <3>5. s.reps \in Seq(DOMAIN dem) /\ reps \in Seq(DOMAIN dem) /\ Len(reps) = Len(s.reps) + 1
      BY <1>1, <2>2 DEF OrbitStates
    <3>6. /\ s \in [ok : BOOLEAN, left : SUBSET DOMAIN dem, reps : Seq(DOMAIN dem), at : E]
          /\ r \in [ok : BOOLEAN, left : SUBSET DOMAIN dem, count : Nat, at : E]
      BY <1>1 DEF OrbitStates, GroupStates
    <3>7. left \in SUBSET DOMAIN dem /\ n \in Nat
      <4>1. r.count \in Nat
        BY <3>6
      <4> QED
        BY <2>1, <4>1
    <3>8. at \in E
      <4> DEFINE D == DOMAIN s.at \cup OrbitOf(dem, rep)
      <4>1. s.at \in E
        BY <3>6
      <4>2. PICK C \in SUBSET DOMAIN dem : s.at \in [C -> Nat \X Coordinates]
        BY <4>1
      <4>3. DOMAIN s.at = C /\ \A v \in C : s.at[v] \in Nat \X Coordinates
        BY <4>2
      <4>4. \A v \in OrbitOf(dem, rep) : CoordinateIn(dem, rep, v) \in Coordinates
        BY OrbitMembers
      <4>5. D \in SUBSET DOMAIN dem
        BY <4>3, OrbitMembers
      <4>6. at = [v \in D |-> IF v \in OrbitOf(dem, rep) THEN <<id, CoordinateIn(dem, rep, v)>> ELSE s.at[v]]
        OBVIOUS
      <4>7. \A v \in D : v \in OrbitOf(dem, rep) \/ v \in C
        BY <4>3
      <4> HIDE DEF D, at, rep, E
      <4>8. at \in [D -> Nat \X Coordinates]
        BY <4>3, <4>4, <4>6, <4>7
      <4> QED
        BY <4>5, <4>8 DEF E
    <3> HIDE DEF left, at, reps, n, E
    <3>9. t.ok = s.ok /\ t.left = left /\ t.reps = reps /\ t.at = at
      BY <3>1, <3>5, <3>6, <3>7, <3>8, OrbitExcept
    <3>10. u \in [ok : BOOLEAN, left : SUBSET DOMAIN dem, count : Nat, at : E]
           /\ u.ok = r.ok /\ u.left = left /\ u.count = n /\ u.at = at
      <4> DEFINE B == SUBSET DOMAIN dem
                 C == Nat
                 x == [r EXCEPT !.left = left, !.count = n, !.at = at]
      <4>1. r \in [ok : BOOLEAN, left : B, count : C, at : E] /\ left \in B /\ n \in C /\ at \in E
        BY <3>6, <3>7, <3>8
      <4> HIDE DEF B, C, u
      <4>2. x \in [ok : BOOLEAN, left : B, count : C, at : E]
            /\ x.ok = r.ok /\ x.left = left /\ x.count = n /\ x.at = at
        BY <4>1, GroupExcept
      <4>3. u = x
        BY <3>4
      <4> HIDE DEF x
      <4> QED
        BY <4>2, <4>3 DEF B, C
    <3> HIDE DEF t, u
    <3>11. Alike(dem, t, u)
      BY <1>1, <1>2, <3>5, <3>9, <3>10 DEF Alike, GroupStates, E, n
    <3> QED
      BY <3>11 DEF t, u
  <2> QED
    BY <2>5, <2>6
<1> QED
  BY <1>4, <1>5

\* The S1 compiler finds the orbits that the S2 compiler finds, whatever lifts it works with.
LEMMA GroupsAlike ==
  ASSUME NEW dem, IsModel(dem), ~Ambiguous(dem), NEW lifts, AreLifts(dem, lifts)
  PROVE  Alike(dem, Orbits(dem), Grouped(dem, lifts))
<1> DEFINE n == Len(dem)
<1>1. PICK f : IsOrbiting(f, dem) /\ Orbits(dem) = f[Len(dem)]
  BY OrbitsByPosition
<1>2. PICK g : IsGrouping(g, dem, lifts) /\ Grouped(dem, lifts) = g[Len(dem)]
  BY GroupedByPosition
<1> DEFINE D == {k \in 0 .. n : Alike(dem, f[k], g[k])}
<1>3. n \in Nat
  BY DEF IsModel
<1>4. 0 \in D
  <2> DEFINE s == Start(dem)
             r == GroupStart(dem)
  <2>1. f[0] = s /\ g[0] = r
    BY <1>1, <1>2 DEF IsOrbiting, IsGrouping
  <2>2. s \in OrbitStates(dem)
    BY StartType
  <2>3. r \in GroupStates(dem)
    <3> DEFINE E == UNION {[C -> Nat \X Coordinates] : C \in SUBSET DOMAIN dem}
    <3>1. <<>> \in [{} -> Nat \X Coordinates] /\ {} \in SUBSET DOMAIN dem
      OBVIOUS
    <3>2. <<>> \in E
      BY <3>1
    <3> HIDE DEF E
    <3>3. r \in [ok : BOOLEAN, left : SUBSET DOMAIN dem, count : Nat, at : E]
      BY <3>2 DEF GroupStart
    <3> QED
      BY <3>3 DEF GroupStates, E
  <2>4. r.ok = s.ok /\ r.left = s.left /\ r.count = Len(s.reps) /\ r.at = s.at
    BY DEF Start, GroupStart
  <2> HIDE DEF s, r
  <2>5. Alike(dem, s, r)
    BY <2>2, <2>3, <2>4 DEF Alike
  <2> QED
    BY <1>3, <2>1, <2>5
<1>5. ASSUME NEW k \in 1 .. n, (k - 1) \in D PROVE k \in D
  <2> DEFINE p == k - 1
  <2>1. p \in Nat /\ k \in 0 .. n
    BY <1>3
  <2>2. f[k] = AddOrbit(dem, f[p], p) /\ g[k] = AddLiftedOrbit(dem, lifts, g[p], p)
    BY <1>1, <1>2 DEF IsOrbiting, IsGrouping
  <2>3. Alike(dem, f[p], g[p])
    BY <1>5
  <2> HIDE DEF p
  <2>4. Alike(dem, f[k], g[k])
    BY <2>1, <2>2, <2>3, StepsAlike
  <2> QED
    BY <2>1, <2>4
<1> HIDE DEF D
<1>6. 0 .. n \subseteq D
  BY <1>3, <1>4, <1>5, IntervalInduction
<1>7. n \in D
  BY <1>3, <1>6
<1> QED
  BY <1>1, <1>2, <1>7 DEF D

-----------------------------------------------------------------------------
(* The S1 image.                                                           *)

\* The image holds what the orbits s make of the model.
IsLiftedImage(image, dem, s) ==
  /\ image.at = s.at /\ image.orbits = Len(s.reps) /\ image.templates = Templates(dem, s.at)
  /\ image.colourings = Colourings(Templates(dem, s.at), Len(s.reps))
  /\ LanesDisjoint(dem)

\* The rows of a numbered model are read from their templates.
LEMMA NumberedRows ==
  ASSUME NEW dem, IsModel(dem), ~Ambiguous(dem), NEW s, Numbered(dem, s),
         NEW rows, rows.templates = Templates(dem, s.at)
  PROVE  RowsAreExact(dem, rows, s.at)
<1>1. ASSUME NEW t \in Times, NEW c \in Coordinates
      PROVE  ToSet(CompactNeighbors(rows, t, c)) =
               {Address(s.at[v]) : v \in ToSet(Neighbors(dem, t * GroupOrder + c))}
  <2>1. ToSet(CompactNeighbors(rows, t, c)) = Expanded(dem, s, t, c)
    BY RowExpands
  <2>2. {Address(s.at[v]) : v \in ToSet(Neighbors(dem, t * GroupOrder + c))} = Seen(dem, s, t, c)
    BY SeesRow
  <2> QED
    BY <2>1, <2>2, ExactRows
<1> QED
  BY <1>1 DEF RowsAreExact

\* The image over grouped orbits.
LEMMA LiftedImageCases ==
  ASSUME NEW dem, IsModel(dem), ~Ambiguous(dem), NEW s, Numbered(dem, s), NEW r,
         r.ok = TRUE, r.at = s.at, r.count = Len(s.reps)
  PROVE  /\ LiftedImage(dem, r).accepted =
              (LanesDisjoint(dem) /\ Colourings(Templates(dem, s.at), Len(s.reps)) # {})
         /\ LiftedImage(dem, r).accepted => IsLiftedImage(LiftedImage(dem, r), dem, s)
<1> DEFINE rows == [templates |-> Templates(dem, r.at)]
           C == Colourings(rows.templates, r.count)
           lanes == LanesDisjoint(dem)
           image == [accepted |-> TRUE, at |-> r.at, orbits |-> r.count,
                     templates |-> rows.templates, colourings |-> C]
           l == LiftedImage(dem, r)
<1>1. rows.templates = Templates(dem, s.at)
  OBVIOUS
<1>2. C = Colourings(Templates(dem, s.at), Len(s.reps))
  BY <1>1
<1>3. RowsAreExact(dem, rows, r.at)
  <2> HIDE DEF rows
  <2>1. RowsAreExact(dem, rows, s.at)
    BY <1>1, NumberedRows
  <2> QED
    BY <2>1
<1>4. lanes \in BOOLEAN
  BY DEF LanesDisjoint
<1>5. l = IF C = {} \/ ~lanes THEN Refused ELSE image
  BY <1>3 DEF LiftedImage
<1>6. /\ image.accepted = TRUE /\ image.at = s.at /\ image.orbits = Len(s.reps)
      /\ image.templates = rows.templates /\ image.colourings = C
  OBVIOUS
<1>7. Refused.accepted = FALSE
  BY DEF Refused
<1> HIDE DEF image, rows, C, l
<1>8. l.accepted = (lanes /\ C # {})
  <2> HIDE DEF lanes
  <2>1. CASE C = {} \/ ~lanes
    BY <1>4, <1>5, <1>7, <2>1
  <2>2. CASE ~(C = {} \/ ~lanes)
    BY <1>4, <1>5, <1>6, <2>2
  <2> QED
    BY <2>1, <2>2
<1>9. ASSUME l.accepted PROVE IsLiftedImage(l, dem, s)
  <2> HIDE DEF lanes
  <2>1. lanes /\ C # {}
    BY <1>8, <1>9
  <2>2. l = image
    BY <1>5, <2>1
  <2> QED
    BY <1>1, <1>2, <1>6, <2>1, <2>2 DEF IsLiftedImage, lanes
<1> QED
  BY <1>2, <1>8, <1>9 DEF l, lanes

\* What the S1 compiler makes of a model that has a fault, beside the S2 compiler.
PaperAgrees(paper, full, dem) ==
  /\ paper.accepted = (full.accepted /\ LanesDisjoint(dem) /\ Colourings(full.templates, full.orbits) # {})
  /\ paper.accepted =>
       /\ paper.at = full.at /\ paper.templates = full.templates /\ paper.orbits = full.orbits
       /\ ~Ambiguous(dem) /\ Numbered(dem, Orbits(dem)) /\ AreLifts(dem, Lifts(dem, "paper"))
       /\ IsLiftedImage(paper, dem, Orbits(dem))

LEMMA PaperImageFacts ==
  ASSUME NEW dem, IsModel(dem), NEW v \in DOMAIN dem
  PROVE  PaperAgrees(ComponentImage(dem, "paper"), Compile(dem), dem)
<1> DEFINE lifts == Lifts(dem, "paper")
           s == Orbits(dem)
           r == LiftedOrbits(dem, "paper")
           full == Compile(dem)
           paper == ComponentImage(dem, "paper")
<1>1. Refused.accepted = FALSE
  BY DEF Refused
<1>2. paper = IF ~FullActionsAccepted(dem, "paper") THEN Refused ELSE LiftedImage(dem, r)
  BY DEF ComponentImage
<1>3. FullActionsAccepted(dem, "paper") <=>
        /\ ~Ambiguous(dem) /\ IsInjective(lifts)
        /\ \A by \in Coordinates : LiftIsValid(dem, lifts[by], by)
  BY DEF FullActionsAccepted, Lifts
<1>4. ASSUME paper = Refused, full = Refused PROVE PaperAgrees(paper, full, dem)
  <2> HIDE DEF paper, full
  <2> QED
    BY <1>1, <1>4 DEF PaperAgrees
<1>5. CASE Ambiguous(dem)
  <2>1. full = Refused
    BY <1>5 DEF Compile
  <2>2. paper = Refused
    BY <1>2, <1>3, <1>5
  <2> QED
    BY <1>4, <2>1, <2>2
<1>6. CASE ~Ambiguous(dem)
  <2>1. full = ImageOf(dem, s)
    BY <1>6 DEF Compile
  <2>2. (s.ok => Numbered(dem, s)) /\ s.ok \in BOOLEAN
    BY <1>6, OrbitsEnd
  <2>3. AreLifts(dem, lifts) => r.ok = s.ok /\ r.count = Len(s.reps) /\ r.at = s.at
    BY <1>6, GroupsAlike, LiftedAreGrouped DEF Alike
  <2> HIDE DEF s, r
  <2>4. CASE s.ok
    <3>1. Numbered(dem, s) /\ s.ok = TRUE
      BY <2>2, <2>4
    <3>2. Closed(dem) /\ Free(dem)
      BY <1>6, <3>1, NumberedIsFree
    <3>3. AreLifts(dem, lifts)
      BY <1>6, <3>2, ClosedLifts
    <3>4. IsInjective(lifts) /\ \A by \in Coordinates : LiftIsValid(dem, lifts[by], by)
      <4> HIDE DEF lifts
      <4> QED
        BY <1>6, <3>2, <3>3, LiftsDiffer, LiftsAreValid
    <3>5. paper = LiftedImage(dem, r)
      BY <1>2, <1>3, <1>6, <3>4
    <3>6. IsTemplateImage(full, dem, s)
      BY <1>6, <2>1, <2>4, <3>1, TemplateFacts
    <3>7. r.ok = TRUE /\ r.count = Len(s.reps) /\ r.at = s.at
      BY <2>3, <3>1, <3>3
    <3>8. /\ paper.accepted = (LanesDisjoint(dem) /\ Colourings(Templates(dem, s.at), Len(s.reps)) # {})
          /\ paper.accepted => IsLiftedImage(paper, dem, s)
      BY <1>6, <3>1, <3>5, <3>7, LiftedImageCases
    <3> HIDE DEF paper, full, lifts
    <3>9. /\ full.accepted /\ full.at = s.at /\ full.orbits = Len(s.reps)
          /\ full.templates = Templates(dem, s.at)
      BY <3>6 DEF IsTemplateImage
    <3>10. full.accepted = TRUE
      <4>1. full = ImageOf(dem, s)
        BY <2>1
      <4>2. ImageOf(dem, s).accepted \in BOOLEAN
        BY DEF ImageOf, Refused
      <4> QED
        BY <3>9, <4>1, <4>2
    <3>11. paper.accepted = (full.accepted /\ LanesDisjoint(dem)
                               /\ Colourings(full.templates, full.orbits) # {})
      BY <3>8, <3>9, <3>10
    <3>12. paper.accepted =>
             /\ paper.at = full.at /\ paper.templates = full.templates /\ paper.orbits = full.orbits
             /\ IsLiftedImage(paper, dem, s)
      BY <3>8, <3>9 DEF IsLiftedImage
    <3>13. PaperAgrees(paper, full, dem)
      BY <1>6, <3>1, <3>3, <3>11, <3>12 DEF PaperAgrees, s, lifts
    <3> QED
      BY <3>13 DEF paper, full
  <2>5. CASE ~s.ok
    <3>1. full = Refused
      BY <2>1, <2>5 DEF ImageOf
    <3>2. paper = Refused
      <4>1. CASE ~FullActionsAccepted(dem, "paper")
        BY <1>2, <4>1
      <4>2. CASE FullActionsAccepted(dem, "paper")
        <5>1. \A by \in Coordinates : LiftIsValid(dem, Lifted(dem, "paper", by), by)
          BY <1>3, <4>2 DEF Lifts
        <5>2. AreLifts(dem, lifts)
          BY <1>6, <5>1, ValidLifts
        <5>3. ~r.ok
          BY <2>3, <2>5, <5>2
        <5>4. LiftedImage(dem, r) = Refused
          BY <5>3 DEF LiftedImage
        <5> QED
          BY <1>2, <4>2, <5>4
      <4> QED
        BY <4>1, <4>2
    <3> QED
      BY <1>4, <3>1, <3>2
  <2> QED
    BY <2>2, <2>4, <2>5
<1> QED
  BY <1>5, <1>6

-----------------------------------------------------------------------------
(* What the hardware does with an S1 image.                                *)

LEMMA AddCommutes ==
  ASSUME NEW a \in Coordinates, NEW b \in Coordinates
  PROVE  Add(a, b) = Add(b, a)
<1> DEFINE p == a \div YDim
           q == b \div YDim
           u == a % YDim
           w == b % YDim
<1>1. p \in Int /\ q \in Int /\ u \in Int /\ w \in Int
  BY CoordinateParts
<1>2. /\ Add(a, b) = ((p + q) % XDim) * YDim + ((u + w) % YDim)
      /\ Add(b, a) = ((q + p) % XDim) * YDim + ((w + u) % YDim)
  BY DEF Add
<1> HIDE DEF p, q, u, w
<1>3. p + q = q + p /\ u + w = w + u
  BY <1>1
<1> QED
  BY <1>2, <1>3

\* A lifted translation adds to the coordinate.
LEMMA LiftsAdd ==
  ASSUME NEW dem, IsModel(dem), ~Ambiguous(dem), NEW s, Numbered(dem, s),
         NEW lifts, AreLifts(dem, lifts), NEW v \in DOMAIN dem, NEW by \in Coordinates
  PROVE  s.at[lifts[by][v]] = <<s.at[v][1], Add(s.at[v][2], by)>>
<1>1. PICK w \in DOMAIN dem : MovesTo(dem, s, v, by, w)
  BY MovedPlace
<1> DEFINE x == lifts[by][v]
<1>2. x \in DOMAIN dem /\ AnswersAs(dem, v, by, x)
  BY DEF AreLifts
<1> HIDE DEF x
<1>3. AnswersAs(dem, v, by, w) /\ s.at[w] = <<s.at[v][1], Add(s.at[v][2], by)>>
  BY <1>1 DEF MovesTo
<1>4. x = w
  BY <1>2, <1>3, KeysDiffer DEF AnswersAs
<1> QED
  BY <1>3, <1>4 DEF x

\* The lanes of a slice reach different addresses.
LEMMA LanesReach ==
  ASSUME NEW dem, IsModel(dem), ~Ambiguous(dem), NEW s, Numbered(dem, s),
         NEW lifts, AreLifts(dem, lifts), LanesDisjoint(dem),
         NEW image, image.templates = Templates(dem, s.at),
         NEW t \in Times, NEW c \in Coordinates
  PROVE  ToSet(CompactNeighbors(image, t, c))
           \cap ToSet(CompactNeighbors(image, t, Add(c, GroupOrder \div 2))) = {}
<1> DEFINE h == GroupOrder \div 2
           e == Add(c, h)
           o == Opposite(c)
<1>1. h \in Coordinates /\ h >= 1 /\ h \in Nat
  <2> DEFINE n == GroupOrder
  <2>1. n \in Nat /\ n > 1 /\ Coordinates = 0 .. n - 1
    BY Sizes, LanesAssumption DEF Coordinates
  <2> HIDE DEF n
  <2>2. n \div 2 \in Nat /\ n \div 2 >= 1 /\ n \div 2 <= n - 1
    BY <2>1
  <2> QED
    BY <2>1, <2>2 DEF n
<1> HIDE DEF h
<1>2. e \in Coordinates /\ o \in Coordinates /\ Add(c, o) = 0
  BY <1>1, AddParts, OppositeFacts
<1>3. Add(e, o) = h
  <2>1. e = Add(h, c)
    BY <1>1, AddCommutes
  <2>2. Add(Add(h, c), Opposite(c)) = h
    BY <1>1, AddCancels
  <2> QED
    BY <2>1, <2>2
<1> HIDE DEF e, o
<1> SUFFICES ASSUME NEW a, a \in ToSet(CompactNeighbors(image, t, c)), a \in ToSet(CompactNeighbors(image, t, e))
             PROVE  FALSE
  BY DEF e, h
<1>4. a \in Seen(dem, s, t, c) /\ a \in Seen(dem, s, t, e)
  BY <1>2, RowExpands, ExactRows
<1>5. PICK v \in DOMAIN dem : t * GroupOrder + c \in dem[v].mask /\ a = Address(s.at[v])
  BY <1>4 DEF Seen
<1>6. PICK w \in DOMAIN dem : t * GroupOrder + e \in dem[w].mask /\ a = Address(s.at[w])
  BY <1>4 DEF Seen
<1>7. v = w
  BY <1>5, <1>6, AddressFacts
<1> DEFINE x == lifts[o][v]
<1>8. x \in DOMAIN dem /\ dem[x].mask = Translate(dem[v].mask, o) /\ dem[v].mask \in SUBSET Detectors
  BY <1>2 DEF AreLifts, AnswersAs, IsModel
<1> HIDE DEF x
<1>9. t * GroupOrder + 0 \in dem[x].mask
  <2> DEFINE d == t * GroupOrder + c
  <2>1. d \in Detectors /\ d \div GroupOrder = t /\ d % GroupOrder = c
    BY DetectorOf
  <2>2. Shift(d, o) = t * GroupOrder + 0
    BY <1>2, <2>1 DEF Shift
  <2>3. d \in dem[v].mask
    BY <1>5
  <2> HIDE DEF d
  <2> QED
    BY <1>2, <1>8, <2>1, <2>2, <2>3, TranslateMember
<1>10. t * GroupOrder + h \in dem[x].mask
  <2> DEFINE d == t * GroupOrder + e
  <2>1. d \in Detectors /\ d \div GroupOrder = t /\ d % GroupOrder = e
    BY <1>2, DetectorOf
  <2>2. Shift(d, o) = t * GroupOrder + h
    BY <1>3, <2>1 DEF Shift
  <2>3. d \in dem[v].mask
    BY <1>6, <1>7
  <2> HIDE DEF d
  <2> QED
    BY <1>2, <1>8, <2>1, <2>2, <2>3, TranslateMember
<1>11. /\ x \in ToSet(Neighbors(dem, t * GroupOrder + 0))
       /\ x \in ToSet(Neighbors(dem, t * GroupOrder + 0 + h))
  <2>1. t * GroupOrder + 0 + h = t * GroupOrder + h
    <3> DEFINE m == t * GroupOrder
    <3>1. m \in Nat
      <4>1. t \in Nat
        BY TorusAssumption DEF Times
      <4> QED
        BY <4>1, Sizes
    <3> HIDE DEF m
    <3>2. m + 0 + h = m + h
      BY <1>1, <3>1
    <3> QED
      BY <3>2 DEF m
  <2> QED
    BY <1>8, <1>9, <1>10, <2>1, NeighborFacts
<1>12. 0 \in 0 .. (GroupOrder \div 2) - 1
  <2>1. 0 \in 0 .. h - 1
    BY <1>1
  <2> QED
    BY <2>1 DEF h
<1>13. ToSet(Neighbors(dem, t * GroupOrder + 0)) \cap ToSet(Neighbors(dem, t * GroupOrder + 0 + h)) = {}
  BY <1>12 DEF LanesDisjoint, h
<1> QED
  BY <1>11, <1>13

\* What the first objective of a colouring counts.
LEMMA ObjectiveCovers ==
  ASSUME NEW templates, NEW m, AreTemplates(templates, m), NEW colors
  PROVE  \A tb \in Cells : Occupancy(templates, colors)[tb[1]][tb[2]] <= Objective(templates, colors)[1]
<1> DEFINE o == Occupancy(templates, colors)
           S == {o[tb[1]][tb[2]] : tb \in Cells}
           f == [tb \in Cells |-> o[tb[1]][tb[2]]]
<1>1. Objective(templates, colors)[1] = Max(S)
  BY DEF Objective, Cells
<1>2. \A tb \in Cells : o[tb[1]][tb[2]] \in Nat
  BY OccupancyType
<1> HIDE DEF o
<1>3. S \in SUBSET Int /\ S # {} /\ \A tb \in Cells : o[tb[1]][tb[2]] \in S
  BY <1>2, CellsFinite
<1>4. f \in Surjection(Cells, S)
  BY DEF Surjection
<1> HIDE DEF f, S
<1>5. IsFiniteSet(S)
  BY <1>4, CellsFinite, FS_Surjection
<1>6. \A x \in S : Max(S) >= x /\ Max(S) \in Int
  BY <1>3, <1>5, MaxOfFinite
<1>7. \A tb \in Cells : o[tb[1]][tb[2]] <= Max(S)
  BY <1>2, <1>3, <1>6
<1> QED
  BY <1>1, <1>7 DEF o

\* No row takes more beats than its fullest bank has edges.
LEMMA BeatsAreFew ==
  ASSUME NEW templates, NEW m \in Nat, AreTemplates(templates, m), NEW t \in Times,
         NEW colors \in [0 .. m - 1 -> 0 .. BankCount - 1]
  PROVE  Len(Beats(templates[t], colors)) <= Objective(templates, colors)[1]
<1> DEFINE row == templates[t]
           bank == [e \in DOMAIN row |-> Bank(colors, row[e][1], row[e][2])]
           B == 0 .. BankCount - 1
           most == Objective(templates, colors)[1]
<1>1. PICK n \in Nat : IsTemplateRow(row, n, m)
  BY DEF AreTemplates
<1>2. DOMAIN row = 1 .. n
  BY <1>1 DEF IsTemplateRow
<1>3. bank \in [1 .. n -> B]
  <2>1. \A e \in 1 .. n : row[e][1] \in 0 .. m - 1 /\ row[e][2] \in Coordinates
    BY <1>1 DEF IsTemplateRow
  <2> HIDE DEF row
  <2>2. \A e \in 1 .. n : Bank(colors, row[e][1], row[e][2]) \in B
    BY <2>1, BankMoves, Sizes
  <2> QED
    BY <1>2, <2>2
<1>4. Beats(row, colors) = Packed(bank)
  BY DEF Beats
<1>5. \A b \in B : Cardinality({e \in 1 .. n : bank[e] = b}) <= most
  <2> SUFFICES ASSUME NEW b \in B PROVE Cardinality({e \in 1 .. n : bank[e] = b}) <= most
    OBVIOUS
  <2>1. <<t, b>> \in Cells
    BY DEF Cells
  <2>2. Occupancy(templates, colors)[t][b] <= most
    <3>1. Occupancy(templates, colors)[<<t, b>>[1]][<<t, b>>[2]] <= most
      BY <2>1, ObjectiveCovers
    <3> QED
      BY <3>1
  <2>3. Occupancy(templates, colors)[t][b]
          = Cardinality({e \in DOMAIN row : Bank(colors, row[e][1], row[e][2]) = b})
    BY DEF Occupancy
  <2>4. {e \in DOMAIN row : Bank(colors, row[e][1], row[e][2]) = b} = {e \in 1 .. n : bank[e] = b}
    BY <1>2
  <2> QED
    BY <2>2, <2>3, <2>4
<1>6. PICK k \in Nat : ArePacked(Packed(bank), bank, n, k)
  <2> HIDE DEF bank, B
  <2> QED
    BY <1>3, PackedFacts
<1>7. Len(Packed(bank)) = k
  <2> DEFINE p == Packed(bank)
  <2>1. DOMAIN p = 1 .. k
    BY <1>6 DEF ArePacked
  <2>2. p = [i \in 1 .. Max({0} \cup Range(Forced([e \in DOMAIN bank |->
                              Cardinality({o \in 1 .. e : bank[o] = bank[e]})]))) |-> p[i]]
    BY DEF Packed
  <2> DEFINE T == {p[i] : i \in 1 .. k}
  <2> HIDE DEF p
  <2>3. p = [i \in 1 .. k |-> p[i]]
    BY <2>1, <2>2
  <2>4. p \in [1 .. k -> T]
    BY <2>3
  <2> HIDE DEF T
  <2>5. p \in Seq(T) /\ Len(p) = k
    BY <2>1, <2>4
  <2> QED
    BY <2>5 DEF p
<1> HIDE DEF bank, row
<1>8. most \in Int /\ most >= 0
  <2>1. most \in Int
    BY ObjectiveType
  <2>2. 0 \in B
    BY TorusAssumption
  <2>4. Cardinality({e \in 1 .. n : bank[e] = 0}) \in Nat
    <3> DEFINE S == {e \in 1 .. n : bank[e] = 0}
    <3>1. IsFiniteSet(1 .. n) /\ S \subseteq 1 .. n
      BY FS_Interval
    <3> HIDE DEF S
    <3>2. Cardinality(S) \in Nat
      BY <3>1, FS_Subset, FS_CardinalityType
    <3> QED
      BY <3>2 DEF S
  <2> HIDE DEF most
  <2> QED
    BY <1>5, <2>1, <2>2, <2>4
<1>9. k <= most
  <2>1. CASE k = 0
    BY <1>8, <2>1
  <2>2. CASE k # 0
    <3>1. PICK e \in 1 .. n : RankIn(bank, e) = k
      BY <1>6, <2>2 DEF ArePacked
    <3> DEFINE S == {o \in 1 .. e : bank[o] = bank[e]}
               T == {o \in 1 .. n : bank[o] = bank[e]}
    <3>2. S \subseteq T /\ IsFiniteSet(1 .. n) /\ T \subseteq 1 .. n
      <4>1. e \in Nat /\ \A o \in 1 .. e : o \in 1 .. n
        OBVIOUS
      <4>2. IsFiniteSet(1 .. n)
        BY FS_Interval
      <4> QED
        BY <4>1, <4>2
    <3>3. Cardinality(T) <= most
      BY <1>3, <1>5
    <3>4. Cardinality(S) = k
      BY <3>1 DEF RankIn
    <3> HIDE DEF S, T
    <3>5. IsFiniteSet(T)
      BY <3>2, FS_Subset
    <3>6. Cardinality(S) <= Cardinality(T) /\ Cardinality(S) \in Nat /\ Cardinality(T) \in Nat
      BY <3>2, <3>5, FS_Subset, FS_CardinalityType
    <3> HIDE DEF most
    <3> QED
      BY <1>8, <3>3, <3>4, <3>6
  <2> QED
    BY <2>1, <2>2
<1> QED
  BY <1>4, <1>7, <1>9 DEF row

\* What an accepted image promises the hardware.
HardwareFits(image, dem, lifts) ==
  /\ \A v \in DOMAIN dem, by \in Coordinates :
       image.at[lifts[by][v]] = <<image.at[v][1], Add(image.at[v][2], by)>>
  /\ \A t \in Times, c \in Coordinates :
       ToSet(CompactNeighbors(image, t, c))
         \cap ToSet(CompactNeighbors(image, t, Add(c, GroupOrder \div 2))) = {}
  /\ \A colors \in image.colourings, t \in Times :
       Len(Beats(image.templates[t], colors)) <= LowerBound(image.templates)

LEMMA LiftedImageFits ==
  ASSUME NEW dem, IsModel(dem), ~Ambiguous(dem), NEW s, Numbered(dem, s),
         NEW lifts, AreLifts(dem, lifts), NEW image, IsLiftedImage(image, dem, s)
  PROVE  HardwareFits(image, dem, lifts)
<1>1. /\ image.at = s.at /\ image.orbits = Len(s.reps) /\ image.templates = Templates(dem, s.at)
      /\ image.colourings = Colourings(image.templates, image.orbits)
      /\ LanesDisjoint(dem)
  BY DEF IsLiftedImage
<1>2. \A v \in DOMAIN dem, by \in Coordinates :
        image.at[lifts[by][v]] = <<image.at[v][1], Add(image.at[v][2], by)>>
  BY <1>1, LiftsAdd
<1>3. \A t \in Times, c \in Coordinates :
        ToSet(CompactNeighbors(image, t, c))
          \cap ToSet(CompactNeighbors(image, t, Add(c, GroupOrder \div 2))) = {}
  BY <1>1, LanesReach
<1>4. AreTemplates(image.templates, image.orbits) /\ image.orbits \in Nat
  BY <1>1, TemplateRows DEF Numbered, OrbitStates
<1>5. \A colors \in image.colourings, t \in Times :
        Len(Beats(image.templates[t], colors)) <= LowerBound(image.templates)
  <2> SUFFICES ASSUME NEW colors \in image.colourings, NEW t \in Times
               PROVE  Len(Beats(image.templates[t], colors)) <= LowerBound(image.templates)
    OBVIOUS
  <2>1. /\ colors \in [0 .. image.orbits - 1 -> 0 .. BankCount - 1]
        /\ Objective(image.templates, colors)[1] = LowerBound(image.templates)
    BY <1>1 DEF Colourings, AllColourings
  <2> QED
    BY <1>4, <2>1, BeatsAreFew
<1> QED
  BY <1>2, <1>3, <1>5 DEF HardwareFits

-----------------------------------------------------------------------------
(* The adapter does not see the priors.                                    *)

\* The model without its priors.
Blind(dem) ==
  [v \in DOMAIN dem |-> [mask |-> dem[v].mask, prior |-> 0, logical |-> dem[v].logical]]

LEMMA BlindFacts ==
  ASSUME NEW dem, IsModel(dem)
  PROVE  /\ IsModel(Blind(dem)) /\ DOMAIN Blind(dem) = DOMAIN dem /\ Len(Blind(dem)) = Len(dem)
         /\ \A v \in DOMAIN dem : Blind(dem)[v].mask = dem[v].mask /\ Blind(dem)[v].prior = 0
<1> DEFINE b == Blind(dem)
           n == Len(dem)
           T == {b[v] : v \in DOMAIN dem}
<1>1. n \in Nat /\ DOMAIN dem = 1 .. n /\ \A v \in DOMAIN dem : dem[v].mask \in SUBSET Detectors /\ dem[v].logical \in Nat
  BY DEF IsModel
<1>2. /\ DOMAIN b = DOMAIN dem
      /\ \A v \in DOMAIN dem : b[v] = [mask |-> dem[v].mask, prior |-> 0, logical |-> dem[v].logical]
      /\ b = [v \in DOMAIN dem |-> b[v]]
  BY DEF Blind
<1> HIDE DEF b, n
<1>3. b \in [1 .. n -> T]
  BY <1>1, <1>2
<1> HIDE DEF T
<1>4. Len(b) = n
  <2>1. b \in Seq(T)
    BY <1>1, <1>3
  <2> QED
    BY <1>1, <1>2, <2>1
<1>5. \A v \in DOMAIN dem : b[v].mask = dem[v].mask /\ b[v].prior = 0 /\ b[v].logical = dem[v].logical
  BY <1>2
<1>6. IsModel(b)
  BY <1>1, <1>2, <1>4, <1>5 DEF IsModel
<1> QED
  BY <1>2, <1>4, <1>5, <1>6 DEF b, n

\* Without priors the rows are the same.
LEMMA BlindRows ==
  ASSUME NEW dem, IsModel(dem)
  PROVE  /\ \A d : Neighbors(Blind(dem), d) = Neighbors(dem, d)
         /\ LanesDisjoint(Blind(dem)) <=> LanesDisjoint(dem)
         /\ \A at : Templates(Blind(dem), at) = Templates(dem, at)
         /\ \A rows, at : RowsAreExact(Blind(dem), rows, at) <=> RowsAreExact(dem, rows, at)
         /\ \A action, by : LiftIsValid(Blind(dem), action, by) <=> LiftIsValid(dem, action, by)
<1> DEFINE b == Blind(dem)
<1>1. DOMAIN b = DOMAIN dem /\ \A v \in DOMAIN dem : b[v].mask = dem[v].mask
  BY BlindFacts
<1> HIDE DEF b
<1>2. \A d : Neighbors(b, d) = Neighbors(dem, d)
  <2> SUFFICES ASSUME NEW d PROVE Neighbors(b, d) = Neighbors(dem, d)
    OBVIOUS
  <2>1. {v \in DOMAIN b : d \in b[v].mask} = {v \in DOMAIN dem : d \in dem[v].mask}
    BY <1>1
  <2> QED
    BY <2>1 DEF Neighbors
<1>3. LanesDisjoint(b) <=> LanesDisjoint(dem)
  BY <1>2 DEF LanesDisjoint
<1>4. \A at : Templates(b, at) = Templates(dem, at)
  BY <1>2 DEF Templates
<1>5. \A rows, at : RowsAreExact(b, rows, at) <=> RowsAreExact(dem, rows, at)
  BY <1>2 DEF RowsAreExact
<1>6. \A action, by : LiftIsValid(b, action, by) <=> LiftIsValid(dem, action, by)
  BY <1>1, <1>2 DEF LiftIsValid
<1> QED
  BY <1>2, <1>3, <1>4, <1>5, <1>6 DEF b

\* The adapter lifts as the paper's compiler lifts the model without priors.
LEMMA BlindLifts ==
  ASSUME NEW dem, IsModel(dem)
  PROVE  Lifts(dem, "adapter") = Lifts(Blind(dem), "paper")
<1> DEFINE b == Blind(dem)
<1>1. DOMAIN b = DOMAIN dem /\ \A v \in DOMAIN dem : b[v].mask = dem[v].mask /\ b[v].prior = 0
  BY BlindFacts
<1> HIDE DEF b
<1>2. \A M : Lookup(dem, "adapter", M) = Lookup(b, "paper", <<M, 0>>)
  <2> SUFFICES ASSUME NEW M PROVE Lookup(dem, "adapter", M) = Lookup(b, "paper", <<M, 0>>)
    OBVIOUS
  <2>1. \A w \in DOMAIN dem : Response(dem, "adapter", w) = dem[w].mask
    BY DEF Response
  <2>2. \A w \in DOMAIN dem : Response(b, "paper", w) = <<dem[w].mask, 0>>
    BY <1>1 DEF Response, Key
  <2>3. {w \in DOMAIN dem : Response(dem, "adapter", w) = M}
          = {w \in DOMAIN b : Response(b, "paper", w) = <<M, 0>>}
    BY <1>1, <2>1, <2>2
  <2> QED
    BY <2>3 DEF Lookup
<1>3. \A by : Lifted(dem, "adapter", by) = Lifted(b, "paper", by)
  <2> SUFFICES ASSUME NEW by PROVE Lifted(dem, "adapter", by) = Lifted(b, "paper", by)
    OBVIOUS
  <2>1. \A v \in DOMAIN dem : MovedResponse(dem, "adapter", v, by) = Translate(dem[v].mask, by)
    BY DEF MovedResponse
  <2>2. \A v \in DOMAIN dem : MovedResponse(b, "paper", v, by) = <<Translate(dem[v].mask, by), 0>>
    BY <1>1 DEF MovedResponse
  <2>3. \A v \in DOMAIN dem : Lookup(dem, "adapter", MovedResponse(dem, "adapter", v, by))
                                = Lookup(b, "paper", MovedResponse(b, "paper", v, by))
    BY <1>2, <2>1, <2>2
  <2> QED
    BY <1>1, <2>3 DEF Lifted
<1> QED
  BY <1>3 DEF Lifts, b

\* The grouping looks at the lifts alone.
LEMMA BlindGroups ==
  ASSUME NEW dem, IsModel(dem), NEW lifts
  PROVE  Grouped(Blind(dem), lifts) = Grouped(dem, lifts)
<1> DEFINE b == Blind(dem)
           n == Len(dem)
<1>1. IsModel(b) /\ DOMAIN b = DOMAIN dem /\ Len(b) = n /\ n \in Nat
  BY BlindFacts DEF IsModel
<1> HIDE DEF b
<1>2. PICK f : IsGrouping(f, dem, lifts) /\ Grouped(dem, lifts) = f[Len(dem)]
  BY GroupedByPosition
<1>3. PICK g : IsGrouping(g, b, lifts) /\ Grouped(b, lifts) = g[Len(b)]
  BY <1>1, GroupedByPosition
<1> DEFINE D == {k \in 0 .. n : f[k] = g[k]}
<1>4. 0 \in D
  BY <1>1, <1>2, <1>3 DEF IsGrouping, GroupStart
<1>5. ASSUME NEW k \in 1 .. n, (k - 1) \in D PROVE k \in D
  <2>1. /\ f[k] = AddLiftedOrbit(dem, lifts, f[k - 1], k - 1)
        /\ g[k] = AddLiftedOrbit(b, lifts, g[k - 1], k - 1)
    BY <1>1, <1>2, <1>3 DEF IsGrouping
  <2>2. AddLiftedOrbit(dem, lifts, f[k - 1], k - 1) = AddLiftedOrbit(b, lifts, f[k - 1], k - 1)
    BY AddLiftedCases
  <2> QED
    BY <1>1, <1>5, <2>1, <2>2
<1> HIDE DEF D
<1>6. 0 .. n \subseteq D
  BY <1>1, <1>4, <1>5, IntervalInduction
<1>7. n \in D
  BY <1>1, <1>6
<1> QED
  BY <1>1, <1>2, <1>3, <1>7 DEF D, b

\* What the adapter accepts has no two faults on the same detectors, and the image is that of
\* the model without priors.
LEMMA AdapterIsBlind ==
  ASSUME NEW dem, IsModel(dem), FullActionsAccepted(dem, "adapter")
  PROVE  ~Ambiguous(Blind(dem)) /\ ComponentImage(Blind(dem), "paper") = ComponentImage(dem, "adapter")
<1> DEFINE b == Blind(dem)
           lifts == Lifts(dem, "adapter")
<1>1. /\ IsInjective(lifts)
      /\ \A by \in Coordinates : LiftIsValid(dem, lifts[by], by)
  BY DEF FullActionsAccepted, Lifts
<1>2. ASSUME NEW v \in DOMAIN dem, NEW w \in DOMAIN dem, dem[v].mask = dem[w].mask PROVE v >= w
  <2> DEFINE f == Lifted(dem, "adapter", 0)
  <2>1. 0 \in Coordinates /\ f = lifts[0]
    BY Sizes DEF Lifts
  <2>2. LiftIsValid(dem, f, 0)
    BY <1>1, <2>1
  <2>3. Range(f) = DOMAIN dem /\ DOMAIN f = DOMAIN dem
    BY <2>2 DEF LiftIsValid, Lifted
  <2>4. PICK u \in DOMAIN dem : f[u] = v
    <3> HIDE DEF f
    <3> QED
      BY <2>3 DEF Range
  <2> DEFINE M == MovedResponse(dem, "adapter", u, 0)
  <2>5. Lookup(dem, "adapter", M) = v
    BY <2>4 DEF Lifted
  <2> HIDE DEF M
  <2>6. Response(dem, "adapter", v) = M
    BY <2>5, LookupFinds
  <2>7. Response(dem, "adapter", w) = M
    BY <1>2, <2>6 DEF Response
  <2> QED
    BY <2>5, <2>7, LookupFinds
<1>3. DOMAIN b = DOMAIN dem /\ \A v \in DOMAIN dem : b[v].mask = dem[v].mask /\ b[v].prior = 0
  BY BlindFacts
<1>4. ~Ambiguous(b)
  <2>1. ASSUME NEW v \in DOMAIN dem, NEW w \in DOMAIN dem, dem[v].mask = dem[w].mask PROVE v = w
    <3>1. v >= w /\ w >= v
      BY <1>2, <2>1
    <3>2. v \in Nat /\ w \in Nat
      BY DEF IsModel
    <3> QED
      BY <3>1, <3>2
  <2> HIDE DEF b
  <2> QED
    BY <1>3, <2>1 DEF Ambiguous, Key, IsInjective
<1>5. lifts = Lifts(b, "paper")
  BY BlindLifts
<1>6. FullActionsAccepted(b, "paper")
  <2>1. \A by \in Coordinates : LiftIsValid(b, lifts[by], by)
    BY <1>1, BlindRows
  <2>2. \A by \in Coordinates : LiftIsValid(b, Lifts(b, "paper")[by], by)
    BY <1>5, <2>1
  <2>3. IsInjective(Lifts(b, "paper"))
    BY <1>1, <1>5
  <2> HIDE DEF b, lifts
  <2> QED
    BY <1>4, <2>2, <2>3 DEF FullActionsAccepted, Lifts
<1> DEFINE r == LiftedOrbits(dem, "adapter")
<1>7. LiftedOrbits(b, "paper") = r
  <2>1. r = Grouped(dem, lifts) /\ LiftedOrbits(b, "paper") = Grouped(b, Lifts(b, "paper"))
    BY LiftedAreGrouped
  <2>2. Grouped(b, lifts) = Grouped(dem, lifts)
    BY BlindGroups
  <2> HIDE DEF b, lifts, r
  <2> QED
    BY <1>5, <2>1, <2>2
<1>8. LiftedImage(b, r) = LiftedImage(dem, r)
  <2>1. /\ LanesDisjoint(b) <=> LanesDisjoint(dem)
        /\ Templates(b, r.at) = Templates(dem, r.at)
        /\ \A rows : RowsAreExact(b, rows, r.at) <=> RowsAreExact(dem, rows, r.at)
    BY BlindRows
  <2> HIDE DEF b, r
  <2> QED
    BY <2>1 DEF LiftedImage
<1>9. ComponentImage(b, "paper") = LiftedImage(b, r)
  <2> HIDE DEF b, r
  <2> QED
    BY <1>6, <1>7 DEF ComponentImage
<1>10. ComponentImage(dem, "adapter") = LiftedImage(dem, r)
  BY DEF ComponentImage
<1> QED
  BY <1>4, <1>8, <1>9, <1>10

\* An accepted image of the adapter fits the hardware.
LEMMA AdapterFits ==
  ASSUME NEW dem, IsModel(dem), NEW v \in DOMAIN dem, ComponentImage(dem, "adapter").accepted
  PROVE  /\ FullActionsAccepted(dem, "adapter") /\ ~Ambiguous(Blind(dem))
         /\ AreLifts(Blind(dem), Lifts(dem, "adapter"))
         /\ HardwareFits(ComponentImage(dem, "adapter"), dem, Lifts(dem, "adapter"))
<1> DEFINE b == Blind(dem)
           lifts == Lifts(dem, "adapter")
           image == ComponentImage(dem, "adapter")
<1>1. FullActionsAccepted(dem, "adapter")
  BY DEF ComponentImage, Refused
<1>2. ~Ambiguous(b) /\ ComponentImage(b, "paper") = image
  BY <1>1, AdapterIsBlind
<1>3. IsModel(b) /\ DOMAIN b = DOMAIN dem
  BY BlindFacts
<1>4. lifts = Lifts(b, "paper")
  BY BlindLifts
<1> HIDE DEF b, lifts, image
<1>5. PaperAgrees(image, Compile(b), b)
  BY <1>2, <1>3, PaperImageFacts
<1>6. image.accepted
  BY DEF image
<1>7. /\ Numbered(b, Orbits(b)) /\ AreLifts(b, Lifts(b, "paper"))
      /\ IsLiftedImage(image, b, Orbits(b))
  BY <1>5, <1>6 DEF PaperAgrees
<1>8. AreLifts(b, lifts)
  BY <1>4, <1>7
<1>9. HardwareFits(image, b, lifts)
  BY <1>2, <1>3, <1>7, <1>8, LiftedImageFits
<1>10. HardwareFits(image, dem, lifts)
  BY <1>3, <1>9 DEF HardwareFits
<1> QED
  BY <1>1, <1>2, <1>8, <1>10 DEF b, lifts, image

-----------------------------------------------------------------------------
(* The two flavours beside each other.                                     *)

\* Where both flavours are accepted they lift alike.
LEMMA LiftsAgree ==
  ASSUME NEW dem, IsModel(dem), ~Ambiguous(Blind(dem)),
         NEW paper, AreLifts(dem, paper), NEW adapter, AreLifts(Blind(dem), adapter)
  PROVE  paper = adapter
<1>1. DOMAIN Blind(dem) = DOMAIN dem
      /\ \A v \in DOMAIN dem : Blind(dem)[v].mask = dem[v].mask /\ Blind(dem)[v].prior = 0
  BY BlindFacts
<1>2. paper \in [Coordinates -> [DOMAIN dem -> DOMAIN dem]]
      /\ adapter \in [Coordinates -> [DOMAIN dem -> DOMAIN dem]]
  BY <1>1 DEF AreLifts
<1>3. ASSUME NEW by \in Coordinates, NEW v \in DOMAIN dem PROVE paper[by][v] = adapter[by][v]
  <2>1. paper[by][v] \in DOMAIN dem /\ adapter[by][v] \in DOMAIN dem
    BY <1>2
  <2>2. dem[paper[by][v]].mask = Translate(dem[v].mask, by)
    BY DEF AreLifts, AnswersAs
  <2>3. AnswersAs(Blind(dem), v, by, adapter[by][v])
    BY <1>1 DEF AreLifts
  <2>4. dem[adapter[by][v]].mask = Translate(dem[v].mask, by)
    BY <1>1, <2>1, <2>3 DEF AnswersAs
  <2>5. /\ paper[by][v] \in DOMAIN Blind(dem) /\ adapter[by][v] \in DOMAIN Blind(dem)
        /\ Blind(dem)[paper[by][v]].mask = Blind(dem)[adapter[by][v]].mask
        /\ Blind(dem)[paper[by][v]].prior = Blind(dem)[adapter[by][v]].prior
    BY <1>1, <2>1, <2>2, <2>4
  <2> QED
    BY <2>5, KeysDiffer
<1>4. \A by \in Coordinates : paper[by] = adapter[by]
  BY <1>2, <1>3
<1> QED
  BY <1>2, <1>4

\* One set of addresses, templates and orbits.
SameImage(a, b) == a.at = b.at /\ a.templates = b.templates /\ a.orbits = b.orbits

LEMMA FlavoursAgree ==
  ASSUME NEW dem, IsModel(dem), NEW v \in DOMAIN dem,
         ComponentImage(dem, "paper").accepted, ComponentImage(dem, "adapter").accepted
  PROVE  SameImage(ComponentImage(dem, "adapter"), ComponentImage(dem, "paper"))
<1>1. FullActionsAccepted(dem, "paper")
  BY DEF ComponentImage, Refused
<1>2. /\ FullActionsAccepted(dem, "adapter") /\ ~Ambiguous(Blind(dem))
      /\ AreLifts(Blind(dem), Lifts(dem, "adapter"))
  BY AdapterFits
<1>3. AreLifts(dem, Lifts(dem, "paper"))
  BY PaperImageFacts DEF PaperAgrees
<1>4. Lifts(dem, "paper") = Lifts(dem, "adapter")
  BY <1>2, <1>3, LiftsAgree
<1>5. LiftedOrbits(dem, "paper") = LiftedOrbits(dem, "adapter")
  BY <1>4, LiftedAreGrouped
<1>6. ComponentImage(dem, "adapter") = ComponentImage(dem, "paper")
  BY <1>1, <1>2, <1>5 DEF ComponentImage
<1> QED
  BY <1>6 DEF SameImage

\* The trial translations lift, except by a prior that the adapter cannot see.
TrialsLift(dem, flavour) ==
  \A trials \in SUBSET Coordinates :
    TrialActionsAccepted(dem, flavour, trials)
      \/ \E v \in DOMAIN dem, by \in trials :
           flavour = "adapter" /\ dem[Lifted(dem, flavour, by)[v]].prior # dem[v].prior

LEMMA PaperTrialsLift ==
  ASSUME NEW dem, IsModel(dem), ~Ambiguous(dem), AreLifts(dem, Lifts(dem, "paper"))
  PROVE  TrialsLift(dem, "paper")
<1> SUFFICES ASSUME NEW trials \in SUBSET Coordinates
             PROVE  TrialActionsAccepted(dem, "paper", trials)
  BY DEF TrialsLift
<1>1. ASSUME NEW by \in trials
      PROVE  /\ LiftIsValid(dem, Lifted(dem, "paper", by), by)
             /\ \A v \in DOMAIN dem : dem[Lifted(dem, "paper", by)[v]].prior = dem[v].prior
  <2>1. by \in Coordinates
    OBVIOUS
  <2>2. Lifts(dem, "paper")[by] = Lifted(dem, "paper", by)
    BY <2>1 DEF Lifts
  <2>3. LiftIsValid(dem, Lifts(dem, "paper")[by], by)
    BY <2>1, LiftsAreValid
  <2>4. \A v \in DOMAIN dem : AnswersAs(dem, v, by, Lifts(dem, "paper")[by][v])
    BY <2>1 DEF AreLifts
  <2> QED
    BY <2>2, <2>3, <2>4 DEF AnswersAs
<1> QED
  BY <1>1 DEF TrialActionsAccepted

LEMMA AdapterTrialsLift ==
  ASSUME NEW dem, FullActionsAccepted(dem, "adapter")
  PROVE  TrialsLift(dem, "adapter")
<1> SUFFICES ASSUME NEW trials \in SUBSET Coordinates,
                    \A v \in DOMAIN dem, by \in trials :
                      dem[Lifted(dem, "adapter", by)[v]].prior = dem[v].prior
             PROVE  TrialActionsAccepted(dem, "adapter", trials)
  BY DEF TrialsLift
<1>1. \A by \in Coordinates : LiftIsValid(dem, Lifted(dem, "adapter", by), by)
  BY DEF FullActionsAccepted
<1> QED
  BY <1>1 DEF TrialActionsAccepted

\* What a flavour's image promises.
FlavourFits(image, dem, flavour) ==
  image.accepted => HardwareFits(image, dem, Lifts(dem, flavour)) /\ TrialsLift(dem, flavour)

LEMMA FlavoursFit ==
  ASSUME NEW dem, IsModel(dem), NEW v \in DOMAIN dem, NEW flavour \in {"adapter", "paper"}
  PROVE  FlavourFits(ComponentImage(dem, flavour), dem, flavour)
<1> SUFFICES ASSUME ComponentImage(dem, flavour).accepted
             PROVE  /\ HardwareFits(ComponentImage(dem, flavour), dem, Lifts(dem, flavour))
                    /\ TrialsLift(dem, flavour)
  BY DEF FlavourFits
<1>1. CASE flavour = "adapter"
  BY <1>1, AdapterFits, AdapterTrialsLift
<1>2. CASE flavour = "paper"
  <2>1. PaperAgrees(ComponentImage(dem, "paper"), Compile(dem), dem)
    BY PaperImageFacts
  <2>2. /\ ~Ambiguous(dem) /\ Numbered(dem, Orbits(dem)) /\ AreLifts(dem, Lifts(dem, "paper"))
        /\ IsLiftedImage(ComponentImage(dem, "paper"), dem, Orbits(dem))
    BY <1>2, <2>1 DEF PaperAgrees
  <2> QED
    BY <1>2, <2>2, LiftedImageFits, PaperTrialsLift
<1> QED
  BY <1>1, <1>2

\* A compiler makes the one image it can, or gives up, which it cannot where every colouring
\* reaches the bound.
LEMMA GivesUpOrEnds ==
  ASSUME NEW dem, NEW flavour
  PROVE  LET image == ComponentImage(dem, flavour)
             images == CompiledImages(dem, flavour)
         IN  /\ {i \in images : i.accepted} = IF image.accepted THEN {image} ELSE {}
             /\ {i \in images : i.accepted} = images <=>
                  image.accepted /\ image.colourings = AllColourings(image.orbits)
<1> DEFINE image == ComponentImage(dem, flavour)
           images == CompiledImages(dem, flavour)
<1>1. Refused.accepted = FALSE
  BY DEF Refused
<1>2. images = IF image.accepted /\ image.colourings # AllColourings(image.orbits)
                 THEN {image, Refused} ELSE {image}
  BY DEF CompiledImages, MayGiveUp
<1> HIDE DEF image, images
<1>3. CASE image.accepted
  <2>1. {i \in images : i.accepted} = {image}
    BY <1>1, <1>2, <1>3
  <2>2. images = {image} <=> image.colourings = AllColourings(image.orbits)
    BY <1>1, <1>2, <1>3
  <2>3. PICK A : A = {i \in images : i.accepted}
    OBVIOUS
  <2>4. A = {image} /\ (A = images <=> image.colourings = AllColourings(image.orbits))
    BY <2>1, <2>2, <2>3
  <2> QED
    BY <1>3, <2>3, <2>4 DEF image, images
<1>4. CASE ~image.accepted
  <2>1. images = {image}
    BY <1>2, <1>4
  <2>2. {i \in images : i.accepted} = {}
    BY <1>4, <2>1
  <2>3. images # {}
    BY <2>1
  <2>4. PICK A : A = {i \in images : i.accepted}
    OBVIOUS
  <2>5. A = {} /\ A # images
    BY <2>2, <2>3, <2>4
  <2> QED
    BY <1>4, <2>4, <2>5 DEF image, images
<1> QED
  BY <1>3, <1>4

\* There are colours to start from.
LEMMA SomeColouring ==
  ASSUME NEW orbits
  PROVE  AllColourings(orbits) # {}
<1>1. 0 \in 0 .. BankCount - 1
  BY TorusAssumption
<1>2. [o \in 0 .. orbits - 1 |-> 0] \in AllColourings(orbits)
  BY <1>1 DEF AllColourings
<1> QED
  BY <1>2

\* For every torus and every error model that has a fault: the S1 compiler can accept the
\* model exactly if the S2 compiler does, its lanes are disjoint and some colouring of banks
\* reaches the lower bound, and is sure to exactly if every colouring does; where it accepts
\* it stores the addresses and templates the S2 compiler stores, the adapter's with them; and
\* on an accepted image the hardware's addition of coordinates is the translation of the
\* faults, its two lanes never meet and no row takes more beats than the bound
\* (compile_paper_stage1_component_templates, compile_component_templates).
THEOREM ComponentsExact ==
  ASSUME NEW Priors, NEW dem \in Models(Priors), dem # <<>>
  PROVE  ComponentImageIsExact(dem)
<1> DEFINE images == [f \in {"adapter", "paper"} |-> CompiledImages(dem, f)]
           full == Compile(dem)
<1>1. IsModel(dem)
  BY ModelFacts
<1>2. 1 \in DOMAIN dem
  <2>1. dem \in Seq([mask : SUBSET Detectors, prior : Priors, logical : Nat])
    BY DEF Models
  <2>2. Len(dem) # 0
    <3> DEFINE F == [mask : SUBSET Detectors, prior : Priors, logical : Nat]
    <3> HIDE DEF F
    <3>1. dem \in Seq(F)
      BY <2>1 DEF F
    <3> QED
      BY <3>1
  <2> QED
    BY <1>1, <2>2 DEF IsModel
<1>3. PaperAgrees(ComponentImage(dem, "paper"), full, dem)
  BY <1>1, <1>2, PaperImageFacts
<1>4. ComponentImage(dem, "adapter").accepted /\ ComponentImage(dem, "paper").accepted =>
        SameImage(ComponentImage(dem, "adapter"), ComponentImage(dem, "paper"))
  BY <1>1, <1>2, FlavoursAgree
<1>5. \A f \in {"adapter", "paper"} : FlavourFits(ComponentImage(dem, f), dem, f)
  BY <1>1, <1>2, FlavoursFit
<1> DEFINE accepted(f) == {image \in images[f] : image.accepted}
           paper == ComponentImage(dem, "paper")
<1>6. DOMAIN images = {"adapter", "paper"}
      /\ \A f \in {"adapter", "paper"} : images[f] = CompiledImages(dem, f)
  OBVIOUS
<1>7. Forced(images) = images
  BY ForcedValue
<1>8. \A f \in {"adapter", "paper"} :
        accepted(f) = IF ComponentImage(dem, f).accepted THEN {ComponentImage(dem, f)} ELSE {}
  <2> SUFFICES ASSUME NEW f \in {"adapter", "paper"}
               PROVE  accepted(f) = IF ComponentImage(dem, f).accepted
                                      THEN {ComponentImage(dem, f)} ELSE {}
    OBVIOUS
  <2>1. images[f] = CompiledImages(dem, f)
    BY <1>6
  <2> HIDE DEF images
  <2> QED
    BY <2>1, GivesUpOrEnds
<1>9. accepted("paper") = images["paper"] <=>
        paper.accepted /\ paper.colourings = AllColourings(paper.orbits)
  <2>1. images["paper"] = CompiledImages(dem, "paper")
    BY <1>6
  <2> HIDE DEF images
  <2> QED
    BY <2>1, GivesUpOrEnds
<1> HIDE DEF images, full, accepted
<1>10. /\ paper.accepted <=>
             full.accepted /\ LanesDisjoint(dem) /\ Colourings(full.templates, full.orbits) # {}
       /\ paper.accepted => SameImage(paper, full)
       /\ paper.accepted => paper.colourings = Colourings(full.templates, full.orbits)
  <2> HIDE DEF paper
  <2>1. PaperAgrees(paper, full, dem)
    BY <1>3 DEF paper
  <2>2. paper.accepted => IsLiftedImage(paper, dem, Orbits(dem)) /\ SameImage(paper, full)
    BY <2>1 DEF PaperAgrees, SameImage
  <2>3. paper.accepted => paper.colourings = Colourings(full.templates, full.orbits)
    BY <2>2 DEF IsLiftedImage, SameImage
  <2> QED
    BY <2>1, <2>2, <2>3 DEF PaperAgrees
<1>11. accepted("paper") # {} <=>
         full.accepted /\ LanesDisjoint(dem) /\ Colourings(full.templates, full.orbits) # {}
  BY <1>8, <1>10
<1>12. accepted("paper") = images["paper"] <=>
         /\ full.accepted /\ LanesDisjoint(dem)
         /\ Colourings(full.templates, full.orbits) = AllColourings(full.orbits)
  <2>1. paper.accepted => paper.orbits = full.orbits
    BY <1>10 DEF SameImage
  <2>2. AllColourings(full.orbits) # {}
    BY SomeColouring
  <2> HIDE DEF paper
  <2> QED
    BY <1>9, <1>10, <2>1, <2>2
<1>13. \A image \in accepted("paper") : SameImage(image, full)
  BY <1>8, <1>10
<1>14. \A a \in accepted("adapter"), p \in accepted("paper") : SameImage(a, p)
  BY <1>4, <1>8
<1>15. \A f \in DOMAIN images : \A image \in accepted(f) :
         HardwareFits(image, dem, Lifts(dem, f)) /\ TrialsLift(dem, f)
  BY <1>5, <1>6, <1>8 DEF FlavourFits
<1>16. CompilersAgree(dem, full, images)
  BY <1>11, <1>12, <1>13, <1>14, <1>15
     DEF CompilersAgree, SameImage, HardwareFits, TrialsLift, Lifts, accepted
<1> QED
  BY <1>7, <1>16 DEF ComponentImageIsExact, images, full

-----------------------------------------------------------------------------
(* The jobs of the library.                                                *)

\* Whatever models the library compiles, one after the other: no two edges of a beat of an
\* accepted image meet in a bank.
THEOREM BeatsAlwaysConflictFree == JobSpec => []BeatsAreConflictFree
<1>1. LegalJob => BeatsAreConflictFree
  <2> SUFFICES ASSUME LegalJob, Is("model") PROVE BanksNeverCollide(job.dem)
    BY DEF BeatsAreConflictFree
  <2> DEFINE priors == {job.dem[v].prior : v \in DOMAIN job.dem}
  <2>1. job.dem \in Models(priors)
    BY DEF LegalJob
  <2> HIDE DEF priors
  <2> QED
    BY <2>1, BankingSound
<1> QED
  BY <1>1, JobsStayLegal, PTL

\* Whatever circuits the library is asked to compile, in whatever numbering and typing: every
\* image it makes decides for its circuit.
THEOREM CircuitsAlwaysRoundTrip == JobSpec => []CircuitsRoundTrip
<1>1. LegalJob => CircuitsRoundTrip
  BY CircuitRoundTrip DEF LegalJob, CircuitsRoundTrip
<1> QED
  BY <1>1, JobsStayLegal, PTL

\* Whatever streams and batches the library is asked for, one after the other: the pass is a
\* sweep, and every row of a batch comes out as it would alone.
THEOREM PassesAndBatchesAlwaysAgree == JobSpec => []PassesAndBatchesAgree
<1>1. LegalJob => StreamsMatch
  BY StreamIsSweep DEF LegalJob, StreamsMatch
<1>2. LegalJob => BatchesMatch
  BY RowsAreAlone DEF LegalJob, BatchesMatch
<1>3. LegalJob => PassesAndBatchesAgree
  BY <1>1, <1>2 DEF PassesAndBatchesAgree
<1> QED
  BY <1>3, JobsStayLegal, PTL

\* Whatever error models the library compiles, one after the other: every image it accepts is
\* the model, and the S1 and the S2 compilers make the same one.
THEOREM ImagesAlwaysExact == JobSpec => []ImagesAreExact
<1>1. LegalJob => ImagesAreExact
  <2> SUFFICES ASSUME LegalJob, Is("model")
               PROVE  ImageIsExact(job.dem) /\ ComponentImageIsExact(job.dem)
    BY DEF ImagesAreExact
  <2> DEFINE priors == {job.dem[v].prior : v \in DOMAIN job.dem}
  <2>1. job.dem \in Models(priors) /\ job.dem # <<>>
    BY DEF LegalJob
  <2> HIDE DEF priors
  <2> QED
    BY <2>1, ImageExact, ComponentsExact
<1> QED
  BY <1>1, JobsStayLegal, PTL
=============================================================================

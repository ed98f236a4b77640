----------------------------- MODULE CheckUpdate -----------------------------
(***************************************************************************)
(* The integer arithmetic of a check node, in every form the code writes   *)
(* it: fixed_point.py, check_record.py, wide_minsum.py (scalar and batch), *)
(* the flooding form of paper_gross144_stage2.py, sumproduct_reference.py. *)
(* Messages are sequences of integers in edge order.                       *)
(***************************************************************************)
EXTENDS Integers, Sequences, FiniteSets, FiniteSetsExt, SequencesExt

CONSTANT CheckDegree        \* degree of a compressed check record (CHECK9: 9)

\* A record counts its edges in four bits.
ASSUME DegreeAssumption == CheckDegree \in 2 .. 16

POSTERIOR_MIN == -1024      \* 11 bits
POSTERIOR_MAX == 1023
MESSAGE_MAG_MAX == 15       \* sign and four bits
WIDE_MAG_MAX == 31          \* the default five bits of WideMinSumConfig

Abs(x) == IF x < 0 THEN -x ELSE x
Least(a, b) == IF a < b THEN a ELSE b
Saturate(x) == IF x < POSTERIOR_MIN THEN POSTERIOR_MIN
               ELSE IF x > POSTERIOR_MAX THEN POSTERIOR_MAX ELSE x

SatAdd(a, b) == Saturate(a + b)
SatSub(a, b) == Saturate(a - b)

\* normalize_magnitude: m - (m >> shift), then the field's limit.
Normalize(m, shift, limit) == Least(m - (m \div 2^shift), limit)

\* The parity of the syndrome bit and the signs of some edges.
Negative(x, edges, bit) == (bit + Cardinality({e \in edges : x[e] < 0})) % 2 = 1
Signed(negative, m) == IF negative THEN -m ELSE m

-----------------------------------------------------------------------------
(* Four forms of one update.                                               *)

\* fixed_check_update: every edge from all the others.
FixedCheckUpdate(x, bit) ==
  [e \in DOMAIN x |->
     LET others == DOMAIN x \ {e}
     IN  IF others = {} THEN 0
         ELSE Signed(Negative(x, others, bit),
                     Min({Normalize(Abs(x[o]), 2, MESSAGE_MAG_MAX) : o \in others}))]

\* check_update of the reference on whole numbers: every edge from all the
\* others, each scaled by three quarters, rounded down, no limit.
FloatCheckUpdate(x, bit) ==
  [e \in DOMAIN x |->
     LET others == DOMAIN x \ {e}
     IN  IF others = {} THEN 0
         ELSE Signed(Negative(x, others, bit), Min({(3 * Abs(x[o])) \div 4 : o \in others}))]

\* two_minima: the least magnitude, the least of the others, the first place.
TwoMinima(x) ==
  LET m  == [e \in DOMAIN x |-> Abs(x[e])]
      at == Min({e \in DOMAIN x : \A o \in DOMAIN x : m[e] <= m[o]})
  IN  [min1 |-> m[at], argmin |-> at,
       min2 |-> IF Len(x) = 1 THEN m[at] ELSE Min({m[o] : o \in DOMAIN x \ {at}})]

\* _wide_check_update: two minima; the parity of all edges against the own sign.
WideCheckUpdate(x, bit) ==
  LET t == TwoMinima(x)
  IN  [e \in DOMAIN x |->
         Signed(Negative(x, DOMAIN x, bit) # (x[e] < 0),
                Normalize(IF e = t.argmin THEN t.min2 ELSE t.min1, 3, WIDE_MAG_MAX))]

\* The k-th least of the values m, repetitions counted (np.partition).
KthLeast(m, k) ==
  Min({m[e] : e \in {o \in DOMAIN m : Cardinality({p \in DOMAIN m : m[p] <= m[o]}) >= k}})

\* One row of the batch decoder: the second minimum is taken by order.
BatchCheckUpdate(x, bit) ==
  LET m  == [e \in DOMAIN x |-> Abs(x[e])]
      at == Min({e \in DOMAIN x : \A o \in DOMAIN x : m[e] <= m[o]})
  IN  [e \in DOMAIN x |->
         Signed((x[e] < 0) # Negative(x, DOMAIN x, bit),
                Normalize(IF e = at THEN KthLeast(m, 2) ELSE m[at], 3, WIDE_MAG_MAX))]

\* The flooding form: the second minimum only where the first is unique, and
\* no normalization; the limit is that of the configured width.
FloodCheckUpdate(x, bit, limit) ==
  LET m      == [e \in DOMAIN x |-> Abs(x[e])]
      first  == Min({m[e] : e \in DOMAIN x})
      firsts == {e \in DOMAIN x : m[e] = first}
      second == IF Len(x) = 1 THEN 0
                ELSE Min({4096} \cup {m[e] : e \in DOMAIN x \ firsts})
  IN  [e \in DOMAIN x |->
         Signed((bit = 1) # (Negative(x, DOMAIN x, 0) # (x[e] < 0)),
                Least(IF firsts = {e} THEN second ELSE first, limit))]

-----------------------------------------------------------------------------
(* The compressed record of check_record.py: two magnitudes, the place of  *)
(* the exceptional one, the signs, all in one word.                        *)

\* The place of the least message is kept, not of the exceptional one.
CompressAtMin(y) ==
  LET m == [e \in DOMAIN y |-> Abs(y[e])]
      min1 == Min({m[e] : e \in DOMAIN y})
      at   == CHOOSE e \in DOMAIN y : m[e] = min1
      odd  == {e \in DOMAIN y : m[e] # min1}
  IN  [min1 |-> min1, min2 |-> IF odd = {} THEN min1 ELSE m[CHOOSE e \in odd : TRUE],
       argmin |-> at - 1, signs |-> {e - 1 : e \in {o \in DOMAIN y : y[o] < 0}}, valid |-> TRUE]

\* compress_outgoing; more than one exceptional magnitude is a ValueError.
Compress(y) ==
  LET m    == [e \in DOMAIN y |-> Abs(y[e])]
      min1 == Min({m[e] : e \in DOMAIN y})
      odd  == {e \in DOMAIN y : m[e] # min1}
      at   == IF odd = {} THEN 1 ELSE Min(odd)
  IN  [min1 |-> min1, min2 |-> m[at], argmin |-> at - 1,
       signs |-> {e - 1 : e \in {o \in DOMAIN y : y[o] < 0}}, valid |-> TRUE]

Compressible(y) ==
  LET m == [e \in DOMAIN y |-> Abs(y[e])]
  IN  Cardinality({e \in DOMAIN y : m[e] # Min({m[o] : o \in DOMAIN y})}) <= 1

VALID_BIT == 12 + CheckDegree       \* 21 for CHECK9, above which two bits are reserved
WORD_BITS == VALID_BIT + 3          \* CHECK9_BITS

\* What a bit of a word counts, and the number that some bits make.
Weight[b \in 0 .. WORD_BITS] == IF b = 0 THEN 1 ELSE 2 * Weight[b - 1]
Word(bits) == MapThenSumSet(LAMBDA b : Weight[b], bits)

Pack(r) ==
  IF ~r.valid THEN 0
  ELSE r.min1 + 16 * r.min2 + 256 * r.argmin + 4096 * Word(r.signs) + Weight[VALID_BIT]

Unpack(raw) ==
  LET word == raw % Weight[WORD_BITS]
      argmin == (word \div 256) % 16
  IN  [min1 |-> word % 16, min2 |-> (word \div 16) % 16, argmin |-> argmin,
       signs |-> {b \in 0 .. CheckDegree - 1 : (word \div Weight[12 + b]) % 2 = 1},
       valid |-> (word \div Weight[VALID_BIT]) % 2 = 1 /\ argmin < CheckDegree
                 /\ word \div Weight[VALID_BIT + 1] = 0]

Reconstruct(r) ==
  [e \in 1 .. CheckDegree |->
     IF ~r.valid THEN 0
     ELSE Signed(e - 1 \in r.signs, IF e - 1 = r.argmin THEN r.min2 ELSE r.min1)]

-----------------------------------------------------------------------------
(* Box-plus of sumproduct_reference.py.                                    *)

\* 40000 * log1p(exp(-d)), enough digits for every entry of the table.
SoftPlus == [d \in 0 .. 15 |->
  CASE d = 0 -> 27726 [] d = 1 -> 12530 [] d = 2 -> 5077 [] d = 3 -> 1943 [] d = 4 -> 726
    [] d = 5 -> 269 [] d = 6 -> 99 [] d = 7 -> 36 [] d = 8 -> 13 [] d = 9 -> 5
    [] d = 10 -> 2 [] d = 11 -> 1 [] OTHER -> 0]

\* generate_boxplus_lut at scale 4, read with both indices clamped.
Correction(difference, sum) ==
  LET entry == (SoftPlus[Least(difference, 15)] - SoftPlus[Least(sum, 15)] + 5000) \div 10000
  IN  IF entry < 0 THEN 0 ELSE entry

\* boxplus_fixed, saturated to five bits two's complement.
BoxPlus(a, b) ==
  LET l == Least(Abs(a), 15)
      r == Least(Abs(b), 15)
      m == Least(l, r) + Correction(Abs(l - r), l + r)
  IN  IF a = 0 \/ b = 0 THEN 0
      ELSE IF (a < 0) # (b < 0) THEN -Least(m, 16) ELSE Least(m, 15)

\* fixed_boxplus_check_update: zero stands for "nothing folded yet" as well as
\* for a message of no reliability.
BoxPlusCheckUpdate(x, bit) ==
  LET fold(acc, v) == IF acc = 0 THEN v ELSE BoxPlus(acc, v)
      others(e) == [k \in 1 .. Len(x) - 1 |-> x[IF k < e THEN k ELSE k + 1]]
  IN  [e \in DOMAIN x |-> Signed(bit = 1, FoldLeft(fold, 0, others(e)))]

-----------------------------------------------------------------------------
(* The promises.                                                           *)

\* Every edge from all the others, scaled and limited.
Excluding(x, bit, limit, scale(_)) ==
  [e \in DOMAIN x |->
     Signed(Negative(x, DOMAIN x \ {e}, bit),
            Least(scale(Min({Abs(x[o]) : o \in DOMAIN x \ {e}})), limit))]

\* One check, four programs: the two-minimum update of the scalar decoder, the
\* ordered one of the batch and the exclusion of the own edge give the same
\* messages, the flooding form gives them without the normalization, and a
\* compressed record, packed into a word and read back, gives every message of
\* the full update again.
UpdatesAgree(x, bit) ==
  LET full == FixedCheckUpdate(x, bit)
  IN  /\ WideCheckUpdate(x, bit) = Excluding(x, bit, WIDE_MAG_MAX, LAMBDA m : m - (m \div 8))
      /\ BatchCheckUpdate(x, bit) = WideCheckUpdate(x, bit)
      /\ FloodCheckUpdate(x, bit, 63) = Excluding(x, bit, 63, LAMBDA m : m)
      /\ Compressible(full)
      /\ Reconstruct(Unpack(Pack(Compress(full)))) = full

\* Box-plus combines two log-likelihood ratios into that of their sum, which is
\* never more reliable than the less reliable of the two
\* (sumproduct_reference.py:1 "Exact and low-precision box-plus warm-up
\* reference").
BoxPlusIsSound(a, b) == Abs(BoxPlus(a, b)) <= Least(Abs(a), Abs(b))
=============================================================================

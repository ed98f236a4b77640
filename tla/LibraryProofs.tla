----------------------------- MODULE LibraryProofs -----------------------------
(***************************************************************************)
(* What TLAPS proves of the two parts of the library that decode nothing:  *)
(* the release workflow and the construction of the code.                  *)
(*                                                                         *)
(* Release workflow, for every set of calls, every budget, quorum and      *)
(* number of relay legs: the shape of a call's trace and the four          *)
(* properties the runs check.                                              *)
(*                                                                         *)
(* CodesAlwaysPaired (GrossCode): for every torus and every two            *)
(* polynomials, the matrices pass the code's own validation, the           *)
(* translations are automorphisms, and the logical bits of an error        *)
(* without a syndrome are zero exactly if it is a sum of checks.  The      *)
(* argument: every step of the elimination keeps the span of the rows, so  *)
(* that the rank is its dimension and the null vectors are a basis of what *)
(* meets it evenly; the extension adds a candidate exactly when it is      *)
(* outside of what is spanned so far; a sum of X operators that meets      *)
(* every Z operator evenly is then a stabilizer, which makes their pairing *)
(* invertible.  The checks commute because the cells two of them share on  *)
(* the left are opposite to those they share on the right.                 *)
(***************************************************************************)
EXTENDS ReleaseWorkflow, LibraryJobs, Induction, SequenceTheorems

-----------------------------------------------------------------------------
(* The release workflow: what its variables hold.                          *)

Candidates == [sat : BOOLEAN, valid : BOOLEAN, meets : BOOLEAN]
Statuses == {"SUCCESS", "DEFER", "FAIL_INTERNAL"}
Results == [status : Statuses \cup {"raised", "malformed"}, candidate : Candidates, work : Nat]
StageNames == {"S0", "S1", "S1A", "S2", "S2R", "HOST", "none"}
Executions == [stage : StageNames, status : Statuses, work : Nat]

-----------------------------------------------------------------------------
(* The two folds of the module, one position at a time.                    *)

\* f accumulates the work of the executions of s.
IsRunningWork(f, s) ==
  f[0] = 0 /\ \A i \in 1..Len(s) : f[i] = f[i - 1] + s[i].work

\* WorkOf is the last value of a running sum.
LEMMA WorkByPosition ==
  ASSUME NEW s \in Seq(Executions)
  PROVE  \E f : IsRunningWork(f, s) /\ WorkOf(s) = f[Len(s)]
<1> DEFINE n == Len(s)
           step == [i \in 1..n |-> [v \in Nat |-> v + s[i].work]]
           Rec(h) == [S \in SUBSET (1..n) |->
                        IF S = {} THEN 0 ELSE h[S \ {Max(S)}] + s[Max(S)].work]
<1>1. n \in Nat /\ DOMAIN s = 1..n /\ \A i \in 1..n : s[i] \in Executions
  OBVIOUS
<1>2. \A i \in 1..n : s[i].work \in Nat
  BY <1>1 DEF Executions
<1>3. IsStep(step, Nat, n)
  BY <1>2 DEF IsStep
<1>4. PICK g : IsFold(g, Nat, 0, n, step)
  <2> HIDE DEF step, n
  <2> QED
    BY <1>1, <1>3, FoldExists
<1>5. g = Rec(g)
  <2>1. g \in [SUBSET (1..n) -> Nat] /\ g[{}] = 0
    BY <1>4 DEF IsFold
  <2>2. ASSUME NEW S \in SUBSET (1..n), S # {} PROVE g[S] = g[S \ {Max(S)}] + s[Max(S)].work
    <3>1. Max(S) \in 1..n /\ S \ {Max(S)} \in SUBSET (1..n)
      BY <1>1, <2>2, MaxOfPositions
    <3>2. g[S] = step[Max(S)][g[S \ {Max(S)}]]
      BY <1>4, <2>2 DEF IsFold
    <3> QED
      BY <3>1, <3>2, <2>1
  <2> QED
    BY <2>1, <2>2
<1> DEFINE h == CHOOSE k : k = Rec(k)
<1>6. h = Rec(h)
  BY <1>5
<1>7. WorkOf(s) = h[1..n]
  BY <1>1 DEF WorkOf, FoldLeft, MapThenFoldSet
<1> DEFINE f == [i \in 0..n |-> h[1..i]]
<1> HIDE DEF h
<1>8. f[0] = 0
  <2>1. 1..0 = {}
    OBVIOUS
  <2> QED
    BY <2>1, <1>6, <1>1
<1>9. ASSUME NEW i \in 1..n PROVE f[i] = f[i - 1] + s[i].work
  <2>1. Max(1..i) = i /\ 1..i \in SUBSET (1..n) /\ 1..i # {} /\ (1..i) \ {i} = 1..(i - 1)
    BY <1>1, MaxOfInterval
  <2>2. h[1..i] = h[(1..i) \ {Max(1..i)}] + s[Max(1..i)].work
    BY <1>6, <2>1
  <2>3. h[1..i] = h[1..(i - 1)] + s[i].work
    BY <2>1, <2>2
  <2>4. i \in 0..n /\ i - 1 \in 0..n
    BY <1>1
  <2> QED
    BY <2>3, <2>4
<1>10. f[n] = h[1..n]
  BY <1>1
<1> HIDE DEF f
<1>11. IsRunningWork(f, s)
  BY <1>8, <1>9 DEF IsRunningWork
<1> QED
  BY <1>7, <1>10, <1>11

\* An appended execution adds its work.
LEMMA WorkOfAppend ==
  ASSUME NEW s \in Seq(Executions), NEW x \in Executions
  PROVE  WorkOf(<<>>) = 0 /\ WorkOf(Append(s, x)) = WorkOf(s) + x.work
<1> DEFINE n == Len(s)
           t == Append(s, x)
<1>1. /\ n \in Nat /\ t \in Seq(Executions) /\ Len(t) = n + 1 /\ t[n + 1] = x
      /\ \A i \in 1..n : t[i] = s[i]
  OBVIOUS
<1>2. PICK f : IsRunningWork(f, s) /\ WorkOf(s) = f[Len(s)]
  BY WorkByPosition
<1>3. PICK g : IsRunningWork(g, t) /\ WorkOf(t) = g[Len(t)]
  BY <1>1, WorkByPosition
<1> HIDE DEF t
<1> DEFINE Agree == {i \in 0..n : f[i] = g[i]}
<1>4. 0 \in Agree
  BY <1>1, <1>2, <1>3 DEF IsRunningWork
<1>5. ASSUME NEW i \in 1..n, (i - 1) \in Agree PROVE i \in Agree
  <2>1. f[i] = f[i - 1] + s[i].work
    BY <1>2 DEF IsRunningWork
  <2>2. g[i] = g[i - 1] + t[i].work
    BY <1>1, <1>3 DEF IsRunningWork
  <2> QED
    BY <1>1, <1>5, <2>1, <2>2
<1> HIDE DEF Agree, n
<1>6. 0..n \subseteq Agree
  BY <1>1, <1>4, <1>5, IntervalInduction
<1>7. f[n] = g[n]
  BY <1>1, <1>6 DEF Agree
<1>8. g[n + 1] = g[n] + t[n + 1].work
  BY <1>1, <1>3 DEF IsRunningWork
<1>9. WorkOf(<<>>) = 0
  <2>1. <<>> \in Seq(Executions) /\ Len(<<>>) = 0
    OBVIOUS
  <2>2. PICK k : IsRunningWork(k, <<>>) /\ WorkOf(<<>>) = k[0]
    BY <2>1, WorkByPosition
  <2> QED
    BY <2>2 DEF IsRunningWork
<1> QED
  BY <1>1, <1>2, <1>3, <1>7, <1>8, <1>9 DEF t, n

Traces == [work : Nat, stages : Nat, status : Statuses \cup {"running"}]

\* f is the telescope's trace after each prefix of s.
IsRunningTrace(f, s) ==
  f[0] = TelescopeStart /\ \A i \in 1..Len(s) : f[i] = TelescopeStep(f[i - 1], s[i])

\* A step of the telescope gives a trace.
LEMMA TelescopeStepTyped ==
  \A v \in Traces : \A r \in Results : TelescopeStep(v, r) \in Traces
<1> SUFFICES ASSUME NEW v \in Traces, NEW r \in Results PROVE TelescopeStep(v, r) \in Traces
  OBVIOUS
<1> QED
  BY DEF TelescopeStep, Traces, Results, Statuses

\* TelescopeTrace is the last value of a running trace.
LEMMA TraceByPosition ==
  ASSUME NEW s \in Seq(Results)
  PROVE  \E f : IsRunningTrace(f, s) /\ TelescopeTrace(s) = f[Len(s)]
<1> DEFINE n == Len(s)
           step == [i \in 1..n |-> [v \in Traces |-> TelescopeStep(v, s[i])]]
           Rec(h) == [S \in SUBSET (1..n) |->
                        IF S = {} THEN TelescopeStart
                        ELSE TelescopeStep(h[S \ {Max(S)}], s[Max(S)])]
<1>1. n \in Nat /\ DOMAIN s = 1..n /\ \A i \in 1..n : s[i] \in Results
  OBVIOUS
<1>2. TelescopeStart \in Traces
  BY DEF TelescopeStart, Traces
<1>3. IsStep(step, Traces, n)
  BY <1>1, TelescopeStepTyped DEF IsStep
<1>4. PICK g : IsFold(g, Traces, TelescopeStart, n, step)
  <2> HIDE DEF step, n
  <2> QED
    BY <1>1, <1>2, <1>3, FoldExists
<1>5. g = Rec(g)
  <2>1. g \in [SUBSET (1..n) -> Traces] /\ g[{}] = TelescopeStart
    BY <1>4 DEF IsFold
  <2>2. ASSUME NEW S \in SUBSET (1..n), S # {}
        PROVE  g[S] = TelescopeStep(g[S \ {Max(S)}], s[Max(S)])
    <3>1. Max(S) \in 1..n /\ S \ {Max(S)} \in SUBSET (1..n)
      BY <1>1, <2>2, MaxOfPositions
    <3>2. g[S] = step[Max(S)][g[S \ {Max(S)}]]
      BY <1>4, <2>2 DEF IsFold
    <3> QED
      BY <3>1, <3>2, <2>1
  <2> QED
    BY <2>1, <2>2
<1> DEFINE h == CHOOSE k : k = Rec(k)
<1>6. h = Rec(h)
  BY <1>5
<1>7. TelescopeTrace(s) = h[1..n]
  BY <1>1 DEF TelescopeTrace, FoldLeft, MapThenFoldSet
<1> DEFINE f == [i \in 0..n |-> h[1..i]]
<1> HIDE DEF h
<1>8. f[0] = TelescopeStart
  <2>1. 1..0 = {}
    OBVIOUS
  <2> QED
    BY <2>1, <1>6, <1>1
<1>9. ASSUME NEW i \in 1..n PROVE f[i] = TelescopeStep(f[i - 1], s[i])
  <2>1. Max(1..i) = i /\ 1..i \in SUBSET (1..n) /\ 1..i # {} /\ (1..i) \ {i} = 1..(i - 1)
    BY <1>1, MaxOfInterval
  <2>2. h[1..i] = TelescopeStep(h[(1..i) \ {Max(1..i)}], s[Max(1..i)])
    BY <1>6, <2>1
  <2>3. h[1..i] = TelescopeStep(h[1..(i - 1)], s[i])
    BY <2>1, <2>2
  <2>4. i \in 0..n /\ i - 1 \in 0..n
    BY <1>1
  <2> QED
    BY <2>3, <2>4
<1>10. f[n] = h[1..n]
  BY <1>1
<1> HIDE DEF f
<1>11. IsRunningTrace(f, s)
  BY <1>8, <1>9 DEF IsRunningTrace
<1> QED
  BY <1>7, <1>10, <1>11

\* An appended result is one step of the telescope.
LEMMA TraceOfAppend ==
  ASSUME NEW s \in Seq(Results), NEW x \in Results
  PROVE  /\ TelescopeTrace(<<>>) = TelescopeStart
         /\ TelescopeTrace(Append(s, x)) = TelescopeStep(TelescopeTrace(s), x)
<1> DEFINE n == Len(s)
           t == Append(s, x)
<1>1. /\ n \in Nat /\ t \in Seq(Results) /\ Len(t) = n + 1 /\ t[n + 1] = x
      /\ \A i \in 1..n : t[i] = s[i]
  OBVIOUS
<1>2. PICK f : IsRunningTrace(f, s) /\ TelescopeTrace(s) = f[Len(s)]
  BY TraceByPosition
<1>3. PICK g : IsRunningTrace(g, t) /\ TelescopeTrace(t) = g[Len(t)]
  BY <1>1, TraceByPosition
<1> HIDE DEF t
<1> DEFINE Agree == {i \in 0..n : f[i] = g[i]}
<1>4. 0 \in Agree
  BY <1>1, <1>2, <1>3 DEF IsRunningTrace
<1>5. ASSUME NEW i \in 1..n, (i - 1) \in Agree PROVE i \in Agree
  <2>1. f[i] = TelescopeStep(f[i - 1], s[i])
    BY <1>2 DEF IsRunningTrace
  <2>2. g[i] = TelescopeStep(g[i - 1], t[i])
    BY <1>1, <1>3 DEF IsRunningTrace
  <2> QED
    BY <1>1, <1>5, <2>1, <2>2
<1> HIDE DEF Agree, n
<1>6. 0..n \subseteq Agree
  BY <1>1, <1>4, <1>5, IntervalInduction
<1>7. f[n] = g[n]
  BY <1>1, <1>6 DEF Agree
<1>8. g[n + 1] = TelescopeStep(g[n], t[n + 1])
  BY <1>1, <1>3 DEF IsRunningTrace
<1>9. TelescopeTrace(<<>>) = TelescopeStart
  <2>1. <<>> \in Seq(Results) /\ Len(<<>>) = 0
    OBVIOUS
  <2>2. PICK k : IsRunningTrace(k, <<>>) /\ TelescopeTrace(<<>>) = k[0]
    BY <2>1, TraceByPosition
  <2> QED
    BY <2>2 DEF IsRunningTrace
<1> QED
  BY <1>1, <1>2, <1>3, <1>7, <1>8, <1>9 DEF t, n

-----------------------------------------------------------------------------
(* The shape of a call's trace.                                            *)

\* The records are the results of a prefix of the stage order, one each, and while the
\* call is pending there is a next stage.
WorkflowShape ==
  /\ call \in Calls
  /\ returned \in Seq(Results) /\ records \in Seq(Executions) /\ total \in Nat
  /\ Len(returned) = Len(records) /\ Len(records) <= Len(Order)
  /\ \A i \in DOMAIN records : records[i].stage = Order[i]
  /\ outcome \in [status : Statuses \cup {"pending"}, stage : StageNames, candidate : Candidates]
  /\ outcome.status = "pending" => Len(records) < Len(Order) /\ outcome.stage = "none"
  /\ cache \in [resident : {"none"} \cup {c.image : c \in Calls}, cold : Nat, warm : Nat]
  /\ windows \in 1..Windows

\* What a stage may make of its turn.
Elected(v) ==
  LET n(k) == Cardinality({l \in DOMAIN v : v[l] = k}) IN
  \E k \in Vote : n(k) >= Quorum /\ \A j \in Vote \ {k} : n(j) < n(k)

StageReturns(result) ==
  /\ outcome.status = "pending" /\ Stage \in ToSet(Stages) \cap call.budgets
  /\ Conclude(result)
  /\ result.status = "SUCCESS" /\ Stage # "HOST" => result.candidate.meets \/ Untold(Stage)
  /\ result.status = "SUCCESS" /\ Stage = "S2R" => Elected(votes')
  /\ cache' \in [resident : {"none"} \cup {c.image : c \in Calls}, cold : Nat, warm : Nat]

\* Every call has at least one stage, and each type its own list of them.
LEMMA OrderFacts ==
  /\ \A type : Len(OrderOf(type)) \in 1..5
  /\ OrderOf("CIRCUIT") = Stages /\ Len(Stages) = 5
  /\ ToSet(Stages) = {"S1", "S1A", "S2", "S2R", "HOST"}
<1> DEFINE Names == {"S1", "S1A", "S2", "S2R", "HOST"}
<1>1. Len(Stages) = 5 /\ \A i \in 1..5 : Stages[i] \in Names
  <2>1. /\ Stages[1] = "S1" /\ Stages[2] = "S1A" /\ Stages[3] = "S2"
        /\ Stages[4] = "S2R" /\ Stages[5] = "HOST" /\ Len(Stages) = 5
    BY DEF Stages
  <2>2. \A i \in 1..5 : i = 1 \/ i = 2 \/ i = 3 \/ i = 4 \/ i = 5
    OBVIOUS
  <2> QED
    BY <2>1, <2>2, Zenon
<1>2. Len(SubSeq(Stages, 1, 2)) = 2 /\ Len(SubSeq(Stages, 1, 4)) = 4
  BY <1>1, SubSeqProperties
<1>3. \A type : OrderOf(type) \in {SubSeq(Stages, 1, 2), SubSeq(Stages, 1, 4), Stages}
  BY DEF OrderOf
<1>4. \A type : Len(OrderOf(type)) \in 1..5
  BY <1>1, <1>2, <1>3
<1>5. OrderOf("CIRCUIT") = Stages
  BY DEF OrderOf
<1>6. ToSet(Stages) = {"S1", "S1A", "S2", "S2R", "HOST"}
  BY DEF ToSet, Stages
<1> QED
  BY <1>1, <1>4, <1>5, <1>6

\* One winner of the relay vote is an elected class: a quorum chose it, and any class with
\* as many votes would be a winner too.
LEMMA OneWinnerIsElected ==
  ASSUME NEW D \in SUBSET (1..RelayLegs), NEW v \in [D -> Vote], Cardinality(RelayWinners(v)) = 1
  PROVE  Elected(v)
<1> DEFINE n(k) == Cardinality({l \in DOMAIN v : v[l] = k})
<1>1. \A k \in Vote : n(k) \in Nat
  <2> TAKE k \in Vote
  <2>1. IsFiniteSet(1..RelayLegs)
    BY FS_Interval, WorkflowAssumption
  <2>2. IsFiniteSet({l \in DOMAIN v : v[l] = k})
    BY <2>1, FS_Subset
  <2> QED
    BY <2>2, FS_CardinalityType
<1>2. IsFiniteSet(RelayWinners(v))
  <2>1. \A m \in Int : IsFiniteSet(0..m)
    BY FS_Interval
  <2> QED
    <3>1. RelayWinners(v) \subseteq 0..2
      BY DEF RelayWinners, Vote
    <3> QED
      BY <2>1, <3>1, FS_Subset
<1>3. PICK k : RelayWinners(v) = {k}
  BY <1>2, FS_Singleton
<1>4. k \in Vote /\ n(k) >= Quorum /\ \A j \in Vote : n(j) <= n(k)
  BY <1>3 DEF RelayWinners
<1>5. ASSUME NEW j \in Vote \ {k} PROVE n(j) < n(k)
  <2>1. \/ ~(n(j) >= Quorum)
        \/ \E i \in Vote : ~(n(i) <= n(j))
    BY <1>3 DEF RelayWinners
  <2> HIDE DEF n
  <2> QED
    BY <2>1, <1>1, <1>4, WorkflowAssumption
<1> QED
  BY <1>4, <1>5 DEF Elected

\* Every stage returns one result, with what the later properties need of it.
LEMMA StagesReturn ==
  ASSUME WorkflowShape, RunS1 \/ RunS1A \/ RunS2 \/ RunS2R \/ RunHost
  PROVE  \E result \in Results : StageReturns(result)
<1>1. /\ Defer(0) \in Results /\ FailInternal(0) \in Results
      /\ \A w \in Nat : Defer(w) \in Results /\ FailInternal(w) \in Results
      /\ \A w \in Nat : \A c \in Candidates : Success(c, w) \in Results
  BY DEF Results, Statuses, Candidates, Defer, FailInternal, Success, Result, NoCandidate
<1>2. Decoded \in Candidates /\ Decoded.meets
  BY DEF Decoded, Judged, Candidates
<1>3. ToSet(Stages) = {"S1", "S1A", "S2", "S2R", "HOST"}
  BY OrderFacts DEF WorkflowShape
<1>4. \A w : /\ Defer(w).status = "DEFER" /\ FailInternal(w).status = "FAIL_INTERNAL"
             /\ \A c : Success(c, w).status = "SUCCESS" /\ Success(c, w).candidate = c
  BY DEF Defer, FailInternal, Success, Result
<1>5. CASE RunS1
  <2>1. PICK w \in 0..1 : Conclude(Success(Decoded, w)) \/ Conclude(Defer(w))
    BY <1>5 DEF RunS1
  <2>2. Stage = "S1" /\ outcome.status = "pending" /\ Stage \in call.budgets /\ cache' = cache
    BY <1>5 DEF RunS1, Budgeted, Turn
  <2>3. \A r : Conclude(r) /\ r \in {Success(Decoded, w), Defer(w)} => StageReturns(r)
    BY <2>2, <1>2, <1>3, <1>4 DEF StageReturns, WorkflowShape
  <2> QED
    BY <2>1, <2>3, <1>1, <1>2
<1>6. CASE RunS1A
  <2>1. PICK w \in 0..2 : Conclude(Success(Decoded, w)) \/ Conclude(Defer(w)) \/ Conclude(FailInternal(0))
    BY <1>6 DEF RunS1A
  <2>2. Stage = "S1A" /\ outcome.status = "pending" /\ Stage \in call.budgets /\ cache' = cache
    BY <1>6 DEF RunS1A, Budgeted, Turn
  <2>3. \A r : Conclude(r) /\ r \in {Success(Decoded, w), Defer(w), FailInternal(0)} => StageReturns(r)
    BY <2>2, <1>2, <1>3, <1>4 DEF StageReturns, WorkflowShape
  <2> QED
    BY <2>1, <2>3, <1>1, <1>2
<1>7. CASE RunS2
  <2>1. Stage = "S2" /\ outcome.status = "pending" /\ Stage \in call.budgets
    BY <1>7 DEF RunS2, Budgeted, Turn
  <2>2. ASSUME NEW c \in Stage2Candidates
        PROVE  c \in Candidates /\ (c.sat => c.meets \/ Untold("S2"))
    <3>1. PICK given \in GivenSyndromes : c = Judged(given = "image", given = call.target)
      BY <2>2 DEF Stage2Candidates
    <3>2. c \in Candidates /\ (c.sat <=> given = "image") /\ (c.meets <=> given = call.target)
      BY <3>1 DEF Judged, Candidates
    <3>3. JudgedInOrder => given = call.target
      BY <3>1 DEF GivenSyndromes, JudgedInOrder
    <3> QED
      BY <3>2, <3>3 DEF Untold, JudgedInOrder
  <2>3. cache' \in [resident : {"none"} \cup {c.image : c \in Calls}, cold : Nat, warm : Nat]
    <3>1. Load(call.image) \in [resident : {"none"} \cup {c.image : c \in Calls}, cold : Nat, warm : Nat]
      <4>1. call.image \in {c.image : c \in Calls}
        BY DEF WorkflowShape
      <4>2. cache.cold \in Nat /\ cache.warm \in Nat /\ cache.resident \in {"none"} \cup {c.image : c \in Calls}
        BY DEF WorkflowShape
      <4>3. Load(call.image) = IF cache.resident = call.image
              THEN [resident |-> cache.resident, cold |-> cache.cold, warm |-> cache.warm + 1]
              ELSE [resident |-> call.image, cold |-> cache.cold + 1, warm |-> cache.warm]
        BY DEF Load, WorkflowShape
      <4> QED
        BY <4>1, <4>2, <4>3
    <3> QED
      BY <1>7, <3>1 DEF RunS2, WorkflowShape
  <2>4. \E w \in Nat : \/ Conclude(Defer(w)) \/ Conclude(FailInternal(w))
                       \/ \E c \in Stage2Candidates : Conclude(Success(c, w)) /\ c.sat
    <3>1. CASE call.image = "none"
      BY <1>7, <3>1 DEF RunS2
    <3>2. CASE call.image # "none" /\ ~call.sections
      BY <1>7, <3>2 DEF RunS2
    <3>3. CASE call.image # "none" /\ call.sections
      <4>1. PICK decoded \in BOOLEAN, c \in Stage2Candidates :
              LET work == IF cache'.warm > cache.warm THEN WarmLoad ELSE ColdLoad IN
              Conclude(IF ~GariSuccess(decoded) THEN Defer(work)
                       ELSE IF c.sat THEN Success(c, work) ELSE FailInternal(work))
        BY <1>7, <3>3 DEF RunS2
      <4> DEFINE work == IF cache'.warm > cache.warm THEN WarmLoad ELSE ColdLoad
      <4>2. work \in Nat
        BY WorkflowAssumption
      <4>3. \/ Conclude(Defer(work)) \/ Conclude(FailInternal(work))
            \/ Conclude(Success(c, work)) /\ c.sat
        <5>1. CASE ~GariSuccess(decoded)
          BY <4>1, <5>1
        <5>2. CASE GariSuccess(decoded) /\ c.sat
          BY <4>1, <5>2
        <5>3. CASE GariSuccess(decoded) /\ ~c.sat
          BY <4>1, <5>3
        <5> QED
          BY <5>1, <5>2, <5>3
      <4> HIDE DEF work
      <4> QED
        BY <4>1, <4>2, <4>3
    <3> QED
      BY <3>1, <3>2, <3>3
  <2>5. PICK w \in Nat : \/ Conclude(Defer(w)) \/ Conclude(FailInternal(w))
                         \/ \E c \in Stage2Candidates : Conclude(Success(c, w)) /\ c.sat
    BY <2>4
  <2>6. \A r : Conclude(r) /\ r \in {Defer(w), FailInternal(w)} => StageReturns(r)
    BY <2>1, <2>3, <1>3, <1>4 DEF StageReturns
  <2>7. ASSUME NEW c \in Stage2Candidates, Conclude(Success(c, w)), c.sat
        PROVE  StageReturns(Success(c, w)) /\ Success(c, w) \in Results
    BY <2>1, <2>2, <2>3, <2>7, <1>1, <1>3, <1>4 DEF StageReturns
  <2> QED
    BY <2>5, <2>6, <2>7, <1>1
<1>8. CASE RunS2R
  <2>1. Stage = "S2R" /\ outcome.status = "pending" /\ Stage \in call.budgets /\ cache' = cache
    BY <1>8 DEF RunS2R, Budgeted, Turn
  <2>2. CASE ~call.relay
    <3>1. Conclude(Defer(0))
      BY <1>8, <2>2 DEF RunS2R
    <3> QED
      BY <3>1, <2>1, <1>1, <1>3, <1>4 DEF StageReturns, WorkflowShape
  <2>3. CASE call.relay
    <3>1. PICK D \in SUBSET (1..RelayLegs) : \E v \in [D -> Vote] :
            /\ votes' = v
            /\ Conclude(IF D # {} /\ Cardinality(RelayWinners(v)) = 1
                          THEN Success(Decoded, 1) ELSE Defer(1))
      BY <1>8, <2>3 DEF RunS2R
    <3>2. PICK v \in [D -> Vote] :
            /\ votes' = v
            /\ Conclude(IF D # {} /\ Cardinality(RelayWinners(v)) = 1
                          THEN Success(Decoded, 1) ELSE Defer(1))
      BY <3>1
    <3>3. CASE Cardinality(RelayWinners(v)) = 1 /\ D # {}
      <4>1. Elected(votes')
        BY <3>2, <3>3, OneWinnerIsElected
      <4>2. Conclude(Success(Decoded, 1))
        BY <3>2, <3>3
      <4>3. Success(Decoded, 1) \in Results
        BY <1>1, <1>2
      <4>4. StageReturns(Success(Decoded, 1))
        BY <4>1, <4>2, <2>1, <1>2, <1>3, <1>4 DEF StageReturns, WorkflowShape
      <4> QED
        BY <4>3, <4>4
    <3>4. CASE ~(Cardinality(RelayWinners(v)) = 1 /\ D # {})
      <4>1. Conclude(Defer(1))
        BY <3>2, <3>4
      <4> QED
        BY <4>1, <2>1, <1>1, <1>3, <1>4 DEF StageReturns, WorkflowShape
    <3> QED
      BY <3>3, <3>4
  <2> QED
    BY <2>2, <2>3
<1>9. CASE RunHost
  <2>1. Stage = "HOST" /\ outcome.status = "pending" /\ Stage \in call.budgets /\ cache' = cache
    BY <1>9 DEF RunHost, Budgeted, Turn
  <2>2. HostResults \subseteq Results
    <3>1. {Defer(1), FailInternal(1), Raised, Malformed} \subseteq Results
      BY DEF Results, Statuses, Candidates, Defer, FailInternal, Raised, Malformed, Result, NoCandidate
    <3>2. [status : {"SUCCESS"}, candidate : HostCandidates, work : {0, 1, 3}] \subseteq Results
      BY DEF HostCandidates, Results, Statuses, Candidates
    <3> QED
      BY <3>1, <3>2 DEF HostResults
  <2>3. \E r \in Results : Conclude(r)
    BY <1>9, <2>2, <1>1 DEF RunHost
  <2>4. \A r : Conclude(r) => StageReturns(r)
    BY <2>1, <1>3 DEF StageReturns, WorkflowShape
  <2> QED
    BY <2>3, <2>4
<1> QED
  BY <1>5, <1>6, <1>7, <1>8, <1>9

Execution(result) == [stage |-> Stage, status |-> StatusOf(result), work |-> result.work]

\* What the controller makes of a result is one execution and an outcome.
LEMMA ConcludeFacts ==
  ASSUME WorkflowShape, NEW result \in Results, StageReturns(result)
  PROVE  /\ Execution(result) \in Executions
         /\ returned' = Append(returned, result) /\ records' = Append(records, Execution(result))
         /\ total' = total + result.work /\ result.work \in Nat
         /\ call' = call /\ windows' = windows
         /\ Len(records) \in Nat /\ Len(records') = Len(records) + 1
         /\ records'[Len(records) + 1] = Execution(result)
         /\ \A i \in 1..Len(records) : records'[i] = records[i]
         /\ DOMAIN records = 1..Len(records) /\ DOMAIN records' = 1..(Len(records) + 1)
         /\ \/ StatusOf(result) = "SUCCESS" /\ outcome' = Return("SUCCESS", Stage, result.candidate)
            \/ /\ StatusOf(result) = "FAIL_INTERNAL"
               /\ outcome' = Return("FAIL_INTERNAL", "none", NoCandidate)
            \/ /\ StatusOf(result) = "DEFER" /\ Len(records') = Len(Order)
               /\ outcome' = Return("DEFER", "none", NoCandidate)
            \/ /\ StatusOf(result) = "DEFER" /\ Len(records') # Len(Order)
               /\ outcome' = Pending
<1>1. StatusOf(result) \in Statuses
  BY DEF StatusOf, Statuses, Results
<1>2. Stage \in StageNames
  BY OrderFacts DEF StageReturns, WorkflowShape, StageNames
<1>3. Execution(result) \in Executions
  BY <1>1, <1>2 DEF Execution, Executions, Results
<1>4. /\ returned' = Append(returned, result) /\ records' = Append(records, Execution(result))
      /\ total' = total + result.work /\ call' = call /\ windows' = windows
      /\ outcome' = IF StatusOf(result) = "SUCCESS"
                      THEN Return(StatusOf(result), Stage, result.candidate)
                    ELSE IF StatusOf(result) = "FAIL_INTERNAL" \/ Len(records') = Len(Order)
                      THEN Return(StatusOf(result), "none", NoCandidate)
                    ELSE Pending
  BY DEF StageReturns, Conclude, Execution
<1>5. records \in Seq(Executions)
  BY DEF WorkflowShape
<1>6. /\ Len(records) \in Nat /\ Len(records') = Len(records) + 1
      /\ records'[Len(records) + 1] = Execution(result)
      /\ \A i \in 1..Len(records) : records'[i] = records[i]
      /\ DOMAIN records = 1..Len(records) /\ DOMAIN records' = 1..(Len(records) + 1)
  BY <1>3, <1>4, <1>5
<1>7. \/ StatusOf(result) = "SUCCESS" /\ outcome' = Return("SUCCESS", Stage, result.candidate)
      \/ /\ StatusOf(result) = "FAIL_INTERNAL"
         /\ outcome' = Return("FAIL_INTERNAL", "none", NoCandidate)
      \/ /\ StatusOf(result) = "DEFER" /\ Len(records') = Len(Order)
         /\ outcome' = Return("DEFER", "none", NoCandidate)
      \/ /\ StatusOf(result) = "DEFER" /\ Len(records') # Len(Order)
         /\ outcome' = Pending
  <2>1. CASE StatusOf(result) = "SUCCESS"
    BY <1>4, <2>1
  <2>2. CASE StatusOf(result) = "FAIL_INTERNAL"
    BY <1>4, <2>2
  <2>3. CASE StatusOf(result) = "DEFER"
    BY <1>4, <2>3
  <2> QED
    BY <1>1, <2>1, <2>2, <2>3 DEF Statuses
<1>8. result.work \in Nat
  BY DEF Results
<1> QED
  BY <1>3, <1>4, <1>6, <1>7, <1>8

\* A call begins with nothing done, and is over at once exactly if its target is zero.
FreshCall ==
  /\ returned = <<>> /\ records = <<>> /\ total = 0 /\ votes = <<>>
  /\ outcome \in {Return("SUCCESS", "S0", NoCandidate), Pending}

\* The cases of a step, as the invariants below need them.
LEMMA StepCases ==
  ASSUME WorkflowShape, [WorkflowStep]_wvars
  PROVE  \/ UNCHANGED wvars
         \/ /\ outcome.status = "pending" /\ Stage \notin call.budgets
            /\ outcome' = Return("FAIL_INTERNAL", "none", NoCandidate)
            /\ UNCHANGED <<call, returned, records, total, votes, cache, windows>>
         \/ \E result \in Results : StageReturns(result)
         \/ /\ call' \in Calls /\ FreshCall' /\ UNCHANGED cache
            /\ windows' = windows + 1 /\ windows < Windows
<1>1. CASE MissingBudget
  BY <1>1 DEF MissingBudget
<1>2. CASE RunS1 \/ RunS1A \/ RunS2 \/ RunS2R \/ RunHost
  BY <1>2, StagesReturn
<1>3. CASE NextWindow
  BY <1>3 DEF NextWindow, Begin, FreshCall
<1> QED
  BY <1>1, <1>2, <1>3 DEF WorkflowStep

\* What a fresh call begins with is in the shape's sets.
LEMMA FreshTyped ==
  \A o \in {Return("SUCCESS", "S0", NoCandidate), Pending} :
    /\ o \in [status : Statuses \cup {"pending"}, stage : StageNames, candidate : Candidates]
    /\ o.status = "pending" => o.stage = "none"
<1>1. NoCandidate \in Candidates
  BY DEF NoCandidate, Candidates
<1>2. /\ Return("SUCCESS", "S0", NoCandidate).status = "SUCCESS"
      /\ Return("SUCCESS", "S0", NoCandidate)
           \in [status : Statuses \cup {"pending"}, stage : StageNames, candidate : Candidates]
  BY <1>1 DEF Return, Statuses, StageNames
<1>3. /\ Pending.stage = "none"
      /\ Pending \in [status : Statuses \cup {"pending"}, stage : StageNames, candidate : Candidates]
  BY <1>1 DEF Pending, Statuses, StageNames
<1> QED
  BY <1>2, <1>3

\* The trace keeps its shape.
LEMMA ShapeStep ==
  ASSUME WorkflowShape, [WorkflowStep]_wvars
  PROVE  WorkflowShape'
<1>1. CASE UNCHANGED wvars
  BY <1>1 DEF wvars, WorkflowShape, Order
<1>2. CASE /\ outcome.status = "pending"
           /\ outcome' = Return("FAIL_INTERNAL", "none", NoCandidate)
           /\ UNCHANGED <<call, returned, records, total, votes, cache, windows>>
  <2>1. outcome' \in [status : Statuses \cup {"pending"}, stage : StageNames, candidate : Candidates]
    BY <1>2 DEF Return, NoCandidate, Candidates, Statuses, StageNames
  <2>2. outcome'.status # "pending"
    BY <1>2 DEF Return
  <2> QED
    BY <1>2, <2>1, <2>2 DEF WorkflowShape, Order
<1>3. ASSUME NEW result \in Results, StageReturns(result) PROVE WorkflowShape'
  <2>1. /\ Execution(result) \in Executions
        /\ returned' = Append(returned, result) /\ records' = Append(records, Execution(result))
        /\ total' = total + result.work /\ result.work \in Nat
        /\ call' = call /\ windows' = windows
        /\ Len(records) \in Nat /\ Len(records') = Len(records) + 1
        /\ records'[Len(records) + 1] = Execution(result)
        /\ \A i \in 1..Len(records) : records'[i] = records[i]
        /\ DOMAIN records = 1..Len(records) /\ DOMAIN records' = 1..(Len(records) + 1)
    BY <1>3, ConcludeFacts
  <2>2. /\ outcome' \in [status : Statuses \cup {"pending"}, stage : StageNames, candidate : Candidates]
        /\ outcome'.status = "pending" => Len(records') # Len(Order) /\ outcome'.stage = "none"
    <3>1. \/ outcome' = Return("SUCCESS", Stage, result.candidate)
          \/ outcome' = Return("FAIL_INTERNAL", "none", NoCandidate)
          \/ outcome' = Return("DEFER", "none", NoCandidate)
          \/ Len(records') # Len(Order) /\ outcome' = Pending
      BY <1>3, ConcludeFacts
    <3>2. Stage \in StageNames /\ result.candidate \in Candidates
      BY <1>3, OrderFacts DEF StageReturns, WorkflowShape, Results, StageNames
    <3>3. NoCandidate \in Candidates
      BY DEF NoCandidate, Candidates
    <3> QED
      BY <3>1, <3>2, <3>3 DEF Return, Pending, Statuses, StageNames
  <2>3. Order' = Order
    BY <2>1 DEF Order
  <2>4. Len(records) < Len(Order) /\ Len(Order) \in 1..5 /\ Len(records') <= Len(Order)
    BY <1>3, <2>1, OrderFacts DEF WorkflowShape, StageReturns, Order
  <2>5. \A i \in DOMAIN records' : records'[i].stage = Order[i]
    <3>1. Execution(result).stage = Order[Len(records) + 1]
      BY DEF Execution, Stage
    <3>2. \A i \in 1..Len(records) : records[i].stage = Order[i]
      BY <2>1 DEF WorkflowShape
    <3> QED
      BY <2>1, <3>1, <3>2
  <2>6. returned' \in Seq(Results) /\ records' \in Seq(Executions) /\ Len(returned') = Len(records')
    BY <2>1 DEF WorkflowShape
  <2>7. total' \in Nat
    BY <2>1 DEF WorkflowShape
  <2>8. cache' \in [resident : {"none"} \cup {c.image : c \in Calls}, cold : Nat, warm : Nat]
    BY <1>3 DEF StageReturns
  <2> QED
    BY <2>1, <2>2, <2>3, <2>4, <2>5, <2>6, <2>7, <2>8 DEF WorkflowShape
<1>4. CASE /\ call' \in Calls /\ FreshCall' /\ UNCHANGED cache
           /\ windows' = windows + 1 /\ windows < Windows
  <2>1. windows' \in 1..Windows
    BY <1>4, WorkflowAssumption DEF WorkflowShape
  <2>2. (cache \in [resident : {"none"} \cup {c.image : c \in Calls}, cold : Nat, warm : Nat])'
    BY <1>4 DEF WorkflowShape
  <2>3. /\ returned' = <<>> /\ records' = <<>> /\ total' = 0
        /\ outcome' \in {Return("SUCCESS", "S0", NoCandidate), Pending}
    BY <1>4 DEF FreshCall
  <2>4. /\ returned' \in Seq(Results) /\ records' \in Seq(Executions) /\ Len(records') = 0
        /\ Len(returned') = 0 /\ DOMAIN records' = {}
    BY <2>3
  <2>5. /\ outcome' \in [status : Statuses \cup {"pending"}, stage : StageNames, candidate : Candidates]
        /\ outcome'.status = "pending" => outcome'.stage = "none"
    BY <2>3, FreshTyped
  <2>6. 0 < Len(Order')
    <3>1. Len(OrderOf(call'.type)) \in 1..5
      BY OrderFacts, Zenon
    <3>2. Len(Order') \in 1..5
      BY <3>1 DEF Order
    <3> QED
      BY <3>2
  <2> QED
    BY <1>4, <2>1, <2>2, <2>3, <2>4, <2>5, <2>6 DEF WorkflowShape
<1> QED
  BY <1>1, <1>2, <1>3, <1>4, StepCases

-----------------------------------------------------------------------------
(* Escalation.                                                             *)

\* EscalationIsPaidFor made inductive: a pending call has seen only defers, and an execution
\* that did not fail is within the stage budget.
PaidFor ==
  /\ \A i \in DOMAIN records : i < Len(records) => records[i].status = "DEFER"
  /\ outcome.status = "pending" => \A i \in DOMAIN records : records[i].status = "DEFER"
  /\ \A i \in DOMAIN records :
       records[i].status # "FAIL_INTERNAL" => records[i].work <= StageBudget
  /\ total = WorkOf(records)
  /\ outcome.status = "SUCCESS" =>
       /\ total <= TotalBudget
       /\ \A i \in DOMAIN records : records[i].status # "FAIL_INTERNAL"
  /\ Returned /\ outcome.stage # "S0" /\ records # <<>> =>
       outcome.status = "SUCCESS" <=> records[Len(records)].status = "SUCCESS"

\* A fresh call has paid for the nothing it has done.
LEMMA NothingToPay ==
  /\ WorkOf(<<>>) = 0 /\ 0 <= TotalBudget
  /\ \A o \in {Return("SUCCESS", "S0", NoCandidate), Pending} :
       \/ o.status = "SUCCESS" /\ o.stage = "S0" /\ o.candidate = NoCandidate
       \/ o.status = "pending" /\ o.stage = "none" /\ o.candidate = NoCandidate
<1>1. <<>> \in Seq(Executions)
  OBVIOUS
<1>2. [stage |-> "none", status |-> "DEFER", work |-> 0] \in Executions
  BY DEF Executions, Statuses, StageNames
<1>3. WorkOf(<<>>) = 0
  BY <1>1, <1>2, WorkOfAppend
<1>4. 0 <= TotalBudget
  BY WorkflowAssumption
<1> QED
  BY <1>3, <1>4 DEF Return, Pending

\* Every step pays.
LEMMA PaidForStep ==
  ASSUME WorkflowShape, PaidFor, [WorkflowStep]_wvars
  PROVE  PaidFor'
<1>1. CASE UNCHANGED wvars
  BY <1>1 DEF wvars, PaidFor, Returned
<1>2. CASE /\ outcome.status = "pending"
           /\ outcome' = Return("FAIL_INTERNAL", "none", NoCandidate)
           /\ UNCHANGED <<call, returned, records, total, votes, cache, windows>>
  <2>1. outcome'.status = "FAIL_INTERNAL"
    BY <1>2 DEF Return
  <2>2. records # <<>> => Len(records) \in DOMAIN records
    BY DEF WorkflowShape
  <2> QED
    BY <1>2, <2>1, <2>2 DEF PaidFor
<1>3. ASSUME NEW result \in Results, StageReturns(result) PROVE PaidFor'
  <2> DEFINE n == Len(records)
             x == Execution(result)
  <2>1. /\ x \in Executions
        /\ records' = Append(records, x)
        /\ total' = total + result.work /\ result.work \in Nat
        /\ n \in Nat /\ Len(records') = n + 1
        /\ records'[n + 1] = x
        /\ \A i \in 1..n : records'[i] = records[i]
        /\ DOMAIN records = 1..n /\ DOMAIN records' = 1..(n + 1)
    BY <1>3, ConcludeFacts
  <2>2. x.status = StatusOf(result) /\ x.work = result.work
    BY DEF Execution
  <2>3. \A i \in 1..n : records[i].status = "DEFER" /\ records[i].work <= StageBudget
    BY <1>3, <2>1 DEF PaidFor, StageReturns
  <2>4. x.status # "FAIL_INTERNAL" => x.work <= StageBudget /\ total' <= TotalBudget
    <3>1. x.status # "FAIL_INTERNAL" => ~OverBudget(result)
      BY <2>2 DEF StatusOf
    <3>2. total' \in Nat /\ StageBudget \in Nat /\ TotalBudget \in Nat
      <4>1. total \in Nat
        BY DEF WorkflowShape
      <4>2. StageBudget \in Nat /\ TotalBudget \in Nat
        BY WorkflowAssumption
      <4> QED
        BY <2>1, <4>1, <4>2
    <3> QED
      BY <3>1, <3>2, <2>1, <2>2 DEF OverBudget
  <2>5. total' = WorkOf(records')
    <3>1. records \in Seq(Executions) /\ total = WorkOf(records)
      BY DEF WorkflowShape, PaidFor
    <3>2. WorkOf(Append(records, x)) = WorkOf(records) + x.work
      BY <2>1, <3>1, WorkOfAppend
    <3> QED
      BY <2>1, <2>2, <3>1, <3>2
  <2>6. /\ outcome'.status = "SUCCESS" <=> x.status = "SUCCESS"
        /\ outcome'.status = "pending" => x.status = "DEFER"
    BY <1>3, <2>2, ConcludeFacts DEF Return, Pending
  <2>7. \A i \in 1..(n + 1) : i \in 1..n \/ i = n + 1
    BY <2>1
  <2>8. \A i \in 1..n : records'[i].status = "DEFER" /\ records'[i].work <= StageBudget
    BY <2>1, <2>3
  <2> HIDE DEF x, n
  <2>9. /\ \A i \in 1..(n + 1) : i < n + 1 => records'[i].status = "DEFER"
        /\ x.status = "DEFER" => \A i \in 1..(n + 1) : records'[i].status = "DEFER"
        /\ \A i \in 1..(n + 1) :
             records'[i].status # "FAIL_INTERNAL" => records'[i].work <= StageBudget
        /\ x.status = "SUCCESS" => \A i \in 1..(n + 1) : records'[i].status # "FAIL_INTERNAL"
    BY <2>1, <2>4, <2>7, <2>8
  <2> QED
    BY <2>1, <2>4, <2>5, <2>6, <2>9 DEF PaidFor
<1>4. CASE FreshCall'
  <2>1. /\ records' = <<>> /\ total' = 0
        /\ outcome' \in {Return("SUCCESS", "S0", NoCandidate), Pending}
    BY <1>4 DEF FreshCall
  <2>2. \/ outcome'.status = "SUCCESS" /\ outcome'.stage = "S0"
        \/ outcome'.status = "pending"
    BY <2>1, NothingToPay
  <2>3. DOMAIN records' = {}
    BY <2>1
  <2> QED
    BY <2>1, <2>2, <2>3, NothingToPay DEF PaidFor
<1> QED
  BY <1>1, <1>2, <1>3, <1>4, StepCases

-----------------------------------------------------------------------------
(* The older controller.                                                   *)

WellBehaved(results) ==
  \A i \in DOMAIN results :
    /\ results[i].status \notin {"raised", "malformed"}
    /\ results[i].work <= StageBudget
    /\ results[i].candidate.valid = results[i].candidate.sat

\* ControllersAgree made inductive: while the call is pending, and when it ends in a defer,
\* the telescope is still running.
SameTrace ==
  (/\ outcome.stage # "S0" /\ call.type = "CIRCUIT" /\ ToSet(Stages) \subseteq call.budgets
   /\ WellBehaved(returned)) =>
    TelescopeTrace(returned) =
      [work |-> total, stages |-> Len(records),
       status |-> IF outcome.status \in {"pending", "DEFER"} THEN "running" ELSE outcome.status]

\* Every step takes both controllers on together.
LEMMA SameTraceStep ==
  ASSUME WorkflowShape, SameTrace, [WorkflowStep]_wvars
  PROVE  SameTrace'
<1>1. CASE UNCHANGED wvars
  BY <1>1 DEF wvars, SameTrace
<1>2. CASE /\ outcome.status = "pending" /\ Stage \notin call.budgets
           /\ UNCHANGED <<call, returned, records, total, votes, cache, windows>>
  <2> SUFFICES ASSUME call.type = "CIRCUIT", ToSet(Stages) \subseteq call.budgets PROVE FALSE
    BY <1>2 DEF SameTrace
  <2>1. Order = Stages /\ Len(Stages) = 5 /\ Len(records) \in Nat /\ Len(records) < 5
    <3>1. Order = Stages
      BY OrderFacts DEF Order
    <3>2. Len(records) \in Nat /\ Len(records) < Len(Order)
      BY <1>2 DEF WorkflowShape
    <3> QED
      BY <3>1, <3>2, OrderFacts
  <2>2. Len(records) + 1 \in DOMAIN Stages
    BY <2>1 DEF Stages
  <2>3. Stage \in ToSet(Stages)
    BY <2>1, <2>2 DEF Stage, ToSet
  <2> QED
    BY <1>2, <2>3
<1>3. ASSUME NEW result \in Results, StageReturns(result) PROVE SameTrace'
  <2>1. /\ returned' = Append(returned, result)
        /\ total' = total + result.work /\ result.work \in Nat
        /\ call' = call
        /\ Len(records) \in Nat /\ Len(records') = Len(records) + 1
    BY <1>3, ConcludeFacts
  <2>2. /\ returned \in Seq(Results) /\ Len(returned) \in Nat
        /\ DOMAIN returned' = 1..(Len(returned) + 1) /\ DOMAIN returned = 1..Len(returned)
        /\ returned'[Len(returned) + 1] = result
        /\ \A i \in 1..Len(returned) : returned'[i] = returned[i]
    BY <2>1 DEF WorkflowShape
  <2> SUFFICES ASSUME call.type = "CIRCUIT", ToSet(Stages) \subseteq call.budgets,
                      WellBehaved(returned')
               PROVE  TelescopeTrace(returned') =
                        [work |-> total', stages |-> Len(records'),
                         status |-> IF outcome'.status \in {"pending", "DEFER"} THEN "running"
                                    ELSE outcome'.status]
    BY <2>1 DEF SameTrace
  <2>3. WellBehaved(returned)
    BY <2>2 DEF WellBehaved
  <2>4. /\ result.status \notin {"raised", "malformed"}
        /\ result.work <= StageBudget
        /\ result.candidate.valid = result.candidate.sat
    BY <2>2 DEF WellBehaved
  <2>5. TelescopeTrace(returned) = [work |-> total, stages |-> Len(records), status |-> "running"]
    BY <1>3, <2>3 DEF SameTrace, StageReturns, WorkflowShape
  <2>6. TelescopeTrace(returned') = TelescopeStep(TelescopeTrace(returned), result)
    BY <2>1, <2>2, TraceOfAppend
  <2>7. TelescopeTrace(returned') =
          [work |-> total + result.work, stages |-> Len(records) + 1,
           status |-> IF \/ total + result.work > TotalBudget \/ result.status = "FAIL_INTERNAL"
                         \/ result.status = "SUCCESS" /\ ~result.candidate.sat THEN "FAIL_INTERNAL"
                      ELSE IF result.status = "SUCCESS" THEN "SUCCESS" ELSE "running"]
    BY <2>5, <2>6 DEF TelescopeStep
  <2>8. StatusOf(result) =
          IF \/ total + result.work > TotalBudget \/ result.status = "FAIL_INTERNAL"
             \/ result.status = "SUCCESS" /\ ~result.candidate.sat THEN "FAIL_INTERNAL"
          ELSE IF result.status = "SUCCESS" THEN "SUCCESS" ELSE "DEFER"
    <3>1. OverBudget(result) <=> total + result.work > TotalBudget
      BY <2>1, <2>4, WorkflowAssumption DEF OverBudget
    <3>2. Acceptable(result) <=> result.candidate.sat
      BY <2>4 DEF Acceptable, Results, Candidates
    <3>3. result.status \in Statuses
      BY <2>4 DEF Results
    <3> QED
      BY <3>1, <3>2, <3>3, <2>4 DEF StatusOf, Statuses
  <2>9. outcome'.status =
          IF StatusOf(result) # "DEFER" THEN StatusOf(result)
          ELSE IF Len(records') = Len(Order) THEN "DEFER" ELSE "pending"
    BY <1>3, ConcludeFacts DEF Return, Pending
  <2>10. (IF outcome'.status \in {"pending", "DEFER"} THEN "running" ELSE outcome'.status) =
           IF StatusOf(result) = "DEFER" THEN "running" ELSE StatusOf(result)
    <3>1. StatusOf(result) \in Statuses
      BY <2>8 DEF Statuses
    <3> QED
      BY <2>9, <3>1 DEF Statuses
  <2> QED
    BY <2>1, <2>7, <2>8, <2>10
<1>4. CASE FreshCall'
  <2>1. /\ returned' = <<>> /\ records' = <<>> /\ total' = 0
        /\ outcome' \in {Return("SUCCESS", "S0", NoCandidate), Pending}
    BY <1>4 DEF FreshCall
  <2>2. \/ outcome'.stage = "S0"
        \/ outcome'.status = "pending"
    BY <2>1, NothingToPay
  <2>3. TelescopeTrace(<<>>) = TelescopeStart
    <3>1. Raised \in Results
      BY DEF Raised, Result, Results, NoCandidate, Candidates
    <3>2. <<>> \in Seq(Results)
      OBVIOUS
    <3> QED
      BY <3>1, <3>2, TraceOfAppend
  <2>4. Len(records') = 0
    BY <2>1
  <2> QED
    BY <2>1, <2>2, <2>3, <2>4 DEF SameTrace, TelescopeStart
<1> QED
  BY <1>1, <1>2, <1>3, <1>4, StepCases

-----------------------------------------------------------------------------
(* The accepted correction.                                                *)

\* Every step that accepts a correction of the program's own stages accepts one that gives
\* the requested syndrome.
LEMMA AcceptedStep ==
  ASSUME WorkflowShape, AcceptedMeetsRequest, [WorkflowStep]_wvars
  PROVE  AcceptedMeetsRequest'
<1>1. CASE UNCHANGED wvars
  BY <1>1 DEF wvars, AcceptedMeetsRequest, Untold, JudgedInOrder
<1>2. CASE outcome' = Return("FAIL_INTERNAL", "none", NoCandidate)
  BY <1>2 DEF AcceptedMeetsRequest, Return
<1>3. ASSUME NEW result \in Results, StageReturns(result) PROVE AcceptedMeetsRequest'
  <2>1. outcome'.status = "SUCCESS" =>
          StatusOf(result) = "SUCCESS" /\ outcome'.stage = Stage
          /\ outcome'.candidate = result.candidate
    BY <1>3, ConcludeFacts DEF Return, Pending
  <2>2. StatusOf(result) = "SUCCESS" => result.status = "SUCCESS"
    BY DEF StatusOf
  <2>3. call' = call
    BY <1>3, ConcludeFacts
  <2>4. outcome'.stage = Stage /\ Untold(Stage) => Untold(outcome.stage)'
    BY <2>3 DEF Untold, JudgedInOrder
  <2> QED
    BY <1>3, <2>1, <2>2, <2>4 DEF StageReturns, AcceptedMeetsRequest
<1>4. CASE FreshCall'
  <2>1. outcome' \in {Return("SUCCESS", "S0", NoCandidate), Pending}
    BY <1>4 DEF FreshCall
  <2> QED
    BY <2>1, NothingToPay DEF AcceptedMeetsRequest
<1> QED
  BY <1>1, <1>2, <1>3, <1>4, StepCases

\* Every step by which the relay stage accepts has an elected class, and the votes stay
\* until the next call.
LEMMA RelayStep ==
  ASSUME WorkflowShape, RelayNeedsQuorum, [WorkflowStep]_wvars
  PROVE  RelayNeedsQuorum'
<1>1. CASE UNCHANGED wvars
  BY <1>1 DEF wvars, RelayNeedsQuorum
<1>2. CASE outcome' = Return("FAIL_INTERNAL", "none", NoCandidate)
  BY <1>2 DEF RelayNeedsQuorum, Return
<1>3. ASSUME NEW result \in Results, StageReturns(result) PROVE RelayNeedsQuorum'
  <2>1. outcome'.stage = "S2R" => StatusOf(result) = "SUCCESS" /\ Stage = "S2R"
    BY <1>3, ConcludeFacts DEF Return, Pending
  <2>2. StatusOf(result) = "SUCCESS" => result.status = "SUCCESS"
    BY DEF StatusOf
  <2>3. outcome'.stage = "S2R" => Elected(votes')
    BY <1>3, <2>1, <2>2 DEF StageReturns
  <2> QED
    BY <2>3 DEF RelayNeedsQuorum, Elected
<1>4. CASE FreshCall'
  <2>1. outcome' \in {Return("SUCCESS", "S0", NoCandidate), Pending}
    BY <1>4 DEF FreshCall
  <2> QED
    BY <2>1, NothingToPay DEF RelayNeedsQuorum
<1> QED
  BY <1>1, <1>2, <1>3, <1>4, StepCases

-----------------------------------------------------------------------------
(* The theorems.                                                           *)

\* The inductive invariant.
WorkflowInv ==
  WorkflowShape /\ PaidFor /\ SameTrace /\ AcceptedMeetsRequest /\ RelayNeedsQuorum

\* The first call begins with nothing done.
LEMMA WorkflowInvInit ==
  ASSUME WorkflowInit
  PROVE  WorkflowInv
<1>1. /\ call \in Calls /\ returned = <<>> /\ records = <<>> /\ total = 0
      /\ outcome \in {Return("SUCCESS", "S0", NoCandidate), Pending}
      /\ cache = EmptyCache /\ windows = 1
  BY DEF WorkflowInit
<1>2. WorkflowShape
  <2>1. outcome \in [status : Statuses \cup {"pending"}, stage : StageNames, candidate : Candidates]
        /\ (outcome.status = "pending" => outcome.stage = "none")
    BY <1>1, FreshTyped
  <2>2. 0 < Len(Order) /\ 0 <= Len(Order)
    <3>1. Len(Order) \in 1..5
      BY OrderFacts DEF Order
    <3> QED
      BY <3>1
  <2>3. /\ returned \in Seq(Results) /\ records \in Seq(Executions) /\ Len(records) = 0
        /\ Len(returned) = 0 /\ DOMAIN records = {}
    BY <1>1
  <2>4. windows \in 1..Windows
    BY <1>1, WorkflowAssumption
  <2>5. cache \in [resident : {"none"} \cup {c.image : c \in Calls}, cold : Nat, warm : Nat]
    BY <1>1 DEF EmptyCache
  <2> QED
    BY <1>1, <2>1, <2>2, <2>3, <2>4, <2>5 DEF WorkflowShape
<1>3. \/ outcome.status = "SUCCESS" /\ outcome.stage = "S0"
      \/ outcome.status = "pending" /\ outcome.stage = "none"
  BY <1>1, NothingToPay
<1>4. PaidFor
  <2>1. DOMAIN records = {}
    BY <1>1
  <2> QED
    BY <1>1, <1>3, <2>1, NothingToPay DEF PaidFor
<1>5. SameTrace
  <2>1. TelescopeTrace(<<>>) = TelescopeStart
    <3>1. Raised \in Results
      BY DEF Raised, Result, Results, NoCandidate, Candidates
    <3>2. <<>> \in Seq(Results)
      OBVIOUS
    <3> QED
      BY <3>1, <3>2, TraceOfAppend
  <2>2. Len(records) = 0
    BY <1>1
  <2> QED
    BY <1>1, <1>3, <2>1, <2>2 DEF SameTrace, TelescopeStart
<1>6. AcceptedMeetsRequest /\ RelayNeedsQuorum
  BY <1>3 DEF AcceptedMeetsRequest, RelayNeedsQuorum
<1> QED
  BY <1>2, <1>4, <1>5, <1>6 DEF WorkflowInv

\* The invariant holds throughout.
THEOREM WorkflowInvariant == WorkflowSpec => []WorkflowInv
<1>1. WorkflowInit => WorkflowInv
  BY WorkflowInvInit
<1>2. WorkflowInv /\ [WorkflowStep]_wvars => WorkflowInv'
  BY ShapeStep, PaidForStep, SameTraceStep, AcceptedStep, RelayStep DEF WorkflowInv
<1> QED
  BY <1>1, <1>2, PTL DEF WorkflowSpec

\* Whatever the stages return, the trace of a call is one execution each of a prefix of
\* its stage order.
THEOREM TraceKeepsShape == WorkflowSpec => []WorkflowShape
<1>1. WorkflowInv => WorkflowShape
  BY DEF WorkflowInv
<1> QED
  BY <1>1, WorkflowInvariant, PTL

\* An accepted correction of the program's own stages gives the requested syndrome, for
\* every set of calls: images bound to another syndrome, without their original graph or
\* with renumbered variables included.
THEOREM AcceptedCorrections == WorkflowSpec => []AcceptedMeetsRequest
<1>1. WorkflowInv => AcceptedMeetsRequest
  BY DEF WorkflowInv
<1> QED
  BY <1>1, WorkflowInvariant, PTL

\* A later stage runs only after a defer of every earlier one, the total is the sum of all
\* recorded work and a success is within both budgets, for every budget and every result.
THEOREM Escalation == WorkflowSpec => []EscalationIsPaidFor
<1>1. WorkflowInv => EscalationIsPaidFor
  <2> SUFFICES ASSUME WorkflowInv PROVE EscalationIsPaidFor
    OBVIOUS
  <2>1. PaidFor /\ records \in Seq(Executions)
    BY DEF WorkflowInv, WorkflowShape
  <2>2. outcome.status = "SUCCESS" => \A i \in DOMAIN records : records[i].work <= StageBudget
    BY <2>1 DEF PaidFor
  <2>3. Last(records) = records[Len(records)]
    BY DEF Last
  <2> QED
    BY <2>1, <2>2, <2>3 DEF PaidFor, EscalationIsPaidFor
<1> QED
  BY <1>1, WorkflowInvariant, PTL

\* The unified controller and the older telescope agree on every sequence of results of
\* well-behaved stages.
THEOREM ControllersAreEquivalent == WorkflowSpec => []ControllersAgree
<1>1. WorkflowInv => ControllersAgree
  <2> SUFFICES ASSUME WorkflowInv, Returned, outcome.stage # "S0", call.type = "CIRCUIT",
                      ToSet(Stages) \subseteq call.budgets, WellBehaved(returned)
               PROVE  LET t == Telescope(returned) IN
                      t.status = outcome.status /\ t.stages = Len(records) /\ t.work = total
    BY DEF ControllersAgree, WellBehaved
  <2>1. TelescopeTrace(returned) =
          [work |-> total, stages |-> Len(records),
           status |-> IF outcome.status \in {"pending", "DEFER"} THEN "running" ELSE outcome.status]
    BY DEF WorkflowInv, SameTrace
  <2>2. outcome.status \in Statuses
    BY DEF WorkflowInv, WorkflowShape, Returned
  <2> QED
    BY <2>1, <2>2 DEF Telescope, Returned, Statuses
<1> QED
  BY <1>1, WorkflowInvariant, PTL

\* The relay stage accepts only a class that a quorum of its legs chose and that no other
\* class matches, for every number of legs and every quorum.
THEOREM RelayElects == WorkflowSpec => []RelayNeedsQuorum
<1>1. WorkflowInv => RelayNeedsQuorum
  BY DEF WorkflowInv
<1> QED
  BY <1>1, WorkflowInvariant, PTL

-----------------------------------------------------------------------------
(* Spans and dimensions over GF(2): f gives a vector to every index of N,  *)
(* the vectors are seen on the columns W.                                  *)

SpanOf(f, N, W) == {SumOf(f, Q, W) : Q \in SUBSET N}
LinearlyIndependent(f, N, W) == \A Q \in SUBSET N : SumOf(f, Q, W) = {} => Q = {}

\* Sets matched one to one have the same size.
LEMMA MatchedSets ==
  ASSUME NEW S, NEW T, IsFiniteSet(S), NEW h \in [S -> T],
         \A a, b \in S : h[a] = h[b] => a = b,
         \A t \in T : \E a \in S : h[a] = t
  PROVE  IsFiniteSet(T) /\ Cardinality(T) = Cardinality(S)
<1>1. h \in Bijection(S, T)
  BY DEF Bijection, Injection, Surjection, IsInjective
<1>2. ExistsBijection(S, T)
  BY <1>1 DEF ExistsBijection
<1> QED
  BY <1>2, FS_Bijection

\* How many the first numbers are.
LEMMA FirstNumbers ==
  \A n \in Nat : IsFiniteSet(1..n) /\ Cardinality(1..n) = n
<1> TAKE n \in Nat
<1>1. 1 \in Int /\ n \in Int
  OBVIOUS
<1>2. IsFiniteSet(1..n) /\ Cardinality(1..n) = IF 1 > n THEN 0 ELSE n - 1 + 1
  BY <1>1, FS_Interval
<1>3. (IF 1 > n THEN 0 ELSE n - 1 + 1) = n
  OBVIOUS
<1> QED
  BY <1>2, <1>3

\* Powers of two grow.
LEMMA PowersGrow ==
  ASSUME NEW a \in Nat, NEW b \in Nat
  PROVE  /\ a < b => 2^a < 2^b
         /\ a <= b => 2^a <= 2^b
         /\ 2^a = 2^b => a = b
         /\ 2^a \in Nat
<1>1. \A n \in Nat : IsFiniteSet(SUBSET (1..n)) /\ Cardinality(SUBSET (1..n)) = 2^n /\ 2^n \in Nat
  <2> TAKE n \in Nat
  <2>1. IsFiniteSet(1..n) /\ Cardinality(1..n) = n
    BY FS_Interval
  <2>2. IsFiniteSet(SUBSET (1..n)) /\ Cardinality(SUBSET (1..n)) = 2^n
    BY <2>1, FS_SUBSET
  <2> QED
    BY <2>2, FS_CardinalityType
<1>2. \A m, n \in Nat : m < n => 2^m < 2^n
  <2> SUFFICES ASSUME NEW m \in Nat, NEW n \in Nat, m < n PROVE 2^m < 2^n
    OBVIOUS
  <2> DEFINE A == SUBSET (1..m)
             B == SUBSET (1..n)
  <2>1. A \in SUBSET B
    OBVIOUS
  <2>2. 1..n \in B /\ 1..n \notin A
    OBVIOUS
  <2>3. Cardinality(A) = 2^m /\ Cardinality(B) = 2^n /\ IsFiniteSet(B) /\ 2^m \in Nat /\ 2^n \in Nat
    BY <1>1
  <2> HIDE DEF A, B
  <2>4. Cardinality(A) <= Cardinality(B) /\ (Cardinality(B) = Cardinality(A) => B = A)
    BY <2>1, <2>3, FS_Subset
  <2>5. Cardinality(A) # Cardinality(B)
    BY <2>2, <2>4
  <2> DEFINE x == 2^m
             y == 2^n
  <2>6. x \in Nat /\ y \in Nat /\ x <= y /\ x # y
    BY <2>3, <2>4, <2>5
  <2> HIDE DEF x, y
  <2>7. x < y
    BY <2>6
  <2> QED
    BY <2>7 DEF x, y
<1> DEFINE p == 2^a
           q == 2^b
<1>3. p \in Nat /\ q \in Nat
  BY <1>1
<1>4. (a < b => p < q) /\ (b < a => q < p)
  BY <1>2
<1>5. a = b => p = q
  OBVIOUS
<1> HIDE DEF p, q
<1>6. (a < b => p < q) /\ (a <= b => p <= q) /\ (p = q => a = b) /\ p \in Nat
  BY <1>3, <1>4, <1>5
<1> QED
  BY <1>6 DEF p, q

\* The sum of none is zero; a span holds its vectors and is closed under addition.
LEMMA SpanIsSpace ==
  ASSUME NEW f, NEW N, NEW W, IsFiniteSet(N)
  PROVE  /\ {} \in SpanOf(f, N, W)
         /\ \A u, v \in SpanOf(f, N, W) : SymDiff(u, v) \in SpanOf(f, N, W)
         /\ \A q \in N : W \cap f[q] \in SpanOf(f, N, W)
         /\ SpanOf(f, N, W) \subseteq SUBSET W
<1>1. {} \in SpanOf(f, N, W)
  <2>1. {} \in SUBSET N
    OBVIOUS
  <2> QED
    BY <2>1, SumOfNone DEF SpanOf
<1>2. ASSUME NEW u \in SpanOf(f, N, W), NEW v \in SpanOf(f, N, W)
      PROVE  SymDiff(u, v) \in SpanOf(f, N, W)
  <2>1. PICK A \in SUBSET N : u = SumOf(f, A, W)
    BY DEF SpanOf
  <2>2. PICK B \in SUBSET N : v = SumOf(f, B, W)
    BY DEF SpanOf
  <2>3. IsFiniteSet(A) /\ IsFiniteSet(B)
    BY FS_Subset
  <2>4. SymDiff(u, v) = SumOf(f, SymDiff(A, B), W)
    BY <2>1, <2>2, <2>3, SumLinear
  <2>5. SymDiff(A, B) \in SUBSET N
    BY DEF SymDiff
  <2> QED
    BY <2>4, <2>5 DEF SpanOf
<1>3. ASSUME NEW q \in N PROVE W \cap f[q] \in SpanOf(f, N, W)
  <2>1. {q} \in SUBSET N /\ SumOf(f, {q}, W) = W \cap f[q]
    BY SumOfOne
  <2> QED
    BY <2>1 DEF SpanOf
<1>4. SpanOf(f, N, W) \subseteq SUBSET W
  BY DEF SpanOf, SumOf
<1> QED
  BY <1>1, <1>2, <1>3, <1>4

\* LinearlyIndependent vectors span 2 to the power of their number.
LEMMA SpanSize ==
  ASSUME NEW f, NEW N, NEW W, IsFiniteSet(N), LinearlyIndependent(f, N, W)
  PROVE  IsFiniteSet(SpanOf(f, N, W)) /\ Cardinality(SpanOf(f, N, W)) = 2^Cardinality(N)
<1> DEFINE S == SUBSET N
           T == SpanOf(f, N, W)
           h == [Q \in S |-> SumOf(f, Q, W)]
<1>1. IsFiniteSet(S) /\ Cardinality(S) = 2^Cardinality(N)
  BY FS_SUBSET
<1>2. h \in [S -> T] /\ \A t \in T : \E Q \in S : h[Q] = t
  BY DEF SpanOf
<1>3. ASSUME NEW A \in S, NEW B \in S, h[A] = h[B] PROVE A = B
  <2>1. IsFiniteSet(A) /\ IsFiniteSet(B) /\ SymDiff(A, B) \in SUBSET N
    BY FS_Subset DEF SymDiff
  <2>2. SumOf(f, A, W) = SumOf(f, B, W)
    BY <1>3
  <2>3. SumOf(f, SymDiff(A, B), W) = {}
    BY <2>1, <2>2, SumLinear, SymDiffLaws
  <2>4. SymDiff(A, B) = {}
    BY <2>1, <2>3 DEF LinearlyIndependent
  <2> QED
    BY <2>4, SymDiffLaws
<1> HIDE DEF h, S, T
<1>4. IsFiniteSet(T) /\ Cardinality(T) = Cardinality(S)
  BY <1>1, <1>2, <1>3, MatchedSets
<1> QED
  BY <1>1, <1>4 DEF T, S

\* LinearlyIndependent vectors with the same span are equally many, with a smaller one fewer.
LEMMA SpansCompare ==
  ASSUME NEW f, NEW N, NEW g, NEW M, NEW W, IsFiniteSet(N), IsFiniteSet(M),
         LinearlyIndependent(f, N, W), LinearlyIndependent(g, M, W),
         SpanOf(f, N, W) \subseteq SpanOf(g, M, W)
  PROVE  /\ SpanOf(f, N, W) = SpanOf(g, M, W) => Cardinality(N) = Cardinality(M)
         /\ SpanOf(f, N, W) # SpanOf(g, M, W) => Cardinality(N) < Cardinality(M)
<1> DEFINE F == SpanOf(f, N, W)
           G == SpanOf(g, M, W)
           a == Cardinality(N)
           b == Cardinality(M)
<1>1. IsFiniteSet(F) /\ Cardinality(F) = 2^a /\ IsFiniteSet(G) /\ Cardinality(G) = 2^b
  BY SpanSize
<1>2. a \in Nat /\ b \in Nat
  BY FS_CardinalityType
<1>3. F \in SUBSET G
  OBVIOUS
<1> HIDE DEF F, G, a, b
<1>4. Cardinality(F) <= Cardinality(G) /\ (Cardinality(G) = Cardinality(F) => G = F)
  BY <1>1, <1>3, FS_Subset
<1> DEFINE p == 2^a
           q == 2^b
<1>5. /\ p \in Nat /\ q \in Nat
      /\ b < a => q < p
      /\ a = b => p = q
      /\ p = q => a = b
  BY <1>2, PowersGrow
<1>6. p <= q /\ (p = q => F = G) /\ (F = G => p = q)
  BY <1>1, <1>4
<1> HIDE DEF p, q
<1>7. (F = G => a = b) /\ (F # G => a < b)
  BY <1>2, <1>5, <1>6
<1> QED
  BY <1>7 DEF F, G, a, b

-----------------------------------------------------------------------------
(* Elimination.                                                            *)

\* Rewriting the vectors along an involution of the index sets changes neither the span
\* nor independence.
LEMMA InvolutionKeeps ==
  ASSUME NEW f, NEW g, NEW N, NEW W, NEW T \in [SUBSET N -> SUBSET N],
         \A Q \in SUBSET N : T[T[Q]] = Q,
         \A Q \in SUBSET N : SumOf(g, Q, W) = SumOf(f, T[Q], W),
         T[{}] = {}
  PROVE  /\ SpanOf(g, N, W) = SpanOf(f, N, W)
         /\ LinearlyIndependent(f, N, W) => LinearlyIndependent(g, N, W)
<1>1. SpanOf(g, N, W) \subseteq SpanOf(f, N, W)
  BY DEF SpanOf
<1>2. \A Q \in SUBSET N : SumOf(f, Q, W) = SumOf(g, T[Q], W)
  OBVIOUS
<1>3. SpanOf(f, N, W) \subseteq SpanOf(g, N, W)
  BY <1>2 DEF SpanOf
<1>4. ASSUME LinearlyIndependent(f, N, W) PROVE LinearlyIndependent(g, N, W)
  <2> SUFFICES ASSUME NEW Q \in SUBSET N, SumOf(g, Q, W) = {} PROVE Q = {}
    BY DEF LinearlyIndependent
  <2>1. SumOf(f, T[Q], W) = {} /\ T[Q] \in SUBSET N
    OBVIOUS
  <2>2. T[Q] = {}
    BY <1>4, <2>1 DEF LinearlyIndependent
  <2>3. Q = T[{}]
    BY <2>2
  <2> QED
    BY <2>3
<1> QED
  BY <1>1, <1>3, <1>4

\* Adding one vector to some of the others is such a rewriting.
LEMMA ClearKeeps ==
  ASSUME NEW N, NEW W, IsFiniteSet(N), NEW f \in [N -> SUBSET W], NEW p \in N, NEW c
  PROVE  LET g == Clear(f, p, c)
         IN  /\ g \in [N -> SUBSET W]
             /\ SpanOf(g, N, W) = SpanOf(f, N, W)
             /\ LinearlyIndependent(f, N, W) => LinearlyIndependent(g, N, W)
<1> DEFINE g == Clear(f, p, c)
           E == {r \in N : r # p /\ c \in f[r]}
           T == [Q \in SUBSET N |-> IF Odd(Q \cap E) THEN SymDiff(Q, {p}) ELSE Q]
<1>1. g = [r \in N |-> IF r \in E THEN SymDiff(f[r], f[p]) ELSE f[r]]
  BY DEF Clear
<1>2. g \in [N -> SUBSET W]
  BY <1>1 DEF SymDiff
<1>3. p \notin E
  OBVIOUS
<1> HIDE DEF g, E
<1>4. T \in [SUBSET N -> SUBSET N]
  BY DEF SymDiff
<1>5. T[{}] = {}
  <2>1. {} \cap E = {} /\ {} \in SUBSET N
    OBVIOUS
  <2> QED
    BY <2>1, OddSmall
<1>6. ASSUME NEW Q \in SUBSET N PROVE T[T[Q]] = Q
  <2>1. SymDiff(Q, {p}) \cap E = Q \cap E /\ SymDiff(Q, {p}) \in SUBSET N
    BY <1>3 DEF SymDiff
  <2>2. SymDiff(SymDiff(Q, {p}), {p}) = Q
    BY DEF SymDiff
  <2> QED
    BY <2>1, <2>2
<1>7. ASSUME NEW Q \in SUBSET N PROVE SumOf(g, Q, W) = SumOf(f, T[Q], W)
  <2> SUFFICES ASSUME NEW d \in W
               PROVE  Odd({q \in Q : d \in g[q]}) <=> Odd({q \in T[Q] : d \in f[q]})
    BY DEF SumOf
  <2> DEFINE A == {q \in Q : d \in f[q]}
             B == {q \in Q : d \in g[q]}
             C == {q \in T[Q] : d \in f[q]}
  <2>1. IsFiniteSet(Q)
    BY FS_Subset
  <2>2. IsFiniteSet(A) /\ IsFiniteSet(Q \cap E) /\ IsFiniteSet({p})
    BY <2>1, FS_Subset, FS_Singleton
  <2>3. CASE d \notin f[p]
    <3>1. B = A
      BY <1>1, <2>3 DEF SymDiff
    <3>2. C = A
      BY <2>3 DEF SymDiff
    <3> QED
      BY <3>1, <3>2
  <2>4. CASE d \in f[p]
    <3>1. B = SymDiff(A, Q \cap E)
      BY <1>1, <2>4 DEF SymDiff
    <3>2. Odd(B) <=> ~(Odd(A) <=> Odd(Q \cap E))
      <4> HIDE DEF A, B
      <4> QED
        BY <2>2, <3>1, OddSymDiff
    <3>3. CASE Odd(Q \cap E)
      <4>1. C = SymDiff(A, {p})
        BY <2>4, <3>3 DEF SymDiff
      <4>2. Odd(C) <=> ~(Odd(A) <=> Odd({p}))
        <5> HIDE DEF A, C
        <5> QED
          BY <2>2, <4>1, OddSymDiff
      <4> QED
        BY <3>2, <3>3, <4>2, OddSmall
    <3>4. CASE ~Odd(Q \cap E)
      <4>1. C = A
        BY <3>4
      <4> QED
        BY <3>2, <3>4, <4>1
    <3> QED
      BY <3>3, <3>4
  <2> QED
    BY <2>3, <2>4
<1> HIDE DEF T
<1>8. /\ SpanOf(g, N, W) = SpanOf(f, N, W)
      /\ LinearlyIndependent(f, N, W) => LinearlyIndependent(g, N, W)
  BY <1>4, <1>5, <1>6, <1>7, InvolutionKeeps
<1> QED
  BY <1>2, <1>8 DEF g

\* Exchanging two vectors is another.
LEMMA SwapKeeps ==
  ASSUME NEW N, NEW W, IsFiniteSet(N), NEW f \in [N -> SUBSET W], NEW i \in N, NEW j \in N
  PROVE  LET g == Swapped(f, i, j)
         IN  /\ g \in [N -> SUBSET W]
             /\ SpanOf(g, N, W) = SpanOf(f, N, W)
             /\ LinearlyIndependent(f, N, W) => LinearlyIndependent(g, N, W)
<1> DEFINE g == Swapped(f, i, j)
           s == [q \in N |-> IF q = i THEN j ELSE IF q = j THEN i ELSE q]
           T == [Q \in SUBSET N |-> {s[q] : q \in Q}]
<1>1. g \in [N -> SUBSET W] /\ \A q \in N : g[q] = f[s[q]]
  BY DEF Swapped
<1>2. \A q \in N : s[q] \in N /\ s[s[q]] = q
  OBVIOUS
<1> HIDE DEF g, s
<1>3. T \in [SUBSET N -> SUBSET N] /\ T[{}] = {}
  BY <1>2
<1>4. \A Q \in SUBSET N : T[T[Q]] = Q
  BY <1>2
<1>5. ASSUME NEW Q \in SUBSET N PROVE SumOf(g, Q, W) = SumOf(f, T[Q], W)
  <2> SUFFICES ASSUME NEW d \in W
               PROVE  Odd({q \in Q : d \in g[q]}) <=> Odd({q \in T[Q] : d \in f[q]})
    BY DEF SumOf
  <2> DEFINE B == {q \in Q : d \in g[q]}
             C == {q \in T[Q] : d \in f[q]}
             h == [q \in B |-> s[q]]
  <2>1. IsFiniteSet(B)
    BY FS_Subset
  <2>2. h \in [B -> C] /\ \A c \in C : \E b \in B : h[b] = c
    BY <1>1, <1>2
  <2>3. \A a, b \in B : h[a] = h[b] => a = b
    BY <1>2
  <2> HIDE DEF B, C, h
  <2>4. Cardinality(B) = Cardinality(C)
    BY <2>1, <2>2, <2>3, MatchedSets
  <2> QED
    BY <2>4 DEF Odd, B, C
<1> HIDE DEF T
<1>6. /\ SpanOf(g, N, W) = SpanOf(f, N, W)
      /\ LinearlyIndependent(f, N, W) => LinearlyIndependent(g, N, W)
  BY <1>3, <1>4, <1>5, InvolutionKeeps
<1> QED
  BY <1>1, <1>6 DEF g

\* What elimination keeps of the matrix, and the form it has reached after c columns: the
\* pivot columns are unit columns, the rows without a pivot have no ones so far, and if
\* no column was skipped the pivots are the columns in order.
RowsKept(s, rows, n, W) ==
  /\ s.rows \in [1..n -> SUBSET W]
  /\ SpanOf(s.rows, 1..n, W) = SpanOf(rows, 1..n, W)
  /\ LinearlyIndependent(rows, 1..n, W) => LinearlyIndependent(s.rows, 1..n, W)
Echelon(s, n, c) ==
  /\ s.rank \in Nat /\ s.rank <= n /\ s.rank <= c
  /\ s.pivots \in Seq(Nat) /\ Len(s.pivots) = s.rank
  /\ \A p \in 1..s.rank : s.pivots[p] \in 0..(c - 1)
  /\ \A p \in 1..s.rank : \A i \in 1..n : s.pivots[p] \in s.rows[i] <=> i = p
  /\ \A i \in (s.rank + 1)..n : \A d \in 0..(c - 1) : d \notin s.rows[i]
  /\ s.rank = c => \A p \in 1..s.rank : s.pivots[p] = p - 1

\* A function on the first numbers is a sequence.
LEMMA LengthOfFunction ==
  ASSUME NEW n \in Nat, NEW T, NEW p \in [1..n -> T]
  PROVE  p \in Seq(T) /\ Len(p) = n /\ DOMAIN p = 1..n
<1>1. p \in Seq(T)
  OBVIOUS
<1>2. DOMAIN p = 1..n /\ DOMAIN p = 1..Len(p) /\ Len(p) \in Nat
  BY <1>1
<1>3. Len(p) = n
  BY <1>2
<1> QED
  BY <1>1, <1>2, <1>3

\* One column of elimination.
LEMMA ReduceColumnStep ==
  ASSUME NEW n \in Nat, NEW W, NEW rows, NEW s, NEW c \in Nat,
         RowsKept(s, rows, n, W), Echelon(s, n, c)
  PROVE  /\ RowsKept(ReduceColumn(s, c), rows, n, W)
         /\ Echelon(ReduceColumn(s, c), n, c + 1)
<1> DEFINE below == {r \in s.rank + 1 .. Len(s.rows) : c \in s.rows[r]}
           f == s.rows
           k == s.rank + 1
           m == Min(below)
           t == Swapped(f, k, m)
           g == Clear(t, k, c)
<1>1. f \in [1..n -> SUBSET W] /\ Len(f) = n
  <2> DEFINE T == SUBSET W
  <2>1. f \in [1..n -> T]
    BY DEF RowsKept
  <2> HIDE DEF T, f
  <2>2. Len(f) = n
    BY <2>1, LengthOfFunction
  <2> QED
    BY <2>1, <2>2 DEF T
<1>2. s.rank \in Nat /\ s.rank <= n /\ s.rank <= c
  BY DEF Echelon
<1>3. CASE below = {}
  <2>1. ReduceColumn(s, c) = s
    BY <1>3 DEF ReduceColumn
  <2>2. \A i \in (s.rank + 1)..n : c \notin s.rows[i]
    BY <1>1, <1>3
  <2>3. \A i \in (s.rank + 1)..n : \A d \in 0..c : d \notin s.rows[i]
    <3> SUFFICES ASSUME NEW i \in (s.rank + 1)..n, NEW d \in 0..c PROVE d \notin s.rows[i]
      OBVIOUS
    <3>1. d = c \/ d \in 0..(c - 1)
      OBVIOUS
    <3> QED
      BY <3>1, <2>2 DEF Echelon
  <2>4. \A p \in 1..s.rank : s.pivots[p] \in 0..c
    <3> SUFFICES ASSUME NEW p \in 1..s.rank PROVE s.pivots[p] \in 0..c
      OBVIOUS
    <3>1. s.pivots[p] \in 0..(c - 1)
      BY DEF Echelon
    <3> QED
      BY <3>1
  <2>5. (c + 1) - 1 = c /\ s.rank # c + 1 /\ s.rank <= c + 1
    BY <1>2
  <2>6. Echelon(s, n, c + 1)
    BY <2>3, <2>4, <2>5 DEF Echelon
  <2> QED
    BY <2>1, <2>6
<1>4. CASE below # {}
  <2>1. m \in below
    <3>1. below \in SUBSET (1..n)
      BY <1>1, <1>2
    <3> HIDE DEF below
    <3> QED
      BY <1>4, <3>1, MinOfPositions
  <2>2. m \in k..n /\ c \in f[m] /\ k \in 1..n /\ m \in 1..n
    BY <1>1, <1>2, <2>1
  <2>3. ReduceColumn(s, c) = [rows |-> g, pivots |-> Append(s.pivots, c), rank |-> k]
    BY <1>4 DEF ReduceColumn, Forced
  <2>4. IsFiniteSet(1..n)
    BY FS_Interval
  <2>5. /\ t \in [1..n -> SUBSET W]
        /\ SpanOf(t, 1..n, W) = SpanOf(f, 1..n, W)
        /\ LinearlyIndependent(f, 1..n, W) => LinearlyIndependent(t, 1..n, W)
    <3> HIDE DEF f, k, m
    <3> QED
      BY <1>1, <2>2, <2>4, SwapKeeps
  <2>6. /\ g \in [1..n -> SUBSET W]
        /\ SpanOf(g, 1..n, W) = SpanOf(t, 1..n, W)
        /\ LinearlyIndependent(t, 1..n, W) => LinearlyIndependent(g, 1..n, W)
    <3> HIDE DEF t, k
    <3> QED
      BY <2>5, <2>2, <2>4, ClearKeeps
  <2> DEFINE new == [rows |-> g, pivots |-> Append(s.pivots, c), rank |-> k]
  <2>7. RowsKept(new, rows, n, W)
    <3>1. /\ SpanOf(f, 1..n, W) = SpanOf(rows, 1..n, W)
          /\ LinearlyIndependent(rows, 1..n, W) => LinearlyIndependent(f, 1..n, W)
      BY DEF RowsKept
    <3>2. new.rows = g
      OBVIOUS
    <3> HIDE DEF f, t, g, new
    <3> QED
      BY <2>5, <2>6, <3>1, <3>2 DEF RowsKept
  <2>8. /\ t[k] = f[m]
        /\ \A i \in 1..n : i # k /\ i # m => t[i] = f[i]
        /\ m # k => t[m] = f[k]
    <3> HIDE DEF f, k, m
    <3> QED
      BY <1>1, <2>2 DEF Swapped
  <2>9. \A i \in 1..n : g[i] = IF i # k /\ c \in t[i] THEN SymDiff(t[i], t[k]) ELSE t[i]
    <3>1. DOMAIN t = 1..n
      BY <2>5
    <3> HIDE DEF t, k
    <3> QED
      BY <3>1 DEF Clear
  <2>10. c \in t[k] /\ \A i \in 1..n : c \in g[i] <=> i = k
    <3>1. c \in t[k]
      BY <2>2, <2>8
    <3> HIDE DEF t, g, k
    <3> QED
      BY <2>2, <2>9, <3>1 DEF SymDiff
  <2>11. ASSUME NEW d, NEW i \in 1..n, d \notin f[m], i \notin 1..s.rank => d \notin f[i],
                d \notin f[k]
         PROVE  d \notin t[k] /\ (d \in g[i] <=> d \in f[i])
    <3>1. d \notin t[k]
      BY <2>8, <2>11
    <3>2. d \in t[i] <=> d \in f[i]
      <4>1. i = k \/ i = m => d \notin f[i]
        BY <2>11
      <4>2. i = k \/ i = m => d \notin t[i]
        BY <2>8, <2>11
      <4>3. i # k /\ i # m => t[i] = f[i]
        BY <2>8
      <4> QED
        BY <4>1, <4>2, <4>3
    <3> HIDE DEF t, g, k, f, m
    <3> QED
      BY <2>9, <3>1, <3>2 DEF SymDiff
  <2>12. \A p \in 1..s.rank : s.pivots[p] \in 0..(c - 1)
    BY DEF Echelon
  <2>13. ASSUME NEW p \in 1..s.rank, NEW i \in 1..n PROVE s.pivots[p] \in g[i] <=> i = p
    <3>1. \A j \in 1..n : s.pivots[p] \in f[j] <=> j = p
      BY DEF Echelon
    <3>2. p # m /\ p # k /\ (i \notin 1..s.rank => i # p)
      BY <1>2, <2>2
    <3>3. s.pivots[p] \notin f[m] /\ s.pivots[p] \notin f[k]
      BY <2>2, <3>1, <3>2
    <3>4. i \notin 1..s.rank => s.pivots[p] \notin f[i]
      BY <3>1, <3>2
    <3>5. s.pivots[p] \in g[i] <=> s.pivots[p] \in f[i]
      BY <2>11, <3>3, <3>4
    <3> QED
      BY <3>1, <3>5
  <2>14. ASSUME NEW i \in (k + 1)..n, NEW d \in 0..c PROVE d \notin g[i]
    <3>1. i \in 1..n /\ i # k /\ i \in (s.rank + 1)..n /\ m \in (s.rank + 1)..n
          /\ k \in (s.rank + 1)..n
      BY <1>2, <2>2
    <3>2. CASE d = c
      BY <2>10, <3>1, <3>2
    <3>3. CASE d # c
      <4>1. d \in 0..(c - 1)
        BY <3>3
      <4>2. d \notin f[m] /\ d \notin f[k] /\ d \notin f[i]
        BY <3>1, <4>1 DEF Echelon
      <4>3. d \in g[i] <=> d \in f[i]
        BY <2>11, <3>1, <4>2
      <4> QED
        BY <4>2, <4>3
    <3> QED
      BY <3>2, <3>3
  <2> DEFINE z == Append(s.pivots, c)
  <2>15. /\ z \in Seq(Nat) /\ Len(z) = k
         /\ \A p \in 1..s.rank : z[p] = s.pivots[p]
         /\ z[k] = c
    <3>1. s.pivots \in Seq(Nat) /\ Len(s.pivots) = s.rank
      BY DEF Echelon
    <3> QED
      BY <1>2, <3>1
  <2>16. \A p \in 1..k : p = k \/ p \in 1..s.rank
    BY <1>2
  <2>17. \A p \in 1..k : z[p] \in 0..c
    <3> SUFFICES ASSUME NEW p \in 1..k PROVE z[p] \in 0..c
      OBVIOUS
    <3>1. CASE p = k
      BY <2>15, <3>1
    <3>2. CASE p # k
      <4>1. p \in 1..s.rank
        BY <2>16, <3>2
      <4>2. s.pivots[p] \in 0..(c - 1) /\ z[p] = s.pivots[p]
        BY <2>12, <2>15, <4>1
      <4> HIDE DEF z
      <4> QED
        BY <4>2
    <3> QED
      BY <3>1, <3>2
  <2>18. \A p \in 1..k : \A i \in 1..n : z[p] \in g[i] <=> i = p
    <3> SUFFICES ASSUME NEW p \in 1..k, NEW i \in 1..n PROVE z[p] \in g[i] <=> i = p
      OBVIOUS
    <3>1. CASE p = k
      BY <2>10, <2>15, <3>1
    <3>2. CASE p # k
      <4>1. p \in 1..s.rank /\ z[p] = s.pivots[p]
        BY <2>15, <2>16, <3>2
      <4> HIDE DEF z, g
      <4> QED
        BY <2>13, <4>1
    <3> QED
      BY <3>1, <3>2
  <2>19. k = c + 1 => \A p \in 1..k : z[p] = p - 1
    <3> SUFFICES ASSUME k = c + 1, NEW p \in 1..k PROVE z[p] = p - 1
      OBVIOUS
    <3>1. s.rank = c
      BY <1>2
    <3>2. CASE p = k
      BY <1>2, <2>15, <3>1, <3>2
    <3>3. CASE p # k
      <4>1. p \in 1..s.rank /\ z[p] = s.pivots[p]
        BY <2>15, <2>16, <3>3
      <4>2. s.pivots[p] = p - 1
        BY <3>1, <4>1 DEF Echelon
      <4> QED
        BY <4>1, <4>2
    <3> QED
      BY <3>2, <3>3
  <2>20. k \in Nat /\ k <= n /\ k <= c + 1 /\ (c + 1) - 1 = c
    BY <1>2, <2>2
  <2>21. new.rows = g /\ new.pivots = z /\ new.rank = k
    OBVIOUS
  <2>22. Echelon(new, n, c + 1)
    <3> HIDE DEF new, g, z, k
    <3> QED
      BY <2>14, <2>15, <2>17, <2>18, <2>19, <2>20, <2>21 DEF Echelon
  <2> QED
    BY <2>3, <2>7, <2>22
<1> QED
  BY <1>3, <1>4

\* The states of an elimination of n rows, and its start.
Eliminations(k, W) == [rows : [1..k -> SUBSET W], pivots : Seq(Nat), rank : Nat]
Untouched(rows) == [rows |-> rows, pivots |-> <<>>, rank |-> 0]
IsElimination(f, rows, m) ==
  f[0] = Untouched(rows) /\ \A c \in 1..m : f[c] = ReduceColumn(f[c - 1], c - 1)

\* A step of the elimination keeps the shape of its state.
LEMMA ReduceColumnTyped ==
  ASSUME NEW k \in Nat, NEW W, NEW s \in Eliminations(k, W), NEW c \in Nat
  PROVE  ReduceColumn(s, c) \in Eliminations(k, W)
<1> DEFINE below == {r \in s.rank + 1 .. Len(s.rows) : c \in s.rows[r]}
           R == [1..k -> SUBSET W]
           p == s.rank + 1
           t == Swapped(s.rows, p, Min(below))
           g == Clear(t, p, c)
<1>1. s.rows \in R /\ s.pivots \in Seq(Nat) /\ s.rank \in Nat
  BY DEF Eliminations
<1>2. Len(s.rows) = k
  <2> DEFINE T == SUBSET W
             x == s.rows
  <2>1. x \in [1..k -> T]
    BY <1>1
  <2> HIDE DEF T, x
  <2>2. Len(x) = k
    BY <2>1, LengthOfFunction
  <2> QED
    BY <2>2 DEF x
<1>3. CASE below = {}
  BY <1>3 DEF ReduceColumn
<1>4. CASE below # {}
  <2>1. Min(below) \in below /\ below \subseteq 1..k /\ p \in 1..k
    <3>1. below \in SUBSET (1..k) /\ p \in 1..k
      BY <1>1, <1>2, <1>4
    <3> HIDE DEF below
    <3> QED
      BY <1>4, <3>1, MinOfPositions
  <2>2. IsFiniteSet(1..k)
    BY FS_Interval
  <2>3. t \in R
    <3> DEFINE x == s.rows
               m == Min(below)
    <3>1. m \in 1..k
      BY <2>1
    <3> HIDE DEF below, x, m, p
    <3>2. Swapped(x, p, m) \in [1..k -> SUBSET W]
      BY <1>1, <2>1, <2>2, <3>1, SwapKeeps DEF x
    <3> QED
      BY <3>2 DEF x, m
  <2>4. g \in R
    <3> HIDE DEF t, p
    <3>1. Clear(t, p, c) \in [1..k -> SUBSET W]
      BY <2>1, <2>2, <2>3, ClearKeeps
    <3> QED
      BY <3>1
  <2>5. ReduceColumn(s, c) = [rows |-> g, pivots |-> Append(s.pivots, c), rank |-> p]
    BY <1>4 DEF ReduceColumn, Forced
  <2> HIDE DEF g, R
  <2>6. Append(s.pivots, c) \in Seq(Nat) /\ p \in Nat
    BY <1>1
  <2> QED
    BY <2>4, <2>5, <2>6 DEF Eliminations, R
<1> QED
  BY <1>3, <1>4

\* Elimination takes the columns one by one.
LEMMA RrefByColumn ==
  ASSUME NEW n \in Nat, NEW k \in Nat, NEW W, NEW rows \in [1..k -> SUBSET W]
  PROVE  \E f : IsElimination(f, rows, n) /\ Rref(rows, n) = f[n]
<1> DEFINE V == Eliminations(k, W)
           b == Untouched(rows)
           Next(s, i) == ReduceColumn(s, i - 1)
           step == [i \in 1..n |-> [s \in V |-> Next(s, i)]]
           Rec(h) == [S \in SUBSET (1..n) |-> IF S = {} THEN b ELSE Next(h[S \ {Max(S)}], Max(S))]
<1>1. \A i \in 1..n : \A s \in V : Next(s, i) \in V
  <2> SUFFICES ASSUME NEW i \in 1..n, NEW s \in V PROVE Next(s, i) \in V
    OBVIOUS
  <2>1. i - 1 \in Nat
    OBVIOUS
  <2> QED
    BY <2>1, ReduceColumnTyped
<1>2. IsStep(step, V, n) /\ b \in V
  <2>1. b \in V
    BY DEF Eliminations, Untouched
  <2> HIDE DEF V, b, Next
  <2> QED
    BY <1>1, <2>1 DEF IsStep
<1>3. PICK g : IsFold(g, V, b, n, step)
  <2> HIDE DEF step, V, b
  <2> QED
    BY <1>2, FoldExists
<1>4. g \in [SUBSET (1..n) -> V] /\ g[{}] = b
  BY <1>3 DEF IsFold
<1>5. g = Rec(g)
  <2>1. ASSUME NEW S \in SUBSET (1..n), S # {} PROVE g[S] = Next(g[S \ {Max(S)}], Max(S))
    <3>1. Max(S) \in 1..n /\ S \ {Max(S)} \in SUBSET (1..n)
      BY <2>1, MaxOfPositions
    <3>2. g[S] = step[Max(S)][g[S \ {Max(S)}]]
      BY <1>3, <2>1 DEF IsFold
    <3> HIDE DEF V, b, Next
    <3> QED
      BY <3>1, <3>2, <1>4
  <2> HIDE DEF V, b, Next
  <2> QED
    BY <1>4, <2>1
<1> DEFINE Here(z) == [S \in SUBSET (1..n) |->
                         IF S = {} THEN b
                         ELSE ReduceColumn(z[S \ {Max(S)}], ColumnList(n)[Max(S)])]
           h == CHOOSE z : z = Here(z)
<1>6. \A z : Here(z) = Rec(z)
  <2>1. \A S \in SUBSET (1..n) : S # {} => Max(S) \in 1..n
    BY MaxOfPositions
  <2> QED
    BY <2>1 DEF ColumnList
<1>7. Rref(rows, n) = h[1..n]
  <2>1. DOMAIN ColumnList(n) = 1..n
    BY DEF ColumnList
  <2> QED
    BY <2>1 DEF Rref, FoldLeft, MapThenFoldSet, Untouched
<1>8. h = Rec(h)
  <2> HIDE DEF Here, Rec
  <2>1. h = Here(h)
    BY <1>5, <1>6
  <2> QED
    BY <1>6, <2>1
<1> DEFINE f == [i \in 0..n |-> h[1..i]]
<1> HIDE DEF h
<1>9. f[0] = b
  <2>1. 1..0 = {}
    OBVIOUS
  <2> HIDE DEF b, Next
  <2> QED
    BY <2>1, <1>8
<1>10. ASSUME NEW i \in 1..n PROVE f[i] = Next(f[i - 1], i)
  <2>1. Max(1..i) = i /\ 1..i \in SUBSET (1..n) /\ 1..i # {} /\ (1..i) \ {i} = 1..(i - 1)
    BY MaxOfInterval
  <2> HIDE DEF b, Next
  <2>2. h[1..i] = Next(h[(1..i) \ {Max(1..i)}], Max(1..i))
    BY <1>8, <2>1
  <2>3. h[1..i] = Next(h[1..(i - 1)], i)
    BY <2>1, <2>2
  <2>4. i \in 0..n /\ i - 1 \in 0..n
    OBVIOUS
  <2> QED
    BY <2>3, <2>4
<1>11. f[n] = h[1..n]
  OBVIOUS
<1> HIDE DEF f
<1>12. IsElimination(f, rows, n)
  BY <1>9, <1>10 DEF IsElimination
<1> QED
  BY <1>7, <1>11, <1>12

\* What elimination of the first m columns reaches.
LEMMA RrefReduces ==
  ASSUME NEW n \in Nat, NEW m \in Nat, NEW W, NEW rows \in [1..n -> SUBSET W]
  PROVE  RowsKept(Rref(rows, m), rows, n, W) /\ Echelon(Rref(rows, m), n, m)
<1>1. PICK f : IsElimination(f, rows, m) /\ Rref(rows, m) = f[m]
  BY RrefByColumn
<1> DEFINE T == {c \in 0..m : RowsKept(f[c], rows, n, W) /\ Echelon(f[c], n, c)}
<1>2. 0 \in T
  <2> DEFINE s == Untouched(rows)
  <2>1. s.rows = rows /\ s.pivots = <<>> /\ s.rank = 0
    BY DEF Untouched
  <2> HIDE DEF s
  <2>2. RowsKept(s, rows, n, W)
    BY <2>1 DEF RowsKept
  <2>3. Echelon(s, n, 0)
    <3>1. \A p \in 1..0 : FALSE
      OBVIOUS
    <3>2. \A d \in 0..(0 - 1) : FALSE
      OBVIOUS
    <3>3. <<>> \in Seq(Nat) /\ Len(<<>>) = 0
      OBVIOUS
    <3> QED
      BY <2>1, <3>1, <3>2, <3>3 DEF Echelon
  <2> QED
    BY <1>1, <2>2, <2>3 DEF s, IsElimination
<1>3. ASSUME NEW c \in 1..m, c - 1 \in T PROVE c \in T
  <2>1. c - 1 \in Nat /\ (c - 1) + 1 = c /\ c \in 0..m
    OBVIOUS
  <2>2. RowsKept(f[c - 1], rows, n, W) /\ Echelon(f[c - 1], n, c - 1)
    BY <1>3
  <2>3. /\ RowsKept(ReduceColumn(f[c - 1], c - 1), rows, n, W)
        /\ Echelon(ReduceColumn(f[c - 1], c - 1), n, (c - 1) + 1)
    BY <2>1, <2>2, ReduceColumnStep
  <2> QED
    BY <1>1, <2>1, <2>3 DEF IsElimination
<1> HIDE DEF T
<1>4. 0..m \subseteq T
  BY <1>2, <1>3, IntervalInduction
<1>5. m \in T
  BY <1>4
<1> QED
  BY <1>1, <1>5 DEF T

-----------------------------------------------------------------------------
(* Rank, kernel and the perpendicular space.                               *)

\* Whether an index with a place of its own is used shows in the sum.
LEMMA OwnPlace ==
  ASSUME NEW f, NEW Q, NEW W, NEW q, NEW d \in W,
         \A i \in Q : d \in f[i] <=> i = q
  PROVE  d \in SumOf(f, Q, W) <=> q \in Q
<1>1. CASE q \in Q
  <2>1. {i \in Q : d \in f[i]} = {q}
    BY <1>1
  <2> QED
    BY <1>1, <2>1, OddSmall DEF SumOf
<1>2. CASE q \notin Q
  <2>1. {i \in Q : d \in f[i]} = {}
    BY <1>2
  <2> QED
    BY <1>2, <2>1, OddSmall DEF SumOf
<1> QED
  BY <1>1, <1>2

\* The rows with a pivot are a basis of the rows.
LEMMA RrefBasis ==
  ASSUME NEW n \in Nat, NEW m \in Nat, NEW rows \in [1..n -> SUBSET (0..(m - 1))]
  PROVE  LET r == Rref(rows, m)
             W == 0..(m - 1)
         IN  /\ LinearlyIndependent(r.rows, 1..r.rank, W)
             /\ SpanOf(r.rows, 1..r.rank, W) = SpanOf(rows, 1..n, W)
             /\ \A i \in (r.rank + 1)..n : r.rows[i] = {}
<1> DEFINE r == Rref(rows, m)
           W == 0..(m - 1)
           N == 1..r.rank
           f == r.rows
<1>1. RowsKept(r, rows, n, W) /\ Echelon(r, n, m)
  BY RrefReduces
<1>2. r.rank \in Nat /\ r.rank <= n
  BY <1>1 DEF Echelon
<1>3. f \in [1..n -> SUBSET W] /\ SpanOf(f, 1..n, W) = SpanOf(rows, 1..n, W)
  BY <1>1 DEF RowsKept
<1> HIDE DEF r
<1>4. N \subseteq 1..n /\ \A i \in 1..n : i \notin N => i \in (r.rank + 1)..n
  BY <1>2
<1>5. ASSUME NEW i \in (r.rank + 1)..n PROVE f[i] = {}
  <2>1. i \in 1..n
    BY <1>2
  <2>2. f[i] \in SUBSET W
    BY <1>3, <2>1
  <2>3. \A d \in W : d \notin f[i]
    BY <1>1 DEF Echelon
  <2> QED
    BY <2>2, <2>3
<1>6. LinearlyIndependent(f, N, W)
  <2> SUFFICES ASSUME NEW Q \in SUBSET N, SumOf(f, Q, W) = {}, NEW p \in Q PROVE FALSE
    BY DEF LinearlyIndependent
  <2>1. p \in N /\ Q \subseteq 1..n
    BY <1>4
  <2>2. r.pivots[p] \in W /\ \A i \in 1..n : r.pivots[p] \in f[i] <=> i = p
    BY <1>1, <2>1 DEF Echelon
  <2>3. r.pivots[p] \in SumOf(f, Q, W)
    <3> DEFINE d == r.pivots[p]
    <3>1. d \in W /\ \A i \in Q : d \in f[i] <=> i = p
      BY <2>1, <2>2
    <3> HIDE DEF d, W, f
    <3>2. d \in SumOf(f, Q, W) <=> p \in Q
      BY <3>1, OwnPlace
    <3> QED
      BY <3>2 DEF d
  <2> QED
    BY <2>3
<1>7. ASSUME NEW Q \in SUBSET (1..n) PROVE SumOf(f, Q, W) = SumOf(f, Q \cap N, W)
  <2>1. \A d \in W : {q \in Q : d \in f[q]} = {q \in Q \cap N : d \in f[q]}
    BY <1>4, <1>5
  <2> QED
    BY <2>1 DEF SumOf
<1>8. SpanOf(f, N, W) = SpanOf(f, 1..n, W)
  <2>1. \A Q \in SUBSET (1..n) : Q \cap N \in SUBSET N
    OBVIOUS
  <2>2. \A Q \in SUBSET N : Q \in SUBSET (1..n)
    BY <1>4
  <2> HIDE DEF N, f, W
  <2> QED
    BY <1>7, <2>1, <2>2 DEF SpanOf
<1> QED
  BY <1>3, <1>5, <1>6, <1>8 DEF r

\* The rank is the dimension of the span of the rows.
LEMMA RankIsDimension ==
  ASSUME NEW n \in Nat, NEW m \in Nat, NEW rows \in [1..n -> SUBSET (0..(m - 1))]
  PROVE  /\ Rank2(rows, m) \in Nat
         /\ \E f : /\ LinearlyIndependent(f, 1..Rank2(rows, m), 0..(m - 1))
                   /\ SpanOf(f, 1..Rank2(rows, m), 0..(m - 1)) = SpanOf(rows, 1..n, 0..(m - 1))
         /\ Cardinality(SpanOf(rows, 1..n, 0..(m - 1))) = 2^Rank2(rows, m)
<1> DEFINE k == Rank2(rows, m)
           f == Rref(rows, m).rows
           W == 0..(m - 1)
<1>1. k \in Nat
  <2>1. Echelon(Rref(rows, m), n, m)
    BY RrefReduces
  <2> QED
    BY <2>1 DEF Echelon, Rank2
<1>2. LinearlyIndependent(f, 1..k, W) /\ SpanOf(f, 1..k, W) = SpanOf(rows, 1..n, W)
  BY RrefBasis DEF Rank2
<1>3. IsFiniteSet(1..k) /\ Cardinality(1..k) = k
  BY <1>1, FS_Interval
<1>4. Cardinality(SpanOf(f, 1..k, W)) = 2^k
  <2> HIDE DEF f, k, W
  <2> QED
    BY <1>2, <1>3, SpanSize
<1> QED
  BY <1>1, <1>2, <1>4

\* Rank compares spans, one inside the other.
LEMMA RanksCompare ==
  ASSUME NEW n \in Nat, NEW k \in Nat, NEW m \in Nat,
         NEW f \in [1..n -> SUBSET (0..(m - 1))], NEW g \in [1..k -> SUBSET (0..(m - 1))],
         SpanOf(f, 1..n, 0..(m - 1)) \subseteq SpanOf(g, 1..k, 0..(m - 1))
  PROVE  Rank2(g, m) > Rank2(f, m)
           <=> SpanOf(f, 1..n, 0..(m - 1)) # SpanOf(g, 1..k, 0..(m - 1))
<1> DEFINE W == 0..(m - 1)
           a == Rank2(f, m)
           b == Rank2(g, m)
<1>1. a \in Nat /\ b \in Nat
  BY RankIsDimension
<1>2. PICK u : LinearlyIndependent(u, 1..a, W) /\ SpanOf(u, 1..a, W) = SpanOf(f, 1..n, W)
  BY RankIsDimension
<1>3. PICK v : LinearlyIndependent(v, 1..b, W) /\ SpanOf(v, 1..b, W) = SpanOf(g, 1..k, W)
  BY RankIsDimension
<1>4. /\ IsFiniteSet(1..a) /\ Cardinality(1..a) = a
      /\ IsFiniteSet(1..b) /\ Cardinality(1..b) = b
  BY <1>1, FirstNumbers
<1>5. SpanOf(u, 1..a, W) \subseteq SpanOf(v, 1..b, W)
  BY <1>2, <1>3
<1> HIDE DEF W, a, b
<1>6. /\ SpanOf(u, 1..a, W) = SpanOf(v, 1..b, W) => a = b
      /\ SpanOf(u, 1..a, W) # SpanOf(v, 1..b, W) => a < b
  BY <1>2, <1>3, <1>4, <1>5, SpansCompare
<1>7. a = b => ~(b > a)
  BY <1>1
<1>8. a < b => b > a
  BY <1>1
<1>9. b > a <=> SpanOf(f, 1..n, W) # SpanOf(g, 1..k, W)
  BY <1>2, <1>3, <1>6, <1>7, <1>8
<1> QED
  BY <1>9 DEF W, a, b

\* The overlap of vectors is bilinear.
LEMMA OverlapLinear ==
  ASSUME NEW u, NEW v, NEW w, IsFiniteSet(w)
  PROVE  /\ OverlapOdd(u, w) <=> OverlapOdd(w, u)
         /\ OverlapOdd(SymDiff(u, v), w) <=> ~(OverlapOdd(u, w) <=> OverlapOdd(v, w))
         /\ OverlapOdd(w, SymDiff(u, v)) <=> ~(OverlapOdd(w, u) <=> OverlapOdd(w, v))
<1> DEFINE A == u \cap w
           B == v \cap w
<1>1. A \in SUBSET w /\ B \in SUBSET w
  OBVIOUS
<1>2. IsFiniteSet(A) /\ IsFiniteSet(B)
  <2> HIDE DEF A, B
  <2> QED
    BY <1>1, FS_Subset
<1>3. /\ SymDiff(u, v) \cap w = SymDiff(A, B) /\ w \cap SymDiff(u, v) = SymDiff(A, B)
      /\ w \cap u = A /\ w \cap v = B
  BY DEF SymDiff
<1>4. Odd(SymDiff(A, B)) <=> ~(Odd(A) <=> Odd(B))
  <2> HIDE DEF A, B
  <2> QED
    BY <1>2, OddSymDiff
<1> QED
  BY <1>3, <1>4 DEF OverlapOdd

\* A sum meets w oddly if an odd number of its vectors does.
LEMMA ParityOfSum ==
  ASSUME NEW N, NEW W, IsFiniteSet(N), NEW f \in [N -> SUBSET W], NEW w, IsFiniteSet(w)
  PROVE  \A Q \in SUBSET N : OverlapOdd(SumOf(f, Q, W), w) <=> Odd({q \in Q : OverlapOdd(f[q], w)})
<1> DEFINE P(Q) == {q \in Q : OverlapOdd(f[q], w)}
           T == {Q \in SUBSET N : OverlapOdd(SumOf(f, Q, W), w) <=> Odd(P(Q))}
<1>1. ASSUME NEW Q \in SUBSET N, \A x \in Q : Q \ {x} \in T PROVE Q \in T
  <2>1. CASE Q = {}
    <3>1. P(Q) = {} /\ SumOf(f, Q, W) = {} /\ {} \cap w = {}
      BY <2>1, SumOfNone
    <3> QED
      BY <2>1, <3>1, OddSmall DEF OverlapOdd
  <2>2. CASE Q # {}
    <3>1. PICK x : x \in Q
      BY <2>2
    <3> DEFINE R == Q \ {x}
    <3>2. Q = SymDiff(R, {x}) /\ x \in N /\ f[x] \in SUBSET W /\ R \in SUBSET N
      BY <3>1 DEF SymDiff
    <3>3. IsFiniteSet(R) /\ IsFiniteSet({x})
      BY <3>2, FS_Subset, FS_Singleton
    <3>4. SumOf(f, Q, W) = SymDiff(SumOf(f, R, W), f[x])
      <4>1. SumOf(f, {x}, W) = W \cap f[x] /\ W \cap f[x] = f[x]
        BY <3>2, SumOfOne
      <4> HIDE DEF R
      <4>2. SumOf(f, SymDiff(R, {x}), W) = SymDiff(SumOf(f, R, W), SumOf(f, {x}, W))
        BY <3>3, SumLinear
      <4> QED
        BY <3>2, <4>1, <4>2
    <3>5. OverlapOdd(SumOf(f, Q, W), w) <=> ~(OverlapOdd(SumOf(f, R, W), w) <=> OverlapOdd(f[x], w))
      BY <3>4, OverlapLinear
    <3>6. OverlapOdd(SumOf(f, R, W), w) <=> Odd(P(R))
      <4>1. R \in T
        BY <1>1, <3>1
      <4> QED
        BY <4>1
    <3>7. CASE OverlapOdd(f[x], w)
      <4>1. P(Q) = SymDiff(P(R), {x})
        BY <3>1, <3>7 DEF SymDiff
      <4>2. IsFiniteSet(P(R))
        BY <3>3, FS_Subset
      <4> DEFINE A == P(R)
      <4>3. Odd(SymDiff(A, {x})) <=> ~(Odd(A) <=> Odd({x}))
        <5>1. IsFiniteSet(A)
          BY <4>2
        <5> HIDE DEF A
        <5> QED
          BY <5>1, <3>3, OddSymDiff
      <4>4. Odd(P(Q)) <=> ~Odd(P(R))
        BY <4>1, <4>3, OddSmall
      <4> QED
        BY <3>5, <3>6, <3>7, <4>4
    <3>8. CASE ~OverlapOdd(f[x], w)
      <4>1. P(Q) = P(R)
        BY <3>8
      <4> QED
        BY <3>5, <3>6, <3>8, <4>1
    <3> QED
      BY <3>7, <3>8
  <2> QED
    BY <2>1, <2>2
<1>2. Grows(N, T)
  BY <1>1 DEF Grows
<1>3. SUBSET N \subseteq T
  <2> HIDE DEF T
  <2> QED
    BY <1>2, SubsetInduction
<1> QED
  BY <1>3

\* The vectors without a syndrome: those that meet every row, and so every sum of rows,
\* evenly.
KernelOf(rows, n, m) ==
  {v \in SUBSET (0..(m - 1)) : \A i \in 1..n : ~OverlapOdd(v, rows[i])}

Perp(S, m) == {v \in SUBSET (0..(m - 1)) : \A u \in S : ~OverlapOdd(v, u)}

\* The columns are finitely many.
LEMMA ColumnsFinite ==
  ASSUME NEW m \in Nat, NEW v \in SUBSET (0..(m - 1))
  PROVE  IsFiniteSet(v) /\ IsFiniteSet(0..(m - 1))
<1>1. IsFiniteSet(0..(m - 1))
  <2>1. 0 \in Int /\ m - 1 \in Int
    OBVIOUS
  <2> QED
    BY <2>1, FS_Interval
<1> QED
  BY <1>1, FS_Subset

\* The vectors without a syndrome form a space, and meet every sum of rows evenly.
LEMMA KernelOfSpan ==
  ASSUME NEW n \in Nat, NEW m \in Nat, NEW rows \in [1..n -> SUBSET (0..(m - 1))]
  PROVE  /\ KernelOf(rows, n, m) = Perp(SpanOf(rows, 1..n, 0..(m - 1)), m)
         /\ {} \in KernelOf(rows, n, m)
         /\ \A u, v \in KernelOf(rows, n, m) : SymDiff(u, v) \in KernelOf(rows, n, m)
<1> DEFINE W == 0..(m - 1)
           K == KernelOf(rows, n, m)
<1>1. IsFiniteSet(1..n)
  BY FirstNumbers
<1>2. ASSUME NEW v \in SUBSET W, \A i \in 1..n : ~OverlapOdd(v, rows[i]),
             NEW u \in SpanOf(rows, 1..n, W)
      PROVE  ~OverlapOdd(v, u)
  <2>1. PICK Q \in SUBSET (1..n) : u = SumOf(rows, Q, W)
    BY DEF SpanOf
  <2>2. IsFiniteSet(v)
    BY ColumnsFinite
  <2>3. OverlapOdd(SumOf(rows, Q, W), v) <=> Odd({q \in Q : OverlapOdd(rows[q], v)})
    <3> HIDE DEF W
    <3>1. rows \in [1..n -> SUBSET W]
      BY DEF W
    <3> QED
      BY <1>1, <2>2, <3>1, ParityOfSum
  <2>4. \A q \in Q : ~OverlapOdd(rows[q], v)
    <3> SUFFICES ASSUME NEW q \in Q PROVE ~OverlapOdd(rows[q], v)
      OBVIOUS
    <3>1. ~OverlapOdd(v, rows[q])
      BY <1>2
    <3> QED
      BY <2>2, <3>1, OverlapLinear
  <2>5. {q \in Q : OverlapOdd(rows[q], v)} = {}
    BY <2>4
  <2>6. ~OverlapOdd(u, v)
    BY <2>1, <2>3, <2>5, OddSmall
  <2> QED
    BY <2>2, <2>6, OverlapLinear
<1>3. ASSUME NEW v \in SUBSET W, \A u \in SpanOf(rows, 1..n, W) : ~OverlapOdd(v, u), NEW i \in 1..n
      PROVE  ~OverlapOdd(v, rows[i])
  <2>1. W \cap rows[i] \in SpanOf(rows, 1..n, W)
    BY <1>1, SpanIsSpace
  <2>2. W \cap rows[i] = rows[i]
    OBVIOUS
  <2> QED
    BY <1>3, <2>1, <2>2
<1>4. K = Perp(SpanOf(rows, 1..n, W), m)
  <2>1. \A v \in SUBSET W : (\A i \in 1..n : ~OverlapOdd(v, rows[i]))
                              <=> \A u \in SpanOf(rows, 1..n, W) : ~OverlapOdd(v, u)
    BY <1>2, <1>3
  <2> QED
    BY <2>1 DEF KernelOf, Perp
<1>5. {} \in K
  <2>1. \A i \in 1..n : {} \cap rows[i] = {}
    OBVIOUS
  <2> QED
    BY <2>1, OddSmall DEF KernelOf, OverlapOdd
<1>6. ASSUME NEW u \in K, NEW v \in K PROVE SymDiff(u, v) \in K
  <2>1. SymDiff(u, v) \in SUBSET W
    BY DEF KernelOf, SymDiff
  <2>2. ASSUME NEW i \in 1..n PROVE ~OverlapOdd(SymDiff(u, v), rows[i])
    <3>1. IsFiniteSet(rows[i])
      BY ColumnsFinite
    <3>2. ~OverlapOdd(u, rows[i]) /\ ~OverlapOdd(v, rows[i])
      BY DEF KernelOf
    <3> QED
      BY <3>1, <3>2, OverlapLinear
  <2> QED
    BY <2>1, <2>2 DEF KernelOf
<1> QED
  BY <1>4, <1>5, <1>6

\* Elimination keeps the kernel.
LEMMA KernelReduced ==
  ASSUME NEW n \in Nat, NEW m \in Nat, NEW rows \in [1..n -> SUBSET (0..(m - 1))]
  PROVE  KernelOf(Rref(rows, m).rows, n, m) = KernelOf(rows, n, m)
<1> DEFINE W == 0..(m - 1)
           f == Rref(rows, m).rows
<1>1. f \in [1..n -> SUBSET W] /\ SpanOf(f, 1..n, W) = SpanOf(rows, 1..n, W)
  <2>1. RowsKept(Rref(rows, m), rows, n, W)
    BY RrefReduces
  <2> QED
    BY <2>1 DEF RowsKept
<1>2. KernelOf(f, n, m) = Perp(SpanOf(f, 1..n, W), m)
  <2> HIDE DEF f
  <2> QED
    BY <1>1, KernelOfSpan
<1>3. KernelOf(rows, n, m) = Perp(SpanOf(rows, 1..n, W), m)
  BY KernelOfSpan
<1> QED
  BY <1>1, <1>2, <1>3

\* The columns without a pivot, and the null vector of each.
LooseColumns(r, m) == (0..(m - 1)) \ {r.pivots[p] : p \in 1..r.rank}
NullRows(r, m) == [c \in LooseColumns(r, m) |-> NullVector(r, c)]

\* What a column says of a null vector: its own column and pivots.
LEMMA NullVectorFacts ==
  ASSUME NEW n \in Nat, NEW m \in Nat, NEW rows \in [1..n -> SUBSET (0..(m - 1))],
         NEW c \in LooseColumns(Rref(rows, m), m)
  PROVE  LET r == Rref(rows, m)
         IN  /\ NullVector(r, c) \in KernelOf(rows, n, m)
             /\ \A d \in LooseColumns(r, m) : d \in NullVector(r, c) <=> d = c
<1> DEFINE r == Rref(rows, m)
           W == 0..(m - 1)
           f == r.rows
           v == NullVector(r, c)
           P == {q \in 1..r.rank : c \in f[q]}
<1>1. RowsKept(r, rows, n, W) /\ Echelon(r, n, m)
  BY RrefReduces
<1>2. /\ f \in [1..n -> SUBSET W]
      /\ SpanOf(f, 1..n, W) = SpanOf(rows, 1..n, W)
      /\ \A i \in (r.rank + 1)..n : f[i] = {}
  BY <1>1, RrefBasis DEF RowsKept
<1> HIDE DEF r
<1>3. DOMAIN r.pivots = 1..r.rank /\ r.rank \in Nat /\ r.rank <= n
  BY <1>1 DEF Echelon
<1>4. v = {c} \cup {r.pivots[p] : p \in P}
  BY <1>3 DEF NullVector
<1>5. \A p \in 1..r.rank : r.pivots[p] \in W /\ r.pivots[p] # c
  BY <1>1 DEF Echelon, LooseColumns, r
<1>6. \A p \in 1..r.rank : \A i \in 1..n : r.pivots[p] \in f[i] <=> i = p
  BY <1>1 DEF Echelon
<1>7. c \in W
  BY DEF LooseColumns
<1>8. v \in SUBSET W
  BY <1>4, <1>5, <1>7
<1>9. ASSUME NEW i \in 1..n PROVE ~OverlapOdd(v, f[i])
  <2>1. CASE i \in 1..r.rank /\ c \in f[i]
    <3>1. v \cap f[i] = {c, r.pivots[i]} /\ c # r.pivots[i]
      BY <1>4, <1>5, <1>6, <2>1
    <3> QED
      BY <3>1, OddSmall DEF OverlapOdd
  <2>2. CASE i \in 1..r.rank /\ c \notin f[i]
    <3>1. v \cap f[i] = {}
      BY <1>4, <1>6, <2>2
    <3> QED
      BY <3>1, OddSmall DEF OverlapOdd
  <2>3. CASE i \notin 1..r.rank
    <3>1. i \in (r.rank + 1)..n
      BY <1>3, <2>3
    <3>2. v \cap f[i] = {}
      BY <1>2, <3>1
    <3> QED
      BY <3>2, OddSmall DEF OverlapOdd
  <2> QED
    BY <2>1, <2>2, <2>3
<1>10. v \in KernelOf(f, n, m)
  BY <1>8, <1>9 DEF KernelOf
<1>11. KernelOf(f, n, m) = KernelOf(rows, n, m)
  BY KernelReduced DEF r
<1>12. \A d \in LooseColumns(r, m) : d \in v <=> d = c
  BY <1>4 DEF LooseColumns
<1> QED
  BY <1>10, <1>11, <1>12 DEF r

\* A vector of the kernel is zero if it is on the columns without a pivot.
LEMMA PivotsDecide ==
  ASSUME NEW n \in Nat, NEW m \in Nat, NEW rows \in [1..n -> SUBSET (0..(m - 1))],
         NEW v \in KernelOf(rows, n, m), v \cap LooseColumns(Rref(rows, m), m) = {}
  PROVE  v = {}
<1> DEFINE r == Rref(rows, m)
           W == 0..(m - 1)
           f == r.rows
<1>1. RowsKept(r, rows, n, W) /\ Echelon(r, n, m)
  BY RrefReduces
<1>2. v \in KernelOf(f, n, m)
  BY KernelReduced
<1>3. v \in SUBSET W /\ \A i \in 1..n : ~OverlapOdd(v, f[i])
  BY <1>2 DEF KernelOf
<1>4. \A d \in v : \E p \in 1..r.rank : d = r.pivots[p]
  BY <1>3 DEF LooseColumns
<1> HIDE DEF r
<1>5. \A p \in 1..r.rank : p \in 1..n /\ \A i \in 1..n : r.pivots[p] \in f[i] <=> i = p
  <2>1. r.rank \in Nat /\ r.rank <= n
        /\ \A i \in 1..n, q \in 1..r.rank : r.pivots[q] \in f[i] <=> i = q
    BY <1>1 DEF Echelon
  <2> SUFFICES ASSUME NEW p \in 1..r.rank
               PROVE  p \in 1..n /\ \A i \in 1..n : r.pivots[p] \in f[i] <=> i = p
    OBVIOUS
  <2>2. p \in 1..n
    BY <2>1
  <2> HIDE DEF f
  <2>3. \A i \in 1..n : r.pivots[p] \in f[i] <=> i = p
    BY <2>1
  <2> QED
    BY <2>2, <2>3
<1> SUFFICES ASSUME NEW d \in v PROVE FALSE
  OBVIOUS
<1>6. PICK p \in 1..r.rank : d = r.pivots[p]
  BY <1>4
<1>7. v \cap f[p] = {d}
  <2>1. d \in f[p]
    BY <1>5, <1>6
  <2>2. \A e \in v : e \in f[p] => e = d
    BY <1>4, <1>5, <1>6
  <2> QED
    BY <2>1, <2>2
<1>8. OverlapOdd(v, f[p])
  BY <1>7, OddSmall DEF OverlapOdd
<1> QED
  BY <1>3, <1>5, <1>8

\* A space holds the span of vectors that it holds.
LEMMA SpanWithin ==
  ASSUME NEW f, NEW N, NEW W, IsFiniteSet(N), NEW K, K \subseteq SUBSET W, {} \in K,
         \A u, v \in K : SymDiff(u, v) \in K,
         \A q \in N : f[q] \in K
  PROVE  SpanOf(f, N, W) \subseteq K
<1> SUFFICES ASSUME NEW Q \in SUBSET N PROVE SumOf(f, Q, W) \in K
  BY DEF SpanOf
<1> DEFINE T == {R \in SUBSET N : SumOf(f, R, W) \in K}
<1>1. ASSUME NEW R \in SUBSET N, \A x \in R : R \ {x} \in T PROVE R \in T
  <2>1. CASE R = {}
    BY <2>1, SumOfNone
  <2>2. CASE R # {}
    <3>1. PICK x : x \in R
      BY <2>2
    <3> DEFINE S == R \ {x}
    <3>2. R = SymDiff(S, {x}) /\ x \in N /\ S \in SUBSET N /\ SumOf(f, S, W) \in K
      BY <1>1, <3>1 DEF SymDiff
    <3>3. IsFiniteSet(S) /\ IsFiniteSet({x})
      BY <3>2, FS_Subset, FS_Singleton
    <3>4. SumOf(f, {x}, W) = W \cap f[x] /\ W \cap f[x] = f[x]
      BY <3>2, SumOfOne
    <3> HIDE DEF S
    <3>5. SumOf(f, SymDiff(S, {x}), W) = SymDiff(SumOf(f, S, W), SumOf(f, {x}, W))
      BY <3>3, SumLinear
    <3>6. SumOf(f, R, W) = SymDiff(SumOf(f, S, W), f[x]) /\ f[x] \in K
      BY <3>2, <3>4, <3>5
    <3>7. SumOf(f, R, W) \in K
      BY <3>2, <3>6
    <3> QED
      BY <3>7
  <2> QED
    BY <2>1, <2>2
<1>2. Grows(N, T)
  BY <1>1 DEF Grows
<1> HIDE DEF T
<1>3. SUBSET N \subseteq T
  BY <1>2, SubsetInduction
<1> QED
  BY <1>3 DEF T

\* The null vectors are a basis of the kernel, and there is one for each column without
\* a pivot.
LEMMA KernelBasis ==
  ASSUME NEW n \in Nat, NEW m \in Nat, NEW rows \in [1..n -> SUBSET (0..(m - 1))]
  PROVE  LET r == Rref(rows, m)
             F == LooseColumns(r, m)
             W == 0..(m - 1)
         IN  /\ IsFiniteSet(F)
             /\ LinearlyIndependent(NullRows(r, m), F, W)
             /\ SpanOf(NullRows(r, m), F, W) = KernelOf(rows, n, m)
             /\ Cardinality(F) = m - Rank2(rows, m)
<1> DEFINE r == Rref(rows, m)
           F == LooseColumns(r, m)
           W == 0..(m - 1)
           L == NullRows(r, m)
           K == KernelOf(rows, n, m)
<1>1. F \in SUBSET W /\ IsFiniteSet(F) /\ IsFiniteSet(W)
  BY ColumnsFinite DEF LooseColumns
<1>2. \A c \in F : /\ L[c] = NullVector(r, c) /\ L[c] \in K
                   /\ \A d \in F : d \in L[c] <=> d = c
  BY NullVectorFacts DEF NullRows
<1>3. K \subseteq SUBSET W /\ {} \in K /\ \A u, v \in K : SymDiff(u, v) \in K
  BY KernelOfSpan DEF KernelOf
<1>4. \A c \in F : L[c] \in SUBSET W
  BY <1>2, <1>3
<1>5. ASSUME NEW Q \in SUBSET F PROVE SumOf(L, Q, W) \cap F = Q
  <2> SUFFICES ASSUME NEW d \in F PROVE d \in SumOf(L, Q, W) <=> d \in Q
    OBVIOUS
  <2>1. d \in W /\ \A i \in Q : d \in L[i] <=> i = d
    BY <1>1, <1>2
  <2> HIDE DEF L, W, F
  <2> QED
    BY <2>1, OwnPlace
<1>6. LinearlyIndependent(L, F, W)
  <2> SUFFICES ASSUME NEW Q \in SUBSET F, SumOf(L, Q, W) = {} PROVE Q = {}
    BY DEF LinearlyIndependent
  <2> QED
    BY <1>5
<1>7. SpanOf(L, F, W) \subseteq K
  <2> HIDE DEF L, F, K, W
  <2> QED
    BY <1>1, <1>2, <1>3, SpanWithin
<1>8. K \subseteq SpanOf(L, F, W)
  <2> SUFFICES ASSUME NEW v \in K PROVE v \in SpanOf(L, F, W)
    OBVIOUS
  <2> DEFINE Q == v \cap F
             u == SumOf(L, Q, W)
  <2>1. Q \in SUBSET F /\ u \in SpanOf(L, F, W) /\ u \in K /\ u \cap F = Q
    BY <1>5, <1>7 DEF SpanOf
  <2>2. SymDiff(v, u) \in K /\ SymDiff(v, u) \cap F = {}
    BY <1>3, <2>1 DEF SymDiff
  <2>3. SymDiff(v, u) = {}
    BY <2>2, PivotsDecide
  <2>4. v = u
    <3> HIDE DEF u
    <3> QED
      BY <2>3 DEF SymDiff
  <2> QED
    BY <2>1, <2>4
<1>9. Cardinality(F) = m - r.rank
  <2>1. Echelon(r, n, m)
    BY RrefReduces
  <2> HIDE DEF r
  <2> DEFINE P == {r.pivots[p] : p \in 1..r.rank}
             h == [p \in 1..r.rank |-> r.pivots[p]]
  <2>2. r.rank \in Nat /\ \A p \in 1..r.rank : p \in 1..n /\ r.pivots[p] \in W
    BY <2>1 DEF Echelon
  <2>3. \A p, q \in 1..r.rank : h[p] = h[q] => p = q
    <3> SUFFICES ASSUME NEW p \in 1..r.rank, NEW q \in 1..r.rank, r.pivots[p] = r.pivots[q] PROVE p = q
      OBVIOUS
    <3>1. \A i \in 1..n : r.pivots[p] \in r.rows[i] <=> i = p
      BY <2>1 DEF Echelon
    <3>2. \A i \in 1..n : r.pivots[q] \in r.rows[i] <=> i = q
      BY <2>1 DEF Echelon
    <3> QED
      BY <2>2, <3>1, <3>2
  <2>4. h \in [1..r.rank -> P] /\ \A t \in P : \E p \in 1..r.rank : h[p] = t
    OBVIOUS
  <2>5. IsFiniteSet(1..r.rank) /\ Cardinality(1..r.rank) = r.rank
    BY <2>2, FirstNumbers
  <2>6. Cardinality(P) = r.rank
    <3> DEFINE N == 1..r.rank
    <3>1. IsFiniteSet(N) /\ h \in [N -> P] /\ (\A t \in P : \E p \in N : h[p] = t)
          /\ \A p, q \in N : h[p] = h[q] => p = q
      BY <2>3, <2>4, <2>5
    <3> HIDE DEF h, P, N
    <3>2. Cardinality(P) = Cardinality(N)
      BY <3>1, MatchedSets
    <3> QED
      BY <2>5, <3>2 DEF N
  <2>7. Cardinality(W) = m
    <3>1. 0 \in Int /\ m - 1 \in Int
      OBVIOUS
    <3>2. Cardinality(0..(m - 1)) = IF 0 > m - 1 THEN 0 ELSE (m - 1) - 0 + 1
      BY <3>1, FS_Interval
    <3>3. (IF 0 > m - 1 THEN 0 ELSE (m - 1) - 0 + 1) = m
      OBVIOUS
    <3> QED
      BY <3>2, <3>3
  <2>8. F = W \ P /\ W \cap P = P
    BY <2>2 DEF LooseColumns
  <2>9. Cardinality(W \ P) = Cardinality(W) - Cardinality(W \cap P)
    <3> HIDE DEF W, P
    <3> QED
      BY <1>1, FS_Difference
  <2> QED
    BY <2>6, <2>7, <2>8, <2>9
<1> QED
  BY <1>1, <1>6, <1>7, <1>8, <1>9 DEF Rank2

\* What meets the whole kernel evenly is a sum of rows.
LEMMA PerpOfKernel ==
  ASSUME NEW n \in Nat, NEW m \in Nat, NEW rows \in [1..n -> SUBSET (0..(m - 1))],
         NEW v \in SUBSET (0..(m - 1)),
         \A u \in KernelOf(rows, n, m) : ~OverlapOdd(v, u)
  PROVE  v \in SpanOf(rows, 1..n, 0..(m - 1))
<1> DEFINE r == Rref(rows, m)
           W == 0..(m - 1)
           f == r.rows
           N == 1..r.rank
           K == KernelOf(rows, n, m)
           Q == {p \in N : r.pivots[p] \in v}
           s == SumOf(f, Q, W)
           w == SymDiff(v, s)
<1>1. RowsKept(r, rows, n, W) /\ Echelon(r, n, m)
  BY RrefReduces
<1>2. SpanOf(f, N, W) = SpanOf(rows, 1..n, W)
  BY RrefBasis
<1>3. s \in SpanOf(rows, 1..n, W)
  <2>1. Q \in SUBSET N
    OBVIOUS
  <2> HIDE DEF Q, N
  <2> QED
    BY <1>2, <2>1 DEF SpanOf
<1>4. w \in SUBSET W /\ s \in SUBSET W
  BY DEF SymDiff, SumOf
<1>5. ASSUME NEW u \in K PROVE ~OverlapOdd(w, u)
  <2>1. u \in SUBSET W /\ \A x \in SpanOf(rows, 1..n, W) : ~OverlapOdd(u, x)
    BY KernelOfSpan DEF Perp
  <2>2. IsFiniteSet(u) /\ IsFiniteSet(v) /\ IsFiniteSet(s)
    BY <1>4, <2>1, ColumnsFinite
  <2>3. ~OverlapOdd(s, u) /\ ~OverlapOdd(v, u)
    BY <1>3, <2>1, <2>2, OverlapLinear
  <2> HIDE DEF s
  <2> QED
    BY <2>2, <2>3, OverlapLinear
<1>6. ASSUME NEW p \in N PROVE r.pivots[p] \notin w
  <2> DEFINE d == r.pivots[p]
  <2>1. d \in W /\ \A i \in Q : d \in f[i] <=> i = p
    BY <1>1 DEF Echelon
  <2>2. d \in s <=> p \in Q
    <3> HIDE DEF d, Q, f, W
    <3> QED
      BY <2>1, OwnPlace DEF s
  <2>3. p \in Q <=> d \in v
    OBVIOUS
  <2> HIDE DEF s, Q
  <2> QED
    BY <2>2, <2>3 DEF SymDiff
<1>7. ASSUME NEW c \in LooseColumns(r, m) PROVE c \notin w
  <2>1. NullVector(r, c) \in K
    BY NullVectorFacts
  <2>2. NullVector(r, c) = {c} \cup {r.pivots[p] : p \in {q \in DOMAIN r.pivots : c \in f[q]}}
    BY DEF NullVector
  <2>3. DOMAIN r.pivots = N
    BY <1>1 DEF Echelon
  <2>4. c \in w => w \cap NullVector(r, c) = {c}
    <3> HIDE DEF w, r
    <3> QED
      BY <1>6, <2>2, <2>3
  <2>5. c \in w => OverlapOdd(w, NullVector(r, c))
    BY <2>4, OddSmall DEF OverlapOdd
  <2> QED
    BY <1>5, <2>1, <2>5
<1>8. w = {}
  <2> HIDE DEF w
  <2> QED
    BY <1>4, <1>6, <1>7 DEF LooseColumns
<1>9. v = s
  <2> HIDE DEF s
  <2> QED
    BY <1>8 DEF SymDiff
<1> QED
  BY <1>3, <1>9

-----------------------------------------------------------------------------
(* The null space and the extension of a basis.                            *)

\* The null vectors are listed column by column, the extension grows candidate by
\* candidate.
IsNullListing(f, r, m) ==
  f[0] = <<>> /\ \A i \in 1..m : f[i] = WithNullVector(r, f[i - 1], i - 1)
IsExtension(f, base, candidates, m) ==
  f[0] = <<>> /\ \A i \in 1..Len(candidates) : f[i] = WithCandidate(base, f[i - 1], candidates[i], m)

\* The null vectors, one column at a time.
LEMMA NullVectorsByColumn ==
  ASSUME NEW n \in Nat, NEW r
  PROVE  \E f : IsNullListing(f, r, n) /\ NullVectors(r, n) = f[n]
<1> DEFINE V == Seq({NullVector(r, c) : c \in 0..(n - 1)})
           b == <<>>
           Next(s, i) == WithNullVector(r, s, i - 1)
           step == [i \in 1..n |-> [s \in V |-> Next(s, i)]]
           Rec(h) == [S \in SUBSET (1..n) |-> IF S = {} THEN b ELSE Next(h[S \ {Max(S)}], Max(S))]
<1>1. \A i \in 1..n : \A s \in V : Next(s, i) \in V
  <2> SUFFICES ASSUME NEW i \in 1..n, NEW s \in V PROVE Next(s, i) \in V
    OBVIOUS
  <2> DEFINE P == {NullVector(r, c) : c \in 0..(n - 1)}
             x == NullVector(r, i - 1)
  <2>1. x \in P
    BY i - 1 \in 0..(n - 1)
  <2> HIDE DEF P, x
  <2>2. s \in Seq(P)
    BY DEF P
  <2>3. Append(s, x) \in Seq(P)
    BY <2>1, <2>2
  <2> QED
    BY <2>2, <2>3 DEF WithNullVector, P, x
<1>2. IsStep(step, V, n) /\ b \in V
  <2>1. b \in V
    OBVIOUS
  <2> HIDE DEF V, b, Next
  <2> QED
    BY <1>1, <2>1 DEF IsStep
<1>3. PICK g : IsFold(g, V, b, n, step)
  <2> HIDE DEF step, V, b
  <2> QED
    BY <1>2, FoldExists
<1>4. g \in [SUBSET (1..n) -> V] /\ g[{}] = b
  BY <1>3 DEF IsFold
<1>5. g = Rec(g)
  <2>1. ASSUME NEW S \in SUBSET (1..n), S # {} PROVE g[S] = Next(g[S \ {Max(S)}], Max(S))
    <3>1. Max(S) \in 1..n /\ S \ {Max(S)} \in SUBSET (1..n)
      BY <2>1, MaxOfPositions
    <3>2. g[S] = step[Max(S)][g[S \ {Max(S)}]]
      BY <1>3, <2>1 DEF IsFold
    <3> HIDE DEF V, b, Next
    <3> QED
      BY <3>1, <3>2, <1>4
  <2> HIDE DEF V, b, Next
  <2> QED
    BY <1>4, <2>1
<1> DEFINE Here(z) == [S \in SUBSET (1..n) |->
                         IF S = {} THEN b
                         ELSE WithNullVector(r, z[S \ {Max(S)}], ColumnList(n)[Max(S)])]
           h == CHOOSE z : z = Here(z)
<1>6. \A z : Here(z) = Rec(z)
  <2>1. \A S \in SUBSET (1..n) : S # {} => Max(S) \in 1..n
    BY MaxOfPositions
  <2> QED
    BY <2>1 DEF ColumnList
<1>7. NullVectors(r, n) = h[1..n]
  <2>1. DOMAIN ColumnList(n) = 1..n
    BY DEF ColumnList
  <2> QED
    BY <2>1 DEF NullVectors, FoldLeft, MapThenFoldSet
<1>8. h = Rec(h)
  <2> HIDE DEF Here, Rec
  <2>1. h = Here(h)
    BY <1>5, <1>6
  <2> QED
    BY <1>6, <2>1
<1> DEFINE f == [i \in 0..n |-> h[1..i]]
<1> HIDE DEF h
<1>9. f[0] = b
  <2>1. 1..0 = {}
    OBVIOUS
  <2> HIDE DEF b, Next
  <2> QED
    BY <2>1, <1>8
<1>10. ASSUME NEW i \in 1..n PROVE f[i] = Next(f[i - 1], i)
  <2>1. Max(1..i) = i /\ 1..i \in SUBSET (1..n) /\ 1..i # {} /\ (1..i) \ {i} = 1..(i - 1)
    BY MaxOfInterval
  <2> HIDE DEF b, Next
  <2>2. h[1..i] = Next(h[(1..i) \ {Max(1..i)}], Max(1..i))
    BY <1>8, <2>1
  <2>3. h[1..i] = Next(h[1..(i - 1)], i)
    BY <2>1, <2>2
  <2>4. i \in 0..n /\ i - 1 \in 0..n
    OBVIOUS
  <2> QED
    BY <2>3, <2>4
<1>11. f[n] = h[1..n]
  OBVIOUS
<1> HIDE DEF f
<1>12. IsNullListing(f, r, n)
  BY <1>9, <1>10 DEF IsNullListing
<1> QED
  BY <1>7, <1>11, <1>12

\* The extension, one candidate at a time.
LEMMA ExtensionByCandidate ==
  ASSUME NEW P, NEW candidates \in Seq(P), NEW base, NEW m
  PROVE  \E f : /\ IsExtension(f, base, candidates, m)
                /\ Extension(base, candidates, m) = f[Len(candidates)]
<1> DEFINE n == Len(candidates)
           V == Seq(P)
           b == <<>>
           Next(s, i) == WithCandidate(base, s, candidates[i], m)
           step == [i \in 1..n |-> [s \in V |-> Next(s, i)]]
           Rec(h) == [S \in SUBSET (1..n) |-> IF S = {} THEN b ELSE Next(h[S \ {Max(S)}], Max(S))]
<1>0. n \in Nat
  OBVIOUS
<1>1. \A i \in 1..n : \A s \in V : Next(s, i) \in V
  <2> SUFFICES ASSUME NEW i \in 1..n, NEW s \in V PROVE Next(s, i) \in V
    OBVIOUS
  <2>1. candidates[i] \in P
    OBVIOUS
  <2>2. Append(s, candidates[i]) \in V
    BY <2>1
  <2> QED
    BY <2>2 DEF WithCandidate
<1>2. IsStep(step, V, n) /\ b \in V
  <2>1. b \in V
    OBVIOUS
  <2> HIDE DEF V, b, Next
  <2> QED
    BY <1>1, <2>1 DEF IsStep
<1>3. PICK g : IsFold(g, V, b, n, step)
  <2> HIDE DEF step, V, b
  <2> QED
    BY <1>2, FoldExists
<1>4. g \in [SUBSET (1..n) -> V] /\ g[{}] = b
  BY <1>3 DEF IsFold
<1>5. g = Rec(g)
  <2>1. ASSUME NEW S \in SUBSET (1..n), S # {} PROVE g[S] = Next(g[S \ {Max(S)}], Max(S))
    <3>1. Max(S) \in 1..n /\ S \ {Max(S)} \in SUBSET (1..n)
      <4> HIDE DEF n
      <4> QED
        BY <1>0, <2>1, MaxOfPositions
    <3>2. g[S] = step[Max(S)][g[S \ {Max(S)}]]
      BY <1>3, <2>1 DEF IsFold
    <3> HIDE DEF V, b, Next
    <3> QED
      BY <3>1, <3>2, <1>4
  <2> HIDE DEF V, b, Next
  <2> QED
    BY <1>4, <2>1
<1> DEFINE Here(z) == [S \in SUBSET (1..n) |->
                         IF S = {} THEN b
                         ELSE CHOOSE y \in {WithCandidate(base, x, candidates[Max(S)], m) : x \in {z[S \ {Max(S)}]}} : TRUE]
           h == CHOOSE z : z = Here(z)
<1>6. \A z : Here(z) = Rec(z)
  <2>1. \A S \in SUBSET (1..n) : S # {} => Max(S) \in 1..n
    BY MaxOfPositions
  <2> QED
    BY <2>1
<1>7. Extension(base, candidates, m) = h[1..n]
  <2>1. DOMAIN candidates = 1..n
    OBVIOUS
  <2> QED
    BY <2>1 DEF Extension, After, FoldLeft, MapThenFoldSet
<1>8. h = Rec(h)
  <2> HIDE DEF Here, Rec
  <2>1. h = Here(h)
    BY <1>5, <1>6
  <2> QED
    BY <1>6, <2>1
<1> DEFINE f == [i \in 0..n |-> h[1..i]]
<1> HIDE DEF h
<1>9. f[0] = b
  <2>1. 1..0 = {}
    OBVIOUS
  <2> HIDE DEF b, Next
  <2> QED
    BY <2>1, <1>8
<1>10. ASSUME NEW i \in 1..n PROVE f[i] = Next(f[i - 1], i)
  <2>1. Max(1..i) = i /\ 1..i \in SUBSET (1..n) /\ 1..i # {} /\ (1..i) \ {i} = 1..(i - 1)
    BY MaxOfInterval
  <2> HIDE DEF b, Next
  <2>2. h[1..i] = Next(h[(1..i) \ {Max(1..i)}], Max(1..i))
    BY <1>8, <2>1
  <2>3. h[1..i] = Next(h[1..(i - 1)], i)
    BY <2>1, <2>2
  <2>4. i \in 0..n /\ i - 1 \in 0..n
    OBVIOUS
  <2> QED
    BY <2>3, <2>4
<1>11. f[n] = h[1..n]
  OBVIOUS
<1> HIDE DEF f
<1>12. IsExtension(f, base, candidates, m)
  BY <1>9, <1>10 DEF IsExtension
<1> QED
  BY <1>7, <1>11, <1>12

\* The null space lists vectors of the kernel, and every null vector is among them.
LEMMA NullspaceFacts ==
  ASSUME NEW n \in Nat, NEW m \in Nat, NEW rows \in [1..n -> SUBSET (0..(m - 1))]
  PROVE  /\ Nullspace(rows, m) \in Seq(KernelOf(rows, n, m))
         /\ \A c \in LooseColumns(Rref(rows, m), m) :
              \E i \in 1..Len(Nullspace(rows, m)) :
                Nullspace(rows, m)[i] = NullRows(Rref(rows, m), m)[c]
<1> DEFINE r == Rref(rows, m)
           K == KernelOf(rows, n, m)
           F == LooseColumns(r, m)
<1>1. PICK f : IsNullListing(f, r, m) /\ NullVectors(r, m) = f[m]
  BY NullVectorsByColumn
<1>2. Echelon(r, n, m)
  BY RrefReduces
<1>3. \A c \in F : NullVector(r, c) \in K
  BY NullVectorFacts
<1> HIDE DEF r
<1>4. \A c \in 0..(m - 1) : Contains(r.pivots, c) <=> c \notin F
  <2>1. Len(r.pivots) = r.rank
    BY <1>2 DEF Echelon
  <2> QED
    BY <2>1 DEF Contains, LooseColumns
<1> DEFINE Has(s, i) == /\ s \in Seq(K)
                        /\ \A c \in F : c < i => \E j \in 1..Len(s) : s[j] = NullVector(r, c)
           T == {i \in 0..m : Has(f[i], i)}
<1>5. 0 \in T
  <2>1. f[0] = <<>> /\ 0 \in 0..m
    BY <1>1 DEF IsNullListing
  <2>2. \A c \in F : ~(c < 0)
    BY DEF LooseColumns
  <2>3. <<>> \in Seq(K)
    OBVIOUS
  <2> HIDE DEF K, F
  <2> QED
    BY <2>1, <2>2, <2>3
<1>6. ASSUME NEW i \in 1..m, i - 1 \in T PROVE i \in T
  <2> DEFINE s == f[i - 1]
             c == i - 1
  <2>1. f[i] = WithNullVector(r, s, c) /\ c \in 0..(m - 1) /\ i \in 0..m /\ Has(s, c)
    BY <1>1, <1>6 DEF IsNullListing
  <2>2. \A d \in F : d < i => d = c \/ d < c
    BY DEF LooseColumns
  <2> HIDE DEF s, F, K
  <2>3. CASE c \notin F
    <3>1. f[i] = s
      BY <1>4, <2>1, <2>3 DEF WithNullVector
    <3>2. Has(s, i)
      <4> HIDE DEF c
      <4> QED
        BY <2>1, <2>2, <2>3
    <3> QED
      BY <2>1, <3>1, <3>2
  <2>4. CASE c \in F
    <3> DEFINE x == NullVector(r, c)
               t == Append(s, x)
    <3>1. f[i] = t
      BY <1>4, <2>1, <2>4 DEF WithNullVector
    <3>2. x \in K /\ s \in Seq(K)
      BY <1>3, <2>1, <2>4
    <3> HIDE DEF x
    <3>3. t \in Seq(K) /\ Len(t) = Len(s) + 1 /\ t[Len(s) + 1] = x
          /\ \A j \in 1..Len(s) : t[j] = s[j]
      BY <3>2
    <3>4. Len(s) \in Nat
      BY <3>2
    <3> HIDE DEF t
    <3>5. ASSUME NEW d \in F, d < i PROVE \E j \in 1..Len(t) : t[j] = NullVector(r, d)
      <4>1. CASE d = c
        <5>1. Len(s) + 1 \in 1..Len(t)
          BY <3>3, <3>4
        <5> QED
          BY <3>3, <4>1, <5>1 DEF x
      <4>2. CASE d # c
        <5>1. PICK j \in 1..Len(s) : s[j] = NullVector(r, d)
          BY <2>1, <2>2, <3>5, <4>2
        <5>2. j \in 1..Len(t)
          BY <3>3, <3>4
        <5> QED
          BY <3>3, <5>1, <5>2
      <4> QED
        BY <4>1, <4>2
    <3>6. Has(t, i)
      BY <3>3, <3>5
    <3> QED
      BY <2>1, <3>1, <3>6
  <2> QED
    BY <2>3, <2>4
<1> HIDE DEF T
<1>7. 0..m \subseteq T
  BY <1>5, <1>6, IntervalInduction
<1>8. Has(f[m], m)
  <2>1. m \in T
    BY <1>7
  <2> QED
    BY <2>1 DEF T
<1>9. \A c \in F : c < m /\ NullRows(r, m)[c] = NullVector(r, c)
  BY DEF LooseColumns, NullRows
<1>10. Nullspace(rows, m) = f[m]
  BY <1>1 DEF Nullspace, r
<1> HIDE DEF F, K
<1>11. /\ Nullspace(rows, m) \in Seq(K)
       /\ \A c \in F : \E i \in 1..Len(Nullspace(rows, m)) : Nullspace(rows, m)[i] = NullRows(r, m)[c]
  BY <1>8, <1>9, <1>10
<1> QED
  BY <1>11 DEF F, K, r

\* Sums over two lists of vectors, one behind the other.
LEMMA JoinedSum ==
  ASSUME NEW W, NEW a \in Nat, NEW b \in Nat,
         NEW f \in [1..a -> SUBSET W], NEW t \in [1..b -> SUBSET W], NEW Q \in SUBSET (1..(a + b))
  PROVE  SumOf(f \o t, Q, W) =
           SymDiff(SumOf(f, Q \cap 1..a, W), SumOf(t, {j \in 1..b : a + j \in Q}, W))
<1> DEFINE g == f \o t
           A == Q \cap 1..a
           B == Q \ 1..a
           J == {j \in 1..b : a + j \in Q}
<1>1. /\ \A i \in 1..a : g[i] = f[i]
      /\ \A j \in 1..b : a + j \in 1..(a + b) /\ g[a + j] = t[j]
  <2> DEFINE S == SUBSET W
  <2>1. f \in [1..a -> S] /\ t \in [1..b -> S]
    OBVIOUS
  <2> HIDE DEF S
  <2>2. f \in Seq(S) /\ Len(f) = a /\ t \in Seq(S) /\ Len(t) = b
    BY <2>1, LengthOfFunction
  <2>3. \A j \in 1..b : a + j \in 1..(a + b) /\ a + j > a /\ (a + j) - a = j
    OBVIOUS
  <2> QED
    BY <2>2, <2>3
<1>2. \A i \in 1..(a + b) : i \notin 1..a => \E j \in 1..b : i = a + j
  <2> SUFFICES ASSUME NEW i \in 1..(a + b), i \notin 1..a PROVE \E j \in 1..b : i = a + j
    OBVIOUS
  <2>1. i - a \in 1..b /\ i = a + (i - a)
    OBVIOUS
  <2> QED
    BY <2>1
<1> HIDE DEF g
<1>3. Q = SymDiff(A, B)
  BY DEF SymDiff
<1>4. IsFiniteSet(A) /\ IsFiniteSet(B)
  <2>1. IsFiniteSet(1..(a + b)) /\ A \in SUBSET (1..(a + b)) /\ B \in SUBSET (1..(a + b))
    BY FirstNumbers
  <2> HIDE DEF A, B
  <2> QED
    BY <2>1, FS_Subset
<1>5. SumOf(g, Q, W) = SymDiff(SumOf(g, A, W), SumOf(g, B, W))
  <2> HIDE DEF A, B
  <2>1. SumOf(g, SymDiff(A, B), W) = SymDiff(SumOf(g, A, W), SumOf(g, B, W))
    BY <1>4, SumLinear
  <2> QED
    BY <1>3, <2>1
<1>6. SumOf(g, A, W) = SumOf(f, A, W)
  <2>1. \A d \in W : {q \in A : d \in g[q]} = {q \in A : d \in f[q]}
    BY <1>1
  <2> QED
    BY <2>1 DEF SumOf
<1>7. SumOf(g, B, W) = SumOf(t, J, W)
  <2> SUFFICES ASSUME NEW d \in W
               PROVE  Odd({q \in B : d \in g[q]}) <=> Odd({j \in J : d \in t[j]})
    BY DEF SumOf
  <2> DEFINE X == {j \in J : d \in t[j]}
             Y == {q \in B : d \in g[q]}
             h == [j \in X |-> a + j]
  <2>1. \A j \in X : h[j] \in Y
    <3> SUFFICES ASSUME NEW j \in X PROVE a + j \in Y
      OBVIOUS
    <3>1. a + j \notin 1..a /\ j \in 1..b
      OBVIOUS
    <3> QED
      BY <1>1, <3>1
  <2>2. \A q \in Y : \E j \in X : h[j] = q
    <3> SUFFICES ASSUME NEW q \in Y PROVE \E j \in X : h[j] = q
      OBVIOUS
    <3>1. PICK j \in 1..b : q = a + j
      BY <1>2
    <3>2. j \in X
      BY <1>1, <3>1
    <3> QED
      BY <3>1, <3>2
  <2>3. \A i, j \in X : h[i] = h[j] => i = j
    OBVIOUS
  <2>4. IsFiniteSet(X)
    <3>1. IsFiniteSet(1..b) /\ X \in SUBSET (1..b)
      BY FirstNumbers
    <3> HIDE DEF X
    <3> QED
      BY <3>1, FS_Subset
  <2>5. h \in [X -> Y]
    BY <2>1
  <2> HIDE DEF X, Y, h
  <2>6. Cardinality(Y) = Cardinality(X)
    BY <2>2, <2>3, <2>4, <2>5, MatchedSets
  <2> QED
    BY <2>6 DEF Odd, X, Y
<1> QED
  BY <1>5, <1>6, <1>7 DEF g

\* What two lists span together.
JointSpan(f, a, t, b, W) ==
  {SymDiff(u, v) : u \in SpanOf(f, 1..a, W), v \in SpanOf(t, 1..b, W)}

\* One list after the other spans what they span together.
LEMMA JoinedSpan ==
  ASSUME NEW W, NEW a \in Nat, NEW b \in Nat,
         NEW f \in [1..a -> SUBSET W], NEW t \in [1..b -> SUBSET W]
  PROVE  SpanOf(f \o t, 1..(a + b), W) = JointSpan(f, a, t, b, W)
<1> DEFINE g == f \o t
           J(Q) == {j \in 1..b : a + j \in Q}
<1>1. \A Q \in SUBSET (1..(a + b)) :
        SumOf(g, Q, W) = SymDiff(SumOf(f, Q \cap 1..a, W), SumOf(t, J(Q), W))
  BY JoinedSum
<1> HIDE DEF g
<1>2. ASSUME NEW Q \in SUBSET (1..(a + b)) PROVE SumOf(g, Q, W) \in JointSpan(f, a, t, b, W)
  <2>1. Q \cap 1..a \in SUBSET (1..a) /\ J(Q) \in SUBSET (1..b)
    OBVIOUS
  <2>2. SumOf(f, Q \cap 1..a, W) \in SpanOf(f, 1..a, W) /\ SumOf(t, J(Q), W) \in SpanOf(t, 1..b, W)
    BY <2>1 DEF SpanOf
  <2> QED
    BY <1>1, <2>2 DEF JointSpan
<1>3. ASSUME NEW A \in SUBSET (1..a), NEW B \in SUBSET (1..b)
      PROVE  SymDiff(SumOf(f, A, W), SumOf(t, B, W)) \in SpanOf(g, 1..(a + b), W)
  <2> DEFINE Q == A \cup {a + j : j \in B}
  <2>1. Q \in SUBSET (1..(a + b))
    <3>1. \A i \in 1..a : i \in 1..(a + b)
      OBVIOUS
    <3>2. \A j \in 1..b : a + j \in 1..(a + b)
      OBVIOUS
    <3> DEFINE S == 1..(a + b)
    <3>3. (\A i \in A : i \in S) /\ \A j \in B : a + j \in S
      BY <3>1, <3>2
    <3> HIDE DEF S
    <3>4. Q \subseteq S
      BY <3>3
    <3> QED
      BY <3>4 DEF S
  <2>2. Q \cap 1..a = A
    <3> DEFINE S == 1..a
               T == {a + j : j \in B}
    <3>1. A \subseteq S
      OBVIOUS
    <3>2. \A j \in 1..b : a + j \notin S
      OBVIOUS
    <3>3. \A j \in B : a + j \notin S
      BY <3>2
    <3> HIDE DEF S
    <3>4. T \cap S = {}
      BY <3>3
    <3> HIDE DEF T
    <3>5. (A \cup T) \cap S = A
      BY <3>1, <3>4
    <3> QED
      BY <3>5 DEF S, T
  <2>3. J(Q) = B
    <3>1. \A j \in 1..b : a + j \notin A
      OBVIOUS
    <3>2. \A j \in 1..b : a + j \in Q <=> j \in B
      BY <3>1
    <3> QED
      BY <3>2
  <2>4. SumOf(g, Q, W) = SymDiff(SumOf(f, A, W), SumOf(t, B, W))
    <3> HIDE DEF Q, J
    <3> QED
      BY <1>1, <2>1, <2>2, <2>3
  <2> HIDE DEF Q
  <2> QED
    BY <2>1, <2>4 DEF SpanOf
<1>4. SpanOf(g, 1..(a + b), W) \subseteq JointSpan(f, a, t, b, W)
  BY <1>2 DEF SpanOf
<1>5. JointSpan(f, a, t, b, W) \subseteq SpanOf(g, 1..(a + b), W)
  <2> SUFFICES ASSUME NEW u \in SpanOf(f, 1..a, W), NEW v \in SpanOf(t, 1..b, W)
               PROVE  SymDiff(u, v) \in SpanOf(g, 1..(a + b), W)
    BY DEF JointSpan
  <2>1. PICK A \in SUBSET (1..a) : u = SumOf(f, A, W)
    BY DEF SpanOf
  <2>2. PICK B \in SUBSET (1..b) : v = SumOf(t, B, W)
    BY DEF SpanOf
  <2> QED
    BY <1>3, <2>1, <2>2
<1> QED
  BY <1>4, <1>5 DEF g

\* The sums over h, which is g and one vector more.
SumsOneMore(h, g, k, v, W) ==
  \A Q \in SUBSET (1..(k + 1)) :
    SumOf(h, Q, W) = IF k + 1 \in Q THEN SymDiff(SumOf(g, Q \cap 1..k, W), v)
                                    ELSE SumOf(g, Q \cap 1..k, W)

\* One vector more: the span grows exactly if the vector was not in it.
LEMMA AppendedSpan ==
  ASSUME NEW W, NEW k \in Nat, NEW g \in [1..k -> SUBSET W], NEW v \in SUBSET W,
         NEW h, \A i \in 1..k : h[i] = g[i], h[k + 1] = v
  PROVE  /\ SpanOf(g, 1..k, W) \subseteq SpanOf(h, 1..(k + 1), W)
         /\ v \in SpanOf(h, 1..(k + 1), W)
         /\ v \in SpanOf(g, 1..k, W) <=> SpanOf(g, 1..k, W) = SpanOf(h, 1..(k + 1), W)
         /\ SumsOneMore(h, g, k, v, W)
<1> DEFINE N == 1..(k + 1)
           G == SpanOf(g, 1..k, W)
           H == SpanOf(h, N, W)
           e == k + 1
<1>1. IsFiniteSet(1..k) /\ IsFiniteSet(N) /\ e \in N /\ e \notin 1..k
      /\ \A i \in N : i = e \/ i \in 1..k
  <2>1. k + 1 \in Nat
    OBVIOUS
  <2> QED
    BY <2>1, FirstNumbers
<1>2. 1..k \subseteq N
  OBVIOUS
<1> HIDE DEF N, e
<1>3. ASSUME NEW Q \in SUBSET N
      PROVE  SumOf(h, Q, W) = IF e \in Q THEN SymDiff(SumOf(g, Q \cap 1..k, W), v)
                                         ELSE SumOf(g, Q \cap 1..k, W)
  <2> DEFINE R == Q \cap 1..k
  <2>1. SumOf(h, R, W) = SumOf(g, R, W)
    <3>1. \A d \in W : {q \in R : d \in h[q]} = {q \in R : d \in g[q]}
      OBVIOUS
    <3> QED
      BY <3>1 DEF SumOf
  <2>2. CASE e \notin Q
    <3>1. Q = R
      BY <1>1, <2>2
    <3> HIDE DEF R
    <3> QED
      BY <2>1, <2>2, <3>1 DEF R
  <2>3. CASE e \in Q
    <3>1. Q = SymDiff(R, {e})
      BY <1>1, <2>3 DEF SymDiff
    <3>2. IsFiniteSet(R) /\ IsFiniteSet({e})
      BY <1>1, FS_Subset, FS_Singleton
    <3>3. SumOf(h, {e}, W) = W \cap h[e] /\ W \cap h[e] = v
      BY SumOfOne DEF e
    <3> HIDE DEF R
    <3>4. SumOf(h, SymDiff(R, {e}), W) = SymDiff(SumOf(h, R, W), SumOf(h, {e}, W))
      BY <3>2, SumLinear
    <3>5. SumOf(h, Q, W) = SymDiff(SumOf(g, R, W), v)
      BY <2>1, <3>1, <3>3, <3>4
    <3> QED
      BY <2>3, <3>5 DEF R
  <2> QED
    BY <2>2, <2>3
<1>4. G \subseteq H
  <2> SUFFICES ASSUME NEW Q \in SUBSET (1..k) PROVE SumOf(g, Q, W) \in H
    BY DEF SpanOf
  <2>1. Q \in SUBSET N /\ e \notin Q /\ Q \cap 1..k = Q
    BY <1>1, <1>2
  <2>2. SumOf(h, Q, W) = SumOf(g, Q, W)
    BY <1>3, <2>1
  <2> QED
    BY <2>1, <2>2 DEF SpanOf
<1>5. v \in H
  <2>1. W \cap h[e] \in H
    BY <1>1, SpanIsSpace
  <2>2. W \cap h[e] = v
    BY DEF e
  <2> QED
    BY <2>1, <2>2
<1>6. ASSUME v \in G PROVE H \subseteq G
  <2> SUFFICES ASSUME NEW Q \in SUBSET N PROVE SumOf(h, Q, W) \in G
    BY DEF SpanOf
  <2> DEFINE R == Q \cap 1..k
             u == SumOf(g, R, W)
  <2>1. u \in G
    <3>1. R \in SUBSET (1..k)
      OBVIOUS
    <3> QED
      BY <3>1 DEF SpanOf
  <2>2. SymDiff(u, v) \in G
    <3> HIDE DEF u
    <3> QED
      BY <1>1, <1>6, <2>1, SpanIsSpace
  <2> QED
    BY <1>3, <2>1, <2>2
<1>7. v \in G <=> G = H
  BY <1>4, <1>5, <1>6
<1>8. SumsOneMore(h, g, k, v, W)
  BY <1>3 DEF SumsOneMore, N, e
<1> QED
  BY <1>4, <1>5, <1>7, <1>8 DEF N, e

\* What the extension has found is independent of the base.
ApartFrom(base, n, found, W) ==
  \A Q \in SUBSET (1..Len(found)) :
    SumOf(found, Q, W) \in SpanOf(base, 1..n, W) => Q = {}

\* One candidate of the extension.
LEMMA ExtendedStep ==
  ASSUME NEW n \in Nat, NEW m \in Nat, NEW base \in [1..n -> SUBSET (0..(m - 1))],
         NEW s \in Seq(SUBSET (0..(m - 1))), NEW v \in SUBSET (0..(m - 1)),
         ApartFrom(base, n, s, 0..(m - 1))
  PROVE  LET x == WithCandidate(base, s, v, m)
             W == 0..(m - 1)
         IN  /\ x = s \/ x = Append(s, v)
             /\ ApartFrom(base, n, x, W)
             /\ v \in JointSpan(base, n, x, Len(x), W)
             /\ JointSpan(base, n, s, Len(s), W) \subseteq JointSpan(base, n, x, Len(x), W)
<1> DEFINE W == 0..(m - 1)
           S == SUBSET W
           k == Len(s)
           g == base \o s
           t == Append(s, v)
           h == base \o t
<1>0. base \in [1..n -> S] /\ s \in Seq(S) /\ v \in S
  OBVIOUS
<1> HIDE DEF S
<1>1. base \in Seq(S) /\ Len(base) = n
  BY <1>0, LengthOfFunction
<1>2. k \in Nat /\ s \in [1..k -> S]
  BY <1>0
<1>3. /\ t \in Seq(S) /\ Len(t) = k + 1 /\ t \in [1..(k + 1) -> S]
      /\ t[k + 1] = v /\ \A i \in 1..k : t[i] = s[i]
  <2>1. /\ t \in Seq(S) /\ Len(t) = k + 1
        /\ t[k + 1] = v /\ \A i \in 1..k : t[i] = s[i]
    BY <1>0, <1>2
  <2> HIDE DEF t, k
  <2>2. t \in [1..Len(t) -> S]
    BY <2>1
  <2> QED
    BY <2>1, <2>2
<1>4. g \in Seq(S) /\ Len(g) = n + k
  BY <1>0, <1>1
<1>5. h \in Seq(S) /\ Len(h) = (n + k) + 1
  <2> HIDE DEF t
  <2>1. h \in Seq(S) /\ Len(h) = n + (k + 1)
    BY <1>1, <1>3
  <2> QED
    BY <1>2, <2>1
<1>6. (\A i \in 1..(n + k) : h[i] = g[i]) /\ h[(n + k) + 1] = v
  <2>1. \A i \in 1..(n + k) : h[i] = g[i]
    <3> SUFFICES ASSUME NEW i \in 1..(n + k) PROVE h[i] = g[i]
      OBVIOUS
    <3>1. CASE i <= n
      <4> HIDE DEF t
      <4> QED
        BY <1>0, <1>1, <1>2, <1>3, <3>1
    <3>2. CASE i > n
      <4>1. i - n \in 1..k
        BY <1>2, <3>2
      <4> HIDE DEF t
      <4>2. h[i] = t[i - n] /\ g[i] = s[i - n]
        <5> DEFINE z == t
                   l == k + 1
        <5>1. z \in Seq(S) /\ Len(z) = l /\ l \in Nat
          BY <1>2, <1>3
        <5>2. i \in 1..(n + k) /\ i \in 1..(n + l) /\ n \in Nat
          BY <1>2
        <5> HIDE DEF z, k, l
        <5>3. (base \o z)[i] = z[i - n]
          BY <1>1, <1>2, <3>2, <5>1, <5>2
        <5>4. (base \o s)[i] = s[i - n]
          BY <1>0, <1>1, <1>2, <3>2, <5>2 DEF k
        <5> QED
          BY <5>3, <5>4 DEF z
      <4> QED
        BY <1>3, <4>1, <4>2
    <3> QED
      BY <3>1, <3>2
  <2>2. h[(n + k) + 1] = v
    <3> HIDE DEF t
    <3>1. (n + k) + 1 > n /\ ((n + k) + 1) - n = k + 1 /\ (n + k) + 1 \in 1..(n + (k + 1))
      BY <1>2
    <3>2. h[(n + k) + 1] = t[k + 1]
      BY <1>1, <1>2, <1>3, <3>1
    <3> QED
      BY <1>3, <3>2
  <2> QED
    BY <2>1, <2>2
<1>7. g \in [1..(n + k) -> S] /\ h \in [1..((n + k) + 1) -> S] /\ n + k \in Nat /\ (n + k) + 1 \in Nat
  <2> HIDE DEF g, h
  <2> QED
    BY <1>2, <1>4, <1>5
<1> DEFINE G == SpanOf(g, 1..(n + k), W)
           H == SpanOf(h, 1..((n + k) + 1), W)
<1>8. G \subseteq H /\ v \in H /\ (v \in G <=> G = H)
  <2> DEFINE j == n + k
  <2>1. j \in Nat /\ g \in [1..j -> SUBSET W] /\ v \in SUBSET W
        /\ (\A i \in 1..j : h[i] = g[i]) /\ h[j + 1] = v
    BY <1>0, <1>6, <1>7 DEF S
  <2> HIDE DEF g, h, W, j
  <2>2. /\ SpanOf(g, 1..j, W) \subseteq SpanOf(h, 1..(j + 1), W)
        /\ v \in SpanOf(h, 1..(j + 1), W)
        /\ v \in SpanOf(g, 1..j, W) <=> SpanOf(g, 1..j, W) = SpanOf(h, 1..(j + 1), W)
    BY <2>1, AppendedSpan
  <2> QED
    BY <2>2 DEF j
<1>9. Rank2(h, m) > Rank2(g, m) <=> G # H
  <2> DEFINE j == n + k
             l == (n + k) + 1
  <2>1. j \in Nat /\ l \in Nat /\ g \in [1..j -> SUBSET (0..(m - 1))] /\ h \in [1..l -> SUBSET (0..(m - 1))]
    BY <1>7 DEF S
  <2>2. SpanOf(g, 1..j, 0..(m - 1)) \subseteq SpanOf(h, 1..l, 0..(m - 1))
    BY <1>8
  <2> HIDE DEF g, h, j, l
  <2>3. Rank2(h, m) > Rank2(g, m) <=> SpanOf(g, 1..j, 0..(m - 1)) # SpanOf(h, 1..l, 0..(m - 1))
    BY <2>1, <2>2, RanksCompare
  <2> QED
    BY <2>3 DEF j, l
<1>10. G = JointSpan(base, n, s, k, W)
  <2> HIDE DEF W, k
  <2> QED
    BY <1>0, <1>2, JoinedSpan DEF S
<1>11. H = JointSpan(base, n, t, k + 1, W)
  <2>1. k + 1 \in Nat /\ n + (k + 1) = (n + k) + 1
    BY <1>2
  <2> HIDE DEF W, k, t
  <2>2. SpanOf(base \o t, 1..(n + (k + 1)), W) = JointSpan(base, n, t, k + 1, W)
    BY <1>0, <1>3, <2>1, JoinedSpan DEF S
  <2> QED
    BY <2>1, <2>2
<1>12. CASE G = H
  <2>1. WithCandidate(base, s, v, m) = s
    BY <1>9, <1>12 DEF WithCandidate
  <2> QED
    BY <1>8, <1>10, <1>12, <2>1
<1>13. CASE G # H
  <2>1. WithCandidate(base, s, v, m) = t
    BY <1>9, <1>13 DEF WithCandidate
  <2>2. ASSUME NEW Q \in SUBSET (1..Len(t)), SumOf(t, Q, W) \in SpanOf(base, 1..n, W) PROVE Q = {}
    <3> DEFINE R == Q \cap 1..k
               u == SumOf(s, R, W)
    <3>1. Q \in SUBSET (1..(k + 1)) /\ R \in SUBSET (1..k)
      BY <1>3
    <3>2. SumOf(t, Q, W) = IF k + 1 \in Q THEN SymDiff(u, v) ELSE u
      <4>1. k \in Nat /\ s \in [1..k -> SUBSET W] /\ v \in SUBSET W
            /\ (\A i \in 1..k : t[i] = s[i]) /\ t[k + 1] = v
        BY <1>0, <1>2, <1>3 DEF S
      <4> HIDE DEF t, k, W
      <4>2. SumsOneMore(t, s, k, v, W)
        BY <4>1, AppendedSpan
      <4> QED
        BY <3>1, <4>2 DEF SumsOneMore
    <3>3. u \in SpanOf(s, 1..k, W)
      BY <3>1 DEF SpanOf
    <3>4. CASE k + 1 \in Q
      <4> DEFINE b == SumOf(t, Q, W)
      <4>1. b = SymDiff(u, v) /\ b \in SpanOf(base, 1..n, W)
        BY <2>2, <3>2, <3>4
      <4>2. v = SymDiff(b, u)
        <5> HIDE DEF b, u
        <5> QED
          BY <4>1 DEF SymDiff
      <4>3. v \in JointSpan(base, n, s, k, W)
        <5> HIDE DEF b, u
        <5> QED
          BY <3>3, <4>1, <4>2 DEF JointSpan
      <4> QED
        BY <1>8, <1>10, <1>13, <4>3
    <3>5. CASE k + 1 \notin Q
      <4>1. u \in SpanOf(base, 1..n, W)
        BY <2>2, <3>2, <3>5
      <4>2. R = {}
        BY <3>1, <4>1 DEF ApartFrom
      <4>3. \A i \in 1..(k + 1) : i = k + 1 \/ i \in 1..k
        BY <1>2
      <4> QED
        BY <3>1, <3>5, <4>2, <4>3
    <3> QED
      BY <3>4, <3>5
  <2>3. ApartFrom(base, n, t, W)
    BY <2>2 DEF ApartFrom
  <2> QED
    BY <1>3, <1>8, <1>10, <1>11, <2>1, <2>3
<1> QED
  BY <1>12, <1>13

\* Everything the extension was offered is spanned, and what it took is independent.
LEMMA ExtensionFacts ==
  ASSUME NEW n \in Nat, NEW m \in Nat, NEW base \in [1..n -> SUBSET (0..(m - 1))],
         NEW P \in SUBSET (SUBSET (0..(m - 1))), NEW candidates \in Seq(P)
  PROVE  LET x == Extension(base, candidates, m)
             W == 0..(m - 1)
         IN  /\ x \in Seq(P)
             /\ ApartFrom(base, n, x, W)
             /\ \A j \in 1..Len(candidates) : candidates[j] \in JointSpan(base, n, x, Len(x), W)
<1> DEFINE W == 0..(m - 1)
           l == Len(candidates)
           Has(s, i) == /\ s \in Seq(P)
                        /\ ApartFrom(base, n, s, W)
                        /\ \A j \in 1..i : candidates[j] \in JointSpan(base, n, s, Len(s), W)
<1>1. PICK f : IsExtension(f, base, candidates, m) /\ Extension(base, candidates, m) = f[l]
  BY ExtensionByCandidate
<1> DEFINE T == {i \in 0..l : Has(f[i], i)}
<1>2. l \in Nat /\ \A i \in 1..l : candidates[i] \in P
  OBVIOUS
<1> HIDE DEF l
<1>3. 0 \in T
  <2>1. f[0] = <<>> /\ 0 \in 0..l
    BY <1>1, <1>2 DEF IsExtension
  <2>2. ApartFrom(base, n, <<>>, W)
    BY DEF ApartFrom
  <2>3. <<>> \in Seq(P) /\ \A j \in 1..0 : FALSE
    OBVIOUS
  <2> QED
    BY <2>1, <2>2, <2>3
<1>4. ASSUME NEW i \in 1..l, i - 1 \in T PROVE i \in T
  <2> DEFINE s == f[i - 1]
             v == candidates[i]
  <2>1. f[i] = WithCandidate(base, s, v, m) /\ Has(s, i - 1) /\ i \in 0..l /\ v \in P
    BY <1>1, <1>2, <1>4 DEF IsExtension, l
  <2>2. s \in Seq(SUBSET W) /\ v \in SUBSET W
    <3>1. \A z \in Seq(P) : z \in Seq(SUBSET W)
      <4> TAKE z \in Seq(P)
      <4>1. \A j \in 1..Len(z) : z[j] \in P
        OBVIOUS
      <4>2. \A j \in 1..Len(z) : z[j] \in SUBSET W
        BY <4>1
      <4> HIDE DEF W
      <4> QED
        BY <4>2
    <3> HIDE DEF s
    <3> QED
      BY <2>1, <3>1
  <2> HIDE DEF s
  <2>3. /\ (f[i] = s \/ f[i] = Append(s, v))
        /\ ApartFrom(base, n, f[i], W)
        /\ v \in JointSpan(base, n, f[i], Len(f[i]), W)
        /\ JointSpan(base, n, s, Len(s), W) \subseteq JointSpan(base, n, f[i], Len(f[i]), W)
    <3>1. ApartFrom(base, n, s, W)
      BY <2>1
    <3> HIDE DEF v
    <3>2. LET x == WithCandidate(base, s, v, m)
          IN  /\ x = s \/ x = Append(s, v)
              /\ ApartFrom(base, n, x, W)
              /\ v \in JointSpan(base, n, x, Len(x), W)
              /\ JointSpan(base, n, s, Len(s), W) \subseteq JointSpan(base, n, x, Len(x), W)
      BY <2>2, <3>1, ExtendedStep
    <3> QED
      BY <2>1, <3>2
  <2>4. f[i] \in Seq(P)
    <3>1. s \in Seq(P) /\ v \in P
      BY <2>1
    <3> HIDE DEF v
    <3>2. Append(s, v) \in Seq(P)
      BY <3>1
    <3> QED
      BY <2>3, <3>1, <3>2
  <2>5. ASSUME NEW j \in 1..i PROVE candidates[j] \in JointSpan(base, n, f[i], Len(f[i]), W)
    <3>1. CASE j = i
      BY <2>3, <3>1
    <3>2. CASE j # i
      <4>1. j \in 1..(i - 1)
        BY <3>2
      <4>2. candidates[j] \in JointSpan(base, n, s, Len(s), W)
        BY <2>1, <4>1
      <4> QED
        BY <2>3, <4>2
    <3> QED
      BY <3>1, <3>2
  <2> QED
    BY <2>1, <2>3, <2>4, <2>5
<1> HIDE DEF T
<1>5. 0..l \subseteq T
  BY <1>2, <1>3, <1>4, IntervalInduction
<1>6. l \in T
  BY <1>2, <1>5
<1>7. Has(f[l], l)
  BY <1>6 DEF T
<1> QED
  BY <1>1, <1>7 DEF l

\* A basis of the rows of as many vectors as the rank.
LEMMA RankBasis ==
  ASSUME NEW n \in Nat, NEW m \in Nat, NEW rows \in [1..n -> SUBSET (0..(m - 1))]
  PROVE  /\ Rank2(rows, m) \in Nat
         /\ \E f \in [1..Rank2(rows, m) -> SUBSET (0..(m - 1))] :
              /\ LinearlyIndependent(f, 1..Rank2(rows, m), 0..(m - 1))
              /\ SpanOf(f, 1..Rank2(rows, m), 0..(m - 1)) = SpanOf(rows, 1..n, 0..(m - 1))
<1> DEFINE r == Rref(rows, m)
           k == Rank2(rows, m)
           W == 0..(m - 1)
           f == [i \in 1..k |-> r.rows[i]]
<1>1. RowsKept(r, rows, n, W) /\ Echelon(r, n, m)
  BY RrefReduces
<1>2. k = r.rank
  BY DEF Rank2
<1>3. LinearlyIndependent(r.rows, 1..k, W) /\ SpanOf(r.rows, 1..k, W) = SpanOf(rows, 1..n, W)
  BY <1>2, RrefBasis
<1> HIDE DEF r, k
<1>4. k \in Nat /\ k <= n /\ r.rows \in [1..n -> SUBSET W]
  BY <1>1, <1>2 DEF Echelon, RowsKept
<1>5. f \in [1..k -> SUBSET W]
  BY <1>4
<1>6. \A Q \in SUBSET (1..k) : SumOf(f, Q, W) = SumOf(r.rows, Q, W)
  <2> SUFFICES ASSUME NEW Q \in SUBSET (1..k) PROVE SumOf(f, Q, W) = SumOf(r.rows, Q, W)
    OBVIOUS
  <2>1. \A d \in W : {q \in Q : d \in f[q]} = {q \in Q : d \in r.rows[q]}
    OBVIOUS
  <2> QED
    BY <2>1 DEF SumOf
<1> HIDE DEF f
<1>7. LinearlyIndependent(f, 1..k, W) /\ SpanOf(f, 1..k, W) = SpanOf(rows, 1..n, W)
  BY <1>3, <1>6 DEF LinearlyIndependent, SpanOf
<1> QED
  BY <1>4, <1>5, <1>7 DEF k

\* LinearlyIndependent vectors, and vectors independent of them, are independent together.
LEMMA JoinedIndependent ==
  ASSUME NEW W, NEW a \in Nat, NEW b \in Nat,
         NEW f \in [1..a -> SUBSET W], NEW t \in [1..b -> SUBSET W],
         LinearlyIndependent(f, 1..a, W),
         \A Q \in SUBSET (1..b) : SumOf(t, Q, W) \in SpanOf(f, 1..a, W) => Q = {}
  PROVE  LinearlyIndependent(f \o t, 1..(a + b), W)
<1> SUFFICES ASSUME NEW Q \in SUBSET (1..(a + b)), SumOf(f \o t, Q, W) = {} PROVE Q = {}
  BY DEF LinearlyIndependent
<1> DEFINE A == Q \cap 1..a
           B == {j \in 1..b : a + j \in Q}
           u == SumOf(f, A, W)
           v == SumOf(t, B, W)
<1>1. SymDiff(u, v) = {}
  BY JoinedSum
<1>2. u = v
  <2> HIDE DEF u, v
  <2> QED
    BY <1>1 DEF SymDiff
<1>3. A \in SUBSET (1..a) /\ B \in SUBSET (1..b)
  OBVIOUS
<1>4. u \in SpanOf(f, 1..a, W)
  <2> HIDE DEF A
  <2> QED
    BY <1>3 DEF SpanOf
<1>5. B = {}
  <2> HIDE DEF B, u
  <2> QED
    BY <1>2, <1>3, <1>4
<1>6. v = {}
  BY <1>5, SumOfNone
<1>7. A = {}
  <2> HIDE DEF A, v
  <2> QED
    BY <1>2, <1>3, <1>6 DEF LinearlyIndependent
<1>8. \A i \in 1..(a + b) : i \notin 1..a => i - a \in 1..b /\ a + (i - a) = i
  OBVIOUS
<1>9. ASSUME NEW i \in Q PROVE FALSE
  <2>1. i \notin 1..a
    BY <1>7
  <2>2. i - a \in B
    BY <1>8, <2>1
  <2> QED
    BY <1>5, <2>2
<1> QED
  BY <1>9

\* A basis of the vectors without a check syndrome, up to stabilizers.
IsQuotient(found, check, stabilizer, n, m) ==
  /\ found \in Seq(KernelOf(check, n, m))
  /\ ApartFrom(stabilizer, n, found, 0..(m - 1))
  /\ KernelOf(check, n, m) = JointSpan(stabilizer, n, found, Len(found), 0..(m - 1))
  /\ Len(found) = m - Rank2(check, m) - Rank2(stabilizer, m)

\* QuotientBasis finds such a basis when the stabilizers have no check syndrome.
LEMMA QuotientFacts ==
  ASSUME NEW n \in Nat, NEW m \in Nat,
         NEW check \in [1..n -> SUBSET (0..(m - 1))],
         NEW stabilizer \in [1..n -> SUBSET (0..(m - 1))],
         \A i, j \in 1..n : ~OverlapOdd(stabilizer[j], check[i])
  PROVE  IsQuotient(QuotientBasis(check, stabilizer, m), check, stabilizer, n, m)
<1> DEFINE W == 0..(m - 1)
           S == SUBSET W
           K == KernelOf(check, n, m)
           candidates == Nullspace(check, m)
           x == Extension(stabilizer, candidates, m)
           k == Len(x)
           F == LooseColumns(Rref(check, m), m)
           L == NullRows(Rref(check, m), m)
           Both == JointSpan(stabilizer, n, x, k, W)
<1>1. /\ K \in SUBSET S /\ {} \in K /\ \A u, v \in K : SymDiff(u, v) \in K
  BY KernelOfSpan DEF KernelOf
<1>2. /\ candidates \in Seq(K)
      /\ \A c \in F : \E i \in 1..Len(candidates) : candidates[i] = L[c]
  BY NullspaceFacts
<1>3. /\ x \in Seq(K)
      /\ ApartFrom(stabilizer, n, x, W)
      /\ \A j \in 1..Len(candidates) : candidates[j] \in Both
  <2> HIDE DEF K, candidates
  <2> QED
    BY <1>1, <1>2, ExtensionFacts
<1>4. /\ IsFiniteSet(F) /\ LinearlyIndependent(L, F, W) /\ SpanOf(L, F, W) = K
      /\ Cardinality(F) = m - Rank2(check, m)
  BY KernelBasis
<1>5. k \in Nat /\ x \in [1..k -> S] /\ \A i \in 1..k : x[i] \in K
  <2> HIDE DEF x, S, K
  <2>1. k \in Nat /\ \A i \in 1..k : x[i] \in K
    BY <1>3
  <2>2. x \in [1..k -> S]
    BY <1>1, <1>3, <2>1
  <2> QED
    BY <2>1, <2>2
<1> HIDE DEF x, candidates, F, L
<1>6. Both = SpanOf(stabilizer \o x, 1..(n + k), W)
  <2> HIDE DEF k
  <2> QED
    BY <1>5, JoinedSpan
<1>7. {} \in Both /\ (\A u, v \in Both : SymDiff(u, v) \in Both) /\ Both \subseteq S
  <2>1. IsFiniteSet(1..(n + k))
    BY <1>5, FirstNumbers
  <2> HIDE DEF Both
  <2> QED
    BY <1>6, <2>1, SpanIsSpace
<1>8. K \subseteq Both
  <2>1. \A c \in F : L[c] \in Both
    BY <1>2, <1>3
  <2> HIDE DEF Both, W, K
  <2>2. SpanOf(L, F, W) \subseteq Both
    BY <1>4, <1>7, <2>1, SpanWithin
  <2> QED
    BY <1>4, <2>2
<1>9. Both \subseteq K
  <2>1. \A j \in 1..n : stabilizer[j] \in K
    <3> SUFFICES ASSUME NEW j \in 1..n, NEW i \in 1..n PROVE ~OverlapOdd(stabilizer[j], check[i])
      BY DEF KernelOf
    <3> QED
      OBVIOUS
  <2>2. IsFiniteSet(1..n) /\ IsFiniteSet(1..k)
    BY <1>5, FirstNumbers
  <2> HIDE DEF W, K, k
  <2>3. SpanOf(stabilizer, 1..n, W) \subseteq K
    BY <1>1, <2>1, <2>2, SpanWithin
  <2>4. SpanOf(x, 1..k, W) \subseteq K
    BY <1>1, <1>5, <2>2, SpanWithin
  <2> QED
    BY <1>1, <2>3, <2>4 DEF JointSpan
<1> DEFINE a == Rank2(stabilizer, m)
<1>10. PICK f \in [1..a -> S] : LinearlyIndependent(f, 1..a, W)
                                /\ SpanOf(f, 1..a, W) = SpanOf(stabilizer, 1..n, W)
  BY RankBasis
<1>11. a \in Nat
  BY RankBasis
<1> HIDE DEF a
<1>12. SpanOf(f \o x, 1..(a + k), W) = K
  <2>1. JointSpan(f, a, x, k, W) = Both
    BY <1>10 DEF JointSpan
  <2>2. SpanOf(f \o x, 1..(a + k), W) = JointSpan(f, a, x, k, W)
    <3> HIDE DEF k, W
    <3> QED
      BY <1>5, <1>10, <1>11, JoinedSpan
  <2> HIDE DEF Both, K
  <2> QED
    BY <1>8, <1>9, <2>1, <2>2
<1>13. LinearlyIndependent(f \o x, 1..(a + k), W)
  <2>1. \A Q \in SUBSET (1..k) : SumOf(x, Q, W) \in SpanOf(f, 1..a, W) => Q = {}
    BY <1>3, <1>10 DEF ApartFrom
  <2> HIDE DEF k, W
  <2> QED
    BY <1>5, <1>10, <1>11, <2>1, JoinedIndependent
<1>14. Cardinality(F) = a + k
  <2>1. a + k \in Nat
    BY <1>5, <1>11
  <2> DEFINE j == a + k
  <2>2. IsFiniteSet(1..j) /\ Cardinality(1..j) = j
    BY <2>1, FirstNumbers
  <2>3. SpanOf(f \o x, 1..j, W) = SpanOf(L, F, W) /\ LinearlyIndependent(f \o x, 1..j, W)
    BY <1>4, <1>12, <1>13
  <2> HIDE DEF j, W, k
  <2>4. Cardinality(1..j) = Cardinality(F)
    BY <1>4, <2>2, <2>3, SpansCompare
  <2> QED
    BY <2>2, <2>4 DEF j
<1>15. k = m - Rank2(check, m) - a
  <2>1. Rank2(check, m) \in Nat
    BY RankBasis
  <2> HIDE DEF k
  <2> QED
    BY <1>4, <1>5, <1>11, <1>14, <2>1
<1>16. QuotientBasis(check, stabilizer, m) = x
  BY DEF QuotientBasis, x, candidates
<1> QED
  BY <1>3, <1>8, <1>9, <1>15, <1>16 DEF IsQuotient, a

-----------------------------------------------------------------------------
(* The pairing of the logical operators and its inverse.                   *)

\* A sum of vectors on the columns is the sum seen on them.
LEMMA AddedIsSum ==
  ASSUME NEW f, NEW Q, NEW W, \A q \in Q : f[q] \subseteq W
  PROVE  Added(f, Q) = SumOf(f, Q, W)
<1>1. Added(f, Q) \subseteq SumOf(f, Q, W)
  BY DEF Added, SumOf
<1>2. ASSUME NEW c \in SumOf(f, Q, W) PROVE c \in Added(f, Q)
  <2>1. Odd({q \in Q : c \in f[q]})
    BY DEF SumOf
  <2>2. {q \in Q : c \in f[q]} # {}
    BY <2>1, OddSmall
  <2>3. c \in UNION {f[q] : q \in Q}
    BY <2>2
  <2> QED
    BY <2>1, <2>3 DEF Added
<1> QED
  BY <1>1, <1>2

\* Which vectors of lz every vector of found meets oddly, numbered from zero.
PairingOf(found, lz) ==
  [i \in DOMAIN found |-> {j - 1 : j \in {q \in DOMAIN lz : OverlapOdd(found[i], lz[q])}}]

\* What a sum of vectors of found meets oddly is the sum of what they meet.
LEMMA PairingOfSum ==
  ASSUME NEW W, NEW k \in Nat, IsFiniteSet(W),
         NEW found \in [1..k -> SUBSET W], NEW lz \in [1..k -> SUBSET W],
         NEW Q \in SUBSET (1..k), NEW j \in 1..k
  PROVE  OverlapOdd(SumOf(found, Q, W), lz[j]) <=> j - 1 \in SumOf(PairingOf(found, lz), Q, 0..(k - 1))
<1> DEFINE P == PairingOf(found, lz)
<1>1. IsFiniteSet(1..k) /\ IsFiniteSet(lz[j])
  BY FirstNumbers, FS_Subset
<1>2. OverlapOdd(SumOf(found, Q, W), lz[j]) <=> Odd({q \in Q : OverlapOdd(found[q], lz[j])})
  BY <1>1, ParityOfSum
<1>3. ASSUME NEW q \in Q PROVE OverlapOdd(found[q], lz[j]) <=> j - 1 \in P[q]
  <2>1. DOMAIN found = 1..k /\ DOMAIN lz = 1..k
    OBVIOUS
  <2>2. P[q] = {i - 1 : i \in {l \in 1..k : OverlapOdd(found[q], lz[l])}}
    BY <2>1 DEF PairingOf
  <2>3. \A i \in 1..k : i - 1 = j - 1 => i = j
    OBVIOUS
  <2> QED
    BY <2>2, <2>3
<1>4. {q \in Q : OverlapOdd(found[q], lz[j])} = {q \in Q : j - 1 \in P[q]}
  BY <1>3
<1>5. j - 1 \in 0..(k - 1)
  OBVIOUS
<1> HIDE DEF P
<1>6. j - 1 \in SumOf(P, Q, 0..(k - 1)) <=> Odd({q \in Q : j - 1 \in P[q]})
  BY <1>5 DEF SumOf
<1> QED
  BY <1>2, <1>4, <1>6 DEF P

\* What meets rows and found evenly meets evenly what they span together.
LEMMA PerpOfTogether ==
  ASSUME NEW n \in Nat, NEW m \in Nat, NEW k \in Nat,
         NEW rows \in [1..n -> SUBSET (0..(m - 1))], NEW found \in [1..k -> SUBSET (0..(m - 1))],
         NEW v \in KernelOf(rows, n, m), v \in KernelOf(found, k, m)
  PROVE  \A u \in JointSpan(rows, n, found, k, 0..(m - 1)) : ~OverlapOdd(v, u)
<1> DEFINE W == 0..(m - 1)
<1>1. v \in SUBSET W /\ IsFiniteSet(v)
  BY ColumnsFinite DEF KernelOf
<1>2. \A a \in SpanOf(rows, 1..n, W) : ~OverlapOdd(v, a)
  <2>1. v \in Perp(SpanOf(rows, 1..n, W), m)
    BY KernelOfSpan
  <2> QED
    BY <2>1 DEF Perp
<1>3. \A b \in SpanOf(found, 1..k, W) : ~OverlapOdd(v, b)
  <2>1. v \in Perp(SpanOf(found, 1..k, W), m)
    BY KernelOfSpan
  <2> QED
    BY <2>1 DEF Perp
<1>4. ASSUME NEW a \in SpanOf(rows, 1..n, W), NEW b \in SpanOf(found, 1..k, W)
      PROVE  ~OverlapOdd(v, SymDiff(a, b))
  BY <1>1, <1>2, <1>3, OverlapLinear
<1> QED
  BY <1>4 DEF JointSpan

\* The two quotient bases of a code.
IsBases(found, lz, hx, hz, n, m, k) ==
  /\ hx \in [1..n -> SUBSET (0..(m - 1))] /\ hz \in [1..n -> SUBSET (0..(m - 1))]
  /\ \A i, j \in 1..n : ~OverlapOdd(hx[i], hz[j])
  /\ k \in Nat
  /\ found \in [1..k -> KernelOf(hz, n, m)] /\ lz \in [1..k -> KernelOf(hx, n, m)]
  /\ \A Q \in SUBSET (1..k) :
       SumOf(found, Q, 0..(m - 1)) \in SpanOf(hx, 1..n, 0..(m - 1)) => Q = {}
  /\ KernelOf(hz, n, m) = JointSpan(hx, n, found, k, 0..(m - 1))
  /\ KernelOf(hx, n, m) = JointSpan(hz, n, lz, k, 0..(m - 1))

\* The pairing has no dependent rows: a sum of X logicals that meets every Z logical
\* evenly is a stabilizer.
LEMMA PairingIndependent ==
  ASSUME NEW n \in Nat, NEW m \in Nat, NEW k, NEW found, NEW lz, NEW hx, NEW hz,
         IsBases(found, lz, hx, hz, n, m, k)
  PROVE  LinearlyIndependent(PairingOf(found, lz), 1..k, 0..(k - 1))
<1> DEFINE W == 0..(m - 1)
           P == PairingOf(found, lz)
<1> SUFFICES ASSUME NEW Q \in SUBSET (1..k), SumOf(P, Q, 0..(k - 1)) = {} PROVE Q = {}
  BY DEF LinearlyIndependent
<1> DEFINE u == SumOf(found, Q, W)
<1>1. /\ hx \in [1..n -> SUBSET W] /\ hz \in [1..n -> SUBSET W] /\ k \in Nat
      /\ found \in [1..k -> KernelOf(hz, n, m)] /\ lz \in [1..k -> KernelOf(hx, n, m)]
  BY DEF IsBases
<1>2. found \in [1..k -> SUBSET W] /\ lz \in [1..k -> SUBSET W]
  <2>1. KernelOf(hz, n, m) \subseteq SUBSET W /\ KernelOf(hx, n, m) \subseteq SUBSET W
    BY DEF KernelOf
  <2> HIDE DEF W
  <2> QED
    BY <1>1, <2>1
<1>3. IsFiniteSet(W) /\ IsFiniteSet(1..k)
  BY <1>1, ColumnsFinite, FirstNumbers
<1>4. u \in KernelOf(hz, n, m)
  <2> DEFINE K == KernelOf(hz, n, m)
  <2>1. K \subseteq SUBSET W /\ {} \in K /\ \A a, b \in K : SymDiff(a, b) \in K
    BY <1>1, KernelOfSpan DEF KernelOf
  <2>2. \A q \in 1..k : found[q] \in K
    BY <1>1
  <2> HIDE DEF K, W
  <2>3. SpanOf(found, 1..k, W) \subseteq K
    BY <1>3, <2>1, <2>2, SpanWithin
  <2>4. u \in SpanOf(found, 1..k, W)
    BY DEF SpanOf
  <2> QED
    BY <2>3, <2>4 DEF K
<1>5. u \in KernelOf(lz, k, m)
  <2>1. u \in SUBSET W
    BY DEF SumOf
  <2>2. ASSUME NEW j \in 1..k PROVE ~OverlapOdd(u, lz[j])
    <3> HIDE DEF W
    <3>1. OverlapOdd(SumOf(found, Q, W), lz[j]) <=> j - 1 \in SumOf(PairingOf(found, lz), Q, 0..(k - 1))
      BY <1>1, <1>2, <1>3, PairingOfSum
    <3> QED
      BY <3>1
  <2> QED
    BY <2>1, <2>2 DEF KernelOf
<1>6. \A x \in KernelOf(hx, n, m) : ~OverlapOdd(u, x)
  <2>1. KernelOf(hx, n, m) = JointSpan(hz, n, lz, k, W)
    BY DEF IsBases
  <2> HIDE DEF u
  <2>2. \A x \in JointSpan(hz, n, lz, k, W) : ~OverlapOdd(u, x)
    BY <1>1, <1>2, <1>4, <1>5, PerpOfTogether
  <2> QED
    BY <2>1, <2>2
<1>7. u \in SpanOf(hx, 1..n, W)
  <2>1. u \in SUBSET W
    BY DEF SumOf
  <2> HIDE DEF u
  <2> QED
    BY <1>1, <1>6, <2>1, PerpOfKernel
<1> QED
  BY <1>7 DEF IsBases

\* A square matrix with independent rows is inverted: the rows of the inverse say which
\* rows of the matrix add up to the rows of the identity.
LEMMA InverseFacts ==
  ASSUME NEW k \in Nat, NEW P \in [1..k -> SUBSET (0..(k - 1))], LinearlyIndependent(P, 1..k, 0..(k - 1))
  PROVE  /\ ~Inverse2(P).singular
         /\ DOMAIN Inverse2(P).rows = 1..k
         /\ \A p \in 1..k : LET Q == {c + 1 : c \in Inverse2(P).rows[p]}
                            IN  Q \in SUBSET (1..k) /\ SumOf(P, Q, 0..(k - 1)) = {p - 1}
<1> DEFINE m == k + k
           W == 0..(m - 1)
           C == 0..(k - 1)
           beside == [i \in 1..k |-> P[i] \cup {k + i - 1}]
           r == Rref(beside, k)
           f == r.rows
           Right(i) == k + i - 1
           Of(p) == {i \in 1..k : Right(i) \in f[p]}
<1>1. Len(P) = k
  <2> DEFINE T == SUBSET C
  <2>1. P \in [1..k -> T]
    OBVIOUS
  <2> HIDE DEF T
  <2> QED
    BY <2>1, LengthOfFunction
<1>2. beside \in [1..k -> SUBSET W] /\ m \in Nat
  <2>1. \A i \in 1..k : k + i - 1 \in W
    OBVIOUS
  <2>2. C \subseteq W
    OBVIOUS
  <2>3. \A i \in 1..k : P[i] \in SUBSET C
    OBVIOUS
  <2>4. \A i \in 1..k : P[i] \cup {k + i - 1} \in SUBSET W
    <3> HIDE DEF W, C
    <3> QED
      BY <2>1, <2>2, <2>3
  <2> HIDE DEF W
  <2> QED
    BY <2>4
<1>3. RowsKept(r, beside, k, W) /\ Echelon(r, k, k)
  <2> HIDE DEF beside, W
  <2> QED
    BY <1>2, RrefReduces
<1>4. \A i \in 1..k : Right(i) \in W /\ Right(i) \notin C
      /\ \A j \in 1..k : Right(i) = Right(j) => i = j
  OBVIOUS
<1>5. \A i, j \in 1..k : Right(i) \in beside[j] <=> j = i
  <2> SUFFICES ASSUME NEW i \in 1..k, NEW j \in 1..k PROVE Right(i) \in beside[j] <=> j = i
    OBVIOUS
  <2>1. P[j] \subseteq C /\ beside[j] = P[j] \cup {Right(j)}
    OBVIOUS
  <2> HIDE DEF beside, Right, C
  <2> QED
    BY <1>4, <2>1
<1>6. \A i \in 1..k : \A d \in C : d \in beside[i] <=> d \in P[i]
  <2> SUFFICES ASSUME NEW i \in 1..k, NEW d \in C PROVE d \in beside[i] <=> d \in P[i]
    OBVIOUS
  <2>1. beside[i] = P[i] \cup {Right(i)} /\ d # Right(i)
    BY <1>4
  <2> HIDE DEF beside, Right, C
  <2> QED
    BY <2>1
<1> HIDE DEF beside
<1>7. \A Q \in SUBSET (1..k) : \A i \in 1..k : Right(i) \in SumOf(beside, Q, W) <=> i \in Q
  <2> SUFFICES ASSUME NEW Q \in SUBSET (1..k), NEW i \in 1..k
               PROVE  Right(i) \in SumOf(beside, Q, W) <=> i \in Q
    OBVIOUS
  <2> DEFINE d == Right(i)
  <2>1. d \in W /\ \A j \in Q : d \in beside[j] <=> j = i
    BY <1>4, <1>5
  <2> HIDE DEF d, W
  <2>2. d \in SumOf(beside, Q, W) <=> i \in Q
    BY <2>1, OwnPlace
  <2> QED
    BY <2>2 DEF d
<1>8. LinearlyIndependent(f, 1..k, W)
  <2>1. LinearlyIndependent(beside, 1..k, W)
    <3> SUFFICES ASSUME NEW Q \in SUBSET (1..k), SumOf(beside, Q, W) = {} PROVE Q = {}
      BY DEF LinearlyIndependent
    <3> QED
      BY <1>7
  <2> QED
    BY <1>3, <2>1 DEF RowsKept
<1>9. ASSUME NEW p \in 1..k
      PROVE  f[p] = SumOf(beside, Of(p), W) /\ \A d \in C : d \in f[p] <=> d \in SumOf(P, Of(p), C)
  <2>1. f \in [1..k -> SUBSET W] /\ SpanOf(f, 1..k, W) = SpanOf(beside, 1..k, W)
    BY <1>3 DEF RowsKept
  <2>2. f[p] \in SpanOf(f, 1..k, W)
    <3>1. IsFiniteSet(1..k) /\ f[p] \in SUBSET W
      BY <2>1, FirstNumbers
    <3> HIDE DEF f, W
    <3>2. W \cap f[p] \in SpanOf(f, 1..k, W)
      BY <3>1, SpanIsSpace
    <3>3. W \cap f[p] = f[p]
      BY <3>1
    <3> QED
      BY <3>2, <3>3
  <2>3. PICK Q \in SUBSET (1..k) : f[p] = SumOf(beside, Q, W)
    BY <2>1, <2>2 DEF SpanOf
  <2>4. Of(p) = Q
    <3>1. \A i \in 1..k : Right(i) \in SumOf(beside, Q, W) <=> i \in Q
      BY <1>7, <2>3
    <3> DEFINE g == f[p]
    <3>2. g = SumOf(beside, Q, W)
      BY <2>3
    <3>3. Of(p) = {i \in 1..k : Right(i) \in g}
      OBVIOUS
    <3> HIDE DEF g, Of, Right
    <3>4. \A i \in 1..k : Right(i) \in g <=> i \in Q
      BY <3>1, <3>2
    <3>5. Q \subseteq 1..k
      OBVIOUS
    <3> QED
      BY <3>3, <3>4, <3>5
  <2>5. \A d \in C : d \in W
    OBVIOUS
  <2>6. ASSUME NEW d \in C PROVE d \in SumOf(beside, Q, W) <=> d \in SumOf(P, Q, C)
    <3>1. {q \in Q : d \in beside[q]} = {q \in Q : d \in P[q]}
      BY <1>6
    <3>2. d \in W
      BY <2>5
    <3> HIDE DEF W, C
    <3> QED
      BY <3>1, <3>2 DEF SumOf
  <2> QED
    BY <2>3, <2>4, <2>6
<1>10. r.rank = k
  <2> SUFFICES ASSUME r.rank # k PROVE FALSE
    OBVIOUS
  <2>1. r.rank \in Nat /\ r.rank <= k
    BY <1>3 DEF Echelon
  <2>2. k \in (r.rank + 1)..k /\ k \in 1..k
    BY <2>1
  <2>3. \A d \in C : d \notin f[k]
    BY <1>3, <2>2 DEF Echelon
  <2>4. SumOf(P, Of(k), C) = {}
    <3>1. SumOf(P, Of(k), C) \subseteq C
      BY DEF SumOf
    <3> HIDE DEF Of, C, f
    <3> QED
      BY <1>9, <2>2, <2>3, <3>1
  <2>5. Of(k) = {}
    <3>1. Of(k) \in SUBSET (1..k)
      OBVIOUS
    <3> HIDE DEF Of
    <3> QED
      BY <2>4, <3>1 DEF LinearlyIndependent
  <2>6. f[k] = {}
    <3> HIDE DEF Of, f
    <3> QED
      BY <1>9, <2>2, <2>5, SumOfNone
  <2>7. SumOf(f, {k}, W) = W \cap f[k]
    BY SumOfOne
  <2>8. {k} \in SUBSET (1..k) /\ {k} # {}
    BY <2>2
  <2> HIDE DEF f, W
  <2> QED
    BY <1>8, <2>6, <2>7, <2>8 DEF LinearlyIndependent
<1>11. ASSUME NEW p \in 1..k PROVE SumOf(P, Of(p), C) = {p - 1}
  <2>1. p - 1 \in C
    OBVIOUS
  <2>2. ASSUME NEW d \in C PROVE d \in f[p] <=> d = p - 1
    <3>1. d + 1 \in 1..r.rank /\ d + 1 \in 1..k
      BY <1>10
    <3>2. r.pivots[d + 1] = (d + 1) - 1
      BY <1>3, <1>10, <3>1 DEF Echelon
    <3>3. r.pivots[d + 1] \in f[p] <=> p = d + 1
      BY <1>3, <3>1 DEF Echelon
    <3>4. r.pivots[d + 1] = d
      BY <3>2
    <3>5. p = d + 1 <=> d = p - 1
      OBVIOUS
    <3> QED
      BY <3>3, <3>4, <3>5
  <2>3. SumOf(P, Of(p), C) \subseteq C
    BY DEF SumOf
  <2> HIDE DEF Of, C, f
  <2> QED
    BY <1>9, <2>1, <2>2, <2>3
<1>12. /\ Inverse2(P).singular = (r.rank < k)
       /\ Inverse2(P).rows = [i \in 1..k |-> {c - k : c \in {d \in f[i] : d >= k}}]
  BY <1>1 DEF Inverse2, beside
<1>13. ASSUME NEW p \in 1..k PROVE {c + 1 : c \in Inverse2(P).rows[p]} = Of(p)
  <2>1. f[p] \subseteq W
    BY <1>3 DEF RowsKept
  <2>2. Inverse2(P).rows[p] = {c - k : c \in {d \in f[p] : d >= k}}
    BY <1>12
  <2> HIDE DEF f
  <2>3. ASSUME NEW c \in f[p], c >= k PROVE (c - k) + 1 \in Of(p)
    <3>1. c \in 0..(m - 1)
      BY <2>1
    <3>2. (c - k) + 1 \in 1..k /\ k + ((c - k) + 1) - 1 = c
      BY <2>3, <3>1
    <3> QED
      BY <3>2
  <2>4. ASSUME NEW i \in Of(p) PROVE \E c \in f[p] : c >= k /\ i = (c - k) + 1
    <3>1. Right(i) \in f[p] /\ Right(i) >= k /\ i = (Right(i) - k) + 1
      OBVIOUS
    <3> QED
      BY <3>1
  <2> HIDE DEF Of
  <2> QED
    BY <2>2, <2>3, <2>4
<1>14. \A p \in 1..k : Of(p) \in SUBSET (1..k)
  OBVIOUS
<1>16. ~Inverse2(P).singular
  <2> DEFINE b == Inverse2(P).singular
             a == r.rank
  <2>1. b = (a < k) /\ a = k
    BY <1>10, <1>12
  <2> HIDE DEF a, b
  <2>2. b = (k < k)
    BY <2>1
  <2>3. ~(k < k)
    OBVIOUS
  <2>4. ~b
    BY <2>2, <2>3, Zenon
  <2> QED
    BY <2>4 DEF b
<1>17. DOMAIN Inverse2(P).rows = 1..k
  <2> DEFINE g == [i \in 1..k |-> {c - k : c \in {d \in f[i] : d >= k}}]
  <2>1. DOMAIN g = 1..k
    OBVIOUS
  <2>2. Inverse2(P).rows = g
    BY <1>12
  <2> QED
    BY <2>1, <2>2
<1>18. ASSUME NEW p \in 1..k
       PROVE  LET Q == {c + 1 : c \in Inverse2(P).rows[p]}
              IN  Q \in SUBSET (1..k) /\ SumOf(P, Q, 0..(k - 1)) = {p - 1}
  <2> DEFINE q == {c + 1 : c \in Inverse2(P).rows[p]}
  <2>1. q = Of(p)
    BY <1>13
  <2>2. Of(p) \in SUBSET (1..k) /\ SumOf(P, Of(p), 0..(k - 1)) = {p - 1}
    BY <1>11, <1>14
  <2> HIDE DEF q, Of
  <2>3. q \in SUBSET (1..k) /\ SumOf(P, q, 0..(k - 1)) = {p - 1}
    BY <2>1, <2>2
  <2> QED
    BY <2>3 DEF q
<1> HIDE DEF r, Of, C
<1> QED
  BY <1>16, <1>17, <1>18

-----------------------------------------------------------------------------
(* The torus.                                                              *)

\* A remainder inside a remainder may be left out, added or taken away.
LEMMA ModAdds ==
  ASSUME NEW k \in Nat \ {0}, NEW a \in Int, NEW b \in Int
  PROVE  ((a % k) + b) % k = (a + b) % k /\ (b - (a % k)) % k = (b - a) % k
<1> DEFINE q == a \div k
           r == a % k
<1>1. q \in Int /\ r \in 0..(k - 1) /\ a = q * k + r
  OBVIOUS
<1> HIDE DEF q, r
<1>2. (r + b) % k = (a + b) % k
  <2> DEFINE u == (r + b) \div k
             w == (r + b) % k
  <2>1. u \in Int /\ w \in 0..(k - 1) /\ r + b = u * k + w
    BY <1>1
  <2> HIDE DEF u, w
  <2>2. a + b = q * k + (u * k + w)
    BY <1>1, <2>1
  <2>3. q * k + (u * k + w) = (q + u) * k + w
    BY <1>1, <2>1
  <2>4. q + u \in Int
    BY <1>1, <2>1
  <2>5. ((q + u) * k + w) % k = w
    BY <2>1, <2>4, DivMod
  <2> QED
    BY <2>2, <2>3, <2>5 DEF w
<1>3. (b - r) % k = (b - a) % k
  <2> DEFINE u == (b - r) \div k
             w == (b - r) % k
  <2>1. u \in Int /\ w \in 0..(k - 1) /\ b - r = u * k + w
    BY <1>1
  <2> HIDE DEF u, w
  <2>2. b - a = (u * k + w) - q * k
    BY <1>1, <2>1
  <2>3. (u * k + w) - q * k = (u - q) * k + w
    BY <1>1, <2>1
  <2>4. u - q \in Int
    BY <1>1, <2>1
  <2>5. ((u - q) * k + w) % k = w
    BY <2>1, <2>4, DivMod
  <2> QED
    BY <2>2, <2>3, <2>5 DEF w
<1> QED
  BY <1>2, <1>3 DEF r

Cells(shape) == 0..(Block(shape) - 1)

\* A cell has its two coordinates on the torus.
LEMMA CellCoordinates ==
  ASSUME NEW shape, IsShape(shape), NEW c \in Cells(shape)
  PROVE  /\ c \div shape.m \in 0..(shape.ell - 1) /\ c % shape.m \in 0..(shape.m - 1)
         /\ c = (c \div shape.m) * shape.m + (c % shape.m)
<1> DEFINE l == shape.ell
           m == shape.m
           q == c \div m
           r == c % m
<1>1. l \in Nat \ {0} /\ m \in Nat \ {0} /\ c \in 0..(l * m - 1)
  BY DEF IsShape, Cells, Block
<1> HIDE DEF l, m
<1>2. l * m \in Nat /\ c \in Nat /\ c < l * m
  BY <1>1
<1>3. q \in Nat /\ r \in 0..(m - 1) /\ c = q * m + r
  BY <1>1, <1>2, DivModOf
<1> HIDE DEF q, r
<1>4. q < l
  <2> SUFFICES ASSUME q >= l PROVE FALSE
    BY <1>1, <1>3
  <2>1. q * m >= l * m
    BY <1>1, <1>3
  <2>2. q * m \in Nat
    BY <1>1, <1>3
  <2> QED
    BY <1>2, <1>3, <2>1, <2>2
<1>5. q \in 0..(l - 1)
  BY <1>1, <1>3, <1>4
<1> QED
  BY <1>3, <1>5 DEF q, r, l, m

\* Two coordinates make a cell.
LEMMA CellAt ==
  ASSUME NEW shape, IsShape(shape), NEW x \in 0..(shape.ell - 1), NEW y \in 0..(shape.m - 1)
  PROVE  /\ x * shape.m + y \in Cells(shape)
         /\ (x * shape.m + y) \div shape.m = x /\ (x * shape.m + y) % shape.m = y
<1> DEFINE l == shape.ell
           m == shape.m
<1>1. l \in Nat \ {0} /\ m \in Nat \ {0} /\ x \in 0..(l - 1) /\ y \in 0..(m - 1)
  BY DEF IsShape
<1> HIDE DEF l, m
<1>2. (x * m + y) \div m = x /\ (x * m + y) % m = y
  <2>1. x \in Int
    OBVIOUS
  <2> QED
    BY <1>1, <2>1, DivMod
<1>3. x * m + y \in 0..(l * m - 1)
  <2>1. x + 1 <= l /\ x + 1 \in Nat
    BY <1>1
  <2>2. (x + 1) * m <= l * m
    BY <1>1, <2>1
  <2>3. (x + 1) * m = x * m + m /\ x * m \in Nat /\ l * m \in Nat
    BY <1>1
  <2> QED
    BY <1>1, <2>2, <2>3
<1> QED
  BY <1>2, <1>3 DEF l, m, Cells, Block

\* Cells with the same coordinates are one.
LEMMA SameCell ==
  ASSUME NEW shape, IsShape(shape), NEW c \in Cells(shape), NEW d \in Cells(shape),
         c \div shape.m = d \div shape.m, c % shape.m = d % shape.m
  PROVE  c = d
<1> DEFINE At(x, y) == x * shape.m + y
<1>1. c = At(c \div shape.m, c % shape.m) /\ d = At(d \div shape.m, d % shape.m)
  BY CellCoordinates
<1> HIDE DEF At
<1> QED
  BY <1>1

\* A shift moves both coordinates.
LEMMA ShiftCoordinates ==
  ASSUME NEW shape, IsShape(shape), NEW c \in Cells(shape), NEW dx \in Int, NEW dy \in Int
  PROVE  /\ Shifted(shape, c, dx, dy) \in Cells(shape)
         /\ Shifted(shape, c, dx, dy) \div shape.m = ((c \div shape.m) + dx) % shape.ell
         /\ Shifted(shape, c, dx, dy) % shape.m = ((c % shape.m) + dy) % shape.m
<1> DEFINE x == ((c \div shape.m) + dx) % shape.ell
           y == ((c % shape.m) + dy) % shape.m
<1>1. shape.ell \in Nat \ {0} /\ shape.m \in Nat \ {0}
  BY DEF IsShape
<1>2. c \div shape.m \in Int /\ c % shape.m \in Int
  BY CellCoordinates
<1>3. x \in 0..(shape.ell - 1) /\ y \in 0..(shape.m - 1)
  BY <1>1, <1>2
<1>4. Shifted(shape, c, dx, dy) = x * shape.m + y
  BY DEF Shifted
<1> HIDE DEF x, y
<1>5. /\ x * shape.m + y \in Cells(shape)
      /\ (x * shape.m + y) \div shape.m = x /\ (x * shape.m + y) % shape.m = y
  BY <1>3, CellAt
<1>6. /\ Shifted(shape, c, dx, dy) \in Cells(shape)
      /\ Shifted(shape, c, dx, dy) \div shape.m = x /\ Shifted(shape, c, dx, dy) % shape.m = y
  BY <1>4, <1>5
<1> QED
  BY <1>6 DEF x, y

\* Shifts add up, so they commute and can be taken back.
LEMMA ShiftsAdd ==
  ASSUME NEW shape, IsShape(shape), NEW c \in Cells(shape),
         NEW dx \in Int, NEW dy \in Int, NEW ex \in Int, NEW ey \in Int
  PROVE  /\ Shifted(shape, Shifted(shape, c, dx, dy), ex, ey) = Shifted(shape, c, dx + ex, dy + ey)
<1> DEFINE l == shape.ell
           m == shape.m
           x == c \div m
           y == c % m
           s == Shifted(shape, c, dx, dy)
           t == Shifted(shape, s, ex, ey)
           u == Shifted(shape, c, dx + ex, dy + ey)
<1>1. l \in Nat \ {0} /\ m \in Nat \ {0} /\ x \in Int /\ y \in Int
  BY CellCoordinates DEF IsShape
<1>2. s \in Cells(shape) /\ s \div m = (x + dx) % l /\ s % m = (y + dy) % m
  BY ShiftCoordinates
<1>3. u \in Cells(shape) /\ u \div m = (x + (dx + ex)) % l /\ u % m = (y + (dy + ey)) % m
  <2>1. dx + ex \in Int /\ dy + ey \in Int
    OBVIOUS
  <2> DEFINE gx == dx + ex
             gy == dy + ey
  <2> HIDE DEF gx, gy
  <2>2. LET w == Shifted(shape, c, gx, gy)
        IN  w \in Cells(shape) /\ w \div m = (x + gx) % l /\ w % m = (y + gy) % m
    BY <2>1, ShiftCoordinates DEF gx, gy
  <2> QED
    BY <2>2 DEF gx, gy
<1> HIDE DEF s
<1>4. t \in Cells(shape) /\ t \div m = ((s \div m) + ex) % l /\ t % m = ((s % m) + ey) % m
  BY <1>2, ShiftCoordinates
<1> HIDE DEF t, u, x, y, l, m
<1>5. ((s \div m) + ex) % l = (x + (dx + ex)) % l
  <2>1. x + dx \in Int /\ (x + dx) + ex = x + (dx + ex)
    BY <1>1
  <2> DEFINE g == x + dx
  <2> HIDE DEF g
  <2>2. ((g % l) + ex) % l = (g + ex) % l
    BY <1>1, <2>1, ModAdds DEF g
  <2> QED
    BY <1>2, <2>1, <2>2 DEF g
<1>6. ((s % m) + ey) % m = (y + (dy + ey)) % m
  <2>1. y + dy \in Int /\ (y + dy) + ey = y + (dy + ey)
    BY <1>1
  <2> DEFINE g == y + dy
  <2> HIDE DEF g
  <2>2. ((g % m) + ey) % m = (g + ey) % m
    BY <1>1, <2>1, ModAdds DEF g
  <2> QED
    BY <1>2, <2>1, <2>2 DEF g
<1>7. t \div m = u \div m /\ t % m = u % m
  BY <1>3, <1>4, <1>5, <1>6
<1>8. t = u
  BY <1>3, <1>4, <1>7, SameCell DEF m
<1> QED
  BY <1>8 DEF t, u, s

\* The cell opposite to c between the cells p and q.
Opposite(shape, p, q, c) ==
  Shifted(shape, p, (q \div shape.m) - (c \div shape.m), (q % shape.m) - (c % shape.m))

\* Taking the opposite exchanges the shifts of one end with the reversed shifts of the
\* other.
LEMMA OppositeExchanges ==
  ASSUME NEW shape, IsShape(shape), NEW p \in Cells(shape), NEW q \in Cells(shape)
  PROVE  /\ \A c \in Cells(shape) : /\ Opposite(shape, p, q, c) \in Cells(shape)
                                    /\ Opposite(shape, p, q, Opposite(shape, p, q, c)) = c
         /\ \A dx, dy \in Int : Opposite(shape, p, q, Shifted(shape, p, dx, dy)) = Shifted(shape, q, -dx, -dy)
<1> DEFINE l == shape.ell
           m == shape.m
           X(c) == c \div m
           Y(c) == c % m
           Op(c) == Opposite(shape, p, q, c)
<1>1. l \in Nat \ {0} /\ m \in Nat \ {0}
  BY DEF IsShape
<1>2. \A c \in Cells(shape) : X(c) \in 0..(l - 1) /\ Y(c) \in 0..(m - 1)
  BY CellCoordinates
<1>3. ASSUME NEW c \in Cells(shape)
      PROVE  Op(c) \in Cells(shape) /\ X(Op(c)) = (X(p) + (X(q) - X(c))) % l
             /\ Y(Op(c)) = (Y(p) + (Y(q) - Y(c))) % m
  <2> DEFINE dx == X(q) - X(c)
             dy == Y(q) - Y(c)
  <2>1. dx \in Int /\ dy \in Int
    <3>1. X(q) \in 0..(l - 1) /\ Y(q) \in 0..(m - 1) /\ X(c) \in 0..(l - 1) /\ Y(c) \in 0..(m - 1)
      BY <1>2
    <3> HIDE DEF X, Y
    <3> QED
      BY <3>1
  <2>2. Op(c) = Shifted(shape, p, dx, dy)
    BY DEF Opposite
  <2> HIDE DEF dx, dy, Op
  <2>3. LET w == Shifted(shape, p, dx, dy)
        IN  w \in Cells(shape) /\ X(w) = (X(p) + dx) % l /\ Y(w) = (Y(p) + dy) % m
    BY <2>1, ShiftCoordinates
  <2>4. Op(c) \in Cells(shape) /\ X(Op(c)) = (X(p) + dx) % l /\ Y(Op(c)) = (Y(p) + dy) % m
    BY <2>2, <2>3
  <2> QED
    BY <2>4 DEF dx, dy
<1>4. ASSUME NEW dx \in Int, NEW dy \in Int
      PROVE  /\ Shifted(shape, p, dx, dy) \in Cells(shape)
             /\ X(Shifted(shape, p, dx, dy)) = (X(p) + dx) % l
             /\ Y(Shifted(shape, p, dx, dy)) = (Y(p) + dy) % m
  BY <1>4, ShiftCoordinates
<1>5. ASSUME NEW dx \in Int, NEW dy \in Int
      PROVE  /\ Shifted(shape, q, -dx, -dy) \in Cells(shape)
             /\ X(Shifted(shape, q, -dx, -dy)) = (X(q) - dx) % l
             /\ Y(Shifted(shape, q, -dx, -dy)) = (Y(q) - dy) % m
  <2> DEFINE ex == -dx
             ey == -dy
  <2>1. ex \in Int /\ ey \in Int
    BY <1>5
  <2>2. X(q) \in Int /\ Y(q) \in Int
    BY <1>2
  <2> HIDE DEF ex, ey
  <2>3. /\ Shifted(shape, q, ex, ey) \in Cells(shape)
        /\ X(Shifted(shape, q, ex, ey)) = (X(q) + ex) % l
        /\ Y(Shifted(shape, q, ex, ey)) = (Y(q) + ey) % m
    BY <2>1, ShiftCoordinates
  <2>4. X(q) + ex = X(q) - dx /\ Y(q) + ey = Y(q) - dy
    <3> HIDE DEF X, Y
    <3> QED
      BY <1>5, <2>1, <2>2 DEF ex, ey
  <2> QED
    BY <2>3, <2>4 DEF ex, ey
<1>6. \A c, d \in Cells(shape) : X(c) = X(d) /\ Y(c) = Y(d) => c = d
  BY SameCell
<1>7. \A x, y, z \in Int : (x + (y - ((x + z) % l))) % l = (y - z) % l
                        /\ (x + (y - ((x + z) % m))) % m = (y - z) % m
  <2> SUFFICES ASSUME NEW k \in Nat \ {0}, NEW x \in Int, NEW y \in Int, NEW z \in Int
               PROVE  (x + (y - ((x + z) % k))) % k = (y - z) % k
    BY <1>1
  <2> DEFINE a == x + z
             b == x + y
             r == a % k
  <2>1. a \in Int /\ b \in Int /\ b - a = y - z /\ r \in Int
    OBVIOUS
  <2>2. (b - r) % k = (b - a) % k
    <3> HIDE DEF a, b
    <3> QED
      BY <2>1, ModAdds
  <2>3. x + (y - r) = b - r
    <3> HIDE DEF r
    <3> QED
      BY <2>1
  <2> QED
    BY <2>1, <2>2, <2>3
<1> HIDE DEF X, Y, Op, l, m
<1>8. ASSUME NEW c \in Cells(shape) PROVE Op(Op(c)) = c
  <2>1. Op(c) \in Cells(shape) /\ Op(Op(c)) \in Cells(shape)
    BY <1>3
  <2>2. X(Op(Op(c))) = X(c)
    <3>1. X(p) \in Int /\ X(q) \in Int /\ X(c) \in Int
      BY <1>1, <1>2
    <3> DEFINE z == X(q) - X(c)
    <3>2. z \in Int /\ X(q) - z = X(c)
      BY <3>1
    <3> HIDE DEF z
    <3>3. X(Op(c)) = (X(p) + z) % l
      BY <1>3 DEF z
    <3>4. X(Op(Op(c))) = (X(p) + (X(q) - X(Op(c)))) % l
      BY <1>3, <2>1
    <3>5. (X(p) + (X(q) - ((X(p) + z) % l))) % l = (X(q) - z) % l
      BY <1>7, <3>1, <3>2
    <3>6. X(c) % l = X(c)
      BY <1>1, <1>2
    <3> QED
      BY <3>2, <3>3, <3>4, <3>5, <3>6
  <2>3. Y(Op(Op(c))) = Y(c)
    <3>1. Y(p) \in Int /\ Y(q) \in Int /\ Y(c) \in Int
      BY <1>1, <1>2
    <3> DEFINE z == Y(q) - Y(c)
    <3>2. z \in Int /\ Y(q) - z = Y(c)
      BY <3>1
    <3> HIDE DEF z
    <3>3. Y(Op(c)) = (Y(p) + z) % m
      BY <1>3 DEF z
    <3>4. Y(Op(Op(c))) = (Y(p) + (Y(q) - Y(Op(c)))) % m
      BY <1>3, <2>1
    <3>5. (Y(p) + (Y(q) - ((Y(p) + z) % m))) % m = (Y(q) - z) % m
      BY <1>7, <3>1, <3>2
    <3>6. Y(c) % m = Y(c)
      BY <1>1, <1>2
    <3> QED
      BY <3>2, <3>3, <3>4, <3>5, <3>6
  <2> QED
    BY <1>6, <2>1, <2>2, <2>3
<1>9. ASSUME NEW dx \in Int, NEW dy \in Int
      PROVE  Op(Shifted(shape, p, dx, dy)) = Shifted(shape, q, -dx, -dy)
  <2> DEFINE s == Shifted(shape, p, dx, dy)
             t == Shifted(shape, q, -dx, -dy)
  <2>1. s \in Cells(shape) /\ X(s) = (X(p) + dx) % l /\ Y(s) = (Y(p) + dy) % m
    BY <1>4, <1>9
  <2>2. t \in Cells(shape) /\ X(t) = (X(q) - dx) % l /\ Y(t) = (Y(q) - dy) % m
    BY <1>5, <1>9
  <2> HIDE DEF s, t
  <2>3. Op(s) \in Cells(shape) /\ X(Op(s)) = (X(p) + (X(q) - X(s))) % l
        /\ Y(Op(s)) = (Y(p) + (Y(q) - Y(s))) % m
    BY <1>3, <2>1
  <2>4. X(p) \in Int /\ X(q) \in Int /\ Y(p) \in Int /\ Y(q) \in Int
    BY <1>1, <1>2
  <2>5. (X(p) + (X(q) - ((X(p) + dx) % l))) % l = (X(q) - dx) % l
    BY <1>7, <2>4
  <2>6. (Y(p) + (Y(q) - ((Y(p) + dy) % m))) % m = (Y(q) - dy) % m
    BY <1>7, <2>4
  <2>7. Op(s) = t
    BY <1>6, <2>1, <2>2, <2>3, <2>5, <2>6
  <2> QED
    BY <2>7 DEF s, t
<1> QED
  BY <1>3, <1>8, <1>9 DEF Op

\* The rows of a polynomial lie on the torus.
LEMMA MonomialsOnTorus ==
  ASSUME NEW shape, IsShape(shape), NEW c \in Cells(shape),
         NEW polynomial \in SUBSET ((0..(shape.ell - 1)) \X (0..(shape.m - 1)))
  PROVE  /\ Monomials(shape, polynomial, c) \subseteq Cells(shape)
         /\ Transposed(shape, polynomial, c) \subseteq Cells(shape)
<1>1. ASSUME NEW e \in polynomial PROVE e[1] \in Int /\ e[2] \in Int /\ -e[1] \in Int /\ -e[2] \in Int
  <2>1. e \in (0..(shape.ell - 1)) \X (0..(shape.m - 1))
    OBVIOUS
  <2>2. e[1] \in 0..(shape.ell - 1) /\ e[2] \in 0..(shape.m - 1)
    BY <2>1
  <2> QED
    BY <2>2
<1>2. ASSUME NEW e \in polynomial PROVE Shifted(shape, c, e[1], e[2]) \in Cells(shape)
  BY <1>1, ShiftCoordinates
<1>3. ASSUME NEW e \in polynomial PROVE Shifted(shape, c, -e[1], -e[2]) \in Cells(shape)
  <2> DEFINE dx == -e[1]
             dy == -e[2]
  <2>1. dx \in Int /\ dy \in Int
    BY <1>1
  <2> HIDE DEF dx, dy
  <2>2. Shifted(shape, c, dx, dy) \in Cells(shape)
    BY <2>1, ShiftCoordinates
  <2> QED
    BY <2>2 DEF dx, dy
<1> QED
  BY <1>2, <1>3 DEF Monomials, Transposed

\* A row with a left and a right half meets a second one oddly exactly when one of the
\* halves, and not the other, does.
LEMMA HalvesMeet ==
  ASSUME NEW shape, IsShape(shape),
         NEW a \in SUBSET Cells(shape), NEW b \in SUBSET Cells(shape),
         NEW c \in SUBSET Cells(shape), NEW d \in SUBSET Cells(shape),
         NEW h \in [a \cap c -> b \cap d],
         \A u, w \in a \cap c : h[u] = h[w] => u = w, \A t \in b \cap d : \E u \in a \cap c : h[u] = t
  PROVE  ~OverlapOdd(BesideRight(shape, a, b), BesideRight(shape, c, d))
<1> DEFINE k == Block(shape)
           S == a \cap c
           T == {u + k : u \in b \cap d}
           g == [u \in S |-> h[u] + k]
<1>1. k \in Nat /\ Cells(shape) = 0..(k - 1)
  BY DEF IsShape, Block, Cells
<1> HIDE DEF k
<1>2. \A u, w \in Cells(shape) : (u + k = w + k => u = w) /\ u # w + k
  BY <1>1
<1>3. BesideRight(shape, a, b) \cap BesideRight(shape, c, d) = S \cup T
  BY <1>2 DEF BesideRight, k
<1>4. S \cap T = {}
  BY <1>2
<1>5. IsFiniteSet(S)
  BY <1>1, ColumnsFinite
<1>6. g \in [S -> T] /\ \A u \in S : g[u] = h[u] + k /\ h[u] \in Cells(shape)
  OBVIOUS
<1>7. \A t \in T : \E u \in S : g[u] = t
  <2> SUFFICES ASSUME NEW t \in T PROVE \E u \in S : g[u] = t
    OBVIOUS
  <2>1. PICK v \in b \cap d : t = v + k
    OBVIOUS
  <2>2. PICK u \in a \cap c : h[u] = v
    OBVIOUS
  <2> QED
    BY <2>1, <2>2
<1>8. \A u, w \in S : g[u] = g[w] => u = w
  <2> HIDE DEF g
  <2> QED
    BY <1>2, <1>6
<1> HIDE DEF S, T, g
<1>9. IsFiniteSet(T) /\ Cardinality(T) = Cardinality(S)
  BY <1>5, <1>6, <1>7, <1>8, MatchedSets
<1>10. S \cup T = SymDiff(S, T)
  BY <1>4 DEF SymDiff
<1>11. Odd(S) <=> Odd(T)
  BY <1>9 DEF Odd
<1>12. ~Odd(S \cup T)
  <2>1. Odd(SymDiff(S, T)) <=> ~(Odd(S) <=> Odd(T))
    BY <1>5, <1>9, OddSymDiff
  <2> QED
    BY <1>10, <1>11, <2>1
<1> QED
  BY <1>3, <1>12 DEF OverlapOdd

\* The X and the Z checks commute: the cells two checks share on the left are opposite to
\* those they share on the right.
LEMMA ChecksCommute ==
  ASSUME NEW shape, IsShape(shape)
  PROVE  /\ Hx(shape) \in [1..Block(shape) -> SUBSET (0..(Width(shape) - 1))]
         /\ Hz(shape) \in [1..Block(shape) -> SUBSET (0..(Width(shape) - 1))]
         /\ \A i, j \in 1..Block(shape) : ~OverlapOdd(Hx(shape)[i], Hz(shape)[j])
<1> DEFINE k == Block(shape)
           A(i) == Monomials(shape, shape.a, i - 1)
           B(i) == Monomials(shape, shape.b, i - 1)
           C(j) == Transposed(shape, shape.b, j - 1)
           D(j) == Transposed(shape, shape.a, j - 1)
<1>1. k \in Nat /\ Cells(shape) = 0..(k - 1) /\ Width(shape) = 2 * k
  BY DEF IsShape, Block, Cells, Width
<1>2. \A i \in 1..k : i - 1 \in Cells(shape)
  <2> HIDE DEF k
  <2> QED
    BY <1>1
<1>3. /\ shape.a \in SUBSET ((0..(shape.ell - 1)) \X (0..(shape.m - 1)))
      /\ shape.b \in SUBSET ((0..(shape.ell - 1)) \X (0..(shape.m - 1)))
  BY DEF IsShape
<1>4. \A i \in 1..k : /\ A(i) \subseteq Cells(shape) /\ B(i) \subseteq Cells(shape)
                      /\ C(i) \subseteq Cells(shape) /\ D(i) \subseteq Cells(shape)
  <2> SUFFICES ASSUME NEW i \in 1..k
               PROVE  /\ A(i) \subseteq Cells(shape) /\ B(i) \subseteq Cells(shape)
                      /\ C(i) \subseteq Cells(shape) /\ D(i) \subseteq Cells(shape)
    OBVIOUS
  <2> DEFINE p == i - 1
  <2>1. p \in Cells(shape)
    BY <1>2
  <2> HIDE DEF p
  <2>2. Monomials(shape, shape.a, p) \subseteq Cells(shape) /\ Transposed(shape, shape.a, p) \subseteq Cells(shape)
    BY <1>3, <2>1, MonomialsOnTorus
  <2>3. Monomials(shape, shape.b, p) \subseteq Cells(shape) /\ Transposed(shape, shape.b, p) \subseteq Cells(shape)
    BY <1>3, <2>1, MonomialsOnTorus
  <2> QED
    BY <2>2, <2>3 DEF p
<1>5. \A l, r \in SUBSET Cells(shape) : BesideRight(shape, l, r) \subseteq 0..(Width(shape) - 1)
  <2>1. \A c \in Cells(shape) : c \in 0..(Width(shape) - 1) /\ c + k \in 0..(Width(shape) - 1)
    <3> HIDE DEF k
    <3> QED
      BY <1>1
  <2> QED
    BY <2>1 DEF BesideRight
<1>6. /\ \A i \in 1..k : Hx(shape)[i] = BesideRight(shape, A(i), B(i))
      /\ \A i \in 1..k : Hz(shape)[i] = BesideRight(shape, C(i), D(i))
  BY DEF Hx, Hz
<1>7. /\ Hx(shape) \in [1..k -> SUBSET (0..(Width(shape) - 1))]
      /\ Hz(shape) \in [1..k -> SUBSET (0..(Width(shape) - 1))]
  <2>1. \A i \in 1..k : Hx(shape)[i] \in SUBSET (0..(Width(shape) - 1))
    BY <1>4, <1>5, <1>6
  <2>2. \A i \in 1..k : Hz(shape)[i] \in SUBSET (0..(Width(shape) - 1))
    BY <1>4, <1>5, <1>6
  <2>3. /\ Hx(shape) = [i \in 1..k |-> Hx(shape)[i]]
        /\ Hz(shape) = [i \in 1..k |-> Hz(shape)[i]]
    BY DEF Hx, Hz
  <2> DEFINE f == Hx(shape)
             g == Hz(shape)
             U == SUBSET (0..(Width(shape) - 1))
  <2> HIDE DEF f, g, U, k
  <2>4. f \in [1..k -> U] /\ g \in [1..k -> U]
    BY <2>1, <2>2, <2>3 DEF f, g, U
  <2> QED
    BY <2>4 DEF f, g, U
<1>8. ASSUME NEW i \in 1..k, NEW j \in 1..k PROVE ~OverlapOdd(Hx(shape)[i], Hz(shape)[j])
  <2> DEFINE p == i - 1
             q == j - 1
             Op(c) == Opposite(shape, p, q, c)
             Po(c) == Opposite(shape, q, p, c)
             a == A(i)
             b == B(i)
             c == C(j)
             d == D(j)
             h == [u \in a \cap c |-> Op(u)]
  <2>1. p \in Cells(shape) /\ q \in Cells(shape)
    BY <1>2
  <2>2. a \subseteq Cells(shape) /\ b \subseteq Cells(shape) /\ c \subseteq Cells(shape) /\ d \subseteq Cells(shape)
    BY <1>4
  <2>3. \A u \in Cells(shape) : Op(u) \in Cells(shape) /\ Op(Op(u)) = u
    <3> HIDE DEF p, q
    <3> QED
      BY <2>1, OppositeExchanges
  <2>4. \A e \in shape.a \cup shape.b : e[1] \in Int /\ e[2] \in Int
    <3>1. \A e \in (0..(shape.ell - 1)) \X (0..(shape.m - 1)) : e[1] \in Int /\ e[2] \in Int
      OBVIOUS
    <3> QED
      BY <1>3, <3>1
  <2>5. \A e \in shape.a \cup shape.b :
          Op(Shifted(shape, p, e[1], e[2])) = Shifted(shape, q, -e[1], -e[2])
    <3> HIDE DEF p, q
    <3> QED
      BY <2>1, <2>4, OppositeExchanges
  <2>6. \A u \in a : Op(u) \in d
    BY <2>5 DEF Monomials, Transposed
  <2>7. \A u \in b : Op(u) \in c
    BY <2>5 DEF Monomials, Transposed
  <2>8. \A u \in c : Op(u) \in b
    <3> SUFFICES ASSUME NEW u \in c PROVE Op(u) \in b
      OBVIOUS
    <3>1. PICK e \in shape.b : u = Shifted(shape, q, -e[1], -e[2])
      BY DEF Transposed
    <3> DEFINE w == Shifted(shape, p, e[1], e[2])
    <3>2. w \in b /\ u = Op(w)
      BY <2>5, <3>1 DEF Monomials
    <3> HIDE DEF w, b, Op, a, c, d, h
    <3> QED
      BY <2>2, <2>3, <3>2
  <2>9. \A u \in d : Op(u) \in a
    <3> SUFFICES ASSUME NEW u \in d PROVE Op(u) \in a
      OBVIOUS
    <3>1. PICK e \in shape.a : u = Shifted(shape, q, -e[1], -e[2])
      BY DEF Transposed
    <3> DEFINE w == Shifted(shape, p, e[1], e[2])
    <3>2. w \in a /\ u = Op(w)
      BY <2>5, <3>1 DEF Monomials
    <3> HIDE DEF w, b, Op, a, c, d, h
    <3> QED
      BY <2>2, <2>3, <3>2
  <2> HIDE DEF Op, a, b, c, d
  <2>10. h \in [a \cap c -> b \cap d] /\ \A u \in a \cap c : h[u] = Op(u)
    BY <2>6, <2>8
  <2>11. \A u, w \in a \cap c : h[u] = h[w] => u = w
    <3> HIDE DEF h
    <3> QED
      BY <2>2, <2>3, <2>10
  <2>12. \A t \in b \cap d : \E u \in a \cap c : h[u] = t
    <3> HIDE DEF h
    <3>1. \A t \in b \cap d : Op(t) \in a \cap c /\ h[Op(t)] = t
      BY <2>2, <2>3, <2>7, <2>9, <2>10
    <3> QED
      BY <3>1
  <2> HIDE DEF h
  <2>13. ~OverlapOdd(BesideRight(shape, a, b), BesideRight(shape, c, d))
    BY <2>2, <2>10, <2>11, <2>12, HalvesMeet
  <2> QED
    BY <1>6, <2>13 DEF a, b, c, d
<1> QED
  BY <1>7, <1>8

\* Moving both blocks of a row moves its two halves.
LEMMA MovedHalves ==
  ASSUME NEW shape, IsShape(shape), NEW dx \in Int, NEW dy \in Int,
         NEW left \in SUBSET Cells(shape), NEW right \in SUBSET Cells(shape)
  PROVE  LET action == VariableAction(shape, dx, dy)
         IN  {action[v] : v \in BesideRight(shape, left, right)}
               = BesideRight(shape, {Shifted(shape, c, dx, dy) : c \in left},
                                    {Shifted(shape, c, dx, dy) : c \in right})
<1> DEFINE k == Block(shape)
           S(c) == Shifted(shape, c, dx, dy)
           action == VariableAction(shape, dx, dy)
<1>1. k \in Nat /\ Cells(shape) = 0..(k - 1) /\ Width(shape) = 2 * k
  BY DEF IsShape, Block, Cells, Width
<1>2. ASSUME NEW c \in Cells(shape) PROVE action[c] = S(c) /\ action[c + k] = S(c) + k
  <2>1. k \in Nat \ {0} /\ c \in 0..(k - 1)
    <3> HIDE DEF k
    <3> QED
      BY <1>1
  <2>2. c \in 0..(Width(shape) - 1) /\ c + k \in 0..(Width(shape) - 1)
    <3> HIDE DEF k
    <3> QED
      BY <1>1, <2>1
  <2>3. c \div k = 0 /\ c % k = c /\ (c + k) \div k = 1 /\ (c + k) % k = c
    <3> HIDE DEF k
    <3>1. (0 * k + c) \div k = 0 /\ (0 * k + c) % k = c
      BY <2>1, DivMod
    <3>2. (1 * k + c) \div k = 1 /\ (1 * k + c) % k = c
      BY <2>1, DivMod
    <3>3. 0 * k + c = c /\ 1 * k + c = c + k
      BY <2>1
    <3> QED
      BY <3>1, <3>2, <3>3
  <2>4. \A v \in 0..(Width(shape) - 1) : action[v] = S(v % k) + (v \div k) * k
    BY DEF VariableAction
  <2>5. action[c] = S(c) + 0 * k /\ action[c + k] = S(c) + 1 * k
    <3> HIDE DEF action, k, S
    <3> QED
      BY <2>2, <2>3, <2>4
  <2>6. S(c) \in Int
    <3>1. S(c) \in Cells(shape)
      BY ShiftCoordinates
    <3> QED
      BY <3>1, <1>1
  <2>7. S(c) + 0 * k = S(c) /\ S(c) + 1 * k = S(c) + k
    <3> HIDE DEF S, k
    <3> QED
      BY <1>1, <2>6
  <2> QED
    BY <2>5, <2>7
<1> DEFINE row == left \cup {c + k : c \in right}
<1>3. BesideRight(shape, left, right) = row
  BY DEF BesideRight
<1>4. {action[v] : v \in row} = {S(c) : c \in left} \cup {u + k : u \in {S(c) : c \in right}}
  <2> HIDE DEF action, S, k
  <2>1. \A v \in row : action[v] \in {S(c) : c \in left} \cup {u + k : u \in {S(c) : c \in right}}
    BY <1>2
  <2>2. \A c \in left : S(c) \in {action[v] : v \in row}
    <3> SUFFICES ASSUME NEW c \in left PROVE S(c) \in {action[v] : v \in row}
      OBVIOUS
    <3>1. c \in row /\ action[c] = S(c)
      BY <1>2
    <3> HIDE DEF row
    <3> QED
      BY <3>1
  <2>3. \A c \in right : S(c) + k \in {action[v] : v \in row}
    <3> SUFFICES ASSUME NEW c \in right PROVE S(c) + k \in {action[v] : v \in row}
      OBVIOUS
    <3>1. c + k \in row /\ action[c + k] = S(c) + k
      BY <1>2
    <3> HIDE DEF row
    <3> QED
      BY <3>1
  <2> HIDE DEF row
  <2> QED
    BY <2>1, <2>2, <2>3
<1> HIDE DEF row
<1> QED
  BY <1>3, <1>4 DEF BesideRight

\* Moving the row of a polynomial gives the row of the moved cell.
LEMMA MovedMonomials ==
  ASSUME NEW shape, IsShape(shape), NEW dx \in Int, NEW dy \in Int, NEW p \in Cells(shape),
         NEW polynomial \in SUBSET ((0..(shape.ell - 1)) \X (0..(shape.m - 1)))
  PROVE  /\ {Shifted(shape, c, dx, dy) : c \in Monomials(shape, polynomial, p)}
              = Monomials(shape, polynomial, Shifted(shape, p, dx, dy))
         /\ {Shifted(shape, c, dx, dy) : c \in Transposed(shape, polynomial, p)}
              = Transposed(shape, polynomial, Shifted(shape, p, dx, dy))
<1>1. ASSUME NEW ex \in Int, NEW ey \in Int
      PROVE  Shifted(shape, Shifted(shape, p, ex, ey), dx, dy)
               = Shifted(shape, Shifted(shape, p, dx, dy), ex, ey)
  <2>1. Shifted(shape, Shifted(shape, p, ex, ey), dx, dy) = Shifted(shape, p, ex + dx, ey + dy)
    BY ShiftsAdd
  <2>2. Shifted(shape, Shifted(shape, p, dx, dy), ex, ey) = Shifted(shape, p, dx + ex, dy + ey)
    BY ShiftsAdd
  <2>3. dx + ex = ex + dx /\ dy + ey = ey + dy
    OBVIOUS
  <2> QED
    BY <2>1, <2>2, <2>3
<1>2. \A e \in polynomial : e[1] \in Int /\ e[2] \in Int /\ -e[1] \in Int /\ -e[2] \in Int
  <2> SUFFICES ASSUME NEW e \in polynomial
               PROVE  e[1] \in Int /\ e[2] \in Int /\ -e[1] \in Int /\ -e[2] \in Int
    OBVIOUS
  <2>1. e \in (0..(shape.ell - 1)) \X (0..(shape.m - 1))
    OBVIOUS
  <2>2. e[1] \in 0..(shape.ell - 1) /\ e[2] \in 0..(shape.m - 1)
    BY <2>1
  <2> QED
    BY <2>2
<1>3. \A e \in polynomial : Shifted(shape, Shifted(shape, p, e[1], e[2]), dx, dy)
                              = Shifted(shape, Shifted(shape, p, dx, dy), e[1], e[2])
  BY <1>1, <1>2
<1>4. \A e \in polynomial : Shifted(shape, Shifted(shape, p, -e[1], -e[2]), dx, dy)
                              = Shifted(shape, Shifted(shape, p, dx, dy), -e[1], -e[2])
  <2> SUFFICES ASSUME NEW e \in polynomial
               PROVE Shifted(shape, Shifted(shape, p, -e[1], -e[2]), dx, dy)
                              = Shifted(shape, Shifted(shape, p, dx, dy), -e[1], -e[2])
    OBVIOUS
  <2> DEFINE ex == -e[1]
             ey == -e[2]
  <2>1. ex \in Int /\ ey \in Int
    BY <1>2
  <2> HIDE DEF ex, ey
  <2>2. Shifted(shape, Shifted(shape, p, ex, ey), dx, dy)
               = Shifted(shape, Shifted(shape, p, dx, dy), ex, ey)
    BY <1>1, <2>1
  <2> QED
    BY <2>2 DEF ex, ey
<1> QED
  BY <1>3, <1>4 DEF Monomials, Transposed

\* The declared translations are automorphisms of both graphs.
LEMMA TranslationsPreserve ==
  ASSUME NEW shape, IsShape(shape), NEW dx \in Int, NEW dy \in Int
  PROVE  /\ PreservesGraph(Hx(shape), VariableAction(shape, dx, dy), CheckAction(shape, dx, dy))
         /\ PreservesGraph(Hz(shape), VariableAction(shape, dx, dy), CheckAction(shape, dx, dy))
<1> DEFINE k == Block(shape)
           v == VariableAction(shape, dx, dy)
           a == CheckAction(shape, dx, dy)
<1>1. k \in Nat /\ Cells(shape) = 0..(k - 1)
  BY DEF IsShape, Block, Cells
<1>2. /\ shape.a \in SUBSET ((0..(shape.ell - 1)) \X (0..(shape.m - 1)))
      /\ shape.b \in SUBSET ((0..(shape.ell - 1)) \X (0..(shape.m - 1)))
  BY DEF IsShape
<1>3. DOMAIN a = Cells(shape) /\ \A c \in Cells(shape) : a[c] = Shifted(shape, c, dx, dy) /\ a[c] \in Cells(shape)
  <2>1. \A c \in Cells(shape) : Shifted(shape, c, dx, dy) \in Cells(shape)
    BY ShiftCoordinates
  <2> QED
    BY <2>1 DEF CheckAction, Cells
<1>4. ASSUME NEW c \in Cells(shape)
      PROVE  /\ Hx(shape)[c + 1] = BesideRight(shape, Monomials(shape, shape.a, c), Monomials(shape, shape.b, c))
             /\ Hz(shape)[c + 1] = BesideRight(shape, Transposed(shape, shape.b, c), Transposed(shape, shape.a, c))
  <2>1. c + 1 \in 1..k /\ (c + 1) - 1 = c
    <3> HIDE DEF k
    <3> QED
      BY <1>1, <1>4
  <2> DEFINE i == c + 1
  <2> HIDE DEF i
  <2>2. i \in 1..k /\ i - 1 = c
    BY <2>1 DEF i
  <2>3. /\ Hx(shape)[i] = BesideRight(shape, Monomials(shape, shape.a, i - 1), Monomials(shape, shape.b, i - 1))
        /\ Hz(shape)[i] = BesideRight(shape, Transposed(shape, shape.b, i - 1), Transposed(shape, shape.a, i - 1))
    BY <2>2 DEF Hx, Hz
  <2> QED
    BY <2>2, <2>3 DEF i
<1> HIDE DEF k, v, a
<1>5. ASSUME NEW c \in Cells(shape)
      PROVE  {v[u] : u \in Hx(shape)[c + 1]} = Hx(shape)[a[c] + 1]
  <2> DEFINE d == a[c]
             M(q) == Monomials(shape, shape.a, q)
             N(q) == Monomials(shape, shape.b, q)
  <2>1. d \in Cells(shape) /\ d = Shifted(shape, c, dx, dy)
    BY <1>3, <1>5
  <2>2. M(c) \in SUBSET Cells(shape) /\ N(c) \in SUBSET Cells(shape)
    BY <1>2, <1>5, MonomialsOnTorus
  <2>3. {Shifted(shape, u, dx, dy) : u \in M(c)} = M(d) /\ {Shifted(shape, u, dx, dy) : u \in N(c)} = N(d)
    BY <1>2, <1>5, <2>1, MovedMonomials
  <2>4. Hx(shape)[c + 1] = BesideRight(shape, M(c), N(c)) /\ Hx(shape)[d + 1] = BesideRight(shape, M(d), N(d))
    BY <1>4, <1>5, <2>1
  <2> HIDE DEF M, N, d
  <2>5. {v[u] : u \in BesideRight(shape, M(c), N(c))}
          = BesideRight(shape, {Shifted(shape, u, dx, dy) : u \in M(c)}, {Shifted(shape, u, dx, dy) : u \in N(c)})
    BY <2>2, MovedHalves DEF v
  <2>6. {v[u] : u \in Hx(shape)[c + 1]} = Hx(shape)[d + 1]
    BY <2>3, <2>4, <2>5
  <2> QED
    BY <2>6 DEF d
<1>6. ASSUME NEW c \in Cells(shape)
      PROVE  {v[u] : u \in Hz(shape)[c + 1]} = Hz(shape)[a[c] + 1]
  <2> DEFINE d == a[c]
             M(q) == Transposed(shape, shape.b, q)
             N(q) == Transposed(shape, shape.a, q)
  <2>1. d \in Cells(shape) /\ d = Shifted(shape, c, dx, dy)
    BY <1>3, <1>6
  <2>2. M(c) \in SUBSET Cells(shape) /\ N(c) \in SUBSET Cells(shape)
    BY <1>2, <1>6, MonomialsOnTorus
  <2>3. {Shifted(shape, u, dx, dy) : u \in M(c)} = M(d) /\ {Shifted(shape, u, dx, dy) : u \in N(c)} = N(d)
    BY <1>2, <1>6, <2>1, MovedMonomials
  <2>4. Hz(shape)[c + 1] = BesideRight(shape, M(c), N(c)) /\ Hz(shape)[d + 1] = BesideRight(shape, M(d), N(d))
    BY <1>4, <1>6, <2>1
  <2> HIDE DEF M, N, d
  <2>5. {v[u] : u \in BesideRight(shape, M(c), N(c))}
          = BesideRight(shape, {Shifted(shape, u, dx, dy) : u \in M(c)}, {Shifted(shape, u, dx, dy) : u \in N(c)})
    BY <2>2, MovedHalves DEF v
  <2>6. {v[u] : u \in Hz(shape)[c + 1]} = Hz(shape)[d + 1]
    BY <2>3, <2>4, <2>5
  <2> QED
    BY <2>6 DEF d
<1> QED
  BY <1>3, <1>5, <1>6 DEF PreservesGraph, v, a

-----------------------------------------------------------------------------
(* The code.                                                               *)

\* The two quotient bases are what the construction takes them for, and as long as each
\* other.
LEMMA BasesFacts ==
  ASSUME NEW n \in Nat, NEW m \in Nat,
         NEW hx \in [1..n -> SUBSET (0..(m - 1))], NEW hz \in [1..n -> SUBSET (0..(m - 1))],
         \A i, j \in 1..n : ~OverlapOdd(hx[i], hz[j])
  PROVE  /\ IsBases(QuotientBasis(hz, hx, m), QuotientBasis(hx, hz, m), hx, hz, n, m,
                    Len(QuotientBasis(hz, hx, m)))
         /\ Len(QuotientBasis(hz, hx, m)) = m - Rank2(hx, m) - Rank2(hz, m)
<1> DEFINE found == QuotientBasis(hz, hx, m)
           lz == QuotientBasis(hx, hz, m)
           W == 0..(m - 1)
           k == Len(found)
<1>1. \A i, j \in 1..n : ~OverlapOdd(hz[j], hx[i])
  <2> SUFFICES ASSUME NEW i \in 1..n, NEW j \in 1..n PROVE ~OverlapOdd(hz[j], hx[i])
    OBVIOUS
  <2>1. IsFiniteSet(hz[j])
    BY ColumnsFinite
  <2>2. OverlapOdd(hx[i], hz[j]) <=> OverlapOdd(hz[j], hx[i])
    BY <2>1, OverlapLinear
  <2> QED
    BY <2>2
<1>2. IsQuotient(found, hz, hx, n, m)
  BY QuotientFacts
<1>3. IsQuotient(lz, hx, hz, n, m)
  BY <1>1, QuotientFacts
<1> HIDE DEF found, lz
<1>4. Rank2(hx, m) \in Nat /\ Rank2(hz, m) \in Nat
  BY RankBasis
<1>5. k = m - Rank2(hx, m) - Rank2(hz, m) /\ Len(lz) = k
  <2>1. k = m - Rank2(hz, m) - Rank2(hx, m) /\ Len(lz) = m - Rank2(hx, m) - Rank2(hz, m)
    BY <1>2, <1>3 DEF IsQuotient
  <2> HIDE DEF k
  <2> QED
    BY <1>4, <2>1
<1>6. found \in Seq(KernelOf(hz, n, m)) /\ lz \in Seq(KernelOf(hx, n, m))
  BY <1>2, <1>3 DEF IsQuotient
<1>7. k \in Nat /\ found \in [1..k -> KernelOf(hz, n, m)] /\ lz \in [1..k -> KernelOf(hx, n, m)]
  <2> DEFINE K == KernelOf(hz, n, m)
             L == KernelOf(hx, n, m)
  <2>1. found \in Seq(K) /\ lz \in Seq(L)
    BY <1>6
  <2> HIDE DEF K, L
  <2>2. k \in Nat /\ found \in [1..k -> K] /\ lz \in [1..k -> L]
    BY <1>5, <2>1
  <2> QED
    BY <2>2 DEF K, L
<1>8. \A Q \in SUBSET (1..k) : SumOf(found, Q, W) \in SpanOf(hx, 1..n, W) => Q = {}
  BY <1>2 DEF IsQuotient, ApartFrom
<1>9. KernelOf(hz, n, m) = JointSpan(hx, n, found, k, W) /\ KernelOf(hx, n, m) = JointSpan(hz, n, lz, k, W)
  BY <1>2, <1>3, <1>5 DEF IsQuotient
<1>10. IsBases(found, lz, hx, hz, n, m, k)
  BY <1>7, <1>8, <1>9 DEF IsBases
<1> QED
  BY <1>5, <1>10 DEF found, lz

\* A vector without a Z syndrome that meets every Z logical evenly is a sum of X checks.
LEMMA EvenIsStabilizer ==
  ASSUME NEW n \in Nat, NEW m \in Nat, NEW k, NEW found, NEW lz, NEW hx, NEW hz,
         IsBases(found, lz, hx, hz, n, m, k),
         NEW v \in KernelOf(hz, n, m), \A j \in 1..k : ~OverlapOdd(v, lz[j])
  PROVE  v \in SpanOf(hx, 1..n, 0..(m - 1))
<1> DEFINE W == 0..(m - 1)
<1>1. /\ hx \in [1..n -> SUBSET W] /\ hz \in [1..n -> SUBSET W] /\ k \in Nat
      /\ lz \in [1..k -> KernelOf(hx, n, m)]
  BY DEF IsBases
<1>2. lz \in [1..k -> SUBSET W]
  <2>1. KernelOf(hx, n, m) \subseteq SUBSET W
    BY DEF KernelOf
  <2> HIDE DEF W
  <2> QED
    BY <1>1, <2>1
<1>3. v \in SUBSET W
  BY DEF KernelOf
<1>4. v \in KernelOf(lz, k, m)
  BY <1>3 DEF KernelOf
<1>5. \A x \in KernelOf(hx, n, m) : ~OverlapOdd(v, x)
  <2>1. KernelOf(hx, n, m) = JointSpan(hz, n, lz, k, W)
    BY DEF IsBases
  <2>2. \A x \in JointSpan(hz, n, lz, k, W) : ~OverlapOdd(v, x)
    BY <1>1, <1>2, <1>4, PerpOfTogether
  <2> QED
    BY <2>1, <2>2
<1> QED
  BY <1>1, <1>3, <1>5, PerpOfKernel

\* What the logical operators of a code with n checks and m columns are.
ExactLogicals(code, n, m, k) ==
  /\ ~code.singular
  /\ DOMAIN code.lx = 1..k /\ DOMAIN code.lz = 1..k
  /\ Len(code.lx) = k /\ Len(code.lz) = k
  /\ \A i \in 1..k : code.lx[i] \in KernelOf(code.hz, n, m) /\ code.lz[i] \in KernelOf(code.hx, n, m)
  /\ \A i, j \in 1..k : OverlapOdd(code.lx[i], code.lz[j]) <=> i = j
  /\ \A v \in KernelOf(code.hz, n, m) :
       (\A j \in 1..k : ~OverlapOdd(v, code.lz[j])) <=> v \in SpanOf(code.hx, 1..n, 0..(m - 1))
  /\ \A v \in KernelOf(code.hx, n, m) :
       (\A i \in 1..k : ~OverlapOdd(v, code.lx[i])) <=> v \in SpanOf(code.hz, 1..n, 0..(m - 1))

\* The recombined X logicals.
LEMMA RecombinedFacts ==
  ASSUME NEW n \in Nat, NEW m \in Nat, NEW k, NEW found, NEW lz, NEW hx, NEW hz,
         IsBases(found, lz, hx, hz, n, m, k)
  PROVE  LET code == CodeOf(hx, hz, found, lz)
         IN  /\ ~code.singular
             /\ DOMAIN code.lx = 1..k /\ Len(code.lx) = k
             /\ \A i \in 1..k : code.lx[i] \in KernelOf(hz, n, m)
             /\ \A i, j \in 1..k : OverlapOdd(code.lx[i], lz[j]) <=> i = j
<1> DEFINE W == 0..(m - 1)
           C == 0..(k - 1)
           P == PairingOf(found, lz)
           code == CodeOf(hx, hz, found, lz)
           Q(p) == {c + 1 : c \in Inverse2(P).rows[p]}
<1>1. /\ hx \in [1..n -> SUBSET W] /\ hz \in [1..n -> SUBSET W] /\ k \in Nat
      /\ found \in [1..k -> KernelOf(hz, n, m)] /\ lz \in [1..k -> KernelOf(hx, n, m)]
  BY DEF IsBases
<1>2. found \in [1..k -> SUBSET W] /\ lz \in [1..k -> SUBSET W]
  <2>1. KernelOf(hz, n, m) \subseteq SUBSET W /\ KernelOf(hx, n, m) \subseteq SUBSET W
    BY DEF KernelOf
  <2> HIDE DEF W
  <2> QED
    BY <1>1, <2>1
<1>3. IsFiniteSet(W) /\ IsFiniteSet(1..k)
  BY <1>1, ColumnsFinite, FirstNumbers
<1>4. P \in [1..k -> SUBSET C]
  <2>1. DOMAIN found = 1..k /\ DOMAIN lz = 1..k
    BY <1>1
  <2>2. P = [i \in 1..k |-> {j - 1 : j \in {q \in 1..k : OverlapOdd(found[i], lz[q])}}]
    BY <2>1 DEF PairingOf
  <2>3. \A j \in 1..k : j - 1 \in C
    BY <1>1
  <2> HIDE DEF P, C
  <2> QED
    BY <2>2, <2>3
<1>5. LinearlyIndependent(P, 1..k, C)
  BY PairingIndependent
<1> HIDE DEF P
<1>6. /\ ~Inverse2(P).singular
      /\ DOMAIN Inverse2(P).rows = 1..k
      /\ \A p \in 1..k : Q(p) \in SUBSET (1..k) /\ SumOf(P, Q(p), C) = {p - 1}
  BY <1>1, <1>4, <1>5, InverseFacts
<1>7. code = [hx |-> hx, hz |-> hz, lz |-> lz, singular |-> Inverse2(P).singular,
              lx |-> Combine(Inverse2(P).rows, found)]
  BY DEF CodeOf, P, PairingOf
<1>8. ~code.singular
  BY <1>6, <1>7
<1>9. code.lx = [p \in 1..k |-> Added(found, Q(p))]
  BY <1>6, <1>7 DEF Combine
<1> HIDE DEF code
<1>10. DOMAIN code.lx = 1..k
  BY <1>9
<1>11. ASSUME NEW p \in 1..k PROVE code.lx[p] = SumOf(found, Q(p), W)
  <2>1. Q(p) \in SUBSET (1..k)
    BY <1>6
  <2>2. code.lx[p] = Added(found, Q(p))
    BY <1>9
  <2> DEFINE q == Q(p)
  <2> HIDE DEF q, W
  <2>3. \A i \in q : found[i] \subseteq W
    BY <1>2, <2>1 DEF q
  <2>4. Added(found, q) = SumOf(found, q, W)
    BY <2>3, AddedIsSum
  <2> QED
    BY <2>2, <2>4 DEF q
<1>12. ASSUME NEW p \in 1..k PROVE code.lx[p] \in KernelOf(hz, n, m)
  <2> DEFINE K == KernelOf(hz, n, m)
             q == Q(p)
  <2>1. K \subseteq SUBSET W /\ {} \in K /\ \A a, b \in K : SymDiff(a, b) \in K
    BY <1>1, KernelOfSpan DEF KernelOf
  <2>2. \A i \in 1..k : found[i] \in K
    BY <1>1
  <2>3. q \in SUBSET (1..k) /\ code.lx[p] = SumOf(found, q, W)
    BY <1>6, <1>11
  <2> HIDE DEF K, W, q
  <2>4. SpanOf(found, 1..k, W) \subseteq K
    BY <1>3, <2>1, <2>2, SpanWithin
  <2>5. code.lx[p] \in SpanOf(found, 1..k, W)
    BY <2>3 DEF SpanOf
  <2> QED
    BY <2>4, <2>5 DEF K
<1>13. ASSUME NEW i \in 1..k, NEW j \in 1..k PROVE OverlapOdd(code.lx[i], lz[j]) <=> i = j
  <2> DEFINE q == Q(i)
  <2>1. q \in SUBSET (1..k) /\ SumOf(P, q, C) = {i - 1} /\ code.lx[i] = SumOf(found, q, W)
    BY <1>6, <1>11
  <2> HIDE DEF q, W
  <2>2. OverlapOdd(SumOf(found, q, W), lz[j]) <=> j - 1 \in SumOf(P, q, C)
    BY <1>1, <1>2, <1>3, <2>1, PairingOfSum DEF P
  <2>3. j - 1 \in {i - 1} <=> i = j
    OBVIOUS
  <2> QED
    BY <2>1, <2>2, <2>3
<1>14. Len(code.lx) = k
  <2> DEFINE K == KernelOf(hz, n, m)
             f == code.lx
  <2>1. f = [p \in 1..k |-> f[p]] /\ \A p \in 1..k : f[p] \in K
    BY <1>9, <1>12
  <2> HIDE DEF K, f
  <2>2. f \in [1..k -> K]
    BY <2>1
  <2> QED
    BY <1>1, <2>2, LengthOfFunction DEF f
<1> QED
  BY <1>8, <1>10, <1>12, <1>13, <1>14 DEF code

\* The logical bits of an error without a syndrome are zero exactly if it is a stabilizer.
LEMMA LogicalsExact ==
  ASSUME NEW n \in Nat, NEW m \in Nat, NEW k, NEW found, NEW lz, NEW hx, NEW hz,
         IsBases(found, lz, hx, hz, n, m, k)
  PROVE  ExactLogicals(CodeOf(hx, hz, found, lz), n, m, k)
<1> DEFINE W == 0..(m - 1)
           code == CodeOf(hx, hz, found, lz)
           lx == code.lx
           X == KernelOf(hx, n, m)
           Z == KernelOf(hz, n, m)
<1>1. code.hx = hx /\ code.hz = hz /\ code.lz = lz
  BY DEF CodeOf
<1>2. /\ ~code.singular
      /\ DOMAIN lx = 1..k /\ Len(lx) = k
      /\ \A i \in 1..k : lx[i] \in Z
      /\ \A i, j \in 1..k : OverlapOdd(lx[i], lz[j]) <=> i = j
  BY RecombinedFacts
<1> HIDE DEF code
<1>3. /\ hx \in [1..n -> SUBSET W] /\ hz \in [1..n -> SUBSET W] /\ k \in Nat
      /\ lz \in [1..k -> X]
  BY DEF IsBases
<1>4. /\ X \subseteq SUBSET W /\ Z \subseteq SUBSET W
      /\ \A v \in SUBSET W : IsFiniteSet(v)
  BY ColumnsFinite DEF KernelOf
<1>5. X = Perp(SpanOf(hx, 1..n, W), m) /\ Z = Perp(SpanOf(hz, 1..n, W), m)
  BY <1>3, KernelOfSpan
<1>6. /\ \A x \in X : \A s \in SpanOf(hx, 1..n, W) : ~OverlapOdd(x, s)
      /\ \A z \in Z : \A s \in SpanOf(hz, 1..n, W) : ~OverlapOdd(z, s)
  BY <1>5 DEF Perp
<1>7. \A u, v \in SUBSET W : OverlapOdd(u, v) <=> OverlapOdd(v, u)
  <2> HIDE DEF W
  <2> QED
    BY <1>4, OverlapLinear
<1> HIDE DEF lx
<1>8. ASSUME NEW v \in Z
      PROVE  (\A j \in 1..k : ~OverlapOdd(v, lz[j])) <=> v \in SpanOf(hx, 1..n, W)
  <2>1. ASSUME \A j \in 1..k : ~OverlapOdd(v, lz[j]) PROVE v \in SpanOf(hx, 1..n, W)
    BY <2>1, EvenIsStabilizer
  <2>2. ASSUME v \in SpanOf(hx, 1..n, W), NEW j \in 1..k PROVE ~OverlapOdd(v, lz[j])
    <3>1. lz[j] \in X /\ lz[j] \in SUBSET W /\ v \in SUBSET W
      BY <1>3, <1>4
    <3> HIDE DEF X, Z, W
    <3> QED
      BY <1>6, <1>7, <2>2, <3>1
  <2> QED
    BY <2>1, <2>2
<1>9. ASSUME NEW v \in X
      PROVE  (\A i \in 1..k : ~OverlapOdd(v, lx[i])) <=> v \in SpanOf(hz, 1..n, W)
  <2>1. ASSUME \A i \in 1..k : ~OverlapOdd(v, lx[i]) PROVE v \in SpanOf(hz, 1..n, W)
    <3>1. X = JointSpan(hz, n, lz, k, W)
      BY DEF IsBases
    <3>2. PICK s \in SpanOf(hz, 1..n, W), t \in SpanOf(lz, 1..k, W) : v = SymDiff(s, t)
      BY <3>1 DEF JointSpan
    <3>3. PICK J \in SUBSET (1..k) : t = SumOf(lz, J, W)
      BY DEF SpanOf
    <3>4. lz \in [1..k -> SUBSET W] /\ IsFiniteSet(1..k)
      <4>1. IsFiniteSet(1..k)
        BY <1>3, FirstNumbers
      <4> HIDE DEF X, W
      <4> QED
        BY <1>3, <1>4, <4>1
    <3>5. ASSUME NEW i \in J PROVE FALSE
      <4> DEFINE w == lx[i]
      <4>1. i \in 1..k /\ w \in Z /\ w \in SUBSET W /\ IsFiniteSet(w)
        BY <1>2, <1>4
      <4>2. ~OverlapOdd(v, w)
        BY <2>1, <4>1
      <4>3. OverlapOdd(v, w) <=> ~(OverlapOdd(s, w) <=> OverlapOdd(t, w))
        <5> HIDE DEF w
        <5> QED
          BY <3>2, <4>1, OverlapLinear
      <4>4. ~OverlapOdd(s, w)
        <5>1. s \in SUBSET W /\ ~OverlapOdd(w, s)
          <6>1. ~OverlapOdd(w, s)
            BY <1>6, <4>1
          <6>2. s \in SUBSET W
            BY DEF SpanOf, SumOf
          <6> QED
            BY <6>1, <6>2
        <5> HIDE DEF w, W
        <5> QED
          BY <1>7, <4>1, <5>1
      <4>5. OverlapOdd(t, w) <=> Odd({j \in J : OverlapOdd(lz[j], w)})
        <5> HIDE DEF w, W
        <5> QED
          BY <3>3, <3>4, <4>1, ParityOfSum
      <4>6. \A j \in J : OverlapOdd(lz[j], w) <=> i = j
        <5> SUFFICES ASSUME NEW j \in J PROVE OverlapOdd(lz[j], w) <=> i = j
          OBVIOUS
        <5>1. j \in 1..k /\ lz[j] \in SUBSET W
          BY <3>4
        <5>2. OverlapOdd(w, lz[j]) <=> i = j
          BY <1>2, <4>1, <5>1
        <5>3. OverlapOdd(w, lz[j]) <=> OverlapOdd(lz[j], w)
          <6> HIDE DEF w, W
          <6> QED
            BY <1>7, <4>1, <5>1
        <5> QED
          BY <5>2, <5>3
      <4>7. {j \in J : OverlapOdd(lz[j], w)} = {i}
        <5> HIDE DEF w
        <5> QED
          BY <4>6
      <4> QED
        BY <4>2, <4>3, <4>4, <4>5, <4>7, OddSmall
    <3>6. J = {}
      BY <3>5
    <3>7. t = {}
      BY <3>3, <3>6, SumOfNone
    <3>8. v = s
      BY <3>2, <3>7, SymDiffLaws
    <3> QED
      BY <3>8
  <2>2. ASSUME v \in SpanOf(hz, 1..n, W), NEW i \in 1..k PROVE ~OverlapOdd(v, lx[i])
    <3>1. lx[i] \in Z /\ lx[i] \in SUBSET W /\ v \in SUBSET W
      BY <1>2, <1>4
    <3> HIDE DEF X, Z, W
    <3> QED
      BY <1>6, <1>7, <2>2, <3>1
  <2> QED
    BY <2>1, <2>2
<1>10. \A i \in 1..k : lz[i] \in X
  BY <1>3
<1>11. DOMAIN lz = 1..k
  BY <1>3
<1> DEFINE hx2 == code.hx
           hz2 == code.hz
           lz2 == code.lz
<1> HIDE DEF hx2, hz2, lz2
<1>12. hx2 = hx /\ hz2 = hz /\ lz2 = lz
  BY <1>1 DEF hx2, hz2, lz2
<1>13. \A i \in 1..k : lx[i] \in KernelOf(hz2, n, m) /\ lz2[i] \in KernelOf(hx2, n, m)
  BY <1>2, <1>10, <1>12
<1>14. \A i, j \in 1..k : OverlapOdd(lx[i], lz2[j]) <=> i = j
  BY <1>2, <1>12
<1>15. \A v \in KernelOf(hz2, n, m) :
         (\A j \in 1..k : ~OverlapOdd(v, lz2[j])) <=> v \in SpanOf(hx2, 1..n, 0..(m - 1))
  BY <1>8, <1>12
<1>16. \A v \in KernelOf(hx2, n, m) :
         (\A i \in 1..k : ~OverlapOdd(v, lx[i])) <=> v \in SpanOf(hz2, 1..n, 0..(m - 1))
  BY <1>9, <1>12
<1>17. DOMAIN lx = 1..k /\ DOMAIN lz2 = 1..k /\ Len(lx) = k /\ Len(lz2) = k
  <2>1. Len(lz) = k
    <3> HIDE DEF X
    <3> QED
      BY <1>3, LengthOfFunction
  <2> QED
    BY <1>2, <1>11, <1>12, <2>1
<1> HIDE DEF X, Z, W
<1>18. ExactLogicals(code, n, m, k)
  BY <1>2, <1>13, <1>14, <1>15, <1>16, <1>17 DEF ExactLogicals, lx, hx2, hz2, lz2
<1> QED
  BY <1>18 DEF code

\* The sums of the rows, once from all their columns and once column by column.
LEMMA SpanOfRows ==
  ASSUME NEW n \in Nat, NEW W, NEW rows \in [1..n -> SUBSET W]
  PROVE  Span(rows) = SpanOf(rows, 1..n, W)
<1>1. DOMAIN rows = 1..n
  OBVIOUS
<1>2. ASSUME NEW Q \in SUBSET (1..n) PROVE Added(rows, Q) = SumOf(rows, Q, W)
  <2>1. \A q \in Q : rows[q] \subseteq W
    OBVIOUS
  <2> QED
    BY <2>1, AddedIsSum
<1> QED
  BY <1>1, <1>2 DEF Span, SpanOf

\* A code with exact logical operators passes the code's own validation.
LEMMA ExactIsValid ==
  ASSUME NEW n \in Nat, NEW m \in Nat, NEW k \in Nat, NEW code,
         code.hx \in [1..n -> SUBSET (0..(m - 1))], code.hz \in [1..n -> SUBSET (0..(m - 1))],
         \A i, j \in 1..n : ~OverlapOdd(code.hx[i], code.hz[j]),
         ExactLogicals(code, n, m, k)
  PROVE  ValidCode(code, m, k)
<1> DEFINE hx == code.hx
           hz == code.hz
           lx == code.lx
           lz == code.lz
<1>1. /\ DOMAIN lx = 1..k /\ DOMAIN lz = 1..k /\ Len(lx) = k /\ Len(lz) = k
      /\ \A i \in 1..k : lx[i] \in KernelOf(hz, n, m) /\ lz[i] \in KernelOf(hx, n, m)
      /\ \A i, j \in 1..k : OverlapOdd(lx[i], lz[j]) <=> i = j
  BY DEF ExactLogicals
<1>2. DOMAIN hx = 1..n
  OBVIOUS
<1>3. \A i, j \in 1..n : ~OverlapOdd(hx[i], hz[j])
  OBVIOUS
<1> HIDE DEF hx, hz, lx, lz
<1>4. \A i \in 1..k, j \in 1..n : ~OverlapOdd(lx[i], hz[j]) /\ ~OverlapOdd(lz[i], hx[j])
  BY <1>1 DEF KernelOf
<1>5. \A i \in DOMAIN lx, j \in DOMAIN hx : ~OverlapOdd(lx[i], hz[j]) /\ ~OverlapOdd(lz[i], hx[j])
  BY <1>1, <1>2, <1>4
<1>6. \A i \in DOMAIN lx, j \in DOMAIN lz : OverlapOdd(lx[i], lz[j]) <=> i = j
  BY <1>1
<1>7. \A i, j \in DOMAIN hx : ~OverlapOdd(hx[i], hz[j])
  BY <1>2, <1>3
<1> QED
  BY <1>1, <1>5, <1>6, <1>7 DEF ValidCode, hx, hz, lx, lz

\* The construction is exact for every shape.
LEMMA PairedBasisFacts ==
  ASSUME NEW shape, IsShape(shape)
  PROVE  PairedBasis(shape)
<1> DEFINE n == Block(shape)
           m == Width(shape)
           hx == Hx(shape)
           hz == Hz(shape)
           found == QuotientBasis(hz, hx, m)
           lz == QuotientBasis(hx, hz, m)
           k == Len(found)
           code == CodeOf(hx, hz, found, lz)
<1>1. n \in Nat /\ m \in Nat
  BY DEF IsShape, Block, Width
<1>2. /\ hx \in [1..n -> SUBSET (0..(m - 1))] /\ hz \in [1..n -> SUBSET (0..(m - 1))]
      /\ \A i, j \in 1..n : ~OverlapOdd(hx[i], hz[j])
  BY ChecksCommute
<1>3. \A dx \in 0..(shape.ell - 1), dy \in 0..(shape.m - 1) :
        /\ PreservesGraph(hx, VariableAction(shape, dx, dy), CheckAction(shape, dx, dy))
        /\ PreservesGraph(hz, VariableAction(shape, dx, dy), CheckAction(shape, dx, dy))
  BY TranslationsPreserve
<1>4. BuildCode(shape) = code
  BY DEF BuildCode
<1> HIDE DEF n, m, hx, hz
<1>5. IsBases(found, lz, hx, hz, n, m, k) /\ k = m - Rank2(hx, m) - Rank2(hz, m)
  BY <1>1, <1>2, BasesFacts
<1>6. k \in Nat
  BY <1>5 DEF IsBases
<1>7. code.hx = hx /\ code.hz = hz
  BY DEF CodeOf
<1> HIDE DEF found, lz, k
<1>8. ExactLogicals(code, n, m, k)
  BY <1>1, <1>5, LogicalsExact
<1> HIDE DEF code
<1>9. ValidCode(code, m, m - Rank2(code.hx, m) - Rank2(code.hz, m))
  <2>1. ValidCode(code, m, k)
    BY <1>1, <1>2, <1>6, <1>7, <1>8, ExactIsValid
  <2> QED
    BY <1>5, <1>7, <2>1
<1>10. Span(code.hx) = SpanOf(hx, 1..n, 0..(m - 1)) /\ Span(code.hz) = SpanOf(hz, 1..n, 0..(m - 1))
  BY <1>1, <1>2, <1>7, SpanOfRows
<1>11. 2^Rank2(code.hx, m) = Cardinality(Span(code.hx))
  <2>1. Cardinality(SpanOf(hx, 1..n, 0..(m - 1))) = 2^Rank2(hx, m)
    BY <1>1, <1>2, RankIsDimension
  <2> QED
    BY <1>7, <1>10, <2>1
<1> DEFINE Ker(rows) == {v \in SUBSET (0..(m - 1)) : \A r \in DOMAIN rows : ~OverlapOdd(v, rows[r])}
           Trivial(v, logicals) == \A l \in DOMAIN logicals : ~OverlapOdd(v, logicals[l])
<1>12. Ker(code.hx) = KernelOf(hx, n, m) /\ Ker(code.hz) = KernelOf(hz, n, m)
  <2>1. DOMAIN hx = 1..n /\ DOMAIN hz = 1..n
    BY <1>2
  <2> QED
    BY <1>7, <2>1 DEF KernelOf
<1>13. /\ \A v \in KernelOf(hz, n, m) : Trivial(v, code.lz) <=> (v \in SpanOf(hx, 1..n, 0..(m - 1)))
       /\ \A v \in KernelOf(hx, n, m) : Trivial(v, code.lx) <=> (v \in SpanOf(hz, 1..n, 0..(m - 1)))
  <2> DEFINE S == SpanOf(hx, 1..n, 0..(m - 1))
             T == SpanOf(hz, 1..n, 0..(m - 1))
             lx == code.lx
             bz == code.lz
  <2>1. /\ DOMAIN lx = 1..k /\ DOMAIN bz = 1..k
        /\ \A v \in KernelOf(code.hz, n, m) : (\A j \in 1..k : ~OverlapOdd(v, bz[j])) <=> v \in S
        /\ \A v \in KernelOf(code.hx, n, m) : (\A i \in 1..k : ~OverlapOdd(v, lx[i])) <=> v \in T
    BY <1>7, <1>8 DEF ExactLogicals
  <2> HIDE DEF S, T, lx, bz
  <2>2. ASSUME NEW v \in KernelOf(hz, n, m) PROVE Trivial(v, bz) <=> (v \in S)
    <3>1. (\A j \in 1..k : ~OverlapOdd(v, bz[j])) <=> v \in S
      BY <1>7, <2>1
    <3> QED
      BY <2>1, <3>1
  <2>3. ASSUME NEW v \in KernelOf(hx, n, m) PROVE Trivial(v, lx) <=> (v \in T)
    <3>1. (\A j \in 1..k : ~OverlapOdd(v, lx[j])) <=> v \in T
      BY <1>7, <2>1
    <3> QED
      BY <2>1, <3>1
  <2> HIDE DEF Trivial
  <2> QED
    BY <2>2, <2>3 DEF S, T, lx, bz
<1>14. ~code.singular
  BY <1>8 DEF ExactLogicals
<1>15. /\ \A v \in Ker(code.hz) : Trivial(v, code.lz) <=> (v \in Span(code.hx))
       /\ \A v \in Ker(code.hx) : Trivial(v, code.lx) <=> (v \in Span(code.hz))
  <2> HIDE DEF Ker, Trivial
  <2> QED
    BY <1>10, <1>12, <1>13
<1>16. \A dx \in 0..(shape.ell - 1), dy \in 0..(shape.m - 1) :
        /\ PreservesGraph(code.hx, VariableAction(shape, dx, dy), CheckAction(shape, dx, dy))
        /\ PreservesGraph(code.hz, VariableAction(shape, dx, dy), CheckAction(shape, dx, dy))
  BY <1>3, <1>7
<1>17. IsPaired(code, shape)
  BY <1>9, <1>11, <1>14, <1>15, <1>16 DEF IsPaired, m
<1> QED
  BY <1>4, <1>17 DEF PairedBasis

-----------------------------------------------------------------------------
(* The jobs of the library.                                                *)

\* Whatever codes the library is asked to build: each one is paired.
THEOREM CodesAlwaysPaired == JobSpec => []CodesArePaired
<1>1. LegalJob => CodesArePaired
  <2> DEFINE shape == [ell |-> job.ell, m |-> job.m, a |-> job.a, b |-> job.b]
  <2>1. LegalJob /\ Is("code") => IsShape(shape)
    BY DEF LegalJob
  <2> HIDE DEF shape
  <2>2. LegalJob /\ Is("code") => PairedBasis(shape)
    BY <2>1, PairedBasisFacts
  <2> QED
    BY <2>2 DEF CodesArePaired, shape
<1>2. LegalJob /\ [LegalJob']_job => LegalJob'
  BY DEF LegalJob, Is
<1> QED
  BY <1>1, <1>2, PTL DEF JobSpec
=============================================================================

--------------------------- MODULE ReleaseWorkflow ---------------------------
(***************************************************************************)
(* The software decoder as one program: release_workflow.py over           *)
(* unified_stage_controller.py, with the Stage-2 integration and its       *)
(* resident cache (stage2_integration.py), the relay vote                  *)
(* (relay_reference.py) and the candidate order (candidate_score.py).  The *)
(* older controller (telescope.py) is the operator Telescope.  A caller    *)
(* decodes one window after another over one cache.                        *)
(*                                                                         *)
(* A decoder is abstracted to what it returns: nothing, or a correction    *)
(* that either meets the requested syndrome or does not.                   *)
(***************************************************************************)
EXTENDS Integers, Sequences, FiniteSets, SequencesExt, FiniteSetsExt

CONSTANTS
  Calls,           \* what the caller may ask for, see CallType
  Windows,         \* calls made one after another
  StageBudget,     \* work allowed to one stage
  TotalBudget,     \* total_work_budget
  ColdLoad, WarmLoad,   \* cycles of a load of the Stage-2 image
  RelayLegs, Quorum     \* legs of the relay configuration, its quorum

Stages == <<"S1", "S1A", "S2", "S2R", "HOST">>

\* type: GraphType.  target: is the requested syndrome zero, that of the GARI image, or
\* another?  image: the GARI image or "none"; original: does it carry its original graph?
\* identity: is its inverse map the identity?  sections: does the profile name all its
\* sections?  groups: group actions declared?  trials: of a precompiled selection, 0 none.
\* relay, host: are they configured?  budgets: stages that have one.
CallType ==
  [type : {"STATIC", "STATIC_RECOVERY", "CIRCUIT"}, target : {"zero", "image", "other"},
   image : STRING, original : BOOLEAN, identity : BOOLEAN, sections : BOOLEAN,
   groups : BOOLEAN, trials : Nat, relay : BOOLEAN, host : BOOLEAN,
   budgets : SUBSET ToSet(Stages)]

ASSUME WorkflowAssumption ==
  /\ \A c \in Calls : c.type \in {"STATIC", "STATIC_RECOVERY", "CIRCUIT"} /\ c.trials \in Nat
  /\ {Windows, RelayLegs, Quorum} \subseteq Nat \ {0} /\ Quorum <= RelayLegs
  /\ {StageBudget, TotalBudget, ColdLoad, WarmLoad} \subseteq Nat

VARIABLES
  call,        \* the call under way
  returned,    \* what its stages returned, in order
  records,     \* StageExecution records, in order
  total,       \* total_work
  outcome,     \* [status, stage, candidate] once the call has returned
  votes,       \* logical classes of the valid relay candidates, by leg
  cache,       \* Stage2Cache
  windows      \* calls made

wvars == <<call, returned, records, total, outcome, votes, cache, windows>>

NoCandidate == [sat |-> FALSE, valid |-> FALSE, meets |-> FALSE]
\* make_candidate: a correction is valid exactly if it gives the syndrome it is judged by.
Judged(meetsJudge, meetsRequest) ==
  [sat |-> meetsJudge, valid |-> meetsJudge, meets |-> meetsRequest]

Result(status, candidate, work) == [status |-> status, candidate |-> candidate, work |-> work]
Defer(work) == Result("DEFER", NoCandidate, work)
Success(candidate, work) == Result("SUCCESS", candidate, work)
FailInternal(work) == Result("FAIL_INTERNAL", NoCandidate, work)
Raised == Result("raised", NoCandidate, 0)          \* the adapter raised
Malformed == Result("malformed", NoCandidate, 0)    \* no StageResult, or negative work

Pending == [status |-> "pending", stage |-> "none", candidate |-> NoCandidate]
Return(status, stage, candidate) == [status |-> status, stage |-> stage, candidate |-> candidate]

OrderOf(type) == CASE type = "STATIC"          -> SubSeq(Stages, 1, 2)
                   [] type = "STATIC_RECOVERY" -> SubSeq(Stages, 1, 4)
                   [] OTHER                    -> Stages
Order == OrderOf(call.type)

Stage == Order[Len(records) + 1]      \* the stage whose turn it is

EmptyCache == [resident |-> "none", cold |-> 0, warm |-> 0]

\* S0: a zero target ends the call at once.
Begin(c) ==
  /\ call' = c
  /\ returned' = <<>> /\ records' = <<>> /\ total' = 0 /\ votes' = <<>>
  /\ outcome' = IF c.target = "zero" THEN Return("SUCCESS", "S0", NoCandidate) ELSE Pending

WorkflowInit ==
  /\ call \in Calls
  /\ returned = <<>> /\ records = <<>> /\ total = 0 /\ votes = <<>>
  /\ outcome = IF call.target = "zero" THEN Return("SUCCESS", "S0", NoCandidate) ELSE Pending
  /\ cache = EmptyCache /\ windows = 1

-----------------------------------------------------------------------------
(* The controller: what it makes of a stage's result.                      *)

\* Mutant: only the total is charged.
OverBudgetTotal(result) == total + result.work > TotalBudget

OverBudget(result) == result.work > StageBudget \/ total + result.work > TotalBudget

Acceptable(result) == result.candidate.valid /\ result.candidate.sat

StatusOf(result) ==
  CASE result.status \in {"raised", "malformed"}             -> "FAIL_INTERNAL"
    [] OverBudget(result)                                    -> "FAIL_INTERNAL"
    [] result.status = "SUCCESS" /\ ~Acceptable(result)      -> "FAIL_INTERNAL"
    [] OTHER                                                 -> result.status

\* Mutant: a failed stage is passed over.
ConcludeOnward(result) ==
  LET status == StatusOf(result) IN
  /\ returned' = Append(returned, result)
  /\ total' = total + result.work
  /\ records' = Append(records, [stage |-> Stage, status |-> status, work |-> result.work])
  /\ outcome' = IF status = "SUCCESS" THEN Return("SUCCESS", Stage, result.candidate)
                ELSE IF Len(records') = Len(Order) THEN Return("DEFER", "none", NoCandidate)
                ELSE Pending
  /\ UNCHANGED <<call, windows>>

Conclude(result) ==
  LET status == StatusOf(result) IN
  /\ returned' = Append(returned, result)
  /\ total' = total + result.work
  /\ records' = Append(records, [stage |-> Stage, status |-> status, work |-> result.work])
  /\ outcome' = IF status = "SUCCESS" THEN Return(status, Stage, result.candidate)
                ELSE IF status = "FAIL_INTERNAL" \/ Len(records') = Len(Order)
                  THEN Return(status, "none", NoCandidate)
                ELSE Pending
  /\ UNCHANGED <<call, windows>>

Turn(stage) == outcome.status = "pending" /\ Stage = stage

\* No budget is configured for the stage: the call fails before the stage runs.
MissingBudget ==
  /\ outcome.status = "pending" /\ Stage \notin call.budgets
  /\ outcome' = Return("FAIL_INTERNAL", "none", NoCandidate)
  /\ UNCHANGED <<call, returned, records, total, votes, cache, windows>>

Budgeted(stage) == Turn(stage) /\ stage \in call.budgets

-----------------------------------------------------------------------------
(* The stages.                                                             *)

Decoded == Judged(TRUE, TRUE)

\* The hybrid decoder: success, or no accepted candidate.
RunS1 ==
  /\ Budgeted("S1")
  /\ \E work \in 0..1 : Conclude(Success(Decoded, work)) \/ Conclude(Defer(work))
  /\ UNCHANGED <<votes, cache>>

\* Four group-selected trials.  Compiling a selection may fail, and a precompiled one
\* must have four; without declared actions the stage defers.
RunS1A ==
  /\ Budgeted("S1A")
  /\ CASE ~call.groups              -> Conclude(Defer(0))
       [] call.groups /\ call.trials \notin {0, 4} -> Conclude(FailInternal(0))
       [] OTHER ->
            \/ \E work \in 0..2 : Conclude(Success(Decoded, work)) \/ Conclude(Defer(work))
            \/ call.trials = 0 /\ Conclude(FailInternal(0))
  /\ UNCHANGED <<votes, cache>>

Load(image) ==
  IF cache.resident = image THEN [cache EXCEPT !.warm = @ + 1]
  ELSE [resident |-> image, cold |-> cache.cold + 1, warm |-> cache.warm]

\* Are the variables of the inverse-mapped correction in the order of the graph it is judged
\* by?  Without the original graph that is the image, whose own order the map undoes.
JudgedInOrder == call.original \/ call.identity

\* The syndrome the inverse-mapped correction gives on that graph: the requested one, or
\* any if the map moved its variables away from the checks.
GivenSyndromes == IF JudgedInOrder THEN {call.target} ELSE {"image", "other", "third"}

\* Mutant: the inverse-mapped candidate is not validated again.
Stage2CandidatesTrusted == {Judged(TRUE, given = call.target) : given \in GivenSyndromes}

\* B07 judges it by the syndrome the graph carries, never by the requested one.
Stage2Candidates == {Judged(given = "image", given = call.target) : given \in GivenSyndromes}

\* run_gari succeeds only if the inverse correction also meets the syndrome the original
\* graph carries, which another target cannot.
GariSuccess(decoded) == decoded /\ (call.original => call.target = "image")

RunS2 ==
  /\ Budgeted("S2")
  /\ IF call.image = "none" THEN Conclude(Defer(0)) /\ UNCHANGED cache
     ELSE IF ~call.sections THEN Conclude(FailInternal(0)) /\ UNCHANGED cache
     ELSE /\ cache' = Load(call.image)
          /\ \E decoded \in BOOLEAN, candidate \in Stage2Candidates :
               LET work == IF cache'.warm > cache.warm THEN WarmLoad ELSE ColdLoad IN
               Conclude(IF ~GariSuccess(decoded) THEN Defer(work)
                        ELSE IF candidate.sat THEN Success(candidate, work)
                        ELSE FailInternal(work))
  /\ UNCHANGED votes

\* The logical class of a leg's valid candidate.
Vote == 0..2

\* Mutant: the first class with the most votes wins a tie.
RelayWinnersFirst(v) ==
  LET count(k) == Cardinality({l \in DOMAIN v : v[l] = k}) IN
  {k \in Vote : /\ count(k) >= Quorum
               /\ \A j \in Vote : count(j) < count(k) \/ (count(j) = count(k) /\ k <= j)}

RelayWinners(v) ==
  LET count(k) == Cardinality({l \in DOMAIN v : v[l] = k}) IN
  {k \in Vote : count(k) >= Quorum /\ \A j \in Vote : count(j) <= count(k)}

\* run_relay: every leg starts from the same checkpoint; no valid leg, no quorum and a
\* tie all defer.
RunS2R ==
  /\ Budgeted("S2R")
  /\ IF ~call.relay THEN Conclude(Defer(0)) /\ UNCHANGED votes
     ELSE \E valid \in SUBSET (1..RelayLegs) : \E v \in [valid -> Vote] :
            /\ votes' = v
            /\ Conclude(IF valid # {} /\ Cardinality(RelayWinners(v)) = 1
                          THEN Success(Decoded, 1) ELSE Defer(1))
  /\ UNCHANGED cache

\* The caller's host adapter: anything.
HostCandidates ==
  {c \in [sat : BOOLEAN, valid : BOOLEAN, meets : BOOLEAN] : c.meets = c.sat}

HostResults ==
  [status : {"SUCCESS"}, candidate : HostCandidates, work : {0, 1, 3}]
    \cup {Defer(1), FailInternal(1), Raised, Malformed}

RunHost ==
  /\ Budgeted("HOST")
  /\ IF call.host THEN \E r \in HostResults : Conclude(r) ELSE Conclude(Defer(0))
  /\ UNCHANGED <<votes, cache>>

\* The next window, with the cache the last one left.
NextWindow ==
  /\ outcome.status # "pending" /\ windows < Windows
  /\ windows' = windows + 1
  /\ \E c \in Calls : Begin(c)
  /\ UNCHANGED cache

WorkflowStep ==
  \/ MissingBudget \/ RunS1 \/ RunS1A \/ RunS2 \/ RunS2R \/ RunHost \/ NextWindow

WorkflowSpec == WorkflowInit /\ [][WorkflowStep]_wvars

-----------------------------------------------------------------------------
(* run_telescope: the stage order of CIRCUIT, one budget, no conversion of *)
(* exceptions; a result it was not given counts as a defer.                *)

TelescopeStep(trace, result) ==
  LET work == trace.work + result.work IN
  IF trace.status # "running" THEN trace
  ELSE [work |-> work, stages |-> trace.stages + 1,
        status |->
          IF \/ work > TotalBudget \/ result.status = "FAIL_INTERNAL"
             \/ result.status = "SUCCESS" /\ ~result.candidate.sat THEN "FAIL_INTERNAL"
          ELSE IF result.status = "SUCCESS" THEN "SUCCESS" ELSE "running"]

TelescopeStart == [work |-> 0, stages |-> 0, status |-> "running"]
TelescopeTrace(results) == FoldLeft(TelescopeStep, TelescopeStart, results)

Telescope(results) ==
  [TelescopeTrace(results) EXCEPT !.status = IF @ = "running" THEN "DEFER" ELSE @]

-----------------------------------------------------------------------------
(* Properties.                                                             *)

Returned == outcome.status # "pending"

WorkOf(executions) == FoldLeft(LAMBDA s, r : s + r.work, 0, executions)

\* Where B07 cannot tell: the image lacks its original graph, its map moves variables, and
\* it is bound to another syndrome than the requested one.  A correction of the request that
\* comes back in the wrong order and gives the image's syndrome there is taken for a success.
Untold(stage) == stage = "S2" /\ ~JudgedInOrder /\ call.target # "image"

\* A correction that one of the program's own stages put out for the requested window
\* gives the requested syndrome, also when the resident Stage-2 image was bound to another
\* one, lacks its original graph or renumbers the variables; only where all three come
\* together may it give the image's instead.
AcceptedMeetsRequest ==
  (outcome.status = "SUCCESS" /\ outcome.stage \notin {"S0", "HOST"}) =>
    outcome.candidate.meets \/ Untold(outcome.stage)

\* A later stage runs only after an explicit defer of every earlier one, a success is
\* paid for within both budgets, and the trace accounts for all work (q01 controller).
EscalationIsPaidFor ==
  /\ \A i \in DOMAIN records : i < Len(records) => records[i].status = "DEFER"
  /\ total = WorkOf(records)
  /\ outcome.status = "SUCCESS" =>
       /\ total <= TotalBudget
       /\ \A i \in DOMAIN records : records[i].work <= StageBudget
  /\ Returned /\ outcome.stage # "S0" /\ records # <<>> =>
       outcome.status = "SUCCESS" <=> Last(records).status = "SUCCESS"

\* The two controllers agree: over the same results of well-behaved stages within their own
\* budgets run_telescope returns the same status after the same number of stages.
ControllersAgree ==
  (/\ Returned /\ outcome.stage # "S0" /\ call.type = "CIRCUIT"
   /\ ToSet(Stages) \subseteq call.budgets
   /\ \A i \in DOMAIN returned :
        /\ returned[i].status \notin {"raised", "malformed"}
        /\ returned[i].work <= StageBudget
        /\ returned[i].candidate.valid = returned[i].candidate.sat) =>
    LET t == Telescope(returned) IN
    t.status = outcome.status /\ t.stages = Len(records) /\ t.work = total

\* Stage S2R accepts only a class that a quorum of legs chose and that no other class
\* matches; a tie is not broken.
RelayNeedsQuorum ==
  outcome.stage = "S2R" =>
    LET n(k) == Cardinality({l \in DOMAIN votes : votes[l] = k}) IN
    \E k \in Vote : n(k) >= Quorum /\ \A j \in Vote \ {k} : n(j) < n(k)

=============================================================================

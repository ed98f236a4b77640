-------------------------------- MODULE CTail --------------------------------
(***************************************************************************)
(* One request of the resident C tail (tools/c_tail_worker.c: the request  *)
(* loop of main, run_relay_lite_adaptive and run_relay_lite_range).  The   *)
(* min-sum arithmetic is abstracted to its result: a portfolio leg or a    *)
(* Relay-lite set either fails or finds a correction with the requested    *)
(* syndrome, of some logical word and some cost.  Cost stands for the pair *)
(* (prior_cost, weight), which the code orders lexicographically.          *)
(***************************************************************************)
EXTENDS Integers, FiniteSets, FiniteSetsExt

CONSTANTS
  Logicals,        \* logical words a correction may have
  Costs,           \* values of (prior_cost, weight), as ranks
  Settings         \* environments the worker is started with, see SettingsType

\* legs: portfolio legs 0..portfolio_limit-1; fast: GROSS144_C_TAIL_FAST_FIRST;
\* primary, fallback: g_relay_lite_sets and _fallback_sets; stop: g_relay_lite_stop.
SettingsType ==
  {e \in [legs : Nat \ {0}, fast : BOOLEAN, primary : Nat \ {0}, fallback : Nat \ {0},
          stop : Nat] : e.primary <= e.fallback}

ASSUME CTailAssumption == Costs \subseteq Nat /\ Settings \subseteq SettingsType

Rejected == [kind |-> "rejected"]
Candidate(kinds) == [kind : kinds, logical : Logicals, cost : Costs]
PortfolioResult == {Rejected} \cup Candidate({"exact", "bridged"})
RelayResult == {Rejected} \cup Candidate({"relay"})
Accepted(r) == r # Rejected

Legs == {"primary", "escape"}

VARIABLES
  env,         \* the settings of this worker
  pc,          \* "first", "portfolio", "select", "relay", "merge", "done"
  results,     \* per portfolio leg: its result, or Unrun
  runFirst,    \* the selection looks at the legs from here on
  best,        \* the selected portfolio candidate, or Rejected
  legs,        \* per Relay-lite leg: its progress, see NewLeg
  answer

vars == <<env, pc, results, runFirst, best, legs, answer>>

Unrun == [kind |-> "unrun"]
NoAnswer == [kind |-> "none"]

Configs == 0..(env.legs - 1)

\* A Relay-lite leg: the next set, the end of the range, was a set of this range run,
\* how many of them converged, the best correction so far, every correction found.
NewLeg(on) ==
  [on |-> on, set |-> 0, end |-> env.primary, ran |-> FALSE,
   converged |-> 0, best |-> Rejected, found |-> {}]

LegState ==
  [on : BOOLEAN, set : Nat, end : {env.primary, env.fallback}, ran : BOOLEAN,
   converged : Nat, best : RelayResult, found : SUBSET Candidate({"relay"})]

\* Every register stays in range; a leg never leaves its range of sets and never counts
\* more converged sets than it stops at.
TypeOK ==
  /\ env \in Settings
  /\ pc \in {"first", "portfolio", "select", "relay", "merge", "done"}
  /\ results \in [Configs -> PortfolioResult \cup {Unrun}]
  /\ runFirst \in {0, 1}
  /\ best \in PortfolioResult
  /\ legs \in [Legs -> LegState]
  /\ \A l \in Legs :
       /\ legs[l].set <= legs[l].end
       /\ legs[l].converged <= (IF env.stop = 0 THEN 1 ELSE env.stop)
  /\ answer \in PortfolioResult \cup RelayResult \cup {NoAnswer, Unrun}

Init ==
  /\ env \in Settings
  /\ pc = IF env.fast THEN "first" ELSE "portfolio"
  /\ results = [i \in Configs |-> Unrun]
  /\ runFirst = 0
  /\ best = Rejected
  /\ legs = [l \in Legs |-> NewLeg(FALSE)]
  /\ answer = NoAnswer

-----------------------------------------------------------------------------
(* The portfolio.                                                          *)

\* The speculative leg is enough unless it was rejected or bridged.
FirstSuffices(r) == r.kind = "exact"

RunFirst ==
  /\ pc = "first"
  /\ \E r \in PortfolioResult :
       /\ results' = [results EXCEPT ![0] = r]
       /\ IF FirstSuffices(r)
            THEN pc' = "select" /\ UNCHANGED runFirst
            ELSE pc' = "portfolio" /\ runFirst' = 1
  /\ UNCHANGED <<env, best, legs, answer>>

\* The legs run at once, each on arrays of its own: only the set of results matters.
RunPortfolio ==
  /\ pc = "portfolio"
  /\ \E r \in [{i \in Configs : i >= runFirst} -> PortfolioResult] :
       results' = [i \in Configs |-> IF i >= runFirst THEN r[i] ELSE results[i]]
  /\ pc' = "select"
  /\ UNCHANGED <<env, runFirst, best, legs, answer>>

\* What the selection loops look at: the legs run_first..run_last-1.
SelectedLegs == {i \in Configs : i >= runFirst /\ results[i] \notin {Unrun, Rejected}}
Selected == {results[i] : i \in SelectedLegs}

\* Mutant: cost alone decides.
PreferredCost(a, b) == a.cost < b.cost

\* The order of the selection: unbridged before bridged, then the cost.
Preferred(a, b) ==
  \/ a.kind = "exact" /\ b.kind = "bridged"
  \/ a.kind = b.kind /\ a.cost < b.cost

Diverse == Cardinality({r.logical : r \in Selected}) > 1

\* Among equals the earliest leg wins.
Winner ==
  results[Min({i \in SelectedLegs : \A j \in SelectedLegs : ~Preferred(results[j], results[i])})]

Select ==
  /\ pc = "select"
  /\ best' = IF Selected = {} THEN Rejected ELSE Winner
  /\ IF best'.kind = "exact" /\ ~Diverse
       THEN /\ pc' = "done" /\ answer' = best'
            /\ UNCHANGED legs
       ELSE /\ pc' = "relay"
            /\ legs' = [l \in Legs |-> NewLeg(Diverse \/ l = "primary")]
            /\ UNCHANGED answer
  /\ UNCHANGED <<env, results, runFirst>>

-----------------------------------------------------------------------------
(* The Relay-lite legs: two OpenMP sections when the legs disagree.        *)

Cheaper(a, b) == b = Rejected \/ a.cost < b.cost

\* The range is over: its end is reached or, tested after each set, enough converged.
RangeOver(s) == s.set = s.end \/ (s.ran /\ s.converged >= env.stop)

NeedsFallback(s) ==
  s.best # Rejected => (best # Rejected /\ s.best.logical # best.logical)

Escalates(s) ==
  s.end = env.primary /\ env.fallback > env.primary /\ NeedsFallback(s)

\* One set of run_relay_lite_range.
RunSet(l) ==
  LET s == legs[l] IN
  /\ pc = "relay" /\ s.on /\ ~RangeOver(s)
  /\ \E r \in RelayResult :
       legs' = [legs EXCEPT ![l] =
         [s EXCEPT !.set = @ + 1,
                   !.ran = TRUE,
                   !.found = @ \cup ({r} \ {Rejected}),
                   !.converged = @ + (IF Accepted(r) THEN 1 ELSE 0),
                   !.best = IF Accepted(r) /\ Cheaper(r, @) THEN r ELSE @]]
  /\ UNCHANGED <<env, pc, results, runFirst, best, answer>>

\* Mutant: the fallback forgets what the primary range found.
FallbackUnseeded(l) ==
  /\ pc = "relay" /\ legs[l].on /\ RangeOver(legs[l]) /\ Escalates(legs[l])
  /\ legs' = [legs EXCEPT ![l].set = env.primary, ![l].end = env.fallback,
                          ![l].ran = FALSE, ![l].converged = 0,
                          ![l].best = Rejected]
  /\ UNCHANGED <<env, pc, results, runFirst, best, answer>>

\* The second call of run_relay_lite_range, seeded with the result of the first.
Fallback(l) ==
  /\ pc = "relay" /\ legs[l].on /\ RangeOver(legs[l]) /\ Escalates(legs[l])
  /\ legs' = [legs EXCEPT ![l].set = env.primary, ![l].end = env.fallback,
                          ![l].ran = FALSE, ![l].converged = 0]
  /\ UNCHANGED <<env, pc, results, runFirst, best, answer>>

\* Mutant: the join waits for a correction.
LegDoneFound(l) == ~legs[l].on \/ (RangeOver(legs[l]) /\ Accepted(legs[l].best))

LegDone(l) == ~legs[l].on \/ (RangeOver(legs[l]) /\ ~Escalates(legs[l]))

Join ==
  /\ pc = "relay" /\ \A l \in Legs : LegDone(l)
  /\ pc' = "merge"
  /\ UNCHANGED <<env, results, runFirst, best, legs, answer>>

-----------------------------------------------------------------------------
(* The decision.                                                           *)

relay == legs["primary"].best
escape == legs["escape"].best

\* Each rescue leg in turn replaces a dearer candidate.
CheapestOf(b) ==
  LET c == IF Accepted(relay) /\ Cheaper(relay, b) THEN relay ELSE b IN
  IF Accepted(escape) /\ Cheaper(escape, c) THEN escape ELSE c

\* Mutant: the portfolio counts for one leg only.
DecideDiverseOneLeg ==
  IF ~Accepted(relay) \/ ~Accepted(escape) THEN CheapestOf(best)
  ELSE IF relay.logical = escape.logical THEN relay
  ELSE IF best # Rejected /\ escape.logical = best.logical THEN best
  ELSE CheapestOf(best)

\* The three-way quorum of the portfolio and the two legs, the two legs first.
DecideDiverse ==
  IF ~Accepted(relay) \/ ~Accepted(escape) THEN CheapestOf(best)
  ELSE IF relay.logical = escape.logical THEN relay
  ELSE IF best # Rejected /\ best.logical \in {relay.logical, escape.logical} THEN best
  ELSE CheapestOf(best)

DecideAlone ==
  IF Accepted(relay) /\ (Cheaper(relay, best) \/ best.kind = "bridged")
    THEN relay ELSE best

\* Without any candidate the answer is the first leg's result, whatever it is.
Merge ==
  /\ pc = "merge"
  /\ LET b == IF Diverse THEN DecideDiverse ELSE DecideAlone IN
       answer' = IF b = Rejected THEN results[0] ELSE b
  /\ pc' = "done"
  /\ UNCHANGED <<env, results, runFirst, best, legs>>

Finished == pc = "done" /\ UNCHANGED vars

Next ==
  \/ RunFirst \/ RunPortfolio \/ Select
  \/ \E l \in Legs : RunSet(l) \/ Fallback(l)
  \/ Join \/ Merge \/ Finished

\* Every section of a parallel region is run, and the region ends with all of them.
Spec ==
  /\ Init /\ [][Next]_vars
  /\ WF_vars(RunFirst \/ RunPortfolio \/ Select \/ Join \/ Merge)
  /\ \A l \in Legs : WF_vars(RunSet(l) \/ Fallback(l))

-----------------------------------------------------------------------------
(* Properties.                                                             *)

\* Every correction that a portfolio leg or a Relay-lite set of this request has found.
Exact == ({results[i] : i \in Configs} \ {Unrun, Rejected}) \cup UNION {legs[l].found : l \in Legs}

\* Whenever any portfolio leg or relay set of the request found a correction with the
\* requested syndrome the answer is one such correction: neither the fast path, nor the
\* fallback range, nor a lost quorum, nor a relay leg that failed throws it away.  When
\* the portfolio did not disagree, the answer is no dearer than any correction the relay
\* sets found, those before an escalation included.
NeverLosesExact ==
  (pc = "done" /\ Exact # {}) =>
    /\ answer \in Exact
    /\ ~Diverse => \A r \in legs["primary"].found : answer.kind = "relay" /\ answer.cost <= r.cost

\* When the portfolio legs disagree and both relay legs are exact, a logical word that
\* two of the three candidates share is the answer's (the three-way quorum).
QuorumRespected ==
  (pc = "done" /\ Diverse /\ Accepted(relay) /\ Accepted(escape)) =>
    \A a \in {"best", "primary", "escape"}, b \in {"best", "primary", "escape"} :
      LET c(x) == CASE x = "best" -> best [] x = "primary" -> relay [] OTHER -> escape IN
      (a # b /\ c(a).logical = c(b).logical) => answer.logical = c(a).logical

\* A bridged correction is answered only when no selected leg had an unbridged one and,
\* unless the legs disagreed, the rescue failed.
BridgedIsLastResort ==
  (pc = "done" /\ answer.kind = "bridged") =>
    /\ \A r \in Selected : r.kind = "bridged"
    /\ Diverse \/ relay = Rejected

\* Every request is answered.
Answered == <>(pc = "done")

=============================================================================

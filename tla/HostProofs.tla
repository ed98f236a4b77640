------------------------------ MODULE HostProofs ------------------------------
(***************************************************************************)
(* Proofs about the host's programs.                                       *)
(*                                                                         *)
(* CTail, for any logical words, costs and settings: type correctness,     *)
(* that an exact correction is never thrown away, that the quorum decides, *)
(* and that a bridged correction is the last resort.                       *)
(*                                                                         *)
(* Campaign, for any number of shots, any batch size, any case limit and   *)
(* bound, and any number of campaigns over one build directory: what its   *)
(* counters, its failure cases and its exit code say of the shots.         *)
(***************************************************************************)
EXTENDS CTail, Campaign, TLAPS, Induction

-----------------------------------------------------------------------------
(* The C tail: the selection.                                              *)

\* A selected leg's result is a correction.
LEMMA SelectedAreCandidates ==
  ASSUME TypeOK
  PROVE  /\ SelectedLegs \subseteq Nat
         /\ \A i \in SelectedLegs : results[i] \in Candidate({"exact", "bridged"})
<1>1. env.legs \in Nat
  BY CTailAssumption DEF TypeOK, SettingsType
<1>2. Configs \subseteq Nat
  BY <1>1 DEF Configs
<1> QED
  BY <1>2 DEF TypeOK, SelectedLegs, PortfolioResult

\* Some selected leg has no better one beside it: the cheapest of the unbridged ones or,
\* without any, of the bridged ones.
LEMMA SomeLegIsBest ==
  ASSUME TypeOK, SelectedLegs # {}
  PROVE  \E i \in SelectedLegs : \A j \in SelectedLegs : ~Preferred(results[j], results[i])
<1> DEFINE Plain == {i \in SelectedLegs : results[i].kind = "exact"}
           CostsOf(S) == {results[i].cost : i \in S}
<1>1. \A i \in SelectedLegs : results[i].kind \in {"exact", "bridged"} /\ results[i].cost \in Nat
  BY SelectedAreCandidates, CTailAssumption DEF Candidate
<1>2. CASE Plain # {}
  <2>1. CostsOf(Plain) \in SUBSET Nat /\ CostsOf(Plain) # {}
    BY <1>1, <1>2
  <2>2. PICK c \in CostsOf(Plain) : \A d \in CostsOf(Plain) : c <= d
    BY <2>1, LeastElement
  <2>3. PICK i \in Plain : results[i].cost = c
    BY <2>2
  <2>4. ASSUME NEW j \in SelectedLegs PROVE ~Preferred(results[j], results[i])
    <3>1. CASE j \in Plain
      <4>1. results[j].cost \in CostsOf(Plain)
        BY <3>1
      <4>2. results[i].cost <= results[j].cost
        BY <4>1, <2>2, <2>3
      <4> QED
        BY <1>1, <2>3, <3>1, <4>2 DEF Preferred
    <3>2. CASE j \notin Plain
      BY <1>1, <2>3, <3>2 DEF Preferred
    <3> QED
      BY <3>1, <3>2
  <2> QED
    BY <2>3, <2>4
<1>3. CASE Plain = {}
  <2>1. CostsOf(SelectedLegs) \in SUBSET Nat /\ CostsOf(SelectedLegs) # {}
    BY <1>1
  <2>2. PICK c \in CostsOf(SelectedLegs) : \A d \in CostsOf(SelectedLegs) : c <= d
    BY <2>1, LeastElement
  <2>3. PICK i \in SelectedLegs : results[i].cost = c
    BY <2>2
  <2>4. ASSUME NEW j \in SelectedLegs PROVE ~Preferred(results[j], results[i])
    <3>1. results[j].cost \in CostsOf(SelectedLegs)
      OBVIOUS
    <3>2. results[i].cost <= results[j].cost
      BY <3>1, <2>2, <2>3
    <3> QED
      BY <1>1, <1>3, <2>3, <3>2 DEF Preferred
  <2> QED
    BY <2>3, <2>4
<1> QED
  BY <1>2, <1>3

\* The winner is selected, and nothing selected is preferred to it.
LEMMA WinnerIsBest ==
  ASSUME TypeOK, SelectedLegs # {}
  PROVE  Winner \in Selected /\ \A r \in Selected : ~Preferred(r, Winner)
<1> DEFINE W == {i \in SelectedLegs : \A j \in SelectedLegs : ~Preferred(results[j], results[i])}
<1>1. W \in SUBSET Nat /\ W # {}
  BY SomeLegIsBest, SelectedAreCandidates
<1>2. Min(W) \in W
  <2>1. \E m \in W : \A n \in W : m <= n
    BY <1>1, LeastElement
  <2> QED
    BY <2>1 DEF Min
<1>3. Winner = results[Min(W)]
  BY DEF Winner
<1> QED
  BY <1>2, <1>3 DEF Selected

-----------------------------------------------------------------------------
(* Type correctness.                                                       *)

\* Before the first set of a range nothing of it has converged.
CountInv == \A l \in Legs : ~legs[l].ran => legs[l].converged = 0

\* What one set does to its leg.
LEMMA RunSetEffect ==
  ASSUME TypeOK, NEW l \in Legs, RunSet(l)
  PROVE  \E r \in RelayResult :
           /\ legs' = [legs EXCEPT ![l] = legs'[l]]
           /\ legs'[l] \in LegState
           /\ legs'[l].set = legs[l].set + 1 /\ legs'[l].end = legs[l].end
           /\ legs'[l].ran /\ legs'[l].on
           /\ legs'[l].converged = legs[l].converged + (IF r # Rejected THEN 1 ELSE 0)
           /\ legs'[l].found = legs[l].found \cup ({r} \ {Rejected})
           /\ legs'[l].best = IF r # Rejected /\ Cheaper(r, legs[l].best) THEN r
                             ELSE legs[l].best
<1>1. PICK r \in RelayResult :
        legs' = [legs EXCEPT ![l] =
          [legs[l] EXCEPT !.set = legs[l].set + 1,
                   !.ran = TRUE,
                   !.found = legs[l].found \cup ({r} \ {Rejected}),
                   !.converged = legs[l].converged + (IF Accepted(r) THEN 1 ELSE 0),
                   !.best = IF Accepted(r) /\ Cheaper(r, legs[l].best) THEN r ELSE legs[l].best]]
  BY DEF RunSet
<1>2. legs[l] \in LegState /\ legs[l].on
  BY DEF TypeOK, RunSet
<1>3. {r} \ {Rejected} \subseteq Candidate({"relay"})
  BY DEF RelayResult
<1>4. legs'[l] = [legs[l] EXCEPT !.set = legs[l].set + 1,
                   !.ran = TRUE,
                   !.found = legs[l].found \cup ({r} \ {Rejected}),
                   !.converged = legs[l].converged + (IF Accepted(r) THEN 1 ELSE 0),
                   !.best = IF Accepted(r) /\ Cheaper(r, legs[l].best) THEN r ELSE legs[l].best]
  BY <1>1 DEF TypeOK
<1>5. legs' = [legs EXCEPT ![l] = legs'[l]]
  BY <1>1, <1>4
<1>6. /\ legs'[l].set = legs[l].set + 1 /\ legs'[l].end = legs[l].end
      /\ legs'[l].ran = TRUE /\ legs'[l].on = legs[l].on
      /\ legs'[l].converged = legs[l].converged + (IF r # Rejected THEN 1 ELSE 0)
      /\ legs'[l].found = legs[l].found \cup ({r} \ {Rejected})
      /\ legs'[l].best = IF r # Rejected /\ Cheaper(r, legs[l].best) THEN r ELSE legs[l].best
  BY <1>2, <1>4 DEF LegState, Accepted
<1>7. legs'[l] \in LegState
  <2> DEFINE n == [on |-> legs[l].on, set |-> legs[l].set + 1, end |-> legs[l].end,
                   ran |-> TRUE,
                   converged |-> legs[l].converged + (IF Accepted(r) THEN 1 ELSE 0),
                   best |-> IF Accepted(r) /\ Cheaper(r, legs[l].best) THEN r
                            ELSE legs[l].best,
                   found |-> legs[l].found \cup ({r} \ {Rejected})]
  <2>1. legs'[l] = n
    BY <1>2, <1>4, Zenon DEF LegState
  <2>2. /\ legs[l].on \in BOOLEAN /\ legs[l].end \in {env.primary, env.fallback}
        /\ legs[l].set \in Nat /\ legs[l].converged \in Nat
        /\ legs[l].best \in RelayResult /\ legs[l].found \in SUBSET Candidate({"relay"})
    BY <1>2 DEF LegState
  <2>3. /\ legs[l].set + 1 \in Nat
        /\ legs[l].converged + (IF Accepted(r) THEN 1 ELSE 0) \in Nat
        /\ (IF Accepted(r) /\ Cheaper(r, legs[l].best) THEN r ELSE legs[l].best) \in RelayResult
        /\ legs[l].found \cup ({r} \ {Rejected}) \in SUBSET Candidate({"relay"})
    BY <2>2, <1>1, <1>3
  <2>4. n \in LegState
    BY <2>2, <2>3, Zenon DEF LegState
  <2> QED
    BY <2>1, <2>4, Zenon
<1> QED
  BY <1>2, <1>5, <1>6, <1>7

\* What the second call does to its leg.
LEMMA FallbackEffect ==
  ASSUME TypeOK, NEW l \in Legs, Fallback(l)
  PROVE  /\ legs' = [legs EXCEPT ![l] = legs'[l]]
         /\ legs'[l] \in LegState
         /\ legs'[l].set = env.primary /\ legs'[l].end = env.fallback
         /\ ~legs'[l].ran /\ legs'[l].on /\ legs'[l].converged = 0
         /\ legs'[l].found = legs[l].found /\ legs'[l].best = legs[l].best
<1>1. env.primary \in Nat /\ env.fallback \in Nat
  BY CTailAssumption DEF TypeOK, SettingsType
<1>2. legs[l] \in LegState /\ legs[l].on
  BY DEF TypeOK, Fallback
<1>3. legs'[l] = [legs[l] EXCEPT !.set = env.primary, !.end = env.fallback,
                                 !.ran = FALSE, !.converged = 0]
  BY DEF TypeOK, Fallback
<1>4. legs' = [legs EXCEPT ![l] = legs'[l]]
  BY <1>3 DEF TypeOK, Fallback
<1>5. legs'[l] \in LegState
  <2> DEFINE n == [on |-> legs[l].on, set |-> env.primary, end |-> env.fallback,
                   ran |-> FALSE, converged |-> 0, best |-> legs[l].best,
                   found |-> legs[l].found]
  <2>1. legs'[l] = n
    BY <1>2, <1>3, Zenon DEF LegState
  <2>2. /\ legs[l].on \in BOOLEAN
        /\ legs[l].best \in RelayResult /\ legs[l].found \in SUBSET Candidate({"relay"})
    BY <1>2 DEF LegState
  <2>3. n \in LegState
    BY <1>1, <2>2, Zenon DEF LegState
  <2> QED
    BY <2>1, <2>3, Zenon
<1>6. /\ legs'[l].set = env.primary /\ legs'[l].end = env.fallback
      /\ legs'[l].ran = FALSE /\ legs'[l].on = legs[l].on /\ legs'[l].converged = 0
      /\ legs'[l].found = legs[l].found /\ legs'[l].best = legs[l].best
  BY <1>2, <1>3 DEF LegState
<1> QED
  BY <1>2, <1>4, <1>5, <1>6

\* New legs are in range.
LEMMA NewLegTyped ==
  ASSUME env \in SettingsType, NEW on \in BOOLEAN
  PROVE  /\ NewLeg(on) \in LegState
         /\ NewLeg(on).set = 0 /\ NewLeg(on).end = env.primary
         /\ NewLeg(on).converged = 0 /\ NewLeg(on).on = on
         /\ NewLeg(on).best = Rejected /\ NewLeg(on).found = {}
<1>1. env.primary \in Nat /\ Rejected \in RelayResult
  BY DEF RelayResult, SettingsType
<1>2. NewLeg(on) \in LegState
  BY <1>1, Zenon DEF LegState, NewLeg
<1> QED
  BY <1>2, Zenon DEF NewLeg

\* The initial state is typed.
LEMMA TypeInit == Init => TypeOK /\ CountInv
<1> SUFFICES ASSUME Init PROVE TypeOK /\ CountInv
  OBVIOUS
<1>1. env \in SettingsType /\ env.primary \in Nat
  BY CTailAssumption DEF Init, SettingsType
<1>2. NewLeg(FALSE) \in LegState
  BY <1>1, NewLegTyped
<1>3. legs \in [Legs -> LegState] /\ \A l \in Legs : legs[l] = NewLeg(FALSE)
  BY <1>2 DEF Init
<1>4. \A l \in Legs : /\ legs[l].set <= legs[l].end
                     /\ legs[l].converged <= (IF env.stop = 0 THEN 1 ELSE env.stop)
                     /\ legs[l].converged = 0
  <2>1. /\ NewLeg(FALSE).set = 0 /\ NewLeg(FALSE).end = env.primary
        /\ NewLeg(FALSE).converged = 0
    BY <1>1, NewLegTyped
  <2>2. env.primary \in Nat /\ env.stop \in Nat
    BY <1>1 DEF SettingsType
  <2>3. \A l \in Legs : /\ legs[l].set = 0 /\ legs[l].end = env.primary
                       /\ legs[l].converged = 0
    BY <1>3, <2>1, Zenon
  <2> QED
    BY <2>2, <2>3
<1> QED
  BY <1>1, <1>3, <1>4 DEF Init, TypeOK, CountInv, PortfolioResult

\* What the settings promise.
LEMMA SettingsFacts ==
  ASSUME TypeOK
  PROVE  /\ env.legs \in Nat \ {0} /\ env.primary \in Nat /\ env.fallback \in Nat
         /\ env.stop \in Nat /\ env.primary <= env.fallback
BY CTailAssumption DEF TypeOK, SettingsType

\* The relay steps keep the legs in range.
LEMMA LegsStep ==
  ASSUME TypeOK, CountInv, UNCHANGED env, NEW l \in Legs, RunSet(l) \/ Fallback(l)
  PROVE  /\ legs' \in [Legs -> LegState]
         /\ \A k \in Legs :
              /\ legs'[k].set <= legs'[k].end
              /\ legs'[k].converged <= (IF env.stop = 0 THEN 1 ELSE env.stop)
              /\ ~legs'[k].ran => legs'[k].converged = 0
<1>1. legs' = [legs EXCEPT ![l] = legs'[l]] /\ legs'[l] \in LegState
  BY RunSetEffect, FallbackEffect
<1>2. legs' \in [Legs -> LegState] /\ \A k \in Legs \ {l} : legs'[k] = legs[k]
  BY <1>1 DEF TypeOK
<1>3. /\ legs'[l].set <= legs'[l].end
      /\ legs'[l].converged <= (IF env.stop = 0 THEN 1 ELSE env.stop)
      /\ ~legs'[l].ran => legs'[l].converged = 0
  <2>1. CASE RunSet(l)
    <3>1. legs[l].set \in Nat /\ legs[l].end \in Nat /\ legs[l].converged \in Nat
      BY SettingsFacts DEF TypeOK, LegState
    <3>2. legs[l].set < legs[l].end /\ (legs[l].ran => legs[l].converged < env.stop)
      <4>1. legs[l].set <= legs[l].end
        BY DEF TypeOK
      <4>2. legs[l].set # legs[l].end /\ ~(legs[l].ran /\ legs[l].converged >= env.stop)
        BY <2>1, Zenon DEF RunSet, RangeOver
      <4> QED
        BY <3>1, <4>1, <4>2, SettingsFacts
    <3>3. legs[l].converged < (IF env.stop = 0 THEN 1 ELSE env.stop)
      BY <3>1, <3>2, SettingsFacts DEF CountInv
    <3>4. /\ legs'[l].set = legs[l].set + 1 /\ legs'[l].end = legs[l].end /\ legs'[l].ran
          /\ legs'[l].converged \in {legs[l].converged, legs[l].converged + 1}
      BY <2>1, <3>1, RunSetEffect
    <3> QED
      BY <3>1, <3>2, <3>3, <3>4, SettingsFacts
  <2>2. CASE Fallback(l)
    BY <2>2, FallbackEffect, SettingsFacts
  <2> QED
    BY <2>1, <2>2
<1> QED
  BY <1>2, <1>3 DEF TypeOK, CountInv

\* The selection puts a portfolio result into best.
LEMMA BestIsResult ==
  ASSUME TypeOK, Select
  PROVE  best' \in PortfolioResult
<1>1. CASE Selected = {}
  BY <1>1 DEF Select, PortfolioResult
<1>2. CASE Selected # {}
  <2>1. Winner \in Selected
    BY <1>2, WinnerIsBest DEF Selected
  <2>2. Winner \in PortfolioResult
    BY <2>1, SelectedAreCandidates DEF Selected, PortfolioResult
  <2> QED
    BY <1>2, <2>2 DEF Select
<1> QED
  BY <1>1, <1>2

\* Every step keeps the registers in range.
LEMMA TypeStep == TypeOK /\ CountInv /\ [Next]_vars => (TypeOK /\ CountInv)'
<1> SUFFICES ASSUME TypeOK, CountInv, [Next]_vars PROVE (TypeOK /\ CountInv)'
  OBVIOUS
<1>1. CASE RunFirst
  BY <1>1, SettingsFacts DEF RunFirst, TypeOK, CountInv, LegState, Configs
<1>2. CASE RunPortfolio
  BY <1>2 DEF RunPortfolio, TypeOK, CountInv, LegState, Configs
<1>3. CASE Select
  <2>1. best' \in PortfolioResult
    BY <1>3, BestIsResult
  <2>2. CASE best'.kind = "exact" /\ ~Diverse
    BY <1>3, <2>1, <2>2 DEF Select, TypeOK, CountInv, LegState, Configs
  <2>3. CASE ~(best'.kind = "exact" /\ ~Diverse)
    <3>1. legs' = [l \in Legs |-> NewLeg(Diverse \/ l = "primary")]
      BY <1>3, <2>3, Zenon DEF Select
    <3>2. env \in SettingsType
      BY CTailAssumption DEF TypeOK
    <3>3. \A l \in Legs : /\ legs'[l] \in LegState /\ legs'[l].set = 0
                         /\ legs'[l].end = env.primary /\ legs'[l].converged = 0
      BY <3>1, <3>2, NewLegTyped
    <3>4. legs' \in [Legs -> LegState]
      BY <3>1, <3>3
    <3>5. UNCHANGED <<env, results, runFirst, answer>> /\ pc' = "relay"
      BY <1>3, <2>3 DEF Select
    <3> QED
      BY <2>1, <3>3, <3>4, <3>5, SettingsFacts DEF TypeOK, CountInv, LegState, Configs
  <2> QED
    BY <2>2, <2>3
<1>4. ASSUME NEW l \in Legs, RunSet(l) \/ Fallback(l) PROVE (TypeOK /\ CountInv)'
  <2>1. UNCHANGED <<env, pc, results, runFirst, best, answer>>
    BY <1>4 DEF RunSet, Fallback
  <2> QED
    BY <1>4, <2>1, LegsStep DEF TypeOK, CountInv, LegState, Configs
<1>5. CASE Join
  BY <1>5 DEF Join, TypeOK, CountInv, LegState, Configs
<1>6. CASE Merge
  <2>1. relay \in RelayResult /\ escape \in RelayResult
    BY DEF relay, escape, TypeOK, LegState, Legs
  <2>2. CheapestOf(best) \in PortfolioResult \cup RelayResult
    BY <2>1 DEF CheapestOf, TypeOK
  <2>3. DecideDiverse \in PortfolioResult \cup RelayResult
    BY <2>1, <2>2 DEF DecideDiverse, TypeOK
  <2>4. DecideAlone \in PortfolioResult \cup RelayResult
    BY <2>1 DEF DecideAlone, TypeOK
  <2>5. results[0] \in PortfolioResult \cup {Unrun}
    BY SettingsFacts DEF TypeOK, Configs
  <2>6. answer' \in PortfolioResult \cup RelayResult \cup {NoAnswer, Unrun}
    BY <1>6, <2>3, <2>4, <2>5 DEF Merge
  <2> QED
    BY <1>6, <2>6 DEF Merge, TypeOK, CountInv, LegState, Configs
<1>7. CASE Finished \/ UNCHANGED vars
  BY <1>7 DEF Finished, vars, TypeOK, CountInv, LegState, Configs
<1> QED
  BY <1>1, <1>2, <1>3, <1>4, <1>5, <1>6, <1>7 DEF Next

\* The registers of a request stay in range in every reachable state.
THEOREM TypeCorrect == Spec => []TypeOK
<1>1. Init => TypeOK /\ CountInv
  BY TypeInit
<1>2. TypeOK /\ CountInv /\ [Next]_vars => (TypeOK /\ CountInv)'
  BY TypeStep
<1> QED
  BY <1>1, <1>2, PTL DEF Spec

-----------------------------------------------------------------------------
(* What a request has found is used.                                       *)

\* A leg's best is the cheapest of what it has found; nothing runs a leg that is off, no
\* leg is on before the selection, and the escape leg only if the portfolio disagrees.
LegsInv ==
  \A l \in Legs :
    /\ legs[l].best = Rejected => legs[l].found = {}
    /\ legs[l].best # Rejected =>
         legs[l].best \in legs[l].found /\ \A r \in legs[l].found : legs[l].best.cost <= r.cost
    /\ ~legs[l].on => legs[l].found = {}
    /\ pc \in {"first", "portfolio", "select"} => ~legs[l].on
    /\ legs[l].on /\ l = "escape" => Diverse

\* What the selection has settled.
SelectInv ==
  pc \in {"relay", "merge", "done"} =>
    /\ Selected = {} => best = Rejected
    /\ Selected # {} => best \in Selected /\ \A r \in Selected : ~Preferred(r, best)

Decision ==
  LET b == IF Diverse THEN DecideDiverse ELSE DecideAlone IN
  IF b = Rejected THEN results[0] ELSE b

\* Either the selection alone has decided, and no leg was started, or the legs have.
AnswerInv ==
  /\ pc \in {"relay", "merge"} => best.kind # "exact" \/ Diverse
  /\ pc = "done" =>
       \/ /\ best.kind = "exact" /\ ~Diverse /\ answer = best
          /\ \A l \in Legs : legs[l].found = {}
       \/ (best.kind # "exact" \/ Diverse) /\ answer = Decision

TailInv == TypeOK /\ CountInv /\ LegsInv /\ SelectInv /\ AnswerInv

\* A new leg has found nothing.
LEMMA NewLegEmpty ==
  ASSUME NEW on
  PROVE  NewLeg(on).best = Rejected /\ NewLeg(on).found = {} /\ NewLeg(on).on = on
BY Zenon DEF NewLeg

\* Steps that leave results, best and legs alone leave what is said of them.
LEMMA Stable ==
  ASSUME UNCHANGED <<env, results, runFirst, best>>
  PROVE  /\ Selected' = Selected /\ Diverse' = Diverse
         /\ \A r : Preferred(r, best)' = Preferred(r, best)
BY DEF Selected, SelectedLegs, Diverse, Configs

\* Costs are naturals.
LEMMA CostsAreNat ==
  ASSUME TypeOK, NEW l \in Legs
  PROVE  /\ \A r \in legs[l].found : r.cost \in Nat /\ r # Rejected /\ r.kind = "relay"
         /\ \A r \in RelayResult : r # Rejected => r.cost \in Nat /\ r.kind = "relay"
<1>1. legs[l].found \subseteq Candidate({"relay"})
  BY DEF TypeOK, LegState
<1>2. \A r \in Candidate({"relay"}) : r.cost \in Nat /\ r.kind = "relay"
  BY CTailAssumption DEF Candidate
<1>3. \A r \in Candidate({"relay"}) : r # Rejected
  BY <1>2 DEF Rejected
<1> QED
  BY <1>1, <1>2, <1>3 DEF RelayResult

\* Every step keeps LegsInv.
LEMMA LegsInvStep == TypeOK /\ LegsInv /\ [Next]_vars => LegsInv'
<1> SUFFICES ASSUME TypeOK, LegsInv, [Next]_vars PROVE LegsInv'
  OBVIOUS
<1>1. CASE RunFirst \/ RunPortfolio
  <2>1. UNCHANGED legs /\ pc \in {"first", "portfolio"} /\ pc' \in {"portfolio", "select"}
    BY <1>1 DEF RunFirst, RunPortfolio
  <2>2. \A l \in Legs : ~legs[l].on
    BY <2>1 DEF LegsInv
  <2> QED
    BY <2>1, <2>2 DEF LegsInv
<1>2. CASE Select
  <2>1. UNCHANGED <<env, results, runFirst>> /\ pc = "select" /\ pc' \in {"relay", "done"}
    BY <1>2 DEF Select
  <2>2. Diverse' = Diverse
    BY <2>1 DEF Diverse, Selected, SelectedLegs, Configs
  <2>3. CASE UNCHANGED legs
    <3>1. \A l \in Legs : ~legs[l].on
      BY <2>1 DEF LegsInv
    <3> QED
      BY <2>1, <2>3, <3>1 DEF LegsInv
  <2>4. CASE legs' = [l \in Legs |-> NewLeg(Diverse \/ l = "primary")]
    <3>1. \A l \in Legs : /\ legs'[l].best = Rejected /\ legs'[l].found = {}
                         /\ legs'[l].on = (Diverse \/ l = "primary")
      BY <2>4, NewLegEmpty
    <3> QED
      BY <2>1, <2>2, <3>1 DEF LegsInv
  <2> QED
    BY <1>2, <2>3, <2>4, Zenon DEF Select
<1>3. ASSUME NEW l \in Legs, RunSet(l) \/ Fallback(l) PROVE LegsInv'
  <2>1. UNCHANGED <<env, pc, results, runFirst, best>> /\ pc = "relay" /\ legs[l].on
    BY <1>3, Zenon DEF RunSet, Fallback
  <2>2. Diverse' = Diverse
    BY <2>1, Stable
  <2>3. legs' = [legs EXCEPT ![l] = legs'[l]]
    BY <1>3, RunSetEffect, FallbackEffect
  <2>4. \A k \in Legs \ {l} : legs'[k] = legs[k]
    BY <2>3 DEF TypeOK
  <2>5. /\ legs'[l].on
        /\ legs'[l].best = Rejected => legs'[l].found = {}
        /\ legs'[l].best # Rejected =>
             /\ legs'[l].best \in legs'[l].found
             /\ \A r \in legs'[l].found : legs'[l].best.cost <= r.cost
    <3>1. CASE RunSet(l)
      <4>1. PICK r \in RelayResult :
              /\ legs'[l].on
              /\ legs'[l].found = legs[l].found \cup ({r} \ {Rejected})
              /\ legs'[l].best = IF r # Rejected /\ Cheaper(r, legs[l].best) THEN r
                                ELSE legs[l].best
        BY <3>1, RunSetEffect
      <4>2. CASE r = Rejected
        BY <4>1, <4>2 DEF LegsInv
      <4>3. CASE r # Rejected /\ legs[l].best = Rejected
        BY <4>1, <4>3, CostsAreNat DEF LegsInv, Cheaper
      <4>4. CASE r # Rejected /\ legs[l].best # Rejected
        <5>1. /\ r.cost \in Nat /\ legs[l].best.cost \in Nat
              /\ \A f \in legs[l].found : f.cost \in Nat /\ legs[l].best.cost <= f.cost
              /\ legs[l].best \in legs[l].found
          BY <4>4, CostsAreNat DEF LegsInv
        <5>2. legs'[l].found = legs[l].found \cup {r}
          BY <4>1, <4>4
        <5>3. legs'[l].best = IF r.cost < legs[l].best.cost THEN r ELSE legs[l].best
          BY <4>1, <4>4 DEF Cheaper
        <5>4. CASE r.cost < legs[l].best.cost
          BY <4>1, <5>1, <5>2, <5>3, <5>4
        <5>5. CASE ~(r.cost < legs[l].best.cost)
          <6>1. legs'[l].best = legs[l].best
            BY <5>3, <5>5
          <6>2. legs[l].best.cost <= r.cost
            BY <5>1, <5>5
          <6>3. \A f \in legs'[l].found : legs[l].best.cost <= f.cost
            BY <5>1, <5>2, <6>2
          <6>4. legs[l].best \in legs'[l].found
            BY <5>1, <5>2
          <6> QED
            BY <4>1, <4>4, <6>1, <6>3, <6>4, Zenon
        <5> QED
          BY <5>4, <5>5
      <4> QED
        BY <4>2, <4>3, <4>4
    <3>2. CASE Fallback(l)
      BY <3>2, FallbackEffect DEF LegsInv
    <3> QED
      BY <1>3, <3>1, <3>2
  <2>6. legs[l].on /\ l = "escape" => Diverse
    BY DEF LegsInv
  <2> QED
    BY <2>1, <2>2, <2>4, <2>5, <2>6 DEF LegsInv
<1>4. CASE Join \/ Merge \/ Finished \/ UNCHANGED vars
  <2>1. UNCHANGED <<env, results, runFirst, legs>> /\ (pc' = pc \/ pc' \in {"merge", "done"})
    BY <1>4 DEF Join, Merge, Finished, vars
  <2>2. Diverse' = Diverse
    BY <2>1 DEF Diverse, Selected, SelectedLegs, Configs
  <2> QED
    BY <2>1, <2>2 DEF LegsInv
<1> QED
  BY <1>1, <1>2, <1>3, <1>4 DEF Next

\* Every step keeps SelectInv.
LEMMA SelectInvStep == TypeOK /\ SelectInv /\ [Next]_vars => SelectInv'
<1> SUFFICES ASSUME TypeOK, SelectInv, [Next]_vars PROVE SelectInv'
  OBVIOUS
<1>1. CASE RunFirst \/ RunPortfolio
  BY <1>1 DEF RunFirst, RunPortfolio, SelectInv
<1>2. CASE Select
  <2>1. UNCHANGED <<env, results, runFirst>>
    BY <1>2 DEF Select
  <2>2. Selected' = Selected
    BY <2>1 DEF Selected, SelectedLegs, Configs
  <2>3. best' = IF Selected = {} THEN Rejected ELSE Winner
    BY <1>2 DEF Select
  <2>4. Selected # {} => Winner \in Selected /\ \A r \in Selected : ~Preferred(r, Winner)
    BY WinnerIsBest DEF Selected
  <2>5. Selected # {} => best' \in Selected /\ \A r \in Selected : ~Preferred(r, best')
    BY <2>3, <2>4
  <2> QED
    BY <2>2, <2>3, <2>5 DEF SelectInv, Preferred
<1>3. CASE \/ \E l \in Legs : RunSet(l) \/ Fallback(l)
           \/ Join \/ Merge \/ Finished \/ UNCHANGED vars
  <2>1. /\ UNCHANGED <<env, results, runFirst, best>>
        /\ pc' \in {"relay", "merge", "done"} => pc \in {"relay", "merge", "done"}
    BY <1>3 DEF RunSet, Fallback, Join, Merge, Finished, vars
  <2>2. Selected' = Selected
    BY <2>1, Stable
  <2> QED
    BY <2>1, <2>2 DEF SelectInv, Preferred
<1> QED
  BY <1>1, <1>2, <1>3 DEF Next

\* An empty selection agrees with itself.
LEMMA DiverseHasBest ==
  ASSUME Diverse
  PROVE  Selected # {}
<1> SUFFICES ASSUME Selected = {} PROVE FALSE
  OBVIOUS
<1>1. {r.logical : r \in Selected} = {}
  OBVIOUS
<1> QED
  BY <1>1, FS_EmptySet DEF Diverse

\* Every step keeps AnswerInv.
LEMMA AnswerInvStep ==
  TypeOK /\ LegsInv /\ SelectInv /\ AnswerInv /\ [Next]_vars => AnswerInv'
<1> SUFFICES ASSUME TypeOK, LegsInv, SelectInv, AnswerInv, [Next]_vars PROVE AnswerInv'
  OBVIOUS
<1>1. CASE RunFirst \/ RunPortfolio
  <2>1. pc' \in {"portfolio", "select"}
    BY <1>1 DEF RunFirst, RunPortfolio
  <2> QED
    BY <2>1 DEF AnswerInv
<1>2. CASE Select
  <2>1. UNCHANGED <<env, results, runFirst>> /\ pc = "select"
    BY <1>2 DEF Select
  <2>2. Diverse' = Diverse
    BY <2>1 DEF Diverse, Selected, SelectedLegs, Configs
  <2>3. CASE best'.kind = "exact" /\ ~Diverse
    <3>1. pc' = "done" /\ answer' = best' /\ UNCHANGED legs
      BY <1>2, <2>3 DEF Select
    <3>2. \A l \in Legs : legs'[l].found = {}
      BY <2>1, <3>1 DEF LegsInv
    <3> QED
      BY <2>2, <2>3, <3>1, <3>2 DEF AnswerInv
  <2>4. CASE ~(best'.kind = "exact" /\ ~Diverse)
    <3>1. pc' = "relay"
      BY <1>2, <2>4 DEF Select
    <3> QED
      BY <2>2, <2>4, <3>1 DEF AnswerInv
  <2> QED
    BY <2>3, <2>4
<1>3. CASE (\E l \in Legs : RunSet(l) \/ Fallback(l)) \/ Join
  <2>1. /\ UNCHANGED <<env, results, runFirst, best>>
        /\ pc = "relay" /\ pc' \in {"relay", "merge"}
    BY <1>3 DEF RunSet, Fallback, Join
  <2>2. Diverse' = Diverse
    BY <2>1, Stable
  <2> QED
    BY <2>1, <2>2 DEF AnswerInv
<1>4. CASE Merge
  <2>1. /\ UNCHANGED <<env, results, runFirst, best, legs>>
        /\ pc = "merge" /\ pc' = "done" /\ answer' = Decision
    BY <1>4 DEF Merge, Decision
  <2>2. Diverse' = Diverse
    BY <2>1, Stable
  <2>3. Decision' = Decision
    BY <2>1, <2>2 DEF Decision, DecideDiverse, DecideAlone, CheapestOf, relay, escape,
                      Accepted, Cheaper
  <2> QED
    BY <2>1, <2>2, <2>3 DEF AnswerInv
<1>5. CASE Finished \/ UNCHANGED vars
  <2>1. UNCHANGED <<env, pc, results, runFirst, best, legs, answer>>
    BY <1>5 DEF Finished, vars
  <2>2. Diverse' = Diverse
    BY <2>1, Stable
  <2>3. Decision' = Decision
    BY <2>1, <2>2 DEF Decision, DecideDiverse, DecideAlone, CheapestOf, relay, escape,
                      Accepted, Cheaper
  <2> QED
    BY <2>1, <2>2, <2>3 DEF AnswerInv
<1> QED
  BY <1>1, <1>2, <1>3, <1>4, <1>5 DEF Next

\* A request starts with nothing found.
LEMMA InvInit == Init => TailInv
<1> SUFFICES ASSUME Init PROVE TailInv
  OBVIOUS
<1>1. pc \in {"first", "portfolio"}
  BY DEF Init
<1>2. \A l \in Legs : /\ legs[l].best = Rejected /\ legs[l].found = {} /\ ~legs[l].on
  BY NewLegEmpty DEF Init
<1> QED
  BY <1>1, <1>2, TypeInit DEF TailInv, LegsInv, SelectInv, AnswerInv

\* TailInv holds in every reachable state.
LEMMA TailInvHolds == Spec => []TailInv
<1>1. TailInv /\ [Next]_vars => TailInv'
  BY TypeStep, LegsInvStep, SelectInvStep, AnswerInvStep DEF TailInv
<1> QED
  BY <1>1, InvInit, PTL DEF Spec

-----------------------------------------------------------------------------
(* The promises.                                                           *)

\* What the candidates are.
LEMMA CandidateFacts ==
  ASSUME TailInv, pc \in {"relay", "merge", "done"}
  PROVE  /\ \A r \in Selected : /\ r \in Candidate({"exact", "bridged"}) /\ r # Rejected
                               /\ r.kind \in {"exact", "bridged"} /\ r.cost \in Nat
         /\ best # Rejected => best \in Selected
         /\ Diverse => best \in Selected
         /\ Accepted(relay) => relay \in legs["primary"].found /\ relay.kind = "relay"
                                 /\ relay.cost \in Nat
         /\ Accepted(escape) => escape \in legs["escape"].found /\ escape.kind = "relay"
                                 /\ escape.cost \in Nat
         /\ \A r \in legs["primary"].found : r.cost \in Nat /\ r # Rejected /\ r.kind = "relay"
<1>1. \A r \in Selected : r \in Candidate({"exact", "bridged"})
  BY DEF TailInv, TypeOK, Selected, SelectedLegs, PortfolioResult
<1>2. \A r \in Candidate({"exact", "bridged"}) :
        r.kind \in {"exact", "bridged"} /\ r.cost \in Nat
  BY CTailAssumption DEF Candidate
<1>3. \A r \in Candidate({"exact", "bridged"}) : r # Rejected
  BY <1>2 DEF Rejected
<1>4. /\ best # Rejected => best \in Selected
      /\ Diverse => best \in Selected
  BY DiverseHasBest DEF TailInv, SelectInv
<1>5. "primary" \in Legs /\ "escape" \in Legs
  BY DEF Legs
<1>6. /\ Accepted(relay) => relay \in legs["primary"].found
      /\ Accepted(escape) => escape \in legs["escape"].found
  BY <1>5 DEF TailInv, LegsInv, Accepted, relay, escape
<1>7. /\ \A r \in legs["primary"].found : r.cost \in Nat /\ r # Rejected /\ r.kind = "relay"
      /\ \A r \in legs["escape"].found : r.cost \in Nat /\ r # Rejected /\ r.kind = "relay"
  BY <1>5, CostsAreNat DEF TailInv
<1> QED
  BY <1>1, <1>2, <1>3, <1>4, <1>6, <1>7

\* What the decision of disagreeing legs is: one of the three, which exists, and the word
\* two of three share.
LEMMA DiverseDecision ==
  ASSUME TailInv, pc = "done", Diverse
  PROVE  /\ answer = best \/ (Accepted(relay) /\ answer = relay)
              \/ (Accepted(escape) /\ answer = escape)
         /\ best \in Selected
         /\ Accepted(relay) /\ Accepted(escape) =>
              /\ relay.logical = escape.logical => answer = relay
              /\ relay.logical # escape.logical
                   /\ best.logical \in {relay.logical, escape.logical} => answer = best
<1>1. best \in Selected /\ best # Rejected
  BY CandidateFacts
<1>2. answer = Decision
  BY DEF TailInv, AnswerInv
<1>3. CheapestOf(best) \in {best} \/ (Accepted(relay) /\ CheapestOf(best) = relay)
        \/ (Accepted(escape) /\ CheapestOf(best) = escape)
  BY DEF CheapestOf
<1>4. DecideDiverse = best \/ (Accepted(relay) /\ DecideDiverse = relay)
        \/ (Accepted(escape) /\ DecideDiverse = escape)
  BY <1>3 DEF DecideDiverse
<1>5. DecideDiverse # Rejected
  BY <1>1, <1>4 DEF Accepted
<1>6. answer = DecideDiverse
  BY <1>2, <1>5 DEF Decision
<1>7. Accepted(relay) /\ Accepted(escape) =>
        /\ relay.logical = escape.logical => DecideDiverse = relay
        /\ relay.logical # escape.logical
             /\ best.logical \in {relay.logical, escape.logical} => DecideDiverse = best
  BY <1>1 DEF DecideDiverse
<1> QED
  BY <1>1, <1>4, <1>6, <1>7

\* When the portfolio legs disagree and both relay legs are exact, the logical word that
\* two of the three candidates share is answered: the quorum of run_relay_lite_adaptive's
\* caller.
THEOREM QuorumDecides == Spec => []QuorumRespected
<1>1. TailInv => QuorumRespected
  <2> SUFFICES ASSUME TailInv, pc = "done", Diverse, Accepted(relay), Accepted(escape)
               PROVE  /\ best.logical = relay.logical => answer.logical = best.logical
                      /\ best.logical = escape.logical => answer.logical = best.logical
                      /\ relay.logical = escape.logical => answer.logical = relay.logical
    BY DEF QuorumRespected
  <2>1. /\ relay.logical = escape.logical => answer = relay
        /\ relay.logical # escape.logical
             /\ best.logical \in {relay.logical, escape.logical} => answer = best
    BY DiverseDecision
  <2> QED
    BY <2>1
<1> QED
  BY <1>1, TailInvHolds, PTL

\* A bridged correction is answered only when every selected leg is bridged and, unless
\* the legs disagreed, the rescue found nothing.
THEOREM BridgedLast == Spec => []BridgedIsLastResort
<1>1. TailInv => BridgedIsLastResort
  <2> SUFFICES ASSUME TailInv, pc = "done", answer.kind = "bridged"
               PROVE  /\ \A r \in Selected : r.kind = "bridged"
                      /\ Diverse \/ relay = Rejected
    BY DEF BridgedIsLastResort
  <2>1. best \in Selected /\ best.kind = "bridged" =>
          \A r \in Selected : r.kind = "bridged"
    <3>1. Selected # {} => \A r \in Selected : ~Preferred(r, best)
      BY DEF TailInv, SelectInv
    <3> QED
      BY <3>1, CandidateFacts DEF Preferred
  <2>2. CASE Diverse
    <3>1. best \in Selected /\ answer = best
      BY <2>2, DiverseDecision, CandidateFacts
    <3> QED
      BY <2>1, <2>2, <3>1
  <2>3. CASE ~Diverse
    <3>1. best.kind # "exact" \/ answer # best
      BY DEF TailInv
    <3>2. answer = Decision
      BY <2>3 DEF TailInv, AnswerInv
    <3>3. CASE DecideAlone = Rejected
      <4>1. best = Rejected /\ relay = Rejected
        BY <3>3 DEF DecideAlone, Accepted, Cheaper
      <4>2. Selected = {}
        BY <4>1, CandidateFacts DEF TailInv, SelectInv
      <4> QED
        BY <4>1, <4>2
    <3>4. CASE DecideAlone # Rejected
      <4>1. answer = DecideAlone
        BY <2>3, <3>2, <3>4 DEF Decision
      <4>2. answer = best /\ best # Rejected /\ (relay = Rejected \/ best.kind # "bridged")
        BY <3>4, <4>1, CandidateFacts DEF DecideAlone, Accepted
      <4> QED
        BY <2>1, <4>2, CandidateFacts
    <3> QED
      BY <3>3, <3>4
  <2> QED
    BY <2>2, <2>3
<1> QED
  BY <1>1, TailInvHolds, PTL

\* What is exact.
LEMMA ExactSources ==
  ASSUME TailInv
  PROVE  /\ Selected \subseteq Exact
         /\ legs["primary"].found \subseteq Exact /\ legs["escape"].found \subseteq Exact
         /\ Exact # {} /\ Selected = {} /\ (\A l \in Legs : legs[l].found = {})
              => results[0] \in Exact
<1>1. /\ Selected \subseteq Exact
      /\ \A l \in Legs : legs[l].found \subseteq Exact
  BY DEF Exact, Selected, SelectedLegs
<1>2. ASSUME Exact # {}, Selected = {}, \A l \in Legs : legs[l].found = {}
      PROVE  results[0] \in Exact
  <2>1. UNION {legs[l].found : l \in Legs} = {}
    BY <1>2
  <2>2. PICK i \in Configs : results[i] \notin {Unrun, Rejected}
    BY <1>2, <2>1 DEF Exact
  <2>3. ~(i >= runFirst)
    BY <1>2, <2>2 DEF Selected, SelectedLegs
  <2>4. i \in Int /\ i >= 0 /\ runFirst \in {0, 1}
    BY DEF TailInv, TypeOK, Configs
  <2>5. i = 0
    BY <2>3, <2>4
  <2> QED
    BY <2>2, <2>5 DEF Exact
<1> QED
  BY <1>1, <1>2 DEF Legs

\* Whatever the settings, a correction with the requested syndrome that the request has
\* found is never lost, on no path through the fast leg, the escalation, the quorum and
\* the failed relay; and an undisputed answer is the cheapest the relay sets found.
THEOREM NeverLoses == Spec => []NeverLosesExact
<1>1. TailInv => NeverLosesExact
  <2> SUFFICES ASSUME TailInv, pc = "done", Exact # {}
               PROVE  /\ answer \in Exact
                      /\ ~Diverse => \A r \in legs["primary"].found :
                                       answer.kind = "relay" /\ answer.cost <= r.cost
    BY DEF NeverLosesExact
  <2>1. "primary" \in Legs /\ "escape" \in Legs
    BY DEF Legs
  <2>2. CASE Diverse
    <3>1. \/ answer = best /\ best \in Selected
          \/ Accepted(relay) /\ answer = relay
          \/ Accepted(escape) /\ answer = escape
      BY <2>2, DiverseDecision
    <3> QED
      BY <2>2, <3>1, CandidateFacts, ExactSources
  <2>3. CASE ~Diverse /\ best.kind = "exact" /\ answer = best
             /\ \A l \in Legs : legs[l].found = {}
    <3>1. best # Rejected
      BY <2>3 DEF Rejected
    <3> QED
      BY <2>1, <2>3, <3>1, CandidateFacts, ExactSources
  <2>4. CASE ~Diverse /\ best.kind # "exact" /\ answer = Decision
    <3>1. legs["escape"].found = {}
      BY <2>1, <2>4 DEF TailInv, LegsInv
    <3>2. best = Rejected \/ best.kind = "bridged"
      BY <2>4, CandidateFacts
    <3>3. CASE relay = Rejected
      <4>1. legs["primary"].found = {}
        BY <2>1, <3>3 DEF TailInv, LegsInv, relay
      <4>2. DecideAlone = best
        BY <3>3 DEF DecideAlone, Accepted
      <4>3. CASE best = Rejected
        <5>1. Selected = {}
          BY <4>3, CandidateFacts DEF TailInv, SelectInv
        <5>2. answer = results[0]
          BY <2>4, <4>2, <4>3 DEF Decision
        <5>3. \A l \in Legs : legs[l].found = {}
          BY <3>1, <4>1 DEF Legs
        <5> QED
          BY <4>1, <5>1, <5>2, <5>3, ExactSources
      <4>4. CASE best # Rejected
        <5>1. answer = best
          BY <2>4, <4>2, <4>4 DEF Decision
        <5> QED
          BY <4>1, <4>4, <5>1, CandidateFacts, ExactSources
      <4> QED
        BY <4>3, <4>4
    <3>4. CASE relay # Rejected
      <4>1. DecideAlone = relay
        BY <3>2, <3>4 DEF DecideAlone, Accepted, Cheaper
      <4>2. answer = relay
        BY <2>4, <3>4, <4>1 DEF Decision
      <4>3. \A r \in legs["primary"].found : relay.cost <= r.cost
        BY <2>1, <3>4 DEF TailInv, LegsInv, relay
      <4> QED
        BY <3>4, <4>2, <4>3, CandidateFacts, ExactSources DEF Accepted
    <3> QED
      BY <3>3, <3>4
  <2> QED
    BY <2>2, <2>3, <2>4 DEF TailInv, AnswerInv
<1> QED
  BY <1>1, TailInvHolds, PTL

-----------------------------------------------------------------------------
(* The campaign.                                                           *)

\* Where the loops stand.
PhaseInv ==
  /\ count["shots"] <= Shots
  /\ phase \in {"image", "binary", "spawn", "batch"} => batch = 0 /\ count["shots"] < Shots
  /\ phase \in {"shot", "tail", "tally"} => batch >= 1 /\ count["shots"] + batch <= Shots
  /\ phase \in {"close", "report", "ended"} => count["shots"] = Shots

Right == endpoint.success /\ endpoint.right
Answers == {"right", "flagged", "wrong"}

\* What is known of a shot before its counters are written.
ShotInv ==
  /\ phase = "tail" => fpga.deferred /\ args.handoff
  /\ phase = "tally" => (Failed <=> ~Right \/ fpga.error) /\ (Failed => FpgaFailed)

Late == IF phase = "tally" THEN 1 ELSE 0
WrongNow == IF phase = "tally" /\ ~Right THEN 1 ELSE 0

TallyCounters == {"error", "basis", "deferred", "fpgaFailures", "failures"}

\* The counters, some of which run ahead of the others while a shot is tallied.
CounterInv ==
  /\ count \in [Counters -> Nat]
  /\ \A c \in TallyCounters : count[c] <= count["shots"]
  /\ \A c \in Counters : count[c] <= count["shots"] + Late
  /\ count["failures"] <= count["fpgaFailures"]
  /\ count["error"] <= count["failures"]

\* The failures are the wrong shots and those whose reply was an error.
WrongInv ==
  /\ answers \in [1..count["shots"] -> Answers]
  /\ count["failures"] = Cardinality(Wrong) + Cardinality(Flagged)
  /\ Cardinality(Flagged) <= count["error"]
  /\ count["tailErrors"] + count["rejected"] <= Cardinality(Wrong) + WrongNow
  /\ \A s \in cases : s \in 0..(count["shots"] - 1) /\ (s + 1) \in Wrong \cup Flagged
  /\ IsFiniteSet(cases) /\ Cardinality(cases) <= CaseLimit

\* Exit code 0 has passed its gate.
ReportInv ==
  phase = "ended" /\ report.exit = 0 =>
    count["error"] = 0 /\ count["failures"] <= (IF args.smoke THEN 0 ELSE Allowed)

\* The registers that no counter depends on.
PlainTypeOK ==
  /\ args \in Args
  /\ phase \in {"image", "binary", "spawn", "batch", "shot", "tail", "tally", "close",
                "report", "ended", "aborted"}
  /\ files \in [{"image", "binary"} -> {"none", "part", "whole"}]
  /\ worker \in {"none", "ready", "stopped", "hung", "closed"}
  /\ starts \in 1..Starts
  /\ batch \in 0..BatchSize
  /\ fpga \in Outcome /\ endpoint \in [success : BOOLEAN, right : BOOLEAN]

CampaignInv ==
  PlainTypeOK /\ PhaseInv /\ ShotInv /\ CounterInv /\ WrongInv /\ ReportInv

-----------------------------------------------------------------------------
(* Facts the steps share.                                                  *)

\* What the constants promise.
LEMMA ConstantFacts ==
  Shots \in Nat \ {0} /\ BatchSize \in Nat \ {0} /\ Starts \in Nat \ {0} /\ CaseLimit \in Nat
BY CampaignAssumption

\* Bump adds one to the counters named and leaves the others.
LEMMA BumpFacts ==
  ASSUME NEW c \in [Counters -> Nat], NEW which
  PROVE  /\ Bump(c, which) \in [Counters -> Nat]
         /\ \A k \in Counters : Bump(c, which)[k] = c[k] + (IF k \in which THEN 1 ELSE 0)
BY DEF Bump

\* The names of the counters.
LEMMA CounterNames ==
  /\ TallyCounters \subseteq Counters
  /\ {"shots", "transport", "error", "basis", "deferred", "fpgaFailures", "handoff",
      "accepted", "rejected", "tailErrors", "failures", "corpus"} \subseteq Counters
BY DEF TallyCounters, Counters

\* What the endpoint sends and what an exception leaves have in common.
LEMMA OutcomeFacts ==
  ASSUME NEW r \in Outcome
  PROVE  /\ r.success \in BOOLEAN /\ r.right \in BOOLEAN /\ r.transport \in BOOLEAN
         /\ r.transport => r.error /\ ~r.success /\ ~r.deferred
         /\ ~(r.success /\ r.deferred)
<1>1. CASE r \in Reply
  <2>1. /\ r \in [transport : {FALSE}, success : BOOLEAN, deferred : BOOLEAN, error : BOOLEAN,
                  right : BOOLEAN]
        /\ ~(r.success /\ r.deferred)
    BY <1>1, Zenon DEF Reply
  <2>2. /\ r.transport = FALSE /\ r.success \in BOOLEAN /\ r.right \in BOOLEAN
    BY <2>1, Zenon
  <2> QED
    BY <2>1, <2>2, Zenon
<1>2. CASE r = NoReply
  <2>1. /\ r.transport = TRUE /\ r.success = FALSE /\ r.deferred = FALSE /\ r.error = TRUE
        /\ r.right = FALSE
    BY <1>2, Zenon DEF NoReply
  <2> QED
    BY <2>1, Zenon
<1> QED
  BY <1>1, <1>2, Zenon DEF Outcome

\* The marked shots are among the shots taken.
LEMMA MarkedFinite ==
  ASSUME NEW n \in Nat, NEW f, DOMAIN f = 1..n, NEW kinds
  PROVE  /\ Marked(f, kinds) \subseteq 1..n /\ IsFiniteSet(Marked(f, kinds))
         /\ Cardinality(Marked(f, kinds)) \in Nat
<1>1. Marked(f, kinds) \subseteq 1..n
  BY DEF Marked
<1>2. IsFiniteSet(1..n)
  BY FS_Interval
<1>3. IsFiniteSet(Marked(f, kinds))
  BY <1>1, <1>2, FS_Subset
<1> QED
  BY <1>1, <1>3, FS_CardinalityType

\* One more shot is marked or not, and the others stay as they are.
LEMMA MarkedGrows ==
  ASSUME NEW n \in Nat, NEW f, DOMAIN f = 1..n, NEW latest, NEW kinds, NEW g,
         g = [i \in 1..(n + 1) |-> IF i <= n THEN f[i] ELSE latest]
  PROVE  /\ Marked(f, kinds) \subseteq Marked(g, kinds)
         /\ (n + 1) \in Marked(g, kinds) <=> latest \in kinds
         /\ Cardinality(Marked(g, kinds))
              = Cardinality(Marked(f, kinds)) + (IF latest \in kinds THEN 1 ELSE 0)
<1>1. Marked(f, kinds) \subseteq 1..n /\ IsFiniteSet(Marked(f, kinds))
  BY MarkedFinite
<1>2. \A i \in 1..n : i \in 1..(n + 1) /\ g[i] = f[i]
  OBVIOUS
<1>3. n + 1 \in 1..(n + 1) /\ g[n + 1] = latest /\ n + 1 \notin 1..n
  OBVIOUS
<1>4. \A i \in 1..(n + 1) : i = n + 1 \/ i \in 1..n
  OBVIOUS
<1>5. Marked(g, kinds) = Marked(f, kinds) \cup (IF latest \in kinds THEN {n + 1} ELSE {})
  BY <1>2, <1>3, <1>4 DEF Marked
<1>6. Cardinality(Marked(f, kinds) \cup {n + 1}) = Cardinality(Marked(f, kinds)) + 1
  BY <1>1, <1>3, FS_AddElement
<1>7. Cardinality(Marked(f, kinds)) \in Nat
  BY <1>1, FS_CardinalityType
<1>8. CASE latest \in kinds
  BY <1>1, <1>3, <1>5, <1>6, <1>8
<1>9. CASE latest \notin kinds
  <2>1. Marked(g, kinds) = Marked(f, kinds)
    BY <1>5, <1>9
  <2>2. n + 1 \notin Marked(g, kinds)
    BY <1>1, <1>3, <2>1
  <2> QED
    BY <1>7, <1>9, <2>1, <2>2
<1> QED
  BY <1>8, <1>9

\* No shot is marked before the first.
LEMMA NoneMarked ==
  ASSUME NEW f, f = <<>>, NEW kinds
  PROVE  Marked(f, kinds) = {} /\ f \in [1..0 -> Answers]
BY DEF Marked

\* A set of two kinds of shots has the shots of each.
LEMMA CountsOfShots ==
  ASSUME WrongInv, CounterInv
  PROVE  /\ count["shots"] \in Nat /\ count["failures"] \in Nat /\ count["error"] \in Nat
         /\ count["tailErrors"] \in Nat /\ count["rejected"] \in Nat
         /\ Cardinality(Wrong) \in Nat /\ Cardinality(Flagged) \in Nat
<1>1. count["shots"] \in Nat /\ DOMAIN answers = 1..count["shots"]
  BY CounterNames DEF CounterInv, WrongInv
<1>2. Cardinality(Wrong) \in Nat /\ Cardinality(Flagged) \in Nat
  BY <1>1, MarkedFinite DEF Wrong, Flagged
<1> QED
  BY <1>1, <1>2, CounterNames DEF CounterInv

-----------------------------------------------------------------------------
(* The start, and the steps that touch no counter.                         *)

\* A campaign starts with empty counters.
LEMMA CampaignInvInit == CampaignInit => CampaignInv
<1> SUFFICES ASSUME CampaignInit PROVE CampaignInv
  OBVIOUS
<1>1. phase \in {"image", "batch"}
  BY DEF CampaignInit, FirstPhase
<1>2. PlainTypeOK
  BY <1>1, ConstantFacts DEF CampaignInit, PlainTypeOK, Outcome
<1>3. \A c \in Counters : count[c] = 0
  BY DEF CampaignInit
<1>4. PhaseInv /\ ShotInv /\ ReportInv
  BY <1>1, <1>3, ConstantFacts, CounterNames DEF CampaignInit, PhaseInv, ShotInv, ReportInv
<1>5. Late = 0 /\ WrongNow = 0
  BY <1>1 DEF Late, WrongNow
<1>6. CounterInv
  BY <1>3, <1>5, CounterNames DEF CampaignInit, CounterInv
<1>7. WrongInv
  <2>1. answers = <<>> /\ cases = {}
    BY DEF CampaignInit
  <2>2. Wrong = {} /\ Flagged = {} /\ answers \in [1..0 -> Answers]
    BY <2>1, NoneMarked DEF Wrong, Flagged
  <2>3. Cardinality({}) = 0 /\ IsFiniteSet({})
    BY FS_EmptySet
  <2> QED
    BY <1>3, <1>5, <2>1, <2>2, <2>3, ConstantFacts, CounterNames DEF WrongInv
<1> QED
  BY <1>2, <1>4, <1>6, <1>7 DEF CampaignInv

\* A step that leaves the loop's registers alone and enters or leaves no tally.
LEMMA LoopUntouched ==
  ASSUME CampaignInv, UNCHANGED <<args, loop>>, phase # "tally", phase' # "tally"
  PROVE  CounterInv' /\ WrongInv'
<1>1. UNCHANGED <<batch, fpga, endpoint, count, cases, answers>>
  BY DEF loop
<1>2. Late = 0 /\ WrongNow = 0 /\ Late' = 0 /\ WrongNow' = 0
  BY DEF Late, WrongNow
<1>3. CounterInv'
  BY <1>1, <1>2 DEF CampaignInv, CounterInv
<1>4. WrongInv'
  BY <1>1, <1>2 DEF CampaignInv, WrongInv, Wrong, Flagged
<1> QED
  BY <1>3, <1>4

\* The start-up of the tail, its hanging, a reply of the wrong basis, and the end.
LEMMA PlainSteps ==
  ASSUME CampaignInv,
         \/ \E f \in {"image", "binary"} : Build(f)
         \/ Spawn \/ WrongBasis \/ TailHangs \/ Close
  PROVE  CampaignInv'
<1>1. UNCHANGED <<args, starts, loop, report>>
  BY DEF Build, Spawn, WrongBasis, TailHangs, Close
<1>2. UNCHANGED <<batch, fpga, endpoint, count, cases, answers>>
  BY <1>1 DEF loop
<1>3. /\ phase \in {"image", "binary", "spawn", "batch"}
           => phase' \in {"image", "binary", "spawn", "batch", "aborted"}
      /\ phase \in {"shot", "tail"} => phase' \in {phase, "aborted"}
      /\ phase \in {"close", "report"} => phase' = "report"
      /\ phase \in {"image", "binary", "spawn", "batch", "shot", "tail", "close", "report"}
  BY DEF Build, After, Spawn, WrongBasis, TailHangs, Close
<1>4. PlainTypeOK'
  <2>1. files' \in [{"image", "binary"} -> {"none", "part", "whole"}]
    BY DEF CampaignInv, PlainTypeOK, Build, Spawn, WrongBasis, TailHangs, Close
  <2>2. worker' \in {"none", "ready", "stopped", "hung", "closed"}
    BY DEF CampaignInv, PlainTypeOK, Build, Spawn, WrongBasis, TailHangs, Close
  <2> QED
    BY <1>1, <1>2, <1>3, <2>1, <2>2 DEF CampaignInv, PlainTypeOK
<1>5. PhaseInv' /\ ShotInv' /\ ReportInv'
  BY <1>1, <1>2, <1>3 DEF CampaignInv, PhaseInv, ShotInv, ReportInv
<1>6. CounterInv' /\ WrongInv'
  BY <1>1, <1>3, LoopUntouched
<1> QED
  BY <1>4, <1>5, <1>6 DEF CampaignInv

\* A report states what its gate saw.
LEMMA ReportStep ==
  ASSUME CampaignInv, WriteReport
  PROVE  CampaignInv'
<1>1. /\ UNCHANGED <<args, files, worker, starts, loop>>
      /\ phase = "report" /\ phase' = "ended"
  BY DEF WriteReport
<1>2. UNCHANGED <<batch, fpga, endpoint, count, cases, answers>>
  BY <1>1 DEF loop
<1>3. PICK crc \in BOOLEAN, slow \in BOOLEAN :
        LET transportPass == TransportPass /\ ~crc
            functional == count["failures"] = 0 /\ transportPass
            endpointPass == /\ count["failures"] <= Allowed
                            /\ transportPass /\ (~args.gate \/ ~slow) IN
        report' = [functional |-> functional, endpoint |-> endpointPass,
                   exit |-> IF (IF args.smoke THEN functional ELSE endpointPass)
                              THEN 0 ELSE 1,
                   shots |-> count["shots"]]
  BY DEF WriteReport
<1>4. report'.exit = 0 =>
        count["error"] = 0 /\ count["failures"] <= (IF args.smoke THEN 0 ELSE Allowed)
  <2>1. report'.exit = IF (IF args.smoke THEN count["failures"] = 0 /\ TransportPass /\ ~crc
                           ELSE /\ count["failures"] <= Allowed
                                /\ TransportPass /\ ~crc /\ (~args.gate \/ ~slow))
                         THEN 0 ELSE 1
    BY <1>3, Zenon
  <2>2. report'.exit = 0 =>
          /\ TransportPass
          /\ IF args.smoke THEN count["failures"] = 0 ELSE count["failures"] <= Allowed
    BY <2>1
  <2> QED
    BY <2>2 DEF TransportPass
<1>5. PlainTypeOK'
  BY <1>1, <1>2 DEF CampaignInv, PlainTypeOK
<1>6. PhaseInv' /\ ShotInv'
  BY <1>1, <1>2 DEF CampaignInv, PhaseInv, ShotInv
<1>7. ReportInv'
  BY <1>1, <1>2, <1>4 DEF ReportInv
<1>8. CounterInv' /\ WrongInv'
  BY <1>1, LoopUntouched
<1> QED
  BY <1>5, <1>6, <1>7, <1>8 DEF CampaignInv

\* A batch is what is left, and never empty.
LEMMA SampleStep ==
  ASSUME CampaignInv, Sample
  PROVE  CampaignInv'
<1>1. /\ UNCHANGED <<args, files, worker, starts, fpga, endpoint, count, cases, report, answers>>
      /\ phase = "batch" /\ phase' = "shot" /\ count["shots"] < Shots
      /\ batch' = Min2(BatchSize, Shots - count["shots"])
  BY DEF Sample
<1>2. count["shots"] \in Nat
  BY CounterNames DEF CampaignInv, CounterInv
<1>3. batch' \in 1..BatchSize /\ count["shots"] + batch' <= Shots
  BY <1>1, <1>2, ConstantFacts DEF Min2
<1>4. PlainTypeOK' /\ PhaseInv' /\ ShotInv' /\ ReportInv'
  BY <1>1, <1>3, ConstantFacts DEF CampaignInv, PlainTypeOK, PhaseInv, ShotInv, ReportInv
<1>5. Late' = Late /\ WrongNow' = WrongNow
  BY <1>1 DEF Late, WrongNow
<1>6. CounterInv' /\ WrongInv'
  BY <1>1, <1>5 DEF CampaignInv, CounterInv, WrongInv, Wrong, Flagged
<1> QED
  BY <1>4, <1>6 DEF CampaignInv

-----------------------------------------------------------------------------
(* One shot: the board, the tail, the tally.                               *)

\* A shot that the board has not answered in time or rightly is a failure when tallied.
LEMMA BoardStep ==
  ASSUME CampaignInv, BoardShot
  PROVE  CampaignInv'
<1>1. /\ UNCHANGED <<args, files, worker, starts, batch, cases, report, answers>>
      /\ phase = "shot" /\ batch > 0
  BY DEF BoardShot
<1>2. PICK r \in Outcome :
        /\ fpga' = r
        /\ endpoint' = [success |-> r.success, right |-> r.right]
        /\ count' = Bump(count, IF r.transport THEN {"transport"} ELSE {})
        /\ phase' = IF r.deferred /\ args.handoff THEN "tail" ELSE "tally"
  BY DEF BoardShot
<1>3. /\ endpoint'.success = r.success /\ endpoint'.right = r.right
      /\ endpoint' \in [success : BOOLEAN, right : BOOLEAN]
      /\ r.success \in BOOLEAN /\ r.right \in BOOLEAN
      /\ r.transport => ~r.success
      /\ ~(r.success /\ r.deferred)
  <2>1. /\ r.success \in BOOLEAN /\ r.right \in BOOLEAN
        /\ r.transport => ~r.success
        /\ ~(r.success /\ r.deferred)
    BY OutcomeFacts, Zenon
  <2> QED
    BY <1>2, <2>1, Zenon
<1>4. PlainTypeOK' /\ PhaseInv' /\ ReportInv'
  <2>1. count'["shots"] = count["shots"]
    BY <1>2, BumpFacts, CounterNames DEF CampaignInv, CounterInv
  <2>2. phase' \in {"tail", "tally"}
    BY <1>2
  <2>3. PlainTypeOK'
    BY <1>1, <1>2, <1>3, <2>2, Zenon DEF CampaignInv, PlainTypeOK
  <2> QED
    BY <1>1, <2>1, <2>2, <2>3 DEF CampaignInv, PhaseInv, ReportInv
<1>5. ShotInv'
  <2>1. phase' = "tail" => fpga'.deferred /\ args'.handoff
    BY <1>1, <1>2
  <2>2. phase' = "tally" => (fpga'.deferred => ~args'.handoff)
    BY <1>1, <1>2
  <2>3. phase' = "tally" => (Failed' <=> ~Right' \/ fpga'.error) /\ (Failed' => FpgaFailed')
    BY <1>2, <1>3, <2>2 DEF Failed, Right, FpgaFailed
  <2> QED
    BY <2>1, <2>3 DEF ShotInv
<1>6. /\ count' \in [Counters -> Nat]
      /\ \A k \in Counters : count'[k] = count[k] +
           (IF k = "transport" /\ r.transport THEN 1 ELSE 0)
  BY <1>2, BumpFacts DEF CampaignInv, CounterInv
<1>7. \A c \in TallyCounters \cup {"shots", "rejected", "tailErrors"} : count'[c] = count[c]
  BY <1>6, CounterNames DEF TallyCounters, CampaignInv, CounterInv
<1>8. CounterInv'
  <2>1. /\ Late = 0 /\ Late' \in {0, 1}
        /\ r.transport => Late' = 1
    <3>1. r.transport => ~r.deferred
      BY OutcomeFacts, Zenon
    <3>2. r.transport => phase' = "tally"
      BY <1>2, <3>1
    <3> QED
      BY <1>1, <1>2, <3>2 DEF Late
  <2>2. ASSUME NEW c \in Counters PROVE count'[c] <= count'["shots"] + Late'
    <3>1. count[c] \in Nat /\ count["shots"] \in Nat /\ count[c] <= count["shots"]
      BY <2>1, CounterNames DEF CampaignInv, CounterInv
    <3>2. count'[c] = count[c] + (IF c = "transport" /\ r.transport THEN 1 ELSE 0)
      BY <1>6
    <3> QED
      BY <2>1, <1>7, <3>1, <3>2
  <2>3. /\ count'["failures"] <= count'["fpgaFailures"]
        /\ count'["error"] <= count'["failures"]
        /\ \A c \in TallyCounters : count'[c] <= count'["shots"]
    BY <1>7 DEF CampaignInv, CounterInv, TallyCounters
  <2> QED
    BY <1>6, <2>2, <2>3 DEF CounterInv
<1>9. WrongInv'
  <2>1. WrongNow = 0 /\ WrongNow' \in {0, 1}
    BY <1>1 DEF WrongNow
  <2>2. /\ count'["shots"] = count["shots"] /\ count'["failures"] = count["failures"]
        /\ count'["error"] = count["error"] /\ count'["rejected"] = count["rejected"]
        /\ count'["tailErrors"] = count["tailErrors"]
    BY <1>7 DEF TallyCounters
  <2>3. count'["tailErrors"] + count'["rejected"] <= Cardinality(Wrong) + WrongNow'
    BY <2>1, <2>2, CountsOfShots DEF CampaignInv, WrongInv
  <2> QED
    BY <1>1, <2>2, <2>3 DEF CampaignInv, WrongInv, Wrong, Flagged
<1> QED
  BY <1>4, <1>5, <1>8, <1>9 DEF CampaignInv

\* A shot that the tail rejects or raises on has no right answer.
LEMMA TailStep ==
  ASSUME CampaignInv, TailAnswers \/ TailFails
  PROVE  CampaignInv'
<1>1. /\ UNCHANGED <<args, files, starts, batch, fpga, cases, report, answers>>
      /\ phase = "tail" /\ phase' = "tally"
      /\ worker' \in {"ready", "stopped"}
  BY DEF TailAnswers, TailFails
<1>2. PICK which \in SUBSET Counters :
        /\ count' = Bump(count, which)
        /\ which \cap ({"shots"} \cup TallyCounters) = {}
        /\ ~("tailErrors" \in which /\ "rejected" \in which)
        /\ "tailErrors" \in which \/ "rejected" \in which => ~endpoint'.success
        /\ endpoint' \in [success : BOOLEAN, right : BOOLEAN]
  <2>1. CASE TailAnswers
    <3>1. PICK accepted \in BOOLEAN, right \in BOOLEAN :
            /\ endpoint' = [success |-> accepted, right |-> right]
            /\ count' = Bump(count,
                 {"handoff", IF accepted THEN "accepted" ELSE "rejected"} \cup Kept)
      BY <2>1 DEF TailAnswers
    <3> DEFINE which == {"handoff", IF accepted THEN "accepted" ELSE "rejected"} \cup Kept
    <3>2. which \in SUBSET Counters /\ which \cap ({"shots"} \cup TallyCounters) = {}
          /\ "tailErrors" \notin which /\ ("rejected" \in which => ~accepted)
      BY DEF Kept, Counters, TallyCounters
    <3>3. (endpoint'.success <=> accepted) /\ endpoint' \in [success : BOOLEAN, right : BOOLEAN]
      BY <3>1, Zenon
    <3> QED
      BY <3>1, <3>2, <3>3
  <2>2. CASE TailFails
    <3>1. /\ endpoint' = [endpoint EXCEPT !.success = FALSE]
          /\ count' = Bump(count, {"handoff", "tailErrors"} \cup Kept)
      BY <2>2 DEF TailFails
    <3> DEFINE which == {"handoff", "tailErrors"} \cup Kept
    <3>2. which \in SUBSET Counters /\ which \cap ({"shots"} \cup TallyCounters) = {}
          /\ "rejected" \notin which
      BY DEF Kept, Counters, TallyCounters
    <3>3. endpoint \in [success : BOOLEAN, right : BOOLEAN]
      BY DEF CampaignInv, PlainTypeOK
    <3>4. ~endpoint'.success /\ endpoint' \in [success : BOOLEAN, right : BOOLEAN]
      <4>1. endpoint' = [success |-> FALSE, right |-> endpoint.right]
        BY <3>1, <3>3, Zenon
      <4>2. endpoint.right \in BOOLEAN
        BY <3>3, Zenon
      <4> QED
        BY <4>1, <4>2, Zenon
    <3> QED
      BY <3>1, <3>2, <3>4
  <2> QED
    BY <2>1, <2>2
<1>3. /\ count' \in [Counters -> Nat]
      /\ \A k \in Counters : count'[k] = count[k] + (IF k \in which THEN 1 ELSE 0)
  BY <1>2, BumpFacts DEF CampaignInv, CounterInv
<1>4. \A c \in {"shots"} \cup TallyCounters : c \in Counters /\ count'[c] = count[c]
  BY <1>2, <1>3, CounterNames DEF CampaignInv, CounterInv
<1>5. PlainTypeOK'
  BY <1>1, <1>2, Zenon DEF CampaignInv, PlainTypeOK
<1>6. PhaseInv' /\ ReportInv'
  BY <1>1, <1>4 DEF CampaignInv, PhaseInv, ReportInv
<1>7. ShotInv'
  <2>1. fpga.deferred /\ args.handoff /\ (fpga.transport => fpga.error)
    <3>1. fpga.deferred /\ args.handoff
      BY <1>1 DEF CampaignInv, ShotInv
    <3>2. fpga \in Outcome
      BY Zenon DEF CampaignInv, PlainTypeOK
    <3>3. fpga.transport => fpga.error
      BY <3>2, OutcomeFacts, Zenon
    <3> QED
      BY <3>1, <3>3, Zenon
  <2>2. Failed' <=> ~Right' \/ fpga'.error
    BY <1>1, <2>1 DEF Failed, Right
  <2>3. FpgaFailed'
    BY <1>1, <2>1 DEF FpgaFailed
  <2> QED
    BY <1>1, <2>2, <2>3 DEF ShotInv
<1>8. CounterInv'
  <2>1. Late = 0 /\ Late' = 1
    BY <1>1 DEF Late
  <2>2. {"error", "failures", "fpgaFailures"} \subseteq TallyCounters
    BY DEF TallyCounters
  <2>3. ASSUME NEW c \in Counters PROVE count'[c] <= count'["shots"] + Late'
    <3>1. count[c] \in Nat /\ count["shots"] \in Nat /\ count[c] <= count["shots"]
      BY <2>1, CounterNames DEF CampaignInv, CounterInv
    <3>2. count'[c] \in {count[c], count[c] + 1} /\ count'["shots"] = count["shots"]
      BY <1>3, <1>4, <3>1
    <3> QED
      BY <2>1, <3>1, <3>2
  <2>4. ASSUME NEW c \in TallyCounters PROVE count'[c] <= count'["shots"]
    <3>1. count'[c] = count[c] /\ count'["shots"] = count["shots"]
      BY <1>4
    <3> QED
      BY <3>1 DEF CampaignInv, CounterInv
  <2>5. count'["failures"] <= count'["fpgaFailures"] /\ count'["error"] <= count'["failures"]
    <3>1. /\ count'["failures"] = count["failures"]
          /\ count'["fpgaFailures"] = count["fpgaFailures"]
          /\ count'["error"] = count["error"]
      BY <1>4, <2>2
    <3> QED
      BY <3>1 DEF CampaignInv, CounterInv
  <2> QED
    BY <1>3, <2>3, <2>4, <2>5 DEF CounterInv
<1>9. WrongInv'
  <2>1. /\ count'["shots"] = count["shots"] /\ count'["failures"] = count["failures"]
        /\ count'["error"] = count["error"]
    BY <1>4 DEF TallyCounters
  <2>2. WrongNow = 0 /\ WrongNow' \in {0, 1}
    BY <1>1 DEF WrongNow
  <2>3. "tailErrors" \in which \/ "rejected" \in which => WrongNow' = 1
    BY <1>1, <1>2 DEF Right, WrongNow
  <2>4. /\ count["tailErrors"] \in Nat /\ count["rejected"] \in Nat
        /\ Cardinality(Wrong) \in Nat
        /\ count["tailErrors"] + count["rejected"] <= Cardinality(Wrong)
    BY <2>2, CountsOfShots DEF CampaignInv, WrongInv
  <2>5. count'["tailErrors"] + count'["rejected"] <= Cardinality(Wrong) + WrongNow'
    BY <1>2, <1>3, <2>2, <2>3, <2>4, CounterNames
  <2> QED
    BY <1>1, <2>1, <2>5 DEF CampaignInv, WrongInv, Wrong, Flagged
<1> QED
  BY <1>5, <1>6, <1>7, <1>8, <1>9 DEF CampaignInv

\* The tally of a shot adds it to the failures exactly if it is wrong or flagged.
LEMMA TallyStep ==
  ASSUME CampaignInv, Tally
  PROVE  CampaignInv'
<1> DEFINE n == count["shots"]
<1> DEFINE which ==
      {"shots"} \cup (IF FpgaFailed THEN {"fpgaFailures"} ELSE {})
        \cup (IF Failed THEN {"failures"} ELSE {})
        \cup (IF fpga.deferred THEN {"deferred"} ELSE {})
        \cup (IF fpga.error THEN {"error"} ELSE {})
        \cup (IF fpga.transport THEN {"basis"} ELSE {})
<1>1. /\ UNCHANGED <<args, files, worker, starts, fpga, endpoint, report>>
      /\ phase = "tally" /\ phase' = AfterShot
      /\ count' = Bump(count, which)
      /\ cases' = IF Failed /\ Cardinality(cases) < CaseLimit THEN cases \cup {n} ELSE cases
      /\ answers' = [i \in 1..(n + 1) |-> IF i <= n THEN answers[i] ELSE Answer]
      /\ batch' = batch - 1
  BY DEF Tally
<1>2. /\ n \in Nat /\ batch \in 1..BatchSize /\ n + batch <= Shots
      /\ phase' \in {"shot", "batch", "close"}
  BY <1>1, ConstantFacts, CounterNames
     DEF CampaignInv, CounterInv, PhaseInv, PlainTypeOK, AfterShot
<1>3. /\ count' \in [Counters -> Nat]
      /\ \A k \in Counters : count'[k] = count[k] + (IF k \in which THEN 1 ELSE 0)
  BY <1>1, BumpFacts DEF CampaignInv, CounterInv
<1>4. /\ count'["shots"] = n + 1
      /\ count'["tailErrors"] = count["tailErrors"]
      /\ count'["rejected"] = count["rejected"]
      /\ count'["failures"] = count["failures"] + (IF Failed THEN 1 ELSE 0)
      /\ count'["fpgaFailures"] = count["fpgaFailures"] + (IF FpgaFailed THEN 1 ELSE 0)
      /\ count'["error"] = count["error"] + (IF fpga.error THEN 1 ELSE 0)
  <2>1. /\ "shots" \in which /\ "tailErrors" \notin which /\ "rejected" \notin which
        /\ "failures" \in which <=> Failed
        /\ "fpgaFailures" \in which <=> FpgaFailed
        /\ "error" \in which <=> fpga.error
    OBVIOUS
  <2>2. /\ count["tailErrors"] \in Nat /\ count["rejected"] \in Nat
    BY CounterNames DEF CampaignInv, CounterInv
  <2> HIDE DEF which
  <2> QED
    BY <1>3, <2>1, <2>2, CounterNames
<1> HIDE DEF which
<1>5. PlainTypeOK'
  <2>1. batch' \in 0..BatchSize
    BY <1>1, <1>2, ConstantFacts
  <2>2. phase' \in {"shot", "batch", "close"}
    BY <1>2
  <2> QED
    BY <1>1, <2>1, <2>2, Zenon DEF CampaignInv, PlainTypeOK
<1>6. PhaseInv' /\ ShotInv' /\ ReportInv'
  <2>1. phase' = AfterShot /\ batch' = batch - 1
    BY <1>1
  <2>2. /\ phase' = "shot" => batch > 1
        /\ phase' = "batch" => batch <= 1 /\ n + 1 < Shots
        /\ phase' = "close" => batch <= 1 /\ ~(n + 1 < Shots)
    BY <1>2, <2>1 DEF AfterShot
  <2>3. /\ n + 1 <= Shots
        /\ phase' = "shot" => batch' >= 1 /\ n + 1 + batch' <= Shots
        /\ phase' = "batch" => batch' = 0 /\ n + 1 < Shots
        /\ phase' = "close" => n + 1 = Shots
    BY <1>2, <2>1, <2>2, ConstantFacts
  <2>4. count'["shots"] = n + 1 /\ phase' \in {"shot", "batch", "close"}
    BY <1>2, <1>4
  <2> QED
    BY <2>3, <2>4 DEF PhaseInv, ShotInv, ReportInv
<1>7. /\ Failed <=> ~Right \/ fpga.error
      /\ Failed => FpgaFailed
      /\ Late = 1 /\ WrongNow = (IF Right THEN 0 ELSE 1)
      /\ Late' = 0 /\ WrongNow' = 0
  BY <1>1, <1>2 DEF CampaignInv, ShotInv, Late, WrongNow
<1>8. CounterInv'
  <2>1. ASSUME NEW c \in TallyCounters PROVE count'[c] <= count'["shots"]
    <3>1. c \in Counters /\ count[c] \in Nat /\ count[c] <= n
      BY CounterNames DEF CampaignInv, CounterInv
    <3>2. count'[c] \in {count[c], count[c] + 1}
      BY <1>3, <3>1
    <3> QED
      BY <1>2, <1>4, <3>1, <3>2
  <2>2. ASSUME NEW c \in Counters PROVE count'[c] <= count'["shots"] + Late'
    <3>1. CASE c \in TallyCounters \cup {"shots"}
      BY <1>2, <1>3, <1>4, <1>7, <2>1, <3>1, CounterNames
    <3>2. CASE c \notin TallyCounters \cup {"shots"}
      <4>1. c \notin which
        BY <3>2 DEF which, TallyCounters
      <4>2. count[c] \in Nat /\ count[c] <= n + 1
        BY <1>7 DEF CampaignInv, CounterInv
      <4> QED
        BY <1>2, <1>3, <1>4, <1>7, <4>1, <4>2
    <3> QED
      BY <3>1, <3>2
  <2>3. /\ count["error"] \in Nat /\ count["failures"] \in Nat
        /\ count["fpgaFailures"] \in Nat /\ count["failures"] <= count["fpgaFailures"]
        /\ count["error"] <= count["failures"]
    BY CounterNames DEF CampaignInv, CounterInv
  <2>4. /\ count'["failures"] <= count'["fpgaFailures"]
        /\ count'["error"] <= count'["failures"]
    BY <1>4, <1>7, <2>3
  <2> QED
    BY <1>3, <2>1, <2>2, <2>4 DEF CounterInv
<1>9. WrongInv'
  <2>1. /\ answers \in [1..n -> Answers] /\ DOMAIN answers = 1..n
        /\ count["failures"] = Cardinality(Wrong) + Cardinality(Flagged)
        /\ Cardinality(Flagged) <= count["error"]
        /\ count["tailErrors"] + count["rejected"] <= Cardinality(Wrong) + WrongNow
    BY DEF CampaignInv, WrongInv
  <2>2. /\ Answer \in Answers
        /\ Answer \in {"wrong"} <=> ~Right
        /\ Answer \in {"flagged"} <=> Right /\ fpga.error
    BY DEF Answer, Answers, Right
  <2>3. answers' \in [1..(n + 1) -> Answers]
    <3>1. \A i \in 1..(n + 1) : i <= n => i \in 1..n
      BY <1>2
    <3>2. \A i \in 1..(n + 1) : (IF i <= n THEN answers[i] ELSE Answer) \in Answers
      BY <2>1, <2>2, <3>1, Zenon
    <3> QED
      BY <1>1, <3>2, Zenon
  <2>4. /\ Wrong \subseteq Wrong' /\ Flagged \subseteq Flagged'
        /\ (n + 1) \in Wrong' <=> ~Right
        /\ (n + 1) \in Flagged' <=> Right /\ fpga.error
        /\ Cardinality(Wrong') = Cardinality(Wrong) + (IF Right THEN 0 ELSE 1)
        /\ Cardinality(Flagged')
             = Cardinality(Flagged) + (IF Right /\ fpga.error THEN 1 ELSE 0)
    <3>0. /\ n \in Nat /\ DOMAIN answers = 1..n
          /\ answers' = [i \in 1..(n + 1) |-> IF i <= n THEN answers[i] ELSE Answer]
      BY <1>1, <1>2, <2>1
    <3> HIDE DEF n
    <3>1. /\ Marked(answers, {"wrong"}) \subseteq Marked(answers', {"wrong"})
          /\ (n + 1) \in Marked(answers', {"wrong"}) <=> Answer \in {"wrong"}
          /\ Cardinality(Marked(answers', {"wrong"}))
               = Cardinality(Marked(answers, {"wrong"})) + (IF Answer \in {"wrong"} THEN 1 ELSE 0)
      BY <3>0, MarkedGrows, SMTT(30)
    <3>2. /\ Marked(answers, {"flagged"}) \subseteq Marked(answers', {"flagged"})
          /\ (n + 1) \in Marked(answers', {"flagged"}) <=> Answer \in {"flagged"}
          /\ Cardinality(Marked(answers', {"flagged"}))
               = Cardinality(Marked(answers, {"flagged"}))
                   + (IF Answer \in {"flagged"} THEN 1 ELSE 0)
      BY <3>0, MarkedGrows, SMTT(30)
    <3> QED
      BY <2>2, <3>1, <3>2 DEF Wrong, Flagged
  <2>5. /\ count["failures"] \in Nat /\ count["error"] \in Nat
        /\ count["tailErrors"] \in Nat /\ count["rejected"] \in Nat
        /\ Cardinality(Wrong) \in Nat /\ Cardinality(Flagged) \in Nat
    BY CountsOfShots DEF CampaignInv
  <2>6. /\ count'["failures"] = Cardinality(Wrong') + Cardinality(Flagged')
        /\ Cardinality(Flagged') <= count'["error"]
        /\ count'["tailErrors"] + count'["rejected"] <= Cardinality(Wrong') + WrongNow'
    BY <1>4, <1>7, <2>1, <2>4, <2>5
  <2>7. /\ \A s \in cases : s \in 0..(n - 1) /\ (s + 1) \in Wrong \cup Flagged
        /\ IsFiniteSet(cases) /\ Cardinality(cases) <= CaseLimit
    BY DEF CampaignInv, WrongInv
  <2>8. \A s \in cases' : s \in 0..n /\ (s + 1) \in Wrong' \cup Flagged'
    <3>1. \A s \in cases' : s \in cases \/ (s = n /\ Failed)
      BY <1>1
    <3>2. \A s \in 0..(n - 1) : s \in 0..n
      BY <1>2
    <3>3. n \in 0..n /\ (Failed => (n + 1) \in Wrong' \cup Flagged')
      BY <1>2, <1>7, <2>4
    <3> QED
      BY <2>4, <2>7, <3>1, <3>2, <3>3
  <2>9. IsFiniteSet(cases') /\ Cardinality(cases') <= CaseLimit
    <3>1. CASE cases' = cases
      BY <2>7, <3>1
    <3>2. CASE Cardinality(cases) < CaseLimit /\ cases' = cases \cup {n}
      <4>1. Cardinality(cases) \in Nat
        BY <2>7, FS_CardinalityType
      <4>2. n \notin cases
        BY <1>2, <2>7
      <4>3. IsFiniteSet(cases \cup {n}) /\ Cardinality(cases \cup {n}) = Cardinality(cases) + 1
        BY <2>7, <4>2, FS_AddElement
      <4> QED
        BY <3>2, <4>1, <4>3, ConstantFacts
    <3>3. cases' = cases \/ (Cardinality(cases) < CaseLimit /\ cases' = cases \cup {n})
      BY <1>1, Zenon
    <3> QED
      BY <3>1, <3>2, <3>3
  <2> QED
    BY <1>2, <1>4, <2>3, <2>6, <2>8, <2>9 DEF WrongInv
<1> QED
  BY <1>5, <1>6, <1>8, <1>9 DEF CampaignInv

\* A campaign that is started again starts as the first one did, but for the files.
LEMMA AgainStep ==
  ASSUME CampaignInv, StartAgain
  PROVE  CampaignInv'
<1>1. /\ UNCHANGED <<args, files, report>>
      /\ starts < Starts /\ starts' = starts + 1
      /\ phase' = FirstPhase /\ worker' = "none" /\ batch' = 0
      /\ fpga' = NoReply /\ endpoint' = [success |-> FALSE, right |-> FALSE]
      /\ count' = [c \in Counters |-> 0]
      /\ cases' = {} /\ answers' = <<>>
  BY DEF StartAgain
<1>2. phase' \in {"image", "batch"}
  BY <1>1 DEF FirstPhase
<1>3. PlainTypeOK'
  BY <1>1, <1>2, ConstantFacts DEF CampaignInv, PlainTypeOK, Outcome
<1>4. \A c \in Counters : count'[c] = 0
  BY <1>1
<1>5. PhaseInv' /\ ShotInv' /\ ReportInv'
  BY <1>1, <1>2, <1>4, ConstantFacts, CounterNames DEF PhaseInv, ShotInv, ReportInv
<1>6. Late' = 0 /\ WrongNow' = 0
  BY <1>2 DEF Late, WrongNow
<1>7. CounterInv'
  BY <1>1, <1>4, <1>6, CounterNames DEF CounterInv
<1>8. WrongInv'
  <2>1. Wrong' = {} /\ Flagged' = {} /\ answers' \in [1..0 -> Answers]
    BY <1>1, NoneMarked DEF Wrong, Flagged
  <2>2. Cardinality({}) = 0 /\ IsFiniteSet({})
    BY FS_EmptySet
  <2> QED
    BY <1>1, <1>4, <1>6, <2>1, <2>2, ConstantFacts, CounterNames DEF WrongInv
<1> QED
  BY <1>3, <1>5, <1>7, <1>8 DEF CampaignInv

-----------------------------------------------------------------------------
(* The promises.                                                           *)

\* CampaignInv holds in every reachable state.
LEMMA CampaignInvHolds == CampaignSpec => []CampaignInv
<1>1. CampaignInv /\ [CampaignStep]_campaignVars => CampaignInv'
  <2> SUFFICES ASSUME CampaignInv, [CampaignStep]_campaignVars PROVE CampaignInv'
    OBVIOUS
  <2>1. CASE CampaignStep
    BY <2>1, PlainSteps, ReportStep, SampleStep, BoardStep, TailStep, TallyStep, AgainStep
       DEF CampaignStep
  <2>2. CASE UNCHANGED campaignVars
    BY <2>2 DEF campaignVars, CampaignInv, PlainTypeOK, PhaseInv, ShotInv, Failed, FpgaFailed, Right,
                CounterInv, Late, WrongNow, WrongInv, Wrong, Flagged, ReportInv
  <2> QED
    BY <2>1, <2>2
<1> QED
  BY <1>1, CampaignInvInit, PTL DEF CampaignSpec

\* The registers and counters of a campaign stay in range.
THEOREM CampaignTypeCorrect == CampaignSpec => []CampaignTypeOK
<1>1. CampaignInv => CampaignTypeOK
  <2> SUFFICES ASSUME CampaignInv PROVE CampaignTypeOK
    OBVIOUS
  <2>1. count["shots"] \in Nat /\ count["shots"] <= Shots
    BY CounterNames DEF CampaignInv, CounterInv, PhaseInv
  <2>2. count["shots"] + Late <= Shots
    BY <2>1, ConstantFacts DEF CampaignInv, PhaseInv, PlainTypeOK, Late
  <2>3. ASSUME NEW c \in Counters PROVE count[c] \in 0..Shots
    <3>1. count[c] \in Nat /\ count[c] <= count["shots"] + Late /\ Late \in {0, 1}
      BY DEF CampaignInv, CounterInv, Late
    <3> QED
      BY <2>1, <2>2, <3>1, ConstantFacts
  <2>4. count \in [Counters -> 0..Shots]
    BY <2>3 DEF CampaignInv, CounterInv
  <2>5. cases \subseteq 0..(Shots - 1)
    BY <2>1, ConstantFacts DEF CampaignInv, WrongInv
  <2> QED
    BY <2>4, <2>5, Zenon DEF CampaignInv, PlainTypeOK, WrongInv, CampaignTypeOK, Answers
<1> QED
  BY <1>1, CampaignInvHolds, PTL

\* The error rate is not flattered, whatever of board, link or tail loses a shot.
THEOREM FailuresCounted == CampaignSpec => []FailuresAreTheWrongShots
<1>1. CampaignInv => FailuresAreTheWrongShots
  <2> SUFFICES ASSUME CampaignInv PROVE FailuresAreTheWrongShots
    OBVIOUS
  <2>1. phase # "tally" => WrongNow = 0
    BY DEF WrongNow
  <2>2. phase # "tally" => count["tailErrors"] + count["rejected"] <= Cardinality(Wrong)
    BY <2>1, CountsOfShots DEF CampaignInv, WrongInv
  <2> QED
    BY <2>2 DEF FailuresAreTheWrongShots, CampaignInv, WrongInv, CounterInv
<1> QED
  BY <1>1, CampaignInvHolds, PTL

\* Exit code 0 is earned: all shots were taken, no reply was an error and no more are wrong
\* than the gate allows.
THEOREM ZeroIsEarned == CampaignSpec => []ExitZeroIsEarned
<1>1. CampaignInv => ExitZeroIsEarned
  <2> SUFFICES ASSUME CampaignInv, phase = "ended", report.exit = 0
               PROVE  /\ DOMAIN answers = 1..Shots
                      /\ Flagged = {}
                      /\ Cardinality(Wrong) <= (IF args.smoke THEN 0 ELSE Allowed)
    BY DEF ExitZeroIsEarned
  <2>1. count["shots"] = Shots /\ DOMAIN answers = 1..Shots
    BY DEF CampaignInv, PhaseInv, WrongInv
  <2>2. count["error"] = 0 /\ count["failures"] <= (IF args.smoke THEN 0 ELSE Allowed)
    BY DEF CampaignInv, ReportInv
  <2>3. /\ Cardinality(Flagged) = 0
        /\ Cardinality(Wrong) <= (IF args.smoke THEN 0 ELSE Allowed)
    BY <2>2, CountsOfShots DEF CampaignInv, WrongInv
  <2>4. Flagged = {}
    <3>1. IsFiniteSet(Flagged)
      BY <2>1, ConstantFacts, MarkedFinite DEF Flagged
    <3> QED
      BY <2>3, <3>1, FS_EmptySet
  <2> QED
    BY <2>1, <2>3, <2>4
<1> QED
  BY <1>1, CampaignInvHolds, PTL
=============================================================================

---------------------------- MODULE S1WController ----------------------------
(***************************************************************************)
(* The control of the four-lane S1W decoder                                *)
(* (rtl/decoder/paper_gross144_s1w_four_lane_controller.sv).  A shot is a  *)
(* layered min-sum search: sweeps over groups of four checks, a linear     *)
(* hash of the residual as a rejection filter after each sweep, an exact   *)
(* replay of every group before a correction is believed, then the         *)
(* projection to logical classes.                                          *)
(*                                                                         *)
(* The posterior memory is abstracted to the set of groups whose parity it *)
(* does not satisfy; an emit may change that set at will.  One step is one *)
(* visit of an FSM state, so a group is loaded, started, run and replayed  *)
(* in steps of its own and a guard may strike between any two of them.     *)
(***************************************************************************)
EXTENDS Integers

CONSTANTS
  Groups,             \* check groups of a sweep (production 13 * 18 = 234)
  MaxProfile,         \* MAX_PROFILE (production 0)
  MaxSweeps,          \* max_sweeps of each profile (production 10)
  RemapProfile,       \* first profile in standard order (6 in the source)
  Modes               \* builds to consider, see ModeType

(***************************************************************************)
(* The compile-time switches of one build: RELAY_MODE, INLINE_EXACT_CHECK, *)
(* FORCE_EXACT_REPLAY, HASH_ONLY_ACCEPT, RISK_DEFER_FINAL_SWEEP and        *)
(* EXACT_VERIFY_INTERVAL.  The production build is ProductionMode.         *)
(***************************************************************************)
ModeType == [relay : BOOLEAN, inline : BOOLEAN, force : BOOLEAN,
             hashOnly : BOOLEAN, riskDefer : BOOLEAN, interval : {1, 2}]

ProductionMode == [relay |-> FALSE, inline |-> TRUE, force |-> TRUE,
                   hashOnly |-> FALSE, riskDefer |-> TRUE, interval |-> 1]

Profile == 0..MaxProfile
Group == 1..Groups

ASSUME SizeAssumption ==
  /\ Groups \in Nat \ {0}
  /\ MaxProfile \in Nat
  /\ MaxSweeps \in [Profile -> Nat \ {0}]
  /\ RemapProfile \in Nat
ASSUME ModeAssumption == Modes \subseteq ModeType

VARIABLES
  mode,         \* the build: fixed from the first state on
  state,        \* the one-hot FSM register
  word,         \* "stale", "cleared" or "loaded": how far the endpoint has
                \* prepared the next shot
  syndrome,     \* groups whose syndrome nibble is nonzero
  unsat,        \* groups the resident correction does not satisfy
  hashZero,     \* possible_zero: the residual hash register is zero
  hashSynced,   \* does the correction hash describe the resident correction?
  initFirst,    \* init_first: S_INIT still has to clear the correction hash
  profile,      \* profile_reg
  sweep,        \* sweep_reg
  ord,          \* the (time, group) ordinal pair of the sweep, 1..Groups
  relayPhase,   \* relay_phase_reg
  pending,      \* record writebacks of the last group still to drain
  parityFailed, \* sweep_parity_failed
  hashFailed,   \* sweep_hash_failed
  vOrd,         \* the (time, group) ordinal pair of the replay
  verifyFailed, \* verify_failed
  guard,        \* structural_error_pending
  success, deferred, error, sweepsUsed

input   == <<word, syndrome>>
data    == <<unsat, hashZero, hashSynced, initFirst>>
search  == <<profile, sweep, ord, relayPhase>>
sticky  == <<parityFailed, hashFailed>>
replay  == <<vOrd, verifyFailed>>
verdict == <<success, deferred>>
vars == <<mode, state, input, data, search, pending, sticky, replay, guard,
          verdict, error, sweepsUsed>>

Lanes == 4   \* checks of a group, one record writeback each

Working == {"TARGET_REMAP", "INIT", "GROUP_SETUP", "RECORD_LOAD", "START", "RUN",
            "SWEEP_DECIDE", "VERIFY_SETUP", "VERIFY_RUN", "LOGICAL_SETUP", "LOGICAL_RUN"}

TypeControl ==
  /\ mode \in Modes
  /\ state \in Working \cup {"IDLE", "DONE", "ERROR"}
  /\ word \in {"stale", "cleared", "loaded"}
  /\ syndrome \in SUBSET Group
  /\ unsat \in SUBSET Group
  /\ profile \in Profile
  /\ sweep \in Nat
  /\ ord \in Group
  /\ relayPhase \in {0, 1}
  /\ pending \in 0..Lanes
  /\ vOrd \in Group
  /\ sweepsUsed \in Nat

TypeFlags ==
  /\ hashZero \in BOOLEAN /\ hashSynced \in BOOLEAN /\ initFirst \in BOOLEAN
  /\ parityFailed \in BOOLEAN /\ hashFailed \in BOOLEAN
  /\ verifyFailed \in BOOLEAN
  /\ guard \in BOOLEAN
  /\ success \in BOOLEAN /\ deferred \in BOOLEAN /\ error \in BOOLEAN

\* The registers stay in range: the ordinals name a group of the schedule, the
\* profile one of its profiles, and no more writebacks pend than there are lanes.
TypeOK == TypeControl /\ TypeFlags

-----------------------------------------------------------------------------
(* Helpers.                                                                *)

\* The hash is linear: a satisfied word always hashes to zero, an unsatisfied
\* one may collide, and a hash of another correction says nothing.
HashOf(u, synced) == IF synced /\ u = {} THEN {TRUE} ELSE BOOLEAN

LastSweep == sweep + 1 >= MaxSweeps[profile]

\* Group visited at an ordinal.  Profile 0 starts in reverse and alternates;
\* the rescue profiles differ in which parity of the sweep is reversed.
Reverse == IF profile = 1 THEN sweep % 2 = 1 ELSE sweep % 2 = 0
ScheduledGroup(o) == IF Reverse THEN Groups + 1 - o ELSE o

\* The FSM moves to s, unless a structural guard is pending: the last
\* assignment of the clocked block then wins.
Goto(s) ==
  /\ state' = IF guard THEN "ERROR" ELSE s
  /\ error' = (guard \/ error)

-----------------------------------------------------------------------------
(* The endpoint's side: shot_clear and the syndrome writes.  It clears and  *)
(* loads only between shots, when the FSM is in S_IDLE or S_ERROR.          *)

ShotClear ==
  /\ state \in {"IDLE", "ERROR"}
  /\ state' = "IDLE"
  /\ word' = "cleared"
  /\ syndrome' = {}
  /\ profile' = 0 /\ sweep' = 0 /\ ord' = 1 /\ relayPhase' = 0
  /\ pending' = 0
  /\ parityFailed' = FALSE /\ hashFailed' = FALSE
  /\ vOrd' = 1 /\ verifyFailed' = FALSE
  /\ guard' = FALSE
  /\ success' = FALSE /\ deferred' = FALSE /\ error' = FALSE
  /\ sweepsUsed' = 0
  /\ initFirst' = FALSE
  /\ unsat' = {}
  /\ hashSynced' = FALSE       \* the correction hash is not reset here
  /\ hashZero' \in BOOLEAN

LoadSyndrome(s) ==
  /\ state = "IDLE" /\ word = "cleared"
  /\ word' = "loaded"
  /\ syndrome' = s
  /\ unsat' = s
  /\ hashZero' \in BOOLEAN
  /\ UNCHANGED <<state, hashSynced, initFirst, search, pending, sticky, replay,
                 guard, verdict, error, sweepsUsed>>

\* A schedule, engine, mapping or memory guard latches.  The wires that feed
\* the guards are outside this module: it may happen at any time.
RaiseGuard ==
  /\ ~guard
  /\ guard' = TRUE
  /\ UNCHANGED <<state, input, data, search, pending, sticky, replay, verdict,
                 error, sweepsUsed>>

-----------------------------------------------------------------------------
(* S_IDLE, S_DONE and S_ERROR.                                             *)

Idle ==
  /\ state = "IDLE" /\ word = "loaded"
  /\ success' = (syndrome = {})
  /\ deferred' = FALSE
  /\ state' = IF guard THEN "ERROR" ELSE IF syndrome = {} THEN "DONE" ELSE "INIT"
  /\ error' = guard
  /\ profile' = 0 /\ sweep' = 0 /\ ord' = 1 /\ relayPhase' = 0
  /\ sweepsUsed' = 0
  /\ initFirst' = TRUE
  /\ pending' = 0
  /\ word' = "stale"
  /\ UNCHANGED <<syndrome, unsat, hashZero, hashSynced, sticky, replay, guard>>

\* done_ready: the endpoint has copied the result.
Done ==
  /\ state = "DONE"
  /\ Goto("IDLE")
  /\ UNCHANGED <<input, data, search, pending, sticky, replay, guard, verdict,
                 sweepsUsed>>

\* A guard strikes while S_IDLE or S_DONE waits for the endpoint.
WaitingFault ==
  /\ state \in {"IDLE", "DONE"} /\ guard
  /\ Goto(state)
  /\ UNCHANGED <<input, data, search, pending, sticky, replay, guard, verdict,
                 sweepsUsed>>

-----------------------------------------------------------------------------
(* The sweep.                                                              *)

\* S_TARGET_REMAP: regroup the target for the profiles in standard order.
TargetRemap ==
  /\ state = "TARGET_REMAP"
  /\ Goto("INIT")
  /\ UNCHANGED <<input, data, search, pending, sticky, replay, guard, verdict,
                 sweepsUsed>>

\* S_INIT: every posterior takes its prior, so the correction is zero again
\* and each nonzero syndrome bit is unsatisfied; the first cycle of the state
\* clears the correction hash, if init_first says so.
InitDecoder ==
  /\ state = "INIT"
  /\ Goto("GROUP_SETUP")
  /\ unsat' = syndrome
  /\ initFirst' = FALSE
  /\ hashSynced' = initFirst
  /\ hashZero' \in HashOf(unsat', hashSynced')
  /\ ord' = 1
  /\ UNCHANGED <<input, profile, sweep, relayPhase, pending, sticky, replay,
                 guard, verdict, sweepsUsed>>

\* Mutant: the sticky hash sample outlives its sweep.
GroupSetupKeepsHash ==
  /\ state = "GROUP_SETUP"
  /\ Goto("RECORD_LOAD")
  /\ parityFailed' = (parityFailed /\ ord # 1)
  /\ UNCHANGED <<hashFailed, input, data, search, pending, replay, guard, verdict,
                 sweepsUsed>>

\* S_GROUP_SETUP: the first group of a sweep clears the sticky flags.
GroupSetup ==
  /\ state = "GROUP_SETUP"
  /\ Goto("RECORD_LOAD")
  /\ parityFailed' = (parityFailed /\ ord # 1)
  /\ hashFailed' = (hashFailed /\ ord # 1)
  /\ UNCHANGED <<input, data, search, pending, replay, guard, verdict, sweepsUsed>>

\* S_RECORD_LOAD: four reads, as long as the four writes of the last group.
RecordLoad ==
  /\ state = "RECORD_LOAD"
  /\ Goto("START")
  /\ pending' = 0
  /\ UNCHANGED <<input, data, search, sticky, replay, guard, verdict, sweepsUsed>>

StartGroup ==
  /\ state = "START"
  /\ Goto("RUN")
  /\ UNCHANGED <<input, data, search, pending, sticky, replay, guard, verdict,
                 sweepsUsed>>

\* Mutant: the terminal group of the sweep is not recognised.
RunGroupPastEnd(u) ==
  /\ state = "RUN"
  /\ unsat' = u
  /\ hashZero' \in HashOf(u, hashSynced)
  /\ parityFailed' = (parityFailed \/ ScheduledGroup(ord) \in u)
  /\ pending' = Lanes
  /\ Goto("RECORD_LOAD") /\ ord' = ord + 1
  /\ UNCHANGED <<input, hashSynced, initFirst, profile, sweep, relayPhase,
                 hashFailed, replay, guard, verdict, sweepsUsed>>

\* S_RUN up to the last emit commit of the group: posteriors, residual hash and
\* emit parity change together, the records are queued for writeback, and the
\* next group follows without a GROUP_SETUP, at once when its records have
\* already been prefetched.
RunGroup(u) ==
  /\ state = "RUN"
  /\ unsat' = u
  /\ hashZero' \in HashOf(u, hashSynced)
  /\ parityFailed' = (parityFailed \/ ScheduledGroup(ord) \in u)
  /\ pending' = IF mode.relay /\ relayPhase = 1 THEN 0 ELSE Lanes
  /\ IF ord = Groups
       THEN Goto("SWEEP_DECIDE") /\ UNCHANGED ord
       ELSE /\ Goto("RECORD_LOAD") \/ Goto("START")
            /\ ord' = ord + 1
  /\ UNCHANGED <<input, hashSynced, initFirst, profile, sweep, relayPhase,
                 hashFailed, replay, guard, verdict, sweepsUsed>>

-----------------------------------------------------------------------------
(* S_SWEEP_DECIDE and the ways a sweep can end.                            *)

\* While record writebacks drain, the post-emit hash is sampled.
DrainRecord ==
  /\ state = "SWEEP_DECIDE" /\ pending > 0
  /\ Goto("SWEEP_DECIDE")
  /\ pending' = pending - 1
  /\ hashFailed' = (hashFailed \/ ~hashZero)
  /\ UNCHANGED <<input, data, search, parityFailed, replay, guard, verdict,
                 sweepsUsed>>

\* Another sweep of the same profile.
NextSweep ==
  /\ Goto("GROUP_SETUP")
  /\ sweep' = sweep + 1
  /\ ord' = 1
  /\ UNCHANGED <<initFirst, profile, verdict>>

\* The next profile inherits the sweep count of the old one; used in a mutant below.
NextProfileKeepsSweep ==
  /\ Goto(IF profile + 1 >= RemapProfile THEN "TARGET_REMAP" ELSE "INIT")
  /\ profile' = profile + 1
  /\ relayPhase' = 0
  /\ initFirst' = TRUE
  /\ UNCHANGED <<sweep, ord, verdict>>

\* The next profile starts from the priors; S_INIT resets the ordinals.
NextProfile ==
  /\ Goto(IF profile + 1 >= RemapProfile THEN "TARGET_REMAP" ELSE "INIT")
  /\ profile' = profile + 1
  /\ sweep' = 0
  /\ relayPhase' = 0
  /\ initFirst' = TRUE
  /\ UNCHANGED <<ord, verdict>>

\* The bounded budget is spent: the host's C tail gets the shot.
DeferShot ==
  /\ Goto("DONE")
  /\ deferred' = TRUE
  /\ UNCHANGED <<success, search, initFirst>>

\* A rejected candidate: retry while any budget is left.  The source writes this block out
\* three times, inline, after the hash and after the replay, with the same assignments to the
\* registers kept here.
Retry ==
  \/ ~LastSweep /\ NextSweep /\ UNCHANGED relayPhase
  \/ LastSweep /\ profile < MaxProfile /\ NextProfile
  \/ LastSweep /\ profile = MaxProfile /\ DeferShot

\* Relay phase 1: revisit the schedule with both records resident.
Scatter ==
  /\ Goto("GROUP_SETUP")
  /\ relayPhase' = 1
  /\ ord' = 1
  /\ UNCHANGED <<initFirst, profile, sweep, verdict>>

\* A relay leg is over: the record bank flips and a new leg begins.
NextLeg == NextSweep /\ relayPhase' = 0

\* FORCE_EXACT_REPLAY: which sweeps earn a replay.
ReplayDue ==
  \/ LastSweep
  \/ /\ ~hashFailed /\ hashZero
     /\ mode.interval = 1 \/ sweep % 2 = 1

\* Mutant: a zero hash is taken for a solved word in every build.
DecisionByHash ==
  IF ~hashFailed /\ hashZero THEN "accept" ELSE IF ReplayDue THEN "verify" ELSE "retry"

\* What a finished sweep leads to, in the order of the source's tests.
Decision ==
  CASE mode.relay /\ relayPhase = 0 ->
         IF hashZero THEN "verify" ELSE "scatter"
    [] mode.relay /\ relayPhase = 1 /\ ~hashZero /\ ~LastSweep -> "leg"
    [] ~mode.relay /\ mode.inline /\ ~mode.force ->
         IF parityFailed \/ hashFailed \/ ~hashZero THEN "retry"
         ELSE IF mode.riskDefer /\ LastSweep THEN "defer" ELSE "accept"
    [] OTHER ->
         IF mode.hashOnly /\ ~hashFailed /\ hashZero THEN "accept"
         ELSE IF (IF mode.force THEN ReplayDue ELSE hashZero) THEN "verify"
         ELSE "retry"

SweepDecide ==
  /\ state = "SWEEP_DECIDE" /\ pending = 0
  /\ sweepsUsed' = sweepsUsed + 1
  /\ \/ /\ Decision = "verify"
        /\ Goto("VERIFY_SETUP")
        /\ vOrd' = 1 /\ verifyFailed' = FALSE
        /\ UNCHANGED <<search, initFirst, verdict>>
     \/ Decision = "scatter" /\ Scatter /\ UNCHANGED replay
     \/ Decision = "leg" /\ NextLeg /\ UNCHANGED replay
     \/ Decision = "retry" /\ Retry /\ UNCHANGED replay
     \/ Decision = "defer" /\ DeferShot /\ UNCHANGED replay
     \/ /\ Decision = "accept"
        /\ Goto("LOGICAL_SETUP")
        /\ UNCHANGED <<search, initFirst, verdict, replay>>
  /\ UNCHANGED <<input, unsat, hashZero, hashSynced, pending, sticky, guard>>

-----------------------------------------------------------------------------
(* The exact replay of every group, and the logical projection.            *)

\* Mutant: the sticky failure is cleared at every group of the replay.
VerifySetupClears ==
  /\ state = "VERIFY_SETUP"
  /\ Goto("VERIFY_RUN")
  /\ verifyFailed' = FALSE
  /\ UNCHANGED <<input, data, search, pending, sticky, vOrd, guard, verdict,
                 sweepsUsed>>

\* S_VERIFY_SETUP: the replay addresses its next group.
VerifySetup ==
  /\ state = "VERIFY_SETUP"
  /\ Goto("VERIFY_RUN")
  /\ UNCHANGED <<input, data, search, pending, sticky, replay, guard, verdict,
                 sweepsUsed>>

Mismatch == vOrd \in unsat

\* Mutant: a failed group is visited again.
VerifyStepStays ==
  /\ state = "VERIFY_RUN" /\ vOrd # Groups
  /\ Goto("VERIFY_SETUP")
  /\ vOrd' = IF Mismatch THEN vOrd ELSE vOrd + 1
  /\ verifyFailed' = (verifyFailed \/ Mismatch)
  /\ UNCHANGED <<input, data, search, pending, sticky, guard, verdict, sweepsUsed>>

\* A group passed, others follow; or it failed, and the replay jumps to the
\* terminal group, where every rejection is decided.
VerifyStep ==
  /\ state = "VERIFY_RUN" /\ vOrd # Groups
  /\ Goto("VERIFY_SETUP")
  /\ vOrd' = IF Mismatch THEN Groups ELSE vOrd + 1
  /\ verifyFailed' = (verifyFailed \/ Mismatch)
  /\ UNCHANGED <<input, data, search, pending, sticky, guard, verdict, sweepsUsed>>

\* Mutant: an exact candidate of the terminal sweep is answered, not deferred.
VerifyEndNoRisk ==
  /\ state = "VERIFY_RUN" /\ vOrd = Groups
  /\ verifyFailed' = (verifyFailed \/ Mismatch)
  /\ \/ ~verifyFailed' /\ Goto("LOGICAL_SETUP") /\ UNCHANGED <<search, initFirst, verdict>>
     \/ verifyFailed' /\ Retry
  /\ UNCHANGED <<input, unsat, hashZero, hashSynced, pending, sticky, vOrd, guard,
                 sweepsUsed>>

\* Mutant: of the three copies of the retry block the one after the replay keeps the
\* sweep count.
VerifyEndKeepsSweep ==
  /\ state = "VERIFY_RUN" /\ vOrd = Groups
  /\ verifyFailed' = (verifyFailed \/ Mismatch)
  /\ \/ /\ ~verifyFailed' /\ ~(mode.riskDefer /\ LastSweep)
        /\ Goto("LOGICAL_SETUP") /\ UNCHANGED <<search, initFirst, verdict>>
     \/ ~verifyFailed' /\ mode.riskDefer /\ LastSweep /\ DeferShot
     \/ verifyFailed' /\ LastSweep /\ profile < MaxProfile /\ NextProfileKeepsSweep
     \/ verifyFailed' /\ (~LastSweep \/ profile = MaxProfile) /\ Retry
  /\ UNCHANGED <<input, unsat, hashZero, hashSynced, pending, sticky, vOrd, guard,
                 sweepsUsed>>

\* The terminal group: accept, defer the candidate of a spent budget, or reject.
VerifyEnd ==
  /\ state = "VERIFY_RUN" /\ vOrd = Groups
  /\ verifyFailed' = (verifyFailed \/ Mismatch)
  /\ \/ /\ ~verifyFailed'
        /\ ~(mode.riskDefer /\ LastSweep)
        /\ Goto("LOGICAL_SETUP")
        /\ UNCHANGED <<search, initFirst, verdict>>
     \/ ~verifyFailed' /\ mode.riskDefer /\ LastSweep /\ DeferShot
     \/ verifyFailed' /\ mode.relay /\ relayPhase = 0 /\ Scatter
     \/ verifyFailed' /\ mode.relay /\ relayPhase = 1 /\ ~LastSweep /\ NextLeg
     \/ verifyFailed' /\ (~mode.relay \/ (relayPhase = 1 /\ LastSweep)) /\ Retry
  /\ UNCHANGED <<input, unsat, hashZero, hashSynced, pending, sticky, vOrd, guard,
                 sweepsUsed>>

LogicalSetup ==
  /\ state = "LOGICAL_SETUP"
  /\ Goto("LOGICAL_RUN")
  /\ UNCHANGED <<input, data, search, pending, sticky, replay, guard, verdict,
                 sweepsUsed>>

LogicalRun ==
  /\ state = "LOGICAL_RUN"
  /\ Goto("DONE")
  /\ success' = TRUE /\ deferred' = FALSE
  /\ UNCHANGED <<input, data, search, pending, sticky, replay, guard, sweepsUsed>>

-----------------------------------------------------------------------------
\* Power-up: reset cleared everything, the endpoint has not cleared a shot yet.
Init ==
  /\ mode \in Modes
  /\ state = "IDLE" /\ word = "stale"
  /\ syndrome = {} /\ unsat = {}
  /\ hashZero = TRUE /\ hashSynced = FALSE /\ initFirst = FALSE
  /\ profile = 0 /\ sweep = 0 /\ ord = 1 /\ relayPhase = 0
  /\ pending = 0
  /\ parityFailed = FALSE /\ hashFailed = FALSE
  /\ vOrd = 1 /\ verifyFailed = FALSE
  /\ guard = FALSE
  /\ success = FALSE /\ deferred = FALSE /\ error = FALSE
  /\ sweepsUsed = 0

Fsm ==
  \/ TargetRemap \/ InitDecoder \/ GroupSetup \/ RecordLoad \/ StartGroup
  \/ \E u \in SUBSET Group : RunGroup(u)
  \/ DrainRecord \/ SweepDecide
  \/ VerifySetup \/ VerifyStep \/ VerifyEnd \/ LogicalSetup \/ LogicalRun

Next ==
  /\ UNCHANGED mode
  /\ \/ ShotClear
     \/ \E s \in SUBSET Group : LoadSyndrome(s)
     \/ RaiseGuard
     \/ Idle \/ Done \/ WaitingFault
     \/ Fsm

\* The clock never stops while a shot is being worked on; whether the endpoint
\* or a guard ever acts is not promised.
Spec == Init /\ [][Next]_vars /\ WF_vars(Fsm /\ UNCHANGED mode)

-----------------------------------------------------------------------------
(* Properties.                                                             *)

\* Builds in which every way to S_LOGICAL_SETUP passes the exact replay.
ExactMode ==
  /\ ~mode.hashOnly
  /\ mode.force \/ ~mode.inline \/ mode.relay

\* A reported success always belongs to a correction that satisfies every
\* check of the detector word: neither a hash collision, nor a group the replay
\* skipped, nor anything left over from an earlier sweep, profile or shot can
\* turn into an accepted shot.
ExactAcceptance == ExactMode /\ success => unsat = {}

\* The same of every build, for which the comment "Emit parity is exact for every
\* scheduled detector" over the inline branch of S_SWEEP_DECIDE speaks: a later
\* group may break a parity after the tap has sampled it.
InlineParityIsExact == success => unsat = {}

\* The hash only ever rejects: when a sweep ends on a correction that satisfies
\* the word, neither the live hash nor the sticky sample speaks against it.
SolvedNeverRejected ==
  state = "SWEEP_DECIDE" /\ unsat = {} => hashZero /\ ~hashFailed

\* The bounded budget ends in a defer, never in an answer: with the terminal
\* sweep's defer on, a success was found with at least one sweep to spare.  A
\* defer means that the budget of its profile was spent; while a profile is left
\* only a build with that defer gives up, and only a correction that is exact.
TerminalDefer ==
  state = "DONE" /\ syndrome # {} =>
    /\ deferred => LastSweep
    /\ deferred /\ profile # MaxProfile => mode.riskDefer /\ (ExactMode => unsat = {})
    /\ mode.riskDefer /\ ExactMode /\ success => ~LastSweep
    /\ success # deferred

\* Sweeps of the profiles before p, each of which spent its whole budget.
SweepsBefore[p \in Profile] == IF p = 0 THEN 0 ELSE SweepsBefore[p - 1] + MaxSweeps[p - 1]

\* The reported sweeps_used counts every sweep that was run once, over retries
\* and profiles, whatever rejected the candidate of each.
SweepAccounting ==
  ~mode.relay /\ state \in Working \cup {"DONE"} /\ syndrome # {} =>
    sweepsUsed = SweepsBefore[profile] + sweep +
      (IF state \in {"VERIFY_SETUP", "VERIFY_RUN", "LOGICAL_SETUP", "LOGICAL_RUN", "DONE"}
         THEN 1 ELSE 0)

\* Every shot that starts ends, in a result or in the error state, however
\* often the hash and the replay reject.
EveryShotEnds == (state = "INIT") ~> (state \in {"DONE", "ERROR"})

\* The decoder keeps the promise the endpoint relies on, as far as an exact
\* build gives it: the others may answer from the hash or the emit parity alone.
PhaseBar == CASE state = "IDLE" -> "idle" [] state = "DONE" -> "done"
              [] state = "ERROR" -> "error" [] OTHER -> "busy"
VerdictBar == IF success THEN "success" ELSE IF deferred THEN "deferred" ELSE "none"
SatisfiedBar == ExactMode => unsat = {}

Handshake == INSTANCE DecoderSpec WITH
  phase <- PhaseBar, verdict <- VerdictBar, satisfied <- SatisfiedBar

ImplementsDecoderSpec == Handshake!DecoderSafety
=============================================================================

------------------------- MODULE S1WControllerProofs -------------------------
(***************************************************************************)
(* Proofs about S1WController, for any number of groups, profiles and      *)
(* sweeps and any set of builds: type correctness, exact acceptance, that  *)
(* the hash and its sticky sample never reject a solved word, that only    *)
(* the last sweep of the last profile defers, that every accepted sweep is *)
(* counted once, and that the controller implements DecoderSpec.           *)
(*                                                                         *)
(* Each step lemma has one step per action.  Boolean registers are typed   *)
(* apart from the others because each prover is good at one kind only.     *)
(***************************************************************************)
EXTENDS S1WController, TLAPS, Induction

\* Why a success can be trusted: a replay that has not failed has seen every
\* group below vOrd satisfied, only a finished replay leads to the logical
\* projection, and nothing but the clear of the next shot touches the word or
\* the correction of a shot that has been answered.
AcceptInv ==
  /\ success => state \in {"DONE", "IDLE", "ERROR"} /\ word = "stale"
  /\ success /\ ExactMode => unsat = {}
  /\ state \in {"LOGICAL_SETUP", "LOGICAL_RUN"} /\ ExactMode => unsat = {}
  /\ state \in {"VERIFY_SETUP", "VERIFY_RUN"} /\ ~verifyFailed => \A g \in unsat : vOrd <= g
  /\ state \in Working \cup {"DONE"} => word = "stale"
  /\ state = "IDLE" /\ word = "loaded" => unsat = syndrome

\* Why the hash never rejects a solved word: S_INIT always finds init_first set
\* and so brings the hash in step with the correction, the sticky sample is
\* cleared before the first group of each sweep, and it is only sampled after
\* the last emit of the sweep.
HashInv ==
  /\ word = "cleared" => ~hashSynced
  /\ state \in Working \cup {"DONE"} => word = "stale"
  /\ state \in {"TARGET_REMAP", "INIT"} => initFirst
  /\ state \in Working \ {"TARGET_REMAP", "INIT"} => hashSynced
  /\ hashSynced /\ unsat = {} => hashZero
  /\ state = "GROUP_SETUP" => ord = 1
  /\ state \in {"RECORD_LOAD", "START", "RUN"} => ~hashFailed
  /\ state = "SWEEP_DECIDE" /\ hashFailed => ~hashZero

-----------------------------------------------------------------------------
\* Every step keeps the Boolean registers Boolean.
LEMMA FlagsStep == TypeFlags /\ [Next]_vars => TypeFlags'
  <1> SUFFICES ASSUME TypeFlags, [Next]_vars PROVE TypeFlags'
    OBVIOUS
  <1> USE DEF TypeFlags, input, data, search, sticky, replay, verdict
  <1>1. CASE UNCHANGED vars
    BY <1>1, Zenon DEF vars
  <1>2. CASE UNCHANGED mode /\ ShotClear
    BY <1>2, Zenon DEF ShotClear
  <1>3. CASE UNCHANGED mode /\ \E s \in SUBSET Group : LoadSyndrome(s)
    BY <1>3, Zenon DEF LoadSyndrome
  <1>4. CASE UNCHANGED mode /\ RaiseGuard
    BY <1>4, Zenon DEF RaiseGuard
  <1>5. CASE UNCHANGED mode /\ Idle
    BY <1>5, Zenon DEF Idle
  <1>6. CASE UNCHANGED mode /\ Done
    BY <1>6, Zenon DEF Done, Goto
  <1>7. CASE UNCHANGED mode /\ WaitingFault
    BY <1>7, Zenon DEF WaitingFault, Goto
  <1>8. CASE UNCHANGED mode /\ TargetRemap
    BY <1>8, Zenon DEF TargetRemap, Goto
  <1>9. CASE UNCHANGED mode /\ InitDecoder
    BY <1>9, Zenon DEF InitDecoder, Goto, HashOf
  <1>10. CASE UNCHANGED mode /\ GroupSetup
    BY <1>10, Zenon DEF GroupSetup, Goto
  <1>11. CASE UNCHANGED mode /\ RecordLoad
    BY <1>11, Zenon DEF RecordLoad, Goto
  <1>12. CASE UNCHANGED mode /\ StartGroup
    BY <1>12, Zenon DEF StartGroup, Goto
  <1>13. CASE UNCHANGED mode /\ \E u \in SUBSET Group : RunGroup(u)
    BY <1>13, Zenon DEF RunGroup, Goto, HashOf
  <1>14. CASE UNCHANGED mode /\ DrainRecord
    BY <1>14, Zenon DEF DrainRecord, Goto
  <1>15. CASE UNCHANGED mode /\ SweepDecide
    BY <1>15, Zenon DEF SweepDecide, Retry, NextSweep, NextProfile, DeferShot,
       NextLeg, Scatter, Goto
  <1>16. CASE UNCHANGED mode /\ VerifySetup
    BY <1>16, Zenon DEF VerifySetup, Goto
  <1>17. CASE UNCHANGED mode /\ VerifyStep
    BY <1>17, Zenon DEF VerifyStep, Goto
  <1>18. CASE UNCHANGED mode /\ VerifyEnd
    BY <1>18, Zenon DEF VerifyEnd, Retry, NextSweep, NextProfile, DeferShot,
       NextLeg, Scatter, Goto
  <1>19. CASE UNCHANGED mode /\ LogicalSetup
    BY <1>19, Zenon DEF LogicalSetup, Goto
  <1>20. CASE UNCHANGED mode /\ LogicalRun
    BY <1>20, Zenon DEF LogicalRun, Goto
  <1> QED
    BY <1>1, <1>2, <1>3, <1>4, <1>5, <1>6, <1>7, <1>8, <1>9, <1>10, <1>11,
       <1>12, <1>13, <1>14, <1>15, <1>16, <1>17, <1>18, <1>19, <1>20 DEF Next,
       Fsm

\* Every step keeps the other registers in range.
LEMMA ControlStep == TypeControl /\ [Next]_vars => TypeControl'
  <1> SUFFICES ASSUME TypeControl, [Next]_vars PROVE TypeControl'
    OBVIOUS
  <1> USE SizeAssumption DEF TypeControl, Profile, Group, Working, Lanes, input, data,
                             search, sticky, replay, verdict
  <1>1. CASE UNCHANGED vars
    BY <1>1, SMT DEF vars
  <1>2. CASE UNCHANGED mode /\ ShotClear
    BY <1>2, SMT DEF ShotClear
  <1>3. CASE UNCHANGED mode /\ \E s \in SUBSET Group : LoadSyndrome(s)
    BY <1>3, SMT DEF LoadSyndrome
  <1>4. CASE UNCHANGED mode /\ RaiseGuard
    BY <1>4, SMT DEF RaiseGuard
  <1>5. CASE UNCHANGED mode /\ Idle
    BY <1>5, SMT DEF Idle
  <1>6. CASE UNCHANGED mode /\ Done
    BY <1>6, SMT DEF Done, Goto
  <1>7. CASE UNCHANGED mode /\ WaitingFault
    BY <1>7, SMT DEF WaitingFault, Goto
  <1>8. CASE UNCHANGED mode /\ TargetRemap
    BY <1>8, SMT DEF TargetRemap, Goto
  <1>9. CASE UNCHANGED mode /\ InitDecoder
    BY <1>9, SMT DEF InitDecoder, Goto, HashOf
  <1>10. CASE UNCHANGED mode /\ GroupSetup
    BY <1>10, SMT DEF GroupSetup, Goto
  <1>11. CASE UNCHANGED mode /\ RecordLoad
    BY <1>11, SMT DEF RecordLoad, Goto
  <1>12. CASE UNCHANGED mode /\ StartGroup
    BY <1>12, SMT DEF StartGroup, Goto
  <1>13. CASE UNCHANGED mode /\ \E u \in SUBSET Group : RunGroup(u)
    BY <1>13, SMT DEF RunGroup, Goto, HashOf
  <1>14. CASE UNCHANGED mode /\ DrainRecord
    BY <1>14, SMT DEF DrainRecord, Goto
  <1>15. CASE UNCHANGED mode /\ SweepDecide
    BY <1>15, SMT DEF SweepDecide, Retry, NextSweep, NextProfile, DeferShot,
       NextLeg, Scatter, Goto
  <1>16. CASE UNCHANGED mode /\ VerifySetup
    BY <1>16, SMT DEF VerifySetup, Goto
  <1>17. CASE UNCHANGED mode /\ VerifyStep
    BY <1>17, SMT DEF VerifyStep, Goto
  <1>18. CASE UNCHANGED mode /\ VerifyEnd
    BY <1>18, SMT DEF VerifyEnd, Retry, NextSweep, NextProfile, DeferShot,
       NextLeg, Scatter, Goto
  <1>19. CASE UNCHANGED mode /\ LogicalSetup
    BY <1>19, SMT DEF LogicalSetup, Goto
  <1>20. CASE UNCHANGED mode /\ LogicalRun
    BY <1>20, SMT DEF LogicalRun, Goto
  <1> QED
    BY <1>1, <1>2, <1>3, <1>4, <1>5, <1>6, <1>7, <1>8, <1>9, <1>10, <1>11,
       <1>12, <1>13, <1>14, <1>15, <1>16, <1>17, <1>18, <1>19, <1>20 DEF Next,
       Fsm

\* The registers of the controller stay in range in every reachable state.
THEOREM TypeCorrect == Spec => []TypeOK
<1>1. Init => TypeControl
  BY SizeAssumption, SMT DEF Init, TypeControl, Profile, Group, Working, Lanes
<1>2. Init => TypeFlags
  BY Zenon DEF Init, TypeFlags
<1>3. TypeOK /\ [Next]_vars => TypeOK'
  BY ControlStep, FlagsStep DEF TypeOK
<1> QED
  BY <1>1, <1>2, <1>3, PTL DEF Spec, TypeOK

-----------------------------------------------------------------------------
\* In an exact build S_SWEEP_DECIDE never goes to the logical projection itself.
LEMMA NoShortcut == ExactMode => Decision # "accept"
  BY DEF ExactMode, Decision

\* Every step of the controller keeps AcceptInv.
LEMMA AcceptStep == TypeControl /\ AcceptInv /\ [Next]_vars => AcceptInv'
  <1> SUFFICES ASSUME TypeControl, AcceptInv, [Next]_vars PROVE AcceptInv'
    OBVIOUS
  <1> USE DEF TypeControl, AcceptInv, ExactMode, Group, Working, input, data, search,
              sticky, replay, verdict
  <1>1. CASE UNCHANGED vars
    BY <1>1 DEF vars
  <1>2. CASE UNCHANGED mode /\ ShotClear
    BY <1>2 DEF ShotClear
  <1>3. CASE UNCHANGED mode /\ \E s \in SUBSET Group : LoadSyndrome(s)
    BY <1>3 DEF LoadSyndrome
  <1>4. CASE UNCHANGED mode /\ RaiseGuard
    BY <1>4 DEF RaiseGuard
  <1>5. CASE UNCHANGED mode /\ Idle
    BY <1>5 DEF Idle
  <1>6. CASE UNCHANGED mode /\ Done
    BY <1>6 DEF Done, Goto
  <1>7. CASE UNCHANGED mode /\ WaitingFault
    BY <1>7 DEF WaitingFault, Goto
  <1>8. CASE UNCHANGED mode /\ TargetRemap
    BY <1>8 DEF TargetRemap, Goto
  <1>9. CASE UNCHANGED mode /\ InitDecoder
    BY <1>9 DEF InitDecoder, Goto, HashOf
  <1>10. CASE UNCHANGED mode /\ GroupSetup
    BY <1>10 DEF GroupSetup, Goto
  <1>11. CASE UNCHANGED mode /\ RecordLoad
    BY <1>11 DEF RecordLoad, Goto
  <1>12. CASE UNCHANGED mode /\ StartGroup
    BY <1>12 DEF StartGroup, Goto
  <1>13. CASE UNCHANGED mode /\ \E u \in SUBSET Group : RunGroup(u)
    BY <1>13 DEF RunGroup, Goto, HashOf
  <1>14. CASE UNCHANGED mode /\ DrainRecord
    BY <1>14 DEF DrainRecord, Goto
  <1>15. CASE UNCHANGED mode /\ SweepDecide
    <2>1. /\ state' \in {"VERIFY_SETUP", "GROUP_SETUP", "TARGET_REMAP", "INIT", "DONE",
                        "LOGICAL_SETUP", "ERROR"}
          /\ state' = "LOGICAL_SETUP" => Decision = "accept"
          /\ state' = "VERIFY_SETUP" => vOrd' = 1
          /\ UNCHANGED <<success, word, unsat, syndrome, mode>>
      BY <1>15 DEF SweepDecide, Retry, NextSweep, NextProfile, DeferShot,
         NextLeg, Scatter, Goto
    <2>2. state = "SWEEP_DECIDE"
      BY <1>15 DEF SweepDecide
    <2> QED
      BY <2>1, <2>2, NoShortcut
  <1>16. CASE UNCHANGED mode /\ VerifySetup
    BY <1>16 DEF VerifySetup, Goto
  <1>17. CASE UNCHANGED mode /\ VerifyStep
    <2>1. /\ state = "VERIFY_RUN" /\ state' \in {"VERIFY_SETUP", "ERROR"}
          /\ UNCHANGED <<success, word, unsat, syndrome, mode>>
      BY <1>17 DEF VerifyStep, Goto
    <2>2. ~verifyFailed' => ~verifyFailed /\ vOrd \notin unsat /\ vOrd' = vOrd + 1
      BY <1>17 DEF VerifyStep, Mismatch
    <2> QED
      BY <2>1, <2>2
  <1>18. CASE UNCHANGED mode /\ VerifyEnd
    <2>1. /\ state = "VERIFY_RUN"
          /\ state' \in {"LOGICAL_SETUP", "GROUP_SETUP", "TARGET_REMAP", "INIT", "DONE", "ERROR"}
          /\ state' = "LOGICAL_SETUP" => ~verifyFailed'
          /\ UNCHANGED <<success, word, unsat, syndrome, mode>>
      BY <1>18 DEF VerifyEnd, Retry, NextSweep, NextProfile, DeferShot,
         NextLeg, Scatter, Goto
    <2>2. ~verifyFailed' => ~verifyFailed /\ vOrd \notin unsat /\ vOrd = Groups
      BY <1>18 DEF VerifyEnd, Mismatch
    <2>3. ~verifyFailed' => unsat = {}
      BY <2>1, <2>2
    <2> QED
      BY <2>1, <2>3
  <1>19. CASE UNCHANGED mode /\ LogicalSetup
    BY <1>19 DEF LogicalSetup, Goto
  <1>20. CASE UNCHANGED mode /\ LogicalRun
    BY <1>20 DEF LogicalRun, Goto
  <1> QED
    BY <1>1, <1>2, <1>3, <1>4, <1>5, <1>6, <1>7, <1>8, <1>9, <1>10, <1>11,
       <1>12, <1>13, <1>14, <1>15, <1>16, <1>17, <1>18, <1>19, <1>20 DEF Next,
       Fsm

\* Every step of the controller keeps HashInv.
LEMMA HashStep == TypeControl /\ HashInv /\ [Next]_vars => HashInv'
  <1> SUFFICES ASSUME TypeControl, HashInv, [Next]_vars PROVE HashInv'
    OBVIOUS
  <1> USE DEF TypeControl, HashInv, Group, Working, input, data, search, sticky, replay,
              verdict
  <1>1. CASE UNCHANGED vars
    BY <1>1 DEF vars
  <1>2. CASE UNCHANGED mode /\ ShotClear
    BY <1>2 DEF ShotClear
  <1>3. CASE UNCHANGED mode /\ \E s \in SUBSET Group : LoadSyndrome(s)
    BY <1>3 DEF LoadSyndrome
  <1>4. CASE UNCHANGED mode /\ RaiseGuard
    BY <1>4 DEF RaiseGuard
  <1>5. CASE UNCHANGED mode /\ Idle
    BY <1>5 DEF Idle
  <1>6. CASE UNCHANGED mode /\ Done
    BY <1>6 DEF Done, Goto
  <1>7. CASE UNCHANGED mode /\ WaitingFault
    BY <1>7 DEF WaitingFault, Goto
  <1>8. CASE UNCHANGED mode /\ TargetRemap
    BY <1>8 DEF TargetRemap, Goto
  <1>9. CASE UNCHANGED mode /\ InitDecoder
    BY <1>9 DEF InitDecoder, Goto, HashOf
  <1>10. CASE UNCHANGED mode /\ GroupSetup
    BY <1>10 DEF GroupSetup, Goto
  <1>11. CASE UNCHANGED mode /\ RecordLoad
    BY <1>11 DEF RecordLoad, Goto
  <1>12. CASE UNCHANGED mode /\ StartGroup
    BY <1>12 DEF StartGroup, Goto
  <1>13. CASE UNCHANGED mode /\ \E u \in SUBSET Group : RunGroup(u)
    <2>1. PICK u \in SUBSET Group : RunGroup(u)
      BY <1>13
    <2>2. /\ state = "RUN"
          /\ state' \in {"SWEEP_DECIDE", "RECORD_LOAD", "START", "ERROR"}
          /\ UNCHANGED <<word, hashSynced, hashFailed>>
      BY <2>1 DEF RunGroup, Goto
    <2>3. hashSynced' /\ unsat' = {} => hashZero'
      BY <2>1 DEF RunGroup, HashOf
    <2> QED
      BY <2>2, <2>3
  <1>14. CASE UNCHANGED mode /\ DrainRecord
    <2>1. state = "SWEEP_DECIDE" /\ state' \in {"SWEEP_DECIDE", "ERROR"}
      BY <1>14 DEF DrainRecord, Goto
    <2>2. /\ hashFailed' => hashFailed \/ ~hashZero
          /\ UNCHANGED <<word, hashSynced, hashZero, unsat>>
      BY <1>14 DEF DrainRecord
    <2> QED
      BY <2>1, <2>2
  <1>15. CASE UNCHANGED mode /\ SweepDecide
    <2>1. /\ state' \in {"VERIFY_SETUP", "GROUP_SETUP", "TARGET_REMAP", "INIT", "DONE",
                        "LOGICAL_SETUP", "ERROR"}
          /\ state' \in {"TARGET_REMAP", "INIT"} => initFirst'
          /\ state' = "GROUP_SETUP" => ord' = 1
          /\ UNCHANGED <<word, hashSynced, hashZero, unsat>>
      BY <1>15 DEF SweepDecide, Retry, NextSweep, NextProfile, DeferShot,
         NextLeg, Scatter, Goto
    <2>2. state = "SWEEP_DECIDE"
      BY <1>15 DEF SweepDecide
    <2> QED
      BY <2>1, <2>2
  <1>16. CASE UNCHANGED mode /\ VerifySetup
    BY <1>16 DEF VerifySetup, Goto
  <1>17. CASE UNCHANGED mode /\ VerifyStep
    BY <1>17 DEF VerifyStep, Goto
  <1>18. CASE UNCHANGED mode /\ VerifyEnd
    BY <1>18 DEF VerifyEnd, Retry, NextSweep, NextProfile, DeferShot, NextLeg,
       Scatter, Goto
  <1>19. CASE UNCHANGED mode /\ LogicalSetup
    BY <1>19 DEF LogicalSetup, Goto
  <1>20. CASE UNCHANGED mode /\ LogicalRun
    BY <1>20 DEF LogicalRun, Goto
  <1> QED
    BY <1>1, <1>2, <1>3, <1>4, <1>5, <1>6, <1>7, <1>8, <1>9, <1>10, <1>11,
       <1>12, <1>13, <1>14, <1>15, <1>16, <1>17, <1>18, <1>19, <1>20 DEF Next,
       Fsm

\* Whatever the hash collides with and whatever an emit disturbs, a success of an
\* exact build belongs to a correction that satisfies the whole detector word.
THEOREM SuccessIsExact == Spec => []ExactAcceptance
<1>1. Init => AcceptInv
  BY DEF Init, AcceptInv, Working
<1>2. TypeOK /\ AcceptInv /\ [Next]_vars => AcceptInv'
  BY AcceptStep DEF TypeOK
<1>3. AcceptInv => ExactAcceptance
  BY DEF AcceptInv, ExactAcceptance
<1> QED
  BY <1>1, <1>2, <1>3, TypeCorrect, PTL DEF Spec

\* A sweep that ends on a correction of the whole word finds the hash zero and
\* no sticky failure, so the filter never costs a solved shot.
THEOREM HashOnlyRejects == Spec => []SolvedNeverRejected
<1>1. Init => HashInv
  BY DEF Init, HashInv, Working
<1>2. TypeOK /\ HashInv /\ [Next]_vars => HashInv'
  BY HashStep DEF TypeOK
<1>3. HashInv => SolvedNeverRejected
  BY DEF HashInv, SolvedNeverRejected, Working
<1> QED
  BY <1>1, <1>2, <1>3, TypeCorrect, PTL DEF Spec

-----------------------------------------------------------------------------
(* The controller implements DecoderSpec.                                  *)

\* Every step of the controller is a step of the handshake, or none.
LEMMA HandshakeStep ==
  TypeOK /\ AcceptInv /\ [Next]_vars => [Handshake!SpecNext]_(Handshake!specVars)
  <1> SUFFICES ASSUME TypeOK, AcceptInv, [Next]_vars
               PROVE  Handshake!SpecNext \/ UNCHANGED <<PhaseBar, VerdictBar, SatisfiedBar>>
    BY DEF Handshake!specVars
  <1> USE DEF PhaseBar, VerdictBar, SatisfiedBar, input, data, search, sticky, replay, verdict
  \* While the shot is worked on, any change of the correction is a Work step or a fault.
  <1>a. ASSUME state \in Working, state' \in Working \cup {"ERROR"}, UNCHANGED verdict
        PROVE  Handshake!SpecNext
    <2>1. CASE state' = "ERROR"
      <3>1. Handshake!Fault
        BY <1>a, <2>1 DEF Working, AcceptInv, Handshake!Fault
      <3> QED
        BY <3>1 DEF Handshake!SpecNext
    <2>2. CASE state' # "ERROR"
      <3>1. Handshake!Work
        BY <1>a, <2>2 DEF Working, Handshake!Work
      <3> QED
        BY <3>1 DEF Handshake!SpecNext
    <2> QED
      BY <2>1, <2>2
  \* A defer leaves the correction alone.
  <1>b. ASSUME state \in Working, state' \in {"DONE", "ERROR"}, deferred',
               UNCHANGED <<success, unsat, mode>>
        PROVE  Handshake!SpecNext
    <2>1. CASE state' = "ERROR"
      <3>1. Handshake!Fault
        BY <1>b, <2>1 DEF Working, AcceptInv, Handshake!Fault
      <3> QED
        BY <3>1 DEF Handshake!SpecNext
    <2>2. CASE state' = "DONE"
      <3>1. Handshake!Defer
        BY <1>b, <2>2 DEF Working, AcceptInv, ExactMode, Handshake!Defer
      <3> QED
        BY <3>1 DEF Handshake!SpecNext
    <2> QED
      BY <1>b, <2>1, <2>2
  <1>1. CASE UNCHANGED vars
    BY <1>1 DEF vars, ExactMode
  <1>2. CASE UNCHANGED mode /\ ShotClear
    <2>1. Handshake!Clear
      BY <1>2 DEF ShotClear, Handshake!Clear
    <2> QED
      BY <2>1 DEF Handshake!SpecNext
  <1>3. CASE UNCHANGED mode /\ \E s \in SUBSET Group : LoadSyndrome(s)
    <2>1. Handshake!Load
      BY <1>3 DEF LoadSyndrome, Handshake!Load
    <2> QED
      BY <2>1 DEF Handshake!SpecNext
  <1>4. CASE UNCHANGED mode /\ RaiseGuard
    BY <1>4 DEF RaiseGuard, ExactMode
  <1>5. CASE UNCHANGED mode /\ Idle
    <2>1. CASE guard
      <3>1. Handshake!Fault
        BY <1>5, <2>1 DEF Idle, AcceptInv, ExactMode, Handshake!Fault
      <3> QED
        BY <3>1 DEF Handshake!SpecNext
    <2>2. CASE ~guard /\ syndrome = {}
      <3>1. Handshake!Trivial
        BY <1>5, <2>2 DEF Idle, AcceptInv, ExactMode, Handshake!Trivial
      <3> QED
        BY <3>1 DEF Handshake!SpecNext
    <2>3. CASE ~guard /\ syndrome # {}
      <3>1. Handshake!Begin
        BY <1>5, <2>3 DEF Idle, ExactMode, Handshake!Begin
      <3> QED
        BY <3>1 DEF Handshake!SpecNext
    <2> QED
      BY <2>1, <2>2, <2>3
  <1>6. CASE UNCHANGED mode /\ Done
    <2>1. CASE guard
      <3>1. Handshake!Fault
        BY <1>6, <2>1 DEF Done, Goto, AcceptInv, ExactMode, Handshake!Fault
      <3> QED
        BY <3>1 DEF Handshake!SpecNext
    <2>2. CASE ~guard
      <3>1. Handshake!Acknowledge
        BY <1>6, <2>2 DEF Done, Goto, ExactMode, Handshake!Acknowledge
      <3> QED
        BY <3>1 DEF Handshake!SpecNext
    <2> QED
      BY <2>1, <2>2
  <1>7. CASE UNCHANGED mode /\ WaitingFault
    <2>1. Handshake!Fault
      BY <1>7 DEF WaitingFault, Goto, AcceptInv, ExactMode, Handshake!Fault
    <2> QED
      BY <2>1 DEF Handshake!SpecNext
  <1>8. CASE UNCHANGED mode /\ TargetRemap
    BY <1>8, <1>a DEF TargetRemap, Goto, Working
  <1>9. CASE UNCHANGED mode /\ InitDecoder
    BY <1>9, <1>a DEF InitDecoder, Goto, Working
  <1>10. CASE UNCHANGED mode /\ GroupSetup
    BY <1>10, <1>a DEF GroupSetup, Goto, Working
  <1>11. CASE UNCHANGED mode /\ RecordLoad
    BY <1>11, <1>a DEF RecordLoad, Goto, Working
  <1>12. CASE UNCHANGED mode /\ StartGroup
    BY <1>12, <1>a DEF StartGroup, Goto, Working
  <1>13. CASE UNCHANGED mode /\ \E u \in SUBSET Group : RunGroup(u)
    BY <1>13, <1>a DEF RunGroup, Goto, Working
  <1>14. CASE UNCHANGED mode /\ DrainRecord
    BY <1>14, <1>a DEF DrainRecord, Goto, Working
  <1>15. CASE UNCHANGED mode /\ SweepDecide
    <2>1. \/ state' \in Working \cup {"ERROR"} /\ UNCHANGED verdict
          \/ state' \in {"DONE", "ERROR"} /\ deferred' /\ UNCHANGED <<success, unsat, mode>>
      BY <1>15 DEF SweepDecide, Retry, NextSweep, NextProfile, DeferShot, NextLeg, Scatter,
         Goto, Working
    <2>2. state \in Working
      BY <1>15 DEF SweepDecide, Working
    <2> QED
      BY <2>1, <2>2, <1>a, <1>b
  <1>16. CASE UNCHANGED mode /\ VerifySetup
    BY <1>16, <1>a DEF VerifySetup, Goto, Working
  <1>17. CASE UNCHANGED mode /\ VerifyStep
    BY <1>17, <1>a DEF VerifyStep, Goto, Working
  <1>18. CASE UNCHANGED mode /\ VerifyEnd
    <2>1. \/ state' \in Working \cup {"ERROR"} /\ UNCHANGED verdict
          \/ state' \in {"DONE", "ERROR"} /\ deferred' /\ UNCHANGED <<success, unsat, mode>>
      BY <1>18 DEF VerifyEnd, Retry, NextSweep, NextProfile, DeferShot, NextLeg, Scatter,
         Goto, Working
    <2>2. state \in Working
      BY <1>18 DEF VerifyEnd, Working
    <2> QED
      BY <2>1, <2>2, <1>a, <1>b
  <1>19. CASE UNCHANGED mode /\ LogicalSetup
    BY <1>19, <1>a DEF LogicalSetup, Goto, Working
  <1>20. CASE UNCHANGED mode /\ LogicalRun
    <2>1. CASE guard
      <3>1. Handshake!Fault
        BY <1>20, <2>1 DEF LogicalRun, Goto, AcceptInv, ExactMode, Handshake!Fault
      <3> QED
        BY <3>1 DEF Handshake!SpecNext
    <2>2. CASE ~guard
      <3>1. Handshake!Accept
        BY <1>20, <2>2 DEF LogicalRun, Goto, AcceptInv, ExactMode, Handshake!Accept
      <3> QED
        BY <3>1 DEF Handshake!SpecNext
    <2> QED
      BY <2>1, <2>2
  <1> QED
    BY <1>1, <1>2, <1>3, <1>4, <1>5, <1>6, <1>7, <1>8, <1>9, <1>10, <1>11,
       <1>12, <1>13, <1>14, <1>15, <1>16, <1>17, <1>18, <1>19, <1>20 DEF Next, Fsm

\* Seen through start_ready, busy, done_valid, error and the two verdict registers, the
\* controller does what DecoderSpec promises the endpoint, guards and stale data included.
THEOREM ImplementsHandshake == Spec => ImplementsDecoderSpec
<1>1. Init => Handshake!SpecInit
  BY DEF Init, Handshake!SpecInit, PhaseBar, VerdictBar, SatisfiedBar
<1>2. Spec => []AcceptInv
  <2>1. Init => AcceptInv
    BY DEF Init, AcceptInv, Working
  <2>2. TypeOK /\ AcceptInv /\ [Next]_vars => AcceptInv'
    BY AcceptStep DEF TypeOK
  <2> QED
    BY <2>1, <2>2, TypeCorrect, PTL DEF Spec
<1> QED
  BY <1>1, <1>2, HandshakeStep, TypeCorrect, PTL
  DEF Spec, ImplementsDecoderSpec, Handshake!DecoderSafety
-----------------------------------------------------------------------------
(* The budget.                                                             *)

\* Why the bounded budget ends in a defer: no verdict is written before the shot ends,
\* and in an exact build only a candidate with a sweep to spare gets past the replay.
BudgetInv ==
  /\ state \in Working => ~success /\ ~deferred
  /\ state \in {"LOGICAL_SETUP", "LOGICAL_RUN"} /\ mode.riskDefer /\ ExactMode => ~LastSweep
  /\ TerminalDefer

\* Every step of the controller keeps BudgetInv.
LEMMA BudgetStep == TypeControl /\ TypeFlags /\ AcceptInv /\ BudgetInv /\ [Next]_vars => BudgetInv'
  <1> SUFFICES ASSUME TypeControl, TypeFlags, AcceptInv, BudgetInv, [Next]_vars PROVE BudgetInv'
    OBVIOUS
  <1> USE DEF BudgetInv, TerminalDefer, ExactMode, LastSweep, Working, input, data, search,
              sticky, replay, verdict
  \* A step inside the search that leaves the logical projection alone.
  <1>a. ASSUME state \in Working, UNCHANGED verdict,
               state' \in (Working \ {"LOGICAL_SETUP", "LOGICAL_RUN"}) \cup {"ERROR"}
        PROVE  BudgetInv'
    BY <1>a
  <1>b. ASSUME state \in Working, LastSweep, state' \in {"DONE", "ERROR"}, deferred' = TRUE,
               UNCHANGED <<success, search, mode, unsat>>,
               profile = MaxProfile \/ (mode.riskDefer /\ (ExactMode => unsat = {}))
        PROVE  BudgetInv'
    BY <1>b
  <1>1. CASE UNCHANGED vars
    BY <1>1 DEF vars
  <1>2. CASE UNCHANGED mode /\ ShotClear
    BY <1>2 DEF ShotClear
  <1>3. CASE UNCHANGED mode /\ \E s \in SUBSET Group : LoadSyndrome(s)
    BY <1>3 DEF LoadSyndrome
  <1>4. CASE UNCHANGED mode /\ RaiseGuard
    BY <1>4 DEF RaiseGuard
  <1>5. CASE UNCHANGED mode /\ Idle
    BY <1>5 DEF Idle
  <1>6. CASE UNCHANGED mode /\ Done
    BY <1>6 DEF Done, Goto
  <1>7. CASE UNCHANGED mode /\ WaitingFault
    BY <1>7 DEF WaitingFault, Goto
  <1>8. CASE UNCHANGED mode /\ TargetRemap
    BY <1>8, <1>a DEF TargetRemap, Goto
  <1>9. CASE UNCHANGED mode /\ InitDecoder
    BY <1>9, <1>a DEF InitDecoder, Goto
  <1>10. CASE UNCHANGED mode /\ GroupSetup
    BY <1>10, <1>a DEF GroupSetup, Goto
  <1>11. CASE UNCHANGED mode /\ RecordLoad
    BY <1>11, <1>a DEF RecordLoad, Goto
  <1>12. CASE UNCHANGED mode /\ StartGroup
    BY <1>12, <1>a DEF StartGroup, Goto
  <1>13. CASE UNCHANGED mode /\ \E u \in SUBSET Group : RunGroup(u)
    BY <1>13, <1>a DEF RunGroup, Goto
  <1>14. CASE UNCHANGED mode /\ DrainRecord
    BY <1>14, <1>a DEF DrainRecord, Goto
  <1>15. CASE UNCHANGED mode /\ SweepDecide
    <2>1. CASE Decision = "accept"
      BY <1>15, <2>1, NoShortcut DEF SweepDecide, Goto
    <2>2. CASE Decision = "defer"
      <3>1. LastSweep /\ mode.riskDefer /\ ~ExactMode
        BY <2>2 DEF Decision
      <3> QED
        BY <1>15, <2>2, <3>1, <1>b DEF SweepDecide, DeferShot, Goto
    <2>3. CASE Decision \in {"verify", "scatter", "leg"}
      BY <1>15, <2>3, <1>a DEF SweepDecide, NextSweep, NextLeg, Scatter, Goto
    <2>4. CASE Decision = "retry"
      BY <1>15, <2>4, <1>a, <1>b DEF SweepDecide, Retry, NextSweep, NextProfile, DeferShot, Goto
    <2> QED
      BY <1>15, <2>1, <2>2, <2>3, <2>4 DEF SweepDecide
  <1>16. CASE UNCHANGED mode /\ VerifySetup
    BY <1>16, <1>a DEF VerifySetup, Goto
  <1>17. CASE UNCHANGED mode /\ VerifyStep
    BY <1>17, <1>a DEF VerifyStep, Goto
  <1>18. CASE UNCHANGED mode /\ VerifyEnd
    <2>1. \/ /\ ~(mode.riskDefer /\ LastSweep)
             /\ state' \in {"LOGICAL_SETUP", "ERROR"}
             /\ UNCHANGED <<search, verdict>>
          \/ mode.riskDefer /\ LastSweep /\ ~verifyFailed' /\ DeferShot
          \/ Scatter \/ NextLeg \/ Retry
      BY <1>18 DEF VerifyEnd, Goto
    <2>2. state \in Working
      BY <1>18 DEF VerifyEnd
    <2>3. CASE /\ ~(mode.riskDefer /\ LastSweep)
               /\ state' \in {"LOGICAL_SETUP", "ERROR"}
               /\ UNCHANGED <<search, verdict>>
      BY <1>18, <2>2, <2>3
    <2>4. CASE mode.riskDefer /\ LastSweep /\ ~verifyFailed' /\ DeferShot
      <3>1. state = "VERIFY_RUN" /\ ~verifyFailed /\ vOrd \notin unsat /\ vOrd = Groups
        BY <1>18, <2>4 DEF VerifyEnd, Mismatch
      <3>2. unsat \in SUBSET (1..Groups) /\ \A g \in unsat : vOrd <= g
        BY <3>1 DEF AcceptInv, TypeControl, Group
      <3>3. \A g \in unsat : g = vOrd
        BY <3>1, <3>2, SizeAssumption
      <3>4. unsat = {}
        BY <3>1, <3>3
      <3> QED
        BY <1>18, <2>2, <2>4, <3>4, <1>b DEF VerifyEnd, DeferShot, Goto
    <2>5. CASE Scatter \/ NextLeg
      BY <2>2, <2>5, <1>a DEF Scatter, NextLeg, NextSweep, Goto
    <2>6. CASE Retry
      BY <1>18, <2>2, <2>6, <1>a, <1>b DEF VerifyEnd, Retry, NextSweep, NextProfile, DeferShot, Goto
    <2> QED
      BY <2>1, <2>3, <2>4, <2>5, <2>6
  <1>19. CASE UNCHANGED mode /\ LogicalSetup
    BY <1>19 DEF LogicalSetup, Goto
  <1>20. CASE UNCHANGED mode /\ LogicalRun
    BY <1>20 DEF LogicalRun, Goto
  <1> QED
    BY <1>1, <1>2, <1>3, <1>4, <1>5, <1>6, <1>7, <1>8, <1>9, <1>10, <1>11,
       <1>12, <1>13, <1>14, <1>15, <1>16, <1>17, <1>18, <1>19, <1>20 DEF Next, Fsm

\* A spent budget is answered with a defer, before the last profile only of an exact
\* correction, and a success was found before it was spent.
THEOREM BudgetEndsInDefer == Spec => []TerminalDefer
<1>1. Init => BudgetInv
  BY DEF Init, BudgetInv, TerminalDefer, Working
<1>2. TypeOK /\ AcceptInv /\ BudgetInv /\ [Next]_vars => BudgetInv'
  BY BudgetStep DEF TypeOK
<1>3. BudgetInv => TerminalDefer
  BY DEF BudgetInv
<1>4. Spec => []AcceptInv
  <2>1. Init => AcceptInv
    BY DEF Init, AcceptInv, Working
  <2>2. TypeOK /\ AcceptInv /\ [Next]_vars => AcceptInv'
    BY AcceptStep DEF TypeOK
  <2> QED
    BY <2>1, <2>2, TypeCorrect, PTL DEF Spec
<1> QED
  BY <1>1, <1>2, <1>3, <1>4, TypeCorrect, PTL DEF Spec

-----------------------------------------------------------------------------
(* The sweeps counted.                                                     *)

\* The recursive definition of SweepsBefore has a solution, and it counts.
LEMMA SweepsBeforeFacts ==
  /\ SweepsBefore[0] = 0
  /\ \A p \in Profile : p # MaxProfile => SweepsBefore[p + 1] = SweepsBefore[p] + MaxSweeps[p]
  /\ \A p \in Profile : SweepsBefore[p] \in Nat
<1> DEFINE step == [i \in 1..MaxProfile |-> [total \in Nat |-> total + MaxSweeps[i - 1]]]
<1>1. MaxProfile \in Nat /\ 0 \in Nat
  BY SizeAssumption
<1>2. /\ IsStep(step, Nat, MaxProfile)
      /\ \A i \in 1..MaxProfile, total \in Nat : step[i][total] = total + MaxSweeps[i - 1]
  BY SizeAssumption DEF Profile, IsStep
<1> HIDE DEF step
<1>3. PICK f : IsIterate(f, Nat, 0, MaxProfile, step)
  BY <1>1, <1>2, IterateExists
<1>4. \A i \in 1..MaxProfile : f[i] = f[i - 1] + MaxSweeps[i - 1]
  <2> SUFFICES ASSUME NEW i \in 1..MaxProfile PROVE f[i] = f[i - 1] + MaxSweeps[i - 1]
    OBVIOUS
  <2>1. f[i - 1] \in Nat
    BY <1>1, <1>3 DEF IsIterate
  <2> QED
    BY <1>2, <1>3, <2>1 DEF IsIterate
<1>5. f = [p \in Profile |-> IF p = 0 THEN 0 ELSE f[p - 1] + MaxSweeps[p - 1]]
  <2>1. \A p \in Profile : f[p] = IF p = 0 THEN 0 ELSE f[p - 1] + MaxSweeps[p - 1]
    BY <1>1, <1>3, <1>4 DEF Profile, IsIterate
  <2> QED
    BY <1>3, <2>1 DEF Profile, IsIterate
<1>6. SweepsBefore = [p \in Profile |->
                        IF p = 0 THEN 0 ELSE SweepsBefore[p - 1] + MaxSweeps[p - 1]]
  BY <1>5 DEF SweepsBefore
<1>7. SweepsBefore[0] = 0
  BY <1>1, <1>6 DEF Profile
<1>8. \A p \in Profile : p # MaxProfile => SweepsBefore[p + 1] = SweepsBefore[p] + MaxSweeps[p]
  BY <1>1, <1>6 DEF Profile
<1>9. 0..MaxProfile \subseteq {p \in Profile : SweepsBefore[p] \in Nat}
  <2> DEFINE S == {p \in Profile : SweepsBefore[p] \in Nat}
  <2>1. 0 \in S
    BY <1>1, <1>7 DEF Profile
  <2>2. ASSUME NEW i \in 1..MaxProfile, (i - 1) \in S PROVE i \in S
    <3>1. SweepsBefore[i] = SweepsBefore[i - 1] + MaxSweeps[i - 1]
      BY <1>1, <1>6 DEF Profile
    <3> QED
      BY <1>1, <2>2, <3>1, SizeAssumption DEF Profile
  <2> HIDE DEF S
  <2> QED
    BY <1>1, <2>1, <2>2, IntervalInduction DEF S
<1> QED
  BY <1>7, <1>8, <1>9 DEF Profile

\* Why the count is right: a profile is left only when its budget is spent.
CountInv ==
  /\ SweepAccounting
  /\ ~mode.relay /\ state \in Working /\ syndrome # {} => sweep < MaxSweeps[profile]

\* Every step of the controller keeps CountInv.
LEMMA CountStep == TypeControl /\ CountInv /\ [Next]_vars => CountInv'
  <1> SUFFICES ASSUME TypeControl, CountInv, [Next]_vars PROVE CountInv'
    OBVIOUS
  <1> DEFINE Counted == {"VERIFY_SETUP", "VERIFY_RUN", "LOGICAL_SETUP", "LOGICAL_RUN", "DONE"}
  <1> USE DEF CountInv, SweepAccounting, input, data, search, sticky, replay, verdict
  <1>t. /\ sweep \in Nat /\ profile \in Profile /\ sweepsUsed \in Nat
        /\ MaxSweeps[profile] \in Nat \ {0} /\ MaxProfile \in Nat /\ 0 \in Profile
        /\ MaxSweeps[0] \in Nat \ {0} /\ SweepsBefore[profile] \in Nat
    BY SizeAssumption, SweepsBeforeFacts DEF TypeControl, Profile
  \* A step that keeps the counters and does not pass the end of a sweep.
  <1>a. ASSUME state \in Working, UNCHANGED <<mode, syndrome, profile, sweep, sweepsUsed>>,
               \/ state' \in Working /\ (state \in Counted <=> state' \in Counted)
               \/ state' = "DONE" /\ state \in Counted
               \/ state' = "ERROR"
        PROVE  CountInv'
    BY <1>a DEF Working
  \* A rejected candidate of a sweep that has been counted, here as "used".
  <1>b. ASSUME NEW used, ~mode.relay, state \in Working, syndrome # {},
               used = SweepsBefore[profile] + sweep + 1, sweepsUsed' = used,
               Retry, UNCHANGED <<mode, syndrome>>
        PROVE  CountInv'
    <2>1. CASE ~LastSweep /\ NextSweep
      BY <1>b, <1>t, <2>1 DEF LastSweep, NextSweep, Goto, Working
    <2>2. CASE LastSweep /\ profile < MaxProfile /\ NextProfile
      <3>1. /\ profile' = profile + 1 /\ profile' \in Profile /\ sweep' = 0
            /\ state' \in {"TARGET_REMAP", "INIT", "ERROR"}
        BY <1>t, <2>2 DEF NextProfile, Goto, Profile
      <3>2. sweep + 1 = MaxSweeps[profile]
        BY <1>b, <1>t, <2>2 DEF LastSweep
      <3>3. SweepsBefore[profile'] = SweepsBefore[profile] + MaxSweeps[profile]
        BY <1>t, <2>2, <3>1, SweepsBeforeFacts
      <3>4. MaxSweeps[profile'] \in Nat \ {0}
        BY <3>1, SizeAssumption
      <3> QED
        BY <1>b, <1>t, <3>1, <3>2, <3>3, <3>4 DEF Working
    <2>3. CASE DeferShot
      BY <1>b, <1>t, <2>3 DEF DeferShot, Goto, Working
    <2> QED
      BY <1>b, <2>1, <2>2, <2>3 DEF Retry
  <1>1. CASE UNCHANGED vars
    BY <1>1 DEF vars
  <1>2. CASE UNCHANGED mode /\ ShotClear
    BY <1>2 DEF ShotClear, Working
  <1>3. CASE UNCHANGED mode /\ \E s \in SUBSET Group : LoadSyndrome(s)
    BY <1>3 DEF LoadSyndrome, Working
  <1>4. CASE UNCHANGED mode /\ RaiseGuard
    BY <1>4 DEF RaiseGuard
  <1>5. CASE UNCHANGED mode /\ Idle
    BY <1>5, <1>t, SweepsBeforeFacts DEF Idle, Working
  <1>6. CASE UNCHANGED mode /\ Done
    BY <1>6 DEF Done, Goto, Working
  <1>7. CASE UNCHANGED mode /\ WaitingFault
    BY <1>7 DEF WaitingFault, Goto, Working
  <1>8. CASE UNCHANGED mode /\ TargetRemap
    BY <1>8, <1>a DEF TargetRemap, Goto, Working
  <1>9. CASE UNCHANGED mode /\ InitDecoder
    BY <1>9, <1>a DEF InitDecoder, Goto, Working
  <1>10. CASE UNCHANGED mode /\ GroupSetup
    BY <1>10, <1>a DEF GroupSetup, Goto, Working
  <1>11. CASE UNCHANGED mode /\ RecordLoad
    BY <1>11, <1>a DEF RecordLoad, Goto, Working
  <1>12. CASE UNCHANGED mode /\ StartGroup
    BY <1>12, <1>a DEF StartGroup, Goto, Working
  <1>13. CASE UNCHANGED mode /\ \E u \in SUBSET Group : RunGroup(u)
    BY <1>13, <1>a DEF RunGroup, Goto, Working
  <1>14. CASE UNCHANGED mode /\ DrainRecord
    BY <1>14, <1>a DEF DrainRecord, Goto, Working
  <1>15. CASE UNCHANGED mode /\ SweepDecide
    <2>1. CASE mode.relay \/ syndrome = {}
      BY <1>15, <2>1 DEF SweepDecide
    <2>2. CASE ~mode.relay /\ syndrome # {}
      <3>1. /\ state = "SWEEP_DECIDE" /\ UNCHANGED <<mode, syndrome>>
            /\ sweepsUsed' = SweepsBefore[profile] + sweep + 1
        BY <1>15, <2>2, <1>t DEF SweepDecide, Working
      <3>2. CASE Decision \in {"verify", "accept"}
        BY <1>15, <1>t, <2>2, <3>1, <3>2 DEF SweepDecide, Goto, Working
      <3>3. CASE Decision = "retry"
        BY <1>15, <2>2, <3>1, <3>3, <1>b DEF SweepDecide, Working
      <3>4. CASE Decision = "defer"
        BY <1>15, <1>t, <2>2, <3>1, <3>4 DEF SweepDecide, DeferShot, Goto, Working
      <3>5. Decision \notin {"scatter", "leg"}
        BY <2>2 DEF Decision
      <3> QED
        BY <1>15, <3>2, <3>3, <3>4, <3>5 DEF SweepDecide
    <2> QED
      BY <2>1, <2>2
  <1>16. CASE UNCHANGED mode /\ VerifySetup
    BY <1>16, <1>a DEF VerifySetup, Goto, Working
  <1>17. CASE UNCHANGED mode /\ VerifyStep
    BY <1>17, <1>a DEF VerifyStep, Goto, Working
  <1>18. CASE UNCHANGED mode /\ VerifyEnd
    <2>1. CASE mode.relay \/ syndrome = {}
      BY <1>18, <2>1 DEF VerifyEnd
    <2>2. CASE ~mode.relay /\ syndrome # {}
      <3>1. /\ state = "VERIFY_RUN" /\ UNCHANGED <<mode, syndrome, sweepsUsed>>
            /\ sweepsUsed = SweepsBefore[profile] + sweep + 1
        BY <1>18, <2>2, <1>t DEF VerifyEnd, Working
      <3>2. \/ Goto("LOGICAL_SETUP") /\ UNCHANGED search
            \/ DeferShot \/ Retry
        BY <1>18, <2>2 DEF VerifyEnd
      <3>3. CASE Goto("LOGICAL_SETUP") /\ UNCHANGED search
        BY <3>1, <3>3, <1>a DEF Goto, Working
      <3>4. CASE DeferShot
        BY <3>1, <3>4, <1>a DEF DeferShot, Goto, Working
      <3>5. CASE Retry
        BY <2>2, <3>1, <3>5, <1>b DEF Working
      <3> QED
        BY <3>2, <3>3, <3>4, <3>5
    <2> QED
      BY <2>1, <2>2
  <1>19. CASE UNCHANGED mode /\ LogicalSetup
    BY <1>19, <1>a DEF LogicalSetup, Goto, Working
  <1>20. CASE UNCHANGED mode /\ LogicalRun
    BY <1>20, <1>a DEF LogicalRun, Goto, Working
  <1> QED
    BY <1>1, <1>2, <1>3, <1>4, <1>5, <1>6, <1>7, <1>8, <1>9, <1>10, <1>11,
       <1>12, <1>13, <1>14, <1>15, <1>16, <1>17, <1>18, <1>19, <1>20 DEF Next, Fsm

\* sweeps_used counts every sweep of every profile once, whatever rejected its candidate.
THEOREM SweepsCounted == Spec => []SweepAccounting
<1>1. Init => CountInv
  BY DEF Init, CountInv, SweepAccounting, Working
<1>2. TypeOK /\ CountInv /\ [Next]_vars => CountInv'
  BY CountStep DEF TypeOK
<1>3. CountInv => SweepAccounting
  BY DEF CountInv
<1> QED
  BY <1>1, <1>2, <1>3, TypeCorrect, PTL DEF Spec
=============================================================================

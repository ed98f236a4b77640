----------------------------- MODULE DecoderSpec -----------------------------
(***************************************************************************)
(* What the four-lane decoder promises to the board endpoint around it:    *)
(* one shot at a time over the shot_clear / start / done handshake, and a  *)
(* success only for a correction that satisfies the whole detector word.   *)
(* How the correction is found is left out: while busy, the resident       *)
(* correction may satisfy the word or not.                                 *)
(***************************************************************************)

VARIABLES
  phase,     \* "idle", "busy", "done" or "error": what start_ready, busy,
             \* done_valid and error say
  verdict,   \* "none", "success" or "deferred"
  satisfied  \* does the resident correction satisfy the detector word?

specVars == <<phase, verdict, satisfied>>

SpecInit ==
  /\ phase = "idle"
  /\ verdict = "none"
  /\ satisfied \in BOOLEAN

-----------------------------------------------------------------------------
\* shot_clear, also the way out of "error".
Clear ==
  /\ phase \in {"idle", "error"}
  /\ phase' = "idle"
  /\ verdict' = "none"
  /\ satisfied' \in BOOLEAN

\* A new detector word changes what the resident correction is measured by.
Load ==
  /\ phase = "idle"
  /\ satisfied' \in BOOLEAN
  /\ UNCHANGED <<phase, verdict>>

Begin ==
  /\ phase = "idle"
  /\ phase' = "busy"
  /\ verdict' = "none"
  /\ UNCHANGED satisfied

\* The all-zero word needs no correction.
Trivial ==
  /\ phase = "idle"
  /\ satisfied
  /\ phase' = "done"
  /\ verdict' = "success"
  /\ UNCHANGED satisfied

Work ==
  /\ phase = "busy"
  /\ satisfied' \in BOOLEAN
  /\ UNCHANGED <<phase, verdict>>

Accept ==
  /\ phase = "busy"
  /\ satisfied
  /\ phase' = "done"
  /\ verdict' = "success"
  /\ UNCHANGED satisfied

Defer ==
  /\ phase = "busy"
  /\ phase' = "done"
  /\ verdict' = "deferred"
  /\ UNCHANGED satisfied

Acknowledge ==
  /\ phase = "done"
  /\ phase' = "idle"
  /\ UNCHANGED <<verdict, satisfied>>

\* A structural guard preempts whatever the decoder was about to do; the
\* verdict registers may already be written, but phase says "error".
Fault ==
  /\ phase # "error"
  /\ phase' = "error"
  /\ verdict' \in {"none", "deferred"} \cup (IF satisfied THEN {"success"} ELSE {verdict})
  /\ satisfied' \in BOOLEAN

SpecNext ==
  \/ Clear \/ Load \/ Begin \/ Trivial \/ Work
  \/ Accept \/ Defer \/ Acknowledge \/ Fault

DecoderSafety == SpecInit /\ [][SpecNext]_specVars
=============================================================================

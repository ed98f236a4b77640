----------------------------- MODULE StopAndWait -----------------------------
(***************************************************************************)
(* What the board endpoint promises to its host: a decode request that was *)
(* accepted is accepted once, and answered once, in order, with the decode *)
(* of its own detector word.  A request is named by its sequence number,   *)
(* and so is the word it carries.                                          *)
(***************************************************************************)
EXTENDS Integers, Sequences, SequencesExt

CONSTANT Requests          \* sequence numbers the host may use

VARIABLES
  unanswered,   \* accepted requests without an answer, oldest first
  answers       \* [seq, answer] of every answer given, oldest first

sawVars == <<unanswered, answers>>

Accepted == ToSet(unanswered) \cup {answers[i].seq : i \in DOMAIN answers}

SawInit == unanswered = <<>> /\ answers = <<>>

Accept(s) ==
  /\ s \notin Accepted
  /\ unanswered' = Append(unanswered, s)
  /\ UNCHANGED answers

Own(s) == [seq |-> s, answer |-> s]

Answer ==
  /\ unanswered # <<>>
  /\ answers' = Append(answers, Own(Head(unanswered)))
  /\ unanswered' = Tail(unanswered)

\* The endpoint accepts the next request in the cycle in which it hands the
\* answer to the transmitter.
Exchange(s) ==
  /\ s \notin Accepted
  /\ unanswered # <<>>
  /\ answers' = Append(answers, Own(Head(unanswered)))
  /\ unanswered' = Append(Tail(unanswered), s)

SawNext ==
  \/ \E s \in Requests : Accept(s) \/ Exchange(s)
  \/ Answer

SawSafety == SawInit /\ [][SawNext]_sawVars

SawSpec ==
  /\ SawSafety
  /\ WF_sawVars(Answer \/ \E s \in Requests : Exchange(s))
=============================================================================

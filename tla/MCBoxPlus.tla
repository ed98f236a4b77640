------------------------------- MODULE MCBoxPlus -------------------------------
(***************************************************************************)
(* Two messages combined by the integer box-plus, for TLC: every pair of   *)
(* five-bit messages, the second picked after the first.                   *)
(***************************************************************************)
EXTENDS CheckUpdate

VARIABLE messages

Messages == -MESSAGE_MAG_MAX .. MESSAGE_MAG_MAX

Init == messages = <<>>

PickMessage ==
  /\ Len(messages) < 2
  /\ \E m \in Messages : messages' = Append(messages, m)

Spec == Init /\ [][PickMessage]_messages

\* BoxPlusIsSound of CheckUpdate: a combined message is at most as reliable as
\* the less reliable of the two.
CombinedIsSound == Len(messages) = 2 => BoxPlusIsSound(messages[1], messages[2])
=============================================================================

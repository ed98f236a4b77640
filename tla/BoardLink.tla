------------------------------ MODULE BoardLink ------------------------------
(***************************************************************************)
(* The board campaign (tools/run_paper_gross144_four_lane_board_campaign   *)
(* .py: class Board and the shot loop of main) over the serial link, with  *)
(* the frame parser it reads with (protocol.py) and the board at the other *)
(* end.  The board is a queue of two requests answered in order: the one   *)
(* latched by the endpoint and the frame held by its framer (UartEndpoint  *)
(* and StopAndWait).  A request or a reply is its sequence number and the  *)
(* shot whose detector word it carries.                                    *)
(*                                                                         *)
(* The link and the board may be late, lose, damage or cut a message at    *)
(* any time, the driver may fail at every call.  `faults' counts these     *)
(* events, up to 2.                                                        *)
(***************************************************************************)
EXTENDS Integers, Sequences, SequencesExt

CONSTANTS
  Shots,      \* shots of the campaign
  MaxSeq      \* the last sequence number before the wrap (code: 0xFFFF)

ASSUME LinkAssumption == Shots \in Nat \ {0} /\ MaxSeq \in Nat \ {0, 1}

VARIABLES
  \* the campaign
  phase,            \* "write", "wait", "failed", "done", or "aborted" by the basis check
  results,          \* per shot: the shot whose decode was returned, 0 for an exception
  transportErrors, decoderErrors, basisMismatches,
  \* the Board object
  sequence,         \* self.sequence
  trySeq,           \* the local sequence of the attempt
  attempt,          \* 0 or 1
  portOpen,
  parserErrors,     \* crc_errors + format_errors of the current parser
  fragment,         \* does the parser hold the head of a cut frame?
  \* the link and the board
  line,             \* replies on their way to the host, oldest first
  queue,            \* requests the board holds, oldest first
  midFrame,         \* is the framer inside a cut request?
  ownBasis,         \* was the bitstream of the requested basis flashed?
  \* history
  faults,           \* min(2, faults so far)
  desynced,         \* was the framer ever left inside a request?
  crcSeen           \* did any parser count an error?

campaign == <<phase, results, transportErrors, decoderErrors, basisMismatches>>
board    == <<sequence, trySeq, attempt, portOpen, parserErrors, fragment>>
link     == <<line, queue, midFrame, ownBasis>>
history  == <<faults, desynced, crcSeen>>
vars     == <<campaign, board, link, history>>

Shot == Len(results) + 1          \* the shot under way

Fault == faults' = IF faults < 2 THEN faults + 1 ELSE 2
NoFault == UNCHANGED faults

NextSeq(s) == IF s = MaxSeq THEN 1 ELSE s + 1

-----------------------------------------------------------------------------
(* The loop of main around decode_payload.                                 *)

\* The next shot starts with a first attempt under self.sequence.
NextShot(answer, nextSequence) ==
  /\ results' = Append(results, answer)
  /\ phase' = IF Shot = Shots THEN "done" ELSE "write"
  /\ sequence' = nextSequence
  /\ trySeq' = nextSequence
  /\ attempt' = 0

\* Mutant: a transport exception is not counted.
FailShotUncounted ==
  /\ NextShot(0, sequence)
  /\ UNCHANGED <<transportErrors, decoderErrors, basisMismatches>>

\* An exception of decode_payload: the dummy result has error set and basis -1.
FailShot ==
  /\ NextShot(0, sequence)
  /\ transportErrors' = transportErrors + 1
  /\ decoderErrors' = decoderErrors + 1
  /\ basisMismatches' = basisMismatches + 1

\* A reply with the sequence number of the attempt.
Return(r) ==
  IF ownBasis
    THEN /\ NextShot(r.shot, NextSeq(trySeq))
         /\ decoderErrors' = decoderErrors + (IF r.error THEN 1 ELSE 0)
         /\ UNCHANGED <<transportErrors, basisMismatches>>
    ELSE /\ phase' = "aborted"
         /\ sequence' = NextSeq(trySeq)
         /\ UNCHANGED <<results, transportErrors, decoderErrors, basisMismatches,
                        trySeq, attempt>>

-----------------------------------------------------------------------------
(* Writing a request, and what arrives of it.                              *)

Deaf == Len(queue) = 2      \* a frame is held behind the latched request

\* The whole request reaches the framer.  One that it is deaf for, or whose first
\* bytes complete an earlier cut one, is lost.
Arrive ==
  /\ queue' = IF Deaf \/ midFrame THEN queue
              ELSE Append(queue, [seq |-> trySeq, shot |-> Shot])
  /\ midFrame' = (midFrame /\ Deaf)
  /\ NoFault

\* Some or none of it does, or with a bad byte: a CRC error, or a frame whose end
\* the framer still waits for.
ArriveDamaged ==
  /\ midFrame' \in (IF Deaf THEN {midFrame} ELSE BOOLEAN)
  /\ UNCHANGED queue
  /\ Fault

Write ==
  /\ phase = "write" /\ portOpen
  /\ Arrive \/ ArriveDamaged
  /\ desynced' = (desynced \/ midFrame')
  /\ phase' = "wait"
  /\ UNCHANGED <<results, transportErrors, decoderErrors, basisMismatches, board, line,
                 ownBasis, crcSeen>>

\* serial.write raises: the driver rejects it, writes part of it, or is closed.
WriteFails ==
  /\ phase = "write"
  /\ \/ portOpen /\ ArriveDamaged
     \/ ~portOpen /\ NoFault /\ UNCHANGED <<queue, midFrame>>
  /\ desynced' = (desynced \/ midFrame')
  /\ phase' = "failed"
  /\ UNCHANGED <<results, transportErrors, decoderErrors, basisMismatches, board, line,
                 ownBasis, crcSeen>>

-----------------------------------------------------------------------------
(* The board answers.                                                      *)

ReplyTo(q, error, form) ==
  [seq |-> q.seq, shot |-> q.shot, error |-> error, form |-> form]

Answer ==
  /\ phase \in {"write", "wait", "failed"}
  /\ queue # <<>>
  /\ queue' = Tail(queue)
  /\ \E error \in BOOLEAN :
       \/ /\ portOpen /\ NoFault
          /\ line' = Append(line, ReplyTo(Head(queue), error, "whole"))
       \/ /\ portOpen /\ Fault
          /\ \E form \in {"damaged", "cut"} :
               line' = Append(line, ReplyTo(Head(queue), error, form))
       \/ Fault /\ UNCHANGED line
       \/ ~portOpen /\ NoFault /\ UNCHANGED line
  /\ UNCHANGED <<campaign, board, midFrame, ownBasis, desynced, crcSeen>>

-----------------------------------------------------------------------------
(* Reading replies: FrameParser.feed on a chunk, then the loop over its    *)
(* frames.                                                                 *)

\* The parser's state after one more message of the chunk.  Bytes that complete the
\* head of a cut frame make a frame with a bad CRC, and are gone with it.
FeedOne(p, m) ==
  IF p.fragment              THEN [p EXCEPT !.fragment = FALSE, !.errors = @ + 1]
  ELSE IF m.form = "cut"     THEN [p EXCEPT !.fragment = TRUE]
  ELSE IF m.form = "damaged" THEN [p EXCEPT !.errors = @ + 1]
  ELSE                            [p EXCEPT !.frames = Append(@, m)]

Feed(chunk) ==
  FoldLeft(FeedOne, [fragment |-> fragment, errors |-> parserErrors, frames |-> <<>>], chunk)

\* Mutant: any reply will do.
MineAny(frames) == DOMAIN frames

\* The positions of the frames that the loop does not skip; it returns with the first.
Mine(frames) == {i \in DOMAIN frames : frames[i].seq = trySeq}

\* Frames behind the first match of the chunk are parsed and dropped.
Read ==
  /\ phase = "wait" /\ line # <<>>
  /\ \E n \in 1..Len(line) :
       LET fed == Feed(SubSeq(line, 1, n))
           mine == Mine(fed.frames) IN
       /\ line' = SubSeq(line, n + 1, Len(line))
       /\ parserErrors' = fed.errors
       /\ fragment' = fed.fragment
       /\ crcSeen' = (crcSeen \/ fed.errors > parserErrors)
       /\ IF mine = {}
            THEN UNCHANGED <<campaign, sequence, trySeq, attempt>>
            ELSE Return(fed.frames[Min(mine)])
  /\ UNCHANGED <<portOpen, queue, midFrame, ownBasis, faults, desynced>>

\* Is an answer to this attempt still to come, and readable?
Underway ==
  \/ \E q \in ToSet(queue) : q.seq = trySeq /\ q.shot = Shot
  \/ \E m \in ToSet(line) : m.seq = trySeq /\ m.shot = Shot /\ m.form = "whole"

\* The deadline passes, or serial.read raises.  It is a fault of its own when an
\* answer was under way.
WaitFails ==
  /\ phase = "wait"
  /\ IF Underway THEN Fault ELSE Fault \/ NoFault
  /\ phase' = "failed"
  /\ UNCHANGED <<results, transportErrors, decoderErrors, basisMismatches, board, link,
                 desynced, crcSeen>>

-----------------------------------------------------------------------------
(* The second attempt.                                                     *)

\* Mutant: every failure is retried.
ReconnectForever ==
  /\ phase = "failed"
  /\ portOpen' = TRUE /\ line' = <<>>
  /\ parserErrors' = 0 /\ fragment' = FALSE
  /\ attempt' = 1
  /\ trySeq' = NextSeq(trySeq)
  /\ phase' = "write"
  /\ UNCHANGED <<results, transportErrors, decoderErrors, basisMismatches, sequence,
                 queue, midFrame, ownBasis, history>>

\* _reconnect: the driver's buffers are purged, the parser is a new one.
Reconnect ==
  /\ phase = "failed" /\ attempt = 0
  /\ portOpen' = TRUE /\ line' = <<>>
  /\ parserErrors' = 0 /\ fragment' = FALSE
  /\ attempt' = 1
  /\ trySeq' = NextSeq(trySeq)
  /\ phase' = "write"
  /\ UNCHANGED <<results, transportErrors, decoderErrors, basisMismatches, sequence,
                 queue, midFrame, ownBasis, history>>

\* _open raises, outside the try statement: the port stays closed.
ReconnectFails ==
  /\ phase = "failed" /\ attempt = 0
  /\ portOpen' = FALSE /\ line' = <<>>
  /\ parserErrors' = 0 /\ fragment' = FALSE
  /\ Fault
  /\ FailShot
  /\ UNCHANGED <<queue, midFrame, ownBasis, desynced, crcSeen>>

\* Mutant: the first failure is final.
GiveUpAtOnce ==
  /\ phase = "failed"
  /\ FailShot
  /\ UNCHANGED <<portOpen, parserErrors, fragment, link, history>>

\* The exception of the second attempt.
GiveUp ==
  /\ phase = "failed" /\ attempt = 1
  /\ FailShot
  /\ UNCHANGED <<portOpen, parserErrors, fragment, link, history>>

-----------------------------------------------------------------------------
Init ==
  /\ phase = "write" /\ results = <<>>
  /\ transportErrors = 0 /\ decoderErrors = 0 /\ basisMismatches = 0
  /\ sequence = 1 /\ trySeq = 1 /\ attempt = 0
  /\ portOpen = TRUE /\ parserErrors = 0 /\ fragment = FALSE
  /\ line = <<>> /\ queue = <<>> /\ midFrame = FALSE /\ ownBasis \in BOOLEAN
  /\ faults = 0 /\ desynced = FALSE /\ crcSeen = FALSE

Host == Write \/ WriteFails \/ WaitFails \/ Reconnect \/ ReconnectFails \/ GiveUp

Next == Host \/ Read \/ Answer

\* The deadline of an attempt is real time: the host goes on whatever the board does.
Spec == Init /\ [][Next]_vars /\ WF_vars(Host)

-----------------------------------------------------------------------------
(* Properties.                                                             *)

TransportPass ==
  /\ phase = "done"
  /\ transportErrors = 0 /\ decoderErrors = 0 /\ basisMismatches = 0
  /\ parserErrors = 0

\* Late answers of given-up attempts reach the parser in later ones.  Only after a
\* shot has used up both attempts (which leaves self.sequence where it was, so that
\* the next shot reuses its numbers) may a shot get the decode of another one.
OwnUntilExhausted ==
  \A i \in DOMAIN results :
    results[i] \notin {0, i} => \E j \in 1..(i - 1) : results[j] = 0

\* A campaign with transport_pass returned for every shot the decode of that shot.
PassMeansOwn == TransportPass => results = [i \in 1..Shots |-> i]

\* One retry is enough for one fault: the first shot that is lost to the transport
\* needed two of them, or one that left the framer inside a request, where it eats
\* the retry.
FirstErrorNeedsTwoFaults == transportErrors > 0 => faults = 2 \/ desynced

\* Every campaign comes to its end, even if the board never answers.
CampaignEnds == <>(phase \in {"done", "aborted"})

\* docs/PRODUCTION_PATH.md counts UART framing and CRC errors among the failures, and
\* transport_pass tests the parser's counters: a campaign that passed has had none.
PassMeansNoCrcError == TransportPass => ~crcSeen
=============================================================================

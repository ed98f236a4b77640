----------------------------- MODULE UartEndpoint -----------------------------
(***************************************************************************)
(* The board endpoint (rtl/top/tang_nano_20k_paper_s1w_four_lane_uart_     *)
(* top.sv) with the framer it talks to (rtl/io/uart_framer.sv) and the     *)
(* payload RAM between the clocks: a UART side on clk27, a core side on    *)
(* clk51, two toggles that cross between them through two flip-flops each, *)
(* and the decoder behind the core side, given by its promise DecoderSpec. *)
(*                                                                         *)
(* One Tick27 or Tick51 is one edge of that clock, and every register of   *)
(* the domain reads the values from before the edge.  Bytes are abstracted *)
(* to the two events of a frame that the endpoint sees: its first payload  *)
(* byte, which goes to the RAM at once, and its last CRC byte.             *)
(***************************************************************************)
EXTENDS Integers, Sequences, SequencesExt

CONSTANTS
  MaxRequests,     \* decode frames of the host, its sequence numbers 1..MaxRequests
  MaxProbes,       \* PROBE frames of the host
  ProbeAnytime,    \* may the host probe while a decode is under way?
  StartsLocked,    \* has the PLL locked before the first frame?
  MaxPllLosses,    \* how often the PLL may lose lock
  LoadCycles       \* nibbles of a detector word (production 13 * 18 = 234)

ASSUME EndpointAssumption ==
  /\ MaxRequests \in Nat /\ MaxProbes \in Nat /\ MaxPllLosses \in Nat
  /\ ProbeAnytime \in BOOLEAN /\ StartsLocked \in BOOLEAN
  /\ LoadCycles \in Nat \ {0}

Requests == 1..MaxRequests
Torn == MaxRequests + 1         \* a RAM that holds parts of several frames
Word == 0..Torn                 \* 0: reset value, no word

ProbeFrame == [command |-> "PROBE", seq |-> 0]
DecodeFrame(s) == [command |-> "DECODE", seq |-> s]
Frames == {ProbeFrame} \cup {DecodeFrame(s) : s \in Requests}

VARIABLES
  \* the host's frames
  sent, probes,        \* how many of each were begun
  \* framer
  rxState,             \* "hunt", or "payload" from the first payload byte on
  frame,               \* frame_command and frame_sequence
  frameValid,          \* frame_valid
  txBusy,              \* tx_busy
  replies,             \* decode frames given to the transmitter, oldest first
  ram,                 \* the payload RAM: the request whose word it holds
  \* clk27 registers
  frameReady, txStart,
  requestToggle, requestLatched, requestSeq,
  resultMeta, resultSync, resultSeen,
  answering,           \* history: is txStart raised for a result?
  \* clk51 registers
  locked, losses,      \* pll_locked, and how often it was lost
  control,             \* control_state
  requestMeta, requestSync, requestSeen,
  seqCore, loaded, word,  \* request_sequence_core, nibbles written, and the word
                          \* they make up
  resultToggle, result,
  decodes,             \* history: results the core has produced
  \* the decoder
  phase, verdict, satisfied

host    == <<sent, probes>>
framer  == <<rxState, frame, frameValid, txBusy, replies, ram>>
uart    == <<frameReady, txStart, requestToggle, requestLatched, requestSeq,
             resultMeta, resultSync, resultSeen, answering>>
core    == <<control, requestMeta, requestSync, requestSeen, seqCore, loaded, word,
             resultToggle, result, decodes>>
pll     == <<locked, losses>>
decoder == <<phase, verdict, satisfied>>
vars    == <<host, framer, uart, core, pll, decoder>>

D == INSTANCE DecoderSpec

\* status is "none", "success", "deferred" or "error".
NoResult == [seq |-> 0, answer |-> 0, status |-> "none"]

-----------------------------------------------------------------------------
(* clk27: what the top level decides in this cycle.                        *)

\* Mutant: the request is taken while its payload still arrives.
AcceptingEarly ==
  (frameValid \/ rxState = "payload") /\ ~requestLatched /\ frame.command = "DECODE"

\* Mutant: a request is taken while another one is latched.
AcceptingOverLatch == frameValid /\ frame.command = "DECODE"

Probing == frameValid /\ ~txBusy /\ frame.command = "PROBE"
Accepting == frameValid /\ ~requestLatched /\ frame.command = "DECODE"
Answering == resultSync # resultSeen /\ ~txBusy

\* The transmit multiplexer shows the result registers unless a probe is held.
ShowsResult == ~Probing

\* What a probe is told is no decode and is not recorded.
Transmitter(drained) ==
  IF txStart /\ ~txBusy
    THEN txBusy' = TRUE /\ replies' = IF ShowsResult THEN Append(replies, result) ELSE replies
    ELSE txBusy' = (txBusy /\ ~drained) /\ UNCHANGED replies

\* Nine bytes at 3 Mbaud pass before a new frame touches the RAM, 30 us in which
\* a locked core has long fetched the word it was asked for.
CoreIsFetching ==
  locked /\ (requestToggle # requestSeen \/ control \in {"C_CLEAR", "C_LOAD"})

Quiet == ~requestLatched /\ ~answering /\ rxState = "hunt" /\ ~frameValid

\* The receiver is deaf while it holds a frame.
NoByte == UNCHANGED <<rxState, frame, ram, host>>

BeginDecode ==
  /\ ~frameValid /\ rxState = "hunt" /\ sent < MaxRequests
  /\ ~CoreIsFetching
  /\ sent' = sent + 1
  /\ rxState' = "payload"
  /\ frame' = DecodeFrame(sent + 1)
  /\ ram' = Torn
  /\ UNCHANGED probes

\* A probe carries no payload, or one of 117 bytes that nobody reads.
BeginProbe ==
  /\ ~frameValid /\ rxState = "hunt" /\ probes < MaxProbes
  /\ ProbeAnytime \/ Quiet
  /\ probes' = probes + 1
  /\ rxState' = "payload"
  /\ frame' = ProbeFrame
  /\ (ram' = ram \/ (ram' = Torn /\ ~CoreIsFetching))
  /\ UNCHANGED sent

\* The last CRC byte; the whole payload is in the RAM by then.
EndFrame ==
  /\ ~frameValid /\ rxState = "payload"
  /\ rxState' = "hunt"
  /\ ram' = IF frame.command = "DECODE" THEN frame.seq ELSE ram
  /\ UNCHANGED <<host, frame>>

\* A bad CRC; some of the payload is in the RAM.
DropFrame ==
  /\ ~frameValid /\ rxState = "payload"
  /\ rxState' = "hunt"
  /\ UNCHANGED <<host, frame, ram>>

Receiver ==
  \/ NoByte /\ frameValid' = (frameValid /\ ~frameReady)
  \/ (BeginDecode \/ BeginProbe \/ DropFrame) /\ UNCHANGED frameValid
  \/ EndFrame /\ frameValid' = TRUE

\* Mutant: an accepted frame is not released.
HandlersKeepFrame ==
  /\ resultMeta' = resultToggle
  /\ resultSync' = resultMeta
  /\ frameReady' = (Probing \/ Answering)
  /\ txStart' = (Probing \/ Answering)
  /\ answering' = Answering
  /\ requestToggle' = IF Accepting THEN ~requestToggle ELSE requestToggle
  /\ requestSeq' = IF Accepting THEN frame.seq ELSE requestSeq
  /\ requestLatched' = ((requestLatched \/ Accepting) /\ ~Answering)
  /\ resultSeen' = IF Answering THEN resultSync ELSE resultSeen

\* The two handlers of the clocked block; where both assign a register, the
\* result handler comes last and wins.
Handlers ==
  /\ resultMeta' = resultToggle
  /\ resultSync' = resultMeta
  /\ frameReady' = (Probing \/ Accepting \/ Answering)
  /\ txStart' = (Probing \/ Answering)
  /\ answering' = Answering
  /\ requestToggle' = IF Accepting THEN ~requestToggle ELSE requestToggle
  /\ requestSeq' = IF Accepting THEN frame.seq ELSE requestSeq
  /\ requestLatched' = ((requestLatched \/ Accepting) /\ ~Answering)
  /\ resultSeen' = IF Answering THEN resultSync ELSE resultSeen

Tick27(drained) ==
  /\ Receiver /\ Transmitter(drained) /\ Handlers
  /\ UNCHANGED <<core, pll, decoder>>

-----------------------------------------------------------------------------
(* clk51.                                                                  *)

Synchronise ==
  /\ requestMeta' = requestToggle
  /\ requestSync' = requestMeta

DecoderFaults == D!Fault

CoreIdle ==
  /\ control = "C_IDLE"
  /\ IF requestSync # requestSeen
       THEN /\ requestSeen' = requestSync
            /\ seqCore' = requestSeq
            /\ loaded' = 0
            /\ control' = "C_CLEAR"
       ELSE UNCHANGED <<requestSeen, seqCore, loaded, control>>
  /\ UNCHANGED <<word, resultToggle, result, decodes>>
  /\ UNCHANGED decoder \/ DecoderFaults

CoreClear ==
  /\ control = "C_CLEAR"
  /\ control' = "C_LOAD"
  /\ D!Clear
  /\ UNCHANGED <<requestSeen, seqCore, loaded, word, resultToggle, result, decodes>>

\* One nibble of the RAM goes into the decoder per cycle.
CoreLoad ==
  /\ control = "C_LOAD"
  /\ loaded' = loaded + 1
  /\ word' = IF loaded = 0 \/ word = ram THEN ram ELSE Torn
  /\ control' = IF loaded + 1 = LoadCycles THEN "C_START" ELSE "C_LOAD"
  /\ (D!Load \/ (phase = "error" /\ UNCHANGED decoder) \/ DecoderFaults)
  /\ UNCHANGED <<requestSeen, seqCore, resultToggle, result, decodes>>

\* start_ready, or the error that a guard raised in the meantime.
CoreStart ==
  /\ control = "C_START"
  /\ phase \in {"idle", "error"}
  /\ control' = "C_WAIT"
  /\ (D!Begin \/ D!Trivial \/ (phase = "error" /\ UNCHANGED decoder) \/ DecoderFaults)
  /\ UNCHANGED <<requestSeen, seqCore, loaded, word, resultToggle, result, decodes>>

CoreWait ==
  /\ control = "C_WAIT" /\ phase = "busy"
  /\ D!Work \/ D!Accept \/ D!Defer \/ DecoderFaults
  /\ UNCHANGED <<control, requestSeen, seqCore, loaded, word, resultToggle, result, decodes>>

\* A shot takes at least the 234 cycles of its load, far longer than the UART side
\* needs to notice the last flip of the result toggle and, if the transmitter is
\* free, to act on it.
Settled ==
  resultMeta = resultToggle /\ resultSync = resultToggle /\ ~Answering /\ ~txStart

\* Mutant: the sequence number is taken from the UART side's register.
CoreResultLiveSeq ==
  /\ control = "C_WAIT" /\ phase \in {"done", "error"}
  /\ result' = [seq |-> requestSeq, answer |-> word,
                status |-> IF phase = "error" THEN "error" ELSE verdict]
  /\ resultToggle' = ~resultToggle
  /\ decodes' = decodes + 1
  /\ control' = "C_IDLE"
  /\ (D!Acknowledge \/ (phase = "error" /\ UNCHANGED decoder) \/ DecoderFaults)
  /\ UNCHANGED <<requestSeen, seqCore, loaded, word>>

\* done_valid or error: the result is copied and its toggle flipped.
CoreResult ==
  /\ control = "C_WAIT" /\ phase \in {"done", "error"}
  /\ Settled
  /\ result' = [seq |-> seqCore, answer |-> word,
                status |-> IF phase = "error" THEN "error" ELSE verdict]
  /\ resultToggle' = ~resultToggle
  /\ decodes' = decodes + 1
  /\ control' = "C_IDLE"
  /\ (D!Acknowledge \/ (phase = "error" /\ UNCHANGED decoder) \/ DecoderFaults)
  /\ UNCHANGED <<requestSeen, seqCore, loaded, word>>

CoreStep ==
  \/ CoreIdle \/ CoreClear \/ CoreLoad \/ CoreStart \/ CoreWait \/ CoreResult

Tick51 ==
  /\ locked
  /\ Synchronise /\ CoreStep
  /\ UNCHANGED <<host, framer, uart, pll>>

-----------------------------------------------------------------------------
(* The PLL.  Its lock resets the core side and the decoder, and only them. *)

\* Mutant: the result registers survive the reset, their toggle does not.
CoreResetKeepsResult ==
  /\ control' = "C_IDLE"
  /\ requestMeta' = FALSE /\ requestSync' = FALSE /\ requestSeen' = FALSE
  /\ seqCore' = 0 /\ loaded' = 0 /\ word' = 0
  /\ resultToggle' = FALSE /\ UNCHANGED <<result, decodes>>
  /\ phase' = "idle" /\ verdict' = "none" /\ satisfied' \in BOOLEAN

CoreReset ==
  /\ control' = "C_IDLE"
  /\ requestMeta' = FALSE /\ requestSync' = FALSE /\ requestSeen' = FALSE
  /\ seqCore' = 0 /\ loaded' = 0 /\ word' = 0
  /\ resultToggle' = FALSE /\ result' = NoResult /\ UNCHANGED decodes
  /\ phase' = "idle" /\ verdict' = "none" /\ satisfied' \in BOOLEAN

PllLoss ==
  /\ locked /\ losses < MaxPllLosses
  /\ locked' = FALSE /\ losses' = losses + 1
  /\ CoreReset
  /\ UNCHANGED <<host, framer, uart>>

PllLock ==
  /\ ~locked
  /\ locked' = TRUE
  /\ UNCHANGED <<host, framer, uart, core, losses, decoder>>

-----------------------------------------------------------------------------
Init ==
  /\ sent = 0 /\ probes = 0
  /\ rxState = "hunt" /\ frame = ProbeFrame /\ frameValid = FALSE
  /\ txBusy = FALSE /\ replies = <<>> /\ ram = 0
  /\ frameReady = FALSE /\ txStart = FALSE
  /\ requestToggle = FALSE /\ requestLatched = FALSE /\ requestSeq = 0
  /\ resultMeta = FALSE /\ resultSync = FALSE /\ resultSeen = FALSE
  /\ answering = FALSE
  /\ locked = StartsLocked /\ losses = 0
  /\ control = "C_IDLE"
  /\ requestMeta = FALSE /\ requestSync = FALSE /\ requestSeen = FALSE
  /\ seqCore = 0 /\ loaded = 0 /\ word = 0
  /\ resultToggle = FALSE /\ result = NoResult /\ decodes = 0
  /\ D!SpecInit

Next ==
  \/ \E drained \in BOOLEAN : Tick27(drained)
  \/ Tick51
  \/ PllLoss \/ PllLock

\* Both clocks run, the transmitter drains at line rate, a decode comes to its end
\* (EveryShotEnds of S1WController), and a PLL locks again.  The host and the
\* frames on the wire owe nothing.
Spec ==
  /\ Init /\ [][Next]_vars
  /\ WF_vars(\E drained \in BOOLEAN : Tick27(drained))
  /\ WF_vars(txBusy /\ Tick27(TRUE))
  /\ WF_vars(Tick51)
  /\ WF_vars(Tick51 /\ phase = "busy" /\ phase' # "busy")
  /\ WF_vars(PllLock)

-----------------------------------------------------------------------------
(* Properties.                                                             *)

\* A decode reply carries the decode of the word that came with its sequence
\* number, whichever frames the receiver let into the RAM in the meantime.
ReplyIsOwn == \A i \in DOMAIN replies : replies[i].answer = replies[i].seq

\* What crosses between the clocks holds still: the request registers from the
\* flip of their toggle until the core has read them, the result registers from
\* theirs until the reply has been handed to the transmitter.
SnapshotsHeld ==
  [][/\ requestToggle # requestSeen => UNCHANGED requestSeq
     /\ resultToggle # resultSeen \/ answering => UNCHANGED result]_vars

\* A PLL that loses lock makes the result toggle fall back, and the endpoint replies
\* to what nobody asked.  Such a reply carries the number 0 of the reset registers,
\* which the host never uses: a reply with another number always has a decode of its
\* own behind it.
Numbered == {i \in DOMAIN replies : replies[i].seq # 0}
ReplyNeedsDecode == Cardinality(Numbered) <= decodes

\* A request that survives a PLL loss in its latch is decoded again, from a RAM that
\* may hold a later word by then.  Only answers to numbers that the host has already
\* given up can be wrong for this reason: as long as the answered request is the
\* newest frame, its answer is its own.
NewestReplyIsOwn ==
  [][replies' # replies /\ Last(replies').seq = sent /\ sent > 0
       => Last(replies').answer = sent]_vars

\* A latched request is answered or given up in the end: the comment at C_WAIT wants
\* a structural error returned "instead of leaving UART request latched forever".
RequestReleased == requestLatched ~> ~requestLatched

\* A result that was taken from the core leaves as a reply.  The comment over the
\* probe's multiplexer promises that probing "remains available while a decode is
\* running".
AnswerIsSent ==
  [][answering /\ ~txBusy /\ txBusy' => replies' = Append(replies, result)]_vars

\* The endpoint accepts every request once and answers each accepted one, once,
\* in order and with its own decode.
Unanswered ==
  (IF answering THEN <<result.seq>> ELSE <<>>)
  \o (IF requestLatched THEN <<requestSeq>> ELSE <<>>)

Answers == [i \in DOMAIN replies |-> [seq |-> replies[i].seq, answer |-> replies[i].answer]]

StopAndWait == INSTANCE StopAndWait WITH unanswered <- Unanswered, answers <- Answers

ImplementsStopAndWait == StopAndWait!SawSpec
=============================================================================

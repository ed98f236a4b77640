-------------------------- MODULE UartEndpointProofs --------------------------
(***************************************************************************)
(* What TLAPS proves of the board endpoint: the types and the two          *)
(* properties of the lossy PLL for every value of the constants, and, for  *)
(* a PLL that stays locked and a host that probes between decodes only,    *)
(* the exchange with the host, up to the refinement of StopAndWait.        *)
(***************************************************************************)
EXTENDS UartEndpoint, FiniteSetTheorems, TLAPS

Results == [seq : 0..MaxRequests, answer : Word,
            status : {"none", "success", "deferred", "error"}]

HostTypeOK ==
  /\ sent \in 0..MaxRequests /\ probes \in 0..MaxProbes
  /\ rxState \in {"hunt", "payload"} /\ frame \in Frames /\ frameValid \in BOOLEAN
  /\ ram \in Word

UartRegistersOK ==
  /\ txBusy \in BOOLEAN /\ frameReady \in BOOLEAN /\ txStart \in BOOLEAN
  /\ requestToggle \in BOOLEAN /\ requestLatched \in BOOLEAN
  /\ resultMeta \in BOOLEAN /\ resultSync \in BOOLEAN /\ resultSeen \in BOOLEAN
  /\ answering \in BOOLEAN
  /\ requestSeq \in 0..MaxRequests /\ replies \in Seq(Results)

CoreRegistersOK ==
  /\ control \in {"C_IDLE", "C_CLEAR", "C_LOAD", "C_START", "C_WAIT"}
  /\ requestMeta \in BOOLEAN /\ requestSync \in BOOLEAN /\ requestSeen \in BOOLEAN
  /\ resultToggle \in BOOLEAN
  /\ seqCore \in 0..MaxRequests /\ loaded \in Nat /\ word \in Word
  /\ result \in Results /\ decodes \in Nat

DecoderOK ==
  /\ phase \in {"idle", "busy", "done", "error"}
  /\ verdict \in {"none", "success", "deferred"} /\ satisfied \in BOOLEAN

UartTypeOK ==
  /\ HostTypeOK /\ UartRegistersOK /\ CoreRegistersOK /\ DecoderOK
  /\ locked \in BOOLEAN /\ losses \in 0..MaxPllLosses

\* A frame names a decode by a number of the host; a probe bears no number.
LEMMA FrameFacts ==
  ASSUME NEW f \in Frames
  PROVE  /\ f.command \in {"PROBE", "DECODE"} /\ f.seq \in 0..MaxRequests
         /\ f.command = "DECODE" => f.seq \in 1..MaxRequests
BY EndpointAssumption DEF Frames, ProbeFrame, DecodeFrame, Requests

-----------------------------------------------------------------------------
(* Types.                                                                  *)

\* A tick of the UART side keeps the types.
LEMMA Tick27Types ==
  ASSUME UartTypeOK, NEW drained \in BOOLEAN, Tick27(drained)
  PROVE  UartTypeOK'
<1>1. UNCHANGED <<core, pll, decoder>>
  BY DEF Tick27
<1>2. CoreRegistersOK' /\ DecoderOK' /\ (locked \in BOOLEAN /\ losses \in 0..MaxPllLosses)'
  BY <1>1 DEF UartTypeOK, CoreRegistersOK, DecoderOK, core, pll, decoder
<1>3. frame.seq \in 0..MaxRequests
  BY FrameFacts DEF UartTypeOK, HostTypeOK
<1>4. Torn \in Word /\ 0..MaxRequests \subseteq Word
  BY EndpointAssumption DEF Torn, Word
<1>5. HostTypeOK'
  <2>1. CASE NoByte /\ frameValid' = (frameValid /\ ~frameReady)
    BY <2>1 DEF UartTypeOK, HostTypeOK, UartRegistersOK, NoByte, host
  <2>2. CASE BeginDecode /\ UNCHANGED frameValid
    <3>1. sent + 1 \in 1..MaxRequests
      BY <2>2, EndpointAssumption DEF UartTypeOK, HostTypeOK, BeginDecode
    <3>2. DecodeFrame(sent + 1) \in Frames
      BY <3>1 DEF Frames, Requests
    <3> QED
      BY <2>2, <3>1, <3>2, <1>4, EndpointAssumption DEF UartTypeOK, HostTypeOK, BeginDecode
  <2>3. CASE BeginProbe /\ UNCHANGED frameValid
    BY <2>3, <1>4, EndpointAssumption
    DEF UartTypeOK, HostTypeOK, BeginProbe, Frames
  <2>4. CASE DropFrame /\ UNCHANGED frameValid
    BY <2>4 DEF UartTypeOK, HostTypeOK, DropFrame, host
  <2>5. CASE EndFrame /\ frameValid' = TRUE
    BY <2>5, <1>3, <1>4 DEF UartTypeOK, HostTypeOK, EndFrame, host
  <2> QED
    BY <2>1, <2>2, <2>3, <2>4, <2>5 DEF Tick27, Receiver
<1>6. UartRegistersOK'
  <2>1. Handlers /\ Transmitter(drained)
    BY DEF Tick27
  <2>2. /\ frameReady' \in BOOLEAN /\ txStart' \in BOOLEAN /\ answering' \in BOOLEAN
        /\ requestLatched' \in BOOLEAN
    <3>1. Probing \in BOOLEAN /\ Accepting \in BOOLEAN /\ Answering \in BOOLEAN
      BY DEF Probing, Accepting, Answering
    <3>2. /\ frameReady' = (Probing \/ Accepting \/ Answering)
          /\ txStart' = (Probing \/ Answering) /\ answering' = Answering
          /\ requestLatched' = ((requestLatched \/ Accepting) /\ ~Answering)
      BY <2>1 DEF Handlers
    <3> QED
      BY <3>1, <3>2
  <2>6. /\ requestToggle' \in BOOLEAN /\ resultMeta' \in BOOLEAN
        /\ resultSync' \in BOOLEAN /\ resultSeen' \in BOOLEAN
    BY <2>1 DEF Handlers, UartTypeOK, UartRegistersOK, CoreRegistersOK
  <2>3. requestSeq' \in 0..MaxRequests
    BY <2>1, <1>3 DEF Handlers, UartTypeOK, UartRegistersOK
  <2>4. txBusy' \in BOOLEAN
    BY <2>1 DEF Transmitter, ShowsResult, UartTypeOK, UartRegistersOK
  <2>5. replies' \in Seq(Results)
    BY <2>1 DEF Transmitter, ShowsResult, UartTypeOK, UartRegistersOK, CoreRegistersOK
  <2> QED
    BY <2>2, <2>3, <2>4, <2>5, <2>6 DEF UartRegistersOK
<1> QED
  BY <1>2, <1>5, <1>6 DEF UartTypeOK

\* Whatever the decoder does in a tick of the core, its registers keep their types.
LEMMA DecoderTypes ==
  ASSUME DecoderOK,
         \/ UNCHANGED decoder \/ DecoderFaults
         \/ D!Clear \/ D!Load \/ D!Begin \/ D!Trivial \/ D!Work \/ D!Accept \/ D!Defer
         \/ D!Acknowledge
  PROVE  DecoderOK'
BY DEF DecoderOK, decoder, DecoderFaults, D!Fault, D!Clear, D!Load, D!Begin, D!Trivial,
       D!Work, D!Accept, D!Defer, D!Acknowledge

\* A tick of the core keeps the types.
LEMMA Tick51Types ==
  ASSUME UartTypeOK, Tick51
  PROVE  UartTypeOK'
<1>1. /\ HostTypeOK' /\ UartRegistersOK'
      /\ (locked \in BOOLEAN /\ losses \in 0..MaxPllLosses)'
  BY DEF UartTypeOK, HostTypeOK, UartRegistersOK, Tick51, host, framer, uart, pll
<1>2. DecoderOK'
  BY DecoderTypes
  DEF UartTypeOK, Tick51, CoreStep, CoreIdle, CoreClear, CoreLoad, CoreStart, CoreWait,
      CoreResult
<1>3. requestMeta' \in BOOLEAN /\ requestSync' \in BOOLEAN
  BY DEF UartTypeOK, UartRegistersOK, CoreRegistersOK, Tick51, Synchronise
<1>4. /\ (control \in {"C_IDLE", "C_CLEAR", "C_LOAD", "C_START", "C_WAIT"})'
      /\ (requestSeen \in BOOLEAN /\ resultToggle \in BOOLEAN)'
      /\ (seqCore \in 0..MaxRequests /\ loaded \in Nat /\ decodes \in Nat)'
      /\ (word \in Word /\ result \in Results)'
  <2> USE DEF UartTypeOK, UartRegistersOK, HostTypeOK, CoreRegistersOK
  <2>1. CASE CoreIdle
    BY <2>1 DEF CoreIdle
  <2>2. CASE CoreClear
    BY <2>2 DEF CoreClear
  <2>3. CASE CoreLoad
    <3>1. Torn \in Word
      BY EndpointAssumption DEF Torn, Word
    <3> QED
      BY <2>3, <3>1 DEF CoreLoad
  <2>4. CASE CoreStart
    BY <2>4 DEF CoreStart
  <2>5. CASE CoreWait
    BY <2>5 DEF CoreWait
  <2>6. CASE CoreResult
    <3>1. result' \in Results
      BY <2>6 DEF CoreResult, DecoderOK, Results
    <3> QED
      BY <2>6, <3>1 DEF CoreResult
  <2> QED
    BY <2>1, <2>2, <2>3, <2>4, <2>5, <2>6 DEF Tick51, CoreStep
<1> QED
  BY <1>1, <1>2, <1>3, <1>4 DEF UartTypeOK, CoreRegistersOK

\* The initial values of the registers, and those of a reset, have their types.
LEMMA ResetTypes == NoResult \in Results /\ 0 \in Word /\ 0 \in 0..MaxRequests
BY EndpointAssumption DEF NoResult, Results, Word, Torn

\* Losing the lock and finding it keep the types.
LEMMA PllTypes ==
  ASSUME UartTypeOK, PllLoss \/ PllLock
  PROVE  UartTypeOK'
<1>1. HostTypeOK' /\ UartRegistersOK'
  BY DEF UartTypeOK, HostTypeOK, UartRegistersOK, PllLoss, PllLock, host, framer, uart
<1>2. (locked \in BOOLEAN /\ losses \in 0..MaxPllLosses)'
  <2>1. CASE PllLoss
    <3>1. losses \in 0..MaxPllLosses /\ losses < MaxPllLosses /\ losses' = losses + 1
      BY <2>1 DEF UartTypeOK, PllLoss
    <3>2. losses' \in 0..MaxPllLosses
      BY <3>1, EndpointAssumption
    <3>3. locked' \in BOOLEAN
      BY <2>1 DEF PllLoss
    <3> QED
      BY <3>2, <3>3
  <2>2. CASE PllLock
    BY <2>2 DEF UartTypeOK, PllLock
  <2> QED
    BY <2>1, <2>2
<1>3. CoreRegistersOK' /\ DecoderOK'
  <2>1. CASE PllLoss
    BY <2>1, ResetTypes DEF UartTypeOK, CoreRegistersOK, DecoderOK, PllLoss, CoreReset
  <2>2. CASE PllLock
    BY <2>2 DEF UartTypeOK, CoreRegistersOK, DecoderOK, PllLock, core, decoder
  <2> QED
    BY <2>1, <2>2
<1> QED
  BY <1>1, <1>2, <1>3 DEF UartTypeOK

\* Every step keeps the types.
LEMMA TypeStep ==
  ASSUME UartTypeOK, [Next]_vars
  PROVE  UartTypeOK'
<1>1. CASE Next
  BY <1>1, Tick27Types, Tick51Types, PllTypes DEF Next
<1>2. CASE UNCHANGED vars
  BY <1>2 DEF vars, host, framer, uart, core, pll, decoder, UartTypeOK, HostTypeOK,
              UartRegistersOK, CoreRegistersOK, DecoderOK
<1> QED
  BY <1>1, <1>2

\* The registers start with values of their types.
LEMMA TypeInit == Init => UartTypeOK
<1> SUFFICES ASSUME Init PROVE UartTypeOK
  OBVIOUS
<1>1. HostTypeOK
  <2>1. 0 \in 0..MaxRequests /\ 0 \in 0..MaxProbes /\ ProbeFrame \in Frames /\ 0 \in Word
    BY EndpointAssumption, ResetTypes DEF Frames
  <2> QED
    BY <2>1 DEF Init, HostTypeOK
<1>2. UartRegistersOK
  <2>1. replies \in Seq(Results)
    BY DEF Init
  <2> QED
    BY <2>1, ResetTypes DEF Init, UartRegistersOK
<1>3. CoreRegistersOK
  BY ResetTypes DEF Init, CoreRegistersOK
<1>4. DecoderOK
  BY DEF Init, DecoderOK, D!SpecInit
<1>5. locked \in BOOLEAN /\ losses \in 0..MaxPllLosses
  BY EndpointAssumption DEF Init
<1> QED
  BY <1>1, <1>2, <1>3, <1>4, <1>5 DEF UartTypeOK

\* The variables keep their types.
THEOREM EndpointTypes == Spec => []UartTypeOK
BY TypeInit, TypeStep, PTL DEF Spec

-----------------------------------------------------------------------------
(* Numbers only grow on their way from the host to the result.             *)

InOrder ==
  /\ result.seq <= requestSeq /\ seqCore <= requestSeq /\ requestSeq <= sent
  /\ frame.command = "DECODE" => frame.seq = sent
  /\ frameValid => rxState = "hunt"
  /\ control = "C_CLEAR" => loaded = 0

\* While the framer holds a frame, a tick leaves the receiver as it is.
LEMMA Deaf ==
  ASSUME UartTypeOK, NEW drained \in BOOLEAN, Tick27(drained), frameValid
  PROVE  /\ UNCHANGED <<rxState, frame, ram, sent, probes>>
         /\ frameValid' = (frameValid /\ ~frameReady)
BY DEF Tick27, Receiver, NoByte, BeginDecode, BeginProbe, DropFrame, EndFrame, host

\* What a tick does to the host's frames.
LEMMA ReceiverFacts ==
  ASSUME UartTypeOK, InOrder, NEW drained \in BOOLEAN, Tick27(drained)
  PROVE  /\ sent' \in {sent, sent + 1}
         /\ sent' # sent => BeginDecode /\ ~frameValid'
         /\ (frame.command = "DECODE" => frame.seq = sent)'
         /\ (frameValid => rxState = "hunt")'
<1> USE DEF UartTypeOK, HostTypeOK, InOrder
<1>1. CASE NoByte /\ frameValid' = (frameValid /\ ~frameReady)
  BY <1>1 DEF NoByte, host
<1>2. CASE BeginDecode /\ UNCHANGED frameValid
  BY <1>2 DEF BeginDecode, DecodeFrame
<1>3. CASE BeginProbe /\ UNCHANGED frameValid
  BY <1>3 DEF BeginProbe, ProbeFrame
<1>4. CASE DropFrame /\ UNCHANGED frameValid
  BY <1>4 DEF DropFrame, host
<1>5. CASE EndFrame /\ frameValid' = TRUE
  BY <1>5 DEF EndFrame, host
<1> QED
  BY <1>1, <1>2, <1>3, <1>4, <1>5 DEF Tick27, Receiver

\* Every step keeps the numbers in order.
LEMMA InOrderStep ==
  ASSUME UartTypeOK, InOrder, [Next]_vars
  PROVE  InOrder'
<1> USE DEF UartTypeOK, HostTypeOK, UartRegistersOK, CoreRegistersOK
<1>0. result.seq \in 0..MaxRequests
  BY DEF Results
<1>1. ASSUME NEW drained \in BOOLEAN, Tick27(drained) PROVE InOrder'
  <2>1. UNCHANGED <<result, seqCore, control, loaded>>
    BY <1>1 DEF Tick27, core
  <2>2. /\ sent' \in {sent, sent + 1}
        /\ (frame.command = "DECODE" => frame.seq = sent)'
        /\ (frameValid => rxState = "hunt")'
    BY <1>1, ReceiverFacts
  <2>3. requestSeq <= requestSeq' /\ requestSeq' <= sent' /\ requestSeq' \in Nat
    <3>1. CASE Accepting
      <4>1. requestSeq' = frame.seq /\ frameValid /\ frame.command = "DECODE"
        BY <1>1, <3>1 DEF Tick27, Handlers, Accepting
      <4>2. sent' = sent
        BY <1>1, <4>1, Deaf
      <4> QED
        BY <4>1, <4>2 DEF InOrder
    <3>2. CASE ~Accepting
      <4>1. requestSeq' = requestSeq
        BY <1>1, <3>2 DEF Tick27, Handlers
      <4> QED
        BY <4>1, <2>2, EndpointAssumption DEF InOrder
    <3> QED
      BY <3>1, <3>2
  <2>4. (result.seq <= requestSeq /\ seqCore <= requestSeq)'
    BY <2>1, <2>3, <1>0, EndpointAssumption DEF InOrder
  <2> QED
    BY <2>1, <2>2, <2>3, <2>4 DEF InOrder
<1>2. ASSUME Tick51 PROVE InOrder'
  <2>1. UNCHANGED <<requestSeq, sent, frame, frameValid, rxState>>
    BY <1>2 DEF Tick51, host, framer, uart
  <2>2. (result.seq <= requestSeq /\ seqCore <= requestSeq)'
    BY <1>2, <2>1, <1>0, EndpointAssumption
    DEF InOrder, Tick51, CoreStep, CoreIdle, CoreClear, CoreLoad, CoreStart, CoreWait, CoreResult
  <2>3. (control = "C_CLEAR" => loaded = 0)'
    BY <1>2
    DEF InOrder, Tick51, CoreStep, CoreIdle, CoreClear, CoreLoad, CoreStart, CoreWait, CoreResult
  <2> QED
    BY <2>1, <2>2, <2>3 DEF InOrder
<1>3. ASSUME PllLoss PROVE InOrder'
  BY <1>3, EndpointAssumption
  DEF PllLoss, CoreReset, InOrder, NoResult, host, framer, uart
<1>4. ASSUME PllLock PROVE InOrder'
  BY <1>4 DEF PllLock, InOrder, host, framer, uart, core
<1>5. ASSUME UNCHANGED vars PROVE InOrder'
  BY <1>5 DEF InOrder, vars, host, framer, uart, core
<1> QED
  BY <1>1, <1>2, <1>3, <1>4, <1>5 DEF Next

-----------------------------------------------------------------------------
(* The newest request, when no probe touches the RAM.                      *)

NewestIsWhole == sent > 0 =>
  /\ frame.command = "DECODE"
  /\ frameValid \/ requestSeq = sent => ram = sent
  /\ seqCore = sent /\ control \in {"C_LOAD", "C_START", "C_WAIT"} =>
       word = sent \/ (control = "C_LOAD" /\ loaded = 0)
  /\ result.seq = sent => result.answer = sent

\* A host that sends no probes keeps the word of its newest frame whole.
LEMMA NewestStep ==
  ASSUME UartTypeOK, InOrder, NewestIsWhole, MaxProbes = 0, [Next]_vars
  PROVE  NewestIsWhole'
<1> USE DEF UartTypeOK, HostTypeOK, UartRegistersOK, CoreRegistersOK
<1>0. result.seq \in 0..MaxRequests /\ sent \in Nat
  BY EndpointAssumption DEF Results
<1>1. ASSUME NEW drained \in BOOLEAN, Tick27(drained) PROVE NewestIsWhole'
  <2>1. UNCHANGED <<result, seqCore, control, loaded, word>>
    BY <1>1 DEF Tick27, core
  <2>2. CASE BeginDecode /\ ~frameValid'
    <3>1. ~Accepting /\ requestSeq' = requestSeq
      BY <1>1, <2>2 DEF BeginDecode, Accepting, Tick27, Handlers
    <3>2. sent' = sent + 1 /\ frame'.command = "DECODE"
      BY <2>2 DEF BeginDecode, DecodeFrame
    <3>3. requestSeq' # sent' /\ seqCore' # sent' /\ result'.seq # sent'
      BY <3>1, <3>2, <2>1, <1>0, EndpointAssumption DEF InOrder
    <3> QED
      BY <2>2, <3>2, <3>3 DEF NewestIsWhole
  <2>3. CASE sent' = sent
    <3>1. SUFFICES ASSUME sent > 0
                   PROVE  /\ frame'.command = "DECODE"
                          /\ frameValid' \/ requestSeq' = sent => ram' = sent
      BY <2>1, <2>3 DEF NewestIsWhole
    <3>2. frame'.command = "DECODE"
      <4>1. frame' = frame
        BY <1>1, <2>3, <1>0, EndpointAssumption
        DEF Tick27, Receiver, NoByte, BeginDecode, BeginProbe, DropFrame, EndFrame, host
      <4> QED
        BY <4>1, <3>1 DEF NewestIsWhole
    <3>3. ASSUME frameValid PROVE ram' = sent
      BY <1>1, <3>1, <3>3, Deaf DEF NewestIsWhole
    <3>4. ASSUME ~frameValid PROVE frameValid' \/ requestSeq' = sent => ram' = sent
      <4>1. requestSeq' = requestSeq
        BY <1>1, <3>4 DEF Accepting, Tick27, Handlers
      <4>2. CASE EndFrame
        BY <4>2, <3>1 DEF EndFrame, NewestIsWhole, InOrder
      <4>3. CASE ~EndFrame
        BY <4>1, <4>3, <3>1, <3>4, <1>1, <2>3, <1>0, EndpointAssumption
        DEF Tick27, Receiver, NoByte, BeginDecode, BeginProbe, DropFrame, NewestIsWhole
      <4> QED
        BY <4>2, <4>3
    <3> QED
      BY <3>2, <3>3, <3>4
  <2> QED
    BY <1>1, <2>2, <2>3, ReceiverFacts
<1>2. ASSUME Tick51 PROVE NewestIsWhole'
  <2>1. UNCHANGED <<requestSeq, sent, frame, frameValid, ram>>
    BY <1>2 DEF Tick51, host, framer, uart
  <2>2. SUFFICES ASSUME sent > 0
                 PROVE  /\ (seqCore = sent /\ control \in {"C_LOAD", "C_START", "C_WAIT"} =>
                              word = sent \/ (control = "C_LOAD" /\ loaded = 0))'
                        /\ (result.seq = sent => result.answer = sent)'
    BY <2>1 DEF NewestIsWhole
  <2>3. seqCore = sent => ram = sent
    BY <2>2, <1>0, EndpointAssumption DEF InOrder, NewestIsWhole
  <2>4. CASE CoreIdle
    BY <2>1, <2>2, <2>4 DEF CoreIdle, NewestIsWhole
  <2>5. CASE CoreClear
    BY <2>1, <2>2, <2>5 DEF CoreClear, NewestIsWhole, InOrder
  <2>6. CASE CoreLoad
    BY <2>1, <2>2, <2>3, <2>6 DEF CoreLoad, NewestIsWhole
  <2>7. CASE CoreStart
    BY <2>1, <2>2, <2>7 DEF CoreStart, NewestIsWhole
  <2>8. CASE CoreWait
    BY <2>1, <2>2, <2>8 DEF CoreWait, NewestIsWhole
  <2>9. CASE CoreResult
    BY <2>1, <2>2, <2>9 DEF CoreResult, NewestIsWhole
  <2> QED
    BY <1>2, <2>4, <2>5, <2>6, <2>7, <2>8, <2>9 DEF Tick51, CoreStep
<1>3. ASSUME PllLoss PROVE NewestIsWhole'
  BY <1>3, <1>0 DEF PllLoss, CoreReset, NewestIsWhole, NoResult, host, framer, uart
<1>4. ASSUME PllLock PROVE NewestIsWhole'
  BY <1>4 DEF PllLock, NewestIsWhole, host, framer, uart, core
<1>5. ASSUME UNCHANGED vars PROVE NewestIsWhole'
  BY <1>5 DEF NewestIsWhole, vars, host, framer, uart, core
<1> QED
  BY <1>1, <1>2, <1>3, <1>4, <1>5 DEF Next

-----------------------------------------------------------------------------
(* Replies and decodes are counted against each other.                     *)

NumbersIn(q) == {i \in DOMAIN q : q[i].seq # 0}

\* One reply more is one number more, unless its number is 0.
LEMMA OneReplyMore ==
  \A q \in Seq(Results) : \A r \in Results :
    /\ Cardinality(NumbersIn(q)) \in Nat
    /\ Cardinality(NumbersIn(Append(q, r))) =
         Cardinality(NumbersIn(q)) + (IF r.seq # 0 THEN 1 ELSE 0)
<1> SUFFICES ASSUME NEW q \in Seq(Results), NEW r \in Results
             PROVE  /\ Cardinality(NumbersIn(q)) \in Nat
                    /\ Cardinality(NumbersIn(Append(q, r))) =
                         Cardinality(NumbersIn(q)) + (IF r.seq # 0 THEN 1 ELSE 0)
  OBVIOUS
<1> DEFINE n == Len(q)
           more == Append(q, r)
<1>1. /\ n \in Nat /\ DOMAIN q = 1..n /\ DOMAIN more = 1..(n + 1)
      /\ more[n + 1] = r /\ \A i \in 1..n : more[i] = q[i]
  OBVIOUS
<1>2. IsFiniteSet(NumbersIn(q)) /\ Cardinality(NumbersIn(q)) \in Nat
  <2>1. IsFiniteSet(1..n)
    BY <1>1, FS_Interval
  <2>2. NumbersIn(q) \subseteq 1..n
    BY <1>1 DEF NumbersIn
  <2> QED
    BY <2>1, <2>2, FS_Subset, FS_CardinalityType
<1>3. n + 1 \notin NumbersIn(q)
  BY <1>1 DEF NumbersIn
<1>4. NumbersIn(more) = IF r.seq # 0 THEN NumbersIn(q) \cup {n + 1} ELSE NumbersIn(q)
  BY <1>1 DEF NumbersIn
<1>5. CASE r.seq # 0
  <2>1. NumbersIn(more) = NumbersIn(q) \cup {n + 1}
    BY <1>4, <1>5
  <2>2. Cardinality(NumbersIn(more)) = Cardinality(NumbersIn(q)) + 1
    BY <1>2, <1>3, <2>1, FS_AddElement
  <2> QED
    BY <1>2, <1>5, <2>2
<1>6. CASE r.seq = 0
  <2>1. NumbersIn(more) = NumbersIn(q)
    BY <1>4, <1>6
  <2> QED
    BY <1>2, <1>6, <2>1
<1> QED
  BY <1>5, <1>6

\* A flip of the result toggle is on its way to the UART side.
Underway ==
  resultToggle # resultSeen \/ resultMeta # resultSeen \/ resultSync # resultSeen

\* A reply with the result's number is still to come.  There is never more than one:
\* a second flip that the UART side sees raises txStart while the transmitter is busy.
ReplyToCome == result.seq # 0 /\ ((answering /\ ~txBusy) \/ Underway)

Counted == Cardinality(NumbersIn(replies)) + (IF ReplyToCome THEN 1 ELSE 0) <= decodes

AnswersDrain ==
  /\ answering => txStart
  /\ txStart /\ ~answering /\ ~txBusy => frameValid /\ frame.command = "PROBE"
  /\ frameReady /\ frameValid /\ frame.command = "PROBE" => txStart
  /\ result.seq # 0 /\ ~txBusy /\ (answering \/ resultSync # resultSeen) =>
       resultToggle = resultMeta
  /\ result.seq # 0 /\ ~txBusy /\ answering => resultMeta = resultSync

\* An answer is given to a transmitter that is free, at the first tick after it was
\* decided on.
LEMMA DrainStep ==
  ASSUME UartTypeOK, AnswersDrain, [Next]_vars
  PROVE  AnswersDrain'
<1> USE DEF UartTypeOK, HostTypeOK, UartRegistersOK, CoreRegistersOK
<1>1. ASSUME NEW drained \in BOOLEAN, Tick27(drained) PROVE AnswersDrain'
  <2>1. UNCHANGED <<result, resultToggle>>
    BY <1>1 DEF Tick27, core
  <2>2. /\ resultMeta' = resultToggle /\ resultSync' = resultMeta
        /\ frameReady' = (Probing \/ Accepting \/ Answering)
        /\ txStart' = (Probing \/ Answering)
        /\ answering' = Answering
    BY <1>1 DEF Tick27, Handlers
  <2>3. ASSUME txStart', ~answering', ~txBusy' PROVE frameValid' /\ frame'.command = "PROBE"
    <3>1. Probing
      BY <2>2, <2>3
    <3>2. frame' = frame /\ frameValid' = (frameValid /\ ~frameReady)
      BY <1>1, <3>1, Deaf DEF Probing
    <3>3. ~txStart
      BY <1>1, <2>3, <3>1 DEF Tick27, Transmitter, ShowsResult, Probing
    <3> QED
      BY <3>1, <3>2, <3>3 DEF Probing, AnswersDrain
  <2>4. ASSUME frameReady', frame'.command = "PROBE", frameValid' PROVE txStart'
    <3>1. ~Accepting
      BY <1>1, <2>4, Deaf DEF Accepting
    <3> QED
      BY <2>2, <2>4, <3>1
  <2>5. ASSUME result.seq # 0, answering' PROVE resultMeta' = resultSync'
    <3>1. ~txBusy /\ resultSync # resultSeen
      BY <2>2, <2>5 DEF Answering
    <3> QED
      BY <2>2, <2>5, <3>1 DEF AnswersDrain
  <2> QED
    BY <2>1, <2>2, <2>3, <2>4, <2>5 DEF AnswersDrain
<1>2. ASSUME Tick51 PROVE AnswersDrain'
  <2>1. UNCHANGED <<answering, txStart, txBusy, frameValid, frame, frameReady, resultSeen,
                    resultMeta, resultSync>>
    BY <1>2 DEF Tick51, framer, uart
  <2>2. CASE UNCHANGED <<result, resultToggle>>
    BY <2>1, <2>2 DEF AnswersDrain
  <2>3. CASE CoreResult
    BY <2>1, <2>3 DEF CoreResult, Settled, Answering, AnswersDrain
  <2> QED
    BY <1>2, <2>2, <2>3
    DEF Tick51, CoreStep, CoreIdle, CoreClear, CoreLoad, CoreStart, CoreWait
<1>3. ASSUME PllLoss PROVE AnswersDrain'
  BY <1>3 DEF PllLoss, CoreReset, NoResult, AnswersDrain, framer, uart
<1>4. ASSUME PllLock PROVE AnswersDrain'
  BY <1>4 DEF PllLock, AnswersDrain, framer, uart, core
<1>5. ASSUME UNCHANGED vars PROVE AnswersDrain'
  BY <1>5 DEF AnswersDrain, vars, framer, uart, core
<1> QED
  BY <1>1, <1>2, <1>3, <1>4, <1>5 DEF Next

\* What a tick of the UART side hands to the transmitter.
LEMMA HandedOver ==
  ASSUME UartTypeOK, AnswersDrain, NEW drained \in BOOLEAN, Tick27(drained)
  PROVE  IF answering /\ ~txBusy
           THEN replies' = (IF ShowsResult THEN Append(replies, result) ELSE replies) /\ txBusy'
           ELSE replies' = replies
<1>1. CASE answering /\ ~txBusy
  BY <1>1 DEF AnswersDrain, Tick27, Transmitter, ShowsResult
<1>2. CASE ~(answering /\ ~txBusy)
  <2>1. txStart /\ ~txBusy => Probing
    BY <1>2 DEF AnswersDrain, Probing
  <2> QED
    BY <1>2, <2>1 DEF Tick27, Transmitter, ShowsResult
<1> QED
  BY <1>1, <1>2

\* Every reply with a number has used up a decode of its own.
LEMMA CountedStep ==
  ASSUME UartTypeOK, AnswersDrain, Counted, [Next]_vars
  PROVE  Counted'
<1> USE DEF UartTypeOK, HostTypeOK, UartRegistersOK, CoreRegistersOK
<1>0. /\ Cardinality(NumbersIn(replies)) \in Nat
      /\ Cardinality(NumbersIn(Append(replies, result))) =
           Cardinality(NumbersIn(replies)) + (IF result.seq # 0 THEN 1 ELSE 0)
  BY OneReplyMore
<1>1. ASSUME NEW drained \in BOOLEAN, Tick27(drained) PROVE Counted'
  <2>1. UNCHANGED <<result, resultToggle, decodes>>
    BY <1>1 DEF Tick27, core
  <2>2. /\ resultMeta' = resultToggle /\ resultSync' = resultMeta
        /\ answering' = Answering
        /\ resultSeen' = IF Answering THEN resultSync ELSE resultSeen
    BY <1>1 DEF Tick27, Handlers
  <2>3. CASE answering /\ ~txBusy
    <3>1. txBusy' /\ (replies' = replies \/ replies' = Append(replies, result))
      BY <1>1, <2>3, HandedOver
    <3>2. \/ Cardinality(NumbersIn(replies')) = Cardinality(NumbersIn(replies))
          \/ Cardinality(NumbersIn(replies')) =
               Cardinality(NumbersIn(replies)) + (IF result.seq # 0 THEN 1 ELSE 0)
      BY <1>0, <3>1
    <3>3. result.seq # 0 => ~Underway'
      BY <2>1, <2>2, <2>3 DEF AnswersDrain, Underway, Answering
    <3>4. ~ReplyToCome'
      BY <2>1, <3>1, <3>3 DEF ReplyToCome
    <3>5. result.seq # 0 => ReplyToCome
      BY <2>3 DEF ReplyToCome
    <3> QED
      BY <1>0, <2>1, <3>4, <3>5, <3>2 DEF Counted
  <2>4. CASE ~(answering /\ ~txBusy)
    <3>1. replies' = replies
      BY <1>1, <2>4, HandedOver
    <3>2. ReplyToCome' => ReplyToCome
      BY <2>1, <2>2, <2>4 DEF ReplyToCome, Underway, Answering
    <3> QED
      BY <1>0, <2>1, <3>1, <3>2 DEF Counted
  <2> QED
    BY <2>3, <2>4
<1>2. ASSUME Tick51 PROVE Counted'
  <2>1. UNCHANGED <<answering, txBusy, resultSeen, resultMeta, resultSync, replies>>
    BY <1>2 DEF Tick51, framer, uart
  <2>2. CASE UNCHANGED <<result, resultToggle, decodes>>
    BY <2>1, <2>2 DEF Counted, ReplyToCome, Underway
  <2>3. CASE CoreResult
    BY <1>0, <2>1, <2>3 DEF CoreResult, Counted
  <2> QED
    BY <1>2, <2>2, <2>3
    DEF Tick51, CoreStep, CoreIdle, CoreClear, CoreLoad, CoreStart, CoreWait
<1>3. ASSUME PllLoss PROVE Counted'
  <2>1. replies' = replies /\ decodes' = decodes /\ ~ReplyToCome'
    BY <1>3 DEF PllLoss, CoreReset, NoResult, framer, ReplyToCome
  <2> QED
    BY <1>0, <2>1 DEF Counted
<1>4. ASSUME PllLock PROVE Counted'
  BY <1>4 DEF PllLock, Counted, ReplyToCome, Underway, framer, uart, core
<1>5. ASSUME UNCHANGED vars PROVE Counted'
  BY <1>5 DEF Counted, ReplyToCome, Underway, vars, framer, uart, core
<1> QED
  BY <1>1, <1>2, <1>3, <1>4, <1>5 DEF Next

-----------------------------------------------------------------------------
(* The two properties of a PLL that may lose its lock.                     *)

PllInv == UartTypeOK /\ InOrder /\ AnswersDrain /\ Counted

\* The invariant holds at the start.
LEMMA PllInvInit == Init => PllInv /\ NewestIsWhole
<1> SUFFICES ASSUME Init PROVE PllInv /\ NewestIsWhole
  OBVIOUS
<1>1. UartTypeOK
  BY TypeInit
<1>2. InOrder /\ NewestIsWhole
  BY DEF Init, InOrder, NewestIsWhole, NoResult, ProbeFrame
<1>3. AnswersDrain
  BY DEF Init, AnswersDrain, NoResult
<1>4. Counted
  <2>1. NumbersIn(replies) = {}
    BY DEF Init, NumbersIn
  <2>2. ~ReplyToCome
    BY DEF Init, ReplyToCome, NoResult
  <2> QED
    BY <2>1, <2>2, FS_EmptySet DEF Init, Counted
<1> QED
  BY <1>1, <1>2, <1>3, <1>4 DEF PllInv

\* The invariant holds throughout, for every value of the constants.
THEOREM PllInvariant == Spec => []PllInv
<1>1. Init => PllInv
  BY PllInvInit
<1>2. PllInv /\ [Next]_vars => PllInv'
  BY TypeStep, InOrderStep, DrainStep, CountedStep DEF PllInv
<1> QED
  BY <1>1, <1>2, PTL DEF Spec

\* However often the PLL loses its lock, and whenever the host probes, a reply with a
\* number of the host has a decode of its own behind it.
THEOREM AnswersNeedDecodes == Spec => []ReplyNeedsDecode
<1>1. PllInv => ReplyNeedsDecode
  <2> SUFFICES ASSUME PllInv PROVE ReplyNeedsDecode
    OBVIOUS
  <2>1. Cardinality(NumbersIn(replies)) \in Nat
    BY OneReplyMore, ResetTypes DEF PllInv, UartTypeOK, UartRegistersOK
  <2>2. Numbered = NumbersIn(replies)
    BY DEF Numbered, NumbersIn
  <2> QED
    BY <2>1, <2>2 DEF PllInv, Counted, UartTypeOK, CoreRegistersOK, ReplyNeedsDecode
<1> QED
  BY <1>1, PllInvariant, PTL

\* However often the PLL loses its lock, a host that sends no probes is never told a
\* wrong answer to its newest frame.
THEOREM NewestAnswers ==
  ASSUME MaxProbes = 0
  PROVE  Spec => NewestReplyIsOwn
<1>1. PllInv /\ NewestIsWhole /\ [Next]_vars => NewestIsWhole'
  BY NewestStep DEF PllInv
<1>2. ASSUME PllInv, NewestIsWhole, Next
      PROVE  replies' # replies /\ Last(replies').seq = sent /\ sent > 0
               => Last(replies').answer = sent
  <2> SUFFICES ASSUME replies' # replies, Last(replies').seq = sent, sent > 0
               PROVE  Last(replies').answer = sent
    OBVIOUS
  <2>1. replies' = Append(replies, result)
    BY <1>2, HandedOver DEF PllInv, Next, Tick51, PllLoss, PllLock, framer
  <2>2. Last(replies') = result
    BY <1>2, <2>1 DEF Last, PllInv, UartTypeOK, UartRegistersOK, CoreRegistersOK
  <2> QED
    BY <1>2, <2>2 DEF NewestIsWhole
<1>3. PllInv /\ NewestIsWhole /\ [Next]_vars
        => [replies' # replies /\ Last(replies').seq = sent /\ sent > 0
              => Last(replies').answer = sent]_vars
  BY <1>2
<1> QED
  BY <1>1, <1>3, PllInvInit, PllInvariant, PTL DEF Spec, NewestReplyIsOwn

-----------------------------------------------------------------------------
(* A PLL that stays locked, and a host that probes between its decodes.    *)

Undisturbed == StartsLocked /\ MaxPllLosses = 0 /\ ~ProbeAnytime

ToCore == requestToggle # requestSeen
ToUart == resultToggle # resultSeen

\* One request is under way at a time: its flip is on its way to the core, or the core is
\* at it, or the flip of its result is on its way back.
Crossing ==
  /\ locked
  /\ requestLatched <=> ToCore \/ control # "C_IDLE" \/ ToUart
  /\ ToCore => control = "C_IDLE" /\ ~ToUart
  /\ control # "C_IDLE" => ~ToUart
  /\ ~ToCore => requestMeta = requestToggle /\ requestSync = requestToggle
  /\ requestSync # requestSeen => requestMeta # requestSeen
  /\ ~ToUart => resultMeta = resultToggle /\ resultSync = resultToggle
  /\ resultSync # resultSeen => resultMeta # resultSeen

\* The transmitter is free for an answer, and no probe stands in its way.
ClearWay ==
  /\ answering => ~requestLatched /\ ~txBusy
  /\ (frameValid \/ rxState = "payload") /\ frame.command = "PROBE" =>
       ~requestLatched /\ ~answering

\* What the core reads stays until it has read it, and it is the word of the request.
Fetched ==
  /\ ToCore \/ control \in {"C_CLEAR", "C_LOAD"} => ram = requestSeq /\ rxState = "hunt"
  /\ control = "C_LOAD" => loaded = 0 \/ word = requestSeq
  /\ control \in {"C_START", "C_WAIT"} => word = requestSeq
  /\ control # "C_IDLE" => seqCore = requestSeq
  /\ ToUart \/ answering => result.seq = requestSeq /\ result.answer = requestSeq

\* A frame in the receiver is newer than every request accepted before, save in the cycle
\* in which the framer still shows the one just accepted.
Fresh ==
  /\ \A i \in DOMAIN replies : replies[i].answer = replies[i].seq
  /\ \A i \in DOMAIN replies : replies[i].seq <= requestSeq
  /\ requestLatched \/ answering =>
       requestSeq > 0 /\ \A i \in DOMAIN replies : replies[i].seq # requestSeq
  /\ frame.command = "DECODE" /\ frameValid => ram = frame.seq
  /\ frame.command = "DECODE" /\ (frameValid \/ rxState = "payload") =>
       \/ requestSeq < frame.seq
       \/ frameValid /\ frameReady /\ requestLatched /\ requestSeq = frame.seq

ExchangeInv == PllInv /\ Crossing /\ ClearWay /\ Fetched /\ Fresh

\* The PLL takes no step.
LEMMA StaysLocked ==
  ASSUME Undisturbed, ExchangeInv, Next
  PROVE  (\E drained \in BOOLEAN : Tick27(drained)) \/ Tick51
BY EndpointAssumption
DEF Undisturbed, ExchangeInv, PllInv, UartTypeOK, Crossing, Next, PllLoss, PllLock

\* What the UART side decides between: it accepts, it answers, or neither.
LEMMA Decisions ==
  ASSUME ExchangeInv, NEW drained \in BOOLEAN, Tick27(drained)
  PROVE  /\ Answering => requestLatched /\ ToUart /\ ~ToCore /\ control = "C_IDLE"
         /\ Answering => resultSync = resultToggle /\ resultMeta = resultToggle
         /\ Accepting => ~requestLatched /\ frameValid /\ frame.command = "DECODE"
         /\ requestLatched' = ((requestLatched \/ Accepting) /\ ~Answering)
         /\ requestToggle' = IF Accepting THEN ~requestToggle ELSE requestToggle
         /\ requestSeq' = IF Accepting THEN frame.seq ELSE requestSeq
         /\ resultSeen' = IF Answering THEN resultSync ELSE resultSeen
         /\ resultMeta' = resultToggle /\ resultSync' = resultMeta
         /\ answering' = Answering
         /\ frameReady' = (Probing \/ Accepting \/ Answering)
         /\ UNCHANGED <<core, pll, decoder>>
<1>1. resultSync # resultSeen => resultMeta = resultSync /\ resultToggle = resultSync
  BY DEF ExchangeInv, PllInv, UartTypeOK, UartRegistersOK, CoreRegistersOK, Crossing, ToUart
<1>2. Answering => requestLatched /\ ToUart /\ ~ToCore /\ control = "C_IDLE"
  BY <1>1 DEF Answering, ExchangeInv, Crossing, ToUart
<1> QED
  BY <1>1, <1>2 DEF Answering, Accepting, Tick27, Handlers

\* A tick keeps one request under way at a time.
LEMMA CrossingStep ==
  ASSUME Undisturbed, ExchangeInv, [Next]_vars
  PROVE  Crossing'
<1> USE DEF ExchangeInv, PllInv, UartTypeOK, UartRegistersOK, CoreRegistersOK
<1>1. ASSUME NEW drained \in BOOLEAN, Tick27(drained) PROVE Crossing'
  <2>1. UNCHANGED <<locked, control, requestMeta, requestSync, requestSeen, resultToggle>>
    BY <1>1, Decisions DEF core, pll
  <2>2. CASE Accepting
    <3>1. ~Answering /\ ~requestLatched
      BY <1>1, <2>2, Decisions
    <3>2. /\ requestToggle' = ~requestToggle /\ requestLatched' /\ resultSeen' = resultSeen
          /\ resultMeta' = resultToggle /\ resultSync' = resultMeta
      BY <1>1, <2>2, <3>1, Decisions
    <3> QED
      BY <2>1, <3>1, <3>2 DEF Crossing, ToCore, ToUart
  <2>3. CASE Answering
    <3>1. /\ requestToggle' = requestToggle /\ ~requestLatched' /\ resultSeen' = resultToggle
          /\ resultMeta' = resultToggle /\ resultSync' = resultToggle
          /\ ~ToCore /\ control = "C_IDLE"
      BY <1>1, <2>3, Decisions
    <3> QED
      BY <2>1, <3>1 DEF Crossing, ToCore, ToUart
  <2>4. CASE ~Accepting /\ ~Answering
    <3>1. /\ requestToggle' = requestToggle /\ requestLatched' = requestLatched
          /\ resultSeen' = resultSeen
          /\ resultMeta' = resultToggle /\ resultSync' = resultMeta
      BY <1>1, <2>4, Decisions
    <3> QED
      BY <2>1, <3>1 DEF Crossing, ToCore, ToUart
  <2> QED
    BY <2>2, <2>3, <2>4
<1>2. ASSUME Tick51 PROVE Crossing'
  <2>1. /\ UNCHANGED <<locked, requestLatched, requestToggle, resultMeta, resultSync, resultSeen>>
        /\ requestMeta' = requestToggle /\ requestSync' = requestMeta
    BY <1>2 DEF Tick51, uart, pll, Synchronise
  <2>2. CASE CoreIdle /\ requestSync # requestSeen
    <3>1. /\ ToCore /\ requestMeta = requestToggle /\ requestSync = requestToggle
          /\ requestSeen' = requestToggle /\ control' = "C_CLEAR"
          /\ resultToggle' = resultToggle
      BY <2>2 DEF CoreIdle, Crossing, ToCore
    <3> QED
      BY <2>1, <3>1 DEF Crossing, ToCore, ToUart
  <2>3. CASE CoreIdle /\ requestSync = requestSeen
    <3>1. UNCHANGED <<requestSeen, control, resultToggle>>
      BY <2>3 DEF CoreIdle
    <3> QED
      BY <2>1, <3>1 DEF Crossing, ToCore, ToUart
  <2>4. CASE CoreClear \/ CoreLoad \/ CoreStart \/ CoreWait
    <3>1. /\ control # "C_IDLE" /\ control' # "C_IDLE"
          /\ UNCHANGED <<requestSeen, resultToggle>>
      BY <2>4 DEF CoreClear, CoreLoad, CoreStart, CoreWait
    <3> QED
      BY <2>1, <3>1 DEF Crossing, ToCore, ToUart
  <2>5. CASE CoreResult
    <3>1. /\ control # "C_IDLE" /\ control' = "C_IDLE"
          /\ requestSeen' = requestSeen /\ resultToggle' = ~resultToggle
      BY <2>5 DEF CoreResult
    <3> QED
      BY <2>1, <3>1 DEF Crossing, ToCore, ToUart
  <2> QED
    BY <1>2, <2>2, <2>3, <2>4, <2>5 DEF Tick51, CoreStep
<1>3. ASSUME UNCHANGED vars PROVE Crossing'
  BY <1>3 DEF vars, uart, core, pll, Crossing, ToCore, ToUart
<1> QED
  BY <1>1, <1>2, <1>3, StaysLocked

\* A tick keeps the way clear for the answer.
LEMMA ClearWayStep ==
  ASSUME Undisturbed, ExchangeInv, [Next]_vars
  PROVE  ClearWay'
<1> USE DEF ExchangeInv, PllInv, UartTypeOK, HostTypeOK, UartRegistersOK
<1>1. ASSUME NEW drained \in BOOLEAN, Tick27(drained) PROVE ClearWay'
  <2>1. ASSUME Answering PROVE ~requestLatched' /\ ~txBusy'
    <3>1. requestLatched /\ ~requestLatched' /\ ~txBusy
      BY <1>1, <2>1, Decisions DEF Answering
    <3>2. ~txStart
      BY <3>1 DEF ClearWay, AnswersDrain
    <3> QED
      BY <1>1, <3>1, <3>2 DEF Tick27, Transmitter, ShowsResult
  <2>2. ASSUME frameValid' \/ rxState' = "payload", frame'.command = "PROBE"
        PROVE  ~requestLatched' /\ ~answering'
    <3>1. ~requestLatched /\ ~Accepting
      <4>1. CASE BeginProbe
        BY <4>1 DEF BeginProbe, Undisturbed, Quiet, Accepting
      <4>2. CASE ~BeginProbe
        <5>1. frame' = frame /\ (frameValid \/ rxState = "payload")
          BY <1>1, <2>2, <4>2
          DEF Tick27, Receiver, NoByte, BeginDecode, DecodeFrame, DropFrame, EndFrame, host
        <5> QED
          BY <2>2, <5>1 DEF ClearWay, Accepting
      <4> QED
        BY <4>1, <4>2
    <3> QED
      BY <1>1, <3>1, Decisions
  <2> QED
    BY <1>1, <2>1, <2>2, Decisions DEF ClearWay
<1>2. ASSUME Tick51 PROVE ClearWay'
  BY <1>2 DEF Tick51, host, framer, uart, ClearWay
<1>3. ASSUME UNCHANGED vars PROVE ClearWay'
  BY <1>3 DEF vars, host, framer, uart, ClearWay
<1> QED
  BY <1>1, <1>2, <1>3, StaysLocked

\* A tick keeps what the core reads, and what it has read.
LEMMA FetchedStep ==
  ASSUME Undisturbed, ExchangeInv, [Next]_vars
  PROVE  Fetched'
<1> USE DEF ExchangeInv, PllInv, UartTypeOK, HostTypeOK, UartRegistersOK, CoreRegistersOK
<1>1. ASSUME NEW drained \in BOOLEAN, Tick27(drained) PROVE Fetched'
  <2>1. UNCHANGED <<control, requestSeen, seqCore, loaded, word, resultToggle, result>>
    BY <1>1, Decisions DEF core
  <2>2. CASE Accepting
    <3>1. ram' = requestSeq' /\ rxState' = "hunt"
      <4>1. ram' = ram /\ rxState' = rxState /\ requestSeq' = frame.seq
        BY <1>1, <2>2, Decisions, Deaf DEF Accepting
      <4> QED
        BY <2>2, <4>1 DEF Accepting, Fresh, InOrder
    <3>2. control = "C_IDLE" /\ ~ToUart' /\ ~answering'
      BY <1>1, <2>1, <2>2, Decisions DEF Crossing, ToUart
    <3> QED
      BY <2>1, <3>1, <3>2 DEF Fetched
  <2>3. CASE ~Accepting
    <3>1. requestSeq' = requestSeq /\ ToCore' = ToCore
      BY <1>1, <2>1, <2>3, Decisions DEF ToCore
    <3>2. ASSUME ToCore \/ control \in {"C_CLEAR", "C_LOAD"}
          PROVE  ram' = ram /\ rxState' = "hunt"
      <4>1. CoreIsFetching /\ rxState = "hunt" /\ requestLatched
        BY <3>2 DEF CoreIsFetching, Crossing, Fetched, ToCore
      <4> QED
        BY <1>1, <4>1
        DEF Tick27, Receiver, NoByte, BeginDecode, BeginProbe, DropFrame, EndFrame, Undisturbed,
            Quiet
    <3>3. ToUart' \/ answering' => ToUart
      BY <1>1, <2>1, Decisions DEF ToUart
    <3> QED
      BY <2>1, <3>1, <3>2, <3>3 DEF Fetched
  <2> QED
    BY <2>2, <2>3
<1>2. ASSUME Tick51 PROVE Fetched'
  <2>1. UNCHANGED <<ram, rxState, requestSeq, requestToggle, resultSeen, answering>>
    BY <1>2 DEF Tick51, framer, uart
  <2>2. CASE CoreIdle /\ requestSync # requestSeen
    <3>1. ToCore /\ ~ToUart
      BY <2>2 DEF Crossing, ToCore
    <3>2. /\ control' = "C_CLEAR" /\ seqCore' = requestSeq
          /\ resultToggle' = resultToggle /\ result' = result
      BY <2>2 DEF CoreIdle
    <3> QED
      BY <2>1, <3>1, <3>2 DEF Fetched, ToUart
  <2>3. CASE CoreIdle /\ requestSync = requestSeen
    <3>1. UNCHANGED <<requestSeen, control, seqCore, loaded, word, resultToggle, result>>
      BY <2>3 DEF CoreIdle
    <3> QED
      BY <2>1, <3>1 DEF Fetched, ToUart, ToCore
  <2>4. CASE CoreClear
    BY <2>1, <2>4 DEF CoreClear, Fetched, InOrder, ToUart, ToCore
  <2>5. CASE CoreLoad
    BY <2>1, <2>5 DEF CoreLoad, Fetched, ToUart, ToCore
  <2>6. CASE CoreStart \/ CoreWait
    BY <2>1, <2>6 DEF CoreStart, CoreWait, Fetched, ToUart, ToCore
  <2>7. CASE CoreResult
    <3>1. /\ control' = "C_IDLE" /\ requestSeen' = requestSeen /\ ~ToCore
          /\ result'.seq = requestSeq /\ result'.answer = requestSeq
      BY <2>7 DEF CoreResult, Fetched, Crossing
    <3> QED
      BY <2>1, <3>1 DEF Fetched, ToCore
  <2> QED
    BY <1>2, <2>2, <2>3, <2>4, <2>5, <2>6, <2>7 DEF Tick51, CoreStep
<1>3. ASSUME UNCHANGED vars PROVE Fetched'
  BY <1>3 DEF vars, framer, uart, core, Fetched, ToCore, ToUart
<1> QED
  BY <1>1, <1>2, <1>3, StaysLocked

\* An answer that was decided on goes to the transmitter at the next tick, and nothing else
\* does.
LEMMA GivenNow ==
  ASSUME ExchangeInv, NEW drained \in BOOLEAN, Tick27(drained)
  PROVE  replies' = IF answering THEN Append(replies, result) ELSE replies
<1>1. answering => ~txBusy /\ ~Probing
  BY DEF ExchangeInv, ClearWay, Probing
<1> QED
  BY <1>1, HandedOver DEF ExchangeInv, PllInv, ShowsResult

\* A tick keeps the frames in the receiver fresh, and the replies in order and of their own.
LEMMA FreshStep ==
  ASSUME Undisturbed, ExchangeInv, [Next]_vars
  PROVE  Fresh'
<1> USE DEF ExchangeInv, PllInv, UartTypeOK, HostTypeOK, UartRegistersOK, CoreRegistersOK
<1>0. /\ requestSeq \in Nat /\ sent \in Nat /\ frame.seq \in Nat
      /\ \A i \in DOMAIN replies : replies[i].seq \in Nat
  <2>1. requestSeq \in Nat /\ sent \in Nat /\ frame.seq \in Nat
    BY FrameFacts, EndpointAssumption
  <2>2. \A r \in Results : r.seq \in Nat
    BY EndpointAssumption DEF Results
  <2>3. \A i \in DOMAIN replies : replies[i] \in Results
    OBVIOUS
  <2> QED
    BY <2>1, <2>2, <2>3
<1>1. ASSUME NEW drained \in BOOLEAN, Tick27(drained) PROVE Fresh'
  <2>1. /\ answering => result.seq = requestSeq /\ result.answer = requestSeq
        /\ replies' = IF answering THEN Append(replies, result) ELSE replies
    BY <1>1, GivenNow DEF Fetched
  <2>2. \A i \in DOMAIN replies' :
          \/ i \in DOMAIN replies /\ replies'[i] = replies[i]
          \/ answering /\ replies'[i] = result
    BY <2>1
  <2>3. Accepting => requestSeq < frame.seq
    BY <1>1, Decisions DEF Fresh
  <2>4. requestSeq <= requestSeq' /\ (Accepting => requestSeq < requestSeq')
    BY <1>0, <1>1, <2>3, Decisions
  <2>5. requestSeq' \in Nat
    BY <1>0, <1>1, Decisions
  <2>6. \A i \in DOMAIN replies' :
          /\ replies'[i].answer = replies'[i].seq
          /\ replies'[i].seq \in Nat /\ replies'[i].seq <= requestSeq
    BY <1>0, <2>1, <2>2 DEF Fresh
  <2>7. ASSUME requestLatched' \/ answering'
        PROVE  requestSeq' > 0 /\ \A i \in DOMAIN replies' : replies'[i].seq # requestSeq'
    <3>1. CASE Accepting
      BY <1>0, <2>4, <2>5, <2>6, <3>1
    <3>2. CASE ~Accepting
      <4>1. requestLatched /\ requestSeq' = requestSeq
        BY <1>1, <2>7, <3>2, Decisions
      <4>2. replies' = replies
        BY <2>1, <4>1 DEF ClearWay
      <4> QED
        BY <4>1, <4>2 DEF Fresh
    <3> QED
      BY <3>1, <3>2
  <2>8. ASSUME frame'.command = "DECODE", frameValid' PROVE ram' = frame'.seq
    <3>1. CASE frameValid
      BY <1>1, <2>8, <3>1, Deaf DEF Fresh
    <3>2. CASE ~frameValid
      BY <1>1, <2>8, <3>2
      DEF Tick27, Receiver, NoByte, BeginDecode, BeginProbe, DropFrame, EndFrame, host
    <3> QED
      BY <3>1, <3>2
  <2>9. ASSUME frame'.command = "DECODE", frameValid' \/ rxState' = "payload"
        PROVE  \/ requestSeq' < frame'.seq
               \/ frameValid' /\ frameReady' /\ requestLatched' /\ requestSeq' = frame'.seq
    <3>1. CASE frameValid
      <4>1. frame' = frame /\ frameValid' /\ ~frameReady
        BY <1>1, <2>9, <3>1, Deaf DEF InOrder
      <4>2. CASE Accepting
        BY <1>1, <4>1, <4>2, Decisions
      <4>3. CASE ~Accepting
        BY <1>1, <2>9, <3>1, <4>1, <4>3, Decisions DEF Fresh
      <4> QED
        BY <4>2, <4>3
    <3>2. CASE ~frameValid
      <4>1. requestSeq' = requestSeq
        BY <1>1, <3>2, Decisions DEF Accepting
      <4>2. CASE BeginDecode
        <5>1. frame'.seq = sent + 1
          BY <4>2 DEF BeginDecode, DecodeFrame
        <5> QED
          BY <1>0, <4>1, <5>1 DEF InOrder
      <4>3. CASE ~BeginDecode
        <5>1. frame' = frame /\ rxState = "payload"
          BY <1>1, <2>9, <3>2, <4>3
          DEF Tick27, Receiver, NoByte, BeginProbe, ProbeFrame, DropFrame, EndFrame, host
        <5> QED
          BY <2>9, <3>2, <4>1, <5>1 DEF Fresh
      <4> QED
        BY <4>2, <4>3
    <3> QED
      BY <3>1, <3>2
  <2>10. \A i \in DOMAIN replies' : replies'[i].seq <= requestSeq'
    BY <1>0, <2>4, <2>5, <2>6
  <2> QED
    BY <2>6, <2>7, <2>8, <2>9, <2>10 DEF Fresh
<1>2. ASSUME Tick51 PROVE Fresh'
  BY <1>2 DEF Tick51, host, framer, uart, Fresh
<1>3. ASSUME UNCHANGED vars PROVE Fresh'
  BY <1>3 DEF vars, host, framer, uart, Fresh
<1> QED
  BY <1>1, <1>2, <1>3, StaysLocked

\* The invariant holds at the start.
LEMMA ExchangeInit ==
  ASSUME Undisturbed, Init
  PROVE  ExchangeInv
<1>1. PllInv
  BY PllInvInit
<1>2. Crossing /\ ClearWay /\ Fetched
  BY DEF Undisturbed, Init, Crossing, ClearWay, Fetched, ToCore, ToUart
<1>3. Fresh
  BY DEF Init, Fresh, ProbeFrame
<1> QED
  BY <1>1, <1>2, <1>3 DEF ExchangeInv

\* With a PLL that stays locked and probes between the decodes only, the invariant holds
\* throughout.
THEOREM ExchangeInvariant ==
  ASSUME Undisturbed
  PROVE  Spec => []ExchangeInv
<1>1. Init => ExchangeInv
  BY ExchangeInit
<1>2. ExchangeInv /\ [Next]_vars => ExchangeInv'
  <2> SUFFICES ASSUME ExchangeInv, [Next]_vars PROVE ExchangeInv'
    OBVIOUS
  <2>1. PllInv'
    BY TypeStep, InOrderStep, DrainStep, CountedStep DEF ExchangeInv, PllInv
  <2> QED
    BY <2>1, CrossingStep, ClearWayStep, FetchedStep, FreshStep DEF ExchangeInv
<1> QED
  BY <1>1, <1>2, PTL DEF Spec

\* Every decode reply carries the decode of the word that came with its number.
THEOREM AnswersAreOwn ==
  ASSUME Undisturbed
  PROVE  Spec => []ReplyIsOwn
<1>1. ExchangeInv => ReplyIsOwn
  BY DEF ExchangeInv, Fresh, ReplyIsOwn
<1> QED
  BY <1>1, ExchangeInvariant, PTL

\* The request registers hold still until the core has read them, the result registers
\* until the reply has been handed over.
THEOREM SnapshotsHold ==
  ASSUME Undisturbed
  PROVE  Spec => SnapshotsHeld
<1>1. ASSUME ExchangeInv, Next
      PROVE  /\ requestToggle # requestSeen => UNCHANGED requestSeq
             /\ resultToggle # resultSeen \/ answering => UNCHANGED result
  <2>1. ASSUME NEW drained \in BOOLEAN, Tick27(drained)
        PROVE  /\ requestToggle # requestSeen => UNCHANGED requestSeq
               /\ UNCHANGED result
    BY <1>1, <2>1, Decisions DEF ExchangeInv, Crossing, ToCore, core
  <2>2. ASSUME Tick51
        PROVE  /\ UNCHANGED requestSeq
               /\ resultToggle # resultSeen \/ answering => UNCHANGED result
    <3>1. UNCHANGED requestSeq
      BY <2>2 DEF Tick51, uart
    <3>2. ASSUME resultToggle # resultSeen \/ answering PROVE ~CoreResult
      BY <1>1, <3>2
      DEF ExchangeInv, PllInv, AnswersDrain, Crossing, ToUart, CoreResult, Settled
    <3> QED
      BY <2>2, <3>1, <3>2
      DEF Tick51, CoreStep, CoreIdle, CoreClear, CoreLoad, CoreStart, CoreWait
  <2> QED
    BY <1>1, <2>1, <2>2, StaysLocked
<1>2. ExchangeInv /\ [Next]_vars
        => [/\ requestToggle # requestSeen => UNCHANGED requestSeq
            /\ resultToggle # resultSeen \/ answering => UNCHANGED result]_vars
  BY <1>1
<1> QED
  BY <1>2, ExchangeInvariant, PTL DEF Spec, SnapshotsHeld

-----------------------------------------------------------------------------
(* The refinement of StopAndWait.                                          *)

\* What the mapping shows of a state: at most one request without an answer.
LEMMA UnansweredFacts ==
  ASSUME ExchangeInv
  PROVE  /\ answering => ~requestLatched /\ result.seq = requestSeq
         /\ Unanswered = IF answering \/ requestLatched THEN <<requestSeq>> ELSE <<>>
<1>1. answering => ~requestLatched /\ result.seq = requestSeq
  BY DEF ExchangeInv, ClearWay, Fetched
<1>2. \A a : <<a>> \o <<>> = <<a>> /\ <<>> \o <<a>> = <<a>>
  OBVIOUS
<1>3. <<>> \o <<>> = <<>>
  OBVIOUS
<1> QED
  BY <1>1, <1>2, <1>3 DEF Unanswered

\* A request that the framer offers has not been accepted before.
LEMMA NeverAcceptedBefore ==
  ASSUME ExchangeInv, Accepting
  PROVE  frame.seq \in Requests /\ frame.seq \notin StopAndWait!Accepted
<1>1. ~requestLatched /\ frame.command = "DECODE" /\ requestSeq < frame.seq
  BY DEF ExchangeInv, Fresh, Accepting
<1>2. frame.seq \in 1..MaxRequests /\ requestSeq \in 0..MaxRequests
  BY <1>1, FrameFacts
  DEF ExchangeInv, PllInv, UartTypeOK, HostTypeOK, UartRegistersOK
<1>3. frame.seq \notin ToSet(Unanswered)
  BY <1>1, <1>2, UnansweredFacts, EndpointAssumption DEF ToSet
<1>4. \A i \in DOMAIN Answers : Answers[i].seq # frame.seq
  <2>1. \A i \in DOMAIN replies : replies[i].seq \in Nat /\ replies[i].seq <= requestSeq
    <3>1. \A r \in Results : r.seq \in Nat
      BY EndpointAssumption DEF Results
    <3>2. \A i \in DOMAIN replies : replies[i] \in Results
      BY DEF ExchangeInv, PllInv, UartTypeOK, UartRegistersOK
    <3> QED
      BY <3>1, <3>2 DEF ExchangeInv, Fresh
  <2>2. \A i \in DOMAIN replies : replies[i].seq # frame.seq
    BY <1>1, <1>2, <2>1
  <2> QED
    BY <2>2 DEF Answers
<1> QED
  BY <1>2, <1>3, <1>4 DEF StopAndWait!Accepted, StopAndWait!ToSet, ToSet, Requests

ShownOf(q) == [i \in DOMAIN q |-> [seq |-> q[i].seq, answer |-> q[i].answer]]

\* One reply more is one answer more.
LEMMA OneAnswerMore ==
  \A q \in Seq(Results) : \A r \in Results :
    ShownOf(Append(q, r)) = Append(ShownOf(q), [seq |-> r.seq, answer |-> r.answer])
<1> SUFFICES ASSUME NEW q \in Seq(Results), NEW r \in Results
             PROVE  ShownOf(Append(q, r)) =
                      Append(ShownOf(q), [seq |-> r.seq, answer |-> r.answer])
  OBVIOUS
<1> DEFINE n == Len(q)
           shown == [seq |-> r.seq, answer |-> r.answer]
<1>1. /\ n \in Nat /\ DOMAIN q = 1..n /\ DOMAIN Append(q, r) = 1..(n + 1)
      /\ Append(q, r)[n + 1] = r /\ \A i \in 1..n : Append(q, r)[i] = q[i]
  OBVIOUS
<1>2. ShownOf(q) \in Seq([seq : 0..MaxRequests, answer : Word]) /\ Len(ShownOf(q)) = n
  <2>1. \A i \in 1..n : q[i] \in Results
    BY <1>1
  <2>2. \A x \in Results : [seq |-> x.seq, answer |-> x.answer] \in
                             [seq : 0..MaxRequests, answer : Word]
    BY DEF Results
  <2> QED
    BY <1>1, <2>1, <2>2 DEF ShownOf
<1>3. shown \in [seq : 0..MaxRequests, answer : Word]
  BY DEF Results
<1>4. Append(ShownOf(q), shown) \in Seq([seq : 0..MaxRequests, answer : Word])
      /\ Len(Append(ShownOf(q), shown)) = n + 1
  BY <1>1, <1>2, <1>3
<1>5. /\ DOMAIN Append(ShownOf(q), shown) = 1..(n + 1)
      /\ Append(ShownOf(q), shown) =
           [i \in 1..(n + 1) |-> Append(ShownOf(q), shown)[i]]
  BY <1>4
<1>6. \A i \in 1..(n + 1) :
        ShownOf(Append(q, r))[i] = Append(ShownOf(q), shown)[i]
  BY <1>1, <1>2, <1>3 DEF ShownOf
<1>7. ShownOf(Append(q, r)) = [i \in 1..(n + 1) |-> ShownOf(Append(q, r))[i]]
  BY <1>1 DEF ShownOf
<1> QED
  BY <1>5, <1>6, <1>7

\* Every step of the endpoint accepts a request, gives the answer to the one it holds,
\* does both, or neither.
LEMMA StopAndWaitStep ==
  ASSUME Undisturbed, ExchangeInv, ExchangeInv', [Next]_vars
  PROVE  [StopAndWait!SawNext]_<<Unanswered, Answers>>
<1> DEFINE U == IF answering \/ requestLatched THEN <<requestSeq>> ELSE <<>>
<1>1. Unanswered = U
  BY UnansweredFacts
<1>2. Unanswered' = U'
  <2>1. (answering => ~requestLatched /\ result.seq = requestSeq)'
    BY DEF ExchangeInv, ClearWay, Fetched
  <2>2. \A a : <<a>> \o <<>> = <<a>> /\ <<>> \o <<a>> = <<a>>
    OBVIOUS
  <2>3. <<>> \o <<>> = <<>>
    OBVIOUS
  <2> QED
    BY <2>1, <2>2, <2>3 DEF Unanswered
<1>3. Answers = ShownOf(replies) /\ Answers' = ShownOf(replies')
  BY DEF Answers, ShownOf
<1>4. ASSUME NEW drained \in BOOLEAN, Tick27(drained)
      PROVE  [StopAndWait!SawNext]_<<Unanswered, Answers>>
  <2>1. Answers' = IF answering THEN Append(Answers, [seq |-> requestSeq, answer |-> requestSeq])
                                ELSE Answers
    <3>1. replies \in Seq(Results) /\ result \in Results
      BY DEF ExchangeInv, PllInv, UartTypeOK, UartRegistersOK, CoreRegistersOK
    <3>2. answering => result.seq = requestSeq /\ result.answer = requestSeq
      BY DEF ExchangeInv, Fetched
    <3> QED
      BY <1>3, <1>4, <3>1, <3>2, GivenNow, OneAnswerMore
  <2>2. /\ Accepting => ~requestLatched /\ ~Answering
        /\ Answering => requestLatched
        /\ answering => ~requestLatched
        /\ requestLatched' = ((requestLatched \/ Accepting) /\ ~Answering)
        /\ answering' = Answering
        /\ requestSeq' = IF Accepting THEN frame.seq ELSE requestSeq
    BY <1>4, Decisions, UnansweredFacts
  <2>3. CASE ~answering /\ ~Accepting
    <3>1. U' = U
      BY <2>2, <2>3
    <3> QED
      BY <1>1, <1>2, <2>1, <2>3, <3>1
  <2>4. CASE ~answering /\ Accepting
    <3>1. Unanswered = <<>> /\ Unanswered' = <<frame.seq>>
      BY <1>1, <1>2, <2>2, <2>4
    <3>2. StopAndWait!Accept(frame.seq)
      BY <2>1, <2>4, <3>1, NeverAcceptedBefore DEF StopAndWait!Accept
    <3> QED
      BY <2>4, <3>2, NeverAcceptedBefore DEF StopAndWait!SawNext
  <2>5. CASE answering /\ ~Accepting
    <3>1. Unanswered = <<requestSeq>> /\ Unanswered' = <<>>
      BY <1>1, <1>2, <2>2, <2>5
    <3>2. StopAndWait!Answer
      BY <2>1, <2>5, <3>1 DEF StopAndWait!Answer, StopAndWait!Own
    <3> QED
      BY <3>2 DEF StopAndWait!SawNext
  <2>6. CASE answering /\ Accepting
    <3>1. Unanswered = <<requestSeq>> /\ Unanswered' = <<frame.seq>>
      BY <1>1, <1>2, <2>2, <2>6
    <3>2. StopAndWait!Exchange(frame.seq)
      BY <2>1, <2>6, <3>1, NeverAcceptedBefore DEF StopAndWait!Exchange, StopAndWait!Own
    <3> QED
      BY <2>6, <3>2, NeverAcceptedBefore DEF StopAndWait!SawNext
  <2> QED
    BY <2>3, <2>4, <2>5, <2>6
<1>5. ASSUME Tick51 \/ UNCHANGED vars
      PROVE  UNCHANGED <<Unanswered, Answers>>
  <2>1. UNCHANGED <<answering, requestLatched, requestSeq, replies>>
    BY <1>5 DEF Tick51, framer, uart, vars
  <2> QED
    BY <1>1, <1>2, <1>3, <2>1
<1> QED
  BY <1>4, <1>5, StaysLocked

\* The endpoint accepts every request once and answers it once, in order and with its own
\* decode: what StopAndWait promises, its fairness left out.
THEOREM ImplementsExchange ==
  ASSUME Undisturbed
  PROVE  Spec => StopAndWait!SawSafety
<1>1. Init => StopAndWait!SawInit
  <2> SUFFICES ASSUME Init PROVE Unanswered = <<>> /\ Answers = <<>>
    BY DEF StopAndWait!SawInit
  <2>1. <<>> \o <<>> = <<>>
    OBVIOUS
  <2> QED
    BY <2>1 DEF Init, Unanswered, Answers
<1>2. ExchangeInv /\ ExchangeInv' /\ [Next]_vars
        => [StopAndWait!SawNext]_(StopAndWait!sawVars)
  BY StopAndWaitStep DEF StopAndWait!sawVars
<1> QED
  BY <1>1, <1>2, ExchangeInvariant, PTL DEF Spec, StopAndWait!SawSafety
=============================================================================

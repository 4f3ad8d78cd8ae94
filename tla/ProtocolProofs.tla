---------------------------- MODULE ProtocolProofs ----------------------------
(***************************************************************************)
(* The two ends of the protocol: the transport that carries its frames and *)
(* the fold both sides keep of its x-manox actions. Each part speaks of one *)
(* specification and its constants; they share no variable.                *)
(***************************************************************************)
EXTENDS AhpTransport, TwinFold, SequenceTheorems, TLAPS

-------------------------------------------------------------------------------
(***************************************************************************)
(* For every set of frames and every bound: the transport is type correct, *)
(* loses, duplicates and reorders nothing, never leaves its reader asleep  *)
(* next to a frame, and implements the FIFO channel it stands for.         *)
(***************************************************************************)

(* Concatenating one element is appending it. *)
LEMMA ConcatOne ==
  ASSUME NEW S, NEW s \in Seq(S), NEW e \in S
  PROVE  s \o <<e>> = Append(s, e)
OBVIOUS

(* Taking the head of a non-empty sequence and leaving the tail. *)
LEMMA HeadTail ==
  ASSUME NEW S, NEW s \in Seq(S), s # <<>>
  PROVE  /\ Head(s) \in S
         /\ Tail(s) \in Seq(S)
         /\ s = <<Head(s)>> \o Tail(s)
OBVIOUS

(* Concatenation of three sequences is associative. *)
LEMMA Assoc ==
  ASSUME NEW S, NEW a \in Seq(S), NEW b \in Seq(S), NEW c \in Seq(S)
  PROVE  (a \o b) \o c = a \o (b \o c)
OBVIOUS

(* Appending at the end of a concatenation appends to its second part. *)
LEMMA AppendConcat ==
  ASSUME NEW S, NEW a \in Seq(S), NEW b \in Seq(S), NEW e \in S
  PROVE  Append(a \o b, e) = a \o Append(b, e)
OBVIOUS

(* wake() keeps the queue a sequence of frames and settles with a value. *)
LEMMA WakeData ==
  ASSUME DataOK, NEW v \in Frames \cup {Eof}, Wake(v)
  PROVE  inbox' \in Seq(Frames) /\ settled' \in Frames \cup {Eof, Unsettled}
<1>1. CASE waiter
  <2>1. settled' = v /\ inbox' = inbox
    BY <1>1, Zenon DEF Wake
  <2>2. QED
    BY <2>1 DEF DataOK
<1>2. CASE ~waiter
  <2>1. settled' = settled /\ inbox' = IF v = Eof THEN inbox ELSE Append(inbox, v)
    BY <1>2, Zenon DEF Wake
  <2>2. QED
    BY <2>1 DEF DataOK
<1>3. QED
  BY <1>1, <1>2, Zenon

(* Every reachable state of the transport is well typed. *)
THEOREM TypeCorrect == TransportSpec => []TransportTypeOK
<1>1. TransportInit => TransportTypeOK
  <2> SUFFICES ASSUME TransportInit PROVE TransportTypeOK
    OBVIOUS
  <2>1. TransportFlagsOK
    BY Zenon DEF TransportInit, TransportFlagsOK
  <2>2. DataOK
    BY DEF TransportInit, DataOK
  <2>3. QED
    BY <2>1, <2>2 DEF TransportTypeOK
<1>2. TransportTypeOK /\ [TransportNext]_transportVars => TransportTypeOK'
  <2> SUFFICES ASSUME TransportFlagsOK, DataOK, [TransportNext]_transportVars PROVE TransportFlagsOK' /\ DataOK'
    BY DEF TransportTypeOK
  <2>1. TransportFlagsOK'
    BY Zenon DEF TransportFlagsOK, TransportNext, Deliver, Recv, Consume, Send, Close, Wake, transportVars
  <2> SUFFICES DataOK'
    BY <2>1, Zenon
  <2>2. ASSUME NEW f \in Frames, Deliver(f) PROVE DataOK'
    <3>1. inbox' \in Seq(Frames) /\ settled' \in Frames \cup {Eof, Unsettled}
      BY <2>2, WakeData, Zenon DEF Deliver
    <3>2. /\ delivered' = Append(delivered, f)
          /\ UNCHANGED <<loop, received, sent>>
      BY <2>2, Zenon DEF Deliver
    <3>3. QED
      BY <3>1, <3>2 DEF DataOK
  <2>3. CASE Recv
    <3>1. loop' = "awaiting" /\ UNCHANGED <<delivered, received, sent>>
      BY <2>3, Zenon DEF Recv
    <3>2. CASE inbox # <<>>
      <4>1. settled' = Head(inbox) /\ inbox' = Tail(inbox)
        BY <2>3, <3>2, Zenon DEF Recv
      <4>2. QED
        BY <3>1, <3>2, <4>1, HeadTail DEF DataOK
    <3>3. CASE inbox = <<>>
      <4>1. inbox' = inbox /\ settled' \in {settled, Eof}
        BY <2>3, <3>3, Zenon DEF Recv
      <4>2. QED
        BY <3>1, <4>1 DEF DataOK
    <3>4. QED
      BY <3>2, <3>3, Zenon
  <2>4. CASE Consume
    BY <2>4 DEF Consume, DataOK
  <2>5. CASE Send
    BY <2>5 DEF Send, DataOK
  <2>6. CASE Close
    <3>1. inbox' \in Seq(Frames) /\ settled' \in Frames \cup {Eof, Unsettled}
      BY <2>6, WakeData, Zenon DEF Close
    <3>2. UNCHANGED <<loop, delivered, received, sent>>
      BY <2>6, Zenon DEF Close
    <3>3. QED
      BY <3>1, <3>2 DEF DataOK
  <2>7. CASE UNCHANGED transportVars
    BY <2>7 DEF transportVars, DataOK
  <2>8. QED
    BY <2>2, <2>3, <2>4, <2>5, <2>6, <2>7, Zenon DEF TransportNext
<1>3. QED
  BY <1>1, <1>2, PTL DEF TransportSpec

-----------------------------------------------------------------------------
(* What is in flight, and the step from which it changes. *)
LEMMA InFlightType ==
  ASSUME DataOK PROVE InFlight \in Seq(Frames)
BY DEF DataOK, InFlight

(* The inductive strengthening: a parked reader has nothing in flight, a   *)
(* reader that is not awaiting holds no promise, and the end of the stream *)
(* settles only a promise of a closed, drained transport.                  *)
LoopInv ==
  /\ loop # "awaiting" => settled = Unsettled
  /\ settled = Eof => (closed /\ inbox = <<>>)
  /\ loop = "ended" => (closed /\ inbox = <<>>)

IInv == LoopInv /\ NoLostWakeup /\ ExactlyOnceInOrder

(* wake() appends a frame to what is in flight, whoever takes it.          *)
LEMMA WakeFrame ==
  ASSUME DataOK, LoopInv, NoLostWakeup, ~closed, NEW f \in Frames, Wake(f),
         UNCHANGED loop
  PROVE  /\ InFlight' = Append(InFlight, f)
         /\ ~waiter'
         /\ waiter => loop = "awaiting"
         /\ (waiter /\ settled' = f) \/ (~waiter /\ settled' = settled)
         /\ settled' # Eof
<1>1. settled # Eof /\ f # Eof /\ f # Unsettled
  BY FramesAssumption DEF LoopInv
<1>2. CASE waiter
  <2>1. ~waiter' /\ settled' = f /\ inbox' = inbox
    BY <1>2, Zenon DEF Wake
  <2>2. inbox = <<>> /\ settled = Unsettled /\ loop = "awaiting"
    BY <1>2, Zenon DEF NoLostWakeup
  <2>3. InFlight = <<>> /\ InFlight' = <<f>> /\ <<f>> = Append(<<>>, f)
    BY <2>1, <2>2, FramesAssumption DEF InFlight
  <2>4. QED
    BY <1>1, <1>2, <2>1, <2>2, <2>3
<1>3. CASE ~waiter
  <2>a. /\ waiter' = waiter /\ settled' = settled
        /\ inbox' = IF f = Eof THEN inbox ELSE Append(inbox, f)
    BY <1>3, Zenon DEF Wake
  <2>b. ~waiter'
    BY <1>3, <2>a, Zenon
  <2>1. ~waiter' /\ settled' = settled /\ inbox' = Append(inbox, f)
    BY <1>1, <2>a, <2>b
  <2>2. InFlight' = Append(InFlight, f)
    <3>1. CASE settled \in Frames
      BY <2>1, <3>1, AppendConcat DEF InFlight, DataOK
    <3>2. CASE settled \notin Frames
      BY <2>1, <3>2 DEF InFlight
    <3>3. QED
      BY <3>1, <3>2
  <2>3. QED
    BY <1>1, <1>3, <2>1, <2>2
<1>4. QED
  BY <1>2, <1>3, Zenon

(* A delivered frame keeps the invariant: handed to the waiter or queued. *)
LEMMA DeliverStep ==
  ASSUME TransportTypeOK, IInv, NEW f \in Frames, Deliver(f) PROVE IInv'
<1>1. DataOK /\ LoopInv /\ NoLostWakeup /\ ExactlyOnceInOrder
  BY Zenon DEF TransportTypeOK, IInv
<1>2. /\ ~closed /\ ~closed' /\ loop' = loop /\ Wake(f)
      /\ delivered' = Append(delivered, f) /\ received' = received
  BY Zenon DEF Deliver
<1>3. /\ InFlight' = Append(InFlight, f)
      /\ ~waiter'
      /\ waiter => loop = "awaiting"
      /\ (waiter /\ settled' = f) \/ (~waiter /\ settled' = settled)
      /\ settled' # Eof
  BY <1>1, <1>2, WakeFrame, Zenon
<1>4. LoopInv'
  BY <1>1, <1>2, <1>3 DEF LoopInv
<1>5. NoLostWakeup'
  <2>1. CASE waiter /\ settled' = f
    BY <1>3, <2>1, FramesAssumption DEF NoLostWakeup
  <2>2. CASE ~waiter /\ settled' = settled
    BY <1>1, <1>2, <1>3, <2>2 DEF NoLostWakeup
  <2>3. QED
    BY <1>3, <2>1, <2>2, Zenon
<1>6. ExactlyOnceInOrder'
  <2>1. delivered = received \o InFlight /\ InFlight \in Seq(Frames)
        /\ received \in Seq(Frames)
    BY <1>1, InFlightType DEF ExactlyOnceInOrder, DataOK
  <2>2. Append(received \o InFlight, f) = received \o Append(InFlight, f)
    <3> DEFINE flight == InFlight
    <3>1. flight \in Seq(Frames) /\ received \in Seq(Frames)
      BY <2>1
    <3>2. Append(received \o flight, f) = received \o Append(flight, f)
      <4> HIDE DEF flight
      <4>1. QED
        BY <3>1
    <3>3. QED
      BY <3>2
  <2>3. QED
    BY <1>2, <1>3, <2>1, <2>2 DEF ExactlyOnceInOrder
<1>7. QED
  BY <1>4, <1>5, <1>6, Zenon DEF IInv

(* A recv() keeps the invariant: a frame moves, or the loop parks. *)
LEMMA RecvStep ==
  ASSUME TransportTypeOK, IInv, Recv PROVE IInv'
<1>1. DataOK /\ LoopInv /\ NoLostWakeup /\ ExactlyOnceInOrder
  BY Zenon DEF TransportTypeOK, IInv
<1>2. /\ loop = "ready" /\ loop' = "awaiting"
      /\ closed' = closed /\ delivered' = delivered /\ received' = received
  BY Zenon DEF Recv
<1>3. settled = Unsettled /\ ~waiter /\ InFlight = inbox
  BY <1>1, <1>2, FramesAssumption DEF LoopInv, NoLostWakeup, InFlight
<1>4. CASE inbox # <<>>
  <2>1. settled' = Head(inbox) /\ inbox' = Tail(inbox) /\ waiter' = waiter
    BY <1>4, Zenon DEF Recv
  <2>2. Head(inbox) \in Frames /\ inbox = <<Head(inbox)>> \o Tail(inbox)
    BY <1>1, <1>4, HeadTail DEF DataOK
  <2>3. InFlight' = inbox
    BY <2>1, <2>2 DEF InFlight
  <2>4. ~waiter'
    BY <1>3, <2>1, Zenon
  <2>5. LoopInv' /\ NoLostWakeup'
    BY <1>2, <2>1, <2>2, <2>4, FramesAssumption DEF LoopInv, NoLostWakeup
  <2>6. ExactlyOnceInOrder'
    BY <1>1, <1>2, <1>3, <2>3 DEF ExactlyOnceInOrder
  <2>7. QED
    BY <2>5, <2>6, Zenon DEF IInv
<1>5. CASE inbox = <<>> /\ closed
  <2>1. settled' = Eof /\ inbox' = inbox /\ waiter' = waiter
    BY <1>5, Zenon DEF Recv
  <2>2. ~waiter' /\ closed'
    BY <1>2, <1>3, <1>5, <2>1, Zenon
  <2>3. InFlight' = inbox
    BY <2>1, FramesAssumption DEF InFlight
  <2>4. LoopInv' /\ NoLostWakeup'
    BY <1>2, <1>5, <2>1, <2>2, FramesAssumption DEF LoopInv, NoLostWakeup
  <2>5. ExactlyOnceInOrder'
    BY <1>1, <1>2, <1>3, <2>3 DEF ExactlyOnceInOrder
  <2>6. QED
    BY <2>4, <2>5, Zenon DEF IInv
<1>6. CASE inbox = <<>> /\ ~closed
  <2>a. settled' = settled /\ inbox' = inbox /\ waiter' = TRUE
    BY <1>6, Zenon DEF Recv
  <2>b. ~closed'
    BY <1>2, <1>6, Zenon
  <2>1. settled' = settled /\ inbox' = inbox /\ waiter' /\ ~closed'
    BY <2>a, <2>b, Zenon
  <2>2. InFlight' = inbox
    BY <1>3, <2>1, FramesAssumption DEF InFlight
  <2>3. LoopInv' /\ NoLostWakeup'
    BY <1>2, <1>3, <1>6, <2>1, FramesAssumption DEF LoopInv, NoLostWakeup
  <2>4. ExactlyOnceInOrder'
    BY <1>1, <1>2, <1>3, <2>2 DEF ExactlyOnceInOrder
  <2>5. QED
    BY <2>3, <2>4, Zenon DEF IInv
<1>7. QED
  BY <1>4, <1>5, <1>6, Zenon

(* The loop's consumption of a settled promise keeps the invariant. *)
LEMMA ConsumeStep ==
  ASSUME TransportTypeOK, IInv, Consume PROVE IInv'
<1>1. DataOK /\ LoopInv /\ NoLostWakeup /\ ExactlyOnceInOrder
  BY Zenon DEF TransportTypeOK, IInv
<1>2. /\ loop = "awaiting" /\ settled # Unsettled /\ settled' = Unsettled
      /\ inbox' = inbox /\ delivered' = delivered
      /\ waiter' = waiter /\ closed' = closed
  BY Zenon DEF Consume
<1>3. ~waiter
  BY <1>1, <1>2, Zenon DEF NoLostWakeup
<1>4. InFlight' = inbox
  BY <1>2, FramesAssumption DEF InFlight
<1>5. CASE settled = Eof
  <2>1. loop' = "ended" /\ received' = received
    BY <1>5, Zenon DEF Consume
  <2>2. closed /\ inbox = <<>> /\ InFlight = inbox
    BY <1>1, <1>5, FramesAssumption DEF LoopInv, InFlight
  <2>3. ~waiter' /\ closed'
    BY <1>2, <1>3, <2>2, Zenon
  <2>4. LoopInv' /\ NoLostWakeup'
    BY <1>2, <2>1, <2>2, <2>3, FramesAssumption DEF LoopInv, NoLostWakeup
  <2>5. ExactlyOnceInOrder'
    BY <1>1, <1>2, <1>4, <2>1, <2>2 DEF ExactlyOnceInOrder
  <2>6. QED
    BY <2>4, <2>5, Zenon DEF IInv
<1>6. CASE settled # Eof
  <2>1. loop' = "ready" /\ received' = Append(received, settled)
    BY <1>6, Zenon DEF Consume
  <2>2. settled \in Frames /\ InFlight = <<settled>> \o inbox
    BY <1>1, <1>2, <1>6 DEF DataOK, InFlight
  <2>3. ~waiter'
    BY <1>2, <1>3, Zenon
  <2>4. LoopInv' /\ NoLostWakeup'
    BY <1>2, <2>1, <2>3, FramesAssumption DEF LoopInv, NoLostWakeup
  <2>5. received \o (<<settled>> \o inbox) = Append(received, settled) \o inbox
    <3>1. <<settled>> \in Seq(Frames) /\ received \in Seq(Frames) /\ inbox \in Seq(Frames)
      BY <1>1, <2>2 DEF DataOK
    <3>2. (received \o <<settled>>) \o inbox = received \o (<<settled>> \o inbox)
      BY <3>1, Assoc
    <3>3. received \o <<settled>> = Append(received, settled)
      BY <2>2, <3>1, ConcatOne
    <3>4. QED
      BY <3>2, <3>3
  <2>6. ExactlyOnceInOrder'
    BY <1>1, <1>2, <1>4, <2>1, <2>2, <2>5 DEF ExactlyOnceInOrder
  <2>7. QED
    BY <2>4, <2>6, Zenon DEF IInv
<1>7. QED
  BY <1>5, <1>6, Zenon

(* A close keeps the invariant: it wakes the parked recv(), if any. *)
LEMMA CloseStep ==
  ASSUME TransportTypeOK, IInv, Close PROVE IInv'
<1>1. DataOK /\ LoopInv /\ NoLostWakeup /\ ExactlyOnceInOrder
  BY Zenon DEF TransportTypeOK, IInv
<1>2. /\ ~closed /\ closed' /\ Wake(Eof)
      /\ loop' = loop /\ delivered' = delivered /\ received' = received
  BY Zenon DEF Close
<1>3. CASE waiter
  <2>1. ~waiter' /\ settled' = Eof /\ inbox' = inbox
    BY <1>2, <1>3, Zenon DEF Wake
  <2>2. inbox = <<>> /\ settled = Unsettled /\ loop = "awaiting"
    BY <1>1, <1>3, Zenon DEF NoLostWakeup
  <2>3. InFlight' = InFlight
    BY <2>1, <2>2, FramesAssumption DEF InFlight
  <2>4. LoopInv' /\ NoLostWakeup'
    BY <1>2, <2>1, <2>2, FramesAssumption DEF LoopInv, NoLostWakeup
  <2>5. ExactlyOnceInOrder'
    BY <1>1, <1>2, <2>3 DEF ExactlyOnceInOrder
  <2>6. QED
    BY <2>4, <2>5, Zenon DEF IInv
<1>4. CASE ~waiter
  <2>a. /\ waiter' = waiter /\ settled' = settled
        /\ inbox' = IF Eof = Eof THEN inbox ELSE Append(inbox, Eof)
    BY <1>2, <1>4, Zenon DEF Wake
  <2>b. ~waiter'
    BY <1>4, <2>a, Zenon
  <2>1. ~waiter' /\ settled' = settled /\ inbox' = inbox
    BY <2>a, <2>b
  <2>2. InFlight' = InFlight
    BY <2>1 DEF InFlight
  <2>3. LoopInv' /\ NoLostWakeup'
    BY <1>1, <1>2, <1>4, <2>1 DEF LoopInv, NoLostWakeup
  <2>4. ExactlyOnceInOrder'
    BY <1>1, <1>2, <2>2 DEF ExactlyOnceInOrder
  <2>5. QED
    BY <2>3, <2>4, Zenon DEF IInv
<1>5. QED
  BY <1>3, <1>4, Zenon

(* A step that leaves the inbound side alone keeps the invariant.          *)
LEMMA StillStep ==
  ASSUME IInv,
         UNCHANGED <<inbox, waiter, closed, loop, settled, delivered, received>>
  PROVE  IInv'
<1>1. LoopInv' /\ NoLostWakeup'
  BY Zenon DEF IInv, LoopInv, NoLostWakeup
<1>2. ExactlyOnceInOrder'
  BY DEF IInv, ExactlyOnceInOrder, InFlight
<1>3. QED
  BY <1>1, <1>2, Zenon DEF IInv

(* The strengthened invariant holds in every reachable state.              *)
THEOREM Invariance == TransportSpec => []IInv
<1>1. TransportInit => IInv
  <2> SUFFICES ASSUME TransportInit PROVE IInv
    OBVIOUS
  <2>1. /\ ~waiter /\ ~closed /\ inbox = <<>> /\ loop = "ready"
        /\ settled = Unsettled /\ delivered = <<>> /\ received = <<>>
    BY Zenon DEF TransportInit
  <2>2. LoopInv /\ NoLostWakeup
    BY <2>1, FramesAssumption DEF LoopInv, NoLostWakeup
  <2>3. ExactlyOnceInOrder
    BY <2>1, FramesAssumption DEF ExactlyOnceInOrder, InFlight
  <2>4. QED
    BY <2>2, <2>3, Zenon DEF IInv
<1>2. TransportTypeOK /\ IInv /\ [TransportNext]_transportVars => IInv'
  <2> SUFFICES ASSUME TransportTypeOK, IInv, [TransportNext]_transportVars PROVE IInv'
    OBVIOUS
  <2>1. ASSUME NEW f \in Frames, Deliver(f) PROVE IInv'
    BY <2>1, DeliverStep, Zenon
  <2>2. CASE Recv
    BY <2>2, RecvStep, Zenon
  <2>3. CASE Consume
    BY <2>3, ConsumeStep, Zenon
  <2>4. CASE Send
    BY <2>4, StillStep, Zenon DEF Send
  <2>5. CASE Close
    BY <2>5, CloseStep, Zenon
  <2>6. CASE UNCHANGED transportVars
    BY <2>6, StillStep, Zenon DEF transportVars
  <2>7. QED
    BY <2>1, <2>2, <2>3, <2>4, <2>5, <2>6, Zenon DEF TransportNext
<1>3. QED
  BY <1>1, <1>2, TypeCorrect, PTL DEF TransportSpec

(* Frames delivered before the close are received exactly once, in order,  *)
(* wherever they wait in between.                                          *)
THEOREM DeliveryCorrect == TransportSpec => []ExactlyOnceInOrder
BY Invariance, PTL DEF IInv

(* The receive loop never sleeps next to a frame or the end of stream.     *)
THEOREM WakeupCorrect == TransportSpec => []NoLostWakeup
BY Invariance, PTL DEF IInv

(* The receive loop ends only on a closed and drained transport.           *)
THEOREM EndCorrect == TransportSpec => []DrainedBeforeEnd
<1>1. TransportTypeOK /\ IInv => DrainedBeforeEnd
  <2> SUFFICES ASSUME TransportTypeOK, IInv, loop = "ended"
               PROVE  closed /\ received = delivered
    BY Zenon DEF DrainedBeforeEnd
  <2>1. DataOK /\ LoopInv /\ ExactlyOnceInOrder
    BY Zenon DEF TransportTypeOK, IInv
  <2>2. closed /\ inbox = <<>> /\ settled = Unsettled
    BY <2>1 DEF LoopInv
  <2>3. InFlight = <<>>
    BY <2>2, FramesAssumption DEF InFlight
  <2>4. received = delivered
    BY <2>1, <2>3 DEF ExactlyOnceInOrder, DataOK
  <2>5. QED
    BY <2>2, <2>4, Zenon
<1>2. QED
  BY <1>1, TypeCorrect, Invariance, PTL

-----------------------------------------------------------------------------
(* The refinement: deliveries are puts, a consumed frame is a take, the    *)
(* close is the shutdown, a consumed end of stream is the end; recv() and  *)
(* send() are invisible.                                                   *)
LEMMA StepRefines ==
  ASSUME TransportTypeOK, IInv, [TransportNext]_transportVars
  PROVE  [Channel!Next]_(Channel!cvars)
<1>1. DataOK /\ LoopInv /\ NoLostWakeup /\ ExactlyOnceInOrder
  BY Zenon DEF TransportTypeOK, IInv
<1>2. ASSUME NEW f \in Frames, Deliver(f) PROVE Channel!Next
  <2>1. ~closed /\ ~closed' /\ loop' = loop /\ Wake(f) /\ received' = received
    BY <1>2, Zenon DEF Deliver
  <2>2. InFlight' = Append(InFlight, f)
    BY <1>1, <2>1, WakeFrame, Zenon
  <2>3. Channel!Put(f)
    BY <1>2, <2>2, Zenon DEF Channel!Put, Deliver
  <2>4. QED
    BY <2>3, Zenon DEF Channel!Next
<1>3. CASE Recv
  <2>1. /\ loop = "ready" /\ loop' = "awaiting"
        /\ closed' = closed /\ received' = received
    BY <1>3, Zenon DEF Recv
  <2>2. settled = Unsettled /\ InFlight = inbox
    BY <1>1, <2>1, FramesAssumption DEF LoopInv, InFlight
  <2>3. InFlight' = InFlight
    <3>1. CASE inbox # <<>>
      <4>1. settled' = Head(inbox) /\ inbox' = Tail(inbox)
        BY <1>3, <3>1, Zenon DEF Recv
      <4>2. Head(inbox) \in Frames /\ inbox = <<Head(inbox)>> \o Tail(inbox)
        BY <1>1, <3>1, HeadTail DEF DataOK
      <4>3. QED
        BY <2>2, <4>1, <4>2 DEF InFlight
    <3>2. CASE inbox = <<>>
      <4>1. inbox' = inbox /\ settled' \in {settled, Eof}
        BY <1>3, <3>2, Zenon DEF Recv
      <4>2. QED
        BY <2>2, <4>1, FramesAssumption DEF InFlight
    <3>3. QED
      BY <3>1, <3>2, Zenon
  <2>4. (loop = "ended") = FALSE /\ (loop' = "ended") = FALSE
    BY <2>1
  <2>5. QED
    BY <2>1, <2>3, <2>4, Zenon DEF Channel!cvars
<1>4. CASE Consume
  <2>1. /\ loop = "awaiting" /\ settled # Unsettled /\ settled' = Unsettled
        /\ inbox' = inbox /\ closed' = closed
    BY <1>4, Zenon DEF Consume
  <2>2. InFlight' = inbox
    BY <2>1, FramesAssumption DEF InFlight
  <2>3. CASE settled = Eof
    <3>1. loop' = "ended" /\ received' = received
      BY <1>4, <2>3, Zenon DEF Consume
    <3>2. closed /\ inbox = <<>> /\ InFlight = inbox
      BY <1>1, <2>3, FramesAssumption DEF LoopInv, InFlight
    <3>3. (loop' = "ended") = TRUE /\ InFlight = <<>> /\ InFlight' = InFlight
      BY <2>2, <3>1, <3>2
    <3>4. Channel!End
      BY <2>1, <3>1, <3>2, <3>3, Zenon DEF Channel!End
    <3>5. QED
      BY <3>4, Zenon DEF Channel!Next
  <2>4. CASE settled # Eof
    <3>1. loop' = "ready" /\ received' = Append(received, settled)
      BY <1>4, <2>4, Zenon DEF Consume
    <3>2. settled \in Frames /\ InFlight = <<settled>> \o inbox
      BY <1>1, <2>1, <2>4 DEF DataOK, InFlight
    <3>3. /\ InFlight # <<>> /\ Head(InFlight) = settled
          /\ Tail(InFlight) = inbox
      BY <1>1, <3>2 DEF DataOK
    <3>4. (loop = "ended") = FALSE /\ (loop' = "ended") = FALSE
      BY <2>1, <3>1
    <3>5. Channel!Take
      BY <2>1, <2>2, <3>1, <3>3, <3>4, Zenon DEF Channel!Take
    <3>6. QED
      BY <3>5, Zenon DEF Channel!Next
  <2>5. QED
    BY <2>3, <2>4, Zenon
<1>5. CASE Send
  BY <1>5, Zenon DEF Send, Channel!cvars, InFlight
<1>6. CASE Close
  <2>1. /\ ~closed /\ closed' /\ Wake(Eof)
        /\ loop' = loop /\ received' = received
    BY <1>6, Zenon DEF Close
  <2>2. InFlight' = InFlight
    <3>1. CASE waiter
      <4>1. settled' = Eof /\ inbox' = inbox
        BY <2>1, <3>1, Zenon DEF Wake
      <4>2. settled = Unsettled
        BY <1>1, <3>1, Zenon DEF NoLostWakeup
      <4>3. QED
        BY <4>1, <4>2, FramesAssumption DEF InFlight
    <3>2. CASE ~waiter
      <4>1. /\ settled' = settled
            /\ inbox' = IF Eof = Eof THEN inbox ELSE Append(inbox, Eof)
        BY <2>1, <3>2, Zenon DEF Wake
      <4>2. QED
        BY <4>1 DEF InFlight
    <3>3. QED
      BY <3>1, <3>2, Zenon
  <2>3. (~closed') = FALSE /\ ~closed
    BY <2>1, Zenon
  <2>4. Channel!Shut
    BY <2>1, <2>2, <2>3, Zenon DEF Channel!Shut
  <2>5. QED
    BY <2>4, Zenon DEF Channel!Next
<1>7. CASE UNCHANGED transportVars
  BY <1>7, Zenon DEF transportVars, Channel!cvars, InFlight
<1>8. QED
  BY <1>2, <1>3, <1>4, <1>5, <1>6, <1>7, Zenon DEF TransportNext

(* The transport implements the abstract FIFO channel.                     *)
THEOREM Refinement == TransportSpec => ImplementsChannel
<1>1. TransportInit => Channel!Init
  <2> SUFFICES ASSUME TransportInit PROVE Channel!Init
    OBVIOUS
  <2>1. inbox = <<>> /\ settled = Unsettled /\ received = <<>>
    BY Zenon DEF TransportInit
  <2>2. InFlight = <<>>
    BY <2>1, FramesAssumption DEF InFlight
  <2>3. (~closed) = TRUE /\ (loop = "ended") = FALSE
    <3>1. loop = "ready" /\ closed = FALSE
      BY Zenon DEF TransportInit
    <3>2. QED
      BY <3>1
  <2>4. QED
    BY <2>1, <2>2, <2>3, Zenon DEF Channel!Init
<1>2. TransportTypeOK /\ IInv /\ [TransportNext]_transportVars => [Channel!Next]_(Channel!cvars)
  BY StepRefines, Zenon
<1>3. QED
  BY <1>1, <1>2, TypeCorrect, Invariance, PTL
     DEF TransportSpec, ImplementsChannel, Channel!Spec

-------------------------------------------------------------------------------
(***************************************************************************)
(* The page's fold agrees with the extension's, for any number of          *)
(* sessions, chats, tasks, types of action and pushes. What is on its way  *)
(* is the crux: a snapshot overtakes actions, which then write an older    *)
(* content again; but the last action on its way that writes a cell wrote  *)
(* what the extension has.                                                 *)
(***************************************************************************)

(* The n-th action on its way writes the cell, in the page's fold. *)
Touches(n, c) == c \in DOMAIN WebWrites(scoping[n])

(* The last action on its way that writes a cell wrote what is there. *)
Latest ==
  \A c \in Cells : \A n \in 1..Len(scoping) :
    Touches(n, c) /\ (\A m \in (n + 1)..Len(scoping) : ~Touches(m, c))
      => WebWrites(scoping[n])[c] = host[c]

(* Of a cell that no action on its way writes, the page knows what is      *)
(* there or nothing.                                                       *)
Known ==
  \A c \in Cells :
    (\A n \in 1..Len(scoping) : ~Touches(n, c)) => web[c] \in {Absent, host[c]}

(* Nothing is known of a catalogue before its baseline. *)
Unbased ==
  \A c \in Cells : c[1] \in Catalogues \ based =>
    /\ host[c] = Absent /\ web[c] = Absent
    /\ \A n \in 1..Len(scoping) : ~Touches(n, c)

(* There is nothing for a page that is not there. *)
Closed == ~open => scoping = <<>> /\ web = Blank

TwinInv == TwinTypeOK /\ Latest /\ Known /\ Unbased /\ Closed

-----------------------------------------------------------------------------
(* What is laid over a matrix is a matrix. *)
LEMMA OverType ==
  ASSUME NEW f \in [Cells -> Contents], NEW g \in Writes
  PROVE  /\ Over(f, g) \in [Cells -> Contents]
         /\ \A c \in Cells : Over(f, g)[c] = IF c \in DOMAIN g THEN g[c] ELSE f[c]
<1>1. PICK D \in SUBSET Cells : g \in [D -> Contents]
  BY DEF Writes
<1> QED
  BY <1>1 DEF Over

(* Writes on a channel are writes on cells, all of that channel. *)
LEMMA OnType ==
  ASSUME NEW ch, NEW written,
         \A s \in DOMAIN written : <<ch, s>> \in Cells /\ written[s] \in Contents
  PROVE  /\ On(ch, written) \in Writes
         /\ \A c \in DOMAIN On(ch, written) : c[1] = ch
<1> DEFINE D == {<<ch, s>> : s \in DOMAIN written}
<1>1. D \in SUBSET Cells
  OBVIOUS
<1>2. On(ch, written) \in [D -> Contents]
  BY DEF On
<1>3. \A c \in D : c[1] = ch
  OBVIOUS
<1> QED
  BY <1>1, <1>2, <1>3 DEF Writes

(* What the page's fold writes is what was written, or nothing. *)
LEMMA WebWritesType ==
  ASSUME NEW m \in Envelope
  PROVE  /\ WebWrites(m) \in Writes
         /\ DOMAIN WebWrites(m) \subseteq DOMAIN m.writes
         /\ WebWrites(m) = m.writes \/ DOMAIN WebWrites(m) = {}
<1>1. m.writes \in Writes
  BY DEF Envelope
<1>2. [c \in {} |-> Absent] \in [{} -> Contents] /\ {} \in SUBSET Cells
  BY DEF Contents
<1> QED
  BY <1>1, <1>2 DEF WebWrites, Writes

-----------------------------------------------------------------------------
(* The first fold into a catalogue is its baseline, and no later one.      *)
Timely(ch, baseline) ==
  \/ based' = based /\ ch \notin Catalogues
  \/ based' = based /\ ch \in based /\ baseline = FALSE
  \/ based' = based \cup {ch} /\ baseline = TRUE /\ ch \in Catalogues \ based

(* A fold in the extension. *)
LEMMA FoldsKeep ==
  ASSUME TwinInv, NEW ch \in Channels, NEW baseline \in BOOLEAN, NEW writes \in Writes,
         Folds(ch, baseline, writes),
         \A c \in DOMAIN writes : c[1] = ch,
         Timely(ch, baseline), bags' \subseteq BagChannels
  PROVE  TwinInv'
<1> DEFINE m == [ch |-> ch, baseline |-> baseline, writes |-> writes]
<1>1. m \in Envelope /\ m.writes = writes /\ m.ch = ch /\ m.baseline = baseline
  BY DEF Envelope
<1>2. /\ host' \in [Cells -> Contents]
      /\ \A c \in Cells : host'[c] = IF c \in DOMAIN writes THEN writes[c] ELSE host[c]
  BY OverType DEF TwinInv, TwinTypeOK, Folds
<1>3. TwinTypeOK'
  BY <1>1, <1>2 DEF TwinInv, TwinTypeOK, Folds, Timely
<1>4. CASE ~open
  <2>1. ~open' /\ scoping' = <<>> /\ web' = Blank /\ Len(scoping') = 0 /\ open' = open
    BY <1>4 DEF Folds, TwinInv, Closed
  <2>2. \A c \in Cells : web'[c] = Absent
    BY <2>1 DEF Blank
  <2>3. Latest' /\ Known' /\ Closed'
    BY <2>1, <2>2 DEF Latest, Known, Closed
  <2>4. Unbased'
    BY <1>2, <2>1, <2>2, <1>4 DEF Unbased, TwinInv, Closed, Timely
  <2> QED BY <1>3, <2>3, <2>4 DEF TwinInv
<1>5. CASE open
  <2>1. scoping' = Append(scoping, m) /\ open' /\ web' = web
    BY <1>5 DEF Folds
  <2>2. scoping \in Seq(Envelope) /\ Len(scoping) \in Nat
    BY DEF TwinInv, TwinTypeOK
  <2> PICK N \in Nat : N = Len(scoping)
    BY <2>2
  <2>3. /\ Len(scoping') = N + 1
        /\ scoping'[N + 1] = m
        /\ \A n \in 1..N : scoping'[n] = scoping[n]
    BY <1>1, <2>1, <2>2
  <2>4. \A c : \A n \in 1..N : Touches(n, c)' = Touches(n, c)
    BY <2>3 DEF Touches, WebWrites
  <2>5. \A c : Touches(N + 1, c)' <=> c \in DOMAIN WebWrites(m)
    BY <2>3 DEF Touches, WebWrites
  <2>6. /\ DOMAIN WebWrites(m) \subseteq DOMAIN writes
        /\ WebWrites(m) = writes \/ DOMAIN WebWrites(m) = {}
    BY <1>1, WebWritesType
  <2> USE DEF Timely
  <2>7. \A c \in DOMAIN WebWrites(m) : WebWrites(m)[c] = host'[c]
    BY <1>2, <2>6 DEF Writes
  (* A cell that is written without the page hearing of it: nothing was    *)
  (* known of it.                                                          *)
  <2>8. \A c \in DOMAIN writes \ DOMAIN WebWrites(m) : c[1] \in Catalogues \ based
    BY <1>1 DEF WebWrites
  <2>9. DOMAIN writes \subseteq Cells
    BY DEF Writes
  <2>10. Latest'
    <3> SUFFICES ASSUME NEW c \in Cells, NEW n \in 1..(N + 1),
                        Touches(n, c)',
                        \A k \in (n + 1)..(N + 1) : ~Touches(k, c)'
                 PROVE  WebWrites(scoping'[n])[c] = host'[c]
      BY <2>3 DEF Latest, WebWrites
    <3>1. CASE n = N + 1
      BY <3>1, <2>3, <2>5, <2>7
    <3>2. CASE n # N + 1
      <4>1. n \in 1..N /\ N + 1 \in (n + 1)..(N + 1)
        BY <3>2, <2>2
      <4>2. \A k \in (n + 1)..N : k \in 1..N /\ k \in (n + 1)..(N + 1)
        BY <2>2, <4>1
      <4>3. Touches(n, c) /\ \A k \in (n + 1)..N : ~Touches(k, c)
        BY <4>1, <4>2, <2>4
      <4>4. WebWrites(scoping[n])[c] = host[c]
        BY <4>1, <4>3 DEF TwinInv, Latest
      <4>5. c \notin DOMAIN WebWrites(m)
        BY <4>1, <2>5
      <4>6. c \notin DOMAIN writes
        BY <4>1, <4>3, <4>5, <2>8 DEF TwinInv, Unbased
      <4> QED BY <4>1, <4>4, <4>6, <1>2, <2>3 DEF WebWrites
    <3> QED BY <3>1, <3>2
  <2>11. Known'
    <3> SUFFICES ASSUME NEW c \in Cells,
                        \A n \in 1..(N + 1) : ~Touches(n, c)'
                 PROVE  web[c] \in {Absent, host'[c]}
      BY <2>1, <2>3 DEF Known
    <3>1. \A n \in 1..N : ~Touches(n, c)
      BY <2>2, <2>4
    <3>2. c \notin DOMAIN WebWrites(m)
      BY <2>2, <2>5
    <3>3. CASE c \in DOMAIN writes
      BY <3>2, <3>3, <2>8 DEF TwinInv, Unbased
    <3>4. CASE c \notin DOMAIN writes
      BY <3>1, <3>4, <1>2 DEF TwinInv, Known
    <3> QED BY <3>3, <3>4
  <2>12. Unbased'
    <3> SUFFICES ASSUME NEW c \in Cells, c[1] \in Catalogues \ based'
                 PROVE  /\ host'[c] = Absent /\ web[c] = Absent
                        /\ \A n \in 1..(N + 1) : ~Touches(n, c)'
      BY <2>1, <2>3 DEF Unbased
    <3>1. c[1] \in Catalogues \ based /\ c[1] # ch
      OBVIOUS
    <3>2. c \notin DOMAIN writes
      BY <3>1
    <3>3. host[c] = Absent /\ web[c] = Absent /\ \A n \in 1..N : ~Touches(n, c)
      BY <3>1 DEF TwinInv, Unbased
    <3> QED BY <3>2, <3>3, <1>2, <2>2, <2>4, <2>5, <2>6
  <2> QED BY <1>3, <2>1, <2>10, <2>11, <2>12 DEF TwinInv, Closed
<1> QED BY <1>4, <1>5

(* A push writes what the extension has. *)
LEMMA PushKeeps ==
  ASSUME TwinInv, NEW D \in SUBSET Cells, NEW w \in [D -> Contents],
         \A c \in D : w[c] = host[c],
         web' = Over(web, w) \/ web' = web,
         open, UNCHANGED <<host, based, bags, row, open, scoping>>,
         asked' \in Nat, pushes' \in Nat, pushed' \in BOOLEAN
  PROVE  TwinInv'
<1>1. w \in Writes /\ DOMAIN w = D
  BY DEF Writes
<1>2. /\ web' \in [Cells -> Contents]
      /\ \A c \in Cells : web'[c] \in {web[c], host[c]}
  BY <1>1, OverType DEF TwinInv, TwinTypeOK
<1>3. \A c, n : Touches(n, c)' = Touches(n, c)
  BY DEF Touches, WebWrites
<1>4. TwinTypeOK' /\ Closed'
  BY <1>2 DEF TwinInv, TwinTypeOK, Closed
<1>5. Latest'
  BY <1>3 DEF TwinInv, Latest, WebWrites
<1>6. Known' /\ Unbased'
  BY <1>2, <1>3 DEF TwinInv, Known, Unbased
<1> QED BY <1>4, <1>5, <1>6 DEF TwinInv

(* Nothing changes but what the invariant does not speak of. *)
LEMMA Aside ==
  ASSUME TwinInv, UNCHANGED <<host, based, bags, scoping, web>>,
         row' \in [Sessions -> {"none", "bag", "own"}],
         open' \in BOOLEAN, open => open',
         asked' \in Nat, pushes' \in Nat, pushed' \in BOOLEAN
  PROVE  TwinInv'
<1>1. \A c, n : Touches(n, c)' = Touches(n, c)
  BY DEF Touches, WebWrites
<1> QED BY <1>1 DEF TwinInv, TwinTypeOK, Latest, Known, Unbased, Closed, WebWrites, Blank

-----------------------------------------------------------------------------
LEMMA InitInv == TwinInit => TwinInv
<1> SUFFICES ASSUME TwinInit PROVE TwinInv
  OBVIOUS
<1>1. Blank \in [Cells -> Contents] /\ \A c \in Cells : Blank[c] = Absent
  BY DEF Blank, Contents
<1>2. scoping \in Seq(Envelope) /\ Len(scoping) = 0
  BY DEF TwinInit
<1>3. TwinTypeOK
  BY <1>1, <1>2 DEF TwinInit, TwinTypeOK
<1>4. Latest
  BY <1>2 DEF Latest
<1>5. Known
  BY <1>1 DEF TwinInit, Known
<1>6. Unbased
  BY <1>1, <1>2 DEF TwinInit, Unbased
<1>7. Closed
  BY DEF TwinInit, Closed
<1> QED
  BY <1>3, <1>4, <1>5, <1>6, <1>7 DEF TwinInv

(* A fold into a bag, whatever it writes there. *)
LEMMA BagFoldsKeep ==
  ASSUME TwinInv, NEW ch \in BagChannels, NEW written, NEW baseline \in BOOLEAN,
         DOMAIN written \subseteq Slots,
         \A s \in DOMAIN written : written[s] \in Contents,
         Folds(ch, baseline, On(ch, written)),
         based' = based, bags' \subseteq BagChannels
  PROVE  TwinInv'
<1> DEFINE writes == On(ch, written)
<1>1. ch \in Channels /\ ch \notin Catalogues
  BY DEF Channels, BagChannels, Catalogues, WorkspacesChannel, CommandsChannel
<1>2. \A s \in DOMAIN written : <<ch, s>> \in Cells /\ written[s] \in Contents
  BY DEF Cells, BagCells
<1>3. writes \in Writes /\ \A c \in DOMAIN writes : c[1] = ch
  BY <1>2, OnType
<1>4. Folds(ch, baseline, writes)
  OBVIOUS
<1>5. \A c \in DOMAIN writes : c[1] = ch
  BY <1>3
<1>6. writes \in Writes
  BY <1>3
<1> HIDE DEF writes
<1>7. Timely(ch, baseline)
  BY <1>1 DEF Timely
<1> QED BY <1>1, <1>4, <1>5, <1>6, <1>7, FoldsKeep

(* Every kind of action on a bag's channel. *)
LEMMA BagActionKeeps ==
  ASSUME TwinInv, NEW ch \in BagChannels, BagAction(ch)
  PROVE  TwinInv'
<1>1. based' = based /\ bags' \subseteq BagChannels
  BY DEF BagAction, TwinInv, TwinTypeOK
<1>2. ASSUME NEW t \in Types, NEW v \in Values, Folds(ch, FALSE, On(ch, ExtAction(t, v)))
      PROVE  TwinInv'
  <2>1. DOMAIN ExtAction(t, v) \subseteq Slots
    BY DEF ExtAction, Slots
  <2>2. \A s \in DOMAIN ExtAction(t, v) : ExtAction(t, v)[s] \in Contents
    BY DEF ExtAction, Contents
  <2> QED BY <1>1, <1>2, <2>1, <2>2, BagFoldsKeep
<1>3. ASSUME NEW t \in Tasks, NEW v \in Values, Folds(ch, FALSE, On(ch, TaskAction(t, v)))
      PROVE  TwinInv'
  <2>1. DOMAIN TaskAction(t, v) \subseteq Slots
    BY DEF TaskAction, Slots
  <2>2. \A s \in DOMAIN TaskAction(t, v) : TaskAction(t, v)[s] \in Contents
    BY DEF TaskAction, Contents
  <2> QED BY <1>1, <1>3, <2>1, <2>2, BagFoldsKeep
<1>4. ASSUME NEW state \in States, Folds(ch, TRUE, On(ch, Assigned(state)))
      PROVE  TwinInv'
  <2>1. DOMAIN Assigned(state) \subseteq Slots
    BY DEF Assigned, States, Slots
  <2>2. \A s \in DOMAIN Assigned(state) : Assigned(state)[s] \in Contents
    BY DEF Assigned, States, Contents
  <2> QED BY <1>1, <1>4, <2>1, <2>2, BagFoldsKeep
<1> QED BY <1>2, <1>3, <1>4 DEF BagAction

(* The baseline of a catalogue, and what changes it afterwards. *)
LEMMA CatalogueKeeps ==
  ASSUME TwinInv,
         \/ \E ch \in Catalogues : CatalogueBaseline(ch)
         \/ \E w \in Workspaces : WorkspaceDelta(w)
         \/ \E v \in Values : AgentsChanged(v)
  PROVE  TwinInv'
<1>0. Catalogues \subseteq Channels /\ bags \subseteq BagChannels
  BY DEF Channels, TwinInv, TwinTypeOK
<1>1. ASSUME NEW rows \in WorkspaceRows, WorkspacesChannel \notin based,
             based' = based \cup {WorkspacesChannel}, bags' = bags,
             Folds(WorkspacesChannel, TRUE, On(WorkspacesChannel, WorkspacesBaseline(rows)))
      PROVE  TwinInv'
  <2> DEFINE ch == WorkspacesChannel
             writes == On(ch, WorkspacesBaseline(rows))
  <2>1. /\ DOMAIN WorkspacesBaseline(rows) \subseteq Workspaces
        /\ \A s \in DOMAIN WorkspacesBaseline(rows) : WorkspacesBaseline(rows)[s] \in Contents
    BY DEF WorkspacesBaseline, WorkspaceRows, Contents
  <2>2. writes \in Writes /\ \A c \in DOMAIN writes : c[1] = ch
    BY <2>1, OnType DEF Cells, WorkspaceCells
  <2>3. ch \in Catalogues
    BY DEF Catalogues
  <2> HIDE DEF ch, writes
  <2> QED BY <1>0, <1>1, <2>2, <2>3, FoldsKeep DEF ch, writes, Timely
<1>2. ASSUME NEW v \in Values, CommandsChannel \notin based,
             based' = based \cup {CommandsChannel}, bags' = bags,
             Folds(CommandsChannel, TRUE, [c \in CommandCells |-> v])
      PROVE  TwinInv'
  <2> DEFINE writes == [c \in CommandCells |-> v]
  <2>1. CommandCells \in SUBSET Cells /\ writes \in [CommandCells -> Contents]
    BY DEF Cells, Contents
  <2>2. writes \in Writes
    BY <2>1 DEF Writes
  <2>3. \A c \in DOMAIN writes : c[1] = CommandsChannel
    BY DEF CommandCells
  <2>4. CommandsChannel \in Catalogues
    BY DEF Catalogues
  <2>5. Folds(CommandsChannel, TRUE, writes)
    BY <1>2
  <2> HIDE DEF writes
  <2> QED BY <1>0, <1>2, <2>2, <2>3, <2>4, <2>5, FoldsKeep DEF Timely
<1>3. ASSUME NEW w \in Workspaces, WorkspaceDelta(w)
      PROVE  TwinInv'
  <2>1. PICK written \in {WorkspaceChanged(w, v) : v \in Values} \cup {WorkspaceRemoved(w)} :
          Folds(WorkspacesChannel, FALSE, On(WorkspacesChannel, written))
    BY <1>3 DEF WorkspaceDelta, WorkspaceFolds
  <2>2. DOMAIN written \subseteq Workspaces /\ \A s \in DOMAIN written : written[s] \in Contents
    BY DEF WorkspaceChanged, WorkspaceRemoved, Contents
  <2>3. /\ On(WorkspacesChannel, written) \in Writes
        /\ \A c \in DOMAIN On(WorkspacesChannel, written) : c[1] = WorkspacesChannel
    BY <2>2, OnType DEF Cells, WorkspaceCells
  <2>4. WorkspacesChannel \in based /\ based' = based /\ bags' = bags /\ WorkspacesChannel \in Catalogues
    BY <1>3 DEF WorkspaceDelta, Catalogues
  <2> QED BY <1>0, <2>1, <2>3, <2>4, FoldsKeep DEF Timely
<1>4. ASSUME NEW v \in Values, AgentsChanged(v)
      PROVE  TwinInv'
  <2> DEFINE writes == [c \in RootCells |-> v]
  <2>1. RootCells \in SUBSET Cells /\ writes \in [RootCells -> Contents]
    BY DEF Cells, Contents
  <2>2. writes \in Writes
    BY <2>1 DEF Writes
  <2>3. \A c \in DOMAIN writes : c[1] = RootChannel
    BY DEF RootCells
  <2>4. RootChannel \in Channels /\ RootChannel \notin Catalogues
    BY DEF Channels, Catalogues, RootChannel, WorkspacesChannel, CommandsChannel
  <2>5. Folds(RootChannel, FALSE, writes) /\ based' = based /\ bags' = bags
    BY <1>4 DEF AgentsChanged
  <2> HIDE DEF writes
  <2> QED BY <1>0, <2>2, <2>3, <2>4, <2>5, FoldsKeep DEF Timely
<1> QED BY <1>1, <1>2, <1>3, <1>4 DEF CatalogueBaseline, Catalogues

(* The page folds the first action on its way. *)
LEMMA RelayKeeps == ASSUME TwinInv, Relay PROVE TwinInv'
<1>1. scoping \in Seq(Envelope) /\ Len(scoping) \in Nat /\ Len(scoping) > 0 /\ open
  BY DEF TwinInv, TwinTypeOK, Closed, Relay
<1> PICK N \in Nat : N = Len(scoping)
  BY <1>1
<1>2. /\ Len(scoping') = N - 1 /\ N > 0 /\ scoping' \in Seq(Envelope)
      /\ \A n \in 1..(N - 1) : scoping'[n] = scoping[n + 1]
  BY <1>1 DEF Relay
<1> DEFINE m == scoping[1]
<1>3. m \in Envelope /\ web' = Over(web, WebWrites(m)) /\ host' = host /\ based' = based
  BY <1>1 DEF Relay, extension
<1>4. \A c \in Cells : Touches(1, c) <=> c \in DOMAIN WebWrites(m)
  BY DEF Touches
<1> HIDE DEF m
<1>5. /\ web' \in [Cells -> Contents]
      /\ \A c \in Cells : web'[c] = IF c \in DOMAIN WebWrites(m) THEN WebWrites(m)[c] ELSE web[c]
  BY <1>3, WebWritesType, OverType DEF TwinInv, TwinTypeOK
<1>6. \A c : \A n \in 1..(N - 1) : Touches(n, c)' = Touches(n + 1, c)
  BY <1>2 DEF Touches, WebWrites
<1>7. TwinTypeOK' /\ Closed'
  BY <1>1, <1>2, <1>5 DEF TwinInv, TwinTypeOK, Closed, Relay, extension
<1>8. Latest'
  <2> SUFFICES ASSUME NEW c \in Cells, NEW n \in 1..(N - 1), Touches(n, c)',
                      \A k \in (n + 1)..(N - 1) : ~Touches(k, c)'
               PROVE  WebWrites(scoping'[n])[c] = host[c]
    BY <1>2, <1>3 DEF Latest, WebWrites
  <2>1. n + 1 \in 1..N /\ Touches(n + 1, c)
    BY <1>6
  <2>2. ASSUME NEW k \in (n + 2)..N PROVE ~Touches(k, c)
    <3>1. k - 1 \in (n + 1)..(N - 1) /\ k - 1 \in 1..(N - 1) /\ (k - 1) + 1 = k
      OBVIOUS
    <3> QED BY <3>1, <1>6
  <2>3. WebWrites(scoping[n + 1])[c] = host[c]
    BY <2>1, <2>2 DEF TwinInv, Latest
  <2> QED BY <1>2, <2>3 DEF WebWrites
<1>9. Known'
  <2> SUFFICES ASSUME NEW c \in Cells, \A n \in 1..(N - 1) : ~Touches(n, c)'
               PROVE  web'[c] \in {Absent, host[c]}
    BY <1>2, <1>3 DEF Known
  <2>1. ASSUME NEW k \in 2..N PROVE ~Touches(k, c)
    <3>1. k - 1 \in 1..(N - 1) /\ (k - 1) + 1 = k
      OBVIOUS
    <3> QED BY <3>1, <1>6
  <2>2. CASE Touches(1, c)
    <3>1. WebWrites(scoping[1])[c] = host[c]
      BY <1>2, <2>1, <2>2 DEF TwinInv, Latest
    <3> QED BY <1>4, <1>5, <2>2, <3>1 DEF m
  <2>3. CASE ~Touches(1, c)
    <3>1. \A k \in 1..N : ~Touches(k, c)
      BY <2>1, <2>3
    <3> QED BY <1>4, <1>5, <2>3, <3>1 DEF TwinInv, Known
  <2> QED BY <2>2, <2>3
<1>10. Unbased'
  <2> SUFFICES ASSUME NEW c \in Cells, c[1] \in Catalogues \ based
               PROVE  /\ host[c] = Absent /\ web'[c] = Absent
                      /\ \A n \in 1..(N - 1) : ~Touches(n, c)'
    BY <1>2, <1>3 DEF Unbased
  <2>1. host[c] = Absent /\ web[c] = Absent /\ \A n \in 1..N : ~Touches(n, c)
    BY DEF TwinInv, Unbased
  <2>2. \A n \in 1..(N - 1) : n + 1 \in 1..N
    OBVIOUS
  <2> QED BY <1>2, <1>4, <1>5, <1>6, <2>1, <2>2
<1> QED BY <1>7, <1>8, <1>9, <1>10 DEF TwinInv

(* A boot push: its head carries the registry, the rest what PushWrites    *)
(* takes.                                                                  *)
LEMMA PushesKeep == ASSUME TwinInv, PushStarts \/ PushPosts PROVE TwinInv'
<1>1. host \in [Cells -> Contents] /\ row \in [Sessions -> {"none", "bag", "own"}]
  BY DEF TwinInv, TwinTypeOK
<1>2. /\ UNCHANGED <<host, based, bags, row, open, scoping>>
      /\ asked' \in Nat /\ pushes' \in Nat /\ pushed' \in BOOLEAN
  BY DEF TwinInv, TwinTypeOK, PushStarts, PushPosts, extension
<1>3. CASE ~open
  <2>1. web' = web
    BY <1>3 DEF PushStarts, PushPosts
  <2> QED BY <1>1, <1>2, <2>1, Aside DEF TwinInv, TwinTypeOK
<1>4. CASE open /\ PushStarts
  <2>1. RootCells \in SUBSET Cells /\ web' = Over(web, Root)
    BY <1>4 DEF Cells, PushStarts
  <2>2. Root \in [RootCells -> Contents] /\ \A c \in RootCells : Root[c] = host[c]
    BY <1>1, <2>1 DEF Root
  <2> QED BY <1>2, <1>4, <2>1, <2>2, PushKeeps
<1>5. CASE open /\ PushPosts
  <2>1. PICK kept \in SUBSET {s \in Sessions : row[s] = "bag"} : web' = Over(web, PushWrites(kept))
    BY <1>5 DEF PushPosts
  <2>2. ASSUME NEW s \in kept PROVE DOMAIN BagOf(s) \subseteq Cells
    <3>1. \A t \in Slots : <<Thread(s), t>> \in Cells
      BY DEF Cells, BagCells, BagChannels, Thread
    <3> QED BY <3>1 DEF BagOf, On, Assigned, Slots
  <2> DEFINE D == WorkspaceCells \cup CommandCells \cup UNION {DOMAIN BagOf(s) : s \in kept}
  <2>3. D \in SUBSET Cells
    BY <2>2 DEF Cells
  <2>4. PushWrites(kept) = [c \in D |-> host[c]]
    BY DEF PushWrites
  <2> HIDE DEF D
  <2>5. PushWrites(kept) \in [D -> Contents] /\ \A c \in D : PushWrites(kept)[c] = host[c]
    BY <1>1, <2>3, <2>4
  <2> QED BY <1>2, <1>5, <2>1, <2>3, <2>5, PushKeeps
<1> QED BY <1>3, <1>4, <1>5

(* A page goes, and a new one knows nothing. *)
LEMMA CloseKeeps == ASSUME TwinInv, ClosePage PROVE TwinInv'
<1>1. /\ UNCHANGED <<host, based, bags, row, asked, pushes>>
      /\ scoping' = <<>> /\ scoping' \in Seq(Envelope) /\ Len(scoping') = 0
      /\ web' = Blank /\ open' = FALSE /\ pushed' = FALSE
  BY DEF ClosePage, extension
<1>2. Blank \in [Cells -> Contents] /\ \A c \in Cells : Blank[c] = Absent
  BY DEF Blank, Contents
<1>3. Blank' = Blank
  BY DEF Blank
<1>4. TwinTypeOK' /\ Closed'
  BY <1>1, <1>2, <1>3 DEF TwinInv, TwinTypeOK, Closed
<1>5. Latest' /\ Known'
  BY <1>1, <1>2 DEF Latest, Known
<1>6. Unbased'
  BY <1>1, <1>2 DEF TwinInv, Unbased
<1> QED BY <1>4, <1>5, <1>6 DEF TwinInv

(* Every step keeps the invariant. *)
LEMMA StepInv == TwinInv /\ [TwinNext]_twinVars => TwinInv'
<1> SUFFICES ASSUME TwinInv, [TwinNext]_twinVars PROVE TwinInv'
  OBVIOUS
<1>1. CASE \E ch \in BagChannels : BagAction(ch)
  BY <1>1, BagActionKeeps
<1>2. CASE \/ \E ch \in Catalogues : CatalogueBaseline(ch)
           \/ \E w \in Workspaces : WorkspaceDelta(w)
           \/ \E v \in Values : AgentsChanged(v)
  BY <1>2, CatalogueKeeps
<1>3. CASE \E s \in Sessions : RowAppears(s) \/ RowGoes(s)
  BY <1>3, Aside DEF TwinInv, TwinTypeOK, RowAppears, RowGoes
<1>4. CASE Relay
  BY <1>4, RelayKeeps
<1>5. CASE OpenPage \/ Refresh
  <2>1. /\ UNCHANGED <<host, based, bags, scoping, web, row, pushes, pushed>>
        /\ open' \in BOOLEAN /\ (open => open') /\ asked' = asked + 1
    BY <1>5 DEF TwinInv, TwinTypeOK, OpenPage, Refresh, Ask, extension
  <2>2. row \in [Sessions -> {"none", "bag", "own"}] /\ asked \in Nat /\ pushes \in Nat /\ pushed \in BOOLEAN
    BY DEF TwinInv, TwinTypeOK
  <2> QED BY <2>1, <2>2, Aside
<1>6. CASE PushStarts \/ PushPosts
  BY <1>6, PushesKeep
<1>7. CASE ClosePage
  BY <1>7, CloseKeeps
<1>8. CASE UNCHANGED twinVars
  BY <1>8, Aside DEF TwinInv, TwinTypeOK, twinVars
<1> QED BY <1>1, <1>2, <1>3, <1>4, <1>5, <1>6, <1>7, <1>8 DEF TwinNext

(* The invariant holds in every reachable state. *)
LEMMA TwinInvariance == TwinSpec => []TwinInv
  BY InitInv, StepInv, PTL DEF TwinSpec

(* Both folds only ever write what an action or a state of the protocol    *)
(* carries into the slots it has (xmanox.ts applyExtAction).               *)
THEOREM FoldTypeCorrect == TwinSpec => []TwinTypeOK
<1>1. TwinInv => TwinTypeOK
  BY DEF TwinInv
<1> QED BY <1>1, TwinInvariance, PTL

(* Once nothing is on its way, whatever the page knows of the extension's  *)
(* state it knows as it is now (agentClient.ts applyEnvelope,              *)
(* sidebarProvider.ts pushBootState, store.ts applyEnvelope).              *)
THEOREM AgreeCorrect == TwinSpec => []TwinsAgree
<1>1. TwinInv => TwinsAgree
  <2> SUFFICES ASSUME TwinInv, scoping = <<>>, NEW c \in Cells PROVE web[c] \in {Absent, host[c]}
    BY DEF TwinsAgree
  <2>1. Len(scoping) = 0
    OBVIOUS
  <2> QED BY <2>1 DEF TwinInv, Known
<1> QED BY <1>1, TwinInvariance, PTL

===============================================================================

---------------------------- MODULE AhpTransport ----------------------------
(***************************************************************************)
(* The napi binding dressed as an AHP transport                            *)
(* (src/transport/ahpTransport.ts over src/transport/napiTransport.ts).    *)
(* The binding's callback delivers frames, the protocol client's receive   *)
(* loop pulls them with recv(), and close() may come between any two       *)
(* steps of either.  A recv() promise that has settled is consumed in a    *)
(* later microtask, so further deliveries can slip in between.             *)
(***************************************************************************)
EXTENDS Naturals, Sequences

CONSTANTS Frames,      \* the distinguishable frames
          MaxFrames,   \* bound: frames the binding delivers before the close
          MaxSends,    \* bound: frames the client sends
          Eof,         \* the null a recv() settles with at the end of stream
          Unsettled    \* a recv() promise that has not settled

ASSUME FramesAssumption == Eof \notin Frames /\ Unsettled \notin Frames \cup {Eof}
ASSUME BoundsAssumption == MaxFrames \in Nat /\ MaxSends \in Nat

VARIABLES
  inbox,       \* NapiAhpTransport.inbox
  waiter,      \* NapiAhpTransport.waiter is set
  closed,      \* NapiAhpTransport.closed
  disposed,    \* NapiTransport.disposed: binding shut down, listeners removed
  loop,        \* the receive loop: about to recv, awaiting it, or finished
  settled,     \* what the awaited recv() promise settled with, if it has
  delivered,   \* history: frames the binding handed over while open
  received,    \* history: frames the receive loop has consumed
  sent         \* how many frames were handed to the binding

transportVars == <<inbox, waiter, closed, disposed, loop, settled,
          delivered, received, sent>>

TransportInit == /\ inbox = <<>>
        /\ waiter = FALSE
        /\ closed = FALSE
        /\ disposed = FALSE
        /\ loop = "ready"
        /\ settled = Unsettled
        /\ delivered = <<>>
        /\ received = <<>>
        /\ sent = 0
-----------------------------------------------------------------------------
(* A wake that keeps the stale waiter resolves one promise twice. *)
WakeKeepsWaiter(v) ==
  /\ IF waiter THEN settled' = v /\ UNCHANGED inbox
     ELSE /\ inbox' = IF v = Eof THEN inbox ELSE Append(inbox, v)
          /\ UNCHANGED settled
  /\ UNCHANGED waiter

(* A wake that always queues leaves the parked recv() asleep. *)
WakeOnlyQueues(v) ==
  /\ inbox' = IF v = Eof THEN inbox ELSE Append(inbox, v)
  /\ UNCHANGED <<waiter, settled>>

(* wake(): hand the frame to the parked recv(), or queue it; a null is     *)
(* never queued.                                                           *)
Wake(v) ==
  \/ /\ waiter
     /\ waiter' = FALSE
     /\ settled' = v
     /\ UNCHANGED inbox
  \/ /\ ~waiter
     /\ inbox' = IF v = Eof THEN inbox ELSE Append(inbox, v)
     /\ UNCHANGED <<waiter, settled>>

(* The binding's callback: emitted to the raw listener, which dispose()    *)
(* removed; deliver() itself drops everything once closed.                 *)
Deliver(f) ==
  /\ Len(delivered) < MaxFrames
  /\ ~disposed
  /\ ~closed
  /\ Wake(f)
  /\ delivered' = Append(delivered, f)
  /\ UNCHANGED <<closed, disposed, loop, received, sent>>

(* Testing `closed` ahead of the inbox loses what was queued. *)
RecvClosedFirst ==
  /\ loop = "ready"
  /\ loop' = "awaiting"
  /\ IF closed THEN settled' = Eof /\ UNCHANGED <<inbox, waiter>>
     ELSE IF inbox # <<>>
          THEN /\ settled' = Head(inbox)
               /\ inbox' = Tail(inbox)
               /\ UNCHANGED waiter
          ELSE waiter' = TRUE /\ UNCHANGED <<inbox, settled>>
  /\ UNCHANGED <<closed, disposed, delivered, received, sent>>

(* recv(): the queue first, then the end of stream, then park. *)
Recv ==
  /\ loop = "ready"
  /\ loop' = "awaiting"
  /\ \/ /\ inbox # <<>>
        /\ settled' = Head(inbox)
        /\ inbox' = Tail(inbox)
        /\ UNCHANGED waiter
     \/ /\ inbox = <<>>
        /\ closed
        /\ settled' = Eof
        /\ UNCHANGED <<inbox, waiter>>
     \/ /\ inbox = <<>>
        /\ ~closed
        /\ waiter' = TRUE
        /\ UNCHANGED <<inbox, settled>>
  /\ UNCHANGED <<closed, disposed, delivered, received, sent>>

(* External: the protocol client's loop awaits recv() and stops at null. *)
Consume ==
  /\ loop = "awaiting"
  /\ settled # Unsettled
  /\ settled' = Unsettled
  /\ IF settled = Eof
     THEN loop' = "ended" /\ UNCHANGED received
     ELSE loop' = "ready" /\ received' = Append(received, settled)
  /\ UNCHANGED <<inbox, waiter, closed, disposed, delivered, sent>>

(* send(): throws once closed or disposed, and changes nothing then. *)
Send ==
  /\ sent < MaxSends
  /\ ~closed
  /\ ~disposed
  /\ sent' = sent + 1
  /\ UNCHANGED <<inbox, waiter, closed, disposed, loop, settled, delivered, received>>

(* close(): once; disposes the binding and wakes the parked recv(). *)
Close ==
  /\ ~closed
  /\ closed' = TRUE
  /\ disposed' = TRUE
  /\ Wake(Eof)
  /\ UNCHANGED <<loop, delivered, received, sent>>

TransportNext ==
  \/ \E f \in Frames : Deliver(f)
  \/ Recv
  \/ Consume
  \/ Send
  \/ Close

(* The receive loop runs whenever it can: it is a chain of microtasks. *)
TransportFairness == WF_transportVars(Recv) /\ WF_transportVars(Consume)

TransportSpec == TransportInit /\ [][TransportNext]_transportVars
TransportFairSpec == TransportSpec /\ TransportFairness
-----------------------------------------------------------------------------
TransportFlagsOK ==
  /\ waiter \in BOOLEAN
  /\ closed \in BOOLEAN
  /\ disposed \in BOOLEAN

DataOK ==
  /\ inbox \in Seq(Frames)
  /\ loop \in {"ready", "awaiting", "ended"}
  /\ settled \in Frames \cup {Eof, Unsettled}
  /\ delivered \in Seq(Frames)
  /\ received \in Seq(Frames)
  /\ sent \in Nat

(* Every variable keeps its type. *)
TransportTypeOK == TransportFlagsOK /\ DataOK

(* Frames on their way: settled but not consumed, then queued. *)
InFlight == IF settled \in Frames THEN <<settled>> \o inbox ELSE inbox

(* No frame the binding delivered while the transport was open is lost,    *)
(* duplicated or reordered, wherever it waits (inbox, parked recv(),       *)
(* receive loop): ahpTransport.ts `wake` and `recv`.                       *)
ExactlyOnceInOrder == delivered = received \o InFlight

(* A recv() that has not settled is the one parked waiter, and it is only  *)
(* ever parked with nothing to hand it: neither a frame nor the end of the *)
(* stream can be sitting there while the loop sleeps.                      *)
NoLostWakeup ==
  /\ waiter <=> (loop = "awaiting" /\ settled = Unsettled)
  /\ waiter => (inbox = <<>> /\ ~closed)

(* The receive loop ends only after a close, and after draining everything *)
(* delivered before it.                                                    *)
DrainedBeforeEnd == (loop = "ended") => (closed /\ received = delivered)

(* The receive loop takes every delivered frame. *)
EveryFrameReceived ==
  \A n \in 1..MaxFrames : (Len(delivered) >= n) ~> (Len(received) >= n)

(* The transport implements the abstract channel. *)
Channel == INSTANCE FrameChannel
             WITH chan <- InFlight, open <- ~closed, out <- received,
                  ended <- (loop = "ended")
ImplementsChannel == Channel!Spec
=============================================================================

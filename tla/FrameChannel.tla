---------------------------- MODULE FrameChannel ----------------------------
(***************************************************************************)
(* What the transport promises its only consumer, the protocol client's    *)
(* receive loop: one FIFO channel of frames that can be shut once.  Frames *)
(* put before the shutdown are all taken, in order, exactly once; only     *)
(* then does the consumer see the end of the stream.                       *)
(***************************************************************************)
EXTENDS Sequences

CONSTANT Frames

VARIABLES chan,   \* frames accepted and not yet taken
          open,   \* the channel still accepts frames
          out,    \* frames the consumer has taken
          ended   \* the consumer has seen the end of the stream

cvars == <<chan, open, out, ended>>

Init == /\ chan = <<>>
        /\ open = TRUE
        /\ out = <<>>
        /\ ended = FALSE

Put(f) == /\ open
          /\ chan' = Append(chan, f)
          /\ UNCHANGED <<open, out, ended>>

Take == /\ chan # <<>>
        /\ out' = Append(out, Head(chan))
        /\ chan' = Tail(chan)
        /\ UNCHANGED <<open, ended>>

Shut == /\ open
        /\ open' = FALSE
        /\ UNCHANGED <<chan, out, ended>>

End == /\ ~open
       /\ chan = <<>>
       /\ ended' = TRUE
       /\ UNCHANGED <<chan, open, out>>

Next == \/ \E f \in Frames : Put(f)
        \/ Take
        \/ Shut
        \/ End

Spec == Init /\ [][Next]_cvars
=============================================================================

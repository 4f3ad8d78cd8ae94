-------------------------- MODULE TutorToolsProofs --------------------------
(***************************************************************************)
(* The Code Tutor's tools: how they reach every session, and where a call  *)
(* of one places its nodes.                                                *)
(*                                                                         *)
(* ToolContribution, for every set of sessions and every bound: once       *)
(* nothing is under way, a session the client knows carries the tools in   *)
(* its current life.  A register edge may be swallowed by the slot of an   *)
(* earlier send.  That is harmless if the send still waits.  If it is out  *)
(* already, it either served this life of the session, or this life's      *)
(* `added` event has not arrived yet: frames arrive only when the          *)
(* microtasks have drained, and a send that is out is one of them.         *)
(*                                                                         *)
(* SymbolResolution, for every document and every block: a path meets what *)
(* it means and nothing else; a wedged server costs a block no more than   *)
(* four timeouts a level; and a refresh of unchanged code finds again what *)
(* the call found.  The invariant says of a node how long it may have      *)
(* waited, by its level and by the stage of the lookup it awaits, and of a *)
(* location that its own document answers its own path with it alone.      *)
(***************************************************************************)
EXTENDS ToolContribution, SymbolResolution, RecursionProofs, FiniteSetTheorems

-----------------------------------------------------------------------------
(* The contribution of the tools.                                          *)


Added(s) == [kind |-> "added", s |-> s]
Waiting(s) == [s |-> s, st |-> "waiting"]
Out(s) == [s |-> s, st |-> "dispatched"]

(* Behind the first n events of w there is one that adds s. *)
Ahead(w, n, s) == \E i \in (n + 1)..Len(w) : w[i] = Added(s)

Positive(B) == \A e \in DOMAIN B : B[e] \in Nat \ {0}

WireOK ==
  /\ live \subseteq Sessions /\ rows \subseteq Sessions
  /\ wire \in Seq(Event)
  /\ arrived \in 0..Len(wire)
  /\ Positive(sends)

(* Nobody listens and nothing is sent before the client is ready. *)
StageOK ==
  stage # "ready" =>
    /\ service \in {"absent", "installed"}
    /\ \A s \in Sessions : Out(s) \notin DOMAIN sends

(* A slot is held for a send. *)
SlotOK == \A s \in inFlight : Waiting(s) \in DOMAIN sends \/ Out(s) \in DOMAIN sends

(* A send that is out, of a session without the tools, is of an earlier    *)
(* life: the event of this one has not arrived.                            *)
EarlierOK ==
  \A s \in live \ contributed : Out(s) \in DOMAIN sends => Ahead(wire, arrived, s)

(* A known session without the tools has a send that waits, or an event    *)
(* that will make one.                                                     *)
KnownOK ==
  HasWorkspace /\ service = "replayed" =>
    \A s \in (rows \cap live) \ contributed :
      Waiting(s) \in DOMAIN sends \/ Ahead(wire, 0, s)

IInv == WireOK /\ StageOK /\ SlotOK /\ EarlierOK /\ KnownOK
-----------------------------------------------------------------------------
(* Events.                                                                 *)

(* An event told behind the others leaves them where they are. *)
LEMMA AppendKeeps ==
  ASSUME NEW w \in Seq(Event), NEW e \in Event, NEW n \in Nat, NEW s, Ahead(w, n, s)
  PROVE  Ahead(Append(w, e), n, s)
<1>1. PICK i \in (n + 1)..Len(w) : w[i] = Added(s)
  BY DEF Ahead
<1>2. /\ Len(Append(w, e)) = Len(w) + 1
      /\ Append(w, e)[i] = w[i]
  BY <1>1
<1>3. i \in (n + 1)..Len(Append(w, e))
  BY <1>1, <1>2
<1>4. QED
  BY <1>1, <1>2, <1>3 DEF Ahead

(* An event told now has not arrived. *)
LEMMA AppendAdds ==
  ASSUME NEW w \in Seq(Event), NEW s \in Sessions, NEW n \in 0..Len(w)
  PROVE  Ahead(Append(w, Added(s)), n, s)
<1>1. /\ Len(w) \in Nat
      /\ Len(Append(w, Added(s))) = Len(w) + 1
      /\ Append(w, Added(s))[Len(w) + 1] = Added(s)
  OBVIOUS
<1>2. Len(w) + 1 \in (n + 1)..Len(Append(w, Added(s)))
  BY <1>1
<1>3. QED
  BY <1>1, <1>2 DEF Ahead

(* Taking the first event moves the others up. *)
LEMMA TailKeeps ==
  ASSUME NEW w \in Seq(Event), NEW n \in Nat, w # <<>>, n > 0, NEW s, Ahead(w, n, s)
  PROVE  Ahead(Tail(w), n - 1, s)
<1>1. PICK i \in (n + 1)..Len(w) : w[i] = Added(s)
  BY DEF Ahead
<1>2. /\ Len(w) \in Nat
      /\ Len(Tail(w)) = Len(w) - 1
      /\ \A j \in 1..(Len(w) - 1) : Tail(w)[j] = w[j + 1]
  OBVIOUS
<1>3. /\ i - 1 \in 1..(Len(w) - 1)
      /\ i - 1 \in ((n - 1) + 1)..Len(Tail(w))
      /\ (i - 1) + 1 = i
  BY <1>1, <1>2
<1>4. Tail(w)[i - 1] = Added(s)
  BY <1>1, <1>2, <1>3
<1>5. QED
  BY <1>3, <1>4 DEF Ahead

(* An event that is not the first is behind it. *)
LEMMA HeadOrBehind ==
  ASSUME NEW w \in Seq(Event), w # <<>>, NEW s, Ahead(w, 0, s), Head(w) # Added(s)
  PROVE  Ahead(w, 1, s)
<1>1. PICK i \in 1..Len(w) : w[i] = Added(s)
  BY DEF Ahead
<1>2. i # 1
  BY <1>1
<1>3. QED
  BY <1>1, <1>2 DEF Ahead

(* What is ahead of more events is ahead of fewer. *)
LEMMA AheadOfFewer ==
  ASSUME NEW w \in Seq(Event), NEW m \in Nat, NEW n \in Nat, m =< n, NEW s, Ahead(w, n, s)
  PROVE  Ahead(w, m, s)
BY DEF Ahead
-----------------------------------------------------------------------------
(* Sends.                                                                  *)

(* registerSession adds waiting sends for the sessions that hold no slot.  *)
LEMMA RegisterData ==
  ASSUME NEW ss \in SUBSET Sessions, Register(ss), Positive(sends), SlotOK
  PROVE  /\ Positive(sends')
         /\ DOMAIN sends \subseteq DOMAIN sends'
         /\ \A s \in Sessions : Out(s) \in DOMAIN sends' => Out(s) \in DOMAIN sends
         /\ SlotOK'
         /\ HasWorkspace => \A s \in ss \ inFlight : Waiting(s) \in DOMAIN sends'
<1> DEFINE fresh == IF HasWorkspace THEN ss \ inFlight ELSE {}
           new == {[s |-> s, st |-> "waiting"] : s \in fresh}
<1>1. inFlight' = inFlight \cup fresh /\ sends' = sends (+) SetToBag(new)
  BY DEF Register
<1>2. /\ DOMAIN sends' = DOMAIN sends \cup new
      /\ \A e \in DOMAIN sends' : sends'[e] = (IF e \in DOMAIN sends THEN sends[e] ELSE 0)
                                               + (IF e \in new THEN 1 ELSE 0)
  BY <1>1 DEF (+), SetToBag
<1>3. Positive(sends')
  BY <1>2 DEF Positive
<1>4. \A s : Waiting(s) \in new <=> s \in fresh
  BY DEF Waiting
<1>5. \A s : Out(s) \notin new
  BY DEF Out
<1>6. SlotOK'
  BY <1>1, <1>2, <1>4 DEF SlotOK
<1>7. QED
  BY <1>2, <1>3, <1>4, <1>5, <1>6

(* A send that settles or goes out leaves the others. *)
LEMMA RemoveData ==
  ASSUME NEW B, Positive(B), NEW x, NEW C, C = B (-) SetToBag({x})
  PROVE  /\ Positive(C)
         /\ DOMAIN C \subseteq DOMAIN B
         /\ \A e \in DOMAIN B : e # x => e \in DOMAIN C
<1> DEFINE D == [e \in DOMAIN B |-> IF e \in {x} THEN B[e] - 1 ELSE B[e]]
<1>1. C = [e \in {d \in DOMAIN D : D[d] > 0} |-> D[e]]
  BY DEF (-), SetToBag
<1>2. \A e \in DOMAIN B : D[e] \in Nat /\ (e # x => D[e] > 0)
  BY DEF Positive
<1> HIDE DEF D
<1>3. DOMAIN D = DOMAIN B
  BY DEF D
<1>4. QED
  BY <1>1, <1>2, <1>3 DEF Positive
-----------------------------------------------------------------------------
(* Steps.                                                                  *)

(* The agent host's event joins the wire, or nobody is connected.          *)
LEMMA TellData ==
  ASSUME WireOK, NEW k \in {"added", "removed", "listed"}, NEW s \in Sessions, Tell(k, s)
  PROVE  /\ wire' \in Seq(Event) /\ arrived \in 0..Len(wire')
         /\ \A n \in Nat : \A r : Ahead(wire, n, r) => Ahead(wire', n, r)
         /\ k = "added" /\ stage # "connecting" =>
              Ahead(wire', arrived, s) /\ Ahead(wire', 0, s)
<1> DEFINE e == [kind |-> k, s |-> s]
<1>1. e \in Event
  BY DEF Event
<1>2. CASE stage = "connecting"
  BY <1>2 DEF Tell, WireOK
<1>3. CASE stage # "connecting"
  <2>1. wire' = Append(wire, e)
    BY <1>3 DEF Tell
  <2>2. wire' \in Seq(Event) /\ Len(wire') = Len(wire) + 1 /\ arrived \in 0..Len(wire')
    BY <2>1, <1>1 DEF WireOK
  <2>3. \A n \in Nat : \A r : Ahead(wire, n, r) => Ahead(wire', n, r)
    BY <2>1, <1>1, AppendKeeps DEF WireOK
  <2>4. k = "added" => Ahead(wire', arrived, s)
    BY <2>1, AppendAdds DEF Added, WireOK
  <2>5. k = "added" => Ahead(wire', 0, s)
    BY <2>2, <2>4, AheadOfFewer DEF WireOK
  <2>6. QED
    BY <2>2, <2>3, <2>4, <2>5
<1>4. QED
  BY <1>2, <1>3

(* The agent host's moves. *)
LEMMA HostStep ==
  ASSUME IInv, NEW s \in Sessions, HostCreates(s) \/ HostDisposes(s) \/ HostLists(s)
  PROVE  IInv'
<1>0. /\ UNCHANGED <<arrived, stage, rows, service, inFlight, sends>>
      /\ WireOK
  BY DEF HostCreates, HostDisposes, HostLists, IInv
<1>1. PICK k \in {"added", "removed", "listed"} : Tell(k, s)
  BY DEF HostCreates, HostDisposes, HostLists
<1>2. /\ wire' \in Seq(Event) /\ arrived \in 0..Len(wire')
      /\ \A n \in Nat : \A r : Ahead(wire, n, r) => Ahead(wire', n, r)
  BY <1>0, <1>1, TellData
<1>3. live' \subseteq Sessions
  BY DEF HostCreates, HostDisposes, HostLists, IInv, WireOK
<1>4. WireOK'
  BY <1>0, <1>2, <1>3 DEF WireOK
<1>5. StageOK' /\ SlotOK'
  BY <1>0 DEF IInv, StageOK, SlotOK
<1>6. ASSUME NEW r \in live' \ contributed'
      PROVE  \/ r \in live \ contributed
             \/ r = s /\ (stage # "connecting" =>
                            Ahead(wire', arrived, s) /\ Ahead(wire', 0, s))
  <2>1. CASE HostCreates(s)
    <3>1. Tell("added", s) /\ live' = live \cup {s} /\ contributed' = contributed
      BY <2>1 DEF HostCreates
    <3>2. stage # "connecting" => Ahead(wire', arrived, s) /\ Ahead(wire', 0, s)
      BY <3>1, <1>0, TellData
    <3>3. QED
      BY <3>1, <3>2
  <2>2. CASE HostDisposes(s) \/ HostLists(s)
    BY <2>2 DEF HostDisposes, HostLists
  <2>3. QED
    BY <2>1, <2>2
<1>7. EarlierOK'
  <2> SUFFICES ASSUME NEW r \in live' \ contributed', Out(r) \in DOMAIN sends'
               PROVE  Ahead(wire', arrived', r)
    BY DEF EarlierOK
  <2>1. CASE r \in live \ contributed
    BY <2>1, <1>0, <1>2 DEF IInv, EarlierOK, WireOK
  <2>2. CASE r = s /\ r \notin live \ contributed
    <3>1. stage = "ready"
      BY <1>0, <2>2 DEF IInv, StageOK
    <3>2. QED
      BY <3>1, <2>2, <1>0, <1>6
  <2>3. QED
    BY <2>1, <2>2, <1>6
<1>8. KnownOK'
  <2> SUFFICES ASSUME HasWorkspace, service' = "replayed",
                      NEW r \in (rows' \cap live') \ contributed'
               PROVE  Waiting(r) \in DOMAIN sends' \/ Ahead(wire', 0, r)
    BY DEF KnownOK
  <2>1. stage = "ready"
    BY <1>0 DEF IInv, StageOK
  <2>2. CASE r \in live \ contributed
    BY <2>2, <1>0, <1>2 DEF IInv, KnownOK
  <2>3. CASE r = s /\ r \notin live \ contributed
    BY <2>3, <2>1, <1>6
  <2>4. QED
    BY <2>2, <2>3, <1>6
<1>9. QED
  BY <1>4, <1>5, <1>7, <1>8 DEF IInv

(* Frames arrive when no send is out. *)
LEMMA ArriveStep ==
  ASSUME IInv, FramesArrive
  PROVE  IInv'
<1>1. /\ UNCHANGED <<hostVars, wire, stage, rows, service, inFlight, sends>>
      /\ arrived' \in (arrived + 1)..Len(wire)
  BY DEF FramesArrive
<1>2. \A s \in Sessions : Out(s) \notin DOMAIN sends
  <2>1. CASE stage = "ready"
    <3>1. sends = EmptyBag
      BY <2>1 DEF FramesArrive, MicrotasksDrained
    <3>2. QED
      BY <3>1 DEF EmptyBag, SetToBag
  <2>2. QED
    BY <2>1 DEF IInv, StageOK
<1>3. EarlierOK'
  BY <1>1, <1>2 DEF IInv, EarlierOK, WireOK, hostVars
<1>4. WireOK'
  BY <1>1 DEF IInv, WireOK, hostVars
<1>5. QED
  BY <1>1, <1>3, <1>4 DEF IInv, StageOK, SlotOK, KnownOK, hostVars

(* A registration leaves EarlierOK, and what KnownOK says of any session   *)
(* it is not for.                                                          *)
LEMMA RegisterKeeps ==
  ASSUME IInv, NEW ss \in SUBSET Sessions, Register(ss)
  PROVE  /\ Positive(sends') /\ SlotOK'
         /\ \A s \in Sessions : Waiting(s) \in DOMAIN sends => Waiting(s) \in DOMAIN sends'
         /\ \A s \in Sessions : Out(s) \in DOMAIN sends' => Out(s) \in DOMAIN sends
         /\ HasWorkspace => \A s \in (ss \cap live) \ contributed :
                               Waiting(s) \in DOMAIN sends' \/ Ahead(wire, arrived, s)
<1>1. Positive(sends) /\ SlotOK /\ EarlierOK
  BY DEF IInv, WireOK
<1>2. /\ Positive(sends') /\ SlotOK'
      /\ DOMAIN sends \subseteq DOMAIN sends'
      /\ \A s \in Sessions : Out(s) \in DOMAIN sends' => Out(s) \in DOMAIN sends
      /\ HasWorkspace => \A s \in ss \ inFlight : Waiting(s) \in DOMAIN sends'
  BY <1>1, RegisterData
<1>3. ASSUME HasWorkspace, NEW s \in (ss \cap live) \ contributed, s \in inFlight
      PROVE  Waiting(s) \in DOMAIN sends' \/ Ahead(wire, arrived, s)
  BY <1>1, <1>2, <1>3 DEF SlotOK, EarlierOK
<1>4. QED
  BY <1>2, <1>3

(* Claims, and the replay of the rows there are. *)
LEMMA RegisterStep ==
  ASSUME IInv, ReplayReady \/ \E s \in Sessions : Claim(s)
  PROVE  IInv'
<1>1. UNCHANGED <<hostVars, wire, arrived, stage, rows>>
  BY DEF ReplayReady, Claim
<1>2. CASE ReplayReady
  <2>1. Register(rows) /\ service = "subscribed" /\ service' = "replayed"
    BY <1>2 DEF ReplayReady
  <2>2. rows \in SUBSET Sessions /\ wire \in Seq(Event) /\ arrived \in Nat
    BY DEF IInv, WireOK
  <2>3. /\ Positive(sends') /\ SlotOK'
        /\ \A s \in Sessions : Out(s) \in DOMAIN sends' => Out(s) \in DOMAIN sends
        /\ HasWorkspace => \A s \in (rows \cap live) \ contributed :
                              Waiting(s) \in DOMAIN sends' \/ Ahead(wire, arrived, s)
    BY <2>1, <2>2, RegisterKeeps
  <2>4. KnownOK'
    BY <2>2, <2>3, <1>1, AheadOfFewer DEF KnownOK, hostVars
  <2>5. StageOK'
    BY <2>1, <1>1 DEF IInv, StageOK
  <2>6. QED
    BY <2>3, <2>4, <2>5, <1>1 DEF IInv, WireOK, EarlierOK, hostVars
<1>3. ASSUME NEW s \in Sessions, Claim(s)
      PROVE  IInv'
  <2>1. service' = service
    BY <1>3 DEF Claim
  <2>2. CASE service = "absent"
    BY <2>1, <2>2, <1>1, <1>3
       DEF Claim, IInv, WireOK, StageOK, SlotOK, EarlierOK, KnownOK, hostVars
  <2>3. CASE service # "absent"
    <3>1. Register({s})
      BY <2>3, <1>3 DEF Claim
    <3>2. /\ Positive(sends') /\ SlotOK'
          /\ \A r \in Sessions : Waiting(r) \in DOMAIN sends => Waiting(r) \in DOMAIN sends'
          /\ \A r \in Sessions : Out(r) \in DOMAIN sends' => Out(r) \in DOMAIN sends
      BY <3>1, RegisterKeeps
    <3>3. QED
      BY <3>2, <2>1, <1>1
         DEF IInv, WireOK, StageOK, EarlierOK, KnownOK, hostVars
  <2>4. QED
    BY <2>2, <2>3
<1>4. QED
  BY <1>2, <1>3

(* An event is folded, and told to the registrar if it listens.            *)
LEMMA FoldStep ==
  ASSUME IInv, FoldEvent
  PROVE  IInv'
<1> DEFINE e == Head(wire)
<1>1. /\ UNCHANGED <<hostVars, stage, service>>
      /\ arrived > 0 /\ arrived' = arrived - 1
      /\ wire' = Tail(wire)
      /\ arrived \in Nat /\ wire \in Seq(Event) /\ wire # <<>>
  BY DEF FoldEvent, IInv, WireOK
<1>2. /\ e \in Event /\ e.s \in Sessions
      /\ wire' \in Seq(Event) /\ arrived' \in 0..Len(wire')
  <2>1. e \in Event /\ Tail(wire) \in Seq(Event) /\ Len(Tail(wire)) = Len(wire) - 1
    BY <1>1
  <2>2. e.s \in Sessions
    BY <2>1 DEF Event
  <2>3. arrived \in 0..Len(wire) /\ Len(wire) \in Nat
    BY <1>1 DEF IInv, WireOK
  <2>4. arrived - 1 \in 0..(Len(wire) - 1)
    BY <1>1, <2>3
  <2>5. QED
    BY <1>1, <2>1, <2>2, <2>4
<1>3. \A n \in Nat : \A s : n > 0 /\ Ahead(wire, n, s) => Ahead(wire', n - 1, s)
  BY <1>1, TailKeeps
<1>4. \A s : Ahead(wire, arrived, s) => Ahead(wire', arrived', s) /\ Ahead(wire', 0, s)
  <2> SUFFICES ASSUME NEW s, Ahead(wire, arrived, s)
               PROVE  Ahead(wire', arrived', s) /\ Ahead(wire', 0, s)
    OBVIOUS
  <2>1. Ahead(wire', arrived', s)
    BY <1>1, <1>3
  <2>2. arrived' \in Nat
    BY <1>1
  <2>3. QED
    BY <2>1, <2>2, <1>2, AheadOfFewer
<1>5. ASSUME NEW s, Ahead(wire, 0, s), e # Added(s)
      PROVE  Ahead(wire', 0, s)
  <2>1. Ahead(wire, 1, s)
    BY <1>1, <1>5, HeadOrBehind
  <2>2. Ahead(wire', 1 - 1, s)
    BY <2>1, <1>3
  <2>3. QED
    BY <2>2
<1>6. /\ rows' \subseteq Sessions
      /\ \/ UNCHANGED <<inFlight, sends>>
         \/ Register({e.s})
         \/ FreeSlot(e.s)
  BY <1>2 DEF FoldEvent, IInv, WireOK
<1>7. /\ Positive(sends') /\ SlotOK'
      /\ \A s \in Sessions : Waiting(s) \in DOMAIN sends => Waiting(s) \in DOMAIN sends'
      /\ \A s \in Sessions : Out(s) \in DOMAIN sends' => Out(s) \in DOMAIN sends
  <2>1. CASE Register({e.s})
    BY <2>1, <1>2, RegisterKeeps
  <2>2. CASE UNCHANGED <<inFlight, sends>>
    BY <2>2 DEF IInv, WireOK, SlotOK
  <2>3. CASE FreeSlot(e.s)
    BY <2>3 DEF FreeSlot, IInv, WireOK, SlotOK
  <2>4. QED
    BY <2>1, <2>2, <2>3, <1>6
<1>8. WireOK'
  BY <1>1, <1>2, <1>6, <1>7 DEF IInv, WireOK, hostVars
<1>9. StageOK'
  BY <1>1, <1>7 DEF IInv, StageOK
<1>10. EarlierOK'
  BY <1>1, <1>4, <1>7 DEF IInv, WireOK, EarlierOK, hostVars
<1>11. KnownOK'
  <2> SUFFICES ASSUME HasWorkspace, service' = "replayed",
                      NEW s \in (rows' \cap live') \ contributed'
               PROVE  Waiting(s) \in DOMAIN sends' \/ Ahead(wire', 0, s)
    BY DEF KnownOK
  <2>1. /\ Listening /\ service = "replayed"
        /\ s \in Sessions /\ s \in live \ contributed
    BY <1>1, <1>6 DEF Listening, hostVars
  <2>2. CASE e.s = s /\ Register({e.s})
    <3>1. Waiting(s) \in DOMAIN sends' \/ Ahead(wire, arrived, s)
      BY <2>1, <2>2, RegisterKeeps
    <3>2. QED
      BY <3>1, <1>4
  <2>3. CASE s \in rows /\ e # Added(s)
    <3>1. Waiting(s) \in DOMAIN sends \/ Ahead(wire, 0, s)
      BY <2>1, <2>3 DEF IInv, KnownOK
    <3>2. QED
      BY <3>1, <2>1, <2>3, <1>5, <1>7
  <2>4. CASE e = Added(s)
    BY <2>1, <2>2, <2>4 DEF FoldEvent, Added
  <2>5. CASE s \notin rows
    BY <2>1, <2>2, <2>5 DEF FoldEvent
  <2>6. QED
    BY <2>3, <2>4, <2>5
<1>12. QED
  BY <1>7, <1>8, <1>9, <1>10, <1>11 DEF IInv

(* A send goes out: the host takes it, or the session is gone.             *)
LEMMA DispatchStep ==
  ASSUME IInv, NEW s \in Sessions, Dispatch(s)
  PROVE  IInv'
<1> DEFINE B == sends (-) SetToBag({Waiting(s)})
<1>1. /\ UNCHANGED <<live, wire, arrived, stage, rows, service, inFlight>>
      /\ stage = "ready"
      /\ contributed' = IF s \in live THEN contributed \cup {s} ELSE contributed
      /\ sends' = B (+) SetToBag({Out(s)})
  BY DEF Dispatch, Waiting, Out
<1>2. /\ Positive(B)
      /\ DOMAIN B \subseteq DOMAIN sends
      /\ \A x \in DOMAIN sends : x # Waiting(s) => x \in DOMAIN B
  <2>1. Positive(sends)
    BY DEF IInv, WireOK
  <2>2. QED
    BY <2>1, RemoveData
<1> HIDE DEF B
<1>3. /\ DOMAIN sends' = DOMAIN B \cup {Out(s)}
      /\ Positive(sends')
  BY <1>1, <1>2 DEF (+), SetToBag, Positive
<1>4. \A r : /\ Waiting(r) # Out(s)
             /\ r # s => Waiting(r) # Waiting(s) /\ Out(r) # Out(s)
             /\ Out(r) # Waiting(s)
  BY DEF Waiting, Out
<1>5. ASSUME NEW r \in Sessions, r # s
      PROVE  /\ Waiting(r) \in DOMAIN sends => Waiting(r) \in DOMAIN sends'
             /\ Out(r) \in DOMAIN sends <=> Out(r) \in DOMAIN sends'
  BY <1>2, <1>3, <1>4, <1>5
<1>6. SlotOK'
  BY <1>1, <1>2, <1>3, <1>4 DEF IInv, SlotOK
<1>7. ASSUME NEW r \in live' \ contributed'
      PROVE  r # s /\ r \in live \ contributed /\ r \in Sessions
  BY <1>1, <1>7 DEF IInv, WireOK
<1>8. EarlierOK'
  BY <1>1, <1>5, <1>7 DEF IInv, EarlierOK
<1>9. KnownOK'
  BY <1>1, <1>5, <1>7 DEF IInv, KnownOK
<1>10. QED
  BY <1>1, <1>3, <1>6, <1>8, <1>9 DEF IInv, WireOK, StageOK

(* A send settles and frees the slot of its session.                       *)
LEMMA SettleStep ==
  ASSUME IInv, NEW s \in Sessions, Settle(s)
  PROVE  IInv'
<1> DEFINE B == sends (-) SetToBag({Out(s)})
<1>1. /\ UNCHANGED <<hostVars, wire, arrived, stage, rows, service>>
      /\ inFlight' = inFlight \ {s}
      /\ sends' = B
  BY DEF Settle, Out
<1>2. /\ Positive(B)
      /\ DOMAIN B \subseteq DOMAIN sends
      /\ \A x \in DOMAIN sends : x # Out(s) => x \in DOMAIN B
  <2>1. Positive(sends)
    BY DEF IInv, WireOK
  <2>2. QED
    BY <2>1, RemoveData
<1> HIDE DEF B
<1>3. \A r : Waiting(r) # Out(s) /\ (r # s => Out(r) # Out(s))
  BY DEF Waiting, Out
<1>4. SlotOK'
  BY <1>1, <1>2, <1>3 DEF IInv, SlotOK
<1>5. QED
  BY <1>1, <1>2, <1>3, <1>4
     DEF IInv, WireOK, StageOK, EarlierOK, KnownOK, hostVars

(* The handshake, and the service before it has replayed.                  *)
LEMMA StageStep ==
  ASSUME IInv, StartPumping \/ BecomeReady \/ InstallService \/ SubscribeLate
  PROVE  IInv'
<1>1. UNCHANGED <<hostVars, wire, arrived, rows, inFlight, sends>>
  BY DEF StartPumping, BecomeReady, InstallService, SubscribeLate
<1>2. StageOK' /\ (service' = "replayed" => service = "replayed")
  BY DEF StartPumping, BecomeReady, InstallService, SubscribeLate, IInv, StageOK
<1>3. QED
  BY <1>1, <1>2 DEF IInv, WireOK, SlotOK, EarlierOK, KnownOK, hostVars
-----------------------------------------------------------------------------
(* Nobody is connected and nothing is registered.                          *)
LEMMA InitIInv == Init => IInv
<1>1. DOMAIN EmptyBag = {}
  BY DEF EmptyBag, SetToBag
<1>2. QED
  BY <1>1, ContributionAssumption
     DEF Init, IInv, WireOK, StageOK, SlotOK, EarlierOK, KnownOK, Positive

(* Every step keeps the invariant.                                         *)
LEMMA NextStep == IInv /\ [Next]_vars => IInv'
<1> SUFFICES ASSUME IInv, [Next]_vars
             PROVE  IInv'
  OBVIOUS
<1>1. CASE \E s \in Sessions : HostCreates(s) \/ HostDisposes(s) \/ HostLists(s)
  BY <1>1, HostStep
<1>2. CASE StartPumping \/ BecomeReady \/ InstallService \/ SubscribeLate
  BY <1>2, StageStep
<1>3. CASE ReplayReady \/ \E s \in Sessions : Claim(s)
  BY <1>3, RegisterStep
<1>4. CASE FramesArrive
  BY <1>4, ArriveStep
<1>5. CASE FoldEvent
  BY <1>5, FoldStep
<1>6. CASE \E s \in Sessions : Dispatch(s) \/ Settle(s)
  BY <1>6, DispatchStep, SettleStep
<1>7. CASE UNCHANGED vars
  BY <1>7 DEF vars, hostVars, IInv, WireOK, StageOK, SlotOK, EarlierOK, KnownOK
<1>8. QED
  BY <1>1, <1>2, <1>3, <1>4, <1>5, <1>6, <1>7 DEF Next

(* The invariant holds throughout.                                         *)
THEOREM Invariance == Spec => []IInv
BY InitIInv, NextStep, PTL DEF Spec

(* Once the replay is over and nothing is under way, every session the     *)
(* client knows carries the tools in its current life, for every number of *)
(* sessions, moves and claims (registration.ts replayReady, the event      *)
(* handler; sessionRegistrar.ts registerSession).                          *)
THEOREM ContributedCorrect == Spec => []KnownSessionsContributed
<1>1. IInv => KnownSessionsContributed
  <2>1. DOMAIN EmptyBag = {}
    BY DEF EmptyBag, SetToBag
  <2>2. \A s : ~Ahead(<<>>, 0, s)
    BY DEF Ahead
  <2>3. QED
    BY <2>1, <2>2 DEF IInv, KnownOK, KnownSessionsContributed, Quiet
<1>2. QED
  BY <1>1, Invariance, PTL

-----------------------------------------------------------------------------
(* Sequences as the sets of their elements. *)

LEMMA InSeq ==
  ASSUME NEW V, NEW q \in Seq(V)
  PROVE  ToSet(q) \subseteq V /\ q \in Seq(ToSet(q)) /\ ToSet(q) = {q[i] : i \in 1..Len(q)}
<1>1. Len(q) \in Nat /\ DOMAIN q = 1..Len(q) /\ q \in [1..Len(q) -> V]
  BY LenProperties
<1>2. q \in [1..Len(q) -> ToSet(q)]
  BY <1>1 DEF ToSet
<1>3. ToSet(q) = {q[i] : i \in 1..Len(q)}
  BY <1>1, Zenon DEF ToSet
<1>4. ToSet(q) \subseteq V
  BY <1>1, <1>3
<1>5. q \in Seq(ToSet(q))
  BY <1>1, <1>2
<1>6. QED
  BY <1>3, <1>4, <1>5

LEMMA InAppend ==
  ASSUME NEW V, NEW q \in Seq(V), NEW e \in V
  PROVE  Append(q, e) \in Seq(V) /\ ToSet(Append(q, e)) = ToSet(q) \cup {e}
<1>1. /\ Append(q, e) \in Seq(V) /\ Len(q) \in Nat /\ DOMAIN q = 1..Len(q)
      /\ DOMAIN Append(q, e) = 1..(Len(q) + 1)
      /\ \A i \in 1..Len(q) : Append(q, e)[i] = q[i]
      /\ Append(q, e)[Len(q) + 1] = e
  BY AppendProperties, LenProperties
<1>2. 1..(Len(q) + 1) = 1..Len(q) \cup {Len(q) + 1}
  BY <1>1
<1>3. ToSet(Append(q, e)) = {Append(q, e)[i] : i \in 1..Len(q)} \cup {Append(q, e)[Len(q) + 1]}
  BY <1>1, <1>2, Zenon DEF ToSet
<1>4. {Append(q, e)[i] : i \in 1..Len(q)} = ToSet(q)
  BY <1>1 DEF ToSet
<1>5. QED
  BY <1>1, <1>3, <1>4

LEMMA InConcat ==
  ASSUME NEW V, NEW q \in Seq(V), NEW r \in Seq(V)
  PROVE  q \o r \in Seq(V) /\ ToSet(q \o r) = ToSet(q) \cup ToSet(r)
<1> DEFINE c == q \o r
<1>1. /\ c \in Seq(V) /\ Len(q) \in Nat /\ Len(r) \in Nat
      /\ DOMAIN q = 1..Len(q) /\ DOMAIN r = 1..Len(r)
      /\ DOMAIN c = 1..(Len(q) + Len(r))
      /\ \A i \in 1..(Len(q) + Len(r)) : c[i] = IF i <= Len(q) THEN q[i] ELSE r[i - Len(q)]
  BY ConcatProperties, LenProperties
<1> HIDE DEF c
<1>2. ASSUME NEW i \in DOMAIN c
      PROVE  c[i] \in ToSet(q) \cup ToSet(r)
  <2>1. CASE i <= Len(q)
    BY <1>1, <2>1 DEF ToSet
  <2>2. CASE i > Len(q)
    <3>1. i - Len(q) \in DOMAIN r /\ c[i] = r[i - Len(q)]
      BY <1>1, <2>2
    <3>2. QED
      BY <3>1 DEF ToSet
  <2>3. QED
    BY <1>1, <2>1, <2>2
<1>3. ASSUME NEW i \in DOMAIN q
      PROVE  q[i] \in ToSet(c)
  BY <1>1 DEF ToSet
<1>4. ASSUME NEW i \in DOMAIN r
      PROVE  r[i] \in ToSet(c)
  <2>1. Len(q) + i \in DOMAIN c /\ c[Len(q) + i] = r[i]
    BY <1>1
  <2>2. QED
    BY <2>1 DEF ToSet
<1>5. ToSet(c) \subseteq ToSet(q) \cup ToSet(r)
  BY <1>2 DEF ToSet
<1>6. ToSet(q) \subseteq ToSet(c) /\ ToSet(r) \subseteq ToSet(c)
  BY <1>3, <1>4 DEF ToSet
<1>7. QED
  BY <1>1, <1>5, <1>6 DEF c

(* A filter returns the entries at the places given. *)
LEMMA FilterElements ==
  ASSUME NEW V, NEW seq \in Seq(V), NEW places
  PROVE  ToSet(EntriesAt(seq, places)) = {seq[i] : i \in places \cap 1..Len(seq)}
<1>1. PICK f : Filtering(f, V, seq, places)
  BY FilterSteps
<1> DEFINE N == Len(seq)
           T == {n \in 0..N : ToSet(f[n]) = {seq[i] : i \in places \cap 1..n}}
<1>2. /\ N \in Nat /\ f \in [0..N -> Seq(V)] /\ f[0] = <<>> /\ EntriesAt(seq, places) = f[N]
      /\ \A i \in 1..N : f[i] = IF i \in places THEN Append(f[i - 1], seq[i]) ELSE f[i - 1]
      /\ seq \in [1..N -> V]
  BY <1>1, LenProperties DEF Filtering
<1> HIDE DEF N
<1>3. 0 \in T
  BY <1>2 DEF ToSet
<1>4. ASSUME NEW n \in 0..N, n \in T, n + 1 <= N
      PROVE  n + 1 \in T
  <2>1. n + 1 \in 1..N /\ n + 1 \in 0..N /\ f[n] \in Seq(V) /\ seq[n + 1] \in V
    BY <1>2, <1>4
  <2>2. places \cap 1..(n + 1)
          = (places \cap 1..n) \cup (IF n + 1 \in places THEN {n + 1} ELSE {})
    OBVIOUS
  <2>3. CASE n + 1 \in places
    <3>1. f[n + 1] = Append(f[n], seq[n + 1])
      <4>1. f[n + 1] = IF n + 1 \in places THEN Append(f[(n + 1) - 1], seq[n + 1])
                       ELSE f[(n + 1) - 1]
        BY <1>2, <2>1, Zenon
      <4>2. (n + 1) - 1 = n
        OBVIOUS
      <4>3. QED
        BY <2>3, <4>1, <4>2, Zenon
    <3>2. ToSet(f[n + 1]) = ToSet(f[n]) \cup {seq[n + 1]}
      BY <2>1, <3>1, InAppend
    <3>3. QED
      BY <1>4, <2>1, <2>2, <2>3, <3>2
  <2>4. CASE n + 1 \notin places
    BY <1>2, <1>4, <2>1, <2>2, <2>4
  <2>5. QED
    BY <2>3, <2>4
<1>5. N \in T
  <2> HIDE DEF T
  <2>1. 0..N \subseteq T
    BY <1>2, <1>3, <1>4, Inductive
  <2>2. QED
    BY <1>2, <2>1
<1>6. QED
  BY <1>2, <1>5 DEF N

(* No entry comes twice. *)
Distinct(q) == \A i, j \in DOMAIN q : q[i] = q[j] => i = j

LEMMA DistinctAppend ==
  ASSUME NEW V, NEW q \in Seq(V), NEW e \in V, Distinct(q), e \notin ToSet(q)
  PROVE  Distinct(Append(q, e))
<1>1. /\ Len(q) \in Nat /\ DOMAIN q = 1..Len(q) /\ DOMAIN Append(q, e) = 1..(Len(q) + 1)
      /\ \A i \in 1..Len(q) : Append(q, e)[i] = q[i]
      /\ Append(q, e)[Len(q) + 1] = e
  BY AppendProperties, LenProperties
<1> DEFINE r == Append(q, e)
<1> HIDE DEF r
<1>2. \A i \in 1..Len(q) : r[i] = q[i] /\ q[i] # e
  BY <1>1 DEF r, ToSet
<1>3. \A i, j \in 1..(Len(q) + 1) : r[i] = r[j] => i = j
  <2>1. SUFFICES ASSUME NEW i \in 1..(Len(q) + 1), NEW j \in 1..(Len(q) + 1), r[i] = r[j]
                 PROVE  i = j
    OBVIOUS
  <2>2. r[Len(q) + 1] = e
    BY <1>1 DEF r
  <2>3. QED
    BY <1>1, <1>2, <2>1, <2>2 DEF Distinct
<1>4. QED
  BY <1>1, <1>3 DEF r, Distinct

(* A filter that passes no entry equal to one it passed before. *)
LEMMA FilterDistinct ==
  ASSUME NEW V, NEW seq \in Seq(V), NEW places,
         \A k \in places \cap 1..Len(seq) : \A j \in places \cap 1..(k - 1) : seq[j] # seq[k]
  PROVE  Distinct(EntriesAt(seq, places))
<1>1. PICK f : Filtering(f, V, seq, places)
  BY FilterSteps
<1> DEFINE N == Len(seq)
           T == {n \in 0..N : Distinct(f[n]) /\ ToSet(f[n]) \subseteq {seq[i] : i \in places \cap 1..n}}
<1>2. /\ N \in Nat /\ f \in [0..N -> Seq(V)] /\ f[0] = <<>> /\ EntriesAt(seq, places) = f[N]
      /\ \A i \in 1..N : f[i] = IF i \in places THEN Append(f[i - 1], seq[i]) ELSE f[i - 1]
      /\ seq \in [1..N -> V]
      /\ \A k \in places \cap 1..N : \A j \in places \cap 1..(k - 1) : seq[j] # seq[k]
  BY <1>1, LenProperties DEF Filtering
<1> HIDE DEF N
<1>3. 0 \in T
  BY <1>2 DEF ToSet, Distinct
<1>4. ASSUME NEW n \in 0..N, n \in T, n + 1 <= N
      PROVE  n + 1 \in T
  <2>1. n + 1 \in 1..N /\ n + 1 \in 0..N /\ f[n] \in Seq(V) /\ seq[n + 1] \in V
    BY <1>2, <1>4
  <2>2. Distinct(f[n]) /\ ToSet(f[n]) \subseteq {seq[i] : i \in places \cap 1..n}
    BY <1>4
  <2>3. CASE n + 1 \in places
    <3>1. f[n + 1] = Append(f[n], seq[n + 1])
      <4>1. f[n + 1] = IF n + 1 \in places THEN Append(f[(n + 1) - 1], seq[n + 1])
                       ELSE f[(n + 1) - 1]
        BY <1>2, <2>1, Zenon
      <4>2. (n + 1) - 1 = n
        OBVIOUS
      <4>3. QED
        BY <2>3, <4>1, <4>2, Zenon
    <3>2. ToSet(f[n + 1]) = ToSet(f[n]) \cup {seq[n + 1]}
      BY <2>1, <3>1, InAppend
    <3>3. \A j \in places \cap 1..n : seq[j] # seq[n + 1]
      <4>1. n + 1 \in places \cap 1..N /\ (n + 1) - 1 = n
        BY <2>1, <2>3
      <4>2. QED
        BY <1>2, <4>1
    <3>4. seq[n + 1] \notin ToSet(f[n])
      BY <2>2, <3>3
    <3>5. Distinct(f[n + 1])
      BY <2>1, <2>2, <3>1, <3>4, DistinctAppend
    <3>6. {seq[i] : i \in places \cap 1..n} \cup {seq[n + 1]} \subseteq {seq[i] : i \in places \cap 1..(n + 1)}
      BY <2>1, <2>3
    <3>7. QED
      BY <2>1, <2>2, <3>2, <3>5, <3>6
  <2>4. CASE n + 1 \notin places
    <3>1. f[n + 1] = f[n]
      BY <1>2, <2>1, <2>4
    <3>2. {seq[i] : i \in places \cap 1..n} \subseteq {seq[i] : i \in places \cap 1..(n + 1)}
      BY <2>1
    <3>3. QED
      BY <2>1, <2>2, <3>1, <3>2
  <2>5. QED
    BY <2>3, <2>4
<1>5. N \in T
  <2> HIDE DEF T
  <2>1. 0..N \subseteq T
    BY <1>2, <1>3, <1>4, Inductive
  <2>2. QED
    BY <1>2, <2>1
<1>6. QED
  BY <1>2, <1>5

(* The first entry a filter returns is the one at the least place. *)
LEMMA FilterFirst ==
  ASSUME NEW V, NEW seq \in Seq(V), NEW places, NEW m \in places \cap 1..Len(seq),
         \A k \in places : m <= k
  PROVE  EntriesAt(seq, places) # <<>> /\ EntriesAt(seq, places)[1] = seq[m]
<1>1. PICK f : Filtering(f, V, seq, places)
  BY FilterSteps
<1> DEFINE N == Len(seq)
           T == {n \in 0..N : /\ n < m => f[n] = <<>>
                              /\ n >= m => f[n] # <<>> /\ f[n][1] = seq[m]}
<1>2. /\ N \in Nat /\ f \in [0..N -> Seq(V)] /\ f[0] = <<>> /\ EntriesAt(seq, places) = f[N]
      /\ \A i \in 1..N : f[i] = IF i \in places THEN Append(f[i - 1], seq[i]) ELSE f[i - 1]
      /\ seq \in [1..N -> V] /\ m \in 1..N
  BY <1>1, LenProperties DEF Filtering
<1> HIDE DEF N
<1>3. 0 \in T
  BY <1>2
<1>4. ASSUME NEW n \in 0..N, n \in T, n + 1 <= N
      PROVE  n + 1 \in T
  <2>1. n + 1 \in 1..N /\ n + 1 \in 0..N /\ f[n] \in Seq(V) /\ seq[n + 1] \in V
    BY <1>2, <1>4
  <2>2. f[n + 1] = IF n + 1 \in places THEN Append(f[n], seq[n + 1]) ELSE f[n]
    <3>1. f[n + 1] = IF n + 1 \in places THEN Append(f[(n + 1) - 1], seq[n + 1])
                     ELSE f[(n + 1) - 1]
      BY <1>2, <2>1, Zenon
    <3>2. (n + 1) - 1 = n
      OBVIOUS
    <3>3. QED
      BY <3>1, <3>2, Zenon
  <2>3. CASE n + 1 < m
    <3>1. n + 1 \notin places /\ n < m
      BY <1>2, <2>1, <2>3
    <3>2. QED
      BY <1>4, <2>1, <2>2, <2>3, <3>1
  <2>4. CASE n + 1 = m
    <3>1. f[n + 1] = Append(<<>>, seq[n + 1])
      <4>1. n < m /\ n + 1 \in places
        <5>1. m \in Nat /\ n \in Nat /\ m \in places
          BY <1>2
        <5>2. QED
          BY <2>4, <5>1
      <4>2. f[n] = <<>>
        BY <1>4, <4>1
      <4>3. QED
        BY <2>2, <4>1, <4>2, Zenon
    <3>2. f[n + 1] # <<>> /\ f[n + 1][1] = seq[n + 1]
      BY <3>1
    <3>3. QED
      BY <2>1, <2>4, <3>2
  <2>5. CASE n + 1 > m
    <3>1. f[n] # <<>> /\ f[n][1] = seq[m]
      BY <1>2, <1>4, <2>1, <2>5
    <3>2. Len(f[n]) >= 1
      BY <2>1, <3>1
    <3>3. Append(f[n], seq[n + 1]) # <<>> /\ Append(f[n], seq[n + 1])[1] = seq[m]
      BY <2>1, <3>1, <3>2
    <3>4. f[n + 1] # <<>> /\ f[n + 1][1] = seq[m]
      BY <2>2, <3>1, <3>3, Zenon
    <3>5. ~(n + 1 < m)
      BY <1>2, <2>5
    <3>6. QED
      BY <2>1, <3>4, <3>5
  <2>6. QED
    BY <1>2, <2>1, <2>3, <2>4, <2>5
<1>5. N \in T
  <2> HIDE DEF T
  <2>1. 0..N \subseteq T
    BY <1>2, <1>3, <1>4, Inductive
  <2>2. QED
    BY <1>2, <2>1
<1>6. QED
  BY <1>2, <1>5

(* A recursion that begins at one. *)
FromOne(g, N, base, step) ==
  \A i \in 1..N : g[i] = step[<<i, IF i = 1 THEN base ELSE g[i - 1]>>]

LEMMA RecursionFromOne ==
  ASSUME NEW N \in Nat, NEW V, NEW base \in V, NEW step \in StepsIn(N, V)
  PROVE  \E g : g \in [1..N -> V] /\ FromOne(g, N, base, step)
<1>1. PICK f : f \in [0..N -> V] /\ Recursive(f, N, base, step)
  BY RecursionExists
<1> DEFINE g == [i \in 1..N |-> f[i]]
<1>2. g \in [1..N -> V]
  BY <1>1
<1>3. ASSUME NEW i \in 1..N
      PROVE  g[i] = step[<<i, IF i = 1 THEN base ELSE g[i - 1]>>]
  <2>1. g[i] = step[<<i, f[i - 1]>>]
    BY <1>1 DEF Recursive
  <2>2. f[i - 1] = IF i = 1 THEN base ELSE g[i - 1]
    BY <1>1 DEF Recursive
  <2>3. QED
    BY <2>1, <2>2, Zenon
<1> HIDE DEF g
<1>4. QED
  BY <1>2, <1>3 DEF FromOne

(* Sequences one after the other. *)
LEMMA FlattenElements ==
  ASSUME NEW V, NEW q \in Seq(Seq(V))
  PROVE  FlattenSeq(q) \in Seq(V) /\ ToSet(FlattenSeq(q)) = UNION {ToSet(q[i]) : i \in 1..Len(q)}
<1> DEFINE N == Len(q)
           W == Seq(V)
           next(i, r) == IF i = 1 THEN q[i] ELSE r \o q[i]
           step == [x \in (1..N) \X W |-> next(x[1], x[2])]
           flatten[i \in 1..N] == IF i = 1 THEN q[i] ELSE flatten[i - 1] \o q[i]
           T == {n \in 0..N : n >= 1 => /\ flatten[n] \in W
                                        /\ ToSet(flatten[n]) = UNION {ToSet(q[i]) : i \in 1..n}}
<1>1. FlattenSeq(q) = IF N = 0 THEN q ELSE flatten[N]
  BY Zenon DEF FlattenSeq
<1>2. N \in Nat /\ q \in [1..N -> W] /\ <<>> \in W
  BY LenProperties, EmptySeq
<1>3. \A i \in 1..N : \A r \in W : next(i, r) \in W
  BY <1>2, ConcatProperties
<1> HIDE DEF next, W, N
<1>4. step \in StepsIn(N, W)
  BY <1>3 DEF StepsIn
<1> HIDE DEF step
<1>5. PICK f : f \in [1..N -> W] /\ FromOne(f, N, <<>>, step)
  BY <1>2, <1>4, RecursionFromOne
<1>6. \A i \in 1..N : f[i] = IF i = 1 THEN q[i] ELSE f[i - 1] \o q[i]
  <2>1. TAKE i \in 1..N
  <2> DEFINE r == IF i = 1 THEN <<>> ELSE f[i - 1]
  <2>2. r \in W
    BY <1>2, <1>5
  <2> HIDE DEF r
  <2>3. step[<<i, r>>] = next(i, r)
    BY <2>2 DEF step
  <2>4. f[i] = next(i, r)
    BY <1>5, <2>3 DEF r, FromOne
  <2>5. QED
    BY <2>4 DEF r, next
<1>7. f = [i \in 1..N |-> IF i = 1 THEN q[i] ELSE f[i - 1] \o q[i]]
  BY <1>5, <1>6
<1>8. flatten = [i \in 1..N |-> IF i = 1 THEN q[i] ELSE flatten[i - 1] \o q[i]]
  BY <1>7, Zenon
<1> HIDE DEF flatten
<1>9. \A i \in 1..N : flatten[i] = IF i = 1 THEN q[i] ELSE flatten[i - 1] \o q[i]
  BY <1>8
<1>10. 0 \in T
  BY <1>2
<1>11. ASSUME NEW n \in 0..N, n \in T, n + 1 <= N
       PROVE  n + 1 \in T
  <2>1. n + 1 \in 1..N /\ n + 1 \in 0..N /\ q[n + 1] \in W
    BY <1>2, <1>11
  <2>2. CASE n = 0
    <3>1. flatten[n + 1] = q[n + 1] /\ 1..(n + 1) = {n + 1}
      BY <1>9, <2>1, <2>2
    <3>2. QED
      BY <2>1, <3>1
  <2>3. CASE n # 0
    <3>1. flatten[n + 1] = flatten[n] \o q[n + 1]
      <4>1. flatten[n + 1] = IF n + 1 = 1 THEN q[n + 1] ELSE flatten[(n + 1) - 1] \o q[n + 1]
        BY <1>9, <2>1, Zenon
      <4>2. (n + 1) - 1 = n /\ n + 1 # 1
        BY <2>3
      <4>3. QED
        BY <4>1, <4>2, Zenon
    <3>2. flatten[n] \in W /\ ToSet(flatten[n]) = UNION {ToSet(q[i]) : i \in 1..n}
      BY <1>11, <2>3
    <3>3. /\ flatten[n] \o q[n + 1] \in W
          /\ ToSet(flatten[n] \o q[n + 1]) = ToSet(flatten[n]) \cup ToSet(q[n + 1])
      BY <2>1, <3>2, InConcat DEF W
    <3>4. 1..(n + 1) = 1..n \cup {n + 1}
      OBVIOUS
    <3>5. \A S : S = 1..n \cup {n + 1} =>
            UNION {ToSet(q[i]) : i \in S} = (UNION {ToSet(q[i]) : i \in 1..n}) \cup ToSet(q[n + 1])
      OBVIOUS
    <3>6. ToSet(flatten[n + 1]) = UNION {ToSet(q[i]) : i \in 1..(n + 1)}
      BY <3>1, <3>2, <3>3, <3>4, <3>5, Zenon
    <3>7. flatten[n + 1] \in W
      BY <3>1, <3>3, Zenon
    <3>8. QED
      BY <2>1, <3>6, <3>7
  <2>4. QED
    BY <2>2, <2>3
<1>12. N \in T
  <2> HIDE DEF T
  <2>1. 0..N \subseteq T
    BY <1>2, <1>10, <1>11, Inductive
  <2>2. QED
    BY <1>2, <2>1
<1>13. CASE N = 0
  <2>1. q = <<>> /\ 1..Len(q) = {}
    BY <1>13, <1>2 DEF N
  <2>2. FlattenSeq(q) = <<>>
    BY <1>1, <1>13, <2>1
  <2>3. ToSet(<<>>) = {}
    BY DEF ToSet
  <2>4. QED
    BY <1>2, <2>1, <2>2, <2>3 DEF W
<1>14. CASE N # 0
  BY <1>1, <1>2, <1>12, <1>14 DEF W, N
<1>15. QED
  BY <1>13, <1>14

-----------------------------------------------------------------------------
(* Documents, and what is read of them. *)

(* A document's symbols, whatever their number. *)
Symbols == [name : Names, depth : Nat]
Nested(t) == \A i \in 1..(Len(t) - 1) : t[i + 1].depth <= t[i].depth + 1

(* Symbols are walked once each. *)
LEMMA WalkedElements ==
  ASSUME NEW V, NEW t \in Seq(V), NEW S, S \subseteq DOMAIN t
  PROVE  Walked(t, S) \in Seq(S) /\ ToSet(Walked(t, S)) = S /\ Distinct(Walked(t, S))
<1> DEFINE p == [k \in 1..Len(t) |-> k]
<1>1. Len(t) \in Nat /\ DOMAIN t = 1..Len(t)
  BY LenProperties
<1>2. p \in Seq(1..Len(t)) /\ Len(p) = Len(t) /\ DOMAIN p = 1..Len(t)
  BY <1>1
<1>3. \A k \in 1..Len(t) : p[k] = k
  OBVIOUS
<1>4. Walked(t, S) = EntriesAt(p, S)
  BY DEF Walked
<1> HIDE DEF p
<1>5. EntriesAt(p, S) \in Seq(S)
  BY <1>2, <1>3, FilterTypeInto
<1>6. ToSet(EntriesAt(p, S)) = {p[i] : i \in S \cap 1..Len(p)}
  BY <1>2, FilterElements
<1>7. {p[i] : i \in S \cap 1..Len(p)} = S
  BY <1>1, <1>2, <1>3
<1>8. \A k \in S \cap 1..Len(p) : \A j \in S \cap 1..(k - 1) : p[j] # p[k]
  BY <1>1, <1>2, <1>3
<1>9. Distinct(EntriesAt(p, S))
  BY <1>2, <1>8, FilterDistinct
<1>10. QED
  BY <1>4, <1>5, <1>6, <1>7, <1>9

LEMMA WalkedFirst ==
  ASSUME NEW V, NEW t \in Seq(V), NEW S, S \subseteq DOMAIN t, NEW m \in S, \A k \in S : m <= k
  PROVE  Walked(t, S) # <<>> /\ Walked(t, S)[1] = m
<1> DEFINE p == [k \in 1..Len(t) |-> k]
<1>1. Len(t) \in Nat /\ DOMAIN t = 1..Len(t)
  BY LenProperties
<1>2. p \in Seq(1..Len(t)) /\ Len(p) = Len(t)
  BY <1>1
<1>3. m \in S \cap 1..Len(p) /\ p[m] = m
  BY <1>1, <1>2
<1>4. Walked(t, S) = EntriesAt(p, S)
  BY DEF Walked
<1> HIDE DEF p
<1>5. QED
  BY <1>2, <1>3, <1>4, FilterFirst

(* Duplicates go, the hits stay. *)
LEMMA DedupeElements ==
  ASSUME NEW V, NEW q \in Seq(V)
  PROVE  /\ DedupeHits(q) \in Seq(V)
         /\ ToSet(DedupeHits(q)) = ToSet(q)
         /\ Distinct(DedupeHits(q))
<1> DEFINE P == {k \in DOMAIN q : \A j \in 1..(k - 1) : q[j] # q[k]}
<1>1. DedupeHits(q) = EntriesAt(q, P)
  BY DEF DedupeHits
<1>2. Len(q) \in Nat /\ DOMAIN q = 1..Len(q)
  BY LenProperties
<1>3. EntriesAt(q, P) \in Seq(V)
  BY FilterType
<1>4. \A k \in P \cap 1..Len(q) : \A j \in P \cap 1..(k - 1) : q[j] # q[k]
  OBVIOUS
<1>5. ASSUME NEW e \in ToSet(q)
      PROVE  \E k \in P \cap 1..Len(q) : q[k] = e
  <2> DEFINE S == {k \in 1..Len(q) : q[k] = e}
  <2>1. S \subseteq Nat /\ S # {}
    BY <1>2, <1>5 DEF ToSet
  <2>2. PICK m \in S : \A k \in S : m <= k
    <3> HIDE DEF S
    <3>1. QED
      BY <2>1, Least
  <2>3. \A j \in 1..(m - 1) : q[j] # q[m]
    BY <1>2, <2>2
  <2>4. QED
    BY <1>2, <2>2, <2>3
<1> HIDE DEF P
<1>6. ToSet(EntriesAt(q, P)) = {q[k] : k \in P \cap 1..Len(q)}
  BY FilterElements
<1>7. {q[k] : k \in P \cap 1..Len(q)} = ToSet(q)
  BY <1>2, <1>5 DEF ToSet
<1>8. Distinct(EntriesAt(q, P))
  BY <1>4, FilterDistinct
<1>9. QED
  BY <1>1, <1>3, <1>6, <1>7, <1>8

(* Without duplicates, a sequence is as long as its set is large. *)
LEMMA DistinctLen ==
  ASSUME NEW V, NEW q \in Seq(V), Distinct(q)
  PROVE  Len(q) = Cardinality(ToSet(q))
<1>1. Len(q) \in Nat /\ DOMAIN q = 1..Len(q) /\ q \in [1..Len(q) -> ToSet(q)]
  BY LenProperties DEF ToSet
<1>2. q \in Bijection(1..Len(q), ToSet(q))
  BY <1>1 DEF Distinct, ToSet, Bijection, Injection, Surjection, IsInjective
<1>3. IsFiniteSet(1..Len(q)) /\ Cardinality(1..Len(q)) = Len(q)
  BY <1>1, FS_Interval
<1>4. ExistsBijection(1..Len(q), ToSet(q))
  BY <1>2 DEF ExistsBijection
<1>5. QED
  BY <1>3, <1>4, FS_Bijection

(* The hits of several symbols are those of each. *)
LEMMA HitsOfElements ==
  ASSUME NEW D, NEW symbols \in Seq(D), NEW h \in [D -> Seq(D)]
  PROVE  /\ HitsOf(symbols, h) \in Seq(D)
         /\ ToSet(HitsOf(symbols, h)) = UNION {ToSet(h[s]) : s \in ToSet(symbols)}
<1> DEFINE q == [k \in 1..Len(symbols) |-> h[symbols[k]]]
<1>1. Len(symbols) \in Nat /\ DOMAIN symbols = 1..Len(symbols) /\ symbols \in [1..Len(symbols) -> D]
  BY LenProperties
<1>2. q \in Seq(Seq(D)) /\ Len(q) = Len(symbols)
  BY <1>1
<1>3. {ToSet(q[k]) : k \in 1..Len(q)} = {ToSet(h[s]) : s \in ToSet(symbols)}
  <2>1. \A k \in 1..Len(symbols) : q[k] = h[symbols[k]]
    OBVIOUS
  <2>2. ToSet(symbols) = {symbols[k] : k \in 1..Len(symbols)}
    BY InSeq
  <2> HIDE DEF q
  <2>3. {ToSet(q[k]) : k \in 1..Len(q)} = {ToSet(h[symbols[k]]) : k \in 1..Len(symbols)}
    BY <1>2, <2>1
  <2>4. {ToSet(h[s]) : s \in ToSet(symbols)} = {ToSet(h[symbols[k]]) : k \in 1..Len(symbols)}
    BY <2>2
  <2>5. QED
    BY <2>3, <2>4
<1>4. HitsOf(symbols, h) = FlattenSeq(q)
  BY DEF HitsOf
<1> HIDE DEF q
<1>5. QED
  BY <1>2, <1>3, <1>4, FlattenElements

(* The first symbol under another is its child, so the children and all    *)
(* but the first are everything under it.                                  *)
LEMMA InsideSplit ==
  ASSUME NEW t \in Seq(Symbols), Nested(t), NEW i \in DOMAIN t
  PROVE  LET w == Within(t, i) IN
         /\ Children(t, i) \in Seq(DOMAIN t) /\ SubSeq(w, 2, Len(w)) \in Seq(DOMAIN t)
         /\ ToSet(Children(t, i)) \cup ToSet(SubSeq(w, 2, Len(w))) = Inside(t, i)
<1> DEFINE I == Inside(t, i)
           C == {j \in I : t[j].depth = t[i].depth + 1}
           w == Within(t, i)
           rest == SubSeq(w, 2, Len(w))
<1>1. /\ Len(t) \in Nat /\ DOMAIN t = 1..Len(t) /\ t \in [1..Len(t) -> Symbols]
      /\ I \subseteq DOMAIN t /\ C \subseteq I
      /\ \A j \in I : j > i /\ \A k \in (i + 1)..j : t[k].depth > t[i].depth
  BY LenProperties DEF Inside
<1>2. Children(t, i) = Walked(t, C) /\ w = Walked(t, I)
  BY DEF Children, Within
<1>3. ASSUME NEW j \in I
      PROVE  i + 1 \in C /\ i + 1 <= j
  <2>1. i + 1 \in 1..Len(t) /\ i + 1 <= j /\ i \in 1..(Len(t) - 1)
    BY <1>1
  <2>2. t[i + 1].depth > t[i].depth
    BY <1>1, <2>1
  <2>3. t[i + 1].depth <= t[i].depth + 1
    BY <2>1 DEF Nested
  <2>4. t[i + 1].depth \in Nat /\ t[i].depth \in Nat
    BY <1>1, <2>1 DEF Symbols
  <2>5. t[i + 1].depth = t[i].depth + 1
    BY <2>2, <2>3, <2>4
  <2>6. i + 1 \in I
    <3>1. \A k \in (i + 1)..(i + 1) : t[k].depth > t[i].depth
      BY <2>1, <2>2
    <3>2. QED
      BY <1>1, <2>1, <3>1 DEF Inside
  <2>7. QED
    BY <2>1, <2>5, <2>6
<1> HIDE DEF I, C, w
<1>4. /\ Walked(t, C) \in Seq(C) /\ ToSet(Walked(t, C)) = C
      /\ w \in Seq(I) /\ ToSet(w) = I
  <2>1. C \subseteq DOMAIN t
    BY <1>1
  <2>2. QED
    BY <1>1, <1>2, <2>1, WalkedElements
<1>5. /\ Len(w) \in Nat /\ w \in [1..Len(w) -> I]
      /\ \A k \in 2..Len(w) : w[k] \in I
  BY <1>4, LenProperties
<1>6. /\ rest \in Seq(I)
      /\ Len(rest) = IF 2 <= Len(w) THEN Len(w) - 2 + 1 ELSE 0
      /\ \A k \in 1..(Len(w) - 2 + 1) : rest[k] = w[2 + k - 1]
  BY <1>5, SubSeqProperties
<1> HIDE DEF rest
<1>7. ToSet(rest) \subseteq I
  BY <1>6, InSeq
<1>8. ASSUME NEW j \in I, j # i + 1
      PROVE  j \in ToSet(rest)
  <2>1. i + 1 \in I /\ \A k \in I : i + 1 <= k
    BY <1>1, <1>3
  <2>2. w[1] = i + 1
    BY <1>1, <1>2, <2>1, WalkedFirst
  <2>3. PICK k \in 1..Len(w) : w[k] = j
    BY <1>4, InSeq
  <2>4. k >= 2 /\ k - 1 \in 1..(Len(w) - 2 + 1) /\ 2 + (k - 1) - 1 = k
    BY <1>5, <1>8, <2>2, <2>3
  <2>5. rest[k - 1] = j
    BY <1>6, <2>3, <2>4
  <2>6. k - 1 \in 1..Len(rest)
    <3>1. 2 <= Len(w)
      BY <1>5, <2>3, <2>4
    <3>2. Len(rest) = Len(w) - 2 + 1
      BY <1>6, <3>1
    <3>3. QED
      BY <2>4, <3>2
  <2>7. ToSet(rest) = {rest[n] : n \in 1..Len(rest)}
    BY <1>6, InSeq
  <2>8. QED
    BY <2>5, <2>6, <2>7
<1>9. C \cup ToSet(rest) = I
  BY <1>1, <1>3, <1>7, <1>8
<1>10. \A S, q : S \subseteq DOMAIN t /\ q \in Seq(S) => q \in Seq(DOMAIN t)
  OBVIOUS
<1>11. Walked(t, C) \in Seq(DOMAIN t) /\ rest \in Seq(DOMAIN t)
  BY <1>1, <1>4, <1>6, <1>10
<1>12. QED
  BY <1>2, <1>4, <1>9, <1>11 DEF I, w, rest

-----------------------------------------------------------------------------
(* What the descent finds. *)

(* A chain of symbols, each inside the one before it, that starts at i,    *)
(* ends at j and has the names of the last segments that are left.         *)
Chain(t, segments, left, i, j, chain) ==
  /\ chain \in [1..left -> DOMAIN t]
  /\ chain[1] = i /\ chain[left] = j
  /\ \A k \in 1..left : t[chain[k]].name = segments[Len(segments) - left + k]
  /\ \A k \in 1..(left - 1) : chain[k + 1] \in Inside(t, chain[k])

Reach(t, segments, left, i) ==
  {j \in DOMAIN t : \E chain : Chain(t, segments, left, i, j, chain)}

(* The first of the segments that are left is the name of i. *)
Named(t, segments, left, i) == t[i].name = segments[Len(segments) + 1 - left]

LEMMA ReachLast ==
  ASSUME NEW t, NEW segments \in Seq(Names), segments # <<>>, NEW i \in DOMAIN t
  PROVE  Reach(t, segments, 1, i) = IF Named(t, segments, 1, i) THEN {i} ELSE {}
<1>1. Len(segments) \in Nat \ {0}
  BY LenProperties
<1>2. ASSUME NEW j \in DOMAIN t, NEW chain, Chain(t, segments, 1, i, j, chain)
      PROVE  j = i /\ Named(t, segments, 1, i)
  BY <1>1, <1>2 DEF Chain, Named
<1>3. ASSUME Named(t, segments, 1, i)
      PROVE  \E chain : Chain(t, segments, 1, i, i, chain)
  <2> DEFINE c == [k \in 1..1 |-> i]
  <2>1. Chain(t, segments, 1, i, i, c)
    <3>1. c \in [1..1 -> DOMAIN t] /\ c[1] = i
      OBVIOUS
    <3>2. \A k \in 1..1 : t[c[k]].name = segments[Len(segments) - 1 + k]
      <4>1. SUFFICES t[i].name = segments[Len(segments) - 1 + 1]
        BY <3>1
      <4>2. Len(segments) - 1 + 1 = Len(segments) + 1 - 1
        BY <1>1
      <4>3. QED
        BY <1>3, <4>2 DEF Named
    <3>3. 1..(1 - 1) = {}
      OBVIOUS
    <3> HIDE DEF c
    <3>4. QED
      BY <3>1, <3>2, <3>3 DEF Chain
  <2> HIDE DEF c
  <2>2. QED
    BY <2>1
<1>4. QED
  BY <1>2, <1>3 DEF Reach

LEMMA ReachOn ==
  ASSUME NEW t, NEW segments \in Seq(Names),
         NEW left \in Nat \ {0}, left + 1 <= Len(segments), NEW i \in DOMAIN t
  PROVE  Reach(t, segments, left + 1, i) =
           IF Named(t, segments, left + 1, i)
           THEN UNION {Reach(t, segments, left, s) : s \in Inside(t, i)}
           ELSE {}
<1> DEFINE n == Len(segments)
<1>1. n \in Nat /\ Inside(t, i) \subseteq DOMAIN t
  BY LenProperties DEF Inside
<1>2. ASSUME NEW j \in DOMAIN t, NEW chain, Chain(t, segments, left + 1, i, j, chain)
      PROVE  /\ Named(t, segments, left + 1, i)
             /\ \E s \in Inside(t, i) : j \in Reach(t, segments, left, s)
  <2> DEFINE rest == [k \in 1..left |-> chain[k + 1]]
  <2>1. /\ chain \in [1..(left + 1) -> DOMAIN t]
        /\ chain[1] = i /\ chain[left + 1] = j
        /\ \A k \in 1..(left + 1) : t[chain[k]].name = segments[n - (left + 1) + k]
        /\ \A k \in 1..((left + 1) - 1) : chain[k + 1] \in Inside(t, chain[k])
    BY <1>2 DEF Chain
  <2>2. Named(t, segments, left + 1, i)
    <3>1. 1 \in 1..(left + 1) /\ n - (left + 1) + 1 = n + 1 - (left + 1)
      BY <1>1
    <3>2. QED
      BY <2>1, <3>1 DEF Named
  <2>3. chain[2] \in Inside(t, i)
    <3>1. 1 \in 1..((left + 1) - 1) /\ 1 + 1 = 2
      OBVIOUS
    <3>2. QED
      BY <2>1, <3>1
  <2>4. Chain(t, segments, left, chain[2], j, rest)
    <3>1. rest \in [1..left -> DOMAIN t] /\ rest[1] = chain[2] /\ rest[left] = j
      BY <2>1
    <3>2. \A k \in 1..left : t[rest[k]].name = segments[n - left + k]
      <4>1. TAKE k \in 1..left
      <4>2. k + 1 \in 1..(left + 1) /\ n - (left + 1) + (k + 1) = n - left + k
        BY <1>1
      <4>3. QED
        BY <2>1, <4>2
    <3>3. \A k \in 1..(left - 1) : rest[k + 1] \in Inside(t, rest[k])
      <4>1. TAKE k \in 1..(left - 1)
      <4>2. /\ k + 1 \in 1..((left + 1) - 1) /\ k \in 1..left /\ k + 1 \in 1..left
        OBVIOUS
      <4>3. rest[k] = chain[k + 1] /\ rest[k + 1] = chain[(k + 1) + 1]
        BY <4>2
      <4>4. QED
        BY <2>1, <4>2, <4>3
    <3> HIDE DEF rest
    <3>4. QED
      BY <3>1, <3>2, <3>3 DEF Chain
  <2> HIDE DEF rest
  <2>5. j \in Reach(t, segments, left, chain[2])
    BY <2>4 DEF Reach
  <2>6. QED
    BY <2>2, <2>3, <2>5
<1>3. ASSUME Named(t, segments, left + 1, i), NEW s \in Inside(t, i),
             NEW j \in Reach(t, segments, left, s)
      PROVE  j \in Reach(t, segments, left + 1, i)
  <2>1. PICK rest : Chain(t, segments, left, s, j, rest)
    BY DEF Reach
  <2> DEFINE chain == [k \in 1..(left + 1) |-> IF k = 1 THEN i ELSE rest[k - 1]]
  <2>2. /\ rest \in [1..left -> DOMAIN t] /\ rest[1] = s /\ rest[left] = j
        /\ \A k \in 1..left : t[rest[k]].name = segments[n - left + k]
        /\ \A k \in 1..(left - 1) : rest[k + 1] \in Inside(t, rest[k])
    BY <2>1 DEF Chain
  <2>3. chain \in [1..(left + 1) -> DOMAIN t] /\ chain[1] = i /\ chain[left + 1] = j
    BY <2>2
  <2>4. \A k \in 1..(left + 1) : t[chain[k]].name = segments[n - (left + 1) + k]
    <3>1. SUFFICES ASSUME NEW k \in 1..(left + 1)
                   PROVE  t[chain[k]].name = segments[n - (left + 1) + k]
      OBVIOUS
    <3>2. CASE k = 1
      <4>1. n - (left + 1) + k = n + 1 - (left + 1) /\ chain[k] = i
        BY <1>1, <3>2
      <4>2. QED
        BY <1>3, <4>1 DEF Named
    <3>3. CASE k # 1
      <4>1. k - 1 \in 1..left /\ n - left + (k - 1) = n - (left + 1) + k /\ chain[k] = rest[k - 1]
        BY <1>1, <3>3
      <4>2. QED
        BY <2>2, <4>1
    <3>4. QED
      BY <3>2, <3>3
  <2>5. \A k \in 1..((left + 1) - 1) : chain[k + 1] \in Inside(t, chain[k])
    <3>0. (left + 1) - 1 = left
      OBVIOUS
    <3>1. SUFFICES ASSUME NEW k \in 1..left PROVE chain[k + 1] \in Inside(t, chain[k])
      <4> HIDE DEF chain
      <4>1. QED
        BY <3>0
    <3>2. chain[k + 1] = rest[k]
      OBVIOUS
    <3>3. CASE k = 1
      BY <2>2, <3>2, <3>3
    <3>4. CASE k # 1
      <4>1. k - 1 \in 1..(left - 1) /\ (k - 1) + 1 = k /\ chain[k] = rest[k - 1]
        BY <3>4
      <4>2. QED
        BY <2>2, <3>2, <4>1
    <3>5. QED
      BY <3>3, <3>4
  <2> HIDE DEF chain
  <2>6. Chain(t, segments, left + 1, i, j, chain)
    BY <2>3, <2>4, <2>5 DEF Chain
  <2>7. QED
    BY <2>6 DEF Reach
<1>4. \A j \in Reach(t, segments, left + 1, i) :
        /\ Named(t, segments, left + 1, i)
        /\ \E s \in Inside(t, i) : j \in Reach(t, segments, left, s)
  BY <1>2 DEF Reach
<1>5. QED
  BY <1>3, <1>4

(* The descent meets what the symbols it is given reach. *)
LEMMA MatchElements ==
  ASSUME NEW t \in Seq(Symbols), Nested(t), NEW symbols \in Seq(DOMAIN t),
         NEW segments \in Seq(Names), segments # <<>>
  PROVE  /\ MatchSegments(t, symbols, segments) \in Seq(DOMAIN t)
         /\ ToSet(MatchSegments(t, symbols, segments)) =
              UNION {Reach(t, segments, Len(segments), s) : s \in ToSet(symbols)}
<1> DEFINE n == Len(segments)
           D == DOMAIN t
           V == [D -> Seq(D)]
           rest(i) == SubSeq(Within(t, i), 2, Len(Within(t, i)))
           below(i, h) == HitsOf(Children(t, i), h) \o HitsOf(rest(i), h)
           next(left, h) ==
             [i \in D |-> IF t[i].name # segments[n + 1 - left] THEN <<>>
                          ELSE IF left = 1 THEN <<i>> ELSE below(i, h)]
           step == [x \in (1..n) \X V |-> next(x[1], x[2])]
           hits[left \in 1..n] ==
             [i \in DOMAIN t |->
                IF t[i].name # segments[n + 1 - left] THEN <<>>
                ELSE IF left = 1 THEN <<i>>
                ELSE LET within == Within(t, i) IN
                     HitsOf(Children(t, i), hits[left - 1])
                       \o HitsOf(SubSeq(within, 2, Len(within)), hits[left - 1])]
           T == {k \in 0..n : k >= 1 => /\ hits[k] \in V
                                        /\ \A i \in D : ToSet(hits[k][i]) = Reach(t, segments, k, i)}
<1>1. MatchSegments(t, symbols, segments) = HitsOf(symbols, hits[n])
  BY Zenon DEF MatchSegments
<1>2. n \in Nat /\ n # 0
  BY LenProperties
<1>3. ASSUME NEW i \in D, NEW h \in V
      PROVE  /\ below(i, h) \in Seq(D)
             /\ ToSet(below(i, h)) = UNION {ToSet(h[s]) : s \in Inside(t, i)}
  <2> DEFINE C == Children(t, i)
             R == rest(i)
  <2>1. C \in Seq(D) /\ R \in Seq(D) /\ ToSet(C) \cup ToSet(R) = Inside(t, i)
    BY InsideSplit, Zenon
  <2> HIDE DEF C, R
  <2>2. /\ HitsOf(C, h) \in Seq(D) /\ ToSet(HitsOf(C, h)) = UNION {ToSet(h[s]) : s \in ToSet(C)}
        /\ HitsOf(R, h) \in Seq(D) /\ ToSet(HitsOf(R, h)) = UNION {ToSet(h[s]) : s \in ToSet(R)}
    BY <2>1, HitsOfElements
  <2>3. /\ HitsOf(C, h) \o HitsOf(R, h) \in Seq(D)
        /\ ToSet(HitsOf(C, h) \o HitsOf(R, h)) = ToSet(HitsOf(C, h)) \cup ToSet(HitsOf(R, h))
    BY <2>2, InConcat
  <2>4. \A A, B : UNION {ToSet(h[s]) : s \in A \cup B}
                   = (UNION {ToSet(h[s]) : s \in A}) \cup (UNION {ToSet(h[s]) : s \in B})
    OBVIOUS
  <2>5. below(i, h) = HitsOf(C, h) \o HitsOf(R, h)
    BY DEF C, R
  <2> HIDE DEF below
  <2>6. ToSet(below(i, h)) = UNION {ToSet(h[s]) : s \in ToSet(C) \cup ToSet(R)}
    <3>1. UNION {ToSet(h[s]) : s \in ToSet(C) \cup ToSet(R)}
            = ToSet(HitsOf(C, h)) \cup ToSet(HitsOf(R, h))
      BY <2>2, <2>4
    <3>2. QED
      BY <2>3, <2>5, <3>1, Zenon
  <2>7. QED
    BY <2>1, <2>3, <2>5, <2>6, Zenon
<1> HIDE DEF rest, below
<1>4. ASSUME NEW left \in 1..n, NEW h \in V
      PROVE  next(left, h) \in V
  <2>1. \A i \in D : <<>> \in Seq(D) /\ <<i>> \in Seq(D) /\ below(i, h) \in Seq(D)
    BY <1>3
  <2> HIDE DEF D
  <2>2. QED
    BY <2>1
<1>5. step \in StepsIn(n, V)
  <2> HIDE DEF next, V
  <2>1. QED
    BY <1>4 DEF StepsIn
<1>6. [i \in D |-> <<>>] \in V
  OBVIOUS
<1>7. PICK f : f \in [1..n -> V] /\ FromOne(f, n, [i \in D |-> <<>>], step)
  <2> HIDE DEF step, V
  <2>1. QED
    BY <1>2, <1>5, <1>6, RecursionFromOne
<1>8. \A left \in 1..n : f[left] = next(left, f[left - 1])
  <2>1. TAKE left \in 1..n
  <2> DEFINE base == [i \in D |-> <<>>]
             h == IF left = 1 THEN base ELSE f[left - 1]
  <2> HIDE DEF base, V, next
  <2>2. h \in V
    <3>1. CASE left = 1
      BY <1>6, <3>1 DEF base
    <3>2. CASE left # 1
      <4>1. left - 1 \in 1..n
        BY <1>2, <3>2
      <4>2. QED
        BY <1>7, <3>2, <4>1
    <3>3. QED
      BY <3>1, <3>2
  <2>3. step[<<left, h>>] = next(left, h)
    <3> HIDE DEF h
    <3>1. QED
      BY <2>2
  <2>4. f[left] = step[<<left, h>>]
    <3> HIDE DEF step
    <3>1. QED
      BY <1>7, Zenon DEF base, FromOne
  <2>5. next(left, h) = next(left, f[left - 1])
    <3>1. CASE left = 1
      <4>1. \A g : next(1, g) = [i \in D |-> IF t[i].name # segments[n + 1 - 1] THEN <<>> ELSE <<i>>]
        BY DEF next
      <4>2. QED
        BY <3>1, <4>1, Zenon
    <3>2. CASE left # 1
      BY <3>2
    <3>3. QED
      BY <3>1, <3>2
  <2>6. QED
    BY <2>3, <2>4, <2>5, Zenon
<1>9. f = [left \in 1..n |->
             [i \in DOMAIN t |->
                IF t[i].name # segments[n + 1 - left] THEN <<>>
                ELSE IF left = 1 THEN <<i>>
                ELSE LET within == Within(t, i) IN
                     HitsOf(Children(t, i), f[left - 1])
                       \o HitsOf(SubSeq(within, 2, Len(within)), f[left - 1])]]
  <2>1. f = [left \in 1..n |-> next(left, f[left - 1])]
    <3> HIDE DEF next, V
    <3>1. QED
      BY <1>7, <1>8
  <2>2. QED
    BY <2>1, Zenon DEF rest, below
<1>10. hits = [left \in 1..n |-> next(left, hits[left - 1])]
  BY <1>9, Zenon DEF rest, below
<1> HIDE DEF hits, step
<1>11. ASSUME NEW left \in 1..n, NEW i \in D
       PROVE  hits[left][i] = IF ~Named(t, segments, left, i) THEN <<>>
                              ELSE IF left = 1 THEN <<i>> ELSE below(i, hits[left - 1])
  <2>1. hits[left] = next(left, hits[left - 1])
    <3> HIDE DEF next
    <3>1. QED
      BY <1>10
  <2>2. QED
    BY <2>1, Zenon DEF Named
<1>12. ASSUME NEW left \in 1..n, NEW h \in V, hits[left] = next(left, h)
       PROVE  hits[left] \in V
  BY <1>4, <1>12, Zenon
<1>13. \A left \in 1..n : hits[left] = next(left, hits[left - 1])
  <2> HIDE DEF next
  <2>1. QED
    BY <1>10
<1>14. 0 \in T
  BY <1>2
<1>15. ASSUME NEW k \in 0..n, k \in T, k + 1 <= n
       PROVE  k + 1 \in T
  <2>1. k + 1 \in 1..n /\ k + 1 \in 0..n /\ k \in Nat /\ (k + 1) - 1 = k
    <3> HIDE DEF n
    <3>1. n \in Nat /\ k \in 0..n /\ k + 1 <= n
      BY <1>2, <1>15
    <3>2. QED
      BY <3>1
  <2>2. CASE k = 0
    <3>0. 1 \in 1..n
      BY <1>2
    <3>1. \A i \in D : hits[1][i] = IF Named(t, segments, 1, i) THEN <<i>> ELSE <<>>
      <4> HIDE DEF D
      <4>1. QED
        BY <1>11, <3>0
    <3>2. \A i \in D : /\ Reach(t, segments, 1, i) = IF Named(t, segments, 1, i) THEN {i} ELSE {}
                       /\ ToSet(<<i>>) = {i}
      BY ReachLast DEF ToSet
    <3>3. ToSet(<<>>) = {}
      BY DEF ToSet
    <3>4. \A i \in D : ToSet(hits[1][i]) = Reach(t, segments, 1, i)
      BY <3>1, <3>2, <3>3
    <3>5. hits[1] \in V
      <4>1. 1 \in 1..n
        BY <1>2
      <4>2. hits[1] = next(1, hits[1 - 1])
        BY <1>13, <4>1, Zenon
      <4>3. next(1, hits[1 - 1]) = next(1, [i \in D |-> <<>>])
        <5>1. \A g : next(1, g) = [i \in D |-> IF t[i].name # segments[n + 1 - 1] THEN <<>> ELSE <<i>>]
          OBVIOUS
        <5> HIDE DEF next
        <5>2. QED
          BY <5>1, Zenon
      <4> HIDE DEF next, V
      <4>4. QED
        BY <1>4, <1>6, <4>1, <4>2, <4>3
    <3>6. k + 1 = 1
      BY <2>2
    <3> HIDE DEF V
    <3>7. QED
      BY <2>1, <3>4, <3>5, <3>6
  <2>3. CASE k # 0
    <3>1. hits[k] \in V /\ \A i \in D : ToSet(hits[k][i]) = Reach(t, segments, k, i)
      BY <1>15, <2>1, <2>3
    <3>2. hits[k + 1] = next(k + 1, hits[k])
      <4> HIDE DEF next
      <4>1. hits[k + 1] = next(k + 1, hits[(k + 1) - 1])
        BY <1>13, <2>1, Zenon
      <4>2. QED
        BY <2>1, <4>1, Zenon
    <3>3. hits[k + 1] \in V
      BY <1>12, <2>1, <3>1, <3>2, Zenon
    <3>4. ASSUME NEW i \in D
          PROVE  ToSet(hits[k + 1][i]) = Reach(t, segments, k + 1, i)
      <4>1. k \in Nat \ {0} /\ k + 1 <= Len(segments)
        BY <1>15, <2>1, <2>3
      <4>2. Reach(t, segments, k + 1, i) =
              IF Named(t, segments, k + 1, i)
              THEN UNION {Reach(t, segments, k, s) : s \in Inside(t, i)} ELSE {}
        BY <4>1, ReachOn
      <4>3. hits[k + 1][i] = IF ~Named(t, segments, k + 1, i) THEN <<>> ELSE below(i, hits[k])
        <5>1. hits[k + 1][i] = IF ~Named(t, segments, k + 1, i) THEN <<>>
                               ELSE IF k + 1 = 1 THEN <<i>> ELSE below(i, hits[(k + 1) - 1])
          BY <1>11, <2>1, Zenon
        <5>2. k + 1 # 1
          BY <2>1, <2>3
        <5>3. QED
          BY <2>1, <5>1, <5>2, Zenon
      <4>4. ToSet(below(i, hits[k])) = UNION {ToSet(hits[k][s]) : s \in Inside(t, i)}
        BY <1>3, <3>1
      <4>5. Inside(t, i) \subseteq D
        BY DEF Inside
      <4>6. UNION {ToSet(hits[k][s]) : s \in Inside(t, i)} = UNION {Reach(t, segments, k, s) : s \in Inside(t, i)}
        BY <3>1, <4>5
      <4>7. ToSet(<<>>) = {}
        BY DEF ToSet
      <4>8. QED
        BY <4>2, <4>3, <4>4, <4>6, <4>7, Zenon
    <3> HIDE DEF V
    <3>5. QED
      BY <2>1, <3>3, <3>4
  <2>4. QED
    BY <2>2, <2>3
<1>16. n \in T
  <2> HIDE DEF T
  <2>1. 0..n \subseteq T
    BY <1>2, <1>14, <1>15, Inductive
  <2>2. QED
    BY <1>2, <2>1
<1>17. hits[n] \in V /\ \A i \in D : ToSet(hits[n][i]) = Reach(t, segments, n, i)
  BY <1>2, <1>16
<1>18. /\ HitsOf(symbols, hits[n]) \in Seq(D)
       /\ ToSet(HitsOf(symbols, hits[n])) = UNION {ToSet(hits[n][s]) : s \in ToSet(symbols)}
  BY <1>17, HitsOfElements
<1>19. ToSet(symbols) \subseteq D
  BY InSeq
<1>20. QED
  BY <1>1, <1>17, <1>18, <1>19

LEMMA PathType ==
  ASSUME NEW p \in Paths
  PROVE  p \in Seq(Segments) /\ p \in Seq(Names) /\ Len(p) \in 0..MaxSegments
<1>1. PICK n \in 0..MaxSegments : p \in [1..n -> Segments]
  BY DEF Paths
<1>2. n \in Nat /\ Segments \subseteq Names
  BY DEF Segments
<1>3. p \in Seq(Segments) /\ Len(p) = n
  BY <1>1, <1>2
<1>4. p \in Seq(Names)
  BY <1>1, <1>2
<1>5. QED
  BY <1>3, <1>4

LEMMA ForestType ==
  ASSUME NEW t \in Forest
  PROVE  t \in Seq(Symbols) /\ Nested(t) /\ Len(t) \in 0..MaxSymbols
<1>1. PICK n \in 0..MaxSymbols :
        /\ t \in [1..n -> [name : Names, depth : 0..(n - 1)]]
        /\ \A i \in 1..(n - 1) : t[i + 1].depth <= t[i].depth + 1
  BY DEF Forest
<1>2. [name : Names, depth : 0..(n - 1)] \subseteq Symbols
  BY DEF Symbols
<1>3. n \in Nat
  OBVIOUS
<1>4. t \in Seq(Symbols) /\ Len(t) = n
  BY <1>1, <1>2, <1>3
<1>5. QED
  BY <1>1, <1>4 DEF Nested

(* What a path stands for is what it reaches from the top. *)
LEMMA MeantReached ==
  ASSUME NEW t, NEW segments \in Seq(Names), segments # <<>>
  PROVE  Meant(t, segments) =
           UNION {Reach(t, segments, Len(segments), s) : s \in {j \in DOMAIN t : t[j].depth = 0}}
<1> DEFINE n == Len(segments)
           tops == {j \in DOMAIN t : t[j].depth = 0}
<1>1. n \in Nat \ {0}
  BY LenProperties
<1>2. \A k : k \in 1..n => n - n + k = k
  BY <1>1
<1>3. ASSUME NEW i \in Meant(t, segments)
      PROVE  \E s \in tops : i \in Reach(t, segments, n, s)
  <2>1. PICK chain \in [1..n -> DOMAIN t] :
          /\ chain[n] = i
          /\ t[chain[1]].depth = 0
          /\ \A k \in 1..n : t[chain[k]].name = segments[k]
          /\ \A k \in 1..(n - 1) : chain[k + 1] \in Inside(t, chain[k])
    BY DEF Meant
  <2>2. Chain(t, segments, n, chain[1], i, chain)
    BY <1>2, <2>1 DEF Chain
  <2>3. chain[1] \in tops
    BY <1>1, <2>1
  <2>4. i \in DOMAIN t
    BY DEF Meant
  <2>5. QED
    BY <2>2, <2>3, <2>4 DEF Reach
<1>4. ASSUME NEW s \in tops, NEW i \in Reach(t, segments, n, s)
      PROVE  i \in Meant(t, segments)
  <2>1. PICK chain : Chain(t, segments, n, s, i, chain)
    BY DEF Reach
  <2>2. /\ chain \in [1..n -> DOMAIN t] /\ chain[n] = i /\ t[chain[1]].depth = 0
        /\ \A k \in 1..(n - 1) : chain[k + 1] \in Inside(t, chain[k])
    BY <2>1 DEF Chain
  <2>3. \A k \in 1..n : t[chain[k]].name = segments[k]
    BY <1>2, <2>1 DEF Chain
  <2>4. i \in DOMAIN t
    BY DEF Reach
  <2>5. QED
    BY <2>2, <2>3, <2>4 DEF Meant
<1>5. QED
  BY <1>3, <1>4

(* A path's exact hits are what it stands for, each once. *)
LEMMA ExactElements ==
  ASSUME NEW t \in Seq(Symbols), Nested(t), NEW segments \in Paths \ {<<>>}
  PROVE  /\ ExactHits(t, segments) \in Seq(DOMAIN t)
         /\ ToSet(ExactHits(t, segments)) = Meant(t, segments)
         /\ Distinct(ExactHits(t, segments))
<1> DEFINE tops == {j \in DOMAIN t : t[j].depth = 0}
           q == MatchSegments(t, Roots(t), segments)
<1>1. segments \in Seq(Names) /\ segments # <<>>
  BY PathType
<1>2. Roots(t) = Walked(t, tops)
  BY DEF Roots
<1>3. tops \subseteq DOMAIN t
  OBVIOUS
<1> HIDE DEF tops
<1>4. Roots(t) \in Seq(tops) /\ ToSet(Roots(t)) = tops
  BY <1>1, <1>2, <1>3, WalkedElements
<1>5. Roots(t) \in Seq(DOMAIN t)
  <2>1. \A S, r : S \subseteq DOMAIN t /\ r \in Seq(S) => r \in Seq(DOMAIN t)
    OBVIOUS
  <2>2. QED
    BY <1>3, <1>4, <2>1
<1>6. /\ q \in Seq(DOMAIN t)
      /\ ToSet(q) = UNION {Reach(t, segments, Len(segments), s) : s \in tops}
  BY <1>1, <1>4, <1>5, MatchElements
<1>7. ToSet(q) = Meant(t, segments)
  BY <1>1, <1>6, MeantReached DEF tops
<1>8. ExactHits(t, segments) = DedupeHits(q)
  BY DEF ExactHits
<1> HIDE DEF q
<1>9. QED
  BY <1>6, <1>7, <1>8, DedupeElements

(* The document stays as it is while a call looks into it. *)
LEMMA TreeStays == ResolveSpec => [](tree \in Forest)
<1>1. ResolveInit => tree \in Forest
  BY DEF ResolveInit
<1>2. tree \in Forest /\ [ResolveNext]_resolveVars => (tree \in Forest)'
  <2>1. [ResolveNext]_resolveVars => tree' = tree
    BY DEF ResolveNext, resolveVars, Start, FileAnswers, Place, DocumentOpens, SymbolsAnswer,
           IndexAnswers, TextAnswers, ProbeFails, ProbeTimesOut, Unanswered, StepOfLookup,
           RefreshSkips, RefreshAsks, RefreshPlaces, Reply, StartRefresh, Tick
  <2>2. QED
    BY <2>1
<1>3. QED
  BY <1>1, <1>2, PTL DEF ResolveSpec

(* The tolerant descent of matchSegments finds what a path means, nothing  *)
(* else, and each of it once, in every document.                           *)
THEOREM MatchCorrect == ResolveSpec => []MatchIsDescent
<1>1. tree \in Forest => MatchIsDescent
  <2>1. SUFFICES ASSUME tree \in Forest, NEW segments \in Paths \ {<<>>}
                 PROVE  /\ ToSet(ExactHits(tree, segments)) = Meant(tree, segments)
                        /\ Len(ExactHits(tree, segments))
                             = Cardinality(ToSet(ExactHits(tree, segments)))
    BY Zenon DEF MatchIsDescent
  <2>2. /\ ExactHits(tree, segments) \in Seq(DOMAIN tree)
        /\ ToSet(ExactHits(tree, segments)) = Meant(tree, segments)
        /\ Distinct(ExactHits(tree, segments))
    BY <2>1, ExactElements, ForestType
  <2>3. QED
    BY <2>2, DistinctLen
<1>2. QED
  BY <1>1, TreeStays, PTL

-----------------------------------------------------------------------------
(* The inductive invariant: what a pass has asked, how long it has waited, *)
(* and what a refresh will be told again.                                  *)

(* Who has not asked has no lookup; who has asked awaits one that began.   *)
Asking ==
  /\ \A n \in Nodes : Probing(n) => lookup[n].path # <<>>
  /\ \A n \in Nodes : lookup[n].overdue => Probing(n)
  /\ \A n \in Nodes : phase[n] \in {"waiting", "file"} => lookup[n].stage = "none"
  /\ \A n \in Nodes : phase[n] = "symbol" => joined[n] # 0 /\ lookup[joined[n]].stage # "none"
  /\ mode = "resolving" =>
       /\ \A k \in Keys : owner[k] # 0 => lookup[owner[k]].stage # "none"
       /\ \A n \in Nodes : Probing(n) => lookup[n].doc = Code
  /\ mode # "resolving" => \A n \in Nodes : phase[n] # "file"

(* The timeouts a lookup may have cost so far. *)
Rank(at) ==
  CASE at = "symbols" -> 1 [] at = "index" -> 2 [] at = "text" -> 3
    [] at = "settled" -> 4 [] OTHER -> 0
Spent(l) == Rank(l.stage) + IF l.overdue THEN 1 ELSE 0

(* A node waits four timeouts for each of the nodes it is under, then as   *)
(* long as the lookup it awaits.                                           *)
InTime ==
  mode = "resolving" =>
    \A n \in Nodes :
      /\ phase[n] \in {"waiting", "file"} => now <= 4 * (Level(n) - 1)
      /\ phase[n] = "symbol" => now <= 4 * (Level(n) - 1) + Spent(lookup[joined[n]])

(* What the symbols of a document answer to a path. *)
Hits(t, path) == IF ExactHits(t, path) # <<>> THEN ExactHits(t, path) ELSE FuzzyHits(t, path)

(* What the document's own symbols gave: asked again for the path it was   *)
(* found under, a symbol is found again.                                   *)
Again(loc) ==
  loc.status = "ok" /\ loc.hit # Indexed /\ loc.doc # NoFile /\ loc.path # <<>> =>
    loc.doc = Code /\ Hits(tree, loc.path) = <<loc.hit>>

AllAgain ==
  /\ mode \in {"resolving", "resolved"} => \A n \in Nodes : Again(location[n])
  /\ mode = "resolving" => \A n \in Nodes : lookup[n].stage = "settled" => Again(lookup[n].found)
  /\ \A n \in Nodes : Again(before[n])

(* A lookup of a refresh that gets its answers ends where it began. *)
Repeats(l, was) ==
  /\ was.doc # NoFile /\ was.path # <<>>
  /\ \/ l.stage \in {"open", "symbols"} /\ l.doc = was.doc /\ l.path = was.path
     \/ /\ l.stage = "settled" /\ l.found.status = "ok"
        /\ l.found.doc = was.doc /\ l.found.hit = was.hit

Kept ==
  mode \in {"refreshing", "refreshed"} =>
    \A n \in Nodes :
      /\ joined[n] = n
      /\ phase[n] # "done" => location[n] = before[n]
      /\ ~silent /\ before[n].status = "ok" /\ before[n].hit # Indexed =>
           /\ location[n] = before[n]
           /\ phase[n] = "symbol" => Repeats(lookup[n], before[n])

ResolveInv == ResolveTypeOK /\ Asking /\ InTime /\ AllAgain /\ Kept

-----------------------------------------------------------------------------
(* Found once, found again. *)

LEMMA Alone ==
  ASSUME NEW V, NEW q \in Seq(V), Distinct(q), NEW e, ToSet(q) = {e}
  PROVE  q = <<e>>
<1>1. Len(q) \in Nat /\ DOMAIN q = 1..Len(q) /\ ToSet(q) = {q[i] : i \in 1..Len(q)}
  BY LenProperties, InSeq
<1>2. Len(q) = Cardinality({e})
  BY DistinctLen
<1>3. Len(q) = 1
  BY <1>2, FS_Singleton
<1>4. q[1] = e
  BY <1>1, <1>3
<1>5. QED
  BY <1>1, <1>3, <1>4

LEMMA FuzzyElements ==
  ASSUME NEW t \in Seq(Symbols), NEW segments
  PROVE  /\ FuzzyHits(t, segments) \in Seq(DOMAIN t)
         /\ ToSet(FuzzyHits(t, segments)) =
              {j \in DOMAIN t : t[j].name = Last(segments) \/ Spelled[t[j].name] = segments}
         /\ Distinct(FuzzyHits(t, segments))
<1> DEFINE S == {j \in DOMAIN t : t[j].name = Last(segments) \/ Spelled[t[j].name] = segments}
           q == MatchFuzzy(t, segments)
<1>1. q = Walked(t, S) /\ S \subseteq DOMAIN t
  BY DEF MatchFuzzy
<1> HIDE DEF S
<1>2. q \in Seq(S) /\ ToSet(q) = S
  BY <1>1, WalkedElements
<1>3. q \in Seq(DOMAIN t)
  <2> HIDE DEF q
  <2>1. QED
    BY <1>1, <1>2
<1>4. FuzzyHits(t, segments) = DedupeHits(q)
  BY DEF FuzzyHits
<1> HIDE DEF q
<1>5. QED
  BY <1>2, <1>3, <1>4, DedupeElements DEF S

LEMMA HitsType ==
  ASSUME NEW t \in Seq(Symbols), Nested(t), NEW path \in Paths \ {<<>>}
  PROVE  Hits(t, path) \in Seq(DOMAIN t) /\ Len(Hits(t, path)) \in Nat
         /\ (Hits(t, path) # <<>> => Hits(t, path)[1] \in DOMAIN t)
<1>1. Hits(t, path) \in Seq(DOMAIN t)
  BY ExactElements, FuzzyElements DEF Hits
<1>2. QED
  BY <1>1

LEMMA LastOfPath ==
  ASSUME NEW path \in Paths \ {<<>>}
  PROVE  /\ Last(path) \in Names /\ Spelled[Last(path)] = <<Last(path)>>
         /\ path = <<path[1]>> => Last(path) = path[1]
<1>1. path \in Seq(Segments) /\ Len(path) \in Nat /\ path # <<>>
  BY PathType
<1>2. Len(path) \in 1..Len(path) /\ path[Len(path)] \in Segments
  BY <1>1
<1>3. Last(path) \in Segments
  BY <1>2 DEF Last
<1>4. path = <<path[1]>> => Last(path) = path[1]
  <2>1. SUFFICES ASSUME path = <<path[1]>> PROVE Last(path) = path[1]
    OBVIOUS
  <2>2. Len(path) = 1
    BY <2>1
  <2>3. QED
    BY <2>2 DEF Last
<1>5. QED
  BY <1>3, <1>4 DEF Segments

(* What a path of one segment stands for has its name. *)
LEMMA MeantByName ==
  ASSUME NEW t, NEW s
  PROVE  Meant(t, <<s>>) \subseteq {j \in DOMAIN t : t[j].name = s}
<1>1. Len(<<s>>) = 1 /\ <<s>>[1] = s /\ 1 \in 1..1
  OBVIOUS
<1>2. QED
  BY <1>1 DEF Meant

(* A symbol a fuzzy pass finds alone is found alone under its own name. *)
LEMMA FuzzyAgain ==
  ASSUME NEW t \in Seq(Symbols), Nested(t), NEW path \in Paths \ {<<>>},
         ExactHits(t, path) = <<>>, NEW i \in DOMAIN t, FuzzyHits(t, path) = <<i>>
  PROVE  /\ Spelled[t[i].name] \in Paths \ {<<>>}
         /\ Hits(t, Spelled[t[i].name]) = <<i>>
<1> DEFINE name == t[i].name
           own == Spelled[name]
<1>1. \A j \in DOMAIN t : t[j].name \in Names
  <2>1. \A j \in DOMAIN t : t[j] \in Symbols
    BY ElementOfSeq, LenProperties
  <2>2. QED
    BY <2>1 DEF Symbols
<1>2. own \in Paths \ {<<>>}
  BY <1>1, NamesAssumption
<1>3. {j \in DOMAIN t : t[j].name = Last(path) \/ Spelled[t[j].name] = path} = {i}
  <2>1. ToSet(<<i>>) = {i}
    BY DEF ToSet
  <2>2. QED
    BY <2>1, FuzzyElements
<1>4. CASE own = path
  <2>1. Hits(t, path) = <<i>>
    BY DEF Hits
  <2>2. QED
    BY <1>2, <1>4, <2>1, Zenon
<1>5. CASE name = Last(path)
  <2>1. own = <<name>>
    BY <1>5, LastOfPath
  <2>2. \A j \in DOMAIN t : t[j].name = name <=> j = i
    BY <1>3, <1>5
  <2>3. <<name>> \in Paths \ {<<>>}
    BY <1>2, <2>1, Zenon
  <2>4. Last(<<name>>) = name
    BY DEF Last
  <2>5. ToSet(FuzzyHits(t, <<name>>)) = {i}
    <3>1. \A j \in DOMAIN t : Spelled[t[j].name] = <<name>> => t[j].name = name
      BY <1>1, <2>1, NamesAssumption
    <3>2. {j \in DOMAIN t : t[j].name = Last(<<name>>) \/ Spelled[t[j].name] = <<name>>} = {i}
      BY <2>2, <2>4, <3>1
    <3> HIDE DEF name
    <3>3. QED
      BY <3>2, FuzzyElements
  <2>6. FuzzyHits(t, <<name>>) = <<i>>
    <3> HIDE DEF name
    <3> DEFINE q == FuzzyHits(t, <<name>>)
    <3>1. q \in Seq(DOMAIN t) /\ Distinct(q) /\ ToSet(q) = {i}
      BY <2>5, FuzzyElements
    <3> HIDE DEF q
    <3>2. q = <<i>>
      BY <3>1, Alone
    <3>3. QED
      BY <3>2 DEF q
  <2>7. /\ ExactHits(t, <<name>>) \in Seq(DOMAIN t) /\ Distinct(ExactHits(t, <<name>>))
        /\ ToSet(ExactHits(t, <<name>>)) \subseteq {i}
    <3>1. Meant(t, <<name>>) \subseteq {i}
      BY <2>2, MeantByName
    <3> HIDE DEF name
    <3>2. QED
      BY <2>3, <3>1, ExactElements
  <2>8. CASE ExactHits(t, <<name>>) = <<>>
    BY <1>2, <2>1, <2>6, <2>8 DEF Hits
  <2>9. CASE ExactHits(t, <<name>>) # <<>>
    <3> HIDE DEF name, own
    <3> DEFINE q == ExactHits(t, <<name>>)
    <3>0. q \in Seq(DOMAIN t) /\ Distinct(q) /\ ToSet(q) \subseteq {i} /\ q # <<>>
      BY <2>7, <2>9
    <3> HIDE DEF q
    <3>1. ToSet(q) = {i}
      <4>1. 1 \in DOMAIN q
        BY <3>0
      <4>2. q[1] \in ToSet(q)
        BY <4>1 DEF ToSet
      <4>3. QED
        BY <3>0, <4>2
    <3>2. ExactHits(t, <<name>>) = <<i>>
      <4>1. q = <<i>>
        BY <3>0, <3>1, Alone
      <4>2. QED
        BY <4>1 DEF q
    <3>3. Hits(t, own) = <<i>>
      BY <2>1, <2>9, <3>2, Zenon DEF Hits
    <3>4. QED
      BY <1>2, <3>3 DEF own, name
  <2>10. QED
    BY <2>8, <2>9
<1>6. QED
  BY <1>3, <1>4, <1>5

LEMMA TreeType ==
  ASSUME tree \in Forest
  PROVE  tree \in Seq(Symbols) /\ Nested(tree) /\ DOMAIN tree \subseteq 0..Indexed
<1>1. tree \in Seq(Symbols) /\ Nested(tree) /\ Len(tree) \in 0..MaxSymbols
  BY ForestType
<1>2. DOMAIN tree \subseteq 0..Indexed
  BY <1>1, NamesAssumption DEF Indexed
<1>3. QED
  BY <1>1, <1>2

LEMMA CodeIsNotElsewhere == Code # Elsewhere
<1>1. SUFFICES ASSUME Code = Elsewhere PROVE FALSE
  OBVIOUS
<1>2. {Code, Outside, Elsewhere, NoFile} = (({Elsewhere} \cup {Outside}) \cup {NoFile})
  BY <1>1
<1>3. IsFiniteSet({Elsewhere}) /\ Cardinality({Elsewhere}) = 1
  BY FS_Singleton
<1>4. /\ IsFiniteSet({Elsewhere} \cup {Outside})
      /\ Cardinality({Elsewhere} \cup {Outside}) \in {1, 2}
  BY <1>3, FS_AddElement
<1>5. Cardinality(({Elsewhere} \cup {Outside}) \cup {NoFile}) \in {1, 2, 3}
  BY <1>4, FS_AddElement
<1>6. Cardinality({Code, Outside, Elsewhere, NoFile}) = 4
  BY DraftsAssumption
<1>7. Cardinality(({Elsewhere} \cup {Outside}) \cup {NoFile}) = 4
  BY <1>2, <1>6, Zenon
<1>8. QED
  BY <1>5, <1>7

-----------------------------------------------------------------------------
(* The levels of a block. *)

LEMMA DraftType ==
  ASSUME block \in Drafts
  PROVE  /\ Len(block) \in Nat /\ Nodes = 1..Len(block) /\ block \in [Nodes -> Node]
         /\ \A n \in Nodes : block[n].up \in Nat /\ block[n].up < n
<1>1. block \in Seq(Node) /\ \A n \in DOMAIN block : block[n].up < n
  BY DraftsAssumption
<1>2. Len(block) \in Nat /\ Nodes = 1..Len(block) /\ block \in [Nodes -> Node]
  BY <1>1 DEF Nodes
<1>3. \A n \in Nodes : block[n].up \in Nat
  BY <1>2 DEF Node
<1>4. QED
  BY <1>1, <1>2, <1>3 DEF Nodes

(* A node is under its parent, and under what that is under. *)
LEMMA UnderParent ==
  ASSUME block \in Drafts, NEW m
  PROVE  /\ \A n \in Nodes : Under(n, m) <=> block[n].up = m \/ Under(block[n].up, m)
         /\ ~Under(0, m)
<1> DEFINE N == Len(block)
           V == SUBSET (0..N)
           next(i, s) == IF block[i].up = m \/ block[i].up \in s THEN s \cup {i} ELSE s
           step == [x \in (1..N) \X V |-> next(x[1], x[2])]
           under[k \in 0..N] == k # 0 /\ (block[k].up = m \/ under[block[k].up])
<1>1. N \in Nat /\ Nodes = 1..N /\ \A n \in 1..N : block[n].up \in 0..N /\ block[n].up < n
  BY DraftType
<1> HIDE DEF N
<1>2. {} \in V /\ step \in StepsIn(N, V)
  <2>1. \A i \in 1..N : \A s \in V : next(i, s) \in V
    BY <1>1
  <2> HIDE DEF V, next
  <2>2. step \in StepsIn(N, V)
    BY <2>1 DEF StepsIn
  <2>3. QED
    BY <2>2 DEF V
<1>3. PICK g : g \in [0..N -> V] /\ Recursive(g, N, {}, step)
  <2> HIDE DEF V, step
  <2>1. QED
    BY <1>1, <1>2, RecursionExists
<1>4. g[0] = {} /\ \A i \in 1..N : g[i] = next(i, g[i - 1])
  <2>1. ASSUME NEW i \in 1..N
        PROVE  g[i] = next(i, g[i - 1])
    <3>1. g[i - 1] \in V
      BY <1>1, <1>3
    <3>2. step[<<i, g[i - 1]>>] = next(i, g[i - 1])
      <4> DEFINE s == g[i - 1]
      <4> HIDE DEF s, next, V
      <4>1. s \in V
        BY <3>1 DEF s
      <4>2. step[<<i, s>>] = next(i, s)
        BY <4>1
      <4>3. QED
        BY <4>2 DEF s
    <3> HIDE DEF step, next
    <3>3. QED
      BY <1>3, <3>2 DEF Recursive
  <2> HIDE DEF next, step
  <2>2. QED
    BY <1>3, <2>1 DEF Recursive
<1> HIDE DEF step
(* Each step decides its own member. *)
<1> DEFINE T == {n \in 0..N : /\ g[n] \subseteq 1..n
                              /\ \A k \in 1..n : k \in g[n] <=> k \in g[k]}
<1>5. 0..N \subseteq T
  <2>1. 0 \in T
    BY <1>1, <1>4
  <2>2. ASSUME NEW n \in 0..N, n \in T, n + 1 <= N
        PROVE  n + 1 \in T
    <3>1. n + 1 \in 1..N /\ n + 1 \in 0..N /\ (n + 1) - 1 = n
      BY <1>1, <2>2
    <3>2. g[n + 1] = next(n + 1, g[n])
      <4> HIDE DEF next
      <4>1. g[n + 1] = next(n + 1, g[(n + 1) - 1])
        BY <1>4, <3>1, Zenon
      <4>2. QED
        BY <3>1, <4>1, Zenon
    <3>3. g[n + 1] = g[n] \/ g[n + 1] = g[n] \cup {n + 1}
      BY <3>2
    <3>4. g[n] \subseteq 1..n /\ \A k \in 1..n : k \in g[n] <=> k \in g[k]
      BY <2>2
    <3>5. g[n + 1] \subseteq 1..(n + 1)
      BY <1>1, <3>3, <3>4
    <3>6. \A k \in 1..(n + 1) : k \in g[n + 1] <=> k \in g[k]
      BY <1>1, <3>3, <3>4
    <3>7. QED
      BY <3>1, <3>5, <3>6
  <2> HIDE DEF T
  <2>3. QED
    BY <1>1, <2>1, <2>2, Inductive
<1>6. ASSUME NEW k \in 1..N
      PROVE  k \in g[k] <=> block[k].up = m \/ block[k].up \in g[block[k].up]
  <2> DEFINE up == block[k].up
  <2>1. k - 1 \in 0..N /\ up \in 0..(k - 1) /\ k \notin 1..(k - 1)
    BY <1>1
  <2>2. g[k - 1] \subseteq 1..(k - 1) /\ \A i \in 1..(k - 1) : i \in g[k - 1] <=> i \in g[i]
    BY <1>5, <2>1
  <2>3. up \in g[k - 1] <=> up \in g[up]
    BY <1>4, <2>1, <2>2
  <2>4. g[k] = next(k, g[k - 1])
    BY <1>4
  <2>5. k \in g[k] <=> up = m \/ up \in g[k - 1]
    BY <2>1, <2>2, <2>4
  <2>6. QED
    BY <2>3, <2>5
<1> DEFINE h == [k \in 0..N |-> k \in g[k]]
<1>7. h = [k \in 0..N |-> k # 0 /\ (block[k].up = m \/ h[block[k].up])]
  <2>1. ASSUME NEW k \in 0..N
        PROVE  h[k] = (k # 0 /\ (block[k].up = m \/ h[block[k].up]))
    <3>1. CASE k = 0
      BY <1>4, <3>1
    <3>2. CASE k # 0
      <4>1. k \in 1..N /\ block[k].up \in 0..N
        BY <1>1, <3>2
      <4>2. h[k] = (k \in g[k]) /\ h[block[k].up] = (block[k].up \in g[block[k].up])
        BY <4>1, Zenon
      <4> HIDE DEF h
      <4>3. k \in g[k] <=> block[k].up = m \/ h[block[k].up]
        BY <1>6, <4>1, <4>2, Zenon
      <4>4. (k \in g[k]) = (k # 0 /\ (block[k].up = m \/ h[block[k].up]))
        BY <3>2, <4>3
      <4>5. QED
        BY <4>2, <4>4, Zenon
    <3>3. QED
      BY <3>1, <3>2
  <2>2. QED
    BY <2>1, Zenon
<1> HIDE DEF h
<1>8. under = [k \in 0..N |-> k # 0 /\ (block[k].up = m \/ under[block[k].up])]
  BY <1>7, Zenon
<1> HIDE DEF under
<1>9. \A n : Under(n, m) <=> under[n]
  BY DEF Under, Descends, under, N
<1>10. ASSUME NEW n \in 1..N
       PROVE  under[n] <=> block[n].up = m \/ under[block[n].up]
  <2>1. n \in 0..N /\ n # 0
    BY <1>1
  <2>2. under[n] <=> n # 0 /\ (block[n].up = m \/ under[block[n].up])
    BY <1>8, <2>1, Zenon
  <2>3. QED
    BY <2>1, <2>2, Zenon
<1>11. ~under[0]
  <2>1. 0 \in 0..N
    BY <1>1
  <2>2. under[0] <=> 0 # 0 /\ (block[0].up = m \/ under[block[0].up])
    BY <1>8, <2>1, Zenon
  <2>3. QED
    BY <2>2
<1>12. QED
  BY <1>1, <1>9, <1>10, <1>11, Zenon

(* A node is one level below its parent. *)
LEMMA LevelBelow ==
  ASSUME block \in Drafts, NEW n \in Nodes
  PROVE  /\ Level(n) \in Nat \ {0}
         /\ block[n].up # 0 => block[n].up \in Nodes /\ Level(n) = Level(block[n].up) + 1
<1> DEFINE N == Len(block)
           above(k) == {m \in Nodes : Under(k, m)}
<1>1. N \in Nat /\ Nodes = 1..N /\ \A k \in Nodes : block[k].up \in Nat /\ block[k].up < k
  BY DraftType
<1>2. IsFiniteSet(Nodes)
  BY <1>1, FS_Interval
<1>3. \A k : IsFiniteSet(above(k)) /\ Cardinality(above(k)) \in Nat
  <2>1. \A k : above(k) \subseteq Nodes
    OBVIOUS
  <2> HIDE DEF above
  <2>2. QED
    BY <1>2, <2>1, FS_Subset, FS_CardinalityType
<1>4. \A k \in Nodes : \A m \in Nodes : Under(k, m) => m < k
  <2> DEFINE T == {k \in 0..N : \A j \in 1..k : \A m \in Nodes : Under(j, m) => m < j}
  <2>1. 0 \in T
    BY <1>1
  <2>2. ASSUME NEW k \in 0..N, k \in T, k + 1 <= N
        PROVE  k + 1 \in T
    <3>1. k + 1 \in Nodes /\ k + 1 \in 0..N
      BY <1>1, <2>2
    <3>2. ASSUME NEW m \in Nodes, Under(k + 1, m)
          PROVE  m < k + 1
      <4> DEFINE up == block[k + 1].up
      <4>1. up \in Nat /\ up < k + 1 /\ m \in Nat
        BY <1>1, <3>1
      <4>2. up = m \/ Under(up, m)
        BY <3>1, <3>2, UnderParent
      <4>3. Under(up, m) => up # 0
        BY UnderParent
      <4> HIDE DEF up
      <4>4. Under(up, m) => m < up
        <5>1. up # 0 => up \in 1..k
          BY <1>1, <4>1
        <5>2. QED
          BY <2>2, <4>3, <5>1
      <4>5. QED
        BY <1>1, <4>1, <4>2, <4>4
    <3>3. \A j \in 1..(k + 1) : j \in 1..k \/ j = k + 1
      OBVIOUS
    <3>4. QED
      BY <2>2, <3>1, <3>2, <3>3
  <2> HIDE DEF T
  <2>3. 0..N \subseteq T
    BY <1>1, <2>1, <2>2, Inductive
  <2>4. N \in T
    BY <1>1, <2>3
  <2>5. QED
    BY <1>1, <2>4 DEF T
<1>5. Level(n) = 1 + Cardinality(above(n))
  BY DEF Level
<1>6. ASSUME block[n].up # 0
      PROVE  block[n].up \in Nodes /\ Level(n) = Level(block[n].up) + 1
  <2> DEFINE up == block[n].up
  <2>1. up \in Nodes /\ up \in Nat
    BY <1>1, <1>6
  <2>2. above(n) = above(up) \cup {up}
    BY <2>1, UnderParent
  <2>3. up \notin above(up)
    BY <1>4, <2>1
  <2>4. Level(up) = 1 + Cardinality(above(up))
    BY DEF Level
  <2> HIDE DEF up, above
  <2>5. Cardinality(above(n)) = Cardinality(above(up)) + 1
    BY <1>3, <2>2, <2>3, FS_AddElement
  <2>6. QED
    BY <1>3, <1>5, <2>1, <2>4, <2>5 DEF up
<1> HIDE DEF above
<1>7. QED
  BY <1>3, <1>5, <1>6

-----------------------------------------------------------------------------
(* A step of a lookup. *)

Progress(n, at, found) ==
  /\ lookup' \in [Nodes -> Lookup]
  /\ \A m \in Nodes \ {n} : lookup'[m] = lookup[m]
  /\ lookup'[n].stage = at /\ lookup'[n].doc = lookup[n].doc
  /\ lookup'[n].path = lookup[n].path /\ ~lookup'[n].overdue /\ lookup'[n].found = found

(* Whatever its probe does, a lookup goes on, ends at what will be found   *)
(* again, and, answered about what it was asked before, answers the same.  *)
LookupStep(n, at, found) ==
  /\ n \in Nodes /\ Probing(n) /\ StepOfLookup
  /\ silent' \in BOOLEAN /\ (silent => silent')
  /\ at \in {"symbols", "index", "text", "settled"} /\ found \in Location
  /\ Progress(n, at, found)
  /\ Rank(at) > Rank(lookup[n].stage)
  /\ at = "settled" /\ mode = "resolving" => Again(found)
  /\ \A was \in Location :
       ~silent' /\ was.status = "ok" /\ was.hit # Indexed /\ Again(was) /\ Repeats(lookup[n], was) =>
         \/ at = "symbols"
         \/ /\ at = "settled" /\ found.status = "ok"
            /\ found.doc = was.doc /\ found.hit = was.hit

LEMMA LookupType ==
  ASSUME ResolveTypeOK, NEW n \in Nodes
  PROVE  /\ lookup \in [Nodes -> Lookup] /\ lookup[n] \in Lookup
         /\ lookup[n].stage \in Stages /\ lookup[n].doc \in Documents
         /\ lookup[n].path \in Paths /\ lookup[n].overdue \in BOOLEAN
         /\ lookup[n].found \in Location
<1>1. lookup \in [Nodes -> Lookup]
  BY DEF ResolveTypeOK
<1>2. lookup[n] \in Lookup
  BY <1>1
<1>3. QED
  BY <1>1, <1>2 DEF Lookup

LEMMA AdvanceIs ==
  ASSUME ResolveTypeOK, NEW n \in Nodes, NEW at \in Stages, Advance(n, at)
  PROVE  Progress(n, at, lookup[n].found)
<1>1. lookup \in [Nodes -> Lookup]
  BY LookupType
<1>2. QED
  BY <1>1 DEF Advance, Progress, Lookup

LEMMA SettlesIs ==
  ASSUME ResolveTypeOK, NEW n \in Nodes, NEW found \in Location, Settles(n, found)
  PROVE  Progress(n, "settled", found)
<1>1. lookup \in [Nodes -> Lookup] /\ "settled" \in Stages
  BY LookupType DEF Stages
<1>2. QED
  BY <1>1 DEF Settles, Progress, Lookup

LEMMA LocatedType ==
  ASSUME NEW status \in {"ok", "ambiguous", "unresolved", "stale"}, NEW doc \in Documents,
         NEW hit \in 0..Indexed, NEW path \in Paths
  PROVE  /\ Located(status, doc, hit, path) \in Location
         /\ status # "ok" => Again(Located(status, doc, hit, path))
<1>1. QED
  BY DEF Located, Location, Again

LEMMA NoPath == <<>> \in Paths /\ {0, 1, Indexed} \subseteq 0..Indexed
<1>1. 0 \in 0..MaxSegments /\ {0, 1, Indexed} \subseteq 0..Indexed
  BY NamesAssumption DEF Indexed
<1>2. <<>> \in [1..0 -> Segments]
  OBVIOUS
<1>3. QED
  BY <1>1, <1>2 DEF Paths

Looks(n) ==
  \/ DocumentOpens(n) \/ SymbolsAnswer(n) \/ IndexAnswers(n) \/ TextAnswers(n)
  \/ ProbeFails(n) \/ ProbeTimesOut(n)

LEMMA MatchSteps ==
  ASSUME ResolveTypeOK, Asking, NEW n \in Nodes, SymbolsAnswer(n), lookup[n].doc # Elsewhere
  PROVE  \E at, found : LookupStep(n, at, found)
<1> DEFINE l == lookup[n]
           t == tree
           exact == ExactHits(t, l.path)
           hits == Hits(t, l.path)
           kept == IF exact # <<>> THEN l.path ELSE FuzzyPath(t, l.path, hits[1])
           found == Located("ok", l.doc, hits[1], kept)
<1>1. /\ l.stage = "symbols" /\ Match(n, t) /\ UNCHANGED silent /\ StepOfLookup
  BY DEF SymbolsAnswer
<1>2. /\ Probing(n) /\ l.path \in Paths \ {<<>>} /\ l.doc \in Documents /\ l.found \in Location
      /\ tree \in Forest /\ silent \in BOOLEAN
  BY <1>1, LookupType DEF Asking, Probing, ResolveTypeOK
<1>3. t \in Seq(Symbols) /\ Nested(t) /\ DOMAIN t \subseteq 0..Indexed
  BY <1>2, TreeType
<1>4. hits \in Seq(DOMAIN t) /\ Len(hits) \in Nat /\ (hits # <<>> => hits[1] \in DOMAIN t)
  BY <1>2, <1>3, HitsType
<1>5. \/ Len(hits) = 1 /\ Settles(n, found)
      \/ Len(hits) > 1 /\ Settles(n, Located("ambiguous", l.doc, 0, l.path))
      \/ hits = <<>> /\ Advance(n, "index")
  BY <1>1, Zenon DEF Match, Hits
<1>6. \A was \in Location :
        ~silent' /\ was.status = "ok" /\ was.hit # Indexed /\ Again(was) /\ Repeats(l, was) =>
          hits = <<was.hit>> /\ was.doc = l.doc
  <2>1. SUFFICES ASSUME NEW was \in Location, was.status = "ok", was.hit # Indexed,
                        Again(was), Repeats(l, was)
                 PROVE  hits = <<was.hit>> /\ was.doc = l.doc
    OBVIOUS
  <2>2. was.doc # NoFile /\ was.path # <<>> /\ l.doc = was.doc /\ l.path = was.path
    BY <1>1, <2>1 DEF Repeats
  <2>3. Hits(tree, was.path) = <<was.hit>>
    BY <2>1, <2>2 DEF Again
  <2>4. QED
    BY <2>2, <2>3, Zenon
<1>7. CASE Len(hits) = 1 /\ Settles(n, found)
  <2>1. hits # <<>> /\ hits[1] \in DOMAIN t /\ hits = <<hits[1]>>
    BY <1>4, <1>7
  <2>2. kept \in Paths \ {<<>>} /\ Hits(t, kept) = hits
    <3>1. CASE exact # <<>>
      BY <1>2, <3>1
    <3>2. CASE exact = <<>>
      <4>1. FuzzyHits(t, l.path) = <<hits[1]>>
        BY <2>1, <3>2 DEF Hits
      <4>2. /\ Spelled[t[hits[1]].name] \in Paths \ {<<>>}
            /\ Hits(t, Spelled[t[hits[1]].name]) = <<hits[1]>>
        BY <1>2, <1>3, <2>1, <3>2, <4>1, FuzzyAgain
      <4>3. kept = Spelled[t[hits[1]].name]
        BY <3>2 DEF FuzzyPath
      <4> HIDE DEF hits, kept
      <4>4. QED
        BY <2>1, <4>2, <4>3, Zenon
    <3>3. QED
      BY <3>1, <3>2
  <2>3. hits[1] \in 0..Indexed
    BY <1>3, <2>1
  <2> HIDE DEF kept, exact
  <2>4. found \in Location
    BY <1>2, <2>2, <2>3, LocatedType
  <2>5. Progress(n, "settled", found)
    BY <1>7, <2>4, SettlesIs
  <2>6. mode = "resolving" => Again(found)
    <3>1. SUFFICES ASSUME mode = "resolving" PROVE Again(found)
      OBVIOUS
    <3>2. l.doc = Code
      BY <1>2, <3>1 DEF Asking
    <3>3. Hits(tree, kept) = <<hits[1]>>
      BY <2>1, <2>2, Zenon
    <3>4. found.doc = Code /\ found.path = kept /\ found.hit = hits[1]
      BY <3>2 DEF Located
    <3> HIDE DEF found, hits, l
    <3>5. QED
      BY <3>3, <3>4, Zenon DEF Again
  <2>7. \A was \in Location :
          ~silent' /\ was.status = "ok" /\ was.hit # Indexed /\ Again(was) /\ Repeats(l, was) =>
            found.status = "ok" /\ found.doc = was.doc /\ found.hit = was.hit
    <3>1. SUFFICES ASSUME NEW was \in Location,
                          ~silent' /\ was.status = "ok" /\ was.hit # Indexed /\ Again(was)
                          /\ Repeats(l, was)
                   PROVE  found.status = "ok" /\ found.doc = was.doc /\ found.hit = was.hit
      OBVIOUS
    <3>2. hits = <<was.hit>> /\ was.doc = l.doc
      BY <1>6, <3>1
    <3>3. hits[1] = was.hit
      BY <3>2
    <3>4. QED
      BY <3>2, <3>3 DEF Located
  <2>8. Rank("settled") > Rank(l.stage)
    BY <1>1 DEF Rank
  <2> HIDE DEF found
  <2>9. LookupStep(n, "settled", found)
    BY <1>1, <1>2, <2>4, <2>5, <2>6, <2>7, <2>8 DEF LookupStep
  <2>10. QED
    BY <2>9, Zenon
<1>8. CASE Len(hits) > 1 /\ Settles(n, Located("ambiguous", l.doc, 0, l.path))
  <2> DEFINE several == Located("ambiguous", l.doc, 0, l.path)
  <2>1. several \in Location /\ Again(several)
    BY <1>2, NoPath, LocatedType
  <2>2. Progress(n, "settled", several)
    BY <1>8, <2>1, SettlesIs
  <2>3. Rank("settled") > Rank(l.stage)
    BY <1>1 DEF Rank
  <2> HIDE DEF several, hits
  <2>4. \A e : hits # <<e>>
    <3>1. Len(hits) > 1
      BY <1>8, Zenon
    <3>2. ASSUME NEW e, hits = <<e>> PROVE FALSE
      <4>1. Len(<<e>>) = 1
        OBVIOUS
      <4>2. Len(hits) = 1
        BY <3>2, <4>1, Zenon
      <4>3. QED
        BY <3>1, <4>2, SMT
    <3>3. QED
      BY <3>2, Zenon
  <2>5. LookupStep(n, "settled", several)
    BY <1>1, <1>2, <1>6, <2>1, <2>2, <2>3, <2>4 DEF LookupStep
  <2>6. QED
    BY <2>5, Zenon
<1>9. CASE hits = <<>> /\ Advance(n, "index")
  <2>1. Progress(n, "index", l.found)
    BY <1>9, AdvanceIs DEF Stages
  <2>2. Rank("index") > Rank(l.stage)
    BY <1>1 DEF Rank
  <2>3. \A e : hits # <<e>>
    BY <1>9
  <2> HIDE DEF hits
  <2>4. LookupStep(n, "index", l.found)
    BY <1>1, <1>2, <1>6, <2>1, <2>2, <2>3 DEF LookupStep
  <2>5. QED
    BY <2>4, Zenon
<1>10. QED
  BY <1>5, <1>7, <1>8, <1>9

LEMMA LookupSteps ==
  ASSUME ResolveTypeOK, Asking, NEW n \in Nodes, Looks(n)
  PROVE  \E at, found : LookupStep(n, at, found)
<1> DEFINE l == lookup[n]
<1>1. /\ l.path \in Paths /\ l.doc \in Documents /\ l.found \in Location /\ silent \in BOOLEAN
      /\ (Probing(n) => l.path # <<>>)
  BY LookupType DEF Asking, ResolveTypeOK
(* Steps that go on to a stage, or settle for something other than a hit. *)
<1>2. ASSUME NEW at \in {"index", "text"}, Advance(n, at), Probing(n), StepOfLookup,
             silent' \in BOOLEAN, silent => silent',
             Rank(at) > Rank(l.stage), silent' \/ l.stage \notin {"open", "symbols"}
      PROVE  LookupStep(n, at, l.found)
  <2>1. Progress(n, at, l.found)
    BY <1>2, AdvanceIs DEF Stages
  <2>2. ~silent' => l.stage \notin {"open", "symbols", "settled"}
    BY <1>2 DEF Probing
  <2>3. QED
    BY <1>1, <1>2, <2>1, <2>2 DEF LookupStep, Repeats
<1>3. ASSUME NEW found \in Location, Settles(n, found), l.stage \in {"index", "text"},
             StepOfLookup, silent' \in BOOLEAN, silent => silent',
             mode = "resolving" => Again(found)
      PROVE  LookupStep(n, "settled", found)
  <2>1. Progress(n, "settled", found)
    BY <1>3, SettlesIs
  <2>2. Probing(n) /\ Rank("settled") > Rank(l.stage)
    BY <1>3 DEF Probing, Rank
  <2>3. QED
    BY <1>1, <1>3, <2>1, <2>2 DEF LookupStep, Repeats
<1>4. \A status \in {"ambiguous", "unresolved"} : \A path \in {l.path, <<>>} :
        /\ Located(status, l.doc, 0, path) \in Location
        /\ Again(Located(status, l.doc, 0, path))
  BY <1>1, NoPath, LocatedType
<1>5. CASE DocumentOpens(n)
  <2>1. l.stage = "open" /\ Advance(n, "symbols") /\ UNCHANGED silent /\ StepOfLookup
    BY <1>5 DEF DocumentOpens
  <2>2. Progress(n, "symbols", l.found)
    BY <2>1, AdvanceIs DEF Stages
  <2>3. Probing(n) /\ Rank("symbols") > Rank(l.stage)
    BY <2>1 DEF Probing, Rank
  <2>4. silent' \in BOOLEAN /\ (silent => silent')
    BY <1>1, <2>1
  <2>5. LookupStep(n, "symbols", l.found)
    BY <1>1, <2>1, <2>2, <2>3, <2>4 DEF LookupStep
  <2>6. QED
    BY <2>5, Zenon
<1>6. CASE SymbolsAnswer(n)
  <2>1. CASE l.doc # Elsewhere
    BY <1>6, <2>1, MatchSteps
  <2>2. CASE l.doc = Elsewhere
    <3>1. l.stage = "symbols" /\ MatchElsewhere(n) /\ UNCHANGED silent /\ StepOfLookup
      BY <1>6, <2>2 DEF SymbolsAnswer
    <3>2. silent' \in BOOLEAN /\ (silent => silent') /\ mode # "resolving"
      BY <1>1, <2>2, <3>1, CodeIsNotElsewhere DEF Asking, Probing
    <3>3. \A was \in Location :
            ~(was.status = "ok" /\ was.hit # Indexed /\ Again(was) /\ Repeats(l, was))
      BY <2>2, <3>1, CodeIsNotElsewhere DEF Again, Repeats
    <3>4. ASSUME NEW found \in Location, Settles(n, found)
          PROVE  LookupStep(n, "settled", found)
      <4>1. Progress(n, "settled", found)
        BY <3>4, SettlesIs
      <4>2. Probing(n) /\ Rank("settled") > Rank(l.stage)
        BY <3>1 DEF Probing, Rank
      <4>3. QED
        BY <3>1, <3>2, <3>3, <3>4, <4>1, <4>2 DEF LookupStep
    <3>5. ASSUME NEW path \in {l.path, <<Last(l.path)>>}, Settles(n, Located("ok", Elsewhere, 1, path))
          PROVE  LookupStep(n, "settled", Located("ok", Elsewhere, 1, path))
      <4>1. l.path \in Paths \ {<<>>}
        BY <1>1, <3>1 DEF Probing
      <4>2. path \in Paths
        BY <4>1, LastOfPath, NamesAssumption
      <4>3. Located("ok", Elsewhere, 1, path) \in Location
        BY <4>2, NoPath, LocatedType DEF Documents
      <4>4. QED
        BY <3>4, <3>5, <4>3
    <3>6. ASSUME Settles(n, Located("ambiguous", Elsewhere, 0, l.path))
          PROVE  LookupStep(n, "settled", Located("ambiguous", Elsewhere, 0, l.path))
      BY <1>4, <2>2, <3>4, <3>6
    <3>7. ASSUME Advance(n, "index")
          PROVE  LookupStep(n, "index", l.found)
      <4>1. Progress(n, "index", l.found)
        BY <3>7, AdvanceIs DEF Stages
      <4>2. Probing(n) /\ Rank("index") > Rank(l.stage)
        BY <3>1 DEF Probing, Rank
      <4>3. QED
        BY <1>1, <3>1, <3>2, <3>3, <4>1, <4>2 DEF LookupStep
    <3>8. QED
      BY <3>1, <3>5, <3>6, <3>7, Zenon DEF MatchElsewhere
  <2>3. QED
    BY <2>1, <2>2
<1>7. CASE IndexAnswers(n)
  <2>1. l.stage = "index" /\ UNCHANGED silent /\ StepOfLookup
    BY <1>7 DEF IndexAnswers
  <2>2. silent' \in BOOLEAN /\ (silent => silent')
    BY <1>1, <2>1
  <2>3. ASSUME NEW doc \in {Code, Elsewhere}, Settles(n, Located("ok", doc, Indexed, l.path))
        PROVE  LookupStep(n, "settled", Located("ok", doc, Indexed, l.path))
    <3> DEFINE found == Located("ok", doc, Indexed, l.path)
    <3>1. doc \in Documents
      BY DEF Documents
    <3>2. found \in Location
      BY <1>1, <3>1, NoPath, LocatedType
    <3>3. Again(found)
      BY DEF Again, Located
    <3> HIDE DEF found
    <3>4. LookupStep(n, "settled", found)
      BY <1>3, <2>1, <2>2, <2>3, <3>2, <3>3 DEF found
    <3>5. QED
      BY <3>4 DEF found
  <2>4. CASE Settles(n, Located("ambiguous", l.doc, 0, l.path))
    BY <1>3, <1>4, <2>1, <2>2, <2>4
  <2>5. CASE Advance(n, "text")
    <3>1. Probing(n) /\ Rank("text") > Rank(l.stage)
      BY <2>1 DEF Probing, Rank
    <3>2. LookupStep(n, "text", l.found)
      BY <1>2, <2>1, <2>2, <2>5, <3>1
    <3>3. QED
      BY <3>2, Zenon
  <2>6. QED
    BY <1>7, <2>3, <2>4, <2>5 DEF IndexAnswers
<1>8. CASE TextAnswers(n)
  <2>1. l.stage = "text" /\ UNCHANGED silent /\ StepOfLookup
    BY <1>8 DEF TextAnswers
  <2>2. silent' \in BOOLEAN /\ (silent => silent')
    BY <1>1, <2>1
  <2>3. \/ Settles(n, Located("ambiguous", l.doc, 0, l.path))
        \/ Settles(n, Located("unresolved", l.doc, 0, <<>>))
    BY <1>8 DEF TextAnswers
  <2>4. QED
    BY <1>3, <1>4, <2>1, <2>2, <2>3
<1>9. CASE Unanswered(n)
  <2>1. silent' = TRUE /\ StepOfLookup
    BY <1>9 DEF Unanswered
  <2>2. silent' \in BOOLEAN /\ (silent => silent')
    BY <2>1
  <2>3. CASE l.stage \in {"open", "symbols"} /\ Advance(n, "index")
    <3>1. Probing(n) /\ Rank("index") > Rank(l.stage)
      BY <2>3 DEF Probing, Rank
    <3>2. LookupStep(n, "index", l.found)
      BY <1>2, <2>1, <2>2, <2>3, <3>1
    <3>3. QED
      BY <3>2, Zenon
  <2>4. CASE l.stage = "index" /\ Advance(n, "text")
    <3>1. Probing(n) /\ Rank("text") > Rank(l.stage)
      BY <2>4 DEF Probing, Rank
    <3>2. LookupStep(n, "text", l.found)
      BY <1>2, <2>1, <2>2, <2>4, <3>1
    <3>3. QED
      BY <3>2, Zenon
  <2>5. CASE l.stage = "text" /\ Settles(n, Located("unresolved", l.doc, 0, <<>>))
    BY <1>3, <1>4, <2>1, <2>2, <2>5
  <2>6. QED
    BY <1>9, <2>3, <2>4, <2>5 DEF Unanswered
<1>10. QED
  BY <1>5, <1>6, <1>7, <1>8, <1>9 DEF Looks, ProbeFails, ProbeTimesOut

-----------------------------------------------------------------------------
(* Every step keeps the invariant. *)

LEMMA SameBlock ==
  ASSUME block' = block
  PROVE  /\ Nodes' = Nodes /\ Keys' = Keys
         /\ \A n : Key(n)' = Key(n)
         /\ \A n : Level(n)' = Level(n)
<1>1. Nodes' = Nodes
  BY Zenon DEF Nodes
<1>2. \A n : Key(n)' = Key(n)
  BY Zenon DEF Key
<1>3. Keys' = Keys
  BY <1>1, Zenon DEF Keys, Key
<1>4. \A n, m : Under(n, m)' = Under(n, m)
  BY Zenon DEF Under
<1>5. ASSUME NEW n
      PROVE  Level(n)' = Level(n)
  BY <1>1, <1>4, Zenon DEF Level, Under
<1>6. QED
  BY <1>1, <1>2, <1>3, <1>5, Zenon

LEMMA SameTree ==
  ASSUME tree' = tree
  PROVE  \A loc : Again(loc)' <=> Again(loc)
<1>1. QED
  BY Zenon DEF Again

LEMMA Ranks ==
  ASSUME NEW l
  PROVE  /\ Rank(l.stage) \in 0..4 /\ Spent(l) \in 0..5
         /\ Rank(l.stage) <= Spent(l) /\ Spent(l) <= Rank(l.stage) + 1
<1>1. Rank(l.stage) \in 0..4
  BY DEF Rank
<1>2. QED
  BY <1>1 DEF Spent

LEMMA NodeType ==
  ASSUME ResolveTypeOK, NEW n \in Nodes
  PROVE  /\ block[n].path \in Paths /\ block[n].kind \in {"note", "call"}
         /\ n \in 0..Len(block) /\ n # 0 /\ Key(n) \in Keys
<1>1. block \in [Nodes -> Node] /\ Nodes = 1..Len(block) /\ Len(block) \in Nat
  BY DraftType DEF ResolveTypeOK
<1>2. block[n] \in Node
  BY <1>1
<1>3. QED
  BY <1>1, <1>2 DEF Node, Keys

LEMMA LookupStepKeeps ==
  ASSUME ResolveInv, NEW n, NEW at, NEW found, LookupStep(n, at, found)
  PROVE  ResolveInv'
<1>1. ResolveTypeOK /\ Asking /\ InTime /\ AllAgain /\ Kept
  BY DEF ResolveInv
<1>2. /\ UNCHANGED <<tree, block, mode, phase, known, owner, joined, location, before, now>>
      /\ silent' \in BOOLEAN /\ (silent => silent') /\ n \in Nodes /\ Probing(n)
  BY DEF LookupStep, StepOfLookup
<1>3. /\ lookup' \in [Nodes -> Lookup] /\ \A m \in Nodes \ {n} : lookup'[m] = lookup[m]
      /\ lookup'[n].stage = at /\ lookup'[n].doc = lookup[n].doc
      /\ lookup'[n].path = lookup[n].path /\ ~lookup'[n].overdue /\ lookup'[n].found = found
      /\ at \in {"symbols", "index", "text", "settled"}
      /\ Rank(at) > Rank(lookup[n].stage)
  BY DEF LookupStep, Progress
<1>4. Nodes' = Nodes /\ Keys' = Keys /\ \A m : Level(m)' = Level(m)
  BY <1>2, SameBlock
<1>5. ResolveTypeOK'
  BY <1>1, <1>2, <1>3, <1>4 DEF ResolveTypeOK
<1>6. lookup[n].stage # "none" /\ at # "none"
  BY <1>2, <1>3 DEF Probing
<1>7. Asking'
  <2>1. \A m \in Nodes : lookup[m].stage # "none" => lookup'[m].stage # "none"
    BY <1>3, <1>6
  <2>2. \A m \in Nodes : Probing(m)' => Probing(m) /\ lookup'[m].path = lookup[m].path
                                                /\ lookup'[m].doc = lookup[m].doc
    BY <1>2, <1>3 DEF Probing
  <2>3. \A m \in Nodes : lookup'[m].overdue => Probing(m)'
    BY <1>1, <1>3 DEF Asking, Probing
  <2>4. \A m \in Nodes : phase[m] \in {"waiting", "file"} => lookup'[m].stage = "none"
    BY <1>1, <1>3, <1>6 DEF Asking
  <2>5. /\ \A m \in Nodes : joined[m] \in 0..Len(block) /\ (joined[m] # 0 => joined[m] \in Nodes)
        /\ \A k \in Keys : owner[k] \in 0..Len(block) /\ (owner[k] # 0 => owner[k] \in Nodes)
    BY <1>1, DraftType DEF ResolveTypeOK
  <2>6. /\ \A m \in Nodes : Probing(m) => lookup[m].path # <<>>
        /\ \A m \in Nodes : phase[m] = "symbol" => joined[m] # 0 /\ lookup[joined[m]].stage # "none"
        /\ mode = "resolving" =>
             /\ \A k \in Keys : owner[k] # 0 => lookup[owner[k]].stage # "none"
             /\ \A m \in Nodes : Probing(m) => lookup[m].doc = Code
        /\ mode # "resolving" => \A m \in Nodes : phase[m] # "file"
    BY <1>1 DEF Asking
  <2>7. /\ \A m \in Nodes : Probing(m)' => lookup'[m].path # <<>>
        /\ mode = "resolving" => \A m \in Nodes : Probing(m)' => lookup'[m].doc = Code
    BY <2>2, <2>6
  <2>8. /\ \A m \in Nodes : phase[m] = "symbol" => joined[m] # 0 /\ lookup'[joined[m]].stage # "none"
        /\ mode = "resolving" => \A k \in Keys : owner[k] # 0 => lookup'[owner[k]].stage # "none"
    BY <2>1, <2>5, <2>6
  <2>9. QED
    BY <1>2, <1>4, <2>3, <2>4, <2>6, <2>7, <2>8, Zenon DEF Asking
<1>8. Spent(lookup'[n]) >= Spent(lookup[n])
  <2>1. Rank(lookup'[n].stage) > Rank(lookup[n].stage)
    BY <1>3
  <2>2. QED
    BY <2>1, Ranks
<1>9. InTime'
  <2>1. SUFFICES ASSUME mode = "resolving", NEW m \in Nodes
                 PROVE  /\ phase[m] \in {"waiting", "file"} => now <= 4 * (Level(m) - 1)
                        /\ phase[m] = "symbol" =>
                             now <= 4 * (Level(m) - 1) + Spent(lookup'[joined[m]])
    BY <1>2, <1>4 DEF InTime, Spent
  <2>2. /\ phase[m] \in {"waiting", "file"} => now <= 4 * (Level(m) - 1)
        /\ phase[m] = "symbol" => now <= 4 * (Level(m) - 1) + Spent(lookup[joined[m]])
    BY <1>1, <2>1 DEF InTime
  <2>3. Spent(lookup'[joined[m]]) >= Spent(lookup[joined[m]]) \/ joined[m] \notin Nodes
    <3>1. CASE joined[m] = n
      BY <1>8, <3>1
    <3>2. CASE joined[m] # n /\ joined[m] \in Nodes
      <4>1. lookup'[joined[m]] = lookup[joined[m]]
        BY <1>3, <3>2
      <4>2. QED
        BY <4>1, Ranks
    <3>3. QED
      BY <3>1, <3>2
  <2>4. phase[m] = "symbol" => joined[m] \in Nodes
    <3>1. joined[m] \in 0..Len(block) /\ Nodes = 1..Len(block)
      BY <1>1, DraftType DEF ResolveTypeOK
    <3>2. phase[m] = "symbol" => joined[m] # 0
      BY <1>1 DEF Asking
    <3>3. QED
      BY <3>1, <3>2
  <2>5. now \in Nat /\ Level(m) \in Nat
    BY <1>1, LevelBelow DEF ResolveTypeOK
  <2>6. QED
    BY <2>2, <2>3, <2>4, <2>5, Ranks
<1>10. AllAgain'
  <2>1. \A loc : Again(loc)' <=> Again(loc)
    BY <1>2, SameTree
  <2>2. at = "settled" /\ mode = "resolving" => Again(found)
    BY DEF LookupStep
  <2>3. ASSUME mode = "resolving", NEW m \in Nodes, lookup'[m].stage = "settled"
        PROVE  Again(lookup'[m].found)
    <3>1. CASE m = n
      BY <1>3, <2>2, <2>3, <3>1
    <3>2. CASE m # n
      BY <1>1, <1>3, <2>3, <3>2 DEF AllAgain
    <3>3. QED
      BY <3>1, <3>2
  <2>4. \A m \in Nodes : Again(before[m])' /\ (mode \in {"resolving", "resolved"} => Again(location[m])')
    <3>1. \A m \in Nodes : Again(before[m]) /\ (mode \in {"resolving", "resolved"} => Again(location[m]))
      BY <1>1 DEF AllAgain
    <3>2. \A m : (Again(before[m])' <=> Again(before[m])) /\ (Again(location[m])' <=> Again(location[m]))
      BY <1>2, Zenon DEF Again
    <3>3. QED
      BY <3>1, <3>2
  <2>5. ASSUME mode = "resolving", NEW m \in Nodes, lookup'[m].stage = "settled"
        PROVE  Again(lookup[m].found)'
    <3> DEFINE loc == lookup'[m].found
    <3>1. Again(loc)
      BY <2>3, <2>5
    <3>2. QED
      BY <1>2, <3>1, Zenon DEF Again
  <2>6. QED
    BY <1>2, <1>4, <2>4, <2>5, Zenon DEF AllAgain
<1>11. Kept'
  <2>1. SUFFICES ASSUME mode \in {"refreshing", "refreshed"}, NEW m \in Nodes
                 PROVE  /\ joined[m] = m
                        /\ phase[m] # "done" => location[m] = before[m]
                        /\ ~silent' /\ before[m].status = "ok" /\ before[m].hit # Indexed =>
                             /\ location[m] = before[m]
                             /\ phase[m] = "symbol" => Repeats(lookup'[m], before[m])
    BY <1>2, <1>4, Zenon DEF Kept, Repeats
  <2>2. /\ joined[m] = m
        /\ phase[m] # "done" => location[m] = before[m]
        /\ ~silent /\ before[m].status = "ok" /\ before[m].hit # Indexed =>
             /\ location[m] = before[m]
             /\ phase[m] = "symbol" => Repeats(lookup[m], before[m])
    BY <1>1, <2>1, Zenon DEF Kept
  <2>3. ASSUME ~silent', before[m].status = "ok", before[m].hit # Indexed, phase[m] = "symbol"
        PROVE  Repeats(lookup'[m], before[m])
    <3>1. ~silent /\ Repeats(lookup[m], before[m])
      BY <1>2, <2>2, <2>3
    <3>2. CASE m # n
      BY <1>3, <3>1, <3>2
    <3>3. CASE m = n
      <4>1. before[m] \in Location /\ Again(before[m])
        BY <1>1 DEF ResolveTypeOK, AllAgain
      <4>2. \/ at = "symbols"
            \/ /\ at = "settled" /\ found.status = "ok"
               /\ found.doc = before[m].doc /\ found.hit = before[m].hit
        BY <2>3, <3>1, <3>3, <4>1, Zenon DEF LookupStep
      <4>3. lookup[n].stage # "settled"
        BY <1>2 DEF Probing
      <4>4. QED
        BY <1>3, <3>1, <3>3, <4>2, <4>3 DEF Repeats
    <3>4. QED
      BY <3>2, <3>3
  <2>4. QED
    BY <1>2, <2>2, <2>3, Zenon
<1>12. QED
  BY <1>5, <1>7, <1>9, <1>10, <1>11 DEF ResolveInv

LEMMA AskedType ==
  ASSUME NEW doc \in Documents, NEW path \in Paths, NEW kind
  PROVE  LET l == Asked(doc, path, kind) IN
         /\ l \in Lookup /\ l.stage \in {"open", "settled"} /\ ~l.overdue
         /\ l.stage = "open" => l.doc = doc /\ l.path = path /\ path # <<>>
         /\ l.stage = "settled" => Again(l.found)
         /\ kind # "note" /\ path # <<>> => l.stage = "open"
<1>1. /\ NoFile \in Documents /\ <<>> \in Paths /\ 0 \in 0..Indexed
  BY NoPath DEF Documents
<1>2. Nowhere \in Location /\ Again(Nowhere)
  BY <1>1, LocatedType DEF Nowhere
<1>3. Located("ok", doc, 0, <<>>) \in Location /\ Again(Located("ok", doc, 0, <<>>))
  <2>1. Located("ok", doc, 0, <<>>).path = <<>>
    BY DEF Located
  <2>2. QED
    BY <1>1, <2>1, LocatedType DEF Again
<1>4. NoLookup \in Lookup
  BY <1>1, <1>2 DEF NoLookup, Lookup, Stages
<1>5. CASE kind = "note"
  <2>1. Asked(doc, path, kind) =
          [NoLookup EXCEPT !.stage = "settled", !.found = Located("ok", doc, 0, <<>>)]
    BY <1>5 DEF Asked
  <2> DEFINE loc == Located("ok", doc, 0, <<>>)
  <2> HIDE DEF loc
  <2>2. LET l == [NoLookup EXCEPT !.stage = "settled", !.found = loc] IN
        l \in Lookup /\ l.stage = "settled" /\ ~l.overdue /\ l.found = loc
    BY <1>3, <1>4 DEF NoLookup, Lookup, Stages, loc
  <2>3. QED
    BY <1>3, <1>5, <2>1, <2>2 DEF loc
<1>6. CASE kind # "note" /\ path = <<>>
  <2>1. Asked(doc, path, kind) = [NoLookup EXCEPT !.stage = "settled"]
    BY <1>6 DEF Asked
  <2>2. LET l == [NoLookup EXCEPT !.stage = "settled"] IN
        l \in Lookup /\ l.stage = "settled" /\ ~l.overdue /\ l.found = Nowhere
    BY <1>4 DEF NoLookup, Lookup, Stages
  <2>3. QED
    BY <1>2, <1>6, <2>1, <2>2
<1>7. CASE kind # "note" /\ path # <<>>
  <2>1. Asked(doc, path, kind) = [NoLookup EXCEPT !.stage = "open", !.doc = doc, !.path = path]
    BY <1>7 DEF Asked
  <2>2. LET l == [NoLookup EXCEPT !.stage = "open", !.doc = doc, !.path = path] IN
        l \in Lookup /\ l.stage = "open" /\ ~l.overdue /\ l.doc = doc /\ l.path = path
    BY <1>4 DEF NoLookup, Lookup, Stages
  <2>3. QED
    BY <1>7, <2>1, <2>2
<1>8. QED
  BY <1>5, <1>6, <1>7

(* A node is placed, or found to have no place. *)
LEMMA ConcludeKeeps ==
  ASSUME ResolveInv, mode = "resolving", NEW n \in Nodes, NEW found \in Location,
         Again(found), Conclude(n, found), known' \in {"unknown", "present", "missing"},
         UNCHANGED <<tree, block, mode, owner, joined, lookup, before, silent, now>>
  PROVE  ResolveInv'
<1>1. ResolveTypeOK /\ Asking /\ InTime /\ AllAgain /\ Kept
  BY DEF ResolveInv
<1>2. Nodes' = Nodes /\ Keys' = Keys /\ \A m : Level(m)' = Level(m)
  BY SameBlock
<1>3. /\ phase \in [Nodes -> {"waiting", "file", "symbol", "done"}] /\ location \in [Nodes -> Location]
      /\ phase' = [phase EXCEPT ![n] = "done"] /\ location' = [location EXCEPT ![n] = found]
  BY <1>1 DEF ResolveTypeOK, Conclude
<1>4. ResolveTypeOK'
  BY <1>1, <1>2, <1>3 DEF ResolveTypeOK
<1>5. \A m \in Nodes : phase'[m] # "done" => phase'[m] = phase[m]
  BY <1>3
<1>6. Asking'
  <2>1. \A m \in Nodes : Probing(m)' <=> Probing(m)
    BY DEF Probing
  <2>2. QED
    BY <1>1, <1>2, <1>5, <2>1 DEF Asking
<1>7. InTime'
  BY <1>1, <1>2, <1>5 DEF InTime
<1>8. AllAgain'
  <2>1. \A loc : Again(loc)' <=> Again(loc)
    BY SameTree
  <2>2. \A m \in Nodes : Again(location'[m])
    BY <1>1, <1>3 DEF AllAgain
  <2>3. \A m \in Nodes : /\ Again(location[m])' <=> Again(location'[m])
                         /\ Again(before[m])' <=> Again(before[m])
                         /\ Again(lookup[m].found)' <=> Again(lookup[m].found)
    BY Zenon DEF Again
  <2>4. QED
    BY <1>1, <1>2, <2>2, <2>3 DEF AllAgain
<1>9. Kept'
  BY DEF Kept
<1>10. QED
  BY <1>4, <1>6, <1>7, <1>8, <1>9 DEF ResolveInv

(* A node asks for its symbol, first or with others. *)
LEMMA JoinKeeps ==
  ASSUME ResolveInv, mode = "resolving", NEW n \in Nodes, phase[n] \in {"waiting", "file"},
         Join(n), known' \in {"unknown", "present", "missing"},
         UNCHANGED <<tree, block, mode, before, silent, now>>
  PROVE  ResolveInv'
<1> DEFINE asked == Asked(Code, block[n].path, block[n].kind)
<1>1. ResolveTypeOK /\ Asking /\ InTime /\ AllAgain /\ Kept
  BY DEF ResolveInv
<1>2. Nodes' = Nodes /\ Keys' = Keys /\ \A m : Level(m)' = Level(m)
  BY SameBlock
<1>3. /\ phase \in [Nodes -> {"waiting", "file", "symbol", "done"}]
      /\ owner \in [Keys -> 0..Len(block)] /\ joined \in [Nodes -> 0..Len(block)]
      /\ lookup \in [Nodes -> Lookup] /\ now \in Nat
      /\ phase' = [phase EXCEPT ![n] = "symbol"] /\ location' = location
  BY <1>1 DEF ResolveTypeOK, Join
<1>4. n \in 0..Len(block) /\ n # 0 /\ Key(n) \in Keys
  BY <1>1, NodeType
<1>5. /\ asked \in Lookup /\ asked.stage \in {"open", "settled"} /\ ~asked.overdue
      /\ asked.stage = "open" => asked.doc = Code /\ asked.path # <<>>
      /\ asked.stage = "settled" => Again(asked.found)
  <2>1. Code \in Documents /\ block[n].path \in Paths
    BY <1>1, NodeType DEF Documents
  <2>2. QED
    BY <2>1, AskedType
<1> HIDE DEF asked
<1>6. \/ /\ owner[Key(n)] = 0
         /\ owner' = [owner EXCEPT ![Key(n)] = n] /\ joined' = [joined EXCEPT ![n] = n]
         /\ lookup' = [lookup EXCEPT ![n] = asked]
      \/ /\ owner[Key(n)] # 0 /\ owner' = owner
         /\ joined' = [joined EXCEPT ![n] = owner[Key(n)]] /\ lookup' = lookup
  BY DEF Join, asked
<1>7. lookup[n].stage = "none"
  BY <1>1 DEF Asking
<1>8. /\ \A m \in Nodes : joined[m] # 0 => joined[m] \in Nodes
      /\ \A k \in Keys : owner[k] # 0 => owner[k] \in Nodes
  BY <1>1, <1>3, DraftType DEF ResolveTypeOK
<1>9. /\ \A k \in Keys : owner[k] # 0 => lookup[owner[k]].stage # "none"
      /\ \A m \in Nodes : phase[m] = "symbol" => joined[m] # 0 /\ lookup[joined[m]].stage # "none"
      /\ \A m \in Nodes : Probing(m) => lookup[m].doc = Code
      /\ \A m \in Nodes : Probing(m) => lookup[m].path # <<>>
      /\ \A m \in Nodes : lookup[m].overdue => Probing(m)
      /\ \A m \in Nodes : phase[m] \in {"waiting", "file"} => lookup[m].stage = "none"
  BY <1>1 DEF Asking
(* What the join makes of the lookups. *)
<1>10. /\ lookup' \in [Nodes -> Lookup]
       /\ \A m \in Nodes : lookup[m].stage # "none" => lookup'[m] = lookup[m]
       /\ \A m \in Nodes : lookup'[m] = lookup[m] \/ (m = n /\ lookup'[m] = asked)
  BY <1>3, <1>5, <1>6, <1>7
<1>11. /\ owner' \in [Keys -> 0..Len(block)] /\ joined' \in [Nodes -> 0..Len(block)]
       /\ joined'[n] # 0 /\ lookup'[joined'[n]].stage # "none"
       /\ \A m \in Nodes : m # n => joined'[m] = joined[m]
       /\ \A k \in Keys : owner'[k] # 0 => lookup'[owner'[k]].stage # "none"
  <2>1. CASE owner[Key(n)] = 0
    <3>1. /\ owner' = [owner EXCEPT ![Key(n)] = n] /\ joined' = [joined EXCEPT ![n] = n]
          /\ lookup' = [lookup EXCEPT ![n] = asked]
      BY <1>6, <2>1
    <3>2. lookup'[n] = asked /\ asked.stage # "none" /\ joined'[n] = n
      BY <1>3, <1>5, <3>1
    <3>3. ASSUME NEW k \in Keys, owner'[k] # 0
          PROVE  lookup'[owner'[k]].stage # "none"
      <4>1. CASE k = Key(n)
        BY <1>3, <3>1, <3>2, <4>1
      <4>2. CASE k # Key(n)
        <5>1. owner'[k] = owner[k] /\ owner[k] \in Nodes /\ lookup[owner[k]].stage # "none"
          BY <1>3, <1>8, <1>9, <3>1, <3>3, <4>2
        <5>2. QED
          BY <1>10, <5>1
      <4>3. QED
        BY <4>1, <4>2
    <3>4. QED
      BY <1>3, <1>4, <3>1, <3>2, <3>3
  <2>2. CASE owner[Key(n)] # 0
    <3>1. owner' = owner /\ joined' = [joined EXCEPT ![n] = owner[Key(n)]] /\ lookup' = lookup
      BY <1>6, <2>2
    <3>2. joined'[n] = owner[Key(n)] /\ lookup[owner[Key(n)]].stage # "none"
          /\ owner[Key(n)] \in 0..Len(block)
      BY <1>3, <1>4, <1>9, <2>2, <3>1
    <3>3. QED
      BY <1>3, <1>9, <2>2, <3>1, <3>2
  <2>3. QED
    BY <2>1, <2>2
<1>12. \A m \in Nodes : m # n => phase'[m] = phase[m]
  BY <1>3
<1>13. phase'[n] = "symbol" /\ phase' \in [Nodes -> {"waiting", "file", "symbol", "done"}]
  BY <1>3
<1>14. ResolveTypeOK'
  BY <1>1, <1>2, <1>3, <1>10, <1>11, <1>13 DEF ResolveTypeOK
<1>15. Asking'
  <2>1. \A m \in Nodes : /\ Probing(m)' => lookup'[m].path # <<>> /\ lookup'[m].doc = Code
                         /\ lookup'[m].overdue => Probing(m)'
    BY <1>5, <1>9, <1>10 DEF Probing
  <2>2. \A m \in Nodes : phase'[m] \in {"waiting", "file"} => lookup'[m].stage = "none"
    BY <1>9, <1>10, <1>12, <1>13
  <2>3. \A m \in Nodes : phase'[m] = "symbol" => joined'[m] # 0 /\ lookup'[joined'[m]].stage # "none"
    <3>1. SUFFICES ASSUME NEW m \in Nodes, m # n, phase'[m] = "symbol"
                   PROVE  joined'[m] # 0 /\ lookup'[joined'[m]].stage # "none"
      BY <1>11
    <3>2. joined'[m] = joined[m] /\ joined[m] # 0 /\ joined[m] \in Nodes /\ lookup[joined[m]].stage # "none"
      BY <1>8, <1>9, <1>11, <1>12, <3>1
    <3>3. QED
      BY <1>10, <3>2
  <2>4. QED
    BY <1>2, <1>11, <2>1, <2>2, <2>3 DEF Asking
<1>16. InTime'
  <2>1. SUFFICES ASSUME NEW m \in Nodes
                 PROVE  /\ phase'[m] \in {"waiting", "file"} => now <= 4 * (Level(m) - 1)
                        /\ phase'[m] = "symbol" =>
                             now <= 4 * (Level(m) - 1) + Spent(lookup'[joined'[m]])
    BY <1>2 DEF InTime, Spent
  <2>2. /\ phase[m] \in {"waiting", "file"} => now <= 4 * (Level(m) - 1)
        /\ phase[m] = "symbol" => now <= 4 * (Level(m) - 1) + Spent(lookup[joined[m]])
    BY <1>1 DEF InTime
  <2>3. now \in Nat /\ Level(m) \in Nat
    BY <1>1, <1>3, LevelBelow DEF ResolveTypeOK
  <2>4. CASE m = n
    <3>1. Spent(lookup'[joined'[m]]) \in 0..5
      BY Ranks
    <3>2. now <= 4 * (Level(m) - 1) /\ phase'[m] = "symbol"
      BY <1>13, <2>2, <2>4
    <3>3. QED
      BY <2>3, <3>1, <3>2
  <2>5. CASE m # n
    <3>1. phase'[m] = phase[m] /\ joined'[m] = joined[m]
      BY <1>11, <1>12, <2>5
    <3>2. phase[m] = "symbol" => lookup'[joined[m]] = lookup[joined[m]]
      BY <1>8, <1>9, <1>10
    <3>3. QED
      BY <2>2, <3>1, <3>2
  <2>6. QED
    BY <2>4, <2>5
<1>17. AllAgain'
  <2>1. \A m \in Nodes : Again(location[m]) /\ Again(before[m])
                         /\ (lookup[m].stage = "settled" => Again(lookup[m].found))
    BY <1>1 DEF AllAgain
  <2>2. \A m \in Nodes : lookup'[m].stage = "settled" => Again(lookup'[m].found)
    BY <1>5, <1>10, <2>1
  <2>3. \A m \in Nodes : /\ Again(location[m])' <=> Again(location[m])
                         /\ Again(before[m])' <=> Again(before[m])
                         /\ Again(lookup[m].found)' <=> Again(lookup'[m].found)
    BY <1>3, Zenon DEF Again
  <2>4. QED
    BY <1>2, <2>1, <2>2, <2>3 DEF AllAgain
<1>18. Kept'
  BY DEF Kept
<1>19. QED
  BY <1>14, <1>15, <1>16, <1>17, <1>18 DEF ResolveInv

LEMMA PlacelessType ==
  /\ Nowhere \in Location /\ Again(Nowhere)
  /\ Located("ok", NoFile, 0, <<>>) \in Location /\ Again(Located("ok", NoFile, 0, <<>>))
<1>1. NoFile \in Documents /\ <<>> \in Paths /\ 0 \in 0..Indexed
  BY NoPath DEF Documents
<1>2. Located("ok", NoFile, 0, <<>>).path = <<>>
  BY DEF Located
<1>3. QED
  BY <1>1, <1>2, LocatedType DEF Nowhere, Again

LEMMA StartKeeps ==
  ASSUME ResolveInv, NEW n \in Nodes, Start(n)
  PROVE  ResolveInv'
<1>1. /\ mode = "resolving" /\ phase[n] = "waiting"
      /\ UNCHANGED <<tree, block, mode, known, before, silent, now>>
  BY DEF Start, Startable
<1>2. known \in {"unknown", "present", "missing"} /\ known' = known
  BY <1>1 DEF ResolveInv, ResolveTypeOK
<1>3. CASE \E found \in {Nowhere, Located("ok", NoFile, 0, <<>>)} :
             Conclude(n, found) /\ UNCHANGED <<owner, joined, lookup>>
  <2>1. PICK found \in {Nowhere, Located("ok", NoFile, 0, <<>>)} :
               Conclude(n, found) /\ UNCHANGED <<owner, joined, lookup>>
    BY <1>3
  <2>2. found \in Location /\ Again(found)
    BY PlacelessType
  <2>3. QED
    BY <1>1, <1>2, <2>1, <2>2, ConcludeKeeps
<1>4. CASE Join(n)
  BY <1>1, <1>2, <1>4, JoinKeeps
<1>5. CASE phase' = [phase EXCEPT ![n] = "file"] /\ UNCHANGED <<owner, joined, lookup, location>>
  <2>1. ResolveTypeOK /\ Asking /\ InTime /\ AllAgain /\ Kept
    BY DEF ResolveInv
  <2>2. Nodes' = Nodes /\ Keys' = Keys /\ \A m : Level(m)' = Level(m)
    BY <1>1, SameBlock
  <2>3. /\ phase \in [Nodes -> {"waiting", "file", "symbol", "done"}]
        /\ \A m \in Nodes : phase'[m] = phase[m] \/ (phase[m] = "waiting" /\ phase'[m] = "file")
    BY <1>1, <1>5, <2>1 DEF ResolveTypeOK
  <2>4. ResolveTypeOK'
    BY <1>1, <1>5, <2>1, <2>2 DEF ResolveTypeOK
  <2>5. Asking'
    <3>1. \A m \in Nodes : Probing(m)' <=> Probing(m)
      BY <1>5 DEF Probing
    <3>2. QED
      BY <1>1, <1>5, <2>1, <2>2, <2>3, <3>1 DEF Asking
  <2>6. InTime'
    BY <1>1, <1>5, <2>1, <2>2, <2>3 DEF InTime
  <2>7. AllAgain'
    <3>1. \A m \in Nodes : /\ Again(location[m])' <=> Again(location[m])
                           /\ Again(before[m])' <=> Again(before[m])
                           /\ Again(lookup[m].found)' <=> Again(lookup[m].found)
      BY <1>1, <1>5, Zenon DEF Again
    <3>2. QED
      BY <1>1, <1>5, <2>1, <2>2, <3>1 DEF AllAgain
  <2>8. Kept'
    BY <1>1 DEF Kept
  <2>9. QED
    BY <2>4, <2>5, <2>6, <2>7, <2>8 DEF ResolveInv
<1>6. QED
  <2>1. \/ Conclude(n, IF block[n].kind = "note" THEN Located("ok", NoFile, 0, <<>>) ELSE Nowhere)
           /\ UNCHANGED <<owner, joined, lookup>>
        \/ Conclude(n, Nowhere) /\ UNCHANGED <<owner, joined, lookup>>
        \/ Join(n)
        \/ phase' = [phase EXCEPT ![n] = "file"] /\ UNCHANGED <<owner, joined, lookup, location>>
    BY Zenon DEF Start
  <2>2. QED
    BY <1>3, <1>4, <1>5, <2>1, Zenon

LEMMA FileAnswersKeeps ==
  ASSUME ResolveInv, NEW n \in Nodes, FileAnswers(n)
  PROVE  ResolveInv'
<1>1. /\ phase[n] = "file" /\ UNCHANGED <<tree, block, mode, before, silent, now>>
      /\ known' \in {"unknown", "present", "missing"}
  BY DEF FileAnswers
<1>2. mode = "resolving"
  BY <1>1 DEF ResolveInv, Asking
<1>3. CASE Join(n)
  BY <1>1, <1>2, <1>3, JoinKeeps
<1>4. CASE Conclude(n, Nowhere) /\ UNCHANGED <<owner, joined, lookup>>
  BY <1>1, <1>2, <1>4, PlacelessType, ConcludeKeeps
<1>5. QED
  BY <1>3, <1>4 DEF FileAnswers

LEMMA PlaceKeeps ==
  ASSUME ResolveInv, NEW n \in Nodes, Place(n)
  PROVE  ResolveInv'
<1> DEFINE found == lookup[joined[n]].found
<1>1. /\ mode = "resolving" /\ phase[n] = "symbol" /\ lookup[joined[n]].stage = "settled"
      /\ Conclude(n, found)
      /\ UNCHANGED <<tree, block, mode, known, owner, joined, lookup, before, silent, now>>
  BY DEF Place
<1>2. joined[n] \in Nodes
  <2>1. joined[n] # 0
    BY <1>1 DEF ResolveInv, Asking
  <2>2. joined[n] \in 0..Len(block) /\ Nodes = 1..Len(block)
    BY DraftType DEF ResolveInv, ResolveTypeOK
  <2>3. QED
    BY <2>1, <2>2
<1>3. found \in Location
  BY <1>2, LookupType DEF ResolveInv
<1>4. Again(found)
  BY <1>1, <1>2 DEF ResolveInv, AllAgain
<1>5. known' \in {"unknown", "present", "missing"}
  BY <1>1 DEF ResolveInv, ResolveTypeOK
<1> HIDE DEF found
<1>6. QED
  BY <1>1, <1>3, <1>4, <1>5, ConcludeKeeps

(* Time passes: no probe a node awaits is past its timer.                  *)
LEMMA TickKeeps ==
  ASSUME ResolveInv, Tick
  PROVE  ResolveInv'
<1>1. ResolveTypeOK /\ Asking /\ InTime /\ AllAgain /\ Kept
  BY DEF ResolveInv
<1>2. /\ UNCHANGED <<tree, block, mode, phase, known, owner, joined, location, before, silent>>
      /\ now < Budget /\ now' = now + 1
      /\ lookup' = [m \in Nodes |-> [lookup[m] EXCEPT !.overdue = Probing(m)]]
      /\ \A m \in Nodes :
           /\ ~lookup[m].overdue
           /\ \/ phase[m] = "done"
              \/ phase[m] = "waiting" /\ (mode = "resolving" => ~Startable(m))
              \/ phase[m] = "symbol" /\ Probing(joined[m])
  BY DEF Tick
<1>3. Nodes' = Nodes /\ Keys' = Keys /\ \A m : Level(m)' = Level(m)
  BY <1>2, SameBlock
<1>4. \A m \in Nodes : Probing(m) \in BOOLEAN
  BY DEF Probing
<1>5. /\ lookup \in [Nodes -> Lookup] /\ now \in 0..Budget /\ Budget \in Nat
  BY <1>1, DraftsAssumption DEF ResolveTypeOK
<1>6. /\ lookup' \in [Nodes -> Lookup]
      /\ \A m \in Nodes : /\ lookup'[m].stage = lookup[m].stage /\ lookup'[m].doc = lookup[m].doc
                          /\ lookup'[m].path = lookup[m].path /\ lookup'[m].found = lookup[m].found
                          /\ lookup'[m].overdue <=> Probing(m)
  BY <1>2, <1>4, <1>5 DEF Lookup
<1>7. ResolveTypeOK'
  <2>1. now' \in 0..Budget
    BY <1>2, <1>5
  <2>2. UNCHANGED <<tree, block, mode, phase, known, owner, joined, location, before, silent>>
    BY <1>2
  <2>3. lookup' \in [Nodes -> Lookup]
    BY <1>6
  <2>4. QED
    BY <1>1, <1>3, <2>1, <2>2, <2>3, Zenon DEF ResolveTypeOK
<1>8. \A m \in Nodes : Probing(m)' <=> Probing(m)
  BY <1>6 DEF Probing
<1>9. /\ \A m \in Nodes : joined[m] # 0 => joined[m] \in Nodes
      /\ \A k \in Keys : owner[k] # 0 => owner[k] \in Nodes
  BY <1>1, DraftType DEF ResolveTypeOK
<1>10. Asking'
  <2>1. /\ \A m \in Nodes : Probing(m)' => lookup'[m].path # <<>>
        /\ \A m \in Nodes : lookup'[m].overdue => Probing(m)'
        /\ \A m \in Nodes : phase[m] \in {"waiting", "file"} => lookup'[m].stage = "none"
    BY <1>1, <1>6, <1>8 DEF Asking
  <2>2. \A m \in Nodes : phase[m] = "symbol" => joined[m] # 0 /\ lookup'[joined[m]].stage # "none"
    <3>1. \A m \in Nodes : phase[m] = "symbol" => joined[m] # 0 /\ lookup[joined[m]].stage # "none"
      BY <1>1 DEF Asking
    <3>2. QED
      BY <1>6, <1>9, <3>1
  <2>3. mode = "resolving" =>
          /\ \A k \in Keys : owner[k] # 0 => lookup'[owner[k]].stage # "none"
          /\ \A m \in Nodes : Probing(m)' => lookup'[m].doc = Code
    <3>1. mode = "resolving" =>
            /\ \A k \in Keys : owner[k] # 0 => lookup[owner[k]].stage # "none"
            /\ \A m \in Nodes : Probing(m) => lookup[m].doc = Code
      BY <1>1 DEF Asking
    <3>2. QED
      BY <1>6, <1>8, <1>9, <3>1
  <2>4. mode # "resolving" => \A m \in Nodes : phase[m] # "file"
    BY <1>1 DEF Asking
  <2>5. QED
    BY <1>2, <1>3, <2>1, <2>2, <2>3, <2>4, Zenon DEF Asking
<1>11. InTime'
  <2>1. SUFFICES ASSUME mode = "resolving", NEW m \in Nodes
                 PROVE  /\ phase[m] \in {"waiting", "file"} => now + 1 <= 4 * (Level(m) - 1)
                        /\ phase[m] = "symbol" =>
                             now + 1 <= 4 * (Level(m) - 1) + Spent(lookup'[joined[m]])
    BY <1>2, <1>3 DEF InTime, Spent
  <2>2. /\ \A k \in Nodes : /\ phase[k] \in {"waiting", "file"} => now <= 4 * (Level(k) - 1)
                            /\ phase[k] = "symbol" => now <= 4 * (Level(k) - 1) + Spent(lookup[joined[k]])
    BY <1>1, <2>1 DEF InTime
  <2>3. now \in Nat /\ block \in Drafts
    BY <1>1 DEF ResolveTypeOK
  (* Who awaits a probe has one more timeout to spend on it. *)
  <2>4. ASSUME NEW k \in Nodes, phase[k] = "symbol"
        PROVE  /\ now + 1 <= 4 * (Level(k) - 1) + Spent(lookup'[joined[k]])
               /\ now + 1 <= 4 * Level(k)
    <3> DEFINE j == joined[k]
    <3>1. Probing(j) /\ j \in Nodes
      BY <1>1, <1>2, <1>9, <2>4 DEF Asking
    <3>2. ~lookup[j].overdue /\ lookup'[j].overdue /\ lookup'[j].stage = lookup[j].stage
      BY <1>2, <1>6, <3>1
    <3>3. Rank(lookup[j].stage) \in 0..3
      BY <3>1 DEF Probing, Rank
    <3>4. Spent(lookup[j]) = Rank(lookup[j].stage) /\ Spent(lookup'[j]) = Rank(lookup[j].stage) + 1
      BY <3>2, <3>3 DEF Spent
    <3>5. now <= 4 * (Level(k) - 1) + Spent(lookup[j])
      BY <2>2, <2>4
    <3>6. Level(k) \in Nat
      BY <2>3, LevelBelow
    <3> HIDE DEF j
    <3>7. QED
      BY <2>3, <3>3, <3>4, <3>5, <3>6 DEF j
  <2>5. ASSUME phase[m] \in {"waiting", "file"}
        PROVE  now + 1 <= 4 * (Level(m) - 1)
    <3> DEFINE up == block[m].up
    <3>1. up # 0 /\ phase[up] # "done"
      BY <1>2, <2>1, <2>5 DEF Startable
    <3>2. up \in Nodes /\ Level(m) = Level(up) + 1 /\ Level(up) \in Nat /\ Level(m) \in Nat
      BY <2>3, <3>1, LevelBelow
    <3>3. phase[up] = "symbol" \/ phase[up] = "waiting"
      BY <1>2, <3>1, <3>2
    <3> HIDE DEF up
    <3>4. now + 1 <= 4 * Level(up)
      <4>1. CASE phase[up] = "symbol"
        BY <2>4, <3>2, <4>1
      <4>2. CASE phase[up] = "waiting"
        <5>1. now <= 4 * (Level(up) - 1)
          BY <2>2, <3>2, <4>2
        <5>2. QED
          BY <2>3, <3>2, <5>1
      <4>3. QED
        BY <3>3, <4>1, <4>2
    <3>5. QED
      BY <2>3, <3>2, <3>4
  <2>6. QED
    BY <2>4, <2>5
<1>12. AllAgain'
  <2>1. \A m \in Nodes : lookup'[m].found = lookup[m].found /\ lookup'[m].stage = lookup[m].stage
    BY <1>6
  <2>2. \A m \in Nodes : /\ Again(location[m])' <=> Again(location[m])
                         /\ Again(before[m])' <=> Again(before[m])
                         /\ Again(lookup[m].found)' <=> Again(lookup'[m].found)
    BY <1>2, Zenon DEF Again
  <2>3. QED
    BY <1>1, <1>2, <1>3, <2>1, <2>2 DEF AllAgain
<1>13. Kept'
  <2>1. \A m \in Nodes : Repeats(lookup[m], before[m]) => Repeats(lookup'[m], before[m])
    BY <1>6 DEF Repeats
  <2>2. \A m \in Nodes : Repeats(lookup[m], before[m])' <=> Repeats(lookup'[m], before[m])
    BY <1>2, Zenon DEF Repeats
  <2>3. QED
    BY <1>1, <1>2, <1>3, <2>1, <2>2 DEF Kept
<1>14. QED
  BY <1>7, <1>10, <1>11, <1>12, <1>13 DEF ResolveInv

(* The call is answered. *)
LEMMA ReplyKeeps ==
  ASSUME ResolveInv, Reply
  PROVE  ResolveInv'
<1>1. ResolveTypeOK /\ Asking /\ InTime /\ AllAgain /\ Kept
  BY DEF ResolveInv
<1>2. /\ mode \in {"resolving", "refreshing"} /\ \A n \in Nodes : phase[n] = "done"
      /\ mode' = IF mode = "resolving" THEN "resolved" ELSE "refreshed"
      /\ UNCHANGED <<tree, block, phase, known, owner, joined, lookup, location, before, silent, now>>
  BY DEF Reply, AllDone
<1>3. Nodes' = Nodes /\ Keys' = Keys
  BY <1>2, SameBlock
<1>4. mode' \in {"resolved", "refreshed"} /\ (mode' = "refreshed" <=> mode = "refreshing")
  BY <1>2
<1>5. ResolveTypeOK'
  BY <1>1, <1>2, <1>3, <1>4 DEF ResolveTypeOK
<1>6. Asking'
  <2>1. \A m \in Nodes : Probing(m)' <=> Probing(m)
    BY <1>2 DEF Probing
  <2>2. QED
    BY <1>1, <1>2, <1>3, <1>4, <2>1 DEF Asking
<1>7. InTime'
  BY <1>4 DEF InTime
<1>8. AllAgain'
  <2>1. \A m \in Nodes : /\ Again(location[m])' <=> Again(location[m])
                         /\ Again(before[m])' <=> Again(before[m])
    BY <1>2, Zenon DEF Again
  <2>2. QED
    BY <1>1, <1>2, <1>3, <1>4, <2>1 DEF AllAgain
<1>9. Kept'
  <2>1. \A m \in Nodes : Repeats(lookup[m], before[m])' <=> Repeats(lookup[m], before[m])
    BY <1>2, Zenon DEF Repeats
  <2>2. QED
    BY <1>1, <1>2, <1>3, <1>4, <2>1 DEF Kept
<1>10. QED
  BY <1>5, <1>6, <1>7, <1>8, <1>9 DEF ResolveInv

(* The refresh begins with what the call found. *)
LEMMA StartRefreshKeeps ==
  ASSUME ResolveInv, StartRefresh
  PROVE  ResolveInv'
<1>1. ResolveTypeOK /\ Asking /\ InTime /\ AllAgain /\ Kept
  BY DEF ResolveInv
<1>2. /\ mode = "resolved" /\ mode' = "refreshing"
      /\ phase' = [n \in Nodes |-> "waiting"] /\ joined' = [n \in Nodes |-> n]
      /\ lookup' = [n \in Nodes |-> NoLookup]
      /\ before' = location /\ silent' = FALSE /\ now' = 0
      /\ UNCHANGED <<tree, block, known, owner, location>>
  BY DEF StartRefresh
<1>3. Nodes' = Nodes /\ Keys' = Keys
  BY <1>2, SameBlock
<1>4. NoLookup \in Lookup /\ NoLookup.stage = "none" /\ ~NoLookup.overdue
  BY PlacelessType, NoPath DEF NoLookup, Lookup, Stages, Documents
<1>5. ResolveTypeOK'
  <2>1. joined' \in [Nodes -> 0..Len(block)]
    BY <1>1, <1>2, NodeType
  <2>2. now' \in 0..Budget
    BY <1>2, DraftsAssumption
  <2>3. lookup' \in [Nodes -> Lookup]
    BY <1>2, <1>4
  <2>4. QED
    BY <1>1, <1>2, <1>3, <2>1, <2>2, <2>3 DEF ResolveTypeOK
<1>6. Asking'
  <2>1. \A m \in Nodes : lookup'[m].stage = "none" /\ ~lookup'[m].overdue /\ phase'[m] = "waiting"
    BY <1>2, <1>4
  <2>2. \A m \in Nodes : ~Probing(m)'
    BY <2>1 DEF Probing
  <2>3. QED
    BY <1>2, <1>3, <2>1, <2>2 DEF Asking
<1>7. InTime'
  BY <1>2 DEF InTime
<1>8. AllAgain'
  <2>1. \A m \in Nodes : Again(location[m])
    BY <1>1, <1>2 DEF AllAgain
  <2>2. \A m \in Nodes : Again(before[m])' <=> Again(location[m])
    BY <1>2, Zenon DEF Again
  <2>3. QED
    BY <1>2, <1>3, <2>1, <2>2 DEF AllAgain
<1>9. Kept'
  BY <1>2, <1>3 DEF Kept
<1>10. QED
  BY <1>5, <1>6, <1>7, <1>8, <1>9 DEF ResolveInv

LEMMA RefreshSkipsKeeps ==
  ASSUME ResolveInv, NEW n \in Nodes, RefreshSkips(n)
  PROVE  ResolveInv'
<1>1. ResolveTypeOK /\ Asking /\ InTime /\ AllAgain /\ Kept
  BY DEF ResolveInv
<1>2. /\ mode = "refreshing" /\ phase[n] = "waiting" /\ phase' = [phase EXCEPT ![n] = "done"]
      /\ UNCHANGED <<tree, block, mode, known, owner, joined, lookup, location, before, silent, now>>
  BY DEF RefreshSkips, Turn
<1>3. Nodes' = Nodes /\ Keys' = Keys
  BY <1>2, SameBlock
<1>4. /\ phase \in [Nodes -> {"waiting", "file", "symbol", "done"}]
      /\ \A m \in Nodes : phase'[m] # "done" => phase'[m] = phase[m]
  BY <1>1, <1>2 DEF ResolveTypeOK
<1>5. ResolveTypeOK'
  BY <1>1, <1>2, <1>3 DEF ResolveTypeOK
<1>6. Asking'
  <2>1. \A m \in Nodes : Probing(m)' <=> Probing(m)
    BY <1>2 DEF Probing
  <2>2. QED
    BY <1>1, <1>2, <1>3, <1>4, <2>1 DEF Asking
<1>7. InTime'
  BY <1>2 DEF InTime
<1>8. AllAgain'
  <2>1. \A m \in Nodes : Again(before[m])' <=> Again(before[m])
    BY <1>2, Zenon DEF Again
  <2>2. QED
    BY <1>1, <1>2, <1>3, <2>1 DEF AllAgain
<1>9. Kept'
  <2>1. \A m \in Nodes : Repeats(lookup[m], before[m])' <=> Repeats(lookup[m], before[m])
    BY <1>2, Zenon DEF Repeats
  <2>2. QED
    BY <1>1, <1>2, <1>3, <1>4, <2>1 DEF Kept
<1>10. QED
  BY <1>5, <1>6, <1>7, <1>8, <1>9 DEF ResolveInv

(* A node with a position asks for it again. *)
LEMMA RefreshAsksKeeps ==
  ASSUME ResolveInv, NEW n \in Nodes, RefreshAsks(n)
  PROVE  ResolveInv'
<1> DEFINE asked == Asked(location[n].doc, location[n].path, "call")
<1>1. ResolveTypeOK /\ Asking /\ InTime /\ AllAgain /\ Kept
  BY DEF ResolveInv
<1>2. /\ mode = "refreshing" /\ phase[n] = "waiting" /\ phase' = [phase EXCEPT ![n] = "symbol"]
      /\ location[n].doc # NoFile /\ location[n].path # <<>>
      /\ lookup' = [lookup EXCEPT ![n] = asked]
      /\ UNCHANGED <<tree, block, mode, known, owner, joined, location, before, silent, now>>
  BY DEF RefreshAsks, Turn, NothingToRefresh
<1>3. Nodes' = Nodes /\ Keys' = Keys
  BY <1>2, SameBlock
<1>4. /\ asked \in Lookup /\ asked.stage = "open" /\ ~asked.overdue
      /\ asked.doc = location[n].doc /\ asked.path = location[n].path
  <2>1. location[n] \in Location
    BY <1>1 DEF ResolveTypeOK
  <2>2. location[n].doc \in Documents /\ location[n].path \in Paths
    BY <2>1 DEF Location
  <2>3. QED
    BY <1>2, <2>2, AskedType
<1> HIDE DEF asked
<1>5. /\ phase \in [Nodes -> {"waiting", "file", "symbol", "done"}]
      /\ lookup \in [Nodes -> Lookup]
  BY <1>1 DEF ResolveTypeOK
<1>6. /\ phase'[n] = "symbol" /\ lookup'[n] = asked /\ lookup' \in [Nodes -> Lookup]
      /\ \A m \in Nodes : m # n => phase'[m] = phase[m] /\ lookup'[m] = lookup[m]
  BY <1>2, <1>4, <1>5
<1>7. ResolveTypeOK'
  BY <1>1, <1>2, <1>3, <1>6 DEF ResolveTypeOK
<1>8. \A m \in Nodes : joined[m] = m
  BY <1>1, <1>2 DEF Kept
<1>9. Asking'
  <2>1. \A m \in Nodes : /\ Probing(m)' => lookup'[m].path # <<>>
                         /\ lookup'[m].overdue => Probing(m)'
    BY <1>1, <1>2, <1>4, <1>6 DEF Asking, Probing
  <2>2. \A m \in Nodes : phase'[m] \in {"waiting", "file"} => lookup'[m].stage = "none"
    BY <1>1, <1>6 DEF Asking
  <2>3. \A m \in Nodes : phase'[m] = "symbol" => joined[m] # 0 /\ lookup'[joined[m]].stage # "none"
    <3>1. \A m \in Nodes : phase[m] = "symbol" => joined[m] # 0 /\ lookup[joined[m]].stage # "none"
      BY <1>1 DEF Asking
    <3>2. n # 0
      BY <1>1, NodeType
    <3>3. QED
      BY <1>4, <1>6, <1>8, <3>1, <3>2
  <2>4. \A m \in Nodes : phase'[m] # "file"
    BY <1>1, <1>2, <1>6 DEF Asking
  <2>5. QED
    BY <1>2, <1>3, <2>1, <2>2, <2>3, <2>4 DEF Asking
<1>10. InTime'
  BY <1>2 DEF InTime
<1>11. AllAgain'
  <2>1. \A m \in Nodes : Again(before[m])' <=> Again(before[m])
    BY <1>2, Zenon DEF Again
  <2>2. QED
    BY <1>1, <1>2, <1>3, <2>1 DEF AllAgain
<1>12. Kept'
  <2>1. \A m \in Nodes : Repeats(lookup[m], before[m])' <=> Repeats(lookup'[m], before[m])
    BY <1>2, Zenon DEF Repeats
  <2>2. /\ \A m \in Nodes : phase[m] # "done" => location[m] = before[m]
        /\ \A m \in Nodes : ~silent /\ before[m].status = "ok" /\ before[m].hit # Indexed =>
             /\ location[m] = before[m]
             /\ phase[m] = "symbol" => Repeats(lookup[m], before[m])
    BY <1>1, <1>2 DEF Kept
  <2>3. Repeats(lookup'[n], before[n])
    <3>1. location[n] = before[n]
      BY <1>2, <2>2
    <3>2. QED
      BY <1>2, <1>4, <1>6, <3>1 DEF Repeats
  <2>4. \A m \in Nodes : phase'[m] # "done" => location[m] = before[m]
    BY <1>2, <1>6, <2>2
  <2>5. \A m \in Nodes : ~silent /\ before[m].status = "ok" /\ before[m].hit # Indexed =>
             /\ location[m] = before[m]
             /\ phase'[m] = "symbol" => Repeats(lookup'[m], before[m])
    BY <1>6, <2>2, <2>3
  <2>6. QED
    BY <1>2, <1>3, <1>8, <2>1, <2>4, <2>5 DEF Kept
<1>13. QED
  BY <1>7, <1>9, <1>10, <1>11, <1>12 DEF ResolveInv

(* A node that was placed is told again where it is. *)
LEMMA RefreshPlacesKeeps ==
  ASSUME ResolveInv, NEW n \in Nodes, RefreshPlaces(n)
  PROVE  ResolveInv'
<1> DEFINE was == location[n]
           found == lookup[n].found
<1>1. ResolveTypeOK /\ Asking /\ InTime /\ AllAgain /\ Kept
  BY DEF ResolveInv
<1>2. /\ mode = "refreshing" /\ phase[n] = "symbol" /\ lookup[n].stage = "settled"
      /\ phase' = [phase EXCEPT ![n] = "done"]
      /\ UNCHANGED <<tree, block, mode, known, owner, joined, lookup, before, silent, now>>
  BY DEF RefreshPlaces
<1>3. PICK sameLines \in BOOLEAN :
        LET again == found.doc = was.doc /\ found.hit = was.hit /\ was.hit # Indexed
            same == found.status = "ok" /\ (again \/ sameLines)
        IN \/ /\ was.status = "ok" /\ same
              /\ UNCHANGED location
           \/ /\ was.status = "ok" /\ ~same /\ found.status = "ok"
              /\ location' = [location EXCEPT ![n] = found]
           \/ /\ was.status = "ok" /\ found.status # "ok"
              /\ location' = [location EXCEPT ![n].status = "stale"]
           \/ /\ was.status # "ok"
              /\ location' = [location EXCEPT ![n] = found]
  BY Zenon DEF RefreshPlaces
<1>4. Nodes' = Nodes /\ Keys' = Keys
  BY <1>2, SameBlock
<1>5. /\ location \in [Nodes -> Location] /\ was \in Location
      /\ phase \in [Nodes -> {"waiting", "file", "symbol", "done"}]
  BY <1>1 DEF ResolveTypeOK
<1>6. found \in Location
  BY <1>1, LookupType
<1>7. /\ phase'[n] = "done" /\ \A m \in Nodes : m # n => phase'[m] = phase[m]
  BY <1>2, <1>5
<1>8. [was EXCEPT !.status = "stale"] \in Location
  BY <1>5 DEF Location
<1>9. /\ location' \in [Nodes -> Location]
      /\ \A m \in Nodes : m # n => location'[m] = location[m]
      /\ was.status = "ok" /\ found.status = "ok" /\ found.doc = was.doc /\ found.hit = was.hit
         /\ was.hit # Indexed => location'[n] = was
  <2>1. \/ location' = location
        \/ location' = [location EXCEPT ![n] = found]
        \/ location' = [location EXCEPT ![n].status = "stale"]
    BY <1>3
  <2>2. was.status = "ok" /\ found.status = "ok" /\ found.doc = was.doc /\ found.hit = was.hit
         /\ was.hit # Indexed => location' = location
    BY <1>3
  <2>3. CASE location' = [location EXCEPT ![n].status = "stale"]
    <3>1. location' = [location EXCEPT ![n] = [was EXCEPT !.status = "stale"]]
      BY <1>5, <2>3
    <3> HIDE DEF found
    <3>2. QED
      BY <1>5, <1>8, <2>2, <3>1
  <2>4. QED
    BY <1>5, <1>6, <2>1, <2>2, <2>3
<1> HIDE DEF found, was
<1>10. ResolveTypeOK'
  BY <1>1, <1>2, <1>4, <1>9 DEF ResolveTypeOK
<1>11. Asking'
  <2>1. \A m \in Nodes : Probing(m)' <=> Probing(m)
    BY <1>2 DEF Probing
  <2>2. \A m \in Nodes : phase'[m] # "done" => phase'[m] = phase[m]
    BY <1>7
  <2>3. QED
    BY <1>1, <1>2, <1>4, <2>1, <2>2 DEF Asking
<1>12. InTime'
  BY <1>2 DEF InTime
<1>13. AllAgain'
  <2>1. \A m \in Nodes : Again(before[m])' <=> Again(before[m])
    BY <1>2, Zenon DEF Again
  <2>2. QED
    BY <1>1, <1>2, <1>4, <2>1 DEF AllAgain
<1>14. Kept'
  <2>1. \A m \in Nodes : Repeats(lookup[m], before[m])' <=> Repeats(lookup[m], before[m])
    BY <1>2, Zenon DEF Repeats
  <2>2. /\ \A m \in Nodes : joined[m] = m
        /\ \A m \in Nodes : phase[m] # "done" => location[m] = before[m]
        /\ \A m \in Nodes : ~silent /\ before[m].status = "ok" /\ before[m].hit # Indexed =>
             /\ location[m] = before[m]
             /\ phase[m] = "symbol" => Repeats(lookup[m], before[m])
    BY <1>1, <1>2 DEF Kept
  <2>3. ASSUME ~silent, before[n].status = "ok", before[n].hit # Indexed
        PROVE  location'[n] = before[n]
    <3>1. was = before[n] /\ Repeats(lookup[n], before[n])
      BY <1>2, <2>2, <2>3 DEF was
    <3>2. found.status = "ok" /\ found.doc = was.doc /\ found.hit = was.hit
      BY <1>2, <3>1 DEF Repeats, found
    <3>3. QED
      BY <1>9, <2>3, <3>1, <3>2
  <2>4. \A m \in Nodes : phase'[m] # "done" => location'[m] = before[m]
    BY <1>7, <1>9, <2>2
  <2>5. \A m \in Nodes : ~silent /\ before[m].status = "ok" /\ before[m].hit # Indexed =>
             /\ location'[m] = before[m]
             /\ phase'[m] = "symbol" => Repeats(lookup[m], before[m])
    BY <1>7, <1>9, <2>2, <2>3
  <2>6. QED
    BY <1>2, <1>4, <2>1, <2>2, <2>4, <2>5 DEF Kept
<1>15. QED
  BY <1>10, <1>11, <1>12, <1>13, <1>14 DEF ResolveInv

LEMMA ResolveBegins == ResolveInit => ResolveInv
<1> SUFFICES ASSUME ResolveInit PROVE ResolveInv
  OBVIOUS
<1>1. /\ tree \in Forest /\ block \in Drafts /\ mode = "resolving"
      /\ phase = [n \in Nodes |-> "waiting"] /\ location = [n \in Nodes |-> Nowhere]
      /\ known = "unknown" /\ owner = [k \in Keys |-> 0] /\ joined = [n \in Nodes |-> 0]
      /\ lookup = [n \in Nodes |-> NoLookup] /\ before = [n \in Nodes |-> Nowhere]
      /\ silent = FALSE /\ now = 0
  BY DEF ResolveInit
<1>2. Nowhere \in Location /\ Again(Nowhere)
  BY PlacelessType
<1>3. NoLookup \in Lookup /\ NoLookup.stage = "none" /\ ~NoLookup.overdue
  BY <1>2, NoPath DEF NoLookup, Lookup, Stages, Documents
<1>4. Len(block) \in Nat /\ Budget \in Nat
  BY <1>1, DraftType, DraftsAssumption
<1>5. ResolveTypeOK
  <2>1. 0 \in 0..Len(block) /\ 0 \in 0..Budget
    BY <1>4
  <2>2. /\ owner \in [Keys -> 0..Len(block)] /\ joined \in [Nodes -> 0..Len(block)]
        /\ now \in 0..Budget
    BY <1>1, <2>1, Zenon
  <2>3. lookup \in [Nodes -> Lookup] /\ location \in [Nodes -> Location] /\ before \in [Nodes -> Location]
    BY <1>1, <1>2, <1>3
  <2>4. phase \in [Nodes -> {"waiting", "file", "symbol", "done"}]
    BY <1>1
  <2>5. QED
    BY <1>1, <2>2, <2>3, <2>4 DEF ResolveTypeOK
<1>6. Asking
  <2>1. \A m \in Nodes : ~Probing(m)
    BY <1>1, <1>3 DEF Probing
  <2>2. QED
    BY <1>1, <1>3, <2>1 DEF Asking
<1>7. InTime
  <2>1. \A m \in Nodes : Level(m) \in Nat \ {0}
    BY <1>1, LevelBelow
  <2>2. QED
    BY <1>1, <2>1 DEF InTime
<1>8. AllAgain
  BY <1>1, <1>2, <1>3 DEF AllAgain
<1>9. Kept
  BY <1>1 DEF Kept
<1>10. QED
  BY <1>5, <1>6, <1>7, <1>8, <1>9 DEF ResolveInv

LEMMA ResolveKeeps == ResolveInv /\ [ResolveNext]_resolveVars => ResolveInv'
<1> SUFFICES ASSUME ResolveInv, [ResolveNext]_resolveVars PROVE ResolveInv'
  OBVIOUS
<1>1. ASSUME NEW n \in Nodes, Start(n) PROVE ResolveInv'
  BY <1>1, StartKeeps
<1>2. ASSUME NEW n \in Nodes, FileAnswers(n) PROVE ResolveInv'
  BY <1>2, FileAnswersKeeps
<1>3. ASSUME NEW n \in Nodes, Place(n) PROVE ResolveInv'
  BY <1>3, PlaceKeeps
<1>4. ASSUME NEW n \in Nodes, Looks(n) PROVE ResolveInv'
  <2>1. \E at, found : LookupStep(n, at, found)
    BY <1>4, LookupSteps DEF ResolveInv
  <2>2. QED
    BY <2>1, LookupStepKeeps
<1>5. ASSUME NEW n \in Nodes, RefreshSkips(n) PROVE ResolveInv'
  BY <1>5, RefreshSkipsKeeps
<1>6. ASSUME NEW n \in Nodes, RefreshAsks(n) PROVE ResolveInv'
  BY <1>6, RefreshAsksKeeps
<1>7. ASSUME NEW n \in Nodes, RefreshPlaces(n) PROVE ResolveInv'
  BY <1>7, RefreshPlacesKeeps
<1>8. CASE Reply
  BY <1>8, ReplyKeeps
<1>9. CASE StartRefresh
  BY <1>9, StartRefreshKeeps
<1>10. CASE Tick
  BY <1>10, TickKeeps
<1>11. CASE UNCHANGED resolveVars
  <2>1. ResolveTypeOK /\ Asking /\ InTime /\ AllAgain /\ Kept
    BY DEF ResolveInv
  <2>2. UNCHANGED <<tree, block, mode, phase, known, owner, joined, lookup, location, before,
                    silent, now>>
    BY <1>11 DEF resolveVars
  <2>3. Nodes' = Nodes /\ Keys' = Keys /\ \A m : Level(m)' = Level(m)
    BY <2>2, SameBlock
  <2>4. \A m : /\ Again(location[m])' <=> Again(location[m])
               /\ Again(before[m])' <=> Again(before[m])
               /\ Again(lookup[m].found)' <=> Again(lookup[m].found)
    BY <2>2, Zenon DEF Again
  <2>5. \A m : Probing(m)' <=> Probing(m)
    BY <2>2, Zenon DEF Probing
  <2>6. \A m : Repeats(lookup[m], before[m])' <=> Repeats(lookup[m], before[m])
    BY <2>2, Zenon DEF Repeats
  <2>7. ResolveTypeOK'
    BY <2>1, <2>2, <2>3, Zenon DEF ResolveTypeOK
  <2>8. Asking'
    BY <2>1, <2>2, <2>3, <2>5 DEF Asking
  <2>9. InTime'
    BY <2>1, <2>2, <2>3 DEF InTime
  <2>10. AllAgain'
    BY <2>1, <2>2, <2>3, <2>4 DEF AllAgain
  <2>11. Kept'
    BY <2>1, <2>2, <2>3, <2>6 DEF Kept
  <2>12. QED
    BY <2>7, <2>8, <2>9, <2>10, <2>11 DEF ResolveInv
<1>12. QED
  BY <1>1, <1>2, <1>3, <1>4, <1>5, <1>6, <1>7, <1>8, <1>9, <1>10, <1>11 DEF ResolveNext, Looks

LEMMA ResolveInvariant == ResolveSpec => []ResolveInv
<1>1. QED
  BY ResolveBegins, ResolveKeeps, PTL DEF ResolveSpec

(* A wedged language server costs a block at most four of lspClient's      *)
(* timeouts a level, whatever the block.                                   *)
THEOREM BoundedCorrect == ResolveSpec => []BoundedByLevels
<1>1. ResolveInv => BoundedByLevels
  <2>1. SUFFICES ASSUME ResolveInv, mode = "resolving", NEW n \in Nodes, phase[n] # "done"
                 PROVE  ~(now > 4 * Level(n))
    BY DEF BoundedByLevels
  <2>2. now \in Nat /\ Level(n) \in Nat /\ phase[n] \in {"waiting", "file", "symbol", "done"}
    BY <2>1, LevelBelow DEF ResolveInv, ResolveTypeOK
  <2>3. /\ phase[n] \in {"waiting", "file"} => now <= 4 * (Level(n) - 1)
        /\ phase[n] = "symbol" => now <= 4 * (Level(n) - 1) + Spent(lookup[joined[n]])
    BY <2>1 DEF ResolveInv, InTime
  <2>4. phase[n] = "symbol" => Spent(lookup[joined[n]]) <= 4
    <3>1. SUFFICES ASSUME phase[n] = "symbol" PROVE Spent(lookup[joined[n]]) <= 4
      OBVIOUS
    <3> DEFINE j == joined[n]
    <3>2. j \in Nodes
      <4>1. j # 0 /\ j \in 0..Len(block) /\ Nodes = 1..Len(block)
        BY <2>1, <3>1, DraftType DEF ResolveInv, ResolveTypeOK, Asking
      <4>2. QED
        BY <4>1
    <3>3. CASE lookup[j].overdue
      <4>1. Probing(j)
        BY <2>1, <3>2, <3>3 DEF ResolveInv, Asking
      <4>2. Rank(lookup[j].stage) \in 0..3
        BY <4>1 DEF Probing, Rank
      <4>3. QED
        BY <4>2, Ranks
    <3>4. CASE ~lookup[j].overdue
      <4>1. Spent(lookup[j]) = Rank(lookup[j].stage) + 0
        BY <3>4 DEF Spent
      <4>2. QED
        BY <4>1, Ranks
    <3>5. QED
      BY <3>3, <3>4
  <2>5. Spent(lookup[joined[n]]) \in Nat
    BY Ranks
  <2>6. QED
    BY <2>1, <2>2, <2>3, <2>4, <2>5
<1>2. QED
  BY <1>1, ResolveInvariant, PTL

(* tutor_refresh of code that did not change leaves every position where   *)
(* the call found it, whatever the document, the block and the hits.       *)
THEOREM RefreshCorrect == ResolveSpec => []RefreshKeepsUnchanged
<1>1. ResolveInv => RefreshKeepsUnchanged
  BY DEF ResolveInv, Kept, RefreshKeepsUnchanged
<1>2. QED
  BY <1>1, ResolveInvariant, PTL
=============================================================================

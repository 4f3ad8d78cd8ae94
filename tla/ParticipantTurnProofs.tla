----------------------- MODULE ParticipantTurnProofs -----------------------
(***************************************************************************)
(* For all timeouts, requests and views: a running request never outlives  *)
(* the hard timeout, and ends for a cause only. The invariant ties the two *)
(* timers to the time that has passed; it needs that only a request still  *)
(* being set up has a call of view() waiting, so that an answer never ends *)
(* a running request.                                                      *)
(*                                                                         *)
(* And for all chats, reducers and orders of the frames: once the frames   *)
(* on their way are folded, the client's chat is the host's. FoldInv says  *)
(* what the frames still on their way make of the client's fold; it needs  *)
(* that a call has one frame on its way at most, that the host sends a     *)
(* chat to a client that has subscribed only, and that nothing is written  *)
(* of a session before it is made or after it is gone.                     *)
(***************************************************************************)
EXTENDS ParticipantTurn, RecursionProofs

Lives == {"none", "setup", "running", "ended"}

Timers ==
    /\ life \in [Requests -> Lives]
    /\ quiet \in [Requests -> (0..Quiet) \cup {Off}]
    /\ hard \in [Requests -> (0..Hard) \cup {Off}]
    /\ still \in [Requests -> Nat] /\ age \in [Requests -> Nat]

\* The timers of a running request count down what its clocks count up.
Clocked == \A r \in Requests : life[r] = "running" =>
    /\ hard[r] \in 0..Hard /\ age[r] + hard[r] = Hard
    /\ quiet[r] \in 0..Quiet /\ still[r] + quiet[r] = Quiet

IsCall(x) == x = [at |-> x.at, waits |-> x.waits, tries |-> x.tries]

\* Only a request that is being set up waits for an answer or a retry.
Waiting ==
    /\ DOMAIN call = Callers
    /\ \A c \in Callers : IsCall(call[c])
    /\ \A r \in Requests : call[r].waits # "none" => life[r] = "setup"

Tokens == DOMAIN token = Requests

IInv == Timers /\ Clocked /\ Waiting /\ Tokens

\* Why a request may end.
Cause(r) == \/ chats'[r] # NoChat /\ TurnOver(chats'[r])
            \/ token'[r] = "seen"
            \/ still[r] >= Quiet
            \/ age[r] >= Hard

Justified == \A r \in Requests : life[r] = "running" /\ life'[r] = "ended" => Cause(r)

LEMMA Constants ==
    /\ Quiet \in Nat /\ Hard \in Nat /\ Off \notin Nat
    /\ Requests \subseteq Callers
BY ParticipantAssumption

LEMMA InitIInv == Init => IInv
BY Constants DEF Init, ClientInit, IInv, Timers, Clocked, Waiting, IsCall, Lives, Tokens

\* A step that leaves the tracker alone.
LEMMA TrackerKept ==
    ASSUME IInv, UNCHANGED turnVars, Waiting'
    PROVE  IInv' /\ Justified
BY DEF IInv, turnVars, Timers, Clocked, Tokens, Justified

LEMMA CallsKept ==
    ASSUME Waiting, UNCHANGED call,
           \A r \in Requests : life[r] = "setup" => life'[r] = "setup"
    PROVE  Waiting'
BY Constants DEF Waiting, IsCall

-----------------------------------------------------------------------------
\* changed() runs the listeners: their quiet timers are re-armed, and those
\* whose turn is over end.
LEMMA NotifiedStep ==
    ASSUME IInv, NEW folds, Notified(folds), chats' = folds, UNCHANGED call
    PROVE  IInv' /\ Justified
<1> DEFINE heard == {r \in Requests : (\E i \in DOMAIN listeners : listeners[i] = r)
                                        /\ folds[r] # NoChat}
           gone == {r \in heard : life[r] = "running" /\ TurnOver(folds[r])}
<1>1. /\ life' = [r \in Requests |-> IF r \in gone THEN "ended" ELSE life[r]]
      /\ hard' = [r \in Requests |-> IF r \in gone THEN Off ELSE hard[r]]
      /\ quiet' = [r \in Requests |-> IF r \in gone THEN Off
                                      ELSE IF r \in heard THEN Quiet ELSE quiet[r]]
      /\ still' = [r \in Requests |-> IF r \in heard THEN 0 ELSE still[r]]
      /\ age' = age /\ token' = token
  BY DEF Notified, Settled, Rearmed
<1>2. gone \subseteq heard /\ heard \subseteq Requests
  OBVIOUS
<1>3. \A r \in gone : life[r] = "running" /\ folds[r] # NoChat /\ TurnOver(folds[r])
  OBVIOUS
<1> HIDE DEF heard, gone
<1>4. Timers'
  BY <1>1, <1>2, Constants DEF IInv, Timers, Lives
<1>5. Clocked'
  BY <1>1, <1>2, Constants DEF IInv, Timers, Clocked
<1>6. Waiting'
  BY <1>1, <1>2, <1>3, CallsKept DEF IInv
<1>7. Justified
  BY <1>1, <1>3 DEF Justified, Cause, IInv, Timers
<1>8. QED
  BY <1>1, <1>4, <1>5, <1>6, <1>7 DEF IInv, Tokens

\* resolve() outside a fold ends the request it belongs to, if that runs.
LEMMA EndStep ==
    ASSUME IInv, NEW r \in Requests, NEW frames, End(r, frames), Cause(r), Tokens'
    PROVE  IInv' /\ Justified
<1> DEFINE gone == {x \in {r} : life[x] = "running"}
<1>1. /\ life' = [x \in Requests |-> IF x \in gone THEN "ended" ELSE life[x]]
      /\ hard' = [x \in Requests |-> IF x \in gone THEN Off ELSE hard[x]]
      /\ quiet' = [quiet EXCEPT ![r] = Off]
      /\ UNCHANGED <<call, still, age>>
  BY DEF End, Settled
<1>2. \A x \in Requests : x \in gone <=> x = r /\ life[r] = "running"
  OBVIOUS
<1> HIDE DEF gone
<1>3. Timers'
  BY <1>1, <1>2 DEF IInv, Timers, Lives
<1>4. Clocked'
  BY <1>1, <1>2 DEF IInv, Timers, Clocked
<1>5. Waiting'
  BY <1>1, <1>2, CallsKept DEF IInv
<1>6. Justified
  BY <1>1, <1>2 DEF Justified, IInv, Timers
<1>7. QED
  BY <1>3, <1>4, <1>5, <1>6 DEF IInv

\* A timer that is due ends its request for a cause, or one that is over.
LEMMA DueStep ==
    ASSUME IInv, NEW r \in Requests, quiet[r] = 0 \/ hard[r] = 0, End(r, <<>>),
           UNCHANGED token
    PROVE  IInv' /\ Justified
<1>1. CASE life[r] = "running"
  <2>1. Cause(r)
    BY <1>1, Constants DEF Cause, IInv, Timers, Clocked
  <2>2. QED
    BY <2>1, EndStep DEF IInv, Tokens
<1>2. CASE life[r] # "running"
  <2>1. /\ life' = life /\ hard' = hard /\ quiet' = [quiet EXCEPT ![r] = Off]
        /\ UNCHANGED <<call, still, age>>
    BY <1>2 DEF End, Settled, IInv, Timers
  <2>2. Waiting'
    BY <2>1, CallsKept DEF IInv
  <2>3. QED
    BY <1>2, <2>1, <2>2 DEF IInv, Timers, Clocked, Tokens, Justified
<1>3. QED
  BY <1>1, <1>2

LEMMA TickStep ==
    ASSUME IInv, Tick
    PROVE  IInv' /\ Justified
<1>1. \A r \in Requests : quiet[r] # 0 /\ hard[r] # 0
  <2>1. TAKE r \in Requests
  <2>2. <<r, quiet[r]>> \in Armed /\ <<r, hard[r]>> \in Armed
    BY DEF Armed
  <2>3. <<r, quiet[r]>>[2] # 0 /\ <<r, hard[r]>>[2] # 0
    BY <2>2 DEF Tick
  <2>4. QED
    BY <2>3
<1>2. /\ quiet' = [r \in Requests |-> Less(quiet[r])]
      /\ hard' = [r \in Requests |-> Less(hard[r])]
      /\ still' = [r \in Requests |-> IF life[r] = "running" THEN still[r] + 1 ELSE 0]
      /\ age' = [r \in Requests |-> IF life[r] = "running" THEN age[r] + 1 ELSE 0]
      /\ UNCHANGED <<call, life, token>>
  BY DEF Tick, clientVars
<1>3. Timers'
  BY <1>1, <1>2, Constants DEF IInv, Timers, Less
<1>4. Clocked'
  BY <1>1, <1>2, Constants DEF IInv, Timers, Clocked, Less
<1>5. Waiting'
  BY <1>2, CallsKept DEF IInv
<1>6. Justified
  BY <1>2 DEF Justified, IInv, Timers
<1>7. QED
  BY <1>2, <1>3, <1>4, <1>5, <1>6 DEF IInv, Tokens
-----------------------------------------------------------------------------
\* The submit arms both timers and starts the clocks.
LEMMA LaunchStep ==
    ASSUME IInv, NEW r \in Requests, Launch(r)
    PROVE  IInv' /\ Justified
<1>1. /\ life' = [life EXCEPT ![r] = "running"]
      /\ quiet' = [quiet EXCEPT ![r] = Quiet] /\ hard' = [hard EXCEPT ![r] = Hard]
      /\ still' = [still EXCEPT ![r] = 0] /\ age' = [age EXCEPT ![r] = 0]
      /\ call' = [call EXCEPT ![r] = [at |-> "done", waits |-> "none", tries |-> 0]]
      /\ token' = token
  BY DEF Launch, Rest
<1>2. Timers' /\ Clocked'
  BY <1>1, Constants DEF IInv, Timers, Clocked, Lives
<1>3. Waiting'
  BY <1>1, Constants DEF IInv, Waiting, IsCall, Timers
<1>4. Justified
  BY <1>1 DEF Justified, IInv, Timers
<1>5. QED
  BY <1>1, <1>2, <1>3, <1>4 DEF IInv, Tokens

\* A setup that fails ends a request that is not running yet.
LEMMA FailStep ==
    ASSUME IInv, NEW r \in Requests, life[r] = "setup", SetupFails(r), Rest(r, "failed"),
           UNCHANGED <<quiet, hard, still, age, token>>
    PROVE  IInv' /\ Justified
<1>1. /\ life' = [life EXCEPT ![r] = "ended"]
      /\ call' = [call EXCEPT ![r] = [at |-> "failed", waits |-> "none", tries |-> 0]]
  BY DEF SetupFails, Rest
<1>2. Timers' /\ Clocked'
  BY <1>1 DEF IInv, Timers, Clocked, Lives
<1>3. Waiting'
  BY <1>1, Constants DEF IInv, Waiting, IsCall, Timers
<1>4. Justified
  BY <1>1 DEF Justified, IInv, Timers
<1>5. QED
  BY <1>1, <1>2, <1>3, <1>4 DEF IInv, Tokens

\* Entering a channel keeps who may wait, if the call was waiting already or
\* is the sidebar's.
LEMMA EnterWaits ==
    ASSUME Waiting, NEW c \in Callers, NEW kind, Enter(c, kind), UNCHANGED life,
           c \in Requests => life[c] = "setup"
    PROVE  Waiting'
<1>1. call' = [call EXCEPT ![c] = [at |-> kind, waits |-> "answer", tries |-> 0]]
  BY DEF Enter
<1>2. QED
  BY <1>1, Constants DEF Waiting, IsCall

LEMMA RestWaits ==
    ASSUME Waiting, NEW c \in Callers, NEW at, Rest(c, at), UNCHANGED life
    PROVE  Waiting'
BY Constants DEF Waiting, IsCall, Rest

LEMMA GoOnStep ==
    ASSUME IInv, NEW c \in Callers, NEW list, GoOn(c, list),
           c \in Requests => life[c] = "setup"
    PROVE  IInv' /\ Justified
<1>1. CASE UNCHANGED turnVars /\ \E kind : Enter(c, kind)
  BY <1>1, EnterWaits, TrackerKept DEF IInv, turnVars
<1>2. CASE c \in Requests /\ Launch(c)
  BY <1>2, LaunchStep
<1>3. CASE /\ c \in Requests /\ SetupFails(c) /\ Rest(c, "failed")
           /\ UNCHANGED <<quiet, hard, still, age, token>>
  BY <1>3, FailStep
<1>4. CASE Rest(c, "done") /\ UNCHANGED turnVars
  BY <1>4, RestWaits, TrackerKept DEF IInv, turnVars
<1>5. QED
  BY <1>1, <1>2, <1>3, <1>4 DEF GoOn

LEMMA AnsweredStep ==
    ASSUME IInv, NEW c \in Callers, NEW f, Answered(c, f)
    PROVE  IInv' /\ Justified
<1>1. call[c].waits = "answer" /\ (c \in Requests => life[c] = "setup")
  BY DEF Answered, IInv, Waiting
<1>2. CASE f.ok
  <2>1. \E list : GoOn(c, list)
    BY <1>2 DEF Answered
  <2>2. QED
    BY <1>1, <2>1, GoOnStep
<1>3. CASE ~f.ok
  <2>1. /\ Miss(c)
        /\ IF c \in Requests /\ ~(call[c].tries < Retries) THEN SetupFails(c) ELSE UNCHANGED life
        /\ UNCHANGED <<quiet, hard, still, age, token>>
    BY <1>3 DEF Answered
  <2>2. CASE call[c].tries < Retries
    <3>1. UNCHANGED life /\ call' = [call EXCEPT ![c].waits = "pause"]
      BY <2>1, <2>2 DEF Miss
    <3>2. Waiting'
      BY <1>1, <3>1, Constants DEF IInv, Waiting, IsCall
    <3>3. QED
      BY <2>1, <3>1, <3>2 DEF IInv, Timers, Clocked, Tokens, Justified
  <2>3. CASE ~(call[c].tries < Retries) /\ UNCHANGED life
    <3>1. Rest(c, "failed")
      BY <2>1, <2>3 DEF Miss
    <3>2. Waiting'
      BY <2>3, <3>1, RestWaits DEF IInv
    <3>3. QED
      BY <2>1, <2>3, <3>2 DEF IInv, Timers, Clocked, Tokens, Justified
  <2>4. CASE ~(call[c].tries < Retries) /\ c \in Requests /\ SetupFails(c)
    <3>1. Rest(c, "failed")
      BY <2>1, <2>4 DEF Miss
    <3>2. QED
      BY <1>1, <2>1, <2>4, <3>1, FailStep
  <2>5. QED
    BY <2>1, <2>2, <2>3, <2>4
<1>4. QED
  BY <1>2, <1>3

LEMMA RetryStep ==
    ASSUME IInv, NEW c \in Callers, Retry(c)
    PROVE  IInv' /\ Justified
<1>1. c \in Requests => life[c] = "setup"
  BY DEF Retry, RetryDue, IInv, Waiting
<1>2. CASE \E list : GoOn(c, list)
  BY <1>1, <1>2, GoOnStep
<1>3. CASE Resubscribe(c) /\ UNCHANGED turnVars
  <2>1. UNCHANGED life /\ call' = [call EXCEPT ![c].waits = "answer", ![c].tries = @ + 1]
    BY <1>3 DEF Resubscribe, turnVars
  <2>2. Waiting'
    BY <1>1, <2>1, Constants DEF IInv, Waiting, IsCall
  <2>3. QED
    BY <1>3, <2>2, TrackerKept
<1>4. QED
  BY <1>2, <1>3 DEF Retry

LEMMA ClientTakesStep ==
    ASSUME IInv, ClientTakes
    PROVE  IInv' /\ Justified
<1> DEFINE f == Head(wire)
<1>1. CASE \E c \in Callers : Answered(c, f)
  BY <1>1, AnsweredStep
<1>2. CASE Notified(chats') /\ UNCHANGED call
  BY <1>2, NotifiedStep
<1>3. CASE UNCHANGED call /\ UNCHANGED turnVars
  BY <1>3, CallsKept, TrackerKept DEF IInv, turnVars
<1>4. QED
  BY <1>1, <1>2, <1>3 DEF ClientTakes

LEMMA BeginStep ==
    ASSUME IInv, NEW r \in Requests, Begin(r)
    PROVE  IInv' /\ Justified
<1>1. /\ life' = [life EXCEPT ![r] = "setup"] /\ life[r] = "none"
      /\ call' = [call EXCEPT ![r] = [at |-> "create", waits |-> "answer", tries |-> 0]]
      /\ UNCHANGED <<quiet, hard, still, age, token>>
  BY DEF Begin
<1>2. Timers' /\ Clocked'
  BY <1>1 DEF IInv, Timers, Clocked, Lives
<1>3. Waiting'
  BY <1>1, Constants DEF IInv, Waiting, IsCall, Timers
<1>4. Justified
  BY <1>1 DEF Justified, IInv, Timers
<1>5. QED
  BY <1>1, <1>2, <1>3, <1>4 DEF IInv, Tokens

LEMMA ViewStep ==
    ASSUME IInv, NEW v \in Views, View(v)
    PROVE  IInv' /\ Justified
<1>1. v \in Callers /\ v \notin Requests
  BY DEF Views
<1>2. UNCHANGED turnVars /\ (Rest(v, "done") \/ \E kind : Enter(v, kind))
  BY DEF View
<1>3. Waiting'
  BY <1>1, <1>2, RestWaits, EnterWaits DEF IInv, turnVars
<1>4. QED
  BY <1>2, <1>3, TrackerKept

\* Every step keeps the invariant, and ends a running request for a cause.
LEMMA NextStep ==
    ASSUME IInv, Next
    PROVE  IInv' /\ Justified
<1>1. CASE \E r \in Requests : Begin(r)
  BY <1>1, BeginStep
<1>2. CASE \E r \in Requests : Cancel(r)
  <2>1. UNCHANGED <<call, life, quiet, hard, still, age>>
    BY <1>2 DEF Cancel, clientVars
  <2>2. Waiting' /\ Tokens'
    BY <1>2, <2>1, CallsKept DEF IInv, Tokens, Cancel
  <2>3. QED
    BY <2>1, <2>2 DEF IInv, Timers, Clocked, Justified
<1>3. CASE \E r \in Requests : CancelSeen(r)
  <2>1. PICK r \in Requests : CancelSeen(r)
    BY <1>3
  <2>2. token'[r] = "seen" /\ Tokens'
    BY <2>1 DEF CancelSeen, IInv, Tokens
  <2>3. QED
    BY <2>1, <2>2, EndStep DEF CancelSeen, Cause
<1>4. CASE \E r \in Requests : QuietDue(r)
  <2>1. PICK r \in Requests : QuietDue(r)
    BY <1>4
  <2>2. QED
    BY <2>1, DueStep DEF QuietDue
<1>5. CASE \E r \in Requests : HardDue(r)
  <2>1. PICK r \in Requests : HardDue(r)
    BY <1>5
  <2>2. QED
    BY <2>1, DueStep DEF HardDue
<1>6. CASE \E v \in Views : View(v)
  BY <1>6, ViewStep
<1>7. CASE \E c \in Callers : Retry(c)
  BY <1>7, RetryStep
<1>8. CASE UNCHANGED turnVars /\ UNCHANGED call
  BY <1>8, CallsKept, TrackerKept DEF IInv, turnVars
<1>9. CASE ClientTakes
  BY <1>9, ClientTakesStep
<1>10. CASE OtherFold
  BY <1>10, NotifiedStep DEF OtherFold
<1>11. CASE Tick
  BY <1>11, TickStep
<1>12. QED
  BY <1>1, <1>2, <1>3, <1>4, <1>5, <1>6, <1>7, <1>8, <1>9, <1>10, <1>11
  DEF Next, Materialise, Work, HostWorks, HostStep, HostTakes
-----------------------------------------------------------------------------
THEOREM IInvCorrect == Spec => []IInv
<1>1. IInv /\ [Next]_vars => IInv'
  <2>1. CASE UNCHANGED vars
    BY <2>1, CallsKept, TrackerKept DEF vars, clientVars, turnVars, IInv
  <2>2. QED
    BY <2>1, NextStep
<1>2. QED
  BY InitIInv, <1>1, PTL DEF Spec

\* A stuck stream, or other conversations that keep re-arming the quiet timer,
\* never pin a request past the hard timeout, whatever the two timeouts are.
THEOREM HardLimitCorrect == Spec => []EndsInTime
<1>1. IInv => EndsInTime
  BY Constants DEF IInv, Timers, Clocked, EndsInTime
<1>2. QED
  BY IInvCorrect, <1>1, PTL

\* A running request ends only when its chat says so, when the user stops it or
\* when one of the timeouts has really passed.
THEOREM CauseCorrect == Spec => EndsForCause
<1>1. IInv /\ [Next]_vars =>
        [\A r \in Requests : life[r] = "running" /\ life'[r] = "ended" =>
            \/ chats'[r] # NoChat /\ TurnOver(chats'[r])
            \/ token'[r] = "seen"
            \/ still[r] >= Quiet
            \/ age[r] >= Hard]_vars
  BY NextStep DEF Justified, Cause
<1>2. QED
  BY IInvCorrect, <1>1, PTL DEF Spec, EndsForCause

-----------------------------------------------------------------------------
\* Frames and their kinds; what stands for a call of view().
Ats == Kinds \cup {"idle", "create", "done", "failed"}

UpFrames == [k : {"create"}, c : Requests] \cup [k : {"sub"}, c : Callers, kind : Ats]
              \cup [k : {"act"}, s : Sessions, act : Actions]
              \cup [k : {"dispose", "unsub"}, s : Sessions]

Held == [live : BOOLEAN, seeded : BOOLEAN, chat : Chat \cup {NoChat},
         coming : BOOLEAN, sends : BOOLEAN]

WireFrames == [k : {"answer"}, c : Callers, ok : BOOLEAN, state : Held]
                \cup [k : {"act"}, s : Sessions, act : Actions, ok : BOOLEAN]
                \cup [k : {"disposed"}, s : Sessions]

\* What is in a queue, and what of it is for a call.
Frames(q) == {q[i] : i \in DOMAIN q}

Names(f) == f.k \in {"create", "sub", "answer"}

\* The calls a frame of q asks or answers for.
Asking(q) == {c \in Callers : \E f \in Frames(q) : Names(f) /\ f.c = c}

\* No two frames of q are for one call.
Once(q) == \A i, j \in DOMAIN q : Names(q[i]) /\ Names(q[j]) /\ q[i].c = q[j].c => i = j

\* The types of what the proof is about.
Channels ==
    /\ up \in Seq(UpFrames) /\ wire \in Seq(WireFrames)
    /\ host \in [Sessions -> Held]
    /\ chats \in [Sessions -> Chat \cup {NoChat}]
    /\ listeners \in Seq(Requests)
    /\ \A c \in Callers : call[c].at \in Ats

\* A call that is asked or answered for waits, and once only.
Asked ==
    /\ Once(up) /\ Once(wire) /\ Asking(up) \cap Asking(wire) = {}
    /\ \A c \in Asking(up) \cup Asking(wire) : call[c].waits = "answer"
    /\ \A f \in Frames(up) : f.k = "create" => call[f.c].at = "create"
    /\ \A f \in Frames(up) : f.k = "sub" => f.kind = call[f.c].at
    /\ \A c \in Callers : call[c].at = "idle" => call[c].waits = "none"

\* No session yet: its request has not begun, or not been heard.
Unborn(s) == s \notin Requests \/ life[s] = "none" \/ CreateFrame(s) \in Frames(up)

\* Of an unborn session nothing is subscribed, sent or called but its creation.
Born ==
    \A s \in Sessions : Unborn(s) =>
        /\ ~host[s].live /\ ~host[s].sends /\ <<"chat", s>> \notin subs
        /\ \A c \in Callers : Target[c] = s =>
             call[c].at = "idle" \/ (c = s /\ CreateFrame(s) \in Frames(up))

\* The chat of a session comes once, and nothing is sent of it before.
HostOK ==
    \A s \in Sessions :
        /\ host[s].coming => host[s].live /\ host[s].chat = NoChat
        /\ ~host[s].live => host[s].chat = NoChat
        /\ host[s].live /\ host[s].sends => host[s].chat # NoChat

\* Only sessions of ended requests are disposed of, and given back when gone.
GoneOK ==
    /\ \A f \in Frames(up) : f.k \in {"dispose", "unsub"} => f.s \in Requests /\ life[f.s] = "ended"
    /\ \A f \in Frames(wire) : f.k = "disposed" =>
         f.s \in Requests /\ life[f.s] = "ended" /\ ~host[f.s].live
    /\ \A f \in Frames(up) : f.k = "unsub" => ~host[f.s].live

\* The host sends a chat the client is subscribed to, unless the call that
\* subscribes still waits; an answer that is on its way has made it send.
Subscribed ==
    /\ \A s \in Sessions : <<"chat", s>> \in subs /\ host[s].live /\ ~host[s].sends =>
         \E c \in Callers : Target[c] = s /\ call[c].at = "chat" /\ call[c].waits = "answer"
    /\ \A f \in Frames(wire) : f.k = "answer" =>
         (f.ok /\ call[f.c].at = "chat" /\ host[Target[f.c]].live => host[Target[f.c]].sends)

\* What frame f makes of the fold x of session s, if the calls stand at `calls`.
After(calls, s, x, f) ==
    IF f.k = "act" THEN IF f.s = s THEN Reduce(IF x = NoChat THEN EmptyChat ELSE x, f.act) ELSE x
    ELSE IF f.k = "answer"
         THEN IF f.ok /\ Target[f.c] = s /\ calls[f.c].at = "chat" THEN f.state.chat ELSE x
    ELSE x

\* The frames q make y of the fold x of session s.
Leads(calls, s, x, q, y) ==
    \E g : /\ g[0] = x /\ g[Len(q)] = y
           /\ \A i \in 1..Len(q) : g[i] = After(calls, s, g[i - 1], q[i])

\* An action the host refused is on its way back.
Refused(s) == \E f \in Frames(wire) : f.k = "act" /\ f.s = s /\ ~f.ok

\* The frames on the way lead the client's fold somewhere, and where the host
\* sends and refused nothing, to the chat it holds.
Converging ==
    \A s \in Sessions :
        /\ \E y : Leads(call, s, chats[s], wire, y)
        /\ host[s].live /\ host[s].sends /\ s \notin spurned /\ ~Refused(s) =>
             Leads(call, s, chats[s], wire, host[s].chat)
-----------------------------------------------------------------------------
\* Frames of queues that grow and shrink.

LEMMA FramesOfConcat ==
    ASSUME NEW V, NEW q \in Seq(V), NEW r \in Seq(V)
    PROVE  /\ q \o r \in Seq(V)
           /\ Frames(q \o r) = Frames(q) \cup Frames(r)
           /\ Asking(q \o r) = Asking(q) \cup Asking(r)
<1>1. /\ q \o r \in Seq(V) /\ Len(q) \in Nat /\ Len(r) \in Nat
      /\ DOMAIN q = 1..Len(q) /\ DOMAIN r = 1..Len(r)
      /\ DOMAIN (q \o r) = 1..(Len(q) + Len(r))
      /\ \A i \in 1..(Len(q) + Len(r)) :
           (q \o r)[i] = IF i <= Len(q) THEN q[i] ELSE r[i - Len(q)]
  BY ConcatProperties, LenProperties
<1>2. \A i \in DOMAIN q : i \in DOMAIN (q \o r) /\ (q \o r)[i] = q[i]
  BY <1>1
<1>3. ASSUME NEW i \in DOMAIN r
      PROVE  i + Len(q) \in DOMAIN (q \o r) /\ (q \o r)[i + Len(q)] = r[i]
  <2>1. i + Len(q) \in 1..(Len(q) + Len(r)) /\ ~(i + Len(q) <= Len(q)) /\ (i + Len(q)) - Len(q) = i
    BY <1>1
  <2>2. QED
    BY <1>1, <2>1
<1>4. ASSUME NEW i \in DOMAIN (q \o r)
      PROVE  \/ i \in DOMAIN q /\ (q \o r)[i] = q[i]
             \/ \E j \in DOMAIN r : (q \o r)[i] = r[j]
  <2>1. CASE i <= Len(q)
    BY <1>1, <2>1
  <2>2. CASE ~(i <= Len(q))
    <3>1. i - Len(q) \in DOMAIN r
      BY <1>1, <2>2
    <3>2. (q \o r)[i] = r[i - Len(q)]
      BY <1>1, <2>2
    <3>3. QED
      BY <3>1, <3>2
  <2>3. QED
    BY <2>1, <2>2
<1>5. Frames(q \o r) = Frames(q) \cup Frames(r)
  <2>1. Frames(q \o r) \subseteq Frames(q) \cup Frames(r)
    BY <1>4 DEF Frames
  <2>2. Frames(q) \subseteq Frames(q \o r)
    BY <1>2 DEF Frames
  <2>3. Frames(r) \subseteq Frames(q \o r)
    BY <1>3 DEF Frames
  <2>4. QED
    BY <2>1, <2>2, <2>3
<1>6. Asking(q \o r) = Asking(q) \cup Asking(r)
  BY <1>5 DEF Asking
<1>7. QED
  BY <1>1, <1>5, <1>6

LEMMA FramesOfOne ==
    ASSUME NEW V, NEW f \in V
    PROVE  /\ <<f>> \in Seq(V) /\ Frames(<<f>>) = {f} /\ Once(<<f>>)
           /\ Asking(<<f>>) = {c \in Callers : Names(f) /\ f.c = c}
<1>1. DOMAIN <<f>> = {1} /\ <<f>>[1] = f
  OBVIOUS
<1>2. Frames(<<f>>) = {f}
  BY <1>1 DEF Frames
<1>3. QED
  BY <1>1, <1>2 DEF Once, Asking

LEMMA FramesOfNone ==
    Frames(<<>>) = {} /\ Asking(<<>>) = {} /\ Once(<<>>)
<1>1. DOMAIN <<>> = {}
  OBVIOUS
<1>2. QED
  BY <1>1 DEF Frames, Asking, Once

LEMMA OnceOfConcat ==
    ASSUME NEW V, NEW q \in Seq(V), NEW r \in Seq(V), Once(q), Once(r),
           \A f \in Frames(q), g \in Frames(r) : ~(Names(f) /\ Names(g) /\ f.c = g.c)
    PROVE  Once(q \o r)
<1>1. /\ Len(q) \in Nat /\ Len(r) \in Nat
      /\ DOMAIN q = 1..Len(q) /\ DOMAIN r = 1..Len(r)
      /\ DOMAIN (q \o r) = 1..(Len(q) + Len(r))
      /\ \A i \in 1..(Len(q) + Len(r)) :
           (q \o r)[i] = IF i <= Len(q) THEN q[i] ELSE r[i - Len(q)]
  BY ConcatProperties, LenProperties
<1>2. ASSUME NEW i \in DOMAIN (q \o r)
      PROVE  \/ i \in DOMAIN q /\ (q \o r)[i] = q[i]
             \/ i - Len(q) \in DOMAIN r /\ (q \o r)[i] = r[i - Len(q)]
  BY <1>1
<1>3. \A i \in DOMAIN q : q[i] \in Frames(q)
  BY DEF Frames
<1>4. \A i \in DOMAIN r : r[i] \in Frames(r)
  BY DEF Frames
<1>5. ASSUME NEW i \in DOMAIN (q \o r), NEW j \in DOMAIN (q \o r),
             Names((q \o r)[i]), Names((q \o r)[j]), (q \o r)[i].c = (q \o r)[j].c
      PROVE  i = j
  <2>1. CASE i \in DOMAIN q /\ j \in DOMAIN q /\ (q \o r)[i] = q[i] /\ (q \o r)[j] = q[j]
    BY <1>5, <2>1, Zenon DEF Once
  <2>2. CASE /\ i - Len(q) \in DOMAIN r /\ j - Len(q) \in DOMAIN r
             /\ (q \o r)[i] = r[i - Len(q)] /\ (q \o r)[j] = r[j - Len(q)]
    <3>1. i - Len(q) = j - Len(q)
      BY <1>5, <2>2, Zenon DEF Once
    <3>2. i \in Nat /\ j \in Nat /\ Len(q) \in Nat
      BY <1>1
    <3>3. QED
      BY <3>1, <3>2
  <2>3. CASE /\ i \in DOMAIN q /\ j - Len(q) \in DOMAIN r
             /\ (q \o r)[i] = q[i] /\ (q \o r)[j] = r[j - Len(q)]
    BY <1>3, <1>4, <1>5, <2>3, Zenon
  <2>4. CASE /\ i - Len(q) \in DOMAIN r /\ j \in DOMAIN q
             /\ (q \o r)[i] = r[i - Len(q)] /\ (q \o r)[j] = q[j]
    BY <1>3, <1>4, <1>5, <2>4, Zenon
  <2>5. QED
    BY <1>2, <2>1, <2>2, <2>3, <2>4
<1>6. QED
  BY <1>5 DEF Once

LEMMA FramesOfTail ==
    ASSUME NEW V, NEW q \in Seq(V), q # <<>>
    PROVE  /\ Tail(q) \in Seq(V) /\ Head(q) \in Frames(q) /\ Head(q) \in V
           /\ Frames(q) = {Head(q)} \cup Frames(Tail(q))
           /\ Once(q) =>
                /\ Once(Tail(q))
                /\ Names(Head(q)) => Head(q).c \notin Asking(Tail(q))
<1>1. /\ Tail(q) \in Seq(V) /\ Len(q) \in Nat \ {0} /\ Len(Tail(q)) = Len(q) - 1
      /\ DOMAIN q = 1..Len(q) /\ DOMAIN Tail(q) = 1..(Len(q) - 1)
      /\ \A i \in 1..(Len(q) - 1) : Tail(q)[i] = q[i + 1]
  BY HeadTailProperties, LenProperties, EmptySeq
<1>2. Head(q) = q[1] /\ 1 \in DOMAIN q /\ Head(q) \in V
  BY <1>1, HeadTailProperties
<1>3. ASSUME NEW i \in DOMAIN Tail(q)
      PROVE  i + 1 \in DOMAIN q /\ i + 1 # 1 /\ Tail(q)[i] = q[i + 1]
  BY <1>1
<1>4. ASSUME NEW i \in DOMAIN q, i # 1
      PROVE  i - 1 \in DOMAIN Tail(q) /\ Tail(q)[i - 1] = q[i]
  <2>1. i - 1 \in 1..(Len(q) - 1) /\ (i - 1) + 1 = i
    BY <1>1, <1>4
  <2>2. QED
    BY <1>1, <2>1
<1>5. Frames(q) = {Head(q)} \cup Frames(Tail(q))
  <2>1. Frames(Tail(q)) \subseteq Frames(q)
    BY <1>3 DEF Frames
  <2>2. Head(q) \in Frames(q)
    BY <1>2 DEF Frames
  <2>3. ASSUME NEW i \in DOMAIN q
        PROVE  q[i] \in {Head(q)} \cup Frames(Tail(q))
    BY <1>2, <1>4 DEF Frames
  <2>4. Frames(q) \subseteq {Head(q)} \cup Frames(Tail(q))
    BY <2>3 DEF Frames
  <2>5. QED
    BY <2>1, <2>2, <2>4
<1>6. ASSUME Once(q)
      PROVE  Once(Tail(q))
  <2>1. ASSUME NEW i \in DOMAIN Tail(q), NEW j \in DOMAIN Tail(q),
               Names(Tail(q)[i]), Names(Tail(q)[j]), Tail(q)[i].c = Tail(q)[j].c
        PROVE  i = j
    <3>1. i + 1 = j + 1
      BY <1>3, <1>6, <2>1, Zenon DEF Once
    <3>2. i \in Nat /\ j \in Nat
      BY <1>1
    <3>3. QED
      BY <3>1, <3>2
  <2>2. QED
    BY <2>1 DEF Once
<1>7. ASSUME Once(q), Names(Head(q)), Head(q).c \in Asking(Tail(q))
      PROVE  FALSE
  <2>1. PICK i \in DOMAIN Tail(q) : Names(Tail(q)[i]) /\ Tail(q)[i].c = Head(q).c
    BY <1>7 DEF Asking, Frames
  <2>2. i + 1 = 1
    BY <1>2, <1>3, <1>7, <2>1, Zenon DEF Once
  <2>3. QED
    BY <1>3, <2>2
<1>8. QED
  BY <1>1, <1>2, <1>5, <1>6, <1>7

LEMMA FramesIn ==
    ASSUME NEW V, NEW q \in Seq(V)
    PROVE  Frames(q) \subseteq V
<1>1. \A i \in DOMAIN q : q[i] \in V
  BY ElementOfSeq, LenProperties
<1>2. QED
  BY <1>1 DEF Frames

-----------------------------------------------------------------------------
\* What the frames on the way make of a fold.

LEMMA LeadsNowhere ==
    ASSUME NEW calls, NEW s, NEW x
    PROVE  Leads(calls, s, x, <<>>, x)
<1> DEFINE g == [i \in {0} |-> x]
<1>1. g[0] = x /\ Len(<<>>) = 0 /\ 1..0 = {}
  OBVIOUS
<1> HIDE DEF g
<1>2. QED
  BY <1>1 DEF Leads

LEMMA LeadsFurther ==
    ASSUME NEW V, NEW q \in Seq(V), NEW f \in V, NEW calls, NEW s, NEW x, NEW y,
           Leads(calls, s, x, q, y)
    PROVE  Leads(calls, s, x, Append(q, f), After(calls, s, y, f))
<1> DEFINE N == Len(q)
           z == After(calls, s, y, f)
<1>1. PICK g : g[0] = x /\ g[N] = y /\ \A i \in 1..N : g[i] = After(calls, s, g[i - 1], q[i])
  BY DEF Leads
<1> DEFINE h == [i \in 0..(N + 1) |-> IF i <= N THEN g[i] ELSE z]
<1>2. /\ N \in Nat /\ Len(Append(q, f)) = N + 1
      /\ \A i \in 1..N : Append(q, f)[i] = q[i]
      /\ Append(q, f)[N + 1] = f
  BY AppendProperties, LenProperties
<1> HIDE DEF N, z
<1>3. h[0] = x /\ h[N] = y /\ h[N + 1] = z
  BY <1>1, <1>2
<1>4. \A i \in 1..N : i \in 0..N /\ i - 1 \in 0..N
  BY <1>2
<1>5. \A i \in 0..N : h[i] = g[i]
  BY <1>2
<1> HIDE DEF h
<1>6. ASSUME NEW i \in 1..(N + 1)
      PROVE  h[i] = After(calls, s, h[i - 1], Append(q, f)[i])
  <2>1. CASE i \in 1..N
    <3>1. h[i] = g[i] /\ h[i - 1] = g[i - 1] /\ Append(q, f)[i] = q[i]
      BY <1>2, <1>4, <1>5, <2>1
    <3>2. QED
      BY <1>1, <2>1, <3>1, Zenon
  <2>2. CASE i = N + 1
    <3>1. i - 1 = N
      BY <1>2, <2>2
    <3>2. h[i] = z /\ h[i - 1] = y /\ Append(q, f)[i] = f
      BY <1>2, <1>3, <2>2, <3>1
    <3>3. QED
      BY <3>2, Zenon DEF z
  <2>3. QED
    BY <1>2, <2>1, <2>2
<1>7. QED
  BY <1>2, <1>3, <1>6, Zenon DEF Leads, z

LEMMA LeadsOn ==
    ASSUME NEW V, NEW q \in Seq(V), q # <<>>, NEW calls, NEW s, NEW x, NEW y,
           Leads(calls, s, x, q, y)
    PROVE  Leads(calls, s, After(calls, s, x, Head(q)), Tail(q), y)
<1> DEFINE N == Len(q)
           h(g) == [i \in 0..(N - 1) |-> g[i + 1]]
<1>1. PICK g : g[0] = x /\ g[N] = y /\ \A i \in 1..N : g[i] = After(calls, s, g[i - 1], q[i])
  BY DEF Leads
<1>2. /\ N \in Nat \ {0} /\ Len(Tail(q)) = N - 1
      /\ \A i \in 1..(N - 1) : Tail(q)[i] = q[i + 1]
      /\ Head(q) = q[1]
  BY HeadTailProperties, LenProperties, EmptySeq
<1> HIDE DEF N
<1>3. 1 \in 1..N /\ 1 - 1 = 0
  BY <1>2
<1>4. g[1] = After(calls, s, x, Head(q))
  BY <1>1, <1>2, <1>3, Zenon
<1>5. h(g)[0] = g[1] /\ h(g)[N - 1] = y
  BY <1>1, <1>2
<1>6. \A i \in 0..(N - 1) : h(g)[i] = g[i + 1]
  OBVIOUS
<1> HIDE DEF h
<1>7. ASSUME NEW i \in 1..(N - 1)
      PROVE  h(g)[i] = After(calls, s, h(g)[i - 1], Tail(q)[i])
  <2>1. i + 1 \in 1..N /\ (i + 1) - 1 = i /\ (i - 1) + 1 = i /\ i - 1 \in 0..(N - 1) /\ i \in 0..(N - 1)
    BY <1>2
  <2>2. h(g)[i] = g[i + 1] /\ h(g)[i - 1] = g[i]
    BY <1>6, <2>1
  <2>3. g[i + 1] = After(calls, s, g[i], q[i + 1])
    BY <1>1, <2>1
  <2>4. QED
    BY <1>2, <2>2, <2>3, Zenon
<1>8. QED
  BY <1>2, <1>4, <1>5, <1>7, Zenon DEF Leads

\* Only where a call stands that is answered for matters.
LEMMA LeadsAlike ==
    ASSUME NEW V, NEW q \in Seq(V), NEW calls, NEW calls2, NEW s, NEW x, NEW y,
           Leads(calls, s, x, q, y),
           \A f \in Frames(q) : f.k = "answer" => calls2[f.c].at = calls[f.c].at
    PROVE  Leads(calls2, s, x, q, y)
<1>1. PICK g : /\ g[0] = x /\ g[Len(q)] = y
               /\ \A i \in 1..Len(q) : g[i] = After(calls, s, g[i - 1], q[i])
  BY DEF Leads
<1>2. ASSUME NEW i \in 1..Len(q)
      PROVE  g[i] = After(calls2, s, g[i - 1], q[i])
  <2>1. q[i] \in Frames(q)
    BY LenProperties DEF Frames
  <2>2. After(calls2, s, g[i - 1], q[i]) = After(calls, s, g[i - 1], q[i])
    BY <2>1, Zenon DEF After
  <2>3. QED
    BY <1>1, <2>2
<1>3. QED
  BY <1>1, <1>2, Zenon DEF Leads

\* Frames that say nothing of a session leave its fold alone.
LEMMA LeadsNot ==
    ASSUME NEW V, NEW q \in Seq(V), NEW calls, NEW s, NEW x, NEW y,
           Leads(calls, s, x, q, y),
           \A f \in Frames(q) : /\ ~(f.k = "act" /\ f.s = s)
                                /\ ~(f.k = "answer" /\ Target[f.c] = s /\ calls[f.c].at = "chat")
    PROVE  x = y
<1>1. PICK g : /\ g[0] = x /\ g[Len(q)] = y
               /\ \A i \in 1..Len(q) : g[i] = After(calls, s, g[i - 1], q[i])
  BY DEF Leads
<1> DEFINE T == {i \in 0..Len(q) : g[i] = x}
<1>2. Len(q) \in Nat /\ DOMAIN q = 1..Len(q)
  BY LenProperties
<1>3. ASSUME NEW i \in 1..Len(q)
      PROVE  g[i] = g[i - 1]
  <2>1. q[i] \in Frames(q)
    BY <1>2 DEF Frames
  <2>2. After(calls, s, g[i - 1], q[i]) = g[i - 1]
    BY <2>1, Zenon DEF After
  <2>3. QED
    BY <1>1, <2>2
<1>4. 0 \in T
  BY <1>1, <1>2
<1>5. ASSUME NEW i \in 0..Len(q), i \in T, i + 1 <= Len(q)
      PROVE  i + 1 \in T
  <2>1. i + 1 \in 1..Len(q) /\ (i + 1) - 1 = i /\ i + 1 \in 0..Len(q)
    BY <1>2, <1>5
  <2>2. g[i + 1] = g[i]
    BY <1>3, <2>1
  <2>3. QED
    BY <1>5, <2>1, <2>2
<1> HIDE DEF T
<1>6. 0..Len(q) \subseteq T
  BY <1>2, <1>4, <1>5, Inductive
<1>7. Len(q) \in T
  BY <1>2, <1>6
<1>8. QED
  BY <1>1, <1>7 DEF T

-----------------------------------------------------------------------------
\* What is on the way is well formed.

LEMMA ReduceType ==
    ASSUME NEW c \in Chat, NEW a \in Actions
    PROVE  Reduce(c, a) \in Chat
<1>1. /\ c.active \in Turns \cup {NoTurn} /\ c.over \subseteq Turns
      /\ c.call \in {"none", "pending", "denied"} /\ c.failed \in BOOLEAN
      /\ a.turn \in Turns \cup {NoTurn}
      /\ c = [active |-> c.active, over |-> c.over, call |-> c.call, failed |-> c.failed]
  BY DEF Chat, Actions
<1>2. Ended(c, a.turn) \in Chat
  <2>1. CASE Running(c, a.turn)
    <3>1. a.turn \in Turns
      BY <1>1, <2>1 DEF Running
    <3>2. QED
      BY <1>1, <2>1, <3>1 DEF Ended, Chat
  <2>2. CASE ~Running(c, a.turn)
    BY <2>2 DEF Ended
  <2>3. QED
    BY <2>1, <2>2
<1>3. [Ended(c, a.turn) EXCEPT !.failed = TRUE] \in Chat
  BY <1>2 DEF Chat
<1>4. [c EXCEPT !.active = a.turn, !.call = "none"] \in Chat
  BY <1>1 DEF Chat
<1>5. [c EXCEPT !.call = "pending"] \in Chat /\ [c EXCEPT !.call = "denied"] \in Chat
  BY <1>1 DEF Chat
<1>6. QED
  BY <1>2, <1>3, <1>4, <1>5 DEF Reduce

LEMMA EmptyChatType == EmptyChat \in Chat
BY DEF EmptyChat, Chat

LEMMA Sentinel ==
    NoChat \notin Chat /\ Target \in [Callers -> Sessions]
BY ClientAssumption

LEMMA Requested ==
    Requests \subseteq Callers /\ Requests \subseteq Sessions /\ \A r \in Requests : Target[r] = r
BY ParticipantAssumption

\* A create asks for its call.
LEMMA CreateAsks ==
    ASSUME NEW c \in Callers, NEW q, CreateFrame(c) \in Frames(q)
    PROVE  c \in Asking(q)
<1>1. CreateFrame(c).k = "create" /\ CreateFrame(c).c = c
  BY DEF CreateFrame
<1>2. QED
  BY <1>1 DEF Asking, Names

\* The frames the listeners write.
LEMMA DisposalsType ==
    ASSUME listeners \in Seq(Requests), NEW gone, gone \subseteq Requests
    PROVE  /\ Disposals(gone) \in Seq(UpFrames)
           /\ \A f \in Frames(Disposals(gone)) : f.k = "dispose" /\ f.s \in gone
<1> DEFINE places == {i \in DOMAIN listeners : listeners[i] \in gone}
           order == EntriesAt(listeners, places)
<1>1. order \in Seq(gone)
  <2>1. \A i \in DOMAIN listeners : i \in places => listeners[i] \in gone
    OBVIOUS
  <2> HIDE DEF places
  <2>2. QED
    BY <2>1, FilterTypeInto
<1>2. Disposals(gone) = [i \in DOMAIN order |-> DisposeFrame(order[i])]
  BY DEF Disposals
<1> HIDE DEF order
<1>3. order \in [1..Len(order) -> gone] /\ DOMAIN order = 1..Len(order) /\ Len(order) \in Nat
  BY <1>1, LenProperties
<1>4. \A i \in 1..Len(order) : DisposeFrame(order[i]) \in UpFrames
  BY <1>3, Requested DEF DisposeFrame, UpFrames
<1>5. Disposals(gone) \in [1..Len(order) -> UpFrames]
  BY <1>2, <1>3, <1>4
<1>6. Disposals(gone) \in Seq(UpFrames)
  BY <1>3, <1>5, SeqDef
<1>7. \A f \in Frames(Disposals(gone)) : f.k = "dispose" /\ f.s \in gone
  BY <1>2, <1>3 DEF Frames, DisposeFrame
<1>8. QED
  BY <1>6, <1>7

LEMMA DenialsType ==
    ASSUME listeners \in Seq(Requests), NEW folds \in [Sessions -> Chat \cup {NoChat}]
    PROVE  /\ Denials(folds) \in Seq(UpFrames)
           /\ \A f \in Frames(Denials(folds)) : f.k = "act"
<1> DEFINE V == {r \in Requests : folds[r] # NoChat}
           order == EntriesAt(listeners, AskedIn(folds))
<1>1. order \in Seq(V)
  <2>1. \A i \in DOMAIN listeners : listeners[i] \in Requests
    BY ElementOfSeq, LenProperties
  <2>2. \A i \in DOMAIN listeners : i \in AskedIn(folds) => listeners[i] \in V
    BY <2>1 DEF AskedIn
  <2> HIDE DEF V
  <2>3. QED
    BY <2>2, FilterTypeInto
<1>2. Denials(folds) = [i \in DOMAIN order |-> ActFrame(order[i], Act("deny", folds[order[i]].active))]
  BY DEF Denials
<1>3. \A r \in V : ActFrame(r, Act("deny", folds[r].active)) \in UpFrames
  <2>1. TAKE r \in V
  <2>2. r \in Sessions /\ folds[r] \in Chat
    BY Requested
  <2>3. folds[r].active \in Turns \cup {NoTurn}
    BY <2>2 DEF Chat
  <2>4. Act("deny", folds[r].active) \in Actions
    BY <2>3 DEF Act, Actions
  <2>5. QED
    BY <2>2, <2>4 DEF ActFrame, UpFrames
<1> HIDE DEF order, V
<1>4. order \in [1..Len(order) -> V] /\ DOMAIN order = 1..Len(order) /\ Len(order) \in Nat
  BY <1>1, LenProperties
<1>5. Denials(folds) \in [1..Len(order) -> UpFrames]
  BY <1>2, <1>3, <1>4
<1>6. Denials(folds) \in Seq(UpFrames)
  BY <1>4, <1>5, SeqDef
<1>7. \A f \in Frames(Denials(folds)) : f.k = "act"
  BY <1>2, <1>4 DEF Frames, ActFrame
<1>8. QED
  BY <1>6, <1>7

\* The channel a call subscribes next is one of a session's.
LEMMA NextOpenType ==
    ASSUME NEW s, NEW list \in Seq(Kinds), NEW held
    PROVE  NextOpen(s, list, held) \in Kinds \cup {"done"}
<1> DEFINE open == {i \in DOMAIN list : <<list[i], s>> \notin held}
<1>1. CASE open = {}
  BY <1>1 DEF NextOpen
<1>2. CASE open # {}
  <2>1. open \subseteq Nat
    BY LenProperties
  <2>2. \E i \in open : \A j \in open : i <= j
    BY <1>2, <2>1, Least, Zenon
  <2> DEFINE i == CHOOSE i \in open : \A j \in open : i <= j
  <2>3. i \in open
    BY <2>2, Zenon
  <2>4. NextOpen(s, list, held) = list[i]
    BY <1>2 DEF NextOpen
  <2>5. list[i] \in Kinds
    <3> HIDE DEF i
    <3>1. i \in DOMAIN list
      BY <2>3
    <3>2. QED
      BY <3>1, ElementOfSeq, LenProperties
  <2>6. QED
    BY <2>4, <2>5
<1>3. QED
  BY <1>1, <1>2

LEMMA AheadType ==
    ASSUME NEW kind, NEW known
    PROVE  Ahead(kind, known) \in Seq(Kinds)
<1>1. /\ <<>> \in Seq(Kinds) /\ <<"thread">> \in Seq(Kinds) /\ <<"chat", "plan">> \in Seq(Kinds)
      /\ <<"plan", "thread">> \in Seq(Kinds)
  BY DEF Kinds
<1>2. (IF known THEN <<"chat", "plan">> ELSE <<>>) \in Seq(Kinds)
  BY <1>1
<1>3. (IF known THEN <<"chat", "plan">> ELSE <<>>) \o <<"thread">> \in Seq(Kinds)
  BY <1>1, <1>2, ConcatProperties
<1>4. QED
  BY <1>1, <1>3 DEF Ahead

-----------------------------------------------------------------------------
\* The invariant from which FoldConverges follows.
FoldInv == Channels /\ Asked /\ Born /\ HostOK /\ GoneOK /\ Subscribed /\ Converging

\* What a step of the client does to the frames, the folds and the calls: it
\* writes the frames fs.
Written(fs) ==
    /\ up' = up \o fs /\ fs \in Seq(UpFrames) /\ Once(fs)
    /\ Asking(fs) \cap (Asking(up) \cup Asking(wire')) = {}
    /\ \A f \in Frames(fs) : f.k = "create" =>
         call'[f.c].at = "create" /\ life[f.c] = "none"
    /\ \A f \in Frames(fs) : f.k = "sub" => f.kind = call'[f.c].at
    /\ \A f \in Frames(fs) : f.k \in {"dispose", "unsub"} => f.s \in Requests /\ life'[f.s] = "ended"
    /\ \A f \in Frames(fs) : f.k = "unsub" => ~host[f.s].live
    /\ \A c \in Asking(fs) : call'[c].waits = "answer"

\* It takes no frame, or the first one.
Taken ==
    \/ UNCHANGED <<wire, chats, spurned>>
    \/ /\ wire # <<>> /\ wire' = Tail(wire)
       /\ chats' \in [Sessions -> Chat \cup {NoChat}]
       /\ \A s \in Sessions : chats'[s] = After(call, s, chats[s], Head(wire))
       /\ spurned \subseteq spurned'
       /\ Head(wire).k = "act" /\ ~Head(wire).ok => Head(wire).s \in spurned'

\* Calls that a frame is on the way for stay where they are.
CallsMoved ==
    /\ \A c \in Callers : call'[c].at \in Ats /\ (call'[c].at = "idle" => call'[c].waits = "none")
    /\ \A c \in Asking(up) \cup Asking(wire') : call'[c] = call[c]

LivesOn ==
    /\ \A r \in Requests : life[r] = "ended" => life'[r] = "ended"
    /\ \A r \in Requests : life'[r] = "none" => life[r] = "none"
    /\ listeners' \in Seq(Requests)

\* A chat's channel is in the set while a call waits for it, or the host sends.
SubsMoved ==
    \A s \in Sessions : <<"chat", s>> \in subs' /\ host[s].live /\ ~host[s].sends =>
        \E c \in Callers : Target[c] = s /\ call'[c].at = "chat" /\ call'[c].waits = "answer"

\* Nothing is subscribed and no call is made for a session that is not there.
BornMoved ==
    \A s \in Sessions : Unborn(s) =>
        /\ <<"chat", s>> \notin subs'
        /\ \A c \in Callers : Target[c] = s =>
             call'[c].at = "idle" \/ (c = s /\ CreateFrame(s) \in Frames(up'))

ClientMoves ==
    /\ UNCHANGED host
    /\ \E fs : Written(fs)
    /\ Taken /\ CallsMoved /\ LivesOn /\ SubsMoved /\ BornMoved

\* What becomes of the frames on the way.
LEMMA FramesMoved ==
    ASSUME FoldInv, NEW fs, Written(fs), Taken
    PROVE  /\ up' \in Seq(UpFrames) /\ wire' \in Seq(WireFrames)
           /\ Once(up') /\ Once(wire')
           /\ Frames(up') = Frames(up) \cup Frames(fs) /\ Asking(up') = Asking(up) \cup Asking(fs)
           /\ Frames(wire') \subseteq Frames(wire) /\ Asking(wire') \subseteq Asking(wire)
<1>1. up \in Seq(UpFrames) /\ wire \in Seq(WireFrames) /\ Once(up) /\ Once(wire)
  BY DEF FoldInv, Channels, Asked
<1>2. wire' \in Seq(WireFrames) /\ Once(wire') /\ Frames(wire') \subseteq Frames(wire)
  <2>1. CASE wire' = wire
    BY <1>1, <2>1
  <2>2. CASE wire # <<>> /\ wire' = Tail(wire)
    BY <1>1, <2>2, FramesOfTail
  <2>3. QED
    BY <2>1, <2>2 DEF Taken
<1>3. Asking(wire') \subseteq Asking(wire)
  BY <1>2 DEF Asking
<1>4. /\ up' = up \o fs /\ fs \in Seq(UpFrames) /\ Once(fs)
      /\ Asking(fs) \cap Asking(up) = {}
  BY DEF Written
<1>5. /\ up' \in Seq(UpFrames) /\ Frames(up') = Frames(up) \cup Frames(fs)
      /\ Asking(up') = Asking(up) \cup Asking(fs)
  BY <1>1, <1>4, FramesOfConcat
<1>6. ASSUME NEW f \in Frames(up), NEW g \in Frames(fs), Names(f), Names(g), f.c = g.c
      PROVE  FALSE
  <2>1. f \in UpFrames
    BY <1>1, FramesIn
  <2>2. f.c \in Callers
    BY <1>6, <2>1, Requested DEF UpFrames, Names
  <2>3. f.c \in Asking(up) /\ f.c \in Asking(fs)
    BY <1>6, <2>2 DEF Asking
  <2>4. QED
    BY <1>4, <2>3
<1>7. Once(up')
  BY <1>1, <1>4, <1>6, OnceOfConcat
<1>8. QED
  BY <1>2, <1>3, <1>5, <1>7

\* A frame taken is a frame folded: what is left leads where all of it led.
LEMMA ConvergingMoved ==
    ASSUME FoldInv, NEW fs, Written(fs), Taken, CallsMoved, UNCHANGED host
    PROVE  Converging'
<1>1. wire \in Seq(WireFrames) /\ wire' \in Seq(WireFrames)
  BY FramesMoved DEF FoldInv, Channels
<1>2. ASSUME NEW s \in Sessions, NEW y, Leads(call, s, chats[s], wire, y)
      PROVE  Leads(call', s, chats'[s], wire', y)
  <2>1. Leads(call, s, chats'[s], wire', y)
    <3>1. CASE UNCHANGED <<wire, chats>>
      BY <1>2, <3>1
    <3>2. CASE wire # <<>> /\ wire' = Tail(wire) /\ chats'[s] = After(call, s, chats[s], Head(wire))
      <4>1. Leads(call, s, After(call, s, chats[s], Head(wire)), Tail(wire), y)
        BY <1>1, <1>2, <3>2, LeadsOn
      <4>2. QED
        BY <3>2, <4>1
    <3>3. QED
      BY <3>1, <3>2 DEF Taken
  <2>2. ASSUME NEW f \in Frames(wire'), f.k = "answer"
        PROVE  call'[f.c].at = call[f.c].at
    <3>1. f \in WireFrames
      BY <1>1, FramesIn
    <3>2. f.c \in Callers
      BY <2>2, <3>1 DEF WireFrames
    <3>3. f.c \in Asking(wire')
      BY <2>2, <3>2 DEF Asking, Names
    <3>4. QED
      BY <3>3 DEF CallsMoved
  <2>3. QED
    BY <1>1, <2>1, <2>2, LeadsAlike
<1>3. ASSUME NEW s \in Sessions
      PROVE  \E y : Leads(call', s, chats'[s], wire', y)
  BY <1>2 DEF FoldInv, Converging
<1>4. ASSUME NEW s \in Sessions, host'[s].live, host'[s].sends, s \notin spurned', ~Refused(s)'
      PROVE  Leads(call', s, chats'[s], wire', host'[s].chat)
  <2>1. s \notin spurned
    BY <1>4 DEF Taken
  <2>2. ~Refused(s)
    <3>1. CASE wire' = wire
      BY <1>4, <3>1 DEF Refused
    <3>2. CASE /\ wire # <<>> /\ wire' = Tail(wire)
               /\ Head(wire).k = "act" /\ ~Head(wire).ok => Head(wire).s \in spurned'
      <4>1. Frames(wire) = {Head(wire)} \cup Frames(wire')
        BY <1>1, <3>2, FramesOfTail
      <4>2. QED
        BY <1>4, <3>2, <4>1 DEF Refused
    <3>3. QED
      BY <3>1, <3>2 DEF Taken
  <2>3. Leads(call, s, chats[s], wire, host[s].chat)
    BY <1>4, <2>1, <2>2 DEF FoldInv, Converging
  <2>4. QED
    BY <1>2, <2>3
<1>5. QED
  BY <1>3, <1>4 DEF Converging

\* Whatever the client does of this kind keeps the invariant.
LEMMA ClientMovesStep ==
    ASSUME FoldInv, ClientMoves
    PROVE  FoldInv'
<1>1. PICK fs : Written(fs)
  BY DEF ClientMoves
<1>2. /\ up' \in Seq(UpFrames) /\ wire' \in Seq(WireFrames)
      /\ Once(up') /\ Once(wire')
      /\ Frames(up') = Frames(up) \cup Frames(fs) /\ Asking(up') = Asking(up) \cup Asking(fs)
      /\ Frames(wire') \subseteq Frames(wire) /\ Asking(wire') \subseteq Asking(wire)
  BY <1>1, FramesMoved DEF ClientMoves
<1>3. Channels'
  <2>1. chats' \in [Sessions -> Chat \cup {NoChat}]
    BY DEF ClientMoves, Taken, FoldInv, Channels
  <2>2. QED
    BY <1>2, <2>1 DEF ClientMoves, CallsMoved, LivesOn, FoldInv, Channels
<1>4. Asked'
  <2>1. Asking(up') \cap Asking(wire') = {}
    <3>1. Asking(up) \cap Asking(wire) = {} /\ Asking(fs) \cap Asking(wire') = {}
      BY <1>1 DEF FoldInv, Asked, Written
    <3>2. QED
      BY <1>2, <3>1
  <2>2. \A c \in Asking(up') \cup Asking(wire') : call'[c].waits = "answer"
    <3>1. \A c \in Asking(up) \cup Asking(wire') : call[c].waits = "answer" /\ call'[c] = call[c]
      BY <1>2 DEF FoldInv, Asked, ClientMoves, CallsMoved
    <3>2. \A c \in Asking(fs) : call'[c].waits = "answer"
      BY <1>1 DEF Written
    <3>3. QED
      BY <1>2, <3>1, <3>2
  <2>3. ASSUME NEW f \in Frames(up), f.k \in {"create", "sub"}
        PROVE  call'[f.c] = call[f.c]
    <3>1. f \in UpFrames
      BY FramesIn DEF FoldInv, Channels
    <3>2. f.c \in Callers
      BY <2>3, <3>1, Requested DEF UpFrames
    <3>3. f.c \in Asking(up)
      BY <2>3, <3>2 DEF Asking, Names
    <3>4. QED
      BY <3>3 DEF ClientMoves, CallsMoved
  <2>4. \A f \in Frames(up') : f.k = "create" => call'[f.c].at = "create"
    BY <1>1, <1>2, <2>3 DEF Written, FoldInv, Asked
  <2>5. \A f \in Frames(up') : f.k = "sub" => f.kind = call'[f.c].at
    BY <1>1, <1>2, <2>3 DEF Written, FoldInv, Asked
  <2>6. QED
    BY <1>2, <2>1, <2>2, <2>4, <2>5 DEF Asked, ClientMoves, CallsMoved
<1>5. ASSUME NEW s \in Sessions, Unborn(s)'
      PROVE  Unborn(s)
  <2>1. CASE s \in Requests /\ life'[s] = "none"
    BY <2>1 DEF Unborn, ClientMoves, LivesOn
  <2>2. CASE s \in Requests /\ CreateFrame(s) \in Frames(up')
    <3>1. CASE CreateFrame(s) \in Frames(up)
      BY <3>1 DEF Unborn
    <3>2. CASE CreateFrame(s) \in Frames(fs)
      <4>1. CreateFrame(s).k = "create" /\ CreateFrame(s).c = s
        BY DEF CreateFrame
      <4>2. life[s] = "none"
        BY <1>1, <3>2, <4>1 DEF Written
      <4>3. QED
        BY <4>2 DEF Unborn
    <3>3. QED
      BY <1>2, <2>2, <3>1, <3>2
  <2>3. QED
    BY <1>5, <2>1, <2>2 DEF Unborn
<1>6. Born'
  BY <1>5 DEF Born, FoldInv, ClientMoves, BornMoved
<1>7. HostOK'
  BY DEF HostOK, FoldInv, ClientMoves
<1>8. GoneOK'
  <2>1. \A r \in Requests : life[r] = "ended" => life'[r] = "ended"
    BY DEF ClientMoves, LivesOn
  <2>2. UNCHANGED host
    BY DEF ClientMoves
  <2>3. \A f \in Frames(up') : f.k \in {"dispose", "unsub"} => f.s \in Requests /\ life'[f.s] = "ended"
    BY <1>1, <1>2, <2>1 DEF Written, FoldInv, GoneOK
  <2>4. \A f \in Frames(up') : f.k = "unsub" => ~host'[f.s].live
    BY <1>1, <1>2, <2>2 DEF Written, FoldInv, GoneOK
  <2>5. \A f \in Frames(wire') : f.k = "disposed" =>
          f.s \in Requests /\ life'[f.s] = "ended" /\ ~host'[f.s].live
    BY <1>2, <2>1, <2>2 DEF FoldInv, GoneOK
  <2>6. QED
    BY <2>3, <2>4, <2>5 DEF GoneOK
<1>9. Subscribed'
  <2>1. ASSUME NEW f \in Frames(wire'), f.k = "answer"
        PROVE  call'[f.c] = call[f.c]
    <3>1. f \in WireFrames
      BY <1>2, FramesIn
    <3>2. f.c \in Callers
      BY <2>1, <3>1 DEF WireFrames
    <3>3. f.c \in Asking(wire')
      BY <2>1, <3>2 DEF Asking, Names
    <3>4. QED
      BY <3>3 DEF ClientMoves, CallsMoved
  <2>2. \A f \in Frames(wire') : f.k = "answer" =>
          (f.ok /\ call'[f.c].at = "chat" /\ host'[Target[f.c]].live => host'[Target[f.c]].sends)
    BY <1>2, <2>1 DEF FoldInv, Subscribed, ClientMoves
  <2>3. QED
    BY <2>2 DEF Subscribed, ClientMoves, SubsMoved
<1>10. Converging'
  BY <1>1, ConvergingMoved DEF ClientMoves
<1>11. QED
  BY <1>3, <1>4, <1>6, <1>7, <1>8, <1>9, <1>10 DEF FoldInv

-----------------------------------------------------------------------------
\* Frames that neither ask nor speak of a session that is in use.
LEMMA PlainWritten ==
    ASSUME NEW fs \in Seq(UpFrames), up' = up \o fs,
           \A f \in Frames(fs) :
             \/ f.k = "act"
             \/ f.k = "dispose" /\ f.s \in Requests /\ life'[f.s] = "ended"
             \/ f.k = "unsub" /\ f.s \in Requests /\ life'[f.s] = "ended" /\ ~host[f.s].live
    PROVE  Written(fs)
<1>1. \A f \in Frames(fs) : ~Names(f)
  BY DEF Names
<1>2. Asking(fs) = {}
  BY <1>1 DEF Asking
<1>3. Once(fs)
  BY <1>1 DEF Once, Frames
<1>4. QED
  BY <1>2, <1>3 DEF Written

LEMMA NothingWritten ==
    ASSUME FoldInv, UNCHANGED up
    PROVE  Written(<<>>)
<1>1. up \o <<>> = up /\ <<>> \in Seq(UpFrames)
  BY ConcatEmptySeq, EmptySeq DEF FoldInv, Channels
<1>2. QED
  BY <1>1, FramesOfNone, PlainWritten

\* A step that moves no call.
LEMMA StillCalls ==
    ASSUME FoldInv, UNCHANGED <<call, host>>, subs' \subseteq subs, NEW fs, Written(fs),
           Taken, LivesOn
    PROVE  ClientMoves
<1>1. CallsMoved
  BY DEF CallsMoved, FoldInv, Channels, Asked
<1>2. SubsMoved
  BY DEF SubsMoved, FoldInv, Subscribed
<1>3. Frames(up) \subseteq Frames(up')
  BY FramesMoved
<1>4. BornMoved
  BY <1>3 DEF BornMoved, FoldInv, Born
<1>5. QED
  BY <1>1, <1>2, <1>4 DEF ClientMoves

\* A step that only touches the timers.
LEMMA TimersOnly ==
    ASSUME FoldInv, UNCHANGED <<clientVars, life, listeners>>
    PROVE  ClientMoves
<1>1. Written(<<>>)
  BY NothingWritten DEF clientVars
<1>2. Taken /\ LivesOn
  BY DEF Taken, LivesOn, clientVars, FoldInv, Channels
<1>3. QED
  BY <1>1, <1>2, StillCalls DEF clientVars

LEMMA NotifiedMoves ==
    ASSUME FoldInv, IInv, NEW folds \in [Sessions -> Chat \cup {NoChat}], Notified(folds),
           Taken, UNCHANGED <<call, host, subs>>
    PROVE  ClientMoves
<1> DEFINE heard == {r \in Requests : (\E i \in DOMAIN listeners : listeners[i] = r)
                                        /\ folds[r] # NoChat}
           gone == {r \in heard : life[r] = "running" /\ TurnOver(folds[r])}
           fs == Denials(folds) \o Disposals(gone)
<1>1. /\ life' = [r \in Requests |-> IF r \in gone THEN "ended" ELSE life[r]]
      /\ up' = up \o Denials(folds) \o Disposals(gone)
      /\ listeners' = listeners
  BY DEF Notified, Settled
<1>2. gone \subseteq Requests
  OBVIOUS
<1> HIDE DEF gone
<1>3. up \in Seq(UpFrames) /\ listeners \in Seq(Requests)
  BY DEF FoldInv, Channels
<1>4. /\ Denials(folds) \in Seq(UpFrames)
      /\ \A f \in Frames(Denials(folds)) : f.k = "act"
  BY <1>3, DenialsType
<1>5. /\ Disposals(gone) \in Seq(UpFrames)
      /\ \A f \in Frames(Disposals(gone)) : f.k = "dispose" /\ f.s \in gone
  BY <1>2, <1>3, DisposalsType
<1>6. fs \in Seq(UpFrames) /\ Frames(fs) = Frames(Denials(folds)) \cup Frames(Disposals(gone))
  BY <1>4, <1>5, FramesOfConcat
<1>7. up' = up \o fs
  BY <1>1, <1>3, <1>4, <1>5, ConcatAssociative
<1>8. \A f \in Frames(fs) : f.k = "act" \/ (f.k = "dispose" /\ f.s \in Requests /\ life'[f.s] = "ended")
  BY <1>1, <1>2, <1>4, <1>5, <1>6
<1> HIDE DEF fs
<1>9. Written(fs)
  BY <1>6, <1>7, <1>8, PlainWritten
<1>10. LivesOn
  BY <1>1, <1>3 DEF LivesOn
<1>11. QED
  BY <1>9, <1>10, StillCalls

LEMMA EndMoves ==
    ASSUME FoldInv, IInv, NEW r \in Requests, NEW frames \in Seq(UpFrames),
           \A f \in Frames(frames) : f.k = "act", End(r, frames)
    PROVE  ClientMoves
<1> DEFINE gone == {x \in {r} : life[x] = "running"}
           fs == frames \o Disposals(gone)
<1>1. /\ life' = [x \in Requests |-> IF x \in gone THEN "ended" ELSE life[x]]
      /\ up' = up \o frames \o Disposals(gone)
      /\ UNCHANGED <<subs, mirror, chats, spurned, call, wire, host, listeners>>
  BY DEF End, Settled
<1>2. gone \subseteq Requests
  OBVIOUS
<1> HIDE DEF gone
<1>3. up \in Seq(UpFrames) /\ listeners \in Seq(Requests)
  BY DEF FoldInv, Channels
<1>4. /\ Disposals(gone) \in Seq(UpFrames)
      /\ \A f \in Frames(Disposals(gone)) : f.k = "dispose" /\ f.s \in gone
  BY <1>2, <1>3, DisposalsType
<1>5. fs \in Seq(UpFrames) /\ Frames(fs) = Frames(frames) \cup Frames(Disposals(gone))
  BY <1>4, FramesOfConcat
<1>6. up' = up \o fs
  BY <1>1, <1>3, <1>4, ConcatAssociative
<1>7. \A f \in Frames(fs) : f.k = "act" \/ (f.k = "dispose" /\ f.s \in Requests /\ life'[f.s] = "ended")
  BY <1>1, <1>2, <1>4, <1>5
<1> HIDE DEF fs
<1>8. Written(fs)
  BY <1>5, <1>6, <1>7, PlainWritten
<1>9. LivesOn /\ Taken
  BY <1>1, <1>3 DEF LivesOn, Taken
<1>10. QED
  BY <1>1, <1>8, <1>9, StillCalls

\* An envelope of a chat is folded.
LEMMA FoldMoves ==
    ASSUME FoldInv, IInv, wire # <<>>, wire' = Tail(wire), Head(wire).k = "act",
           chats' = Folded(Head(wire).s, Head(wire).act),
           spurned' = IF Head(wire).ok THEN spurned ELSE spurned \cup {Head(wire).s},
           Notified(chats'), UNCHANGED <<subs, call, host>>
    PROVE  ClientMoves
<1>1. wire \in Seq(WireFrames) /\ chats \in [Sessions -> Chat \cup {NoChat}]
  BY DEF FoldInv, Channels
<1>2. PICK f : f = Head(wire)
  OBVIOUS
<1>3. f.s \in Sessions /\ f.act \in Actions
  <2>1. f \in WireFrames
    BY <1>1, <1>2, FramesOfTail
  <2>2. QED
    BY <1>2, <2>1 DEF WireFrames
<1>4. \A x \in Chat \cup {NoChat} : Reduce(IF x = NoChat THEN EmptyChat ELSE x, f.act) \in Chat
  BY <1>3, ReduceType, EmptyChatType
<1>5. chats' = [chats EXCEPT ![f.s] =
                    Reduce(IF chats[f.s] = NoChat THEN EmptyChat ELSE chats[f.s], f.act)]
  BY <1>2, Zenon DEF Folded
<1>6. chats' \in [Sessions -> Chat \cup {NoChat}]
  BY <1>1, <1>3, <1>4, <1>5
<1>7. \A s \in Sessions : chats'[s] = After(call, s, chats[s], f)
  BY <1>1, <1>2, <1>3, <1>5 DEF After
<1>8. Taken
  BY <1>2, <1>6, <1>7 DEF Taken
<1>9. QED
  BY <1>6, <1>8, NotifiedMoves

\* The session is disposed of, and its channels are given back.
LEMMA DisposedMoves ==
    ASSUME FoldInv, IInv, wire # <<>>, wire' = Tail(wire), Head(wire).k = "disposed",
           Unview(Head(wire).s), UNCHANGED <<mirror, chats, spurned, call, host, life, listeners>>
    PROVE  ClientMoves
<1>1. wire \in Seq(WireFrames) /\ up \in Seq(UpFrames) /\ listeners \in Seq(Requests)
      /\ chats \in [Sessions -> Chat \cup {NoChat}]
  BY DEF FoldInv, Channels
<1>2. PICK f : f = Head(wire)
  OBVIOUS
<1>3. f \in Frames(wire)
  BY <1>1, <1>2, FramesOfTail
<1>4. f.s \in Requests /\ life[f.s] = "ended" /\ ~host[f.s].live
  BY <1>2, <1>3 DEF FoldInv, GoneOK
<1>5. PICK g : g = UnsubFrame(f.s)
  OBVIOUS
<1>6. g \in UpFrames /\ g.k = "unsub" /\ g.s = f.s
  BY <1>4, <1>5, Requested DEF UpFrames, UnsubFrame
<1>7. <<g>> \in Seq(UpFrames) /\ Frames(<<g>>) = {g}
  BY <1>6, FramesOfOne
<1>8. subs' \subseteq subs /\ up' = Append(up, g)
  BY <1>2, <1>5 DEF Unview
<1>9. up' = up \o <<g>>
  BY <1>1, <1>6, <1>8, AppendIsConcat
<1>10. Written(<<g>>)
  BY <1>4, <1>6, <1>7, <1>9, PlainWritten
<1>11. Taken
  <2>1. \A s \in Sessions : chats'[s] = After(call, s, chats[s], f)
    BY <1>2 DEF After
  <2>2. QED
    BY <1>1, <1>2, <2>1 DEF Taken
<1>12. LivesOn
  BY <1>1 DEF LivesOn
<1>13. QED
  BY <1>8, <1>10, <1>11, <1>12, StillCalls

-----------------------------------------------------------------------------
\* One call goes on, and writes the frames fs.
Goes(c, fs) ==
    /\ up' = up \o fs /\ fs \in Seq(UpFrames) /\ Once(fs)
    /\ \A f \in Frames(fs) : f.k = "act" \/ (f.k = "sub" /\ f.c = c /\ f.kind = call'[c].at)
    /\ \A x \in Callers \ {c} : call'[x] = call[x]
    /\ call'[c].at \in Ats \ {"idle"}
    /\ Asking(fs) # {} => call'[c].waits = "answer"
    /\ \/ subs' \subseteq subs
       \/ /\ subs' \subseteq subs \cup {<<call'[c].at, Target[c]>>}
          /\ call'[c].waits = "answer"

\* A call that waited for the answer about a chat leaves it for a reason.
Leaves(c) ==
    call[c].at = "chat" /\ call[c].waits = "answer" /\ host[Target[c]].live /\ ~host[Target[c]].sends
        => <<"chat", Target[c]>> \notin subs'

LEMMA GoesStep ==
    ASSUME FoldInv, IInv, NEW c \in Callers, NEW fs, Goes(c, fs), Leaves(c), Taken, LivesOn,
           UNCHANGED host, c \notin Asking(up) \cup Asking(wire'), ~Unborn(Target[c])
    PROVE  ClientMoves
<1>1. Target[c] \in Sessions
  BY Sentinel
<1>2. Asking(fs) \subseteq {c}
  BY DEF Goes, Asking, Names
<1>3. Written(fs)
  BY <1>2 DEF Goes, Written
<1>4. CallsMoved
  <2>1. \A x \in Callers : call'[x].at \in Ats /\ (call'[x].at = "idle" => call'[x].waits = "none")
    BY DEF Goes, FoldInv, Channels, Asked
  <2>2. Asking(up) \cup Asking(wire') \subseteq Callers \ {c}
    BY DEF Asking
  <2>3. \A x \in Asking(up) \cup Asking(wire') : call'[x] = call[x]
    BY <2>2 DEF Goes
  <2>4. QED
    BY <2>1, <2>3 DEF CallsMoved
<1>5. SubsMoved
  <2>1. ASSUME NEW s \in Sessions, <<"chat", s>> \in subs', host[s].live, ~host[s].sends
        PROVE  \E x \in Callers : Target[x] = s /\ call'[x].at = "chat" /\ call'[x].waits = "answer"
    <3>1. CASE <<"chat", s>> \in subs
      <4>1. PICK x \in Callers : Target[x] = s /\ call[x].at = "chat" /\ call[x].waits = "answer"
        BY <2>1, <3>1 DEF FoldInv, Subscribed
      <4>2. x # c
        BY <2>1, <4>1 DEF Leaves
      <4>3. QED
        BY <4>1, <4>2 DEF Goes
    <3>2. CASE <<"chat", s>> \notin subs
      BY <2>1, <3>2 DEF Goes
    <3>3. QED
      BY <3>1, <3>2
  <2>2. QED
    BY <2>1 DEF SubsMoved
<1>6. Frames(up) \subseteq Frames(up')
  BY <1>3, FramesMoved
<1>7. BornMoved
  <2>1. ASSUME NEW s \in Sessions, Unborn(s)
        PROVE  /\ <<"chat", s>> \notin subs'
               /\ \A x \in Callers : Target[x] = s =>
                    call'[x].at = "idle" \/ (x = s /\ CreateFrame(s) \in Frames(up'))
    <3>1. s # Target[c]
      BY <2>1
    <3>2. <<"chat", s>> \notin subs
      BY <2>1 DEF FoldInv, Born
    <3>3. <<"chat", s>> \notin subs'
      BY <3>1, <3>2 DEF Goes
    <3>4. \A x \in Callers : Target[x] = s =>
            call[x].at = "idle" \/ (x = s /\ CreateFrame(s) \in Frames(up))
      BY <2>1 DEF FoldInv, Born
    <3>5. \A x \in Callers : Target[x] = s => call'[x] = call[x]
      BY <3>1 DEF Goes
    <3>6. QED
      BY <1>6, <3>3, <3>4, <3>5
  <2>2. QED
    BY <2>1 DEF BornMoved
<1>8. QED
  BY <1>3, <1>4, <1>5, <1>7 DEF ClientMoves

LEMMA CallShape ==
    ASSUME IInv, NEW c \in Callers, NEW at, NEW waits, NEW tries,
           call' = [call EXCEPT ![c] = [at |-> at, waits |-> waits, tries |-> tries]]
    PROVE  /\ call'[c].at = at /\ call'[c].waits = waits
           /\ \A x \in Callers \ {c} : call'[x] = call[x]
BY DEF IInv, Waiting

LEMMA SubFrames ==
    ASSUME NEW c \in Callers, NEW kind \in Ats
    PROVE  /\ <<SubFrame(c, kind)>> \in Seq(UpFrames) /\ Once(<<SubFrame(c, kind)>>)
           /\ Frames(<<SubFrame(c, kind)>>) = {SubFrame(c, kind)}
           /\ SubFrame(c, kind).k = "sub" /\ SubFrame(c, kind).c = c /\ SubFrame(c, kind).kind = kind
<1>1. PICK f : f = SubFrame(c, kind)
  OBVIOUS
<1>2. f \in UpFrames /\ f.k = "sub" /\ f.c = c /\ f.kind = kind
  BY <1>1 DEF SubFrame, UpFrames
<1>3. QED
  BY <1>1, <1>2, FramesOfOne

LEMMA ActFrames ==
    ASSUME NEW s \in Sessions, NEW type \in {"draft", "start", "end"}, NEW turn \in Turns \cup {NoTurn}
    PROVE  /\ <<ActFrame(s, Act(type, turn))>> \in Seq(UpFrames)
           /\ Once(<<ActFrame(s, Act(type, turn))>>)
           /\ \A f \in Frames(<<ActFrame(s, Act(type, turn))>>) : f.k = "act"
<1>1. PICK f : f = ActFrame(s, Act(type, turn))
  OBVIOUS
<1>2. f \in UpFrames /\ f.k = "act"
  BY <1>1 DEF ActFrame, Act, UpFrames, Actions
<1>3. QED
  BY <1>1, <1>2, FramesOfOne

LEMMA EnterGoes ==
    ASSUME FoldInv, IInv, NEW c \in Callers, NEW kind \in Kinds, Enter(c, kind),
           subs' = subs \cup {<<kind, Target[c]>>}
    PROVE  \E fs : Goes(c, fs)
<1> DEFINE s == Target[c]
           sub == <<SubFrame(c, kind)>>
           draft == IF kind = "chat" THEN <<ActFrame(s, Act("draft", NoTurn))>> ELSE <<>>
           fs == draft \o sub
<1>1. up \in Seq(UpFrames) /\ s \in Sessions /\ kind \in Ats /\ kind # "idle"
  BY Sentinel DEF FoldInv, Channels, Ats, Kinds
<1>2. /\ call'[c].at = kind /\ call'[c].waits = "answer"
      /\ \A x \in Callers \ {c} : call'[x] = call[x]
  <2>1. call' = [call EXCEPT ![c] = [at |-> kind, waits |-> "answer", tries |-> 0]]
    BY DEF Enter
  <2>2. QED
    BY <2>1, CallShape
<1>3. /\ sub \in Seq(UpFrames) /\ Once(sub)
      /\ \A f \in Frames(sub) : f.k = "sub" /\ f.c = c /\ f.kind = kind
  BY <1>1, SubFrames
<1>4. draft \in Seq(UpFrames) /\ Once(draft) /\ \A f \in Frames(draft) : f.k = "act"
  <2>1. CASE kind = "chat"
    BY <1>1, <2>1, ActFrames
  <2>2. CASE kind # "chat"
    BY <2>2, FramesOfNone, EmptySeq
  <2>3. QED
    BY <2>1, <2>2
<1>5. up' = up \o draft \o sub
  BY DEF Enter
<1> HIDE DEF draft, sub
<1>6. up' = up \o fs
  BY <1>1, <1>3, <1>4, <1>5, ConcatAssociative
<1>7. fs \in Seq(UpFrames) /\ Frames(fs) = Frames(draft) \cup Frames(sub)
  BY <1>3, <1>4, FramesOfConcat
<1>8. Once(fs)
  BY <1>3, <1>4, OnceOfConcat DEF Names
<1> HIDE DEF fs
<1>9. \A f \in Frames(fs) : f.k = "act" \/ (f.k = "sub" /\ f.c = c /\ f.kind = call'[c].at)
  BY <1>2, <1>3, <1>4, <1>7
<1>10. QED
  BY <1>1, <1>2, <1>6, <1>7, <1>8, <1>9 DEF Goes

LEMMA RestGoes ==
    ASSUME FoldInv, IInv, NEW c \in Callers, NEW at \in {"done", "failed"}, Rest(c, at),
           subs' \subseteq subs, UNCHANGED up
    PROVE  Goes(c, <<>>)
<1>1. /\ call'[c].at = at /\ \A x \in Callers \ {c} : call'[x] = call[x]
  BY CallShape DEF Rest
<1>2. at \in Ats \ {"idle"}
  BY DEF Ats, Kinds
<1>3. up \o <<>> = up /\ <<>> \in Seq(UpFrames)
  BY ConcatEmptySeq, EmptySeq DEF FoldInv, Channels
<1>4. QED
  BY <1>1, <1>2, <1>3, FramesOfNone DEF Goes

LEMMA LaunchGoes ==
    ASSUME FoldInv, IInv, NEW r \in Requests, Launch(r), subs' = subs
    PROVE  Goes(r, <<ActFrame(r, Act("start", r))>>) /\ listeners' \in Seq(Requests)
<1> DEFINE fs == <<ActFrame(r, Act("start", r))>>
<1>1. /\ up \in Seq(UpFrames) /\ listeners \in Seq(Requests)
      /\ r \in Callers /\ r \in Sessions /\ r \in Turns
  BY ParticipantAssumption DEF FoldInv, Channels
<1>2. call'[r].at = "done" /\ \A x \in Callers \ {r} : call'[x] = call[x]
  BY <1>1, CallShape DEF Launch, Rest
<1>3. fs \in Seq(UpFrames) /\ Once(fs) /\ \A f \in Frames(fs) : f.k = "act"
  BY <1>1, ActFrames
<1>4. up' = up \o fs
  <2>1. PICK f : f = ActFrame(r, Act("start", r))
    OBVIOUS
  <2>2. f \in UpFrames
    BY <1>1, <2>1 DEF ActFrame, Act, UpFrames, Actions
  <2>3. up' = Append(up, f)
    BY <2>1 DEF Launch
  <2>4. QED
    BY <1>1, <2>1, <2>2, <2>3, AppendIsConcat
<1> HIDE DEF fs
<1>5. Asking(fs) = {}
  BY <1>3 DEF Asking, Names
<1>6. Goes(r, fs)
  BY <1>2, <1>3, <1>4, <1>5 DEF Goes, Ats, Kinds
<1>7. listeners' \in Seq(Requests)
  BY <1>1 DEF Launch
<1>8. QED
  BY <1>6, <1>7 DEF fs

\* The call goes on: with a channel, with the submit, or no further.
LEMMA GoOnGoes ==
    ASSUME FoldInv, IInv, NEW c \in Callers, NEW list \in Seq(Kinds), GoOn(c, list),
           c \in Requests => life[c] = "setup"
    PROVE  (\E fs : Goes(c, fs)) /\ LivesOn
<1> DEFINE s == Target[c]
           more == IF c \in Requests /\ s \in mirror' THEN <<"chat", "plan">> ELSE <<>>
           next == NextOpen(s, list \o more, subs)
<1>1. more \in Seq(Kinds)
  <2>1. <<>> \in Seq(Kinds) /\ <<"chat", "plan">> \in Seq(Kinds)
    BY DEF Kinds
  <2>2. QED
    BY <2>1
<1>2. list \o more \in Seq(Kinds)
  <2> HIDE DEF more
  <2>1. QED
    BY <1>1, ConcatProperties
<1>3. next \in Kinds \cup {"done"}
  <2> HIDE DEF more
  <2>1. QED
    BY <1>2, NextOpenType
<1>4. listeners \in Seq(Requests) /\ life \in [Requests -> Lives]
  BY DEF FoldInv, Channels, IInv, Timers
<1>5. CASE /\ next # "done" /\ Enter(c, next) /\ subs' = subs \cup {<<next, s>>}
           /\ UNCHANGED turnVars
  <2> HIDE DEF next
  <2>1. next \in Kinds
    BY <1>3, <1>5
  <2>2. \E fs : Goes(c, fs)
    BY <1>5, <2>1, EnterGoes
  <2>3. QED
    BY <1>4, <1>5, <2>2 DEF turnVars, LivesOn
<1>6. CASE c \in Requests /\ Launch(c) /\ UNCHANGED subs
  <2>1. (\E fs : Goes(c, fs)) /\ listeners' \in Seq(Requests)
    BY <1>6, LaunchGoes
  <2>2. life' = [life EXCEPT ![c] = "running"]
    BY <1>6 DEF Launch
  <2>3. QED
    BY <1>4, <1>6, <2>1, <2>2 DEF LivesOn
<1>7. CASE /\ c \in Requests /\ SetupFails(c) /\ Rest(c, "failed") /\ UNCHANGED <<subs, up, listeners>>
  <2>1. Goes(c, <<>>)
    BY <1>7, RestGoes
  <2>2. life' = [life EXCEPT ![c] = "ended"]
    BY <1>7 DEF SetupFails
  <2>3. QED
    BY <1>4, <1>7, <2>1, <2>2 DEF LivesOn
<1>8. CASE Rest(c, "done") /\ UNCHANGED <<subs, up, turnVars>>
  <2>1. Goes(c, <<>>)
    BY <1>8, RestGoes
  <2>2. QED
    BY <1>4, <1>8, <2>1 DEF LivesOn, turnVars
<1>9. QED
  BY <1>5, <1>6, <1>7, <1>8 DEF GoOn

-----------------------------------------------------------------------------
\* A call goes on with the answer it waits for, or gives up or tries again.
LEMMA AnsweredMoves ==
    ASSUME FoldInv, IInv, NEW c \in Callers, NEW f, f = Head(wire), wire # <<>>, wire' = Tail(wire),
           f.k = "answer", f.c = c, Answered(c, f), UNCHANGED <<host, spurned>>
    PROVE  ClientMoves
<1> DEFINE s == Target[c]
           at == call[c].at
<1>1. /\ wire \in Seq(WireFrames) /\ up \in Seq(UpFrames) /\ listeners \in Seq(Requests)
      /\ chats \in [Sessions -> Chat \cup {NoChat}] /\ life \in [Requests -> Lives]
  BY DEF FoldInv, Channels, IInv, Timers
<1>2. f.ok \in BOOLEAN /\ f.state \in Held
  <2>1. f \in WireFrames
    BY <1>1, FramesOfTail
  <2>2. QED
    BY <2>1 DEF WireFrames
<1>3. s \in Sessions /\ call[c].waits = "answer"
  BY Sentinel DEF Answered
<1>4. c \in Asking(wire)
  <2>1. f \in Frames(wire)
    BY <1>1, FramesOfTail
  <2>2. QED
    BY <2>1 DEF Asking, Names
<1>5. c \notin Asking(up) \cup Asking(wire')
  <2>1. Once(wire) => c \notin Asking(wire')
    BY <1>1, FramesOfTail DEF Names
  <2>2. QED
    BY <1>4, <2>1 DEF FoldInv, Asked
<1>6. ~Unborn(s)
  BY <1>3, <1>5, CreateAsks DEF FoldInv, Born, Asked
<1>7. c \in Requests => life[c] = "setup"
  BY <1>3 DEF IInv, Waiting
<1>8. f.state.chat \in Chat \cup {NoChat}
  BY <1>2 DEF Held
<1>9. CASE f.ok
  <2>1. Landed(at, s, f.state)
    BY <1>9 DEF Answered
  <2>2. Taken
    <3>1. chats' = IF at = "chat" THEN [chats EXCEPT ![s] = f.state.chat] ELSE chats
      BY <2>1 DEF Landed
    <3>2. chats' \in [Sessions -> Chat \cup {NoChat}]
      BY <1>1, <1>3, <1>8, <3>1
    <3>3. \A x \in Sessions : chats'[x] = After(call, x, chats[x], f)
      BY <1>1, <1>3, <1>9, <3>1 DEF After
    <3>4. QED
      BY <3>2, <3>3 DEF Taken
  <2>3. Leaves(c)
    <3>1. f \in Frames(wire)
      BY <1>1, FramesOfTail
    <3>2. QED
      BY <1>9, <3>1 DEF FoldInv, Subscribed, Leaves
  <2>4. \E list \in Seq(Kinds) : GoOn(c, list)
    <3>1. <<"session">> \in Seq(Kinds)
      BY DEF Kinds
    <3>2. QED
      BY <1>9, <3>1, AheadType DEF Answered
  <2>5. (\E fs : Goes(c, fs)) /\ LivesOn
    BY <1>7, <2>4, GoOnGoes
  <2>6. QED
    BY <1>5, <1>6, <2>2, <2>3, <2>5, GoesStep
<1>10. CASE ~f.ok
  <2>1. /\ Miss(c) /\ UNCHANGED <<chats, up, listeners>>
        /\ \/ c \in Requests /\ SetupFails(c)
           \/ UNCHANGED life
    BY <1>10 DEF Answered
  <2>2. Taken
    <3>1. \A x \in Sessions : chats'[x] = After(call, x, chats[x], f)
      BY <1>10, <2>1 DEF After
    <3>2. QED
      BY <1>1, <2>1, <3>1 DEF Taken
  <2>3. LivesOn
    BY <1>1, <2>1 DEF LivesOn, SetupFails
  <2>4. subs' = subs \ {<<at, s>>}
    BY <2>1 DEF Miss
  <2>5. Leaves(c)
    BY <2>4 DEF Leaves
  <2>6. Goes(c, <<>>)
    <3>1. CASE Rest(c, "failed")
      BY <2>1, <2>4, <3>1, RestGoes
    <3>2. CASE call' = [call EXCEPT ![c].waits = "pause"]
      <4>1. call'[c].at = at /\ \A x \in Callers \ {c} : call'[x] = call[x]
        BY <3>2 DEF IInv, Waiting, IsCall
      <4>2. at \in Ats \ {"idle"}
        BY <1>3 DEF FoldInv, Channels, Asked
      <4>3. up \o <<>> = up /\ <<>> \in Seq(UpFrames)
        BY <1>1, ConcatEmptySeq, EmptySeq
      <4>4. QED
        BY <2>1, <2>4, <4>1, <4>2, <4>3, FramesOfNone DEF Goes
    <3>3. QED
      BY <2>1, <3>1, <3>2 DEF Miss
  <2>7. QED
    BY <1>5, <1>6, <2>2, <2>3, <2>5, <2>6, GoesStep
<1>11. QED
  BY <1>2, <1>9, <1>10

LEMMA RetryMoves ==
    ASSUME FoldInv, IInv, NEW c \in Callers, Retry(c)
    PROVE  ClientMoves
<1> DEFINE s == Target[c]
<1>1. /\ up \in Seq(UpFrames) /\ listeners \in Seq(Requests) /\ s \in Sessions
      /\ call[c].waits = "pause" /\ UNCHANGED <<chats, mirror, spurned, wire, host>>
  BY Sentinel DEF FoldInv, Channels, Retry, RetryDue
<1>2. c \notin Asking(up) \cup Asking(wire')
  BY <1>1 DEF FoldInv, Asked
<1>3. ~Unborn(s)
  BY <1>1, <1>2, CreateAsks DEF FoldInv, Born, Asked
<1>4. Taken /\ Leaves(c)
  BY <1>1 DEF Taken, Leaves
<1>5. c \in Requests => life[c] = "setup"
  BY <1>1 DEF IInv, Waiting
<1>6. CASE \E list \in Seq(Kinds) : GoOn(c, list)
  <2>1. (\E fs : Goes(c, fs)) /\ LivesOn
    BY <1>5, <1>6, GoOnGoes
  <2>2. QED
    BY <1>1, <1>2, <1>3, <1>4, <2>1, GoesStep
<1>7. CASE Resubscribe(c) /\ UNCHANGED turnVars
  <2> DEFINE fs == <<SubFrame(c, call[c].at)>>
  <2>1. /\ call'[c].at = call[c].at /\ call'[c].waits = "answer"
        /\ \A x \in Callers \ {c} : call'[x] = call[x]
    <3>1. call' = [call EXCEPT ![c].waits = "answer", ![c].tries = @ + 1]
      BY <1>7 DEF Resubscribe
    <3>2. QED
      BY <3>1 DEF IInv, Waiting, IsCall
  <2>2. call[c].at \in Ats \ {"idle"}
    BY <1>1 DEF FoldInv, Channels, Asked
  <2>3. /\ fs \in Seq(UpFrames) /\ Once(fs)
        /\ \A f \in Frames(fs) : f.k = "sub" /\ f.c = c /\ f.kind = call[c].at
    BY <2>2, SubFrames
  <2>4. up' = up \o fs
    <3>1. PICK f : f = SubFrame(c, call[c].at)
      OBVIOUS
    <3>2. f \in UpFrames
      BY <2>2, <3>1 DEF SubFrame, UpFrames
    <3>3. up' = Append(up, f)
      BY <1>7, <3>1 DEF Resubscribe
    <3>4. QED
      BY <1>1, <3>1, <3>2, <3>3, AppendIsConcat
  <2>5. subs' = subs \cup {<<call[c].at, s>>}
    BY <1>7 DEF Resubscribe
  <2> HIDE DEF fs
  <2>6. Goes(c, fs)
    BY <2>1, <2>2, <2>3, <2>4, <2>5 DEF Goes
  <2>7. LivesOn
    BY <1>1, <1>7 DEF LivesOn, turnVars
  <2>8. QED
    BY <1>1, <1>2, <1>3, <1>4, <2>6, <2>7, GoesStep
<1>8. QED
  BY <1>6, <1>7, AheadType DEF Retry

LEMMA ViewMoves ==
    ASSUME FoldInv, IInv, NEW v \in Views, View(v)
    PROVE  ClientMoves
<1> DEFINE s == Target[v]
           list == IF <<"session", s>> \in subs THEN Ahead("session", s \in mirror) ELSE <<"session">>
           next == NextOpen(s, list, subs)
<1>1. /\ v \in Callers /\ s \in Sessions /\ call[v].at = "idle" /\ host[s].live
      /\ UNCHANGED <<mirror, chats, spurned, wire, host, turnVars>>
      /\ listeners \in Seq(Requests)
  BY Sentinel DEF View, Views, FoldInv, Channels
<1>2. next \in Kinds \cup {"done"}
  <2>1. <<"session">> \in Seq(Kinds)
    BY DEF Kinds
  <2>2. list \in Seq(Kinds)
    BY <2>1, AheadType
  <2> HIDE DEF list
  <2>3. QED
    BY <2>2, NextOpenType
<1>3. \/ next = "done" /\ Rest(v, "done") /\ UNCHANGED <<subs, up>>
      \/ next # "done" /\ Enter(v, next) /\ subs' = subs \cup {<<next, s>>}
  BY DEF View
<1> HIDE DEF next
<1>4. \E fs : Goes(v, fs)
  <2>1. CASE Rest(v, "done") /\ UNCHANGED <<subs, up>>
    BY <1>1, <2>1, RestGoes
  <2>2. CASE next # "done" /\ Enter(v, next) /\ subs' = subs \cup {<<next, s>>}
    BY <1>1, <1>2, <2>2, EnterGoes
  <2>3. QED
    BY <1>3, <2>1, <2>2
<1>5. v \notin Asking(up) \cup Asking(wire')
  BY <1>1 DEF FoldInv, Asked
<1>6. ~Unborn(s)
  BY <1>1 DEF FoldInv, Born
<1>7. Taken /\ Leaves(v) /\ LivesOn
  BY <1>1 DEF Taken, Leaves, LivesOn, turnVars
<1>8. QED
  BY <1>1, <1>4, <1>5, <1>6, <1>7, GoesStep

LEMMA BeginMoves ==
    ASSUME FoldInv, IInv, NEW r \in Requests, Begin(r)
    PROVE  ClientMoves
<1>1. /\ up \in Seq(UpFrames) /\ listeners \in Seq(Requests) /\ life \in [Requests -> Lives]
      /\ r \in Callers /\ r \in Sessions /\ Target[r] = r
      /\ life[r] = "none" /\ life' = [life EXCEPT ![r] = "setup"]
      /\ UNCHANGED <<subs, mirror, chats, spurned, wire, host, listeners>>
  BY Requested DEF FoldInv, Channels, IInv, Timers, Begin
<1>2. /\ call'[r].at = "create" /\ call'[r].waits = "answer"
      /\ \A x \in Callers \ {r} : call'[x] = call[x]
  BY <1>1, CallShape DEF Begin
<1>3. PICK f : f = CreateFrame(r)
  OBVIOUS
<1>4. f \in UpFrames /\ f.k = "create" /\ f.c = r
  BY <1>3 DEF CreateFrame, UpFrames
<1>5. PICK fs : fs = <<f>>
  OBVIOUS
<1>6. fs \in Seq(UpFrames) /\ Once(fs) /\ Frames(fs) = {f} /\ Asking(fs) = {r} /\ up' = up \o fs
  <2>1. fs \in Seq(UpFrames) /\ Once(fs) /\ Frames(fs) = {f}
    BY <1>4, <1>5, FramesOfOne
  <2>2. Asking(fs) = {r}
    BY <1>1, <1>4, <2>1 DEF Asking, Names
  <2>3. up' = Append(up, f)
    BY <1>3 DEF Begin
  <2>4. up' = up \o fs
    BY <1>1, <1>4, <1>5, <2>3, AppendIsConcat
  <2>5. QED
    BY <2>1, <2>2, <2>4
<1>7. r \notin Asking(up) \cup Asking(wire)
  BY <1>1 DEF FoldInv, Asked, IInv, Waiting
<1>8. Written(fs)
  BY <1>1, <1>2, <1>4, <1>6, <1>7 DEF Written
<1>9. Taken /\ LivesOn
  BY <1>1 DEF Taken, LivesOn
<1>10. CallsMoved
  <2>1. \A c \in Callers : call'[c].at \in Ats /\ (call'[c].at = "idle" => call'[c].waits = "none")
    BY <1>2 DEF FoldInv, Channels, Asked, Ats
  <2>2. Asking(up) \cup Asking(wire') \subseteq Callers \ {r}
    BY <1>1, <1>7 DEF Asking
  <2>3. QED
    BY <1>2, <2>1, <2>2 DEF CallsMoved
<1>11. SubsMoved
  <2>1. ASSUME NEW s \in Sessions, <<"chat", s>> \in subs', host[s].live, ~host[s].sends
        PROVE  \E c \in Callers : Target[c] = s /\ call'[c].at = "chat" /\ call'[c].waits = "answer"
    <3>1. PICK c \in Callers : Target[c] = s /\ call[c].at = "chat" /\ call[c].waits = "answer"
      BY <1>1, <2>1 DEF FoldInv, Subscribed
    <3>2. c # r
      BY <1>1, <3>1 DEF IInv, Waiting
    <3>3. QED
      BY <1>2, <3>1, <3>2
  <2>2. QED
    BY <2>1 DEF SubsMoved
<1>12. BornMoved
  <2>1. Frames(up') = Frames(up) \cup {CreateFrame(r)}
    BY <1>1, <1>3, <1>6, FramesOfConcat
  <2>2. ASSUME NEW s \in Sessions, Unborn(s)
        PROVE  /\ <<"chat", s>> \notin subs'
               /\ \A c \in Callers : Target[c] = s =>
                    call'[c].at = "idle" \/ (c = s /\ CreateFrame(s) \in Frames(up'))
    <3>1. /\ <<"chat", s>> \notin subs
          /\ \A c \in Callers : Target[c] = s =>
               call[c].at = "idle" \/ (c = s /\ CreateFrame(s) \in Frames(up))
      BY <2>2 DEF FoldInv, Born
    <3>2. QED
      BY <1>1, <1>2, <2>1, <3>1
  <2>3. QED
    BY <2>2 DEF BornMoved
<1>13. QED
  BY <1>1, <1>8, <1>9, <1>10, <1>11, <1>12 DEF ClientMoves

LEMMA ClientTakesMoves ==
    ASSUME FoldInv, IInv, ClientTakes
    PROVE  ClientMoves
<1>1. PICK f : f = Head(wire)
  OBVIOUS
<1>2. wire # <<>> /\ wire' = Tail(wire) /\ UNCHANGED host
  BY DEF ClientTakes
<1>3. CASE f.k = "answer" /\ (\E c \in Callers : c = f.c /\ Answered(c, f)) /\ UNCHANGED spurned
  BY <1>1, <1>2, <1>3, AnsweredMoves
<1>4. CASE /\ f.k = "act" /\ chats' = Folded(f.s, f.act)
           /\ spurned' = IF f.ok THEN spurned ELSE spurned \cup {f.s}
           /\ Notified(chats') /\ UNCHANGED <<subs, mirror, call>>
  BY <1>1, <1>2, <1>4, FoldMoves
<1>5. CASE f.k = "disposed" /\ Unview(f.s) /\ UNCHANGED <<mirror, chats, spurned, call, turnVars>>
  BY <1>1, <1>2, <1>5, DisposedMoves DEF turnVars
<1>6. QED
  BY <1>1, <1>3, <1>4, <1>5 DEF ClientTakes

-----------------------------------------------------------------------------
\* A step of the host: it takes a frame or none, and sends the frames of out,
\* at most one.
Out == {<<>>} \cup {<<g>> : g \in WireFrames}

Received == \/ UNCHANGED up
            \/ up # <<>> /\ up' = Tail(up)

Answers(out) ==
    \A g \in Frames(out) :
        /\ Names(g) => up # <<>> /\ up' = Tail(up) /\ Names(Head(up)) /\ Head(up).c = g.c
        /\ g.k = "answer" =>
             (g.ok /\ call[g.c].at = "chat" /\ host'[Target[g.c]].live => host'[Target[g.c]].sends)
        /\ g.k = "disposed" => g.s \in Requests /\ life[g.s] = "ended" /\ ~host'[g.s].live

\* The sessions the host holds: none comes to life but by a create.
HeldOn ==
    /\ host' \in [Sessions -> Held] /\ HostOK'
    /\ \A s \in Sessions :
         /\ ~host[s].live /\ host'[s].live =>
              /\ Unborn(s) /\ ~Unborn(s)' /\ s \in Requests /\ life[s] # "ended"
         /\ ~host[s].sends /\ host'[s].sends => host[s].live
         /\ host[s].sends /\ ~host'[s].sends => ~host'[s].live

\* What the host sends of a chat makes the client's fold the host's.
Echoed(out) ==
    \A s \in Sessions : host'[s].live /\ host'[s].sends =>
        \/ /\ host[s].live /\ host[s].sends
           /\ out = <<>> /\ host'[s].chat = host[s].chat
        \/ \E g \in WireFrames :
             /\ out = <<g>>
             /\ \/ \A y : After(call, s, y, g) = host'[s].chat
                \/ /\ host[s].live /\ host[s].sends
                   /\ \/ g.k = "act" /\ g.s = s /\ ~g.ok
                      \/ After(call, s, host[s].chat, g) = host'[s].chat

HostMoves ==
    /\ UNCHANGED <<subs, chats, spurned, call, life, listeners>>
    /\ Received /\ HeldOn
    /\ \E out \in Out : wire' = wire \o out /\ Answers(out) /\ Echoed(out)

LEMMA OutType ==
    ASSUME NEW out \in Out
    PROVE  out \in Seq(WireFrames) /\ Once(out)
<1>1. CASE out = <<>>
  BY <1>1, FramesOfNone, EmptySeq
<1>2. CASE \E g \in WireFrames : out = <<g>>
  BY <1>2, FramesOfOne
<1>3. QED
  BY <1>1, <1>2 DEF Out

LEMMA HostFrames ==
    ASSUME FoldInv, Received, NEW out \in Out, wire' = wire \o out, Answers(out)
    PROVE  /\ up' \in Seq(UpFrames) /\ wire' \in Seq(WireFrames) /\ Once(up') /\ Once(wire')
           /\ Frames(up') \subseteq Frames(up) /\ Frames(wire') = Frames(wire) \cup Frames(out)
           /\ Asking(up') \subseteq Asking(up)
           /\ Asking(wire') = Asking(wire) \cup Asking(out)
           /\ Asking(out) \subseteq Asking(up) /\ Asking(out) \cap Asking(up') = {}
<1>1. /\ up \in Seq(UpFrames) /\ wire \in Seq(WireFrames) /\ Once(up) /\ Once(wire)
      /\ Asking(up) \cap Asking(wire) = {}
  BY DEF FoldInv, Channels, Asked
<1>2. out \in Seq(WireFrames) /\ Once(out)
  BY OutType
<1>3. up' \in Seq(UpFrames) /\ Once(up') /\ Frames(up') \subseteq Frames(up)
  <2>1. CASE up' = up
    BY <1>1, <2>1
  <2>2. CASE up # <<>> /\ up' = Tail(up)
    BY <1>1, <2>2, FramesOfTail
  <2>3. QED
    BY <2>1, <2>2 DEF Received
<1>4. Asking(up') \subseteq Asking(up)
  BY <1>3 DEF Asking
<1>5. /\ wire' \in Seq(WireFrames) /\ Frames(wire') = Frames(wire) \cup Frames(out)
      /\ Asking(wire') = Asking(wire) \cup Asking(out)
  BY <1>1, <1>2, FramesOfConcat
<1>6. ASSUME NEW c \in Asking(out)
      PROVE  c \in Asking(up) /\ c \notin Asking(up')
  <2>1. PICK g \in Frames(out) : Names(g) /\ g.c = c
    BY <1>6 DEF Asking
  <2>2. up # <<>> /\ up' = Tail(up) /\ Names(Head(up)) /\ Head(up).c = c
    BY <2>1 DEF Answers
  <2>3. Head(up) \in Frames(up) /\ Head(up).c \notin Asking(Tail(up))
    BY <1>1, <2>2, FramesOfTail
  <2>4. c \in Callers
    BY <1>6 DEF Asking
  <2>5. QED
    BY <2>2, <2>3, <2>4 DEF Asking
<1>7. ASSUME NEW f \in Frames(wire), NEW g \in Frames(out), Names(f), Names(g), f.c = g.c
      PROVE  FALSE
  <2>1. f \in WireFrames
    BY <1>1, FramesIn
  <2>2. f.c \in Callers
    BY <1>7, <2>1, Requested DEF WireFrames, Names
  <2>3. f.c \in Asking(wire) /\ f.c \in Asking(out)
    BY <1>7, <2>2 DEF Asking
  <2>4. QED
    BY <1>1, <1>6, <2>3
<1>8. Once(wire')
  BY <1>1, <1>2, <1>7, OnceOfConcat
<1>9. QED
  BY <1>3, <1>4, <1>5, <1>6, <1>8

LEMMA HostConverging ==
    ASSUME FoldInv, HostMoves
    PROVE  Converging'
<1>1. PICK out \in Out : wire' = wire \o out /\ Answers(out) /\ Echoed(out)
  BY DEF HostMoves
<1>2. wire \in Seq(WireFrames) /\ wire' \in Seq(WireFrames)
      /\ Frames(wire') = Frames(wire) \cup Frames(out)
  BY <1>1, HostFrames DEF HostMoves, FoldInv, Channels
<1>3. CASE out = <<>>
  <2>1. wire' = wire
    BY <1>1, <1>2, <1>3, ConcatEmptySeq
  <2>2. ASSUME NEW s \in Sessions, host'[s].live, host'[s].sends, s \notin spurned', ~Refused(s)'
        PROVE  Leads(call', s, chats'[s], wire', host'[s].chat)
    <3>1. host[s].live /\ host[s].sends /\ host'[s].chat = host[s].chat
      <4>1. \A g : <<g>> # <<>>
        OBVIOUS
      <4>2. QED
        BY <1>1, <1>3, <2>2, <4>1 DEF Echoed
    <3>2. ~Refused(s)
      BY <2>1, <2>2 DEF Refused
    <3>3. Leads(call, s, chats[s], wire, host[s].chat)
      BY <2>2, <3>1, <3>2 DEF FoldInv, Converging, HostMoves
    <3>4. QED
      BY <2>1, <3>1, <3>3 DEF HostMoves
  <2>3. \A s \in Sessions : \E y : Leads(call', s, chats'[s], wire', y)
    BY <2>1 DEF FoldInv, Converging, HostMoves
  <2>4. QED
    BY <2>2, <2>3 DEF Converging
<1>4. ASSUME NEW g \in WireFrames, out = <<g>>
      PROVE  Converging'
  <2>1. wire' = Append(wire, g) /\ Frames(wire') = Frames(wire) \cup {g}
    BY <1>1, <1>2, <1>4, AppendIsConcat, FramesOfOne
  <2>2. ASSUME NEW s \in Sessions, NEW y, Leads(call, s, chats[s], wire, y)
        PROVE  Leads(call', s, chats'[s], wire', After(call, s, y, g))
    <3>1. Leads(call, s, chats[s], Append(wire, g), After(call, s, y, g))
      BY <1>2, <2>2, LeadsFurther
    <3>2. QED
      BY <2>1, <3>1 DEF HostMoves
  <2>3. ASSUME NEW s \in Sessions
        PROVE  \E y : Leads(call', s, chats'[s], wire', y)
    BY <2>2 DEF FoldInv, Converging
  <2>4. ASSUME NEW s \in Sessions, host'[s].live, host'[s].sends, s \notin spurned', ~Refused(s)'
        PROVE  Leads(call', s, chats'[s], wire', host'[s].chat)
    <3>1. \/ \A y : After(call, s, y, g) = host'[s].chat
          \/ /\ host[s].live /\ host[s].sends
             /\ \/ g.k = "act" /\ g.s = s /\ ~g.ok
                \/ After(call, s, host[s].chat, g) = host'[s].chat
      <4>1. out # <<>> /\ \A h : out = <<h>> => h = g
        BY <1>4
      <4>2. QED
        BY <1>1, <2>4, <4>1 DEF Echoed
    <3>2. CASE \A y : After(call, s, y, g) = host'[s].chat
      <4>1. PICK y : Leads(call, s, chats[s], wire, y)
        BY DEF FoldInv, Converging
      <4>2. QED
        BY <2>2, <3>2, <4>1
    <3>3. CASE host[s].live /\ host[s].sends /\ After(call, s, host[s].chat, g) = host'[s].chat
      <4>1. ~Refused(s)
        BY <2>1, <2>4 DEF Refused
      <4>2. Leads(call, s, chats[s], wire, host[s].chat)
        BY <2>4, <3>3, <4>1 DEF FoldInv, Converging, HostMoves
      <4>3. QED
        BY <2>2, <3>3, <4>2
    <3>4. CASE g.k = "act" /\ g.s = s /\ ~g.ok
      BY <2>1, <2>4, <3>4 DEF Refused
    <3>5. QED
      BY <3>1, <3>2, <3>3, <3>4
  <2>5. QED
    BY <2>3, <2>4 DEF Converging
<1>5. QED
  BY <1>3, <1>4 DEF Out

\* Whatever the host does of this kind keeps the invariant.
LEMMA HostMovesStep ==
    ASSUME FoldInv, IInv, HostMoves
    PROVE  FoldInv'
<1>1. PICK out \in Out : wire' = wire \o out /\ Answers(out) /\ Echoed(out)
  BY DEF HostMoves
<1>2. /\ up' \in Seq(UpFrames) /\ wire' \in Seq(WireFrames) /\ Once(up') /\ Once(wire')
      /\ Frames(up') \subseteq Frames(up) /\ Frames(wire') = Frames(wire) \cup Frames(out)
      /\ Asking(up') \subseteq Asking(up)
      /\ Asking(wire') = Asking(wire) \cup Asking(out)
      /\ Asking(out) \subseteq Asking(up) /\ Asking(out) \cap Asking(up') = {}
  BY <1>1, HostFrames DEF HostMoves
<1>3. UNCHANGED <<subs, chats, spurned, call, life, listeners>>
  BY DEF HostMoves
<1>4. Channels'
  BY <1>2, <1>3 DEF FoldInv, Channels, HostMoves, HeldOn
<1>5. Asked'
  BY <1>2, <1>3 DEF FoldInv, Asked
<1>6. \A s \in Sessions : Unborn(s)' => Unborn(s)
  BY <1>2, <1>3 DEF Unborn
<1>7. Born'
  <2>1. ASSUME NEW s \in Sessions, Unborn(s)'
        PROVE  /\ ~host'[s].live /\ ~host'[s].sends /\ <<"chat", s>> \notin subs'
               /\ \A c \in Callers : Target[c] = s =>
                    call'[c].at = "idle" \/ (c = s /\ CreateFrame(s) \in Frames(up'))
    <3>1. /\ ~host[s].live /\ ~host[s].sends /\ <<"chat", s>> \notin subs
          /\ \A c \in Callers : Target[c] = s =>
               call[c].at = "idle" \/ (c = s /\ CreateFrame(s) \in Frames(up))
      BY <1>6, <2>1 DEF FoldInv, Born
    <3>2. ~host'[s].live /\ ~host'[s].sends
      BY <2>1, <3>1 DEF HostMoves, HeldOn
    <3>3. ASSUME NEW c \in Callers, Target[c] = s, call[c].at # "idle"
          PROVE  c = s /\ CreateFrame(s) \in Frames(up')
      <4>1. c = s /\ CreateFrame(s) \in Frames(up)
        BY <3>1, <3>3
      <4>2. CreateFrame(s) \in UpFrames /\ CreateFrame(s).k = "create" /\ CreateFrame(s).c = s
        BY <4>1, FramesIn DEF CreateFrame, FoldInv, Channels
      <4>3. s \in Requests
        BY <4>2 DEF UpFrames
      <4>4. call[s].waits = "answer"
        BY <3>3, <4>1, CreateAsks DEF FoldInv, Asked
      <4>5. life[s] = "setup"
        BY <4>3, <4>4 DEF IInv, Waiting
      <4>6. QED
        BY <1>3, <2>1, <4>1, <4>3, <4>5 DEF Unborn
    <3>4. QED
      BY <1>3, <3>1, <3>2, <3>3
  <2>2. QED
    BY <2>1 DEF Born
<1>8. HostOK'
  BY DEF HostMoves, HeldOn
<1>9. GoneOK'
  <2>1. \A f \in Frames(up') : f.k \in {"dispose", "unsub"} => f.s \in Requests /\ life'[f.s] = "ended"
    BY <1>2, <1>3 DEF FoldInv, GoneOK
  <2>2. ASSUME NEW s \in Requests, life[s] = "ended", ~host[s].live
        PROVE  ~host'[s].live
    BY <2>2, Requested DEF HostMoves, HeldOn
  <2>3. \A f \in Frames(up') : f.k = "unsub" => ~host'[f.s].live
    BY <1>2, <2>2 DEF FoldInv, GoneOK
  <2>4. \A f \in Frames(wire') : f.k = "disposed" =>
          f.s \in Requests /\ life'[f.s] = "ended" /\ ~host'[f.s].live
    BY <1>1, <1>2, <1>3, <2>2 DEF FoldInv, GoneOK, Answers
  <2>5. QED
    BY <2>1, <2>3, <2>4 DEF GoneOK
<1>10. Subscribed'
  <2>1. ASSUME NEW s \in Sessions, <<"chat", s>> \in subs', host'[s].live, ~host'[s].sends
        PROVE  \E c \in Callers : Target[c] = s /\ call'[c].at = "chat" /\ call'[c].waits = "answer"
    <3>1. ~host[s].sends
      BY <2>1 DEF HostMoves, HeldOn
    <3>2. <<"chat", s>> \in subs
      BY <1>3, <2>1
    <3>3. host[s].live
      <4>1. Unborn(s) => <<"chat", s>> \notin subs
        BY DEF FoldInv, Born
      <4>2. QED
        BY <2>1, <3>2, <4>1 DEF HostMoves, HeldOn
    <3>4. QED
      BY <1>3, <3>1, <3>2, <3>3 DEF FoldInv, Subscribed
  <2>2. ASSUME NEW f \in Frames(wire'), f.k = "answer", f.ok, call[f.c].at = "chat",
               host'[Target[f.c]].live
        PROVE  host'[Target[f.c]].sends
    <3> DEFINE s == Target[f.c]
    <3>1. CASE f \in Frames(out)
      BY <1>1, <2>2, <3>1 DEF Answers
    <3>2. CASE f \in Frames(wire)
      <4>1. f.c \in Callers
        <5>1. f \in WireFrames
          BY <3>2, FramesIn DEF FoldInv, Channels
        <5>2. QED
          BY <2>2, <5>1 DEF WireFrames
      <4>2. s \in Sessions
        BY <4>1, Sentinel
      <4>3. f.c \in Asking(wire)
        BY <2>2, <3>2, <4>1 DEF Asking, Names
      <4>4. ~Unborn(s)
        BY <2>2, <4>1, <4>2, <4>3, CreateAsks DEF FoldInv, Born, Asked
      <4>5. host[s].live
        BY <2>2, <4>2, <4>4 DEF HostMoves, HeldOn
      <4>6. host[s].sends
        BY <2>2, <3>2, <4>5 DEF FoldInv, Subscribed
      <4>7. QED
        BY <2>2, <4>2, <4>6 DEF HostMoves, HeldOn
    <3>3. QED
      BY <1>2, <2>2, <3>1, <3>2
  <2>3. QED
    BY <1>3, <2>1, <2>2 DEF Subscribed
<1>11. Converging'
  BY HostConverging
<1>12. QED
  BY <1>4, <1>5, <1>7, <1>8, <1>9, <1>10, <1>11 DEF FoldInv

-----------------------------------------------------------------------------
LEMMA HeldShape ==
    ASSUME NEW h \in Held
    PROVE  /\ h = [live |-> h.live, seeded |-> h.seeded, chat |-> h.chat,
                   coming |-> h.coming, sends |-> h.sends]
           /\ h.live \in BOOLEAN /\ h.seeded \in BOOLEAN /\ h.chat \in Chat \cup {NoChat}
           /\ h.coming \in BOOLEAN /\ h.sends \in BOOLEAN
BY DEF Held

\* The frame the host takes.
LEMMA HeadFrame ==
    ASSUME FoldInv, up # <<>>, up' = Tail(up)
    PROVE  /\ Head(up) \in UpFrames /\ Head(up) \in Frames(up) /\ Received
           /\ Names(Head(up)) => Head(up).c \in Callers /\ Head(up).c \in Asking(up)
                                   /\ Head(up).c \notin Asking(up')
<1>1. up \in Seq(UpFrames) /\ Once(up)
  BY DEF FoldInv, Channels, Asked
<1>2. PICK f : f = Head(up)
  OBVIOUS
<1>3. f \in UpFrames /\ f \in Frames(up) /\ (Names(f) => f.c \notin Asking(up'))
  BY <1>1, <1>2, FramesOfTail
<1>4. Names(f) => f.c \in Callers
  BY <1>3, Requested DEF UpFrames, Names
<1>5. Names(f) => f.c \in Asking(up)
  BY <1>3, <1>4 DEF Asking
<1>6. QED
  BY <1>2, <1>3, <1>4, <1>5 DEF Received

\* What the host sends, as a queue of at most one frame.
LEMMA Sends ==
    ASSUME FoldInv, NEW g \in WireFrames, wire' = Append(wire, g)
    PROVE  <<g>> \in Out /\ wire' = wire \o <<g>> /\ Frames(<<g>>) = {g}
<1>1. wire \in Seq(WireFrames)
  BY DEF FoldInv, Channels
<1>2. QED
  BY <1>1, AppendIsConcat, FramesOfOne DEF Out

LEMMA SendsNot ==
    ASSUME FoldInv, UNCHANGED wire
    PROVE  <<>> \in Out /\ wire' = wire \o <<>> /\ Answers(<<>>)
<1>1. wire \in Seq(WireFrames)
  BY DEF FoldInv, Channels
<1>2. wire' = wire \o <<>>
  BY <1>1, ConcatEmptySeq
<1>3. QED
  BY <1>2, FramesOfNone DEF Out, Answers

\* A host step that sends g, and one that sends nothing.
LEMMA HostSends ==
    ASSUME FoldInv, UNCHANGED <<subs, chats, spurned, call, life, listeners>>,
           Received, HeldOn, NEW g \in WireFrames, wire' = Append(wire, g),
           Names(g) => up # <<>> /\ up' = Tail(up) /\ Names(Head(up)) /\ Head(up).c = g.c,
           g.k = "answer" =>
             (g.ok /\ call[g.c].at = "chat" /\ host'[Target[g.c]].live => host'[Target[g.c]].sends),
           g.k = "disposed" => g.s \in Requests /\ life[g.s] = "ended" /\ ~host'[g.s].live,
           \A s \in Sessions : host'[s].live /\ host'[s].sends =>
                \/ \A y : After(call, s, y, g) = host'[s].chat
                \/ /\ host[s].live /\ host[s].sends
                   /\ \/ g.k = "act" /\ g.s = s /\ ~g.ok
                      \/ After(call, s, host[s].chat, g) = host'[s].chat
    PROVE  HostMoves
<1>1. PICK out : out = <<g>>
  OBVIOUS
<1>2. out \in Out /\ wire' = wire \o out /\ Frames(out) = {g}
  BY <1>1, Sends
<1>3. Answers(out)
  BY <1>2 DEF Answers
<1>4. Echoed(out)
  BY <1>1 DEF Echoed
<1>5. QED
  BY <1>2, <1>3, <1>4 DEF HostMoves

LEMMA HostSilent ==
    ASSUME FoldInv, UNCHANGED <<subs, chats, spurned, call, life, listeners, wire>>,
           Received, HeldOn,
           \A s \in Sessions : host'[s].live /\ host'[s].sends =>
             host[s].live /\ host[s].sends /\ host'[s].chat = host[s].chat
    PROVE  HostMoves
<1>1. PICK out : out = <<>>
  OBVIOUS
<1>2. out \in Out /\ wire' = wire \o out /\ Answers(out)
  BY <1>1, SendsNot
<1>3. Echoed(out)
  BY <1>1 DEF Echoed
<1>4. QED
  BY <1>2, <1>3 DEF HostMoves

\* What a step makes of one session the host holds.
LEMMA OneHeld ==
    ASSUME FoldInv, NEW s \in Sessions, NEW h \in Held,
           host' = [host EXCEPT ![s] = h],
           h.coming => h.live /\ h.chat = NoChat,
           ~h.live => h.chat = NoChat,
           h.live /\ h.sends => h.chat # NoChat,
           ~host[s].live /\ h.live => Unborn(s) /\ ~Unborn(s)' /\ s \in Requests /\ life[s] # "ended",
           ~host[s].sends /\ h.sends => host[s].live,
           host[s].sends /\ ~h.sends => ~h.live
    PROVE  /\ HeldOn /\ host'[s] = h
           /\ \A x \in Sessions \ {s} : host'[x] = host[x]
<1>1. host \in [Sessions -> Held]
  BY DEF FoldInv, Channels
<1>2. host' \in [Sessions -> Held] /\ host'[s] = h /\ \A x \in Sessions \ {s} : host'[x] = host[x]
  BY <1>1
<1>3. HostOK'
  BY <1>2 DEF HostOK, FoldInv
<1>4. QED
  BY <1>2, <1>3 DEF HeldOn

LEMMA CreateMoves ==
    ASSUME FoldInv, IInv, up # <<>>, up' = Tail(up), NEW f, f = Head(up), f.k = "create",
           NEW seeded \in BOOLEAN,
           host' = [host EXCEPT ![Target[f.c]].live = TRUE, ![Target[f.c]].seeded = seeded],
           wire' = Append(wire, AnswerFrame(f.c, TRUE, host'[Target[f.c]])),
           UNCHANGED <<subs, chats, spurned, call, life, listeners>>
    PROVE  HostMoves
<1>1. /\ f \in UpFrames /\ f \in Frames(up) /\ Received
      /\ Names(f) /\ f.c \in Callers /\ f.c \in Asking(up) /\ f.c \notin Asking(up')
  BY HeadFrame DEF Names
<1>2. f.c \in Requests /\ f = CreateFrame(f.c)
  BY <1>1 DEF UpFrames, CreateFrame
<1>3. PICK r \in Requests : r = f.c
  BY <1>2
<1>4. r \in Sessions /\ r \in Callers /\ Target[r] = r
  BY Requested
<1>5. life[r] = "setup" /\ call[r].at = "create" /\ CreateFrame(r) \in Frames(up)
  BY <1>1, <1>2, <1>3 DEF FoldInv, Asked, IInv, Waiting
<1>6. Unborn(r) /\ ~Unborn(r)'
  <2>1. CreateFrame(r) \notin Frames(up')
    BY <1>1, <1>3, <1>4, CreateAsks
  <2>2. QED
    BY <1>5, <2>1 DEF Unborn
<1>7. host[r] \in Held /\ ~host[r].live /\ ~host[r].sends /\ ~host[r].coming
  BY <1>4, <1>6 DEF FoldInv, Channels, Born, HostOK
<1>8. PICK h : h = [host[r] EXCEPT !.live = TRUE, !.seeded = seeded]
  OBVIOUS
<1>9. h \in Held /\ h.live /\ ~h.sends /\ ~h.coming
  BY <1>7, <1>8, HeldShape DEF Held
<1>10. host' = [host EXCEPT ![r] = h]
  BY <1>3, <1>4, <1>8 DEF FoldInv, Channels
<1>11. HeldOn /\ host'[r] = h /\ \A x \in Sessions \ {r} : host'[x] = host[x]
  BY <1>4, <1>5, <1>6, <1>7, <1>9, <1>10, OneHeld
<1>12. PICK g : g = AnswerFrame(r, TRUE, h)
  OBVIOUS
<1>13. g \in WireFrames /\ g.k = "answer" /\ g.c = r /\ Names(g)
  BY <1>4, <1>9, <1>12 DEF AnswerFrame, WireFrames, Names
<1>14. wire' = Append(wire, g)
  BY <1>3, <1>4, <1>11, <1>12
<1>15. ASSUME NEW s \in Sessions, host'[s].live, host'[s].sends
       PROVE  host[s].live /\ host[s].sends /\ After(call, s, host[s].chat, g) = host'[s].chat
  <2>1. s # r
    BY <1>9, <1>11, <1>15
  <2>2. QED
    BY <1>4, <1>11, <1>13, <1>15, <2>1 DEF After
<1>16. QED
  BY <1>1, <1>3, <1>4, <1>5, <1>11, <1>13, <1>14, <1>15, HostSends

LEMMA SubMoves ==
    ASSUME FoldInv, IInv, up # <<>>, up' = Tail(up), NEW f, f = Head(up), f.k = "sub",
           host' = IF f.kind = "chat" /\ Found(f.kind, Target[f.c])
                   THEN [host EXCEPT ![Target[f.c]].sends = TRUE] ELSE host,
           wire' = Append(wire, AnswerFrame(f.c, Found(f.kind, Target[f.c]), host[Target[f.c]])),
           UNCHANGED <<subs, chats, spurned, call, life, listeners>>
    PROVE  HostMoves
<1>1. /\ f \in UpFrames /\ f \in Frames(up) /\ Received
      /\ Names(f) /\ f.c \in Callers /\ f.c \in Asking(up) /\ f.c \notin Asking(up')
  BY HeadFrame DEF Names
<1>2. PICK s \in Sessions : s = Target[f.c]
  BY <1>1, Sentinel
<1>3. host \in [Sessions -> Held] /\ host[s] \in Held /\ call[f.c].at = f.kind
  BY <1>1 DEF FoldInv, Channels, Asked
<1>4. PICK found \in BOOLEAN : found = Found(f.kind, s)
  BY <1>3, HeldShape DEF Found
<1>5. PICK h : h = IF f.kind = "chat" /\ found THEN [host[s] EXCEPT !.sends = TRUE] ELSE host[s]
  OBVIOUS
<1>6. /\ h \in Held /\ h.live = host[s].live /\ h.chat = host[s].chat /\ h.coming = host[s].coming
      /\ h.sends = (host[s].sends \/ (f.kind = "chat" /\ found))
  BY <1>3, <1>5, HeldShape DEF Held
<1>7. f.kind = "chat" => (found <=> host[s].chat # NoChat)
  BY <1>4 DEF Found
<1>8. host' = [host EXCEPT ![s] = h]
  BY <1>2, <1>3, <1>4, <1>5
<1>9. host[s].chat # NoChat => host[s].live /\ ~host[s].coming
  BY DEF FoldInv, HostOK
<1>10. /\ h.coming => h.live /\ h.chat = NoChat
       /\ ~h.live => h.chat = NoChat
       /\ h.live /\ h.sends => h.chat # NoChat
       /\ ~host[s].sends /\ h.sends => host[s].live
       /\ ~(host[s].sends /\ ~h.sends) /\ ~(~host[s].live /\ h.live)
  BY <1>6, <1>7, <1>9 DEF FoldInv, HostOK
<1>11. HeldOn /\ host'[s] = h /\ \A x \in Sessions \ {s} : host'[x] = host[x]
  BY <1>6, <1>8, <1>10, OneHeld
<1>12. PICK g : g = AnswerFrame(f.c, found, host[s])
  OBVIOUS
<1>13. g \in WireFrames /\ g.k = "answer" /\ g.c = f.c /\ Names(g) /\ g.ok = found /\ g.state = host[s]
  BY <1>1, <1>3, <1>12 DEF AnswerFrame, WireFrames, Names
<1>14. wire' = Append(wire, g)
  BY <1>2, <1>4, <1>12
<1>15. g.ok /\ call[g.c].at = "chat" /\ host'[Target[g.c]].live => host'[Target[g.c]].sends
  BY <1>2, <1>3, <1>6, <1>11, <1>13
<1>16. ASSUME NEW x \in Sessions, host'[x].live, host'[x].sends
       PROVE  \/ \A y : After(call, x, y, g) = host'[x].chat
              \/ host[x].live /\ host[x].sends /\ After(call, x, host[x].chat, g) = host'[x].chat
  <2>1. CASE x # s
    BY <1>2, <1>11, <1>13, <1>16, <2>1 DEF After
  <2>2. CASE x = s /\ f.kind = "chat" /\ found
    BY <1>2, <1>3, <1>6, <1>11, <1>13, <2>2 DEF After
  <2>3. CASE x = s /\ ~(f.kind = "chat" /\ found)
    <3>1. host[s].live /\ host[s].sends /\ host'[s].chat = host[s].chat
      BY <1>6, <1>11, <1>16, <2>3
    <3>2. After(call, x, host[x].chat, g) = host[s].chat
      BY <1>3, <1>13, <2>3 DEF After
    <3>3. QED
      BY <2>3, <3>1, <3>2
  <2>4. QED
    BY <2>1, <2>2, <2>3
<1>17. QED
  BY <1>1, <1>11, <1>13, <1>14, <1>15, <1>16, HostSends

-----------------------------------------------------------------------------
\* The host works on an action on a chat it holds, and echoes it if it sends.
LEMMA ChatMoves ==
    ASSUME FoldInv, IInv, Received, NEW s \in Sessions, NEW a \in Actions, NEW ok \in BOOLEAN,
           NEW h \in Held,
           host' = [host EXCEPT ![s] = h],
           h.live = host[s].live, h.sends = host[s].sends,
           h.coming => h.live /\ h.chat = NoChat, ~h.live => h.chat = NoChat,
           ok => host[s].chat # NoChat /\ h.chat = Reduce(host[s].chat, a),
           ~ok => h.chat = host[s].chat,
           host[s].sends => wire' = Append(wire, Envelope(s, a, ok)),
           ~host[s].sends => UNCHANGED wire,
           UNCHANGED <<subs, chats, spurned, call, life, listeners>>
    PROVE  HostMoves
<1>1. host[s] \in Held
  BY DEF FoldInv, Channels
<1>2. host[s].chat # NoChat => h.chat # NoChat
  <2>1. host[s].chat # NoChat => Reduce(host[s].chat, a) \in Chat
    BY <1>1, HeldShape, ReduceType
  <2>2. QED
    BY <2>1, Sentinel
<1>3. h.live /\ h.sends => h.chat # NoChat
  BY <1>2 DEF FoldInv, HostOK
<1>4. HeldOn /\ host'[s] = h /\ \A x \in Sessions \ {s} : host'[x] = host[x]
  BY <1>3, OneHeld
<1>5. CASE host[s].sends
  <2>1. PICK g : g = Envelope(s, a, ok)
    OBVIOUS
  <2>2. g \in WireFrames /\ g.k = "act" /\ g.s = s /\ g.act = a /\ g.ok = ok
    BY <2>1 DEF Envelope, WireFrames
  <2>3. wire' = Append(wire, g)
    BY <1>5, <2>1
  <2>4. ASSUME NEW x \in Sessions, host'[x].live, host'[x].sends
        PROVE  /\ host[x].live /\ host[x].sends
               /\ \/ g.k = "act" /\ g.s = x /\ ~g.ok
                  \/ After(call, x, host[x].chat, g) = host'[x].chat
    <3>1. host[x].live /\ host[x].sends
      BY <1>4, <2>4
    <3>2. CASE x # s
      BY <1>4, <2>2, <3>1, <3>2 DEF After
    <3>3. CASE x = s /\ ok
      BY <1>4, <2>2, <3>1, <3>3 DEF After
    <3>4. CASE x = s /\ ~ok
      BY <2>2, <3>1, <3>4
    <3>5. QED
      BY <3>2, <3>3, <3>4
  <2>5. QED
    BY <1>4, <2>2, <2>3, <2>4, HostSends DEF Names
<1>6. CASE ~host[s].sends
  <2>1. ASSUME NEW x \in Sessions, host'[x].live, host'[x].sends
        PROVE  host[x].live /\ host[x].sends /\ host'[x].chat = host[x].chat
    BY <1>4, <1>6, <2>1
  <2>2. QED
    BY <1>4, <1>6, <2>1, HostSilent
<1>7. QED
  BY <1>1, <1>5, <1>6, HeldShape

\* What the host makes of an action it takes, or refuses.
ActsOn(s, a, ok) ==
    /\ host' = [host EXCEPT
                 ![s].coming = @ \/ (host[s].live /\ host[s].chat = NoChat),
                 ![s].chat = IF ok THEN Reduce(@, a) ELSE @]
    /\ wire' = IF host[s].sends THEN Append(wire, Envelope(s, a, ok)) ELSE wire

LEMMA ActMoves ==
    ASSUME FoldInv, IInv, Received, NEW s \in Sessions, NEW a \in Actions, NEW ok \in BOOLEAN,
           ok => host[s].chat # NoChat, ActsOn(s, a, ok),
           UNCHANGED <<subs, chats, spurned, call, life, listeners>>
    PROVE  HostMoves
<1>1. host \in [Sessions -> Held] /\ host[s] \in Held
  BY DEF FoldInv, Channels
<1>2. PICK coming \in BOOLEAN : coming = (host[s].coming \/ (host[s].live /\ host[s].chat = NoChat))
  BY <1>1, HeldShape
<1>3. PICK chat : chat = IF ok THEN Reduce(host[s].chat, a) ELSE host[s].chat
  OBVIOUS
<1>4. chat \in Chat \cup {NoChat}
  BY <1>1, <1>3, HeldShape, ReduceType
<1>5. PICK h : h = [host[s] EXCEPT !.coming = coming, !.chat = chat]
  OBVIOUS
<1>6. /\ h \in Held /\ h.live = host[s].live /\ h.sends = host[s].sends
      /\ h.chat = chat /\ h.coming = coming
  BY <1>1, <1>4, <1>5, HeldShape DEF Held
<1>7. host' = [host EXCEPT ![s] = h]
  <2>1. host' = [host EXCEPT ![s].coming = coming, ![s].chat = chat]
    BY <1>1, <1>2, <1>3 DEF ActsOn
  <2>2. QED
    BY <1>1, <1>5, <2>1
<1>8. /\ coming => host[s].live /\ host[s].chat = NoChat
      /\ ~host[s].live => host[s].chat = NoChat
  BY <1>2 DEF FoldInv, HostOK
<1>9. (h.coming => h.live /\ h.chat = NoChat) /\ (~h.live => h.chat = NoChat)
  BY <1>3, <1>6, <1>8
<1>10. /\ ok => host[s].chat # NoChat /\ h.chat = Reduce(host[s].chat, a)
       /\ ~ok => h.chat = host[s].chat
  BY <1>3, <1>6
<1>11. /\ host[s].sends => wire' = Append(wire, Envelope(s, a, ok))
       /\ ~host[s].sends => UNCHANGED wire
  BY DEF ActsOn
<1>12. QED
  BY <1>6, <1>7, <1>9, <1>10, <1>11, ChatMoves

LEMMA DisposeMoves ==
    ASSUME FoldInv, IInv, up # <<>>, up' = Tail(up), NEW f, f = Head(up), f.k = "dispose",
           host' = [host EXCEPT ![f.s] = [@ EXCEPT !.live = FALSE, !.coming = FALSE, !.chat = NoChat]],
           wire' = Append(wire, DisposedFrame(f.s)),
           UNCHANGED <<subs, chats, spurned, call, life, listeners>>
    PROVE  HostMoves
<1>1. f \in Frames(up) /\ Received
  BY HeadFrame
<1>2. PICK s \in Sessions : s = f.s /\ s \in Requests /\ life[s] = "ended"
  BY <1>1, Requested DEF FoldInv, GoneOK
<1>3. host \in [Sessions -> Held] /\ host[s] \in Held
  BY DEF FoldInv, Channels
<1>4. PICK h : h = [host[s] EXCEPT !.live = FALSE, !.coming = FALSE, !.chat = NoChat]
  OBVIOUS
<1>5. h \in Held /\ ~h.live /\ ~h.coming /\ h.chat = NoChat /\ h.sends = host[s].sends
  BY <1>3, <1>4, HeldShape DEF Held
<1>6. host' = [host EXCEPT ![s] = h]
  BY <1>2, <1>4
<1>7. HeldOn /\ host'[s] = h /\ \A x \in Sessions \ {s} : host'[x] = host[x]
  BY <1>5, <1>6, OneHeld
<1>8. PICK g : g = DisposedFrame(s)
  OBVIOUS
<1>9. g \in WireFrames /\ g.k = "disposed" /\ g.s = s
  BY <1>8 DEF DisposedFrame, WireFrames
<1>10. wire' = Append(wire, g)
  BY <1>2, <1>8
<1>11. ASSUME NEW x \in Sessions, host'[x].live, host'[x].sends
       PROVE  host[x].live /\ host[x].sends /\ After(call, x, host[x].chat, g) = host'[x].chat
  <2>1. x # s
    BY <1>5, <1>7, <1>11
  <2>2. QED
    BY <1>7, <1>9, <1>11, <2>1 DEF After
<1>12. QED
  BY <1>1, <1>2, <1>5, <1>7, <1>9, <1>10, <1>11, HostSends DEF Names

LEMMA UnsubMoves ==
    ASSUME FoldInv, IInv, up # <<>>, up' = Tail(up), NEW f, f = Head(up), f.k = "unsub",
           host' = [host EXCEPT ![f.s].sends = FALSE],
           UNCHANGED <<subs, chats, spurned, call, life, listeners, wire>>
    PROVE  HostMoves
<1>1. f \in Frames(up) /\ Received
  BY HeadFrame
<1>2. PICK s \in Sessions : s = f.s /\ ~host[s].live
  BY <1>1, Requested DEF FoldInv, GoneOK
<1>3. host \in [Sessions -> Held] /\ host[s] \in Held
  BY DEF FoldInv, Channels
<1>4. PICK h : h = [host[s] EXCEPT !.sends = FALSE]
  OBVIOUS
<1>5. /\ h \in Held /\ ~h.live /\ ~h.sends
      /\ h.coming = host[s].coming /\ h.chat = host[s].chat
  BY <1>2, <1>3, <1>4, HeldShape DEF Held
<1>6. host' = [host EXCEPT ![s] = h]
  BY <1>2, <1>3, <1>4
<1>7. ~host[s].coming /\ host[s].chat = NoChat
  BY <1>2 DEF FoldInv, HostOK
<1>8. HeldOn /\ host'[s] = h /\ \A x \in Sessions \ {s} : host'[x] = host[x]
  BY <1>5, <1>6, <1>7, OneHeld
<1>9. ASSUME NEW x \in Sessions, host'[x].live, host'[x].sends
      PROVE  host[x].live /\ host[x].sends /\ host'[x].chat = host[x].chat
  BY <1>5, <1>8, <1>9
<1>10. QED
  BY <1>1, <1>8, <1>9, HostSilent

LEMMA HostTakesMoves ==
    ASSUME FoldInv, IInv, HostTakes, UNCHANGED <<life, listeners>>
    PROVE  HostMoves
<1>1. PICK f : f = Head(up)
  OBVIOUS
<1>2. up # <<>> /\ up' = Tail(up) /\ UNCHANGED <<subs, mirror, chats, spurned, call>>
  BY DEF HostTakes
<1>3. f \in UpFrames
  BY <1>1, <1>2, HeadFrame
<1>4. f.k \in {"create", "sub", "act", "dispose", "unsub"}
  BY <1>3 DEF UpFrames
<1>5. CASE f.k = "create"
  <2>1. \E seeded \in BOOLEAN :
          /\ host' = [host EXCEPT ![Target[f.c]].live = TRUE, ![Target[f.c]].seeded = seeded]
          /\ wire' = Append(wire, AnswerFrame(f.c, TRUE, host'[Target[f.c]]))
    BY <1>1, <1>5 DEF HostTakes
  <2>2. QED
    BY <1>1, <1>2, <1>5, <2>1, CreateMoves
<1>6. CASE f.k = "sub"
  <2>1. /\ host' = IF f.kind = "chat" /\ Found(f.kind, Target[f.c])
                   THEN [host EXCEPT ![Target[f.c]].sends = TRUE] ELSE host
        /\ wire' = Append(wire, AnswerFrame(f.c, Found(f.kind, Target[f.c]), host[Target[f.c]]))
    BY <1>1, <1>6 DEF HostTakes
  <2>2. QED
    BY <1>1, <1>2, <1>6, <2>1, SubMoves
<1>7. CASE f.k = "act"
  <2>1. PICK ok \in BOOLEAN : ok = (host[f.s].chat # NoChat /\ Takes(host[f.s].chat, f.act))
    OBVIOUS
  <2>2. ActsOn(f.s, f.act, ok)
    BY <1>1, <1>7, <2>1 DEF HostTakes, ActsOn
  <2>3. f.s \in Sessions /\ f.act \in Actions
    BY <1>3, <1>7 DEF UpFrames
  <2>4. Received
    BY <1>2 DEF Received
  <2>5. QED
    BY <1>2, <2>1, <2>2, <2>3, <2>4, ActMoves
<1>8. CASE f.k = "dispose"
  <2>1. /\ host' = [host EXCEPT ![f.s] = [@ EXCEPT !.live = FALSE, !.coming = FALSE, !.chat = NoChat]]
        /\ wire' = Append(wire, DisposedFrame(f.s))
    BY <1>1, <1>8 DEF HostTakes
  <2>2. QED
    BY <1>1, <1>2, <1>8, <2>1, DisposeMoves
<1>9. CASE f.k = "unsub"
  <2>1. host' = [host EXCEPT ![f.s].sends = FALSE] /\ UNCHANGED wire
    BY <1>1, <1>9 DEF HostTakes
  <2>2. QED
    BY <1>1, <1>2, <1>9, <2>1, UnsubMoves
<1>10. QED
  BY <1>4, <1>5, <1>6, <1>7, <1>8, <1>9

LEMMA MaterialiseMoves ==
    ASSUME FoldInv, IInv, NEW s \in Sessions, Materialise(s), UNCHANGED <<life, listeners>>
    PROVE  HostMoves
<1>1. /\ host \in [Sessions -> Held] /\ host[s] \in Held /\ host[s].coming
      /\ host[s].live /\ host[s].chat = NoChat
  BY DEF FoldInv, Channels, HostOK, Materialise
<1>2. ~host[s].sends
  BY <1>1 DEF FoldInv, HostOK
<1>3. PICK h : h = [host[s] EXCEPT !.coming = FALSE, !.chat = EmptyChat]
  OBVIOUS
<1>4. h \in Held /\ h.live /\ ~h.coming /\ ~h.sends
  BY <1>1, <1>2, <1>3, HeldShape, EmptyChatType DEF Held
<1>5. host' = [host EXCEPT ![s] = h]
  BY <1>1, <1>3 DEF Materialise
<1>6. HeldOn /\ host'[s] = h /\ \A x \in Sessions \ {s} : host'[x] = host[x]
  BY <1>1, <1>2, <1>4, <1>5, OneHeld
<1>7. ASSUME NEW x \in Sessions, host'[x].live, host'[x].sends
      PROVE  host[x].live /\ host[x].sends /\ host'[x].chat = host[x].chat
  BY <1>4, <1>6, <1>7
<1>8. QED
  BY <1>6, <1>7, HostSilent DEF Materialise, Received

LEMMA WorkMoves ==
    ASSUME FoldInv, IInv, NEW s \in Sessions, NEW type \in {"text", "ask", "end", "fail"},
           HostWorks(s, type), UNCHANGED <<life, listeners>>
    PROVE  HostMoves
<1>1. /\ host \in [Sessions -> Held] /\ host[s] \in Held /\ host[s].chat # NoChat
      /\ UNCHANGED <<subs, mirror, chats, spurned, call, up>>
  BY DEF FoldInv, Channels, HostWorks
<1>2. host[s].chat \in Chat /\ host[s].live /\ ~host[s].coming
  BY <1>1, HeldShape DEF FoldInv, HostOK
<1>3. PICK a : a = Act(type, host[s].chat.active)
  OBVIOUS
<1>4. a \in Actions
  <2>1. host[s].chat.active \in Turns \cup {NoTurn}
    BY <1>2 DEF Chat
  <2>2. QED
    BY <1>3, <2>1 DEF Act, Actions
<1>5. PICK chat : chat = Reduce(host[s].chat, a)
  OBVIOUS
<1>6. chat \in Chat
  BY <1>2, <1>4, <1>5, ReduceType
<1>7. PICK h : h = [host[s] EXCEPT !.chat = chat]
  OBVIOUS
<1>8. /\ h \in Held /\ h.live = host[s].live /\ h.sends = host[s].sends
      /\ h.coming = host[s].coming /\ h.chat = chat
  BY <1>1, <1>6, <1>7, HeldShape DEF Held
<1>9. host' = [host EXCEPT ![s] = h]
  BY <1>1, <1>3, <1>5, <1>7 DEF HostWorks
<1>10. /\ host[s].sends => wire' = Append(wire, Envelope(s, a, TRUE))
       /\ ~host[s].sends => UNCHANGED wire
  BY <1>3 DEF HostWorks
<1>11. Received
  BY <1>1 DEF Received
<1>12. QED
  BY <1>1, <1>2, <1>4, <1>5, <1>8, <1>9, <1>10, <1>11, ChatMoves

-----------------------------------------------------------------------------
LEMMA InitFold == Init => FoldInv
<1> SUFFICES ASSUME Init PROVE FoldInv
  OBVIOUS
<1>1. /\ subs = {} /\ spurned = {} /\ up = <<>> /\ wire = <<>> /\ listeners = <<>>
      /\ chats = [s \in Sessions |-> NoChat]
      /\ call = [c \in Callers |-> [at |-> "idle", waits |-> "none", tries |-> 0]]
      /\ host = [s \in Sessions |-> [live |-> FALSE, seeded |-> FALSE,
                                     chat |-> NoChat, coming |-> FALSE, sends |-> FALSE]]
  BY DEF Init, ClientInit
<1>2. Frames(<<>>) = {} /\ Asking(<<>>) = {} /\ Once(<<>>)
  BY FramesOfNone
<1>3. Channels
  BY <1>1, EmptySeq DEF Channels, Held, Ats
<1>4. Asked
  BY <1>1, <1>2 DEF Asked
<1>5. Born /\ HostOK
  BY <1>1 DEF Born, HostOK
<1>6. GoneOK /\ Subscribed
  BY <1>1, <1>2 DEF GoneOK, Subscribed
<1>7. Converging
  <2>1. \A s \in Sessions : Leads(call, s, chats[s], wire, chats[s])
    BY <1>1, LeadsNowhere
  <2>2. \A s \in Sessions : ~host[s].live
    BY <1>1
  <2>3. QED
    BY <2>1, <2>2 DEF Converging
<1>8. QED
  BY <1>3, <1>4, <1>5, <1>6, <1>7 DEF FoldInv

\* One case per action: a move of the client or one of the host.
LEMMA FoldStep ==
    ASSUME FoldInv, IInv, Next
    PROVE  FoldInv'
<1>1. CASE \E r \in Requests : Begin(r)
  BY <1>1, BeginMoves, ClientMovesStep
<1>2. CASE \E r \in Requests : Cancel(r)
  <2>1. UNCHANGED <<clientVars, life, listeners>>
    BY <1>2 DEF Cancel
  <2>2. QED
    BY <2>1, TimersOnly, ClientMovesStep
<1>3. CASE \E r \in Requests : CancelSeen(r)
  <2>1. PICK r \in Requests : CancelSeen(r)
    BY <1>3
  <2>2. PICK fs : fs = <<ActFrame(r, Act("end", NoTurn))>>
    OBVIOUS
  <2>3. fs \in Seq(UpFrames) /\ \A f \in Frames(fs) : f.k = "act"
    BY <2>2, ActFrames, Requested
  <2>4. End(r, fs)
    BY <2>1, <2>2 DEF CancelSeen
  <2>5. QED
    BY <2>3, <2>4, EndMoves, ClientMovesStep
<1>4. CASE \E r \in Requests : QuietDue(r) \/ HardDue(r)
  <2>1. PICK r \in Requests : End(r, <<>>)
    BY <1>4 DEF QuietDue, HardDue
  <2>2. <<>> \in Seq(UpFrames) /\ Frames(<<>>) = {}
    BY EmptySeq, FramesOfNone
  <2>3. QED
    BY <2>1, <2>2, EndMoves, ClientMovesStep
<1>5. CASE \E v \in Views : View(v)
  BY <1>5, ViewMoves, ClientMovesStep
<1>6. CASE \E c \in Callers : Retry(c)
  BY <1>6, RetryMoves, ClientMovesStep
<1>7. CASE \E s \in Sessions : Materialise(s) /\ UNCHANGED turnVars
  BY <1>7, MaterialiseMoves, HostMovesStep DEF turnVars
<1>8. CASE \E s \in Sessions, type \in {"text", "ask", "end", "fail"} : Work(s, type)
  BY <1>8, WorkMoves, HostMovesStep DEF Work, turnVars
<1>9. CASE HostStep
  BY <1>9, HostTakesMoves, HostMovesStep DEF HostStep, turnVars
<1>10. CASE ClientTakes
  BY <1>10, ClientTakesMoves, ClientMovesStep
<1>11. CASE OtherFold
  <2>1. /\ Notified(chats) /\ Taken /\ UNCHANGED <<call, host, subs>>
        /\ chats \in [Sessions -> Chat \cup {NoChat}]
    BY <1>11 DEF OtherFold, Taken, FoldInv, Channels
  <2>2. QED
    BY <2>1, NotifiedMoves, ClientMovesStep
<1>12. CASE Tick
  <2>1. UNCHANGED <<clientVars, life, listeners>>
    BY <1>12 DEF Tick
  <2>2. QED
    BY <2>1, TimersOnly, ClientMovesStep
<1>13. QED
  BY <1>1, <1>2, <1>3, <1>4, <1>5, <1>6, <1>7, <1>8, <1>9, <1>10, <1>11, <1>12 DEF Next

\* With nothing on the way for a session, where the frames lead is where the
\* fold is.
LEMMA FoldFollows == FoldInv => FoldConverges
<1> SUFFICES ASSUME FoldInv, NEW s \in Sessions,
                    <<"chat", s>> \in subs, host[s].live, s \notin spurned, ~InFlight(s)
             PROVE  chats[s] = host[s].chat
  BY DEF FoldConverges
<1>1. wire \in Seq(WireFrames)
  BY DEF FoldInv, Channels
<1>2. \A c \in Callers : Target[c] = s => call[c].at # "chat"
  BY DEF InFlight
<1>3. host[s].sends
  BY <1>2 DEF FoldInv, Subscribed
<1>4. \A f \in Frames(wire) : ~(f.k = "act" /\ f.s = s)
  BY DEF InFlight, Frames
<1>5. ASSUME NEW f \in Frames(wire), f.k = "answer", Target[f.c] = s
      PROVE  call[f.c].at # "chat"
  <2>1. f \in WireFrames
    BY <1>1, FramesIn
  <2>2. f.c \in Callers
    BY <1>5, <2>1 DEF WireFrames
  <2>3. QED
    BY <1>2, <1>5, <2>2
<1>6. Leads(call, s, chats[s], wire, host[s].chat)
  BY <1>3, <1>4 DEF FoldInv, Converging, Refused
<1>7. QED
  BY <1>1, <1>4, <1>5, <1>6, LeadsNot

\* One fold, two ends: with nothing on the way, a subscribed chat is folded to
\* what the host holds, whatever was retried, created late or disposed of, for
\* every number of requests, views and sessions.
THEOREM FoldConvergesCorrect == Spec => []FoldConverges
<1>1. IInv /\ FoldInv /\ [Next]_vars => FoldInv'
  <2>1. CASE Next
    BY <2>1, FoldStep
  <2>2. CASE UNCHANGED vars
    <3>1. UNCHANGED <<clientVars, life, listeners>>
      BY <2>2 DEF vars, turnVars
    <3>2. QED
      BY <3>1, TimersOnly, ClientMovesStep
  <2>3. QED
    BY <2>1, <2>2
<1>2. Spec => []FoldInv
  BY InitFold, IInvCorrect, <1>1, PTL DEF Spec
<1>3. QED
  BY <1>2, FoldFollows, PTL
=============================================================================

--------------------------- MODULE ParticipantTurn ---------------------------
(***************************************************************************)
(* The @manox chat participant (src/src/participant.ts): one request makes *)
(* a session, views it, submits a turn, and ends when the folded chat, a   *)
(* timer or the user says so; then the session is disposed of. It runs on  *)
(* the same client as the sidebar, which may view the session meanwhile.   *)
(* Time passes in ticks, and not while a timer is due.                     *)
(***************************************************************************)
EXTENDS ClientChat, Entries

CONSTANTS Requests,     \* @manox requests; each is also its session and turn
          Off,          \* a timer that is not armed
          Quiet, Hard,  \* the two timeouts, in ticks (the code: 45 s, 10 min)
          MaxFrames     \* bound: with as many frames on the way nothing new starts

ASSUME ParticipantAssumption ==
    /\ Requests \subseteq Callers /\ Requests \subseteq Sessions
    /\ Requests \subseteq Turns /\ NoTurn \notin Turns
    /\ \A r \in Requests : Target[r] = r
    /\ Quiet \in Nat \ {0} /\ Hard \in Nat \ {0} /\ Off \notin Nat

VARIABLES life,       \* request -> "none", "setup", "running", "ended"
          listeners,  \* the changeSubs of the client, in order
          quiet, hard,\* request -> ticks left of its timers, or Off
          token,      \* request -> its cancellation: "open", "cancelled", "seen"
          still, age  \* history: ticks since the last fold, since the submit

turnVars == <<life, listeners, quiet, hard, token, still, age>>
vars == <<clientVars, turnVars>>

Init ==
    /\ ClientInit
    /\ life = [r \in Requests |-> "none"]
    /\ listeners = <<>>
    /\ quiet = [r \in Requests |-> Off] /\ hard = [r \in Requests |-> Off]
    /\ token = [r \in Requests |-> "open"]
    /\ still = [r \in Requests |-> 0] /\ age = [r \in Requests |-> 0]

Views == Callers \ Requests

Roomy == Len(up) + Len(wire) < MaxFrames
-----------------------------------------------------------------------------
(* Ends of a request.                                                      *)

\* The turn is over, or the chat reports an error.
TurnOver(c) == (c.active = NoTurn /\ c.over # {}) \/ c.failed

\* resolve(), and the handler's finally with it: the timers are cleared and
\* the sessions disposed of. The listeners stay.
Settled(gone) ==
    /\ life' = [r \in Requests |-> IF r \in gone THEN "ended" ELSE life[r]]
    /\ hard' = [r \in Requests |-> IF r \in gone THEN Off ELSE hard[r]]

\* Slip: the handler returns without disposing of its session.
DisposalsForgotten(gone) == <<>>

Disposals(gone) ==
    LET order == EntriesAt(listeners, {i \in DOMAIN listeners : listeners[i] \in gone})
    IN [i \in DOMAIN order |-> DisposeFrame(order[i])]

\* The listeners whose chat asks for a confirmation.
AskedIn(folds) == {i \in DOMAIN listeners : LET chat == folds[listeners[i]] IN
                                            chat # NoChat /\ chat.call = "pending"}

\* Slip: the pending calls are read from the fold before this one.
DenialsStale(folds) ==
    LET asked == EntriesAt(listeners, AskedIn(chats))
    IN [i \in DOMAIN asked |-> ActFrame(asked[i], Act("deny", chats[asked[i]].active))]

\* denyInteractiveRequests of every listener whose chat has a pending call.
Denials(folds) ==
    LET asked == EntriesAt(listeners, AskedIn(folds))
    IN [i \in DOMAIN asked |-> ActFrame(asked[i], Act("deny", folds[asked[i]].active))]

\* Slip: an armed timer is left to run.
RearmedOnce(heard, gone) ==
    quiet' = [r \in Requests |-> IF r \in gone THEN Off
                                 ELSE IF r \in heard /\ quiet[r] = Off THEN Quiet ELSE quiet[r]]

\* notifyActivity: every fold of the client re-arms a request's quiet timer,
\* whichever channel it was on and whether or not the request is over.
Rearmed(heard, gone) ==
    quiet' = [r \in Requests |-> IF r \in gone THEN Off
                                 ELSE IF r \in heard THEN Quiet ELSE quiet[r]]

\* changed(): the listeners run over the folds as they now are.
Notified(folds) ==
    LET heard == {r \in Requests : (\E i \in DOMAIN listeners : listeners[i] = r)
                                     /\ folds[r] # NoChat}
        gone == {r \in heard : life[r] = "running" /\ TurnOver(folds[r])}
    IN /\ Settled(gone)
       /\ Rearmed(heard, gone)
       /\ still' = [r \in Requests |-> IF r \in heard THEN 0 ELSE still[r]]
       /\ up' = up \o Denials(folds) \o Disposals(gone)
       /\ UNCHANGED <<listeners, token, age>>
-----------------------------------------------------------------------------
(* Setting up.                                                             *)

\* The handler starts: createSession of a fresh session.
Begin(r) ==
    /\ life[r] = "none"
    /\ life' = [life EXCEPT ![r] = "setup"]
    /\ call' = [call EXCEPT ![r] = [at |-> "create", waits |-> "answer", tries |-> 0]]
    /\ up' = Append(up, CreateFrame(r))
    /\ UNCHANGED <<subs, mirror, chats, spurned, wire, host,
                   listeners, quiet, hard, token, still, age>>

\* The sidebar views a session it has heard of.
View(v) ==
    /\ call[v].at = "idle"
    /\ host[Target[v]].live
    /\ LET s == Target[v]
           next == NextOpen(s, IF <<"session", s>> \in subs
                               THEN Ahead("session", s \in mirror) ELSE <<"session">>, subs)
       IN IF next = "done"
          THEN Rest(v, "done") /\ UNCHANGED <<subs, up>>
          ELSE Enter(v, next) /\ subs' = subs \cup {<<next, s>>}
    /\ UNCHANGED <<mirror, chats, spurned, wire, host, turnVars>>

\* Slip: done() arms the quiet timer only.
LaunchUnguarded(r) ==
    /\ Rest(r, "done")
    /\ life' = [life EXCEPT ![r] = "running"]
    /\ listeners' = Append(listeners, r)
    /\ quiet' = [quiet EXCEPT ![r] = Quiet]
    /\ up' = Append(up, ActFrame(r, Act("start", r)))
    /\ still' = [still EXCEPT ![r] = 0]
    /\ age' = [age EXCEPT ![r] = 0]
    /\ UNCHANGED <<hard, token>>

\* The listener, the cancellation hook, submit() and the timers of done().
Launch(r) ==
    /\ Rest(r, "done")
    /\ life' = [life EXCEPT ![r] = "running"]
    /\ listeners' = Append(listeners, r)
    /\ quiet' = [quiet EXCEPT ![r] = Quiet]
    /\ hard' = [hard EXCEPT ![r] = Hard]
    /\ up' = Append(up, ActFrame(r, Act("start", r)))
    /\ still' = [still EXCEPT ![r] = 0]
    /\ age' = [age EXCEPT ![r] = 0]
    /\ UNCHANGED token

\* A setup that throws answers with an error; the session is left alone.
SetupFails(r) == life' = [life EXCEPT ![r] = "ended"]

\* The call goes on with the channels of list. A request's view() is followed
\* by the check for a default chat and by a viewChat() of its own.
GoOn(c, list) ==
    LET s == Target[c]
        next == NextOpen(s, list \o IF c \in Requests /\ s \in mirror'
                                    THEN <<"chat", "plan">> ELSE <<>>, subs)
    IN \/ /\ next # "done"
          /\ Enter(c, next)
          /\ subs' = subs \cup {<<next, s>>}
          /\ UNCHANGED turnVars
       \/ /\ next = "done" /\ c \in Requests /\ s \in mirror'
          /\ Launch(c)
          /\ UNCHANGED subs
       \/ /\ next = "done" /\ c \in Requests /\ s \notin mirror'
          /\ SetupFails(c)
          /\ Rest(c, "failed")
          /\ UNCHANGED <<subs, up, listeners, quiet, hard, token, still, age>>
       \/ /\ next = "done" /\ c \in Views
          /\ Rest(c, "done")
          /\ UNCHANGED <<subs, up, turnVars>>

Answered(c, f) ==
    LET s == Target[c]
        at == call[c].at
    IN /\ call[c].waits = "answer"
       /\ IF f.ok
          THEN /\ Landed(at, s, f.state)
               /\ IF at = "create" /\ <<"session", s>> \notin subs
                  THEN GoOn(c, <<"session">>)
                  ELSE GoOn(c, Ahead(IF at = "create" THEN "session" ELSE at, s \in mirror'))
          ELSE /\ Miss(c)
               /\ IF c \in Requests /\ ~(call[c].tries < Retries) THEN SetupFails(c) ELSE UNCHANGED life
               /\ UNCHANGED <<mirror, chats, up, listeners, quiet, hard, token, still, age>>

Retry(c) ==
    /\ RetryDue(c)
    /\ UNCHANGED <<chats, mirror>>
    /\ IF <<call[c].at, Target[c]>> \in subs
       THEN GoOn(c, Ahead(call[c].at, Target[c] \in mirror))
       ELSE Resubscribe(c) /\ UNCHANGED turnVars
    /\ UNCHANGED <<spurned, wire, host>>

\* The client takes the next frame.
ClientTakes ==
    /\ wire # <<>>
    /\ wire' = Tail(wire)
    /\ LET f == Head(wire) IN
       \/ /\ f.k = "answer"
          /\ \E c \in Callers : c = f.c /\ Answered(c, f)
          /\ UNCHANGED spurned
       \/ /\ f.k = "act"
          /\ chats' = Folded(f.s, f.act)
          /\ spurned' = IF f.ok THEN spurned ELSE spurned \cup {f.s}
          /\ Notified(chats')
          /\ UNCHANGED <<subs, mirror, call>>
       \/ /\ f.k = "disposed"
          /\ Unview(f.s)
          /\ UNCHANGED <<mirror, chats, spurned, call, turnVars>>
    /\ UNCHANGED host
-----------------------------------------------------------------------------
(* While it runs.                                                          *)

\* An envelope of a channel that is none of these: a sidebar conversation.
OtherFold ==
    /\ Roomy
    /\ Notified(chats)
    /\ UNCHANGED <<subs, mirror, chats, spurned, call, wire, host>>

Work(s, type) == Roomy /\ HostWorks(s, type) /\ UNCHANGED turnVars

\* The user stops the request; the hook runs once it is registered.
Cancel(r) ==
    /\ life[r] \in {"setup", "running"} /\ token[r] = "open"
    /\ token' = [token EXCEPT ![r] = "cancelled"]
    /\ UNCHANGED <<clientVars, life, listeners, quiet, hard, still, age>>

\* resolve() outside a fold.
End(r, frames) ==
    LET gone == {x \in {r} : life[x] = "running"}
    IN /\ Settled(gone)
       /\ quiet' = [quiet EXCEPT ![r] = Off]
       /\ up' = up \o frames \o Disposals(gone)
       /\ UNCHANGED <<subs, mirror, chats, spurned, call, wire, host, listeners, still, age>>

CancelSeen(r) ==
    /\ token[r] = "cancelled"
    /\ \E i \in DOMAIN listeners : listeners[i] = r
    /\ token' = [token EXCEPT ![r] = "seen"]
    /\ End(r, <<ActFrame(r, Act("end", NoTurn))>>)

QuietDue(r) == quiet[r] = 0 /\ End(r, <<>>) /\ UNCHANGED token

HardDue(r) == hard[r] = 0 /\ End(r, <<>>) /\ UNCHANGED token

Armed == {<<r, quiet[r]>> : r \in Requests} \cup {<<r, hard[r]>> : r \in Requests}

Less(t) == IF t = Off THEN Off ELSE t - 1

Tick ==
    /\ \E a \in Armed : a[2] # Off
    /\ \A a \in Armed : a[2] # 0
    /\ quiet' = [r \in Requests |-> Less(quiet[r])]
    /\ hard' = [r \in Requests |-> Less(hard[r])]
    /\ still' = [r \in Requests |-> IF life[r] = "running" THEN still[r] + 1 ELSE 0]
    /\ age' = [r \in Requests |-> IF life[r] = "running" THEN age[r] + 1 ELSE 0]
    /\ UNCHANGED <<clientVars, life, listeners, token>>

HostStep == HostTakes /\ UNCHANGED turnVars

Next ==
    \/ \E r \in Requests : Begin(r) \/ Cancel(r) \/ CancelSeen(r) \/ QuietDue(r) \/ HardDue(r)
    \/ \E v \in Views : View(v)
    \/ \E c \in Callers : Retry(c)
    \/ \E s \in Sessions : Materialise(s) /\ UNCHANGED turnVars
    \/ \E s \in Sessions, type \in {"text", "ask", "end", "fail"} : Work(s, type)
    \/ HostStep \/ ClientTakes \/ OtherFold \/ Tick

Spec == Init /\ [][Next]_vars

\* Frames are delivered and answered, and timers go off.
FairSpec ==
    /\ Spec
    /\ WF_vars(HostStep) /\ WF_vars(ClientTakes) /\ WF_vars(Tick)
    /\ \A r \in Requests : WF_vars(QuietDue(r)) /\ WF_vars(HardDue(r))
    /\ \A c \in Callers : WF_vars(Retry(c))
-----------------------------------------------------------------------------
TypeOK ==
    /\ life \in [Requests -> {"none", "setup", "running", "ended"}]
    /\ listeners \in Seq(Requests)
    /\ quiet \in [Requests -> (0..Quiet) \cup {Off}]
    /\ hard \in [Requests -> (0..Hard) \cup {Off}]
    /\ token \in [Requests -> {"open", "cancelled", "seen"}]
    /\ subs \subseteq Kinds \X Sessions
    /\ mirror \subseteq Sessions /\ spurned \subseteq Sessions
    /\ chats \in [Sessions -> Chat \cup {NoChat}]
    /\ call \in [Callers -> [at: Kinds \cup {"idle", "create", "done", "failed"},
                             waits: {"none", "answer", "pause"}, tries: 0..Retries]]
    /\ still \in [Requests -> Nat] /\ age \in [Requests -> Nat]

\* participant.ts:8-9, "pending confirmations and input requests are answered
\* at once": a confirmation pending in the chat of a running request has a
\* denial on its way, or news that will settle it.
NoConfirmationWaits ==
    \A r \in Requests :
        life[r] = "running" /\ chats[r] # NoChat /\ chats[r].call = "pending" =>
            \/ \E i \in DOMAIN up : up[i].k = "act" /\ up[i].s = r /\ up[i].act.type = "deny"
            \/ \E i \in DOMAIN wire : wire[i].k = "act" /\ wire[i].s = r

\* However often other conversations re-arm the quiet timer, a stuck stream
\* does not pin the request past the hard timeout (participant.ts:19-20).
EndsInTime == \A r \in Requests : life[r] = "running" => age[r] <= Hard

\* A running request ends only because its chat says so, because the user
\* stopped it, or because a timeout really has passed.
EndsForCause ==
    [][\A r \in Requests : life[r] = "running" /\ life'[r] = "ended" =>
        \/ chats'[r] # NoChat /\ TurnOver(chats'[r])
        \/ token'[r] = "seen"
        \/ still[r] >= Quiet
        \/ age[r] >= Hard]_vars

\* Every request ends, its setup included: the retries of a channel that is
\* not found run out.
RequestEnds == \A r \in Requests : life[r] # "none" ~> life[r] = "ended"

\* The session of a submitted turn goes with it, whichever way it ended.
SessionGoesWithRequest == \A r \in Requests : life[r] = "running" ~> ~host[r].live
=============================================================================

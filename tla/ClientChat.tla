----------------------------- MODULE ClientChat -----------------------------
(***************************************************************************)
(* ManoxClient's on-demand channels (src/src/client/agentClient.ts): view()*)
(* walks the channels of a session, each subscribed once per client; the   *)
(* snapshot rides the answer; envelopes are folded as they come. One frame *)
(* and the microtasks it sets off, up to the next await, are one step.     *)
(*                                                                         *)
(* A session has one chat, and the channels x-manox-plan and -metrics (the *)
(* chat's) and -thread and -work (the session's) stand as "plan" and       *)
(* "thread": the code treats the two of each pair alike.                   *)
(***************************************************************************)
EXTENDS ChatFold, Sequences

CONSTANTS Sessions,
          Callers,      \* calls of view(): a request's own, or the sidebar's
          Target,       \* the session a call views
          Retries       \* retries of a NotFound (the code has 5)

ASSUME ClientAssumption ==
    Target \in [Callers -> Sessions] /\ Retries \in Nat /\ NoChat \notin Chat

VARIABLES subs,     \* the client's subscriptions: <<kind, session>>
          mirror,   \* sessions whose snapshot landed with a default chat
          chats,    \* session -> its chat as the client folds it
          spurned,  \* history: chats a refused action was echoed on
          call,     \* call -> where it stands
          up, wire, \* frames to the host and to the client
          host      \* session -> what the host holds of it

clientVars == <<subs, mirror, chats, spurned, call, up, wire, host>>

Kinds == {"session", "chat", "plan", "thread"}

CreateFrame(c) == [k |-> "create", c |-> c]
SubFrame(c, kind) == [k |-> "sub", c |-> c, kind |-> kind]
ActFrame(s, a) == [k |-> "act", s |-> s, act |-> a]
DisposeFrame(s) == [k |-> "dispose", s |-> s]
UnsubFrame(s) == [k |-> "unsub", s |-> s]

AnswerFrame(c, ok, state) == [k |-> "answer", c |-> c, ok |-> ok, state |-> state]
Envelope(s, a, ok) == [k |-> "act", s |-> s, act |-> a, ok |-> ok]
DisposedFrame(s) == [k |-> "disposed", s |-> s]

ClientInit ==
    /\ subs = {} /\ mirror = {} /\ spurned = {}
    /\ chats = [s \in Sessions |-> NoChat]
    /\ call = [c \in Callers |-> [at |-> "idle", waits |-> "none", tries |-> 0]]
    /\ up = <<>> /\ wire = <<>>
    /\ host = [s \in Sessions |-> [live |-> FALSE, seeded |-> FALSE,
                                   chat |-> NoChat, coming |-> FALSE, sends |-> FALSE]]
-----------------------------------------------------------------------------
(* The client.                                                             *)

\* The channels of view() and viewChat() still ahead after one is subscribed:
\* the chat's are walked only if the session's snapshot named one.
Ahead(kind, known) ==
    CASE kind = "session" -> (IF known THEN <<"chat", "plan">> ELSE <<>>) \o <<"thread">>
      [] kind = "chat" -> <<"plan", "thread">>
      [] kind = "plan" -> <<"thread">>
      [] OTHER -> <<>>

\* ensureSubscribed passes over a channel that is in the set, whether or not
\* its answer has come.
NextOpen(s, list, held) ==
    LET open == {i \in DOMAIN list : <<list[i], s>> \notin held}
    IN IF open = {} THEN "done" ELSE list[CHOOSE i \in open : \A j \in open : i <= j]

\* attach() and subscribe(); viewChat first materialises a chat it does not
\* hold with an empty draft.
Enter(c, kind) ==
    LET s == Target[c]
        draft == IF kind = "chat" THEN <<ActFrame(s, Act("draft", NoTurn))>> ELSE <<>>
    IN /\ call' = [call EXCEPT ![c] = [at |-> kind, waits |-> "answer", tries |-> 0]]
       /\ up' = up \o draft \o <<SubFrame(c, kind)>>

Rest(c, at) == call' = [call EXCEPT ![c] = [at |-> at, waits |-> "none", tries |-> 0]]

\* Slip: the chat's snapshot is not applied.
LandedSessionOnly(kind, s, state) ==
    /\ mirror' = IF kind = "session" /\ state.seeded THEN mirror \cup {s} ELSE mirror
    /\ UNCHANGED chats

\* applySnapshot: the session's into the mirror, the chat's in place of what
\* was folded; an extension channel answers none.
Landed(kind, s, state) ==
    /\ mirror' = IF kind = "session" /\ state.seeded THEN mirror \cup {s} ELSE mirror
    /\ chats' = IF kind = "chat" THEN [chats EXCEPT ![s] = state.chat] ELSE chats

\* applyEnvelope on a chat's channel: the reducer runs whether or not the host
\* refused the action, on an empty chat if none is folded.
Folded(s, a) ==
    [chats EXCEPT ![s] = Reduce(IF @ = NoChat THEN EmptyChat ELSE @, a)]

\* A NotFound: give the channel back, and pause for a retry or give up.
Miss(c) ==
    /\ subs' = subs \ {<<call[c].at, Target[c]>>}
    /\ IF call[c].tries < Retries
       THEN call' = [call EXCEPT ![c].waits = "pause"]
       ELSE Rest(c, "failed")

\* The retry's 120 ms are over. Another call may have subscribed meanwhile;
\* where the walk then goes on from is in `next`.
RetryDue(c) == call[c].waits = "pause"

\* Slip: the attempt is not counted.
ResubscribeUncounted(c) ==
    /\ subs' = subs \cup {<<call[c].at, Target[c]>>}
    /\ call' = [call EXCEPT ![c].waits = "answer"]
    /\ up' = Append(up, SubFrame(c, call[c].at))

\* ensureSubscribed once more. It attaches the channel again too, and an
\* envelope is then folded once by each pump, at once: Reduce twice is Reduce.
Resubscribe(c) ==
    /\ subs' = subs \cup {<<call[c].at, Target[c]>>}
    /\ call' = [call EXCEPT ![c].waits = "answer", ![c].tries = @ + 1]
    /\ up' = Append(up, SubFrame(c, call[c].at))

\* unview, once disposeSession is answered: the chat's extension channels are
\* not among those given back.
Unview(s) ==
    /\ subs' = subs \ ({<<"session", s>>, <<"thread", s>>}
                         \cup (IF s \in mirror THEN {<<"chat", s>>} ELSE {}))
    /\ up' = Append(up, UnsubFrame(s))
-----------------------------------------------------------------------------
(* The agent host, behind a connection that keeps the order of frames.     *)

Found(kind, s) ==
    IF kind = "chat" THEN host[s].chat # NoChat ELSE host[s].live

\* The host takes the next frame, answers it and echoes what it accepted.
\* An action for a chat that does not exist makes it, later.
HostTakes ==
    /\ up # <<>>
    /\ up' = Tail(up)
    /\ LET f == Head(up) IN
       CASE f.k = "create" -> \E seeded \in BOOLEAN :
              /\ host' = [host EXCEPT ![Target[f.c]].live = TRUE,
                                      ![Target[f.c]].seeded = seeded]
              /\ wire' = Append(wire, AnswerFrame(f.c, TRUE, host'[Target[f.c]]))
         [] f.k = "sub" ->
              /\ host' = IF f.kind = "chat" /\ Found(f.kind, Target[f.c])
                         THEN [host EXCEPT ![Target[f.c]].sends = TRUE] ELSE host
              /\ wire' = Append(wire, AnswerFrame(f.c, Found(f.kind, Target[f.c]),
                                                  host[Target[f.c]]))
         [] f.k = "act" ->
              LET h == host[f.s]
                  ok == h.chat # NoChat /\ Takes(h.chat, f.act)
              IN /\ host' = [host EXCEPT
                              ![f.s].coming = @ \/ (h.live /\ h.chat = NoChat),
                              ![f.s].chat = IF ok THEN Reduce(@, f.act) ELSE @]
                 /\ wire' = IF h.sends THEN Append(wire, Envelope(f.s, f.act, ok)) ELSE wire
         [] f.k = "dispose" ->
              /\ host' = [host EXCEPT ![f.s] = [@ EXCEPT !.live = FALSE, !.coming = FALSE,
                                                         !.chat = NoChat]]
              /\ wire' = Append(wire, DisposedFrame(f.s))
         [] f.k = "unsub" ->
              /\ host' = [host EXCEPT ![f.s].sends = FALSE]
              /\ UNCHANGED wire
    /\ UNCHANGED <<subs, mirror, chats, spurned, call>>

\* A chat an accepted action asked for is created some time later.
Materialise(s) ==
    /\ host[s].coming
    /\ host' = [host EXCEPT ![s].coming = FALSE, ![s].chat = EmptyChat]
    /\ UNCHANGED <<subs, mirror, chats, spurned, call, up, wire>>

\* The agent works on the active turn: it streams, asks for confirmation, ends
\* or fails.
HostWorks(s, type) ==
    LET h == host[s]
        a == Act(type, h.chat.active)
    IN /\ h.chat # NoChat
       /\ h.chat.active # NoTurn
       /\ type = "ask" => h.chat.call = "none"
       /\ host' = [host EXCEPT ![s].chat = Reduce(@, a)]
       /\ wire' = IF h.sends THEN Append(wire, Envelope(s, a, TRUE)) ELSE wire
       /\ UNCHANGED <<subs, mirror, chats, spurned, call, up>>
-----------------------------------------------------------------------------
InFlight(s) == \/ \E i \in DOMAIN wire : wire[i].k = "act" /\ wire[i].s = s
               \/ \E i \in DOMAIN up : up[i].k \in {"act", "dispose"} /\ up[i].s = s
               \/ \E c \in Callers : Target[c] = s /\ call[c].at = "chat"

(* One fold, two ends (agentClient.ts:10-16, "the host and this client run *)
(* the same code"): with nothing on the way, a chat that is subscribed is  *)
(* folded to what the host holds, unless a refused action was echoed on it.*)
FoldConverges ==
    \A s \in Sessions :
        <<"chat", s>> \in subs /\ host[s].live /\ s \notin spurned /\ ~InFlight(s)
            => chats[s] = host[s].chat
=============================================================================

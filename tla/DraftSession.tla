---------------------------- MODULE DraftSession ----------------------------
(***************************************************************************)
(* A session from the home composer's draft to its turns: the webview's    *)
(* api client and store, the extension's sidebar provider and its client,  *)
(* and the agent host. Three FIFO channels: what the webview posts, what   *)
(* the extension posts to it (`inbox`), and what the host sends (`wire`).  *)
(* A frame and the microtasks it sets off are one step; a request reaches  *)
(* the host in the step that makes it, its answer comes in its turn.       *)
(*                                                                         *)
(* Sessions are those of the workspace (SidebarRelay has the filter), a    *)
(* session has one chat, a pointer until an action on it makes the host    *)
(* create it, and the extension channels and refused actions (ClientChat)  *)
(* are left out.                                                           *)
(***************************************************************************)
EXTENDS SidebarStore, Entries, SequencesExt

CONSTANTS Opening,     \* session -> the first message, typed in its draft
          Typed,       \* session -> turns typed once it stands
          Openable,    \* bound: rows the user clicks, once each
          Retries,     \* retries of a NotFound (the code has 5)
          Walkers      \* bound: view() calls under way at a time

ASSUME DraftAssumption ==
    /\ Opening \in [Sessions -> Turns]
    /\ Typed \in [Sessions -> SUBSET Turns]
    /\ Openable \subseteq Sessions
    /\ Retries \in Nat /\ NoChat \notin Chat

VARIABLES web,      \* the store, with what the webview posts
          inbox,    \* extension -> webview
          wire,     \* host -> extension
          ext,      \* the extension's client: subscriptions, records, chats, rows
          walks,    \* view() calls of the provider, each at an await
          host,     \* session -> the host's state of it
          warm,     \* the host has registered its model providers
          create,   \* draft -> where newSession stands
          waiting,  \* submissions that wait for the chat of their session
          sends,    \* turn -> what became of its submission
          writer,   \* draft -> where its config write stands
          settled,  \* the models planner has seen a model
          heard,    \* history: sessions whose chat snapshot the webview took
          missed,   \* history: sessions a view gave up on
          refused,  \* history: drafts whose config write the host refused
          opens     \* rows clicked

vars == <<web, inbox, wire, ext, walks, host, warm, create, waiting, sends, writer,
          settled, heard, missed, refused, opens>>

Msg(m, s) == [m |-> m, s |-> s]
TurnMsg(q) == [m |-> "turn", s |-> q.s, t |-> q.t, exit |-> q.exit]

RowPush(s, record) == [m |-> "row", s |-> s, record |-> record]
ChatPush(s, chat) == [m |-> "chat", s |-> s, chat |-> chat]
ModelsPush(some) == [m |-> "models", some |-> some]
ActionPush(s, a) == [m |-> "act", s |-> s, act |-> a]
Note(m, s) == [m |-> m, s |-> s]

AnswerFrame(leg, s, ok, record, chat) ==
    [m |-> "answer", leg |-> leg, s |-> s, ok |-> ok, record |-> record, chat |-> chat]
ResultNote(s, ok) == [m |-> "result", s |-> s, ok |-> ok]

Init ==
    /\ web = [EmptyStore EXCEPT !.post = <<Msg("refresh", NoThread)>>]
    /\ inbox = <<>> /\ wire = <<>> /\ walks = {} /\ waiting = <<>>
    /\ ext = [subs |-> {}, records |-> [s \in Sessions |-> "none"],
              chats |-> [s \in Sessions |-> NoChat], rows |-> {}, models |-> FALSE]
    /\ host = [s \in Sessions |->
                 [live |-> FALSE, named |-> FALSE, coming |-> FALSE, served |-> FALSE,
                  parked |-> <<>>, chose |-> FALSE, chat |-> NoChat]]
    /\ warm = FALSE
    /\ create = [s \in Sessions |-> "none"]
    /\ writer = [s \in Sessions |-> "none"]
    /\ sends = [t \in Turns |-> "none"]
    /\ settled = FALSE /\ heard = {} /\ missed = {} /\ refused = {}
    /\ opens = {}
-----------------------------------------------------------------------------
(* The user, on what the webview shows.                                    *)

userIdle == <<inbox, wire, ext, walks, host, warm, writer, heard, missed, refused>>

\* Slip: a listener that takes itself off the list makes the next one miss out.
ReadyFirst(w, queue) ==
    LET ready == {i \in DOMAIN queue : Known(w, queue[i].s)}
    IN {i \in ready : i - 1 \notin ready}

\* The places of the submissions whose chat a store knows.
Ready(w, queue) == {i \in DOMAIN queue : Known(w, queue[i].s)}

\* The submissions that wait go out when a publish shows their chat.
Flushed(w, queue) ==
    LET go == EntriesAt(queue, Ready(w, queue))
    IN [w EXCEPT !.post = @ \o [i \in 1..Len(go) |-> TurnMsg(go[i])]]

Left(w, queue) == EntriesAt(queue, DOMAIN queue \ Ready(w, queue))
Gone(w, queue) == {queue[i].t : i \in Ready(w, queue)}

\* Every publish: waiting submissions leave, and the planner sees the models.
Publish(w, queue) ==
    /\ web' = Flushed(w, queue)
    /\ waiting' = Left(w, queue)
    /\ sends' = [t \in Turns |-> IF t \in Gone(w, queue) THEN "posted"
                                 ELSE IF \E i \in DOMAIN queue : queue[i].t = t
                                      THEN "waits" ELSE sends[t]]
    /\ settled' = (settled \/ w.models)

\* createSession of the thread list: the draft is shown, and newSession asks.
Draft(s) ==
    /\ create[s] = "none"
    /\ web.active = NoThread
    /\ LET w == DraftThread(web, s, Opening[s])
       IN web' = [w EXCEPT !.post = Append(@, Msg("create", s))]
    /\ create' = [create EXCEPT ![s] = "asked"]
    /\ UNCHANGED <<waiting, sends, settled, userIdle, opens>>

\* A click on a row of the list.
Open(s) ==
    /\ s \in Openable \ opens
    /\ s \in web.summaries
    /\ web.active # s
    /\ web' = OpenRemote(web, s)
    /\ opens' = opens \cup {s}
    /\ UNCHANGED <<create, waiting, sends, settled, userIdle>>

Back ==
    /\ web.active # NoThread
    /\ web' = BackToList(web)
    /\ UNCHANGED <<create, waiting, sends, settled, userIdle, opens>>

\* submit of the composer: an echo, and the turn once the chat is known; a
\* navigation built-in leaves for the list at once.
Send(s, t, exit) ==
    /\ web.active = s
    /\ s \notin web.creating
    /\ sends[t] = "none"
    /\ LET w == EchoUser(web, s, t)
       IN Publish(IF exit THEN BackToList(w) ELSE w,
                  Append(waiting, [s |-> s, t |-> t, exit |-> exit]))
    /\ UNCHANGED <<create, userIdle, opens>>

\* whenChatReady gives up after 15 s; nothing tells the user.
GiveUp(i) ==
    /\ i \in DOMAIN waiting
    /\ sends' = [sends EXCEPT ![waiting[i].t] = "failed"]
    /\ waiting' = RemoveAt(waiting, i)
    /\ UNCHANGED <<web, create, settled, userIdle, opens>>
-----------------------------------------------------------------------------
(* The webview.                                                            *)

webIdle == <<wire, ext, walks, host, warm, missed, refused, opens>>

\* Slip: the config write does not wait for the registry.
CreatedAtOnce(w0, s) ==
    LET w == [PickModel(w0, s) EXCEPT !.post = Append(@, Msg("config", s))]
    IN OpenRemote(ConfirmDraft(w, s), s)

\* newSession goes on when its request is answered: the config write starts in
\* the background, and goes out here only if the registry is known to be there.
Created(w0, s) ==
    LET w == IF w0.models THEN [PickModel(w0, s) EXCEPT !.post = Append(@, Msg("config", s))]
             ELSE w0
    IN OpenRemote(ConfirmDraft(w, s), s)

TakeResult(m) ==
    IF m.ok
    THEN /\ Publish(Created(web, m.s), Append(waiting, 
                                      [s |-> m.s, t |-> Opening[m.s], exit |-> FALSE]))
         /\ create' = [create EXCEPT ![m.s] = "made"]
         /\ writer' = [writer EXCEPT ![m.s] = IF web.models THEN "done" ELSE "polls"]
         /\ UNCHANGED heard
    ELSE /\ create' = [create EXCEPT ![m.s] = "failed"]
         /\ UNCHANGED <<web, waiting, sends, settled, writer, heard>>

TakePush(w) == Publish(w, waiting) /\ UNCHANGED <<create, writer, heard>>

\* relay and pump: the next message of the extension. None is heard before the
\* webview listens.
Receive ==
    /\ inbox # <<>>
    /\ inbox' = Tail(inbox)
    /\ LET m == Head(inbox) IN
       CASE m.m = "result" -> TakeResult(m)
              [] m.m = "row" -> TakePush(SessionSnapshot(web, m.s, m.record))
              [] m.m = "added" -> TakePush(Upsert(web, m.s))
              [] m.m = "removed" -> TakePush(Drop(web, m.s))
              [] m.m = "models" -> TakePush(ModelsFolded(web, m.some))
              [] m.m = "act" -> TakePush(ChatAction(web, m.s, m.act))
              [] m.m = "chat" ->
                   /\ Publish(ChatSnapshot(web, m.s, m.chat), waiting)
                   /\ heard' = heard \cup {m.s}
                   /\ UNCHANGED <<create, writer>>
              [] OTHER -> TakePush(Published(web))
    /\ UNCHANGED webIdle

\* The config write's poll: the registry is there, or 30 s are over.
WriteConfig(s) ==
    /\ writer[s] = "polls"
    /\ \/ web.models /\ writer' = [writer EXCEPT ![s] = "done"]
       \/ writer' = [writer EXCEPT ![s] = "late"]
    /\ Publish([PickModel(web, s) EXCEPT !.post = Append(@, Msg("config", s))], waiting)
    /\ UNCHANGED <<inbox, create, heard, webIdle>>

\* Slip: the planner settles whatever the registry holds.
TickOnce ==
    /\ ~settled
    /\ settled' = TRUE
    /\ web' = [web EXCEPT !.post = Append(@, Msg("refresh", NoThread))]
    /\ UNCHANGED <<inbox, create, waiting, sends, writer, heard, webIdle>>

\* What a refresh brings is under way; the interval of 10 s outlasts it.
Refreshing == \/ \E i \in DOMAIN web.post : web.post[i].m = "refresh"
              \/ \E i \in DOMAIN inbox : inbox[i].m \in {"models", "row"}
              \/ \E i \in DOMAIN wire : wire[i].m = "models"

\* The planner's interval: ask again until a model has been seen.  `warm` is a
\* bound: what a refresh brings while the registry is still cold is left out.
Tick ==
    /\ ~settled
    /\ ~Refreshing
    /\ warm
    /\ web' = [web EXCEPT !.post = Append(@, Msg("refresh", NoThread))]
    /\ UNCHANGED <<inbox, create, waiting, sends, writer, settled, heard, webIdle>>
-----------------------------------------------------------------------------
(* The extension.                                                          *)

extIdle == <<warm, create, waiting, sends, writer, settled, heard, opens>>

\* The next channel of a view() or viewChat() to subscribe.
Leg(m, s, e) ==
    IF m = "view" /\ <<"session", s>> \notin e.subs THEN "session"
    ELSE IF (m = "viewChat" \/ e.records[s] = "named") /\ <<"chat", s>> \notin e.subs
         THEN "chat" ELSE "end"

\* What the provider posts once the walk is over.
Viewed(m, s, e) ==
    CASE m = "view" /\ e.records[s] # "none" -> <<RowPush(s, e.records[s])>>
      [] m = "viewChat" /\ e.chats[s] # NoChat -> <<ChatPush(s, e.chats[s])>>
      [] OTHER -> <<>>

\* A chat that is only a pointer is not found.
Found(leg, s) == host[s].live /\ (leg = "chat" => host[s].chat # NoChat)

\* The host's answer to a subscription: the channel's state, if it is there.
Answer(leg, s) ==
    AnswerFrame(leg, s, Found(leg, s), IF host[s].named THEN "named" ELSE "plain",
                host[s].chat)

\* subscribe, for the walk at its leg; an answer that finds the chat serves it
\* from then on. A draft dispatched ahead has the host create a missing chat.
Subscribe(walk, draft, e, others, frames) ==
    LET s == walk.s
        chat == walk.at = "chat"
    IN /\ ext' = [e EXCEPT !.subs = @ \cup {<<walk.at, s>>}]
       /\ walks' = others \cup {walk}
       /\ wire' = Append(frames, Answer(walk.at, s))
       /\ host' = [host EXCEPT
            ![s].served = @ \/ (chat /\ Found("chat", s)),
            ![s].coming = @ \/ (chat /\ draft /\ host[s].live /\ ~Found("chat", s))]
       /\ UNCHANGED inbox

\* Walk on from the client's state e; `others` are the other walks. viewChat
\* dispatches its empty draft before it subscribes.
WalkOn(walk, e, others, frames) ==
    LET leg == Leg(walk.m, walk.s, e)
    IN IF leg = "end"
       THEN /\ ext' = e /\ walks' = others /\ wire' = frames
            /\ inbox' = inbox \o Viewed(walk.m, walk.s, e)
            /\ UNCHANGED host
       ELSE Subscribe([walk EXCEPT !.at = leg, !.waits = "answer", !.tries = 0],
                      TRUE, e, others, frames)

\* A call of view() or viewChat() begins.
Idle == Walkers \ {walk.id : walk \in walks}

View(m, s) ==
    /\ Idle # {}
    /\ WalkOn([id |-> CHOOSE w \in Idle : TRUE, m |-> m, s |-> s, at |-> "session",
               waits |-> "answer", tries |-> 0], ext, walks, wire)

Envelope(s, a) == IF host[s].served THEN <<ActionPush(s, a)>> ELSE <<>>

\* A turn for a chat that runs one parks. For a chat that is a pointer it makes
\* the host create the chat, and the chat takes it then or it is lost. An exit
\* that is taken cancels what runs and disposes of the session.
HostTurn(s, t, exit) ==
    LET h == host[s]
        a == Act("start", t)
        pointed == \E takes \in BOOLEAN :
            /\ host' = [host EXCEPT
                 ![s].coming = TRUE,
                 ![s].live = ~(takes /\ exit),
                 ![s].parked = IF takes /\ ~exit THEN Append(@, t) ELSE @]
            /\ wire' = IF takes /\ exit THEN Append(wire, Note("removed", s)) ELSE wire
    IN IF ~h.live THEN UNCHANGED <<host, wire>>
       ELSE IF h.chat = NoChat THEN pointed
       ELSE IF exit
       THEN /\ host' = [host EXCEPT ![s].live = FALSE, ![s].parked = <<>>]
            /\ wire' = Append(wire, Note("removed", s))
       ELSE IF h.chat.active # NoTurn
       THEN host' = [host EXCEPT ![s].parked = Append(@, t)] /\ UNCHANGED wire
       ELSE host' = [host EXCEPT ![s].chat = Reduce(@, a)]
            /\ wire' = wire \o Envelope(s, a)

\* createSession: refused, or answered before or after the note of the new
\* session. Its default chat is a pointer, named with it or later.
HostCreates(s) ==
    \/ wire' = Append(wire, ResultNote(s, FALSE)) /\ UNCHANGED host
    \/ \E named \in BOOLEAN :
         /\ host' = [host EXCEPT ![s].live = TRUE, ![s].named = named]
         /\ wire' \in {wire \o <<ResultNote(s, TRUE), Note("added", s)>>,
                       wire \o <<Note("added", s), ResultNote(s, TRUE)>>}

\* pushBootState: the registry, then every row, with the session's state in
\* place of its summary where the client holds it.
BootPush ==
    LET rows == SetToSeq(ext.rows)
    IN <<ModelsPush(ext.models)>>
         \o [i \in 1..Len(rows) |->
               RowPush(rows[i], IF ext.records[rows[i]] = "none" THEN "plain"
                                ELSE ext.records[rows[i]])]

\* onWebviewMessage: the next message of the webview.
Handle ==
    /\ web.post # <<>>
    /\ web' = [web EXCEPT !.post = Tail(@)]
    /\ LET m == Head(web.post) IN
       CASE m.m \in {"view", "viewChat"} -> View(m.m, m.s) /\ UNCHANGED refused
         [] m.m = "create" -> HostCreates(m.s) /\ UNCHANGED <<inbox, ext, walks, refused>>
         [] m.m = "turn" -> HostTurn(m.s, m.t, m.exit) /\ UNCHANGED <<inbox, ext, walks, refused>>
         [] m.m = "config" ->
              /\ host' = [host EXCEPT ![m.s].chose = warm]
              /\ refused' = IF warm THEN refused ELSE refused \cup {m.s}
              /\ UNCHANGED <<inbox, wire, ext, walks>>
         [] m.m = "refresh" ->
              inbox' = inbox \o BootPush /\ UNCHANGED <<wire, ext, walks, host, refused>>
    /\ UNCHANGED <<missed, extIdle>>

Landed(f) ==
    IF f.leg = "session" THEN [ext EXCEPT !.records[f.s] = f.record, !.rows = @ \cup {f.s}]
    ELSE [ext EXCEPT !.chats[f.s] = f.chat]

\* A NotFound: give the channel back, and pause for a retry or give up. A view
\* that fails is only logged.
Miss(walk, others) ==
    /\ ext' = [ext EXCEPT !.subs = @ \ {<<walk.at, walk.s>>}]
    /\ IF walk.tries < Retries
       THEN walks' = others \cup {[walk EXCEPT !.waits = "pause"]} /\ UNCHANGED missed
       ELSE walks' = others /\ missed' = missed \cup {walk.s}

\* The client takes the next frame. The note of a populated registry may miss
\* a hidden webview.
Frame ==
    /\ wire # <<>>
    /\ LET f == Head(wire)
           relay == wire' = Tail(wire) /\ inbox' = Append(inbox, f) /\ UNCHANGED <<walks, host>>
       IN CASE f.m = "answer" ->
                 \E walk \in walks :
                   /\ walk.s = f.s /\ walk.at = f.leg /\ walk.waits = "answer"
                   /\ IF f.ok THEN /\ WalkOn(walk, Landed(f), walks \ {walk}, Tail(wire))
                                   /\ UNCHANGED missed
                      ELSE /\ Miss(walk, walks \ {walk})
                           /\ wire' = Tail(wire) /\ UNCHANGED <<inbox, host>>
            [] f.m = "result" -> relay /\ UNCHANGED <<ext, missed>>
            [] f.m = "added" -> relay /\ ext' = [ext EXCEPT !.rows = @ \cup {f.s}] /\ UNCHANGED missed
            [] f.m = "removed" -> relay /\ ext' = [ext EXCEPT !.rows = @ \ {f.s}] /\ UNCHANGED missed
            [] f.m = "models" ->
                 /\ ext' = [ext EXCEPT !.models = f.some]
                 /\ wire' = Tail(wire) /\ UNCHANGED <<walks, host, missed>>
                 /\ inbox' \in {inbox, Append(inbox, f)}
            [] f.m = "named" ->
                 relay /\ ext' = [ext EXCEPT !.records[f.s] = "named"] /\ UNCHANGED missed
            [] f.m = "act" ->
                 relay /\ UNCHANGED missed
                 /\ ext' = [ext EXCEPT !.chats[f.s] =
                                    Reduce(IF @ = NoChat THEN EmptyChat ELSE @, f.act)]
    /\ UNCHANGED <<web, refused, extIdle>>

\* The 120 ms of a NotFound are over: subscribe again, without a draft, or pass
\* over the channel if another walk has subscribed it meanwhile.
Retry(walk) ==
    /\ walk.waits = "pause"
    /\ IF <<walk.at, walk.s>> \in ext.subs
       THEN WalkOn(walk, ext, walks \ {walk}, wire)
       ELSE Subscribe([walk EXCEPT !.waits = "answer", !.tries = @ + 1],
                      FALSE, ext, walks \ {walk}, wire)
    /\ UNCHANGED <<web, missed, refused, extIdle>>
-----------------------------------------------------------------------------
(* The agent host.                                                         *)

hostIdle == <<web, inbox, ext, walks, create, waiting, sends, writer, settled,
              heard, missed, refused, opens>>

\* Provider registration ends.
Warm ==
    /\ ~warm
    /\ warm' = TRUE
    /\ wire' = Append(wire, ModelsPush(TRUE))
    /\ UNCHANGED <<host, hostIdle>>

\* The default chat of a new session, when it was not named with it.
Seed(s) ==
    /\ host[s].live /\ ~host[s].named
    /\ host' = [host EXCEPT ![s].named = TRUE]
    /\ wire' = IF <<"session", s>> \in ext.subs THEN Append(wire, Note("named", s)) ELSE wire
    /\ UNCHANGED <<warm, hostIdle>>

\* The chat an action asked for is created, some time later, and what it kept
\* of the turns starts. Nobody is served it yet.
Materialise(s) ==
    LET h == host[s] IN
    /\ h.live /\ h.coming
    /\ host' = [host EXCEPT
         ![s].coming = FALSE,
         ![s].chat = IF h.parked = <<>> THEN EmptyChat
                     ELSE Reduce(EmptyChat, Act("start", Head(h.parked))),
         ![s].parked = IF @ = <<>> THEN @ ELSE Tail(@)]
    /\ UNCHANGED <<wire, warm, hostIdle>>

\* The turn ends, and the next one that is parked starts.
EndTurn(s) ==
    LET h == host[s]
        end == Act("end", h.chat.active)
        start == Act("start", Head(h.parked))
    IN /\ h.live /\ h.chat # NoChat
       /\ h.chat.active # NoTurn
       /\ IF h.parked = <<>>
          THEN /\ host' = [host EXCEPT ![s].chat = Reduce(@, end)]
               /\ wire' = wire \o Envelope(s, end)
          ELSE /\ host' = [host EXCEPT ![s].chat = Reduce(Reduce(@, end), start),
                                       ![s].parked = Tail(@)]
               /\ wire' = wire \o Envelope(s, end) \o Envelope(s, start)
       /\ UNCHANGED <<warm, hostIdle>>

-----------------------------------------------------------------------------
Next ==
    \/ Back \/ Receive \/ Tick \/ Handle \/ Frame \/ Warm
    \/ \E s \in Sessions : Draft(s) \/ WriteConfig(s)
    \/ \E s \in Sessions : Open(s) \/ Seed(s) \/ Materialise(s) \/ EndTurn(s)
    \/ \E walk \in walks : Retry(walk)
    \/ \E s \in Sessions : \E t \in Typed[s] : \E exit \in BOOLEAN : Send(s, t, exit)
    \/ \E i \in DOMAIN waiting : GiveUp(i)

Spec == Init /\ [][Next]_vars

(* The webview mounts, its timers fire, messages are delivered and taken,  *)
(* the host registers its providers and works its turns off, which the     *)
(* code relies on but cannot ensure.  The user does as he likes.           *)
FairSpec ==
    /\ Spec
    /\ WF_vars(Receive) /\ WF_vars(Handle) /\ WF_vars(Frame)
    /\ WF_vars(Tick) /\ WF_vars(Warm)
    /\ WF_vars(\E walk \in walks : Retry(walk))
    /\ \A s \in Sessions : WF_vars(Seed(s)) /\ WF_vars(Materialise(s)) /\ WF_vars(EndTurn(s))
    /\ \A s \in Sessions : WF_vars(WriteConfig(s))
    /\ WF_vars(\E i \in DOMAIN waiting : GiveUp(i))
-----------------------------------------------------------------------------
(* The store and the ledgers of its submissions, drafts and config writes   *)
(* stay in their types; an echo is tagged with its turn (store.ts           *)
(* echoUser).                                                               *)
TypeOK ==
    /\ [f \in DOMAIN EmptyStore \ {"post"} |-> web[f]] \in Store
    /\ \A i \in DOMAIN web.post : web.post[i].m \in {"view", "viewChat", "create", "turn",
                                                     "config", "refresh"}
    /\ sends \in [Turns -> {"none", "waits", "posted", "failed"}]
    /\ create \in [Sessions -> {"none", "asked", "made", "failed"}]
    /\ writer \in [Sessions -> {"none", "polls", "done", "late"}]
    /\ refused \cup heard \cup missed \subseteq Sessions
    /\ {warm, settled} \subseteq BOOLEAN

(* The thread that is open has a record to render, through a draft's rekey  *)
(* to its session and the removal of the session by the host (store.ts      *)
(* confirmDraft, dropSession).                                              *)
ActiveIsShown == web.active # NoThread => web.thread[web.active] # "none"

(* The host refuses a new session's config write, for the provider registry *)
(* it checks the model against is not there, only if the write's 30 s ran   *)
(* out (client.ts newSession).                                              *)
ConfigHeard == \A s \in refused : writer[s] = "late"

OnTheWay(s) == \/ \E i \in DOMAIN wire : wire[i].m \in {"answer", "act"} /\ wire[i].s = s
               \/ \E i \in DOMAIN inbox : inbox[i].m \in {"chat", "act"} /\ inbox[i].s = s

(* Once the webview has had a snapshot of a chat, the chat it shows is the  *)
(* host's whenever nothing of it is on the way: snapshots, actions and the  *)
(* two folds of them (extension and store) stay in order.                   *)
StoreFollows ==
    \A s \in heard : host[s].live /\ web.chats[s] # NoChat /\ ~OnTheWay(s)
                       => web.chats[s] = host[s].chat

(* What is typed before its chat is known waits for it, and no longer: every *)
(* publish that shows the chat sends all of it off (store.ts whenChatReady). *)
NoneLeftWaiting == \A i \in DOMAIN waiting : ~Known(web, waiting[i].s)

(* Sending is blocked in a draft until the host's summary lands; it does,   *)
(* unless the session is refused, goes, or has no chat by the time a view   *)
(* of it gives up (store.ts isCreating, agentClient.ts ensureSubscribed).   *)
DraftUnblocks ==
    \A s \in Sessions :
        /\ s \in web.creating ~> (s \notin web.creating \/ ~host[s].live \/ s \in missed)
        /\ Local[s] \in web.creating ~> (Local[s] \notin web.creating \/ create[s] = "failed")

(* The models reach the webview, also when the note of the host's late      *)
(* registration is lost and the interval has to ask for them                *)
(* (models-refetch.ts).                                                     *)
RegistryArrives == <>[](web.models /\ settled)

(* client.ts:428-431: the first message rides submit with the id of the     *)
(* echo the draft parked, "so the echo retires when the folded turn lands". *)
EchoRetires ==
    \A s \in Sessions : Carries(web.chats[s], Opening[s])
                           => \A k \in Keys : Opening[s] \notin web.echoes[k]
=============================================================================

---------------------------- MODULE SidebarStore ----------------------------
(***************************************************************************)
(* The sidebar's store (webview-ui/src/sidebar/webview/state/store.ts) as  *)
(* handlers from store to store. What a handler posts to the extension, by *)
(* the effects the api client installs, is appended to its `post`.         *)
(*                                                                         *)
(* A thread is keyed by the URI of its session, or, while it is a draft of *)
(* the home composer, by the id the composer minted (Local).               *)
(***************************************************************************)
EXTENDS ChatFold, Sequences, Functions

CONSTANTS Sessions,
          Local,      \* session -> id of the draft it is created from
          NoThread    \* the thread list is shown

ASSUME StoreAssumption ==
    /\ DOMAIN Local = Sessions
    /\ Range(Local) \cap Sessions = {}

Keys == Sessions \cup Range(Local)

\* What the session record says of its default chat.
Records == {"none", "plain", "named"}

Store == [edges: [Keys -> {"none", "bare", "chat"}],  \* no edge; chat unknown; known
          creating: SUBSET Keys,        \* drafts that wait for the host's summary
          echoes: [Keys -> SUBSET Turns],
          summaries: SUBSET Sessions,
          records: [Sessions -> Records],
          chats: [Sessions -> Chat \cup {NoChat}],
          thread: [Keys -> {"none", "idle", "loading"}],
          active: Keys \cup {NoThread},
          models: BOOLEAN,              \* the registry holds a model
          picked: SUBSET Sessions]      \* threads that show a chosen model

ViewMsg(s) == [m |-> "view", s |-> s]
ViewChatMsg(s) == [m |-> "viewChat", s |-> s]

EmptyStore ==
    [edges |-> [k \in Keys |-> "none"], creating |-> {}, echoes |-> [k \in Keys |-> {}],
     summaries |-> {}, records |-> [s \in Sessions |-> "none"],
     chats |-> [s \in Sessions |-> NoChat], thread |-> [k \in Keys |-> "none"],
     active |-> NoThread, models |-> FALSE, picked |-> {}, post |-> <<>>]
-----------------------------------------------------------------------------
(* Derivation.                                                             *)

ChatShown(w, k) == k \in Sessions /\ w.edges[k] = "chat" /\ w.chats[k] # NoChat

\* publish and derive: a thread for every edge, and none without; it loads
\* until its chat is folded.
Published(w) ==
    [w EXCEPT !.thread = [k \in Keys |->
        IF w.edges[k] = "none" THEN "none"
        ELSE IF w.thread[k] = "loading" /\ ~ChatShown(w, k) THEN "loading" ELSE "idle"]]

WithEdge(w, k) == [w EXCEPT !.edges[k] = IF @ = "none" THEN "bare" ELSE @]

Known(w, s) == w.edges[s] = "chat"

Carries(chat, t) == chat # NoChat /\ (chat.active = t \/ t \in chat.over)

\* The user rows of a thread: turns of its chat, then the echoes.
Rows(w, k) ==
    w.echoes[k] \cup {t \in Turns : ChatShown(w, k) /\ Carries(w.chats[k], t)}
-----------------------------------------------------------------------------
(* The client's own entries.                                               *)

EchoUser(w, k, t) == Published([w EXCEPT !.echoes[k] = @ \cup {t}])

DraftThread(w, s, t) ==
    LET l == Local[s]
    IN EchoUser([WithEdge(w, l) EXCEPT !.creating = @ \cup {l}, !.active = l,
                                       !.thread[l] = "idle"], l, t)

\* The draft's edge and thread move to the session's URI; echoes do not.
ConfirmDraft(w, s) ==
    LET l == Local[s]
    IN IF w.edges[l] = "none" THEN w
       ELSE [w EXCEPT !.edges[s] = w.edges[l], !.edges[l] = "none",
                      !.creating = (@ \ {l}) \cup {s},
                      !.thread[s] = w.thread[l], !.thread[l] = "none",
                      !.active = IF @ = l THEN s ELSE @]

\* Slip: the session is shown from local state only.
OpenQuietly(w, s) == [WithEdge(w, s) EXCEPT !.active = s, !.thread[s] = "loading"]

OpenRemote(w, s) ==
    [WithEdge(w, s) EXCEPT !.active = s, !.thread[s] = "loading",
                           !.post = Append(@, ViewMsg(s))]

BackToList(w) == [w EXCEPT !.active = NoThread]

PickModel(w, s) == Published([w EXCEPT !.picked = @ \cup {s}])
-----------------------------------------------------------------------------
(* The folds.                                                              *)

\* upsertSummary: the chat a record names is viewed once its edge is new.
Upsert(w, s) ==
    LET new == w.records[s] = "named" /\ ~Known(w, s)
        v == WithEdge(w, s)
    IN Published([v EXCEPT !.summaries = @ \cup {s},
                           !.edges[s] = IF new THEN "chat" ELSE @,
                           !.post = IF new THEN Append(@, ViewChatMsg(s)) ELSE @,
                           !.creating = @ \ {s}])

SessionSnapshot(w, s, record) == Upsert([w EXCEPT !.records[s] = record], s)

ChatSnapshot(w, s, chat) == Published([w EXCEPT !.chats[s] = chat])

\* The root snapshot, and root/agentsChanged, which carries the whole list.
ModelsFolded(w, some) == Published([w EXCEPT !.models = some])

\* retireEchoesFor: the echoes of the chat's session whose turn has landed.
Retire(w, s) ==
    IF Known(w, s)
    THEN [w EXCEPT !.echoes[s] = {t \in @ : ~Carries(w.chats[s], t)}] ELSE w

\* Slip: only the thread that is open folds.
ChatActionShown(w, s, a) ==
    IF w.active # s \/ w.chats[s] = NoChat THEN w
    ELSE Published(Retire([w EXCEPT !.chats[s] = Reduce(@, a)], s))

\* An action on a chat folds on an empty chat if none is there yet.
ChatAction(w, s, a) ==
    LET chat == IF w.chats[s] = NoChat THEN EmptyChat ELSE w.chats[s]
    IN Published(Retire([w EXCEPT !.chats[s] = Reduce(chat, a)], s))

\* Slip: the removed session stays the active thread.
DropBehind(w, s) ==
    Published([w EXCEPT !.summaries = @ \ {s}, !.records[s] = "none",
                        !.chats[s] = IF Known(w, s) THEN NoChat ELSE @,
                        !.echoes[s] = {}, !.picked = @ \ {s}, !.edges[s] = "none",
                        !.creating = @ \ {s}])

Drop(w, s) ==
    Published([w EXCEPT !.summaries = @ \ {s}, !.records[s] = "none",
                        !.chats[s] = IF Known(w, s) THEN NoChat ELSE @,
                        !.echoes[s] = {}, !.picked = @ \ {s}, !.edges[s] = "none",
                        !.creating = @ \ {s},
                        !.active = IF @ = s THEN NoThread ELSE @])
=============================================================================

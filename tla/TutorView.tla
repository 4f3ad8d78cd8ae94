----------------------------- MODULE TutorView -----------------------------
(***************************************************************************)
(* The Code Tutor view end to end: the panel of the extension              *)
(* (src/codechain/panel.ts, TutorPanel), the watcher of the editor         *)
(* (navigation.ts), and the page that shows the chain                      *)
(* (webview-ui/src/codechain/app.tsx). What the panel posts waits in       *)
(* `inbox`, what the page posts in `asks`, both in order. A page that is   *)
(* not mounted yet hears nothing; `ready` asks for all of it again.        *)
(*                                                                         *)
(* A replaced view takes no part: nothing is posted to it, what it posts   *)
(* is dropped. The tools are CodeChain's; here a call loads a chain and    *)
(* saves what it loaded with a change. Layout, toasts and the jumps of the *)
(* editor are left out, but for where the cursor ends up.                  *)
(***************************************************************************)
EXTENDS TutorPanel

CONSTANTS
  Steps,         \* node ids the tools add
  Slots,         \* tool calls in flight at once
  MaxSpent,      \* bound: chains handed over, moves, drawers opened, pages lost
  MaxInbox       \* bound: messages on their way when the reader steps or picks

ASSUME ViewAssumption ==
  /\ {MaxSpent, MaxInbox} \subseteq Nat
  /\ NoNode \notin Roots \cup Steps
  /\ NoView \notin Views

VARIABLES
  web,           \* the page's state
  inbox,         \* panel -> page
  asks,          \* page -> panel
  loaded,        \* slot -> the chain its call has loaded
  place,         \* the node whose code the editor's cursor is in
  due,           \* the watcher's timer is set
  last,          \* the node it told of last: last, lastSync
  queries,       \* searches for references under way
  asked,         \* refsRequest
  answered,      \* history: the last search that was answered
  spent          \* of what MaxSpent bounds

pageVars == <<web, inbox, asks>>
syncVars == <<place, due, last>>
refsVars == <<queries, asked, answered>>
vars == <<storeVars, panelVars, pageVars, syncVars, refsVars, loaded, spent>>

Spend == spent < MaxSpent /\ spent' = spent + 1

Nodes == Roots \cup Steps

(* The chains of this model; what their tools tell is left out. *)
Chains ==
  [id : ChainIds, session : Sessions, said : {{}}, tree : Seq(TreeNodes(Nodes)) \ {<<>>}]

ASSUME SentinelAssumption == NoChain \notin Chains

Blank ==
  [mounted |-> FALSE, chain |-> NoChain, selected |-> NoNode, collapsed |-> {},
   tour |-> [at |-> 0, total |-> 0], synced |-> NoNode, told |-> FALSE,
   open |-> NoNode, refs |-> {}]

ChainMsg(chain) == [t |-> "chain", chain |-> chain]
TourMsg(at, total) == [t |-> "tourState", tour |-> [at |-> at, total |-> total]]
SyncMsg(n) == [t |-> "sync", node |-> n]
RefsMsg(n) == [t |-> "references", node |-> n]

Init ==
  /\ index = <<>> /\ rows = [i \in ChainIds |-> NoRow]
  /\ PanelInit
  /\ web = Blank /\ inbox = <<>> /\ asks = <<>>
  /\ loaded = [c \in Slots |-> NoChain]
  /\ place = NoNode /\ due = FALSE /\ last = NoNode
  /\ queries = {} /\ asked = 0 /\ answered = 0
  /\ spent = 0

-----------------------------------------------------------------------------
(* What the panel posts. *)

(* setChain posts the chain and the cursor, if there is a view. *)
Pushed ==
  IF view' = NoView THEN <<>>
  ELSE <<ChainMsg(shown'), TourMsg(cursor', Len(TourOrder(shown'.tree)))>>

(* A search belongs to the chain object it was asked of. *)
Outdated(qs) == {[q EXCEPT !.current = FALSE] : q \in qs}

(* A tool saves a chain and hands it to the panel. *)
Commit(chain, reveal) ==
  /\ Spend
  /\ Save(chain)
  /\ IF reveal THEN Show(chain) ELSE Update(chain)
  /\ IF reveal /\ view = NoView
     THEN UNCHANGED <<inbox, queries>>
     ELSE inbox' = inbox \o Pushed /\ queries' = Outdated(queries)
  /\ UNCHANGED <<web, asks, syncVars, asked, answered>>

Minted == Cardinality({i \in ChainIds : rows[i] # NoRow})

(* genCodeChain *)
Generate(r) ==
  /\ Minted < MaxChains
  /\ \E s \in Sessions :
       Commit([id |-> Minted + 1, session |-> s, said |-> {},
               tree |-> <<[id |-> r, level |-> 1, st |-> "ok"]>>], TRUE)
  /\ UNCHANGED loaded

(* A tool call, or the refresh button, loads a chain. *)
Load(c) ==
  /\ loaded[c] = NoChain
  /\ spent + Cardinality({d \in Slots : loaded[d] # NoChain}) < MaxSpent
  /\ \E i \in ChainIds : IsChain(rows[i]) /\ loaded' = [loaded EXCEPT ![c] = rows[i]]
  /\ UNCHANGED <<storeVars, panelVars, pageVars, syncVars, refsVars, spent>>

(* What a call makes of a chain: one more step, or a node that is stale. *)
Changed(chain) ==
  {[chain EXCEPT !.tree = Grown(@, @[1].id, <<[id |-> n, level |-> 1, st |-> st]>>)] :
      n \in Steps \ IdsOf(chain.tree), st \in {"ok", "weak"}}
    \cup {[chain EXCEPT !.tree = Marked(@, n, "stale")] : n \in IdsOf(chain.tree)}

(* The call saves what it loaded with its change, or it changes nothing. *)
Finish(c) ==
  /\ loaded[c] # NoChain
  /\ loaded' = [loaded EXCEPT ![c] = NoChain]
  /\ \/ \E chain \in Changed(loaded[c]) : Commit(chain, FALSE)
     \/ UNCHANGED <<storeVars, panelVars, pageVars, syncVars, refsVars, spent>>

(* openChain: a stored chain is opened again. *)
Reopen(i) ==
  /\ IsChain(rows[i])
  /\ Spend
  /\ Show(rows[i])
  /\ IF view = NoView THEN UNCHANGED <<inbox, queries>>
     ELSE inbox' = inbox \o Pushed /\ queries' = Outdated(queries)
  /\ UNCHANGED <<storeVars, web, asks, syncVars, asked, answered, loaded>>

-----------------------------------------------------------------------------
(* The view. *)

pageIdle == <<storeVars, syncVars, asked, answered, loaded>>

(* resolveWebviewView: a page is loaded, and what there is posted to it. *)
Open(v) ==
  /\ Resolve(v)
  /\ web' = Blank /\ asks' = <<>>
  /\ inbox' = IF shown' = NoChain THEN <<>> ELSE Pushed
  /\ queries' = IF shown' = shown THEN queries ELSE Outdated(queries)
  /\ UNCHANGED <<pageIdle, spent>>

Close(v) ==
  /\ Dispose(v)
  /\ IF v = view
     THEN web' = Blank /\ inbox' = <<>> /\ asks' = <<>> /\ queries' = Outdated(queries)
     ELSE UNCHANGED <<pageVars, queries>>
  /\ UNCHANGED <<pageIdle, spent>>

(* VS Code discards the page of a hidden view and loads it again. *)
Reload ==
  /\ web.mounted
  /\ Spend
  /\ web' = Blank /\ inbox' = <<>> /\ asks' = <<>>
  /\ UNCHANGED <<panelVars, queries, pageIdle>>

Mount ==
  /\ view # NoView /\ ~web.mounted
  /\ web' = [web EXCEPT !.mounted = TRUE]
  /\ asks' = Append(asks, [t |-> "ready"])
  /\ UNCHANGED <<panelVars, inbox, refsVars, storeVars, syncVars, loaded, spent>>

(* What the page's bridge lets through: answers to a search are dropped. *)
Vocabulary == {"chain", "sync", "tourState", "toast"}

(* Mutant of Folded: a push leaves the page's own state alone. *)
FoldedBlindly(w, m) ==
  CASE m.t = "chain" ->
         [w EXCEPT !.chain = m.chain,
                   !.selected = IF w.chain = NoChain \/ w.chain.id # m.chain.id
                                THEN m.chain.tree[1].id ELSE @]
    [] m.t = "tourState" -> [w EXCEPT !.tour = m.tour]
    [] m.t = "sync" -> [w EXCEPT !.synced = m.node, !.told = TRUE]

(* A push of the chain on show keeps selection and collapsed rows that are *)
(* still there; another chain starts afresh.                               *)
Folded(w, m) ==
  CASE m.t = "chain" ->
         LET new == w.chain = NoChain \/ w.chain.id # m.chain.id
             ids == IdsOf(m.chain.tree)
         IN  [w EXCEPT !.chain = m.chain,
                       !.selected = IF ~new /\ @ \in ids THEN @ ELSE m.chain.tree[1].id,
                       !.collapsed = IF new THEN {} ELSE @ \cap ids]
    [] m.t = "tourState" -> [w EXCEPT !.tour = m.tour]
    [] m.t = "sync" -> [w EXCEPT !.synced = m.node, !.told = TRUE]
    [] m.t = "references" -> [w EXCEPT !.refs = @ \cup {m.node}]

Deliver ==
  /\ inbox # <<>>
  /\ inbox' = Tail(inbox)
  /\ web' = IF web.mounted /\ Head(inbox).t \in Vocabulary THEN Folded(web, Head(inbox)) ELSE web
  /\ UNCHANGED <<storeVars, panelVars, asks, syncVars, refsVars, loaded, spent>>

-----------------------------------------------------------------------------
(* The reader, on what the page shows. *)

readerIdle == <<storeVars, panelVars, inbox, syncVars, refsVars, loaded>>

PageTour == IF web.chain = NoChain THEN <<>> ELSE TourOrder(web.chain.tree)

(* Rows without a collapsed row above them. *)
Visible ==
  LET tree == web.chain.tree
  IN  {tree[i].id : i \in {i \in DOMAIN tree :
          \A j \in DOMAIN tree : Below(tree, j, i) => tree[j].id \notin web.collapsed}}

(* The tree, or the directory of the narrow layout, has the row. *)
HasRow(n) == web.chain # NoChain /\ n \in Visible

Select(n) ==
  /\ HasRow(n)
  /\ web' = [web EXCEPT !.selected = n]
  /\ UNCHANGED <<asks, readerIdle, spent>>

Toggle(n) ==
  /\ HasRow(n)
  /\ \E j \in DOMAIN web.chain.tree : Below(web.chain.tree, NodeAt(web.chain.tree, n), j)
  /\ web' = [web EXCEPT !.collapsed = IF n \in @ THEN @ \ {n} ELSE @ \cup {n}]
  /\ UNCHANGED <<asks, readerIdle, spent>>

(* The header's button: all rows open again, or all collapsed. *)
ExpandAll ==
  /\ web.chain # NoChain
  /\ web' = [web EXCEPT !.collapsed = IF @ # {} THEN {} ELSE IdsOf(web.chain.tree)]
  /\ UNCHANGED <<asks, readerIdle, spent>>

(* The card of the narrow layout: the stop of the tour, or the first one. *)
FocusNode ==
  IF web.tour.at \in DOMAIN PageTour THEN PageTour[web.tour.at].id
  ELSE IF PageTour = <<>> THEN NoNode ELSE PageTour[1].id

(* The buttons that are not disabled. *)
CanPress(dir) ==
  web.tour.total > 0 /\ (IF dir = "prev" THEN web.tour.at > 1 ELSE web.tour.at < web.tour.total)

Press(dir) ==
  /\ web.chain # NoChain /\ CanPress(dir)
  /\ asks = <<>> /\ Len(inbox) < MaxInbox
  /\ asks' = Append(asks, [t |-> "tour", dir |-> dir])
  /\ UNCHANGED <<web, readerIdle, spent>>

(* The node the detail shows: the row selected, if it is visible. *)
Detail == IF web.selected \in Visible THEN web.selected ELSE web.chain.tree[1].id

(* The node in view, in the wide layout or the narrow one. *)
InView == {Detail, FocusNode} \ {NoNode}

StatusOf(n) == web.chain.tree[NodeAt(web.chain.tree, n)].st

PickCandidate ==
  /\ web.chain # NoChain
  /\ asks = <<>> /\ Len(inbox) < MaxInbox
  /\ \E n \in InView :
       /\ StatusOf(n) = "weak"
       /\ asks' = Append(asks, [t |-> "pick", node |-> n])
  /\ UNCHANGED <<web, readerIdle, spent>>

(* toggleRefs: opening a drawer forgets its last answer and asks again. *)
OpenDrawer ==
  /\ web.chain # NoChain
  /\ asks = <<>>
  /\ Spend
  /\ \E n \in InView :
       /\ StatusOf(n) \notin {"none", "note"}
       /\ web.open # n
       /\ web' = [web EXCEPT !.open = n, !.refs = @ \ {n}]
       /\ asks' = Append(asks, [t |-> "findRefs", node |-> n])
  /\ UNCHANGED readerIdle

CloseDrawer ==
  /\ web.chain # NoChain /\ web.open \in InView
  /\ web' = [web EXCEPT !.open = NoNode]
  /\ UNCHANGED <<asks, readerIdle, spent>>

-----------------------------------------------------------------------------
(* The panel takes what the page posts. *)

(* Mutants of Resent: the chain alone; a page starts with no node told. *)
ResentChainOnly ==
  IF shown = NoChain THEN <<>> ELSE <<ChainMsg(shown)>>

ResentUntold ==
  IF shown = NoChain THEN <<>>
  ELSE <<ChainMsg(shown), TourMsg(cursor, Len(Tour)), SyncMsg(NoNode)>>

(* resend: all of the panel's state. *)
Resent ==
  IF shown = NoChain THEN <<>>
  ELSE <<ChainMsg(shown), TourMsg(cursor, Len(Tour)), SyncMsg(last)>>

(* stepTour and the post of where the tour is. *)
Stepped(dir) ==
  /\ StepTour(dir)
  /\ inbox' = Append(inbox, TourMsg(cursor', Len(Tour)))

(* pickCandidate, and the push of what it made. *)
Placed(n) ==
  /\ PickNode(n)
  /\ inbox' = inbox \o Pushed
  /\ queries' = Outdated(queries)

StepLands(dir) ==
  /\ Tour # <<>>
  /\ IF dir = "next" THEN cursor < Len(Tour) ELSE cursor # 1

Handle ==
  /\ asks # <<>>
  /\ asks' = Tail(asks)
  /\ LET m == Head(asks) IN
       \/ /\ m.t = "ready"
          /\ inbox' = inbox \o Resent
          /\ UNCHANGED <<storeVars, panelVars, refsVars>>
       \/ /\ m.t = "tour"
          /\ IF StepLands(m.dir) THEN Stepped(m.dir) ELSE UNCHANGED <<panelVars, inbox>>
          /\ UNCHANGED <<storeVars, refsVars>>
       \/ /\ m.t = "pick"
          /\ \/ Placed(m.node)
             \/ UNCHANGED <<storeVars, panelVars, inbox, queries>>
          /\ UNCHANGED <<asked, answered>>
       \/ /\ m.t = "findRefs"
          /\ IF shown = NoChain THEN UNCHANGED <<asked, queries>>
             ELSE /\ asked' = asked + 1
                  /\ queries' = queries \cup
                       {[token |-> asked + 1, node |-> m.node, current |-> TRUE]}
          /\ UNCHANGED <<storeVars, panelVars, inbox, answered>>
  /\ UNCHANGED <<web, syncVars, loaded, spent>>

(* The keybinding steps the tour of the view that has the focus. *)
Key(dir) ==
  /\ view # NoView
  /\ Len(inbox) < MaxInbox
  /\ Stepped(dir)
  /\ UNCHANGED <<storeVars, web, asks, syncVars, refsVars, loaded, spent>>

(* Mutant of Answers: every search is answered. *)
AnswersAll(q) == q.current /\ view # NoView

(* An answer is posted for the newest search, of the chain still on show. *)
Answers(q) == q.token = asked /\ q.current /\ view # NoView

(* listReferences comes back; a provider that hangs is cut off. *)
Found(q) ==
  /\ q \in queries
  /\ queries' = queries \ {q}
  /\ inbox' = IF Answers(q) THEN Append(inbox, RefsMsg(q.node)) ELSE inbox
  /\ answered' = IF Answers(q) THEN q.token ELSE answered
  /\ UNCHANGED <<storeVars, panelVars, web, asks, syncVars, asked, loaded, spent>>

-----------------------------------------------------------------------------
(* The editor. *)

(* The cursor moves, by hand or by a jump; the timer starts again. *)
Move(n) ==
  /\ Spend
  /\ place' = n
  /\ due' = TRUE
  /\ UNCHANGED <<storeVars, panelVars, pageVars, refsVars, loaded, last>>

(* The node of the chain on show whose range the cursor is in. *)
Hit ==
  LET tree == IF view = NoView THEN <<>> ELSE IF shown = NoChain THEN <<>> ELSE shown.tree
  IN  IF \E i \in DOMAIN tree : tree[i].id = place /\ tree[i].st \in {"ok", "real", "stale"}
      THEN place ELSE NoNode

(* evaluate: the panel is told of another node than the last time. *)
Evaluate ==
  /\ due
  /\ due' = FALSE
  /\ last' = Hit
  /\ inbox' = IF Hit # last /\ view # NoView THEN Append(inbox, SyncMsg(Hit)) ELSE inbox
  /\ UNCHANGED <<storeVars, panelVars, web, asks, place, refsVars, loaded, spent>>

-----------------------------------------------------------------------------
(* Messages, and what a page and a search hold, are of their kinds; what   *)
(* the page remembers are nodes.                                           *)
PageOK ==
  /\ web.selected \in Nodes \cup {NoNode} /\ web.synced \in Nodes \cup {NoNode}
  /\ web.open \in Nodes \cup {NoNode}
  /\ web.collapsed \subseteq Nodes /\ web.refs \subseteq Nodes
  /\ web.mounted \in BOOLEAN /\ web.told \in BOOLEAN

MessagesOK ==
  /\ \A k \in DOMAIN inbox : inbox[k].t \in {"chain", "tourState", "sync", "references"}
  /\ \A k \in DOMAIN asks : asks[k].t \in {"ready", "tour", "pick", "findRefs"}
  /\ queries \subseteq [token : 1..asked, node : Nodes, current : BOOLEAN]
  /\ answered \in 0..asked

(* Every variable keeps its type. *)
TypeOK ==
  /\ PageOK /\ MessagesOK
  /\ \A c \in Slots : loaded[c] # NoChain => loaded[c].id \in ChainIds
  /\ {place, last} \subseteq Nodes \cup {NoNode} /\ due \in BOOLEAN
  /\ spent \in 0..MaxSpent
-----------------------------------------------------------------------------
Next ==
  \/ \E r \in Roots : Generate(r)
  \/ \E c \in Slots : Load(c) \/ Finish(c)
  \/ \E i \in ChainIds : Reopen(i)
  \/ \E v \in Views : Open(v) \/ Close(v)
  \/ Reload \/ Mount \/ Deliver \/ Handle \/ Evaluate
  \/ PickCandidate \/ OpenDrawer \/ CloseDrawer \/ ExpandAll
  \/ \E n \in Nodes : Select(n) \/ Toggle(n)
  \/ \E n \in Nodes \cup {NoNode} : Move(n)
  \/ \E dir \in {"prev", "next"} : Press(dir) \/ Key(dir)
  \/ \E q \in queries : Found(q)

Spec == Init /\ [][Next]_vars

-----------------------------------------------------------------------------
(* Nothing is on its way between the panel and a page that is mounted. *)
Quiet == web.mounted /\ inbox = <<>> /\ asks = <<>>

(* A page that has heard all there is shows the panel's chain, its tour    *)
(* and the node the tour is at: whatever was lost before it was mounted,   *)
(* and however pushes, keys and a discarded page interleave (panel.ts      *)
(* resend, setChain; app.tsx focusNode).                                   *)
ShowsThePanel ==
  Quiet => /\ web.chain = shown
           /\ shown # NoChain => web.tour = [at |-> cursor, total |-> Len(Tour)]
           /\ stop # NoNode => FocusNode = stop

(* What the reader selected and collapsed is in the tree on show, also     *)
(* when overlapping calls take a node away again or another chain has      *)
(* nodes of the same name (app.tsx, the fold of a chain).                  *)
SelectionOnTree ==
  web.chain # NoChain => {web.selected} \cup web.collapsed \subseteq IdsOf(web.chain.tree)

(* A page that was told where the cursor is once keeps up with what the    *)
(* watcher told last, through pages discarded and replaced (panel.ts post, *)
(* resend; navigation.ts watchActiveEditor).                               *)
SyncedIsLast == Quiet /\ web.told => web.synced = last

(* The answer to a search never follows that of a newer one, however long  *)
(* the language server takes for each (panel.ts sendReferences).           *)
AnswersInOrder == [][answered' >= answered]_vars

=============================================================================

------------------------------ MODULE TwinFold ------------------------------
(***************************************************************************)
(* The twin folds: the extension folds what the agent host sends           *)
(* (agentClient.ts), relays it (sidebarProvider.ts), and the sidebar's     *)
(* page folds it again (state/store.ts), both with ExtBag. All that is     *)
(* folded is a matrix of cells, a channel and a slot of it.                *)
(*                                                                         *)
(* A relayed action is posted a few microtasks after it was folded, in     *)
(* order: `scoping`. What a boot push posts is posted at once, so it       *)
(* overtakes actions that it has in it already. A page is opened, closed   *)
(* or heard of by a task of its own, when no microtask is left.            *)
(* postMessage is FIFO and the page only receives: posting and folding are *)
(* one step.                                                               *)
(* Chats are ChatFold's, summaries SidebarRelay's, and which channels are  *)
(* subscribed ClientChat's.                                                *)
(***************************************************************************)
EXTENDS ExtBag, Naturals, Sequences

CONSTANTS
  Sessions,      \* their ids
  Chats,         \* their ids
  MaxScoping,    \* bound: relayed actions under way
  MaxPushes      \* bound: boot pushes under way

Thread(s) == <<"x-manox-thread:/", s>>

(* Channels that have a bag: of a session's row and work, a chat's plan    *)
(* and metrics.                                                            *)
BagChannels ==
  ({"x-manox-thread:/", "x-manox-work:/"} \X Sessions)
    \cup ({"x-manox-plan:/", "x-manox-metrics:/"} \X Chats)

(* The channels of the whole connection. *)
WorkspacesChannel == <<"x-manox-workspaces://">>
CommandsChannel == <<"x-manox-commands://">>
RootChannel == <<"ahp-root://">>
Catalogues == {WorkspacesChannel, CommandsChannel}

(* What is written on a channel, as a partial function on cells. *)
On(ch, written) == [c \in {<<ch, s>> : s \in DOMAIN written} |-> written[c[2]]]

BagCells == BagChannels \X Slots
WorkspaceCells == {WorkspacesChannel} \X Workspaces
CommandCells == {CommandsChannel} \X {"entries"}
RootCells == {RootChannel} \X {"agents"}

Channels == BagChannels \cup Catalogues \cup {RootChannel}
Cells == BagCells \cup WorkspaceCells \cup CommandCells \cup RootCells
Writes == UNION {[D -> Contents] : D \in SUBSET Cells}
Envelope == [ch : Channels, baseline : BOOLEAN, writes : Writes]

VARIABLES
  host,      \* the extension: bags, workspaces, commands, mirror.root
  based,     \* catalogues whose baseline has come
  bags,      \* channels that have a bag
  row,       \* each session's row: none, with the channel's bag, with one of its own
  open,      \* a page is resolved and its relay handler subscribed
  scoping,   \* actions in scope(), not posted yet
  asked,     \* boot pushes asked for
  pushes,    \* boot pushes waiting for the workspace filter
  pushed,    \* the page has had a whole boot push
  web        \* the page: bags, workspaces, commands, models

twinVars == <<host, based, bags, row, open, scoping, asked, pushes, pushed, web>>

Blank == [c \in Cells |-> Absent]

TwinInit ==
  /\ host = Blank /\ based = {} /\ bags = {}
  /\ row = [s \in Sessions |-> "none"]
  /\ open = FALSE /\ scoping = <<>>
  /\ asked = 0 /\ pushes = 0 /\ pushed = FALSE
  /\ web = Blank

-----------------------------------------------------------------------------
(* The extension. *)

(* applyEnvelope: the envelope is folded and fanned out. *)
Folds(ch, baseline, writes) ==
  /\ open => Len(scoping) < MaxScoping
  /\ host' = Over(host, writes)
  /\ scoping' = IF open
                THEN Append(scoping, [ch |-> ch, baseline |-> baseline, writes |-> writes])
                ELSE scoping
  /\ UNCHANGED <<row, open, asked, pushes, pushed, web>>

(* A channel has a bag from its first action on. *)
BagAction(ch) ==
  /\ bags' = bags \cup {ch}
  /\ UNCHANGED based
  /\ \/ \E t \in Types, v \in Values : Folds(ch, FALSE, On(ch, ExtAction(t, v)))
     \/ \E t \in Tasks, v \in Values : Folds(ch, FALSE, On(ch, TaskAction(t, v)))
     \/ \E state \in States : Folds(ch, TRUE, On(ch, Assigned(state)))

(* subscribe answers with the baseline of a catalogue, once. *)
CatalogueBaseline(ch) ==
  /\ ch \notin based
  /\ based' = based \cup {ch}
  /\ UNCHANGED bags
  /\ \/ /\ ch = WorkspacesChannel
        /\ \E rows \in WorkspaceRows : Folds(ch, TRUE, On(ch, WorkspacesBaseline(rows)))
     \/ /\ ch = CommandsChannel
        /\ \E v \in Values : Folds(ch, TRUE, [c \in CommandCells |-> v])

WorkspaceFolds(writes) == Folds(WorkspacesChannel, FALSE, On(WorkspacesChannel, writes))

(* Changes of the catalogue of workspaces come after its baseline. *)
WorkspaceDelta(w) ==
  /\ WorkspacesChannel \in based
  /\ UNCHANGED <<based, bags>>
  /\ \/ \E v \in Values : WorkspaceFolds(WorkspaceChanged(w, v))
     \/ WorkspaceFolds(WorkspaceRemoved(w))

(* root/agentsChanged carries the whole registry. *)
AgentsChanged(v) ==
  /\ UNCHANGED <<based, bags>>
  /\ Folds(RootChannel, FALSE, [c \in RootCells |-> v])

(* upsertRow, syncRowFromSession: a new row takes the bag its thread       *)
(* channel has, or one of its own that nothing folds into.                 *)
RowAppears(s) ==
  /\ row[s] = "none"
  /\ row' = [row EXCEPT ![s] = IF Thread(s) \in bags THEN "bag" ELSE "own"]
  /\ UNCHANGED <<host, based, bags, open, scoping, asked, pushes, pushed, web>>

RowGoes(s) ==
  /\ row[s] # "none"
  /\ row' = [row EXCEPT ![s] = "none"]
  /\ UNCHANGED <<host, based, bags, open, scoping, asked, pushes, pushed, web>>

-----------------------------------------------------------------------------
(* The relay. *)

extension == <<host, based, bags, row>>

(* What the page's fold writes: it takes any baseline for a bag's. *)
WebWrites(m) ==
  IF m.baseline /\ m.ch \in Catalogues THEN [c \in {} |-> Absent] ELSE m.writes

Relay ==
  /\ scoping # <<>>
  /\ scoping' = Tail(scoping)
  /\ web' = IF open THEN Over(web, WebWrites(Head(scoping))) ELSE web
  /\ UNCHANGED <<extension, open, asked, pushes, pushed>>

Root == [c \in RootCells |-> host[c]]

Ask == asked + pushes < MaxPushes /\ asked' = asked + 1

OpenPage ==
  /\ ~open /\ scoping = <<>>
  /\ open' = TRUE
  /\ Ask
  /\ UNCHANGED <<extension, scoping, pushes, pushed, web>>

Refresh ==
  /\ open /\ scoping = <<>>
  /\ Ask
  /\ UNCHANGED <<extension, open, scoping, pushes, pushed, web>>

(* pushBootState up to its await: the registry is posted first. *)
PushStarts ==
  /\ asked > 0
  /\ asked' = asked - 1
  /\ pushes' = pushes + 1
  /\ web' = IF open THEN Over(web, Root) ELSE web
  /\ UNCHANGED <<extension, open, scoping, pushed>>

(* What the bags of rows write: they are assigned, like a baseline. *)
BagOf(s) ==
  LET held == {t \in Slots : host[<<Thread(s), t>>] # Absent}
  IN  On(Thread(s), Assigned([t \in held |-> host[<<Thread(s), t>>]]))

(* The rest of the push, for the rows that the filter kept: their bags and *)
(* the catalogues, as they are when it posts.                              *)
PushWrites(kept) ==
  LET held == UNION {DOMAIN BagOf(s) : s \in kept}
  IN  [c \in WorkspaceCells \cup CommandCells \cup held |-> host[c]]

PushPosts ==
  /\ pushes > 0
  /\ pushes' = pushes - 1
  /\ \E kept \in SUBSET {s \in Sessions : row[s] = "bag"} :
       web' = IF open THEN Over(web, PushWrites(kept)) ELSE web
  /\ pushed' = (pushed \/ open)
  /\ UNCHANGED <<extension, open, scoping, asked>>

(* The page goes, and its fold with it; the pushes go on. *)
ClosePage ==
  /\ open /\ scoping = <<>>
  /\ open' = FALSE
  /\ web' = Blank
  /\ pushed' = FALSE
  /\ UNCHANGED <<extension, scoping, asked, pushes>>

TwinNext ==
  \/ \E ch \in BagChannels : BagAction(ch)
  \/ \E ch \in Catalogues : CatalogueBaseline(ch)
  \/ \E w \in Workspaces : WorkspaceDelta(w)
  \/ \E v \in Values : AgentsChanged(v)
  \/ \E s \in Sessions : RowAppears(s) \/ RowGoes(s)
  \/ Relay \/ OpenPage \/ Refresh \/ PushStarts \/ PushPosts \/ ClosePage

TwinSpec == TwinInit /\ [][TwinNext]_twinVars

-----------------------------------------------------------------------------
TwinTypeOK ==
  /\ host \in [Cells -> Contents]
  /\ web \in [Cells -> Contents]
  /\ based \subseteq Catalogues
  /\ bags \subseteq BagChannels
  /\ row \in [Sessions -> {"none", "bag", "own"}]
  /\ open \in BOOLEAN /\ pushed \in BOOLEAN
  /\ scoping \in Seq(Envelope)
  /\ asked \in Nat /\ pushes \in Nat

(* Once nothing is on its way, whatever the page knows of the extension's  *)
(* state it knows as it is now, although the snapshots of boot pushes      *)
(* overtake the actions folded into them, and although pages come and go   *)
(* (agentClient.ts applyEnvelope, sidebarProvider.ts pushBootState,        *)
(* store.ts applySnapshot and applyEnvelope).                              *)
TwinsAgree ==
  scoping = <<>> => \A c \in Cells : web[c] \in {Absent, host[c]}

(* "the webview folds the same envelopes", and "the relayed events keep    *)
(* the webview current": a page that was pushed everything, and relayed    *)
(* everything since, has the catalogue of commands the extension has.      *)
CommandsArrive ==
  open /\ pushed /\ asked = 0 /\ pushes = 0 /\ scoping = <<>> =>
    \A c \in CommandCells : web[c] = host[c]
=============================================================================

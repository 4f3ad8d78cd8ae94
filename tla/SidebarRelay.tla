---------------------------- MODULE SidebarRelay ----------------------------
(***************************************************************************)
(* The session catalogue on its way from the agent host to the sidebar:    *)
(*                                                                         *)
(*   agent host --events, listSessions pages--> ManoxClient.sessions       *)
(*     --relay events, workspace scoping--> sidebar webview Store.summaries*)
(*                                                                         *)
(* (src/client/agentClient.ts, src/sidebar/sidebarProvider.ts,             *)
(* src/sidebar/workspaceFilter.ts, webview state/store.ts).  A summary is  *)
(* abstracted to a version, 0 standing for "no row".  Catalogue events are *)
(* folded by the client in the order the agent host emits them, so the     *)
(* emission and the fold are one step; a listSessions page is computed by  *)
(* the agent host in one step and folded in a later one.  postMessage is   *)
(* FIFO and the webview only receives, so posting and applying are one     *)
(* step.  What takes time is the git lookup of the workspace filter.       *)
(***************************************************************************)
EXTENDS Naturals, FiniteSets, Bags

CONSTANTS
  Sessions,      \* session URIs
  PreExisting,   \* sessions in the shared store before this client connects
  Dirs,          \* working directories
  NoDir,         \* no working directory / no workspace folder
  NoRepo,        \* a directory outside git
  Cwd,           \* the workspace folder
  Project,       \* the first working directory of each session
  Repo,          \* the git common dir of each directory
  Malformed,     \* sessions whose directory URI does not decode
  GitMayFail,    \* git lookups may time out
  Sweeps,        \* catalogue passes: 0 s, 2 s and 6 s after the handshake
  Changing,      \* bound: sessions whose summary changes
  Leaving,       \* bound: sessions that are disposed of
  MaxVersion,    \* bound: summary versions of one session
  MaxPushes,     \* bound: boot pushes
  MaxViews       \* bound: times the view is resolved

ASSUME CatalogueAssumption ==
  /\ PreExisting \subseteq Sessions
  /\ Malformed \subseteq Sessions
  /\ NoDir \notin Dirs
  /\ Cwd \in Dirs \cup {NoDir}
  /\ Project \in [Sessions -> Dirs \cup {NoDir}]
  /\ DOMAIN Repo = Dirs
  /\ GitMayFail \in BOOLEAN
  /\ Sweeps \in Nat
  /\ MaxVersion \in Nat \ {0}
  /\ MaxPushes \in Nat
  /\ MaxViews \in Nat

Versions == 0..MaxVersion
NoRows == [s \in Sessions |-> 0]

VARIABLES
  live,      \* agent host: the version of each session it holds
  gone,      \* agent host: sessions disposed of
  warm,      \* agent host: its thread store has been loaded
  rows,      \* ManoxClient.sessions
  sweep,     \* the catalogue passes
  cold,      \* history: passes that began before the store was loaded
  open,      \* a webview is resolved and its relay handler subscribed
  views,     \* how often the view was resolved
  web,       \* webview Store.summaries
  scoping,   \* bag: relayed events whose workspace lookup is still running
  pushes,    \* bag: the rows of boot pushes whose lookup is still running
  pushed,    \* how many boot pushes were started
  fatal      \* the webview was shown a fatal error

hostVars == <<live, gone, warm>>
sweepVars == <<sweep, cold>>
viewVars == <<open, views, web>>
pushVars == <<pushes, pushed, fatal>>
relayVars == <<live, gone, warm, rows, sweep, cold, open, views, web, scoping,
               pushes, pushed, fatal>>
-----------------------------------------------------------------------------
(* The rule of WorkspaceThreadFilter.ownedBy. *)
NeedsNoLookup(s) == Cwd = NoDir \/ Project[s] = NoDir \/ Project[s] = Cwd

SameRepo(s) ==
  /\ ~NeedsNoLookup(s)
  /\ Cwd \in Dirs /\ Project[s] \in Dirs
  /\ Repo[Cwd] # NoRepo
  /\ Repo[Project[s]] = Repo[Cwd]

Owned(s) == NeedsNoLookup(s) \/ SameRepo(s)

(* Rows the filter is certain to keep, and rows it may keep: a lookup that *)
(* fails degrades to "not this repository".                                *)
SurelyKept(s) == NeedsNoLookup(s) \/ (SameRepo(s) /\ ~GitMayFail)
MayKeep(s) == Owned(s)

(* A filter that admits what it cannot place. *)
VerdictsAdmitting(s) == {TRUE}

(* The answers owned() can give: a directory URI that does not decode      *)
(* throws, and the catch admits the row.                                   *)
Verdicts(s) ==
  IF s \in Malformed THEN {TRUE}
  ELSE {v \in BOOLEAN : (v => MayKeep(s)) /\ (SurelyKept(s) => v)}

ScopedEvent == [kind : {"added", "changed"}, s : Sessions, v : Versions]
-----------------------------------------------------------------------------
RelayFlagsOK == warm \in BOOLEAN /\ open \in BOOLEAN /\ fatal \in BOOLEAN

RowsOK ==
  /\ live \in [Sessions -> Versions]
  /\ gone \subseteq Sessions
  /\ rows \in [Sessions -> Versions]
  /\ web \in [Sessions -> Versions]

LookupsOK ==
  /\ BagToSet(scoping) \subseteq ScopedEvent
  /\ BagToSet(pushes) \subseteq [Sessions -> Versions]
  /\ pushed \in 0..MaxPushes
  /\ views \in 0..MaxViews

SweepsOK ==
  /\ sweep \in [1..Sweeps ->
       [st : {"timer", "asked", "page", "done", "failed"},
        rest : SUBSET Sessions, page : [Sessions -> Versions]]]
  /\ cold \subseteq 1..Sweeps

(* Every variable keeps its type. *)
RelayTypeOK == RelayFlagsOK /\ RowsOK /\ LookupsOK /\ SweepsOK

RelayInit ==
  /\ live = [s \in Sessions |-> IF s \in PreExisting THEN 1 ELSE 0]
  /\ gone = {}
  /\ warm = FALSE
  /\ rows = NoRows
  /\ sweep = [k \in 1..Sweeps |->
                [st |-> "timer", rest |-> Sessions, page |-> NoRows]]
  /\ cold = {}
  /\ open = FALSE
  /\ views = 0
  /\ web = NoRows
  /\ scoping = EmptyBag
  /\ pushes = EmptyBag
  /\ pushed = 0
  /\ fatal = FALSE
-----------------------------------------------------------------------------
(* fanout of the events of a set into the relay handler, whose scope()     *)
(* starts a workspace lookup for each.                                     *)
Scope(events) ==
  scoping' = IF open THEN scoping (+) SetToBag(events) ELSE scoping

(* A sessionAdded that reaches the client but not the relay. *)
SessionAddedQuietly(s) ==
  /\ live[s] = 0
  /\ s \notin gone
  /\ live' = [live EXCEPT ![s] = 1]
  /\ rows' = [rows EXCEPT ![s] = 1]
  /\ UNCHANGED <<gone, warm, sweepVars, open, views, web, scoping, pushes, pushed, fatal>>

(* root/sessionAdded: upsertRow, then fanout. *)
SessionAdded(s) ==
  /\ live[s] = 0
  /\ s \notin gone
  /\ live' = [live EXCEPT ![s] = 1]
  /\ rows' = [rows EXCEPT ![s] = 1]
  /\ Scope({[kind |-> "added", s |-> s, v |-> 1]})
  /\ UNCHANGED <<gone, warm, sweepVars, viewVars, pushVars>>

(* root/sessionSummaryChanged: applySummaryChange, then fanout.  With no   *)
(* row to look up, ownedByUri answers true at once and the webview store   *)
(* folds the change into the row it may have.                              *)
SessionChanged(s) ==
  /\ s \in Changing
  /\ live[s] \in 1..(MaxVersion - 1)
  /\ live' = [live EXCEPT ![s] = @ + 1]
  /\ IF rows[s] # 0
     THEN /\ rows' = [rows EXCEPT ![s] = live[s] + 1]
          /\ Scope({[kind |-> "changed", s |-> s, v |-> live[s] + 1]})
          /\ UNCHANGED web
     ELSE /\ web' = IF open /\ web[s] # 0
                    THEN [web EXCEPT ![s] = live[s] + 1] ELSE web
          /\ UNCHANGED <<rows, scoping>>
  /\ UNCHANGED <<gone, warm, sweepVars, open, views, pushVars>>

(* root/sessionRemoved: the row goes, and the event, which scope() passes  *)
(* without a lookup, reaches the webview's dropSession in the next         *)
(* microtask.                                                              *)
SessionRemoved(s) ==
  /\ s \in Leaving
  /\ live[s] # 0
  /\ live' = [live EXCEPT ![s] = 0]
  /\ gone' = gone \cup {s}
  /\ rows' = [rows EXCEPT ![s] = 0]
  /\ web' = IF open THEN [web EXCEPT ![s] = 0] ELSE web
  /\ UNCHANGED <<warm, sweepVars, open, views, scoping, pushVars>>

(* External: the agent host finishes loading its thread store. *)
StoreWarms ==
  /\ ~warm
  /\ warm' = TRUE
  /\ UNCHANGED <<live, gone, rows, sweepVars, viewVars, scoping, pushVars>>
-----------------------------------------------------------------------------
(* hydrateSessionCatalogue: a pass starts when its timer fires; a pass may *)
(* start while an earlier one still pages.                                 *)
SweepStart(k) ==
  /\ sweep[k].st = "timer"
  /\ \A j \in 1..(k - 1) : sweep[j].st # "timer"
  /\ sweep' = [sweep EXCEPT ![k].st = "asked"]
  /\ cold' = IF warm THEN cold ELSE cold \cup {k}
  /\ UNCHANGED <<hostVars, rows, viewVars, scoping, pushVars>>

(* External: the agent host answers listSessions with the next page and,   *)
(* while it has more, a cursor; a cold store answers one empty page.       *)
SweepAnswer(k) ==
  /\ sweep[k].st = "asked"
  /\ \E part \in SUBSET sweep[k].rest :
       /\ part # {}
       /\ sweep' = [sweep EXCEPT ![k] =
            [st |-> "page",
             rest |-> IF warm THEN @.rest \ part ELSE {},
             page |-> [s \in Sessions |-> IF warm /\ s \in part THEN live[s] ELSE 0]]]
  /\ UNCHANGED <<cold, hostVars, rows, viewVars, scoping, pushVars>>

(* A pass that stops after its first page. *)
SweepNextOnePage(k) == "done"

(* The do-while of sweepSessionCatalogue: ask again while there is a       *)
(* cursor.                                                                 *)
SweepNext(k) == IF sweep[k].rest = {} THEN "done" ELSE "asked"

(* A pass that relays only rows it already knew. *)
FreshRowsInverted(page) == {s \in Sessions : page[s] # 0 /\ rows[s] # 0}

(* The rows of a page that are new to the catalogue (isNew). *)
FreshRows(page) == {s \in Sessions : page[s] # 0 /\ rows[s] = 0}

(* One page: every summary is upserted, new ones fan out as sessionAdded.  *)
SweepFold(k) ==
  LET page == sweep[k].page IN
  /\ sweep[k].st = "page"
  /\ rows' = [s \in Sessions |-> IF page[s] # 0 THEN page[s] ELSE rows[s]]
  /\ Scope({[kind |-> "added", s |-> s, v |-> page[s]] : s \in FreshRows(page)})
  /\ sweep' = [sweep EXCEPT ![k].st = SweepNext(k), ![k].page = NoRows]
  /\ UNCHANGED <<cold, hostVars, viewVars, pushVars>>

(* A listSessions request that fails ends its pass with a log line. *)
SweepFail(k) ==
  /\ sweep[k].st = "asked"
  /\ sweep' = [sweep EXCEPT ![k].st = "failed"]
  /\ UNCHANGED <<cold, hostVars, rows, viewVars, scoping, pushVars>>
-----------------------------------------------------------------------------
(* pushBootState up to its await: the rows are read before the lookup. *)
StartPush ==
  /\ pushed < MaxPushes
  /\ pushed' = pushed + 1
  /\ pushes' = pushes (+) SetToBag({rows})

(* resolveWebviewView on a ready host: subscribe first, then push. *)
OpenView ==
  /\ ~open
  /\ views < MaxViews
  /\ open' = TRUE
  /\ views' = views + 1
  /\ web' = NoRows
  /\ StartPush
  /\ UNCHANGED <<hostVars, rows, sweepVars, scoping, fatal>>

(* {t:'refresh'}: the webview asks for another push (boot note, planner). *)
Refresh ==
  /\ open
  /\ StartPush
  /\ UNCHANGED <<hostVars, rows, sweepVars, viewVars, scoping, fatal>>

(* What threadsOwnedBy can keep of the rows of a push. *)
PushKeeps(p) ==
  {kept \in SUBSET {s \in Sessions : p[s] # 0} :
     /\ \A s \in kept : MayKeep(s)
     /\ \A s \in Sessions : p[s] # 0 /\ SurelyKept(s) => s \in kept}

(* pushBootState after its await: one undecodable directory rejects the    *)
(* whole filter call; otherwise every kept row is posted as a snapshot.    *)
PushPost(p) ==
  /\ BagIn(p, pushes)
  /\ pushes' = pushes (-) SetToBag({p})
  /\ \/ /\ \E s \in Malformed : p[s] # 0
        /\ fatal' = (fatal \/ open)
        /\ UNCHANGED web
     \/ /\ \A s \in Malformed : p[s] = 0
        /\ \E kept \in PushKeeps(p) :
             web' = IF open THEN [s \in Sessions |-> IF s \in kept THEN p[s] ELSE web[s]]
                    ELSE web
        /\ UNCHANGED fatal
  /\ UNCHANGED <<hostVars, rows, sweepVars, open, views, scoping, pushed>>

(* Store.upsertSummary for an added row, Store.applySummaryChange for a    *)
(* change, which a row the store does not have ignores.                    *)
StoreFold(ev) ==
  IF ev.kind = "added" \/ web[ev.s] # 0
  THEN [web EXCEPT ![ev.s] = ev.v] ELSE web

(* The lookup of one relayed event ends: post it, or drop it. *)
ScopeDone(e) ==
  /\ BagIn(e, scoping)
  /\ scoping' = scoping (-) SetToBag({e})
  /\ \E verdict \in Verdicts(e.s) :
       web' = IF verdict /\ open THEN StoreFold(e) ELSE web
  /\ UNCHANGED <<hostVars, rows, sweepVars, open, views, pushVars>>

(* teardown() and the end of the iframe: the store goes with it, lookups   *)
(* in flight stay in flight.                                               *)
CloseView ==
  /\ open
  /\ open' = FALSE
  /\ web' = NoRows
  /\ UNCHANGED <<hostVars, rows, sweepVars, views, scoping, pushVars>>
-----------------------------------------------------------------------------
RelayNext ==
  \/ \E s \in Sessions : SessionAdded(s) \/ SessionChanged(s) \/ SessionRemoved(s)
  \/ StoreWarms
  \/ \E k \in 1..Sweeps : SweepStart(k) \/ SweepAnswer(k) \/ SweepFold(k) \/ SweepFail(k)
  \/ OpenView
  \/ Refresh
  \/ CloseView
  \/ \E p \in BagToSet(pushes) : PushPost(p)
  \/ \E e \in BagToSet(scoping) : ScopeDone(e)

(* Every git lookup ends (execFile has a 5 s timeout). *)
RelayFairness ==
  /\ WF_relayVars(\E e \in BagToSet(scoping) : ScopeDone(e))
  /\ WF_relayVars(\E p \in BagToSet(pushes) : PushPost(p))

RelaySpec == RelayInit /\ [][RelayNext]_relayVars
RelayFairSpec == RelaySpec /\ RelayFairness
-----------------------------------------------------------------------------
Quiet == open /\ scoping = EmptyBag /\ pushes = EmptyBag

(* The rows of another repository never surface in the sidebar, whatever   *)
(* the order of events, pushes, sweeps and view lifetimes, and even when   *)
(* git lookups fail (sidebarProvider.ts scope, pushBootState).  Only a row *)
(* whose directory cannot be decoded is admitted on purpose.               *)
ForeignNeverSurfaces == \A s \in Sessions : web[s] # 0 => Owned(s) \/ s \in Malformed

(* No gap between the boot push and the relayed events: once no lookup is  *)
(* running, every owned row of the client's catalogue is in the sidebar,   *)
(* whichever of the push, an event or a sweep brought it.                  *)
OwnedRowsSurface == Quiet /\ ~fatal => \A s \in Sessions : rows[s] # 0 /\ Owned(s) => web[s] # 0

(* A pass that saw a warm store from its first request and ended without   *)
(* an error has every session that lived throughout in the catalogue.      *)
SweepIsComplete ==
  \A k \in 1..Sweeps : sweep[k].st = "done" /\ k \notin cold =>
    \A s \in PreExisting : live[s] # 0 => rows[s] # 0

(* An owned row of the catalogue reaches an open sidebar, unless the row   *)
(* or the sidebar goes away first.                                         *)
OwnedRowEventuallyShown ==
  \A s \in Sessions :
    (rows[s] # 0 /\ Owned(s) /\ open) ~> (web[s] # 0 \/ rows[s] = 0 \/ ~open \/ fatal)
=============================================================================

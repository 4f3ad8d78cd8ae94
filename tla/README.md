# Verification of the manox VS Code extension

TLA+ models of the extension's concurrent core, the TLC instances that check
them, and TLAPS proofs of what matters most. Every definition is translated from
the source under `src/` (host code in `src/src/`, webview code in
`src/webview-ui/src/`); `PROJECT.json` maps each one to its lines.

## 1. The system

The extension is a front end to an agent host, a native library loaded into the
extension host process. There is one connection and one client:

```
 agent host (native, own threads)
    | JSON-RPC text frames, in order, both ways
 NapiTransport / NapiAhpTransport        transport/*.ts
    | recv() / send()
 AhpClient (SDK, external)
    | subscriptions, requests
 ManoxClient                             client/agentClient.ts
    | relay events (fanout), snapshots (read), requests
 AgentHost                               agentHost.ts
    |                    |                        |
 sidebar relay       Code Tutor service      chat participant
 sidebar/*.ts        codechain/*.ts          participant.ts
    | postMessage        | postMessage
 sidebar webview     tutor webview
 webview-ui/src/sidebar   webview-ui/src/codechain
```

The extension host and each webview are single JavaScript threads: a step of the
models is a synchronous run of code up to its next `await`, callback or message.
Interleaving happens at those points, between the two sides of `postMessage`,
and against the agent host's own threads.

### Inventory

| Component | State | Operations | What is hard | Correct when |
|---|---|---|---|---|
| **Native transport** (`ahpTransport.ts`, `napiTransport.ts`) | inbox, parked waiter, closed, disposed | deliver, recv, send, close | deliveries between the settling of recv and its continuation; close at any time | FIFO, exactly once; no lost wake-up; drained before the end |
| **AgentHost** (`agentHost.ts`) | client, `ready`, buffered subscriptions | construct, onRelayEvent, onSessionEvent, onFoldChanged, dispose | subscribe and unsubscribe around an asynchronous handshake | each attached handler hears each event, a detached one none |
| **ManoxClient** (`agentClient.ts`) | session rows, chats, bags, mirror, subscription set | start, sweeps, view/unview, createSession, dispose, folds, fan-out | overlapping passes; snapshots racing actions; NotFound retries; two callers of one channel | the fold converges to the agent host's state |
| **Sidebar relay** (`sidebarProvider.ts`) | current view, its subscription | resolve, boot push, scope, view, req, dispatch, teardown | every relayed catalogue event awaits git; snapshots overtake actions | owned rows shown, foreign rows never; the page ends up with what the extension has |
| **Workspace filter** (`workspaceFilter.ts`) | identity memo | ownedBy, identity | git fails, times out, reorders | degrades to "not this repository" |
| **Webview bridge and watchdog** (`vscode-bridge.ts`, `watchdog.ts`) | outstanding ping, misses, stale | tick, pong, any message, visibility, reload | host restarts under a retained iframe; hidden views; timer jitter | a dead channel is rebuilt, a live one is left alone |
| **Webview API client** (`api/client.ts`) | pending requests | request, pump, newSession, submit, steer | config write racing registry and first turn | the write is not refused for coming early |
| **Webview store** (`state/store.ts`) | summaries, records, chats, bags, edges, echoes, creating, what is open | snapshot and event folds, draft, echo, drop | optimistic rows against folded truth | an echo goes when its turn lands; what is open has a record |
| **Models refetch** (`models-refetch.ts`) | last fetch, settled | mount, tick, onModels | the registry fills late and says so once | asks until the models are there, then stops |
| **Protocol twin** (`protocol/xmanox.ts`) | extension bags, workspace catalogue | baseline, delta | two folds of the same envelopes, snapshots in between | both sides hold the same |
| **Tool contribution** (`registration.ts`, `sessionRegistrar.ts`) | in-flight slots | register, disposed, replay, claim | contributions die with a session and sessions come back under their URI | every known live session carries the tools |
| **Chain store** (`chainStore.ts`) | index, rows | save, get, list, delete | two keys written apart; rows of older versions | index and rows agree; the recent chains are kept |
| **Code Tutor tools** (`tools.ts`) | correction counters | publish, narrate, extend, add node, expand, annotate, refresh | load, await, save; ceilings; retry limits | no accepted node is lost; step-wise chains stay well-formed |
| **Panel, tour, navigation** (`panel.ts`, `tour.ts`, `navigation.ts`) | shown and pending chain, cursor, highlight, search token | show, update, resolve, resend, step, pick, search, reverse sync | pages that come late, are discarded, are replaced | the page shows what the panel holds |
| **Panel webview** (`codechain/app.tsx`, `bridge.ts`, `tree.ts`) | chain, selection, collapsed rows, drawer | fold of a push, select, toggle, press, pick, open drawer | selection kept by id over chains that change | what is selected is on the tree |
| **Resolver, LSP client** (`resolve.ts`, `lspClient.ts`) | a call's caches of files and symbols | match a path, probe, refresh | silent servers; names that are paths; shared lookups | a path meets what it means; a silent server costs a bounded time |
| **Chat participant** (`participant.ts`) | turn tracker: timers, emitted prefixes | submit, project, deny, finish | end, error, cancel and two timeouts race; folds of other chats | ends once, for a cause, in time; denies confirmations at once |
| **Projections, other UI components, i18n, command provisioning, activation** | rendering state | | | out of scope |

The hazards of this code, each at its line, are the `hazards` of `PROJECT.json`,
with the properties that watch them, or the reason why none does.

## 2. Modules

| Module | Models | Kind |
|---|---|---|
| `FrameChannel` | what the transport promises: a FIFO channel shut once | abstract specification |
| `AhpTransport` | the napi transport, binding callback and receive loop | detailed; implements `FrameChannel` |
| `SidebarRelay` | agent host's catalogue, client rows, scoped relay, webview summaries | composition of client, relay, filter, store |
| `ChannelWatchdog` | watchdog, bridge, page lifetime, the host's echo | composition of page and host |
| `HostEvents` | subscriptions of `AgentHost` around the handshake | component |
| `ToolContribution` | registrar, replay, events, agent host | composition |
| `ChatFold` | a chat as the SDK's reducer folds it, and what the agent host accepts | operators, external |
| `ClientChat` | the client's on-demand channels: subscribe, retry, snapshot, fold | component, extends `ChatFold` |
| `ParticipantTurn` | a chat request on that client, beside the sidebar's view | composition, extends `ClientChat` |
| `SidebarStore` | the webview's store: drafts, echoes, summaries, chats | operators, extends `ChatFold` |
| `DraftSession` | webview, extension and agent host from a draft to its turns | composition, extends `SidebarStore` |
| `ExtBag` | the folds of `xmanox.ts` | operators |
| `TwinFold` | those folds twice, in the extension and in the page, and what carries them | composition, extends `ExtBag` |
| `Entries` | the filter of an array, recursive and therefore provable | operators |
| `ChainTree` | the tree of a code chain: growing, marking, its tour, drafted blocks | operators |
| `ChainStore` | index and rows of the stored chains | component, extends `ChainTree` |
| `TutorPanel` | the Code Tutor view: chain shown, chain stashed, cursor | component, extends `ChainStore` |
| `CodeChain` | the tools, as load-await-save calls, over store and panel | composition |
| `TutorView` | panel, editor watcher and page, with what is posted between them | composition, extends `TutorPanel` |
| `SymbolTree` | matching of a path against a document's symbols | operators |
| `SymbolResolution` | the resolution of a block of nodes, and a refresh | component, extends `SymbolTree` |
| `ViewChannelProofs` | theorems about `SidebarRelay`, `ChannelWatchdog` and `HostEvents` | proofs |
| `ProtocolProofs` | theorems about `AhpTransport` and `TwinFold` | proofs |
| `RecursionProofs` | least counterexamples, recursive functions, filters and trees: the lemmas the next ones share | proofs |
| `TutorToolsProofs` | theorems about `ToolContribution` and `SymbolResolution` | proofs |
| `CodeChainProofs`, `DraftSessionProofs`, `ParticipantTurnProofs`, `TutorViewProofs` | theorems about the module they are named for | proofs |
| `MC*` | instances for TLC | |

`ViewChannelProofs`, `ProtocolProofs` and `TutorToolsProofs` hold a part for each
specification they name. The parts share no variable and no constant; what two
specifications would both have called `Spec` is told apart by a prefix
(`TransportSpec`, `RelaySpec`, `WatchdogSpec`, `TwinSpec`, `ResolveSpec`).

### How state and actions correspond to the code

**AhpTransport.** `inbox`, `waiter`, `closed` are the fields of
`NapiAhpTransport`; `disposed` is the one of `NapiTransport`. `loop` and
`settled` are the SDK's receive loop and the promise it awaits: a settled
promise is consumed in a later step (`Consume`), so the binding can deliver in
between. `Wake` is one operator used by `Deliver` and `Close`, as in the code.
`delivered` and `received` are histories. A send only counts: its payload and
serialisation do not matter to any property.

**SidebarRelay.** `rows` is `ManoxClient.sessions`, `web` the store's summaries,
both as versions (0: no row). Catalogue events are folded in the agent host's
order, so emission and fold are one step; a `listSessions` page is computed in
one step (`SweepAnswer`) and folded in another (`SweepFold`). `scoping` holds the
relayed events whose `scope()` still awaits git, `pushes` the rows read by
`pushBootState` calls that still await it; both are bags, since equal lookups may
run at once and any of them may end first. `StoreFold` is `upsertSummary` or
`applySummaryChange`: a change for a row the store does not have is lost. Git is
data: `Repo` gives each directory its common dir, `GitMayFail` lets a lookup
answer "not this repository", `Malformed` names sessions whose directory does
not decode: `owned()` admits those, and the boot push fails on them. Left out is
`syncRowFromSession`, which also makes or refreshes a row, from the state of a
session somebody subscribed to: it tells the page nothing, and the page that
asked gets that state as a snapshot (`DraftSession`).

**ChannelWatchdog.** `outstanding`, `misses`, `stale` are the watchdog's
variables; the clock is reduced to `beatPassed`: the timer and the ping interval
are both five seconds, so the first beat after a ping may find the interval not
elapsed, the second cannot. Pings have no number here: the listener calls
`onAnyHostMessage()` for every message ahead of `onPong`, so the comparison of
numbers never decides anything. `Reload` is a fresh page with a fresh watchdog,
while messages meant for the old page may still come. `alive` is the
host-to-page channel a host restart leaves dead. `prompt` is drawn once: whether
this host answers a visible page within a beat; `NoNeedlessVerdict` is about
those that do, everything else about all.

**HostEvents.** `pending` is `pendingSessionEvents`, `due` the `ready.then`
callbacks not yet run, `offs` the `unsubscribe` variables that are assigned,
`subs` the client's `eventSubs`. `Closure` says what the set can tell apart: a
relay handler is put in as it is, twice the same; a watcher is wrapped in a new
closure each time. `NoneOutstanding` is the microtask rule: VS Code's calls find
no callback of an already completed handshake waiting.

The agent host may send from the moment `start()` pumps, a little before `ready`
resolves; what it sends in that gap nobody hears, and `NothingMissed` begins at
`ready`.

The watcher of the real service is subscribed twice before the handshake, as two
closures; the registrar's guard hides it and no property speaks of it.

**ToolContribution.** `wire` and `arrived` are frames sent and frames in the
inbox; `inFlight` is the registrar's set, `sends` its promises. Events, ready
callbacks and settling sends are microtasks in any order; frames arrive and the
sidebar claims only when they have drained (`MicrotasksDrained`). That rule is
needed: without it a registration could be swallowed by the guard while an
earlier send, already refused, is still settling. With it, the slot freed by
`onSessionDisposed` is redundant: a send always settles before a session can
come back.

**ChainTree, ChainStore, TutorPanel, CodeChain.** A tree is its preorder sequence
of nodes with their levels, so that a subtree is a stretch of it and the tour is
a filter; `Statuses` are the resolve statuses, split where the tools tell nodes
apart (a `real` node comes from a call-hierarchy edge and has no symbol, a `note`
has nowhere to jump to). `index` and `rows` are the two kinds of keys in
`workspaceState`; they are read synchronously and written as a whole, so `Save`
is one step. Chain 0 is a row an earlier session left, possibly of a shape
`validChain` refuses; `DropCorrupt` is what a read does to it. Chain ids are
minted in the order of `createdAt`, which `list()` sorts by. A restart is not
modelled: it keeps the rows and starts everything else anew, as `Init` does with
chain 0.

`calls` holds the tool calls between load and save, each with the chain it
loaded (`base`). `Begin` is the part of a handler up to its await, the `Finish`
actions the part after it; `Narrate`, `Annotate` and `Pick` do
not wait. Calls of the same and of different sessions overlap, as they do in the
code: the agent host invokes tools without waiting, and `handle()` keeps no
queue. `shown`, `pending`, `cursor`, `stop` are the fields of `CodeChainPanel`,
`tourIndex` counted from one. The webview only mirrors them, since `ready` is
answered with all of them. Five variables are histories: `promised` (what was
acknowledged), `overlapped` (chains two writers worked on at once), `sprawling`
(chains grown by Extend or Expand, whose caps and ids the code does not
guarantee), `recency` (the order of last saves), `owed` (the chain handed to the
panel last, until the view that has it goes).

**ChatFold, ClientChat, ParticipantTurn.** A chat is what its turns and its one
pending confirmation make of it. `subs`, `mirror`, `chats` are the fields of
`ManoxClient`; `up` and `wire` are the two directions of the connection, in
order. `call` says which channel a `view()` is at and whether it waits for an
answer or for the pause of a retry: `ensureSubscribed` marks a channel at once
and awaits the answer, so a second caller goes past it. One frame, with the
microtasks it sets off up to the next await, is one step. The agent host creates
a session's chat some time after it has answered the creation, which is what the
retries are for. Each retry attaches the channel once more, so that a second
pump folds its envelopes too; both run at once, and `Reduce` of the same action
twice is `Reduce` of it once. `life`, `quiet`, `hard`, `token` and `listeners` are
`runParticipantTurn`: `Notified` is its `onChange` listener, run for each fold of
*any* chat, which denies, re-arms and looks for the end. `still` and `age` are
histories. A timer that is due fires before time goes on.

**SidebarStore, DraftSession.** The store is a record of the fields the code has
(`edges`, `creating`, `echoes`, `summaries`, records, `chats`, `perThread`,
`activeThreadId`, the models), and each of its methods is an operator from store
to store that ends in `Published`, as the methods end in `publish()`. `post`
collects what the store's effects post. `DraftSession` puts it between the user
and three FIFO queues. A submission waits in `waiting` until a publish shows its
chat (`whenChatReady`). `create` and `writer` are where `newSession` and the
config write it starts in the background stand. The filter and the refused
actions are in other modules.

The chat of a new session is a pointer: `host[s].chat` is `NoChat`, a
subscription to it is NotFound (`Found`), and an action on it, be it a turn or the
empty draft `viewChat` dispatches ahead of its subscription, has the host create
it some time later (`coming`, `Materialise`; `agentClient.ts:342-357, 536-557`).
A turn sent to a pointer is taken then or is lost. `walks` are the `view()` and
`viewChat()` calls of the provider: each stands at a channel and waits for an
answer, or for the pause after a NotFound (`Miss`, `Retry`); one that has no
retry left gives up and is only logged. A second call passes over a channel the
first has merely begun to subscribe. The host sends a chat's envelopes once a
subscription to it was answered (`served`).

**ExtBag, TwinFold.** Bags, workspaces, commands and the root's agents are one
matrix: a cell is a channel and a slot of it. An envelope is what it writes to
which cells, so both folds are the same operator with a different address: the
extension's (`Folds`) by channel, the page's (`WebWrites`) by type first. The
relay awaits no git for these channels but passes through `scope()`'s promise:
`scoping` is a queue. A boot push is posted at once, with everything folded so
far, so it overtakes the queue. Pages open, close and refresh in tasks of their
own, when no microtask is left, hence only with an empty queue. A catalogue's
baseline comes before its deltas, once (`xmanox.ts:9-14`).

**TutorView.** `web` is the state of the page's component. What the panel posts
waits in `inbox`, what the page posts in `asks`. A page not yet mounted hears
nothing: `Mount` is its effect that posts `ready`, and `Resent` what the panel
answers. VS Code may discard the page of a hidden view at any time (`Reload`).
`queries` are searches for references under way, with the token each has. The
tools are reduced to load, change, save; `CodeChain` has them in full.

**SymbolTree, SymbolResolution.** A document is the preorder of its symbols with
their depths. A path is a sequence of segments, names without a dot; a symbol's
own name may be dotted, and `Spelled` gives the segments `symbolPath` splits it
into. `MatchSegments` is the recursion of `matchSegments`, as a function of the
number of segments left: for each symbol, the hits of the last so many from
there. A block's nodes are resolved side by side:
`owner` and `joined` are the promise caches of a call. Time is counted in
provider timeouts: a probe is answered before the tick it was issued in ends,
or its timer fires (`ProbeTimesOut`). `tutor_refresh` asks again, one node at a
time and with no cache. What the workspace index places (`Indexed`) is placed
with the index's range, in the drafted document or in another; of another
document nothing is assumed: asked in a refresh, it reports one symbol of the
name, several or none (`MatchElsewhere`), and its lines may be the index's or
not.

## 3. Runs

| Run | Instance | Shows |
|---|---|---|
| `channels` | *transport*: 2 frames, 5 deliveries, 2 sends; *host events*: 2 views one after the other, 1 watcher; *watchdog*: miss limit 3, 3 messages each way, prompt hosts and others | delivery, order, wake-up, liveness, refinement (which includes the drain); no gap, no double subscription; no needless verdict, dead channels heal |
| `relay` | a session in a worktree of the repository, a foreign one, one with an undecodable directory; 2 versions, 1 paged pass, 2 pushes (the view's own and a refresh), 1 view; the first of them may go and change; git answers | foreign rows never surface; a clean pass is complete; owned rows surface, and eventually |
| `codechain` | 2 calls at a time, 3 in all, 2 chains minted and one from before, 2 stored; caps of 3 nodes and 2 levels, 1 correction round; 2 views alive at once, opened any number of times | store, acknowledgements and panel hold together |
| `participant` | 1 request, the sidebar viewing its session meanwhile; 1 retry, timeouts of 2 and 3 ticks, at most 3 frames on the way when something new starts | the request ends, in time, for a cause; the fold is the host's |
| `drafts` | 1 draft, its session, its first message and one typed later; models that come late; the row clicked once; 2 retries, 3 walks at a time | store and host agree; nothing waits for a chat that is known; the config write is heard; what is open is shown |
| `drafts_live` | as `drafts`, 1 retry and nothing typed later | drafts unblock, the models arrive |
| `tutor_view` | 1 session, 1 root and 1 step, 2 chains, 2 calls at a time, 2 views; 3 of handovers, moves, drawers, pages lost | the page shows the panel; selection, highlight and answers stay right |
| `tutor_tools` | *contribution*: 2 sessions, 4 agent-host moves, 1 claim; *resolution*: 3 names, one of them dotted; one node against every document of up to 3 symbols, blocks of up to 5 nodes against 2 documents; servers that answer, fail or are silent | every known session gets its tools; matching is descent; time is bounded by levels; a call ends; a refresh of unchanged code changes nothing |
| `twin_commands` | 1 session, 1 task, 1 workspace, 2 values, 2 actions under way | violation, see section 6 |
| `drafts_echo` | as `drafts`, 1 retry | violation |
| `panel_stash` | as `codechain` | violation |
| `participant_confirm` | as `participant`, with two other views of the session and the 5 retries of the code | violation |

`channels` and `tutor_tools` each run several specifications that share no
variable: `running`, drawn in the initial state, says which of them moves, and the
others rest in their initial states. A property of one is so checked over all
behaviours of that one, at the price of the sum of their states; where they rest
it holds of the initial state alone. `CallsEnd` is `EndsDespiteSilence` of the
resolutions that run. TLC's action coverage cannot look into such a step; each of
the specifications, run alone on the same instance, fires all its actions.

**Bounds.** Two distinct frames show loss, duplication and reordering, and five
deliveries exceed what can be in flight at once. Sessions are independent in the
relay except for the push, which handles all of them in one call: a kept, a
dropped and a failing one are all its cases. Failing git, several views and
several passes are what the scoping theorem covers and this instance does not.
The watchdog's misses are bounded by its own limit, its real value. Four moves
are create, dispose, reopen, and a move of another session. In `codechain`, two
calls overlap and a third comes after or between; three chains exceed a store of
two, so saves evict, also chains a call has loaded; a root, two ids for further
nodes and one for an edge let a step be refused for its level and for its id,
and fill the node cap; a view is replaced by a second one before it is disposed
of. Resolving a symbol finds candidates or nothing there: the outcomes that lead
to picks, to failures and, over a refresh, to every change of status; clean hits
only take branches away. In `participant`, a quiet timeout shorter than the hard
one lets folds of another chat (`OtherFold`) carry a request from one to the
other; one retry is a first attempt, a second one and its end. In `drafts`, one
session meets itself: its row may come before or after `createSession` is
answered, be clicked meanwhile, and be removed; two retries are a refused
subscription, one more refusal and an answer or the end, and three walks are the
view `openRemote` asks for, the chat of a row and the click. `warm` cuts off
refreshes that would come before the registry has filled and bring nothing. In
`tutor_view` two chains that share ids are swapped under a page. A document of
three symbols has every shape a path of two names tells apart; larger blocks are
only resolved against the documents that differ for them. The passing instances
fire every action.

**Type invariants.** Each module states one. None is in a run: where a theorem
proves it (section 4) it holds for every instance, elsewhere it documents the
state, and the other invariants would fail to evaluate on an ill-typed one.

**Deadlock** is checked except where the system may stop: a transport closed and
drained, a catalogue whose bounded moves are spent, a handshake that failed with
nobody attached, requests that all ended, a page with nothing left to read.

**Fairness.** `AhpTransport`: the receive loop (a chain of microtasks) goes on.
`SidebarRelay`: every git lookup ends, since `execFile` has a five second
time-out; which one ends first is open. Sweeps and events need none: the
properties start from a row the client has. `ChannelWatchdog`: the interval
timer fires, the host echoes and the page handles its messages; the host's other
posts are never assumed. `DeadChannelHeals` is conditional on the view being
shown again and again. `ToolContribution`: microtasks run, frames sent arrive,
the service's callbacks run; the handshake is not assumed to succeed.
`ParticipantTurn`: requests reach the agent host, which answers each of them,
refusals included; frames are delivered; timers fire. That a turn ever ends, or
a chat is ever created, is not assumed: the timeouts and the last retry see to
it. `DraftSession`: messages are delivered and handled, timers fire, and the
host registers its providers, creates the chat of a session and works off the
turns it took, without which nothing the webview does could settle. The user is
never assumed to act. `SymbolResolution`: lookups go on and timers fire; an
answer of a language server is not assumed. The `stat` of a file is: the code
does not race it.

## 4. Proofs

What is proved holds for every value of the constants that satisfies the named
assumptions, which say no more than that bounds are numbers, sentinels are not
values and functions have the domains the code gives them.

- **AhpTransport.** `IInv` adds to the checked invariants what they need to be
  preserved: where the settled promise, the waiter and the loop stand to each
  other. `NoLostWakeup` is what makes `ExactlyOnceInOrder` inductive: a frame
  handed to the waiter comes before the inbox only because the inbox is empty
  whenever a waiter is parked. The refinement follows: `Deliver` is `Put`,
  `Consume` is `Take` or `End`, `Close` is `Shut`, and `Recv` moves a frame
  inside `InFlight`, a stutter.
- **SidebarRelay.** Scoping is inductive with one strengthening: what an event
  or push carries is checked at its end, against data that does not change
  (`Project`, `Repo`), so any order of ends is safe. That is why late lookups
  can show stale rows but never foreign ones.
  Nothing gets lost either. `SweepCorrect`: a session
  that lives and is not on the pages still to come is on the page that travels or
  in the catalogue (`PagedOK`), however many passes page at a time.
  `SurfaceCorrect`, with git that answers: an owned row of the catalogue is on
  the open page, or an `added` event or a push under way carries it (`Coming`).
  Each source of rows is covered by another carrier: what is there when the view
  opens by its push, what comes later by its event, and what a pass brings by the
  event for rows that were new. A push that fails on a row it cannot decode
  carries nothing on; the fatal error the page shows then is in the statement.
- **ChannelWatchdog.** For every miss limit, and every host with `prompt`: on a
  page that was neither hidden nor cut off, an unanswered ping or its answer is
  in flight, and misses are only counted for an unanswered ping; a prompt host
  leaves nothing in flight at a beat, so no beat of such a page counts a miss.
- **HostEvents.** Until the handshake completes every attached handler is in the
  buffer; completing it turns the buffer into subscriptions; a relay handler is
  only ever in the set as itself, so the second subscription and the one removal
  act on the same element.
- **ParticipantTurn.** For every number of requests and sessions and any two
  timeouts: the ticks left on the hard timer of a running request and its age
  add up to the timeout, those left on the quiet timer and the ticks since the
  last fold to the other; a request without timers is not running. Time does not
  pass while a timer is due. `HardLimitCorrect` and `CauseCorrect` follow, the
  latter as an action property: the only other ways to end are the chat's and
  the token's.
  `FoldConvergesCorrect` rests on a second invariant, `FoldInv`, which TLC
  confirmed on the instance of `participant`, and with two views, before it was
  proved. `FoldConverges` speaks of a channel at rest and says nothing while
  frames travel; the invariant says what those frames will do. `Converging`: for
  every session the frames on the wire lead the client's fold, one after the
  other, to some chat, and to the one the host holds wherever it sends and has
  refused nothing. A step of the host appends the frame that accounts for what it
  changed; a step of the client takes the first. The remaining parts are what
  that takes. `Asked`: a call of `view` has one question or answer on the way at
  most, so a snapshot is not overtaken by a second one. `Subscribed`: the host
  sends wherever the client is subscribed, unless the call that subscribes still
  waits. `Born`, `HostOK`, `GoneOK`: nothing is sent of a session before it
  exists, its chat comes once, and only what was disposed of is given back. Every
  action is shown to be a move of the client (`ClientMoves`) or of the host
  (`HostMoves`), and each kind keeps the invariant. Of the constants this needs
  `NoChat \notin Chat`: having no chat yet is not a chat.
- **TwinFold.** `AgreeCorrect`: with nothing in `scoping`, a cell of the page is
  absent or is the extension's. The invariant behind it says where a newer value
  is when the two differ: in the *last* action under way that writes the cell
  (`Latest`). A push that overtakes the queue writes the newest value early; the
  queued actions may then take the cell back and forth, and the last of them
  brings that value again. Two more parts are needed: nothing of a catalogue is
  known before its baseline (`Unbased`, else a delta that the extension drops
  and the page folds would part them), and a closed page leaves nothing in the
  queue behind (`Closed`). The task/microtask argument enters as the guards of
  `OpenPage`, `ClosePage` and `Refresh`. This is proved only, no passing run
  repeats it.

- **ToolContribution.** `ContributedCorrect`: a registration may be swallowed by
  the slot of an earlier send. One that still waits will serve the session. One
  that is out and did not serve it belongs to an earlier life of the session
  (`EarlierOK`), and then the `added` event of this life has not even arrived,
  since frames arrive only when the microtasks, such sends among them, have
  drained: the event will register the session again. `KnownOK` is the property
  without its "nothing under way".

- **CodeChain.** For every number of sessions, chains, calls, nodes and views and
  every cap, six theorems rest on one `IInv`, which TLC confirmed on the instance
  of `codechain` before it was proved. Its parts:
  - `StoreOK`: the index is the end, as long as the store may be, of the history
    `recency`, the order in which chains were saved, and lists the ids of the
    rows. `IndexCorrect` alone is not inductive: only from what the order of the
    index means does it follow which row goes when it overflows
    (`RecentCorrect`). The lemma behind it is `EndMoves`: an entry moves to the
    end of a sequence and to the end of that sequence's own end, the oldest past
    the cap is dropped, and the second is an end of the first again.
  - `CorruptOK`: a row that `get` refuses is the one an earlier session left, and
    while it is there nothing was evicted, so dropping it uncovers no gap.
  - `ChainsOK`, `CallsOK`: every chain that is stored, loaded by a call, shown or
    pending is `Good`: its id was minted, and unless a call that adds many nodes
    touched it (`sprawling`) it is within the caps with ids of its own. A call
    re-checks nothing when it ends, so what it loaded must carry the room for
    its node (`CallOK`); that makes `StepwiseCorrect` hold for overlapping calls.
  - `KeptOK`: what was acknowledged for a chain is in its row *and* in what the
    one call on it loaded, unless two writers met (`overlapped`): a call that
    ends saves the chain it loaded, whatever became of the row (`NothingLost`).
  - `ViewOK`: the chain handed over last is shown or stashed, whichever of show
    and update handed it over, and a panel with a view shows one (`Handed`). That
    the view shows *that* one is not true (section 6). `PlaceKept` is an action
    property and looks at every step under `IInv`.

  What `replaceNode` and the filters compute is proved for every tree and every
  index, in `RecursionProofs`. The library's induction takes an operator as a
  parameter and cannot be instantiated; the lemmas there do it over sets instead,
  by a least counterexample (`Inductive`), and build the function a recursive
  definition denotes (`RecursionExists`). For the same reason filters of the
  modules with theorems are the recursive function `EntriesAt` of `Entries` and
  not `SelectSeq`.
- **TutorView.** For every number of sessions, chains, calls, views and searches,
  four theorems: a page that has heard all there is shows the panel's chain, its
  tour and the node the tour is at; what is selected and collapsed is on the
  tree; a page that was told of the cursor keeps up with the watcher; and, an
  action property, the answer to a search never follows that of a newer one. The
  first is the crux. The page is told of the chain, the tour and the cursor by
  messages of a kind each, and is wrong in between; the invariant says that about
  each part it is right, or else the *last* message of that kind still in `inbox`
  says what the panel has (`Follows`). It holds of a page whose `ready` was
  answered (`Caught`); before that `asks` still carries the `ready`, and what the
  panel resends brings everything. Assumed is that `NoChain` is not a chain.
- **DraftSession.** `ActiveCorrect`, `ConfigCorrect` and `FollowsCorrect`, for any
  number of sessions, turns and drafts. `FollowsCorrect` is the long one: a chat
  is held three times, by the host, by the client and by the page's store, with a
  queue between each two. `Leads` says of a queue that the messages in it, folded
  one after the other, turn one end's chat into the other's; `Caught` and `Fed`
  say so of the two queues. A snapshot is what makes this hard, since it replaces
  what was folded: `Serving` says that it reaches a client without a chat, comes
  before every action of its chat, and once. For that the invariant must know
  that a session is asked for once and answered once, whatever the user clicks
  (`Asked`), that nobody holds or carries anything of one that is not made
  (`Unknown`), and that a chat not yet created is on no queue (`Chatless`).
  A subscription may be refused and tried again, by a walk that another one
  overlaps, so `Serving` cannot speak of subscriptions made: `Granted` says that the
  client holds a subscription from the moment the host serves the chat, with no
  refusal of it under way, and that of a chat not served nothing is under way or
  held; `Lone` that one refusal of it is under way at most, since a walk asks
  again only when the last has arrived. `SubscribeStep` is the lemma both a
  walk's first attempt and its retries go through; its content is `Joins`, what a
  subscription changes.
  `ConfigHeard` has a chain of its own: nobody has heard of models before they
  are registered (`Cold`), a config posted before that was posted out of time
  (`Writes`), and so was every one that was refused (`Refusals`).
  `ActiveIsShown` needs that what is open has an edge, and every edge a record
  (`Shown`), through each of the store's methods. Assumed is that `NoChat` is not
  a chat.
- **SymbolResolution.** For every set of names, every size of document, path and
  block and every budget, three theorems. `MatchCorrect` is about the algorithm
  alone: in any nested document the hits of the descent are the ends of the
  chains a path means (`ReachOn`, `MatchElements`), each once. Its crux is
  `InsideSplit`: the pass over the subtree leaves out the subtree's first symbol,
  and loses nothing, because that symbol is a child and the pass over the
  children has met it.
  The other two rest on `ResolveInv`, which TLC confirmed on the instance of
  `tutor_tools` before it was proved. `BoundedCorrect` needs `InTime`: a node
  waits at most four timeouts for each node it is under, and then as long as the
  lookup it joined has taken (`Spent`: the probes behind it, and the one whose
  timer is due). Nodes share lookups, so a late node joins an earlier one's;
  `Asking` says that one who has not asked has no lookup, hence never starts
  again one that others await. `RefreshCorrect` needs that what a call
  placed by a document's own symbols, a refresh finds again in unchanged code
  (`Again`): the path kept with a location is answered by that document with that
  location alone. Of a hit of the index this is not so, and not claimed. After a
  fuzzy hit that is the lemma `FuzzyAgain`. The path kept is what the symbol's own
  name is split into: either the drafted path, which is answered as before, or
  the last segment alone, and then every hit, exact or fuzzy, bears the name only
  this symbol bears. Assumed is that a name is determined by its segments, and
  that the drafts' file, the file of an index hit, a path outside and no file are
  four different values.

The types of `AhpTransport`, `SidebarRelay`, `TwinFold` and `SymbolResolution`
are proved with them. Model-checked only are liveness, `NoneLeftWaiting`, and the
preorder shape of trees that `CodeChain`'s `TypeOK` speaks of.

## 5. Not modelled

The SDK (`AhpClient`, its state mirror and reducers) and the agent host appear
as the environment. Left out of the modelled parts: steering, uploads, queue
edits and settings requests of the webview's API; the memo of the workspace
filter; plan and metrics requests; the call hierarchy's own queries; toasts,
column widths and editor jumps of the tutor. Not to be modelled: rendering,
projections of folded chats into rows, markdown, i18n, command files, HTML; they
are I/O or pure formatting.

## 6. What the violations show, and what else was seen

1. `twin_commands`: the webview takes every `x-manox/baseline` for a bag's, by
   its type, while the extension routes it by channel. The commands catalogue's
   baseline, relayed to an open page, ends up in a bag nobody reads.
2. `drafts_echo`: `confirmDraft` moves a draft's edge and record to the session,
   not its echo, which stays under the draft's key for good. (The thread list
   mints a bare id, so the rekey is not the no-op its comment says.)
3. `panel_stash`: with no view open, `update` sets the chain and `show` stashes
   one beside it. `resolveWebviewView` drains one of the two (`panel.ts:181-193`),
   and its header says both (`panel.ts:23-25`): the view that the show asked for
   shows the updated chain, the one that was to be shown stays behind.
4. `participant_confirm`: `ensureSubscribed` passes over a channel another view
   has merely begun to subscribe, so a request may submit its turn before the
   chat's snapshot has come. If that subscription meets NotFound and is retried,
   its snapshot can bring a pending confirmation. `applySnapshot` calls no
   `changed()`, so nobody denies it until another fold comes or the quiet timeout
   ends the request, against "answered at once" (`participant.ts:7-9`). It takes
   two other views of the session that overlap: opening its row, going back and
   opening it again.

Part of the models, and not runs of their own:

- *Transport of rows.* The boot push reads its rows before it awaits git, and
  every relayed event awaits git on its own: a session removed meanwhile is
  posted after its removal and stays, lookups that end out of order leave an old
  summary over a newer one (`sidebarProvider.ts:125-126`). A working directory
  that does not percent-decode makes the whole boot push fail.
- *Bags.* A row made before its thread channel's bag gets a bag of its own
  (`agentClient.ts:674`), which nothing folds into; the boot push posts it empty.
  After a reload of the page the plan, work and metrics bags are never posted
  again, although `sidebarProvider.ts:143-146` says "every channel the webview
  renders". `applyExtBaseline` says it replaces the bag, and merges.
- *Host events.* A sidebar closed before the handshake leaves a handler behind
  (`agentHost.ts:247`); a view opened later gets every event twice. The watcher
  is subscribed twice, as two closures, which the registrar's guard hides.
- *Channel.* Host verbs lose their tag in the bridge (`vscode-bridge.ts:143`)
  and match no branch of the pump. Pongs of a reloaded page clear the fresh
  page's watchdog; a beat before the next ping is due counts a second miss.
- *Channels on demand.* A second caller of a channel whose snapshot is still to
  come resolves without it (`agentClient.ts:542`, against 329-330); a view opened
  twice may post no chat snapshot. `rejectionReason` of an envelope is ignored
  and the refused action folded; `FoldConverges` leaves those chats out.
- *Participant.* Its `onChange` listener is never removed (`participant.ts:76`):
  denials go out once per fold while a confirmation is pending, and an ended
  request goes on writing. A failing setup leaves its session behind.
- *Drafts.* Only a folded chat action retires echoes, a chat snapshot does not
  (`store.ts:238` against 312-314). A turn sent while the chat is a pointer makes
  the host create the chat with the turn in it; nobody is subscribed then, so it
  reaches the page in the snapshot of the retried subscription alone. The message
  is shown twice from then on, although an echo is "retired when the folded chat
  carries the turn" (`store.ts:401-402`): `EchoRetires`, said of a turn typed once
  the session stands, fails by that alone.
  A refused `createSession` leaves the draft `creating` for ever
  (`client.ts:455`). A cold registry lets the first turn pass the config write
  (`client.ts:462-466`). Submissions whose chat is not known within 15 s are
  dropped without a word; a default chat that the agent host names late reaches
  the webview's record only with a later boot push. A view whose retries run out
  is only logged, and a draft whose confirmation it was to bring stays blocked. A
  turn that reaches a pointer may be lost. `openRemote` of a finished `newSession`
  takes the focus from whatever was opened meanwhile. A view that resolves after
  its session's removal brings the row back.
- *Code Tutor tools.* One Extend block, or one Expand, takes a chain past the 48
  nodes or 4 levels the tool description says the host enforces; Extend accepts
  ids the chain already has. A failing first node is counted under an id minted
  for that attempt, so it is refused for ever instead of three times. Two calls on
  one chain that overlap save what each has loaded: the later one takes the
  earlier one's nodes away, acknowledged as they are.
- *Panel.* With no chain the panel resends nothing, and the watcher does not
  repeat itself, so the highlight is lost over a close and a reopening. The
  bridge drops `references` (`bridge.ts:33`), so a drawer waits for ever.
- *Resolution.* A refresh asks for its nodes one after the other, with nothing
  shared: a silent server costs 20 s per node, and 16 nodes exceed the 300 s
  `lspClient.ts:11-13` says no call outlasts. It marks every found node stale
  then. A candidate that was picked turns stale in a refresh of unchanged code
  (`panel.ts:328-346`): the path asked for is still the ambiguous one. A
  refresh compares lines and not documents. A node the index placed is asked for
  in the document it was placed in: where that reports other lines, or several
  symbols of the name, unchanged code comes out moved or stale. Ambiguous
  outcomes carry no reason.

## 7. Further work

In order of weight: the shape of chain trees as a theorem; a passing run of
`TwinFold`; the filter's memo, and when it restores order.

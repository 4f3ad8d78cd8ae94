-------------------------- MODULE ToolContribution --------------------------
(***************************************************************************)
(* How the Code Tutor's client tools reach every session                   *)
(* (src/codechain/registration.ts, src/codechain/sessionRegistrar.ts): the *)
(* contribution lives in the agent host's memory and dies with the session,*)
(* so it is replayed on every edge of the session's life that the client   *)
(* hears of: the ready replay, sessionAdded, a claim of the sidebar.  The  *)
(* agent host lives on while its events travel, and a session may come     *)
(* back under the same URI.                                                *)
(*                                                                         *)
(* The extension host is one JavaScript thread: frames arrive, and VS Code *)
(* calls, only when the microtasks (folds, `ready` callbacks, the settling *)
(* of a send) have drained.  Which microtask runs first is left open.      *)
(***************************************************************************)
EXTENDS Naturals, Sequences, FiniteSets, Bags

CONSTANTS Sessions,
          PreExisting,   \* sessions in the store before the connection
          HasWorkspace,  \* a workspace folder is open
          MaxMoves,      \* bound: creations, disposals, catalogue answers
          MaxClaims      \* bound: claims of the sidebar

ASSUME ContributionAssumption ==
  /\ PreExisting \subseteq Sessions
  /\ HasWorkspace \in BOOLEAN
  /\ MaxMoves \in Nat /\ MaxClaims \in Nat

VARIABLES
  live,         \* agent host: the sessions it holds
  contributed,  \* agent host: sessions whose activeClients carry the tools
  moves,        \* agent host: moves made
  wire,         \* events on their way to the client
  arrived,      \* how many of them have reached the transport's inbox
  stage,        \* the client: connecting, pumping, ready
  rows,         \* ManoxClient.sessions
  service,      \* the Code Tutor: absent, installed, subscribed, replayed
  inFlight,     \* SessionToolRegistrar.inFlight
  sends,        \* bag: sends not settled, waiting for `ready` or dispatched
  claims        \* claims made

hostVars == <<live, contributed, moves>>
vars == <<hostVars, wire, arrived, stage, rows, service, inFlight, sends, claims>>

Event == [kind : {"added", "removed", "listed"}, s : Sessions]
SendRecord == [s : Sessions, st : {"waiting", "dispatched"}]
-----------------------------------------------------------------------------
(* Every variable keeps its type. *)
TypeOK ==
  /\ live \subseteq Sessions
  /\ contributed \subseteq live
  /\ moves \in 0..MaxMoves
  /\ wire \in Seq(Event)
  /\ arrived \in 0..Len(wire)
  /\ stage \in {"connecting", "pumping", "ready"}
  /\ rows \subseteq Sessions
  /\ service \in {"absent", "installed", "subscribed", "replayed"}
  /\ inFlight \subseteq Sessions
  /\ BagToSet(sends) \subseteq SendRecord
  /\ claims \in 0..MaxClaims

Init ==
  /\ live = PreExisting
  /\ contributed = {}
  /\ moves = 0
  /\ wire = <<>>
  /\ arrived = 0
  /\ stage = "connecting"
  /\ rows = {}
  /\ service = "absent"
  /\ inFlight = {}
  /\ sends = EmptyBag
  /\ claims = 0
-----------------------------------------------------------------------------
(* External: the agent host tells a connected client. *)
Tell(kind, s) ==
  wire' = IF stage = "connecting" THEN wire ELSE Append(wire, [kind |-> kind, s |-> s])

(* External: a session is created, or cold-opened again under its URI. *)
HostCreates(s) ==
  /\ moves < MaxMoves
  /\ s \notin live
  /\ moves' = moves + 1
  /\ live' = live \cup {s}
  /\ Tell("added", s)
  /\ UNCHANGED <<contributed, arrived, stage, rows, service, inFlight, sends, claims>>

(* External: a session is disposed of; its contributions die with it. *)
HostDisposes(s) ==
  /\ moves < MaxMoves
  /\ s \in live
  /\ moves' = moves + 1
  /\ live' = live \ {s}
  /\ contributed' = contributed \ {s}
  /\ Tell("removed", s)
  /\ UNCHANGED <<arrived, stage, rows, service, inFlight, sends, claims>>

(* External: a catalogue page of the client's sweep names a session. *)
HostLists(s) ==
  /\ stage # "connecting"
  /\ moves < MaxMoves
  /\ s \in live
  /\ moves' = moves + 1
  /\ Tell("listed", s)
  /\ UNCHANGED <<live, contributed, arrived, stage, rows, service, inFlight, sends, claims>>
-----------------------------------------------------------------------------
(* What the microtask queue may still hold. *)
MicrotasksDrained ==
  /\ arrived = 0
  /\ stage # "pumping"
  /\ stage = "ready" => sends = EmptyBag /\ service \in {"absent", "replayed"}

(* Frames reach the inbox, behind those of the handshake or on their own. *)
FramesArrive ==
  /\ MicrotasksDrained \/ stage = "pumping"
  /\ stage # "connecting"
  /\ \E n \in (arrived + 1)..Len(wire) : arrived' = n
  /\ UNCHANGED <<hostVars, wire, stage, rows, service, inFlight, sends, claims>>

StartPumping ==
  /\ stage = "connecting"
  /\ stage' = "pumping"
  /\ UNCHANGED <<hostVars, wire, arrived, rows, service, inFlight, sends, claims>>

(* registerSession for each of a set of sessions, once or several times in *)
(* a row: a send of the session in flight stands for all of them.          *)
Register(ss) ==
  LET fresh == IF HasWorkspace THEN ss \ inFlight ELSE {} IN
  /\ inFlight' = inFlight \cup fresh
  /\ sends' = sends (+) SetToBag({[s |-> s, st |-> "waiting"] : s \in fresh})

(* AgentHost.ready resolves: its continuation routes the buffered watcher. *)
BecomeReady ==
  /\ stage = "pumping"
  /\ stage' = "ready"
  /\ service' = IF service = "installed" THEN "subscribed" ELSE service
  /\ UNCHANGED <<hostVars, wire, arrived, rows, inFlight, sends, claims>>

(* ensureCodeChain, once, by the first surface that has an AgentHost. *)
InstallService ==
  /\ MicrotasksDrained
  /\ service = "absent"
  /\ service' = "installed"
  /\ UNCHANGED <<hostVars, wire, arrived, stage, rows, inFlight, sends, claims>>

(* The service was installed on a ready host: onSessionEvent's callback. *)
SubscribeLate ==
  /\ service = "installed"
  /\ stage = "ready"
  /\ service' = "subscribed"
  /\ UNCHANGED <<hostVars, wire, arrived, stage, rows, inFlight, sends, claims>>

(* A replay that runs ahead of the subscription. *)
ReplayFirst ==
  \/ /\ service = "installed" /\ stage = "ready"
     /\ service' = "subscribed"
     /\ Register(rows)
     /\ UNCHANGED <<hostVars, wire, arrived, stage, rows, claims>>
  \/ /\ service = "subscribed"
     /\ service' = "replayed"
     /\ UNCHANGED <<hostVars, wire, arrived, stage, rows, inFlight, sends, claims>>

(* replayReady: its second await puts it behind the subscription. *)
ReplayReady ==
  /\ service = "subscribed"
  /\ service' = "replayed"
  /\ Register(rows)
  /\ UNCHANGED <<hostVars, wire, arrived, stage, rows, claims>>

Listening == service \in {"subscribed", "replayed"}

(* onSessionDisposed. *)
FreeSlot(s) == inFlight' = inFlight \ {s} /\ UNCHANGED sends

(* The client folds an event, the relay hands it to the registrar.  A row  *)
(* the sweep lists is relayed as sessionAdded only when it is new.         *)
FoldEvent ==
  /\ arrived > 0
  /\ arrived' = arrived - 1
  /\ wire' = Tail(wire)
  /\ LET e == Head(wire) IN
     \/ /\ e.kind = "added" \/ (e.kind = "listed" /\ e.s \notin rows)
        /\ rows' = rows \cup {e.s}
        /\ IF Listening THEN Register({e.s}) ELSE UNCHANGED <<inFlight, sends>>
     \/ /\ e.kind = "listed" /\ e.s \in rows
        /\ UNCHANGED <<rows, inFlight, sends>>
     \/ /\ e.kind = "removed"
        /\ rows' = rows \ {e.s}
        /\ IF Listening THEN FreeSlot(e.s) ELSE UNCHANGED <<inFlight, sends>>
  /\ UNCHANGED <<hostVars, stage, service, claims>>

(* {t:'viewing'} of the sidebar: codeChainRegisterSession. *)
Claim(s) ==
  /\ MicrotasksDrained
  /\ claims < MaxClaims
  /\ claims' = claims + 1
  /\ IF service # "absent" THEN Register({s}) ELSE UNCHANGED <<inFlight, sends>>
  /\ UNCHANGED <<hostVars, wire, arrived, stage, rows, service>>

(* The send's host.ready.then: setActiveClientTools reaches the agent host,*)
(* which knows the session or refuses.                                     *)
Dispatch(s) ==
  /\ stage = "ready"
  /\ BagIn([s |-> s, st |-> "waiting"], sends)
  /\ sends' = (sends (-) SetToBag({[s |-> s, st |-> "waiting"]}))
                (+) SetToBag({[s |-> s, st |-> "dispatched"]})
  /\ contributed' = IF s \in live THEN contributed \cup {s} ELSE contributed
  /\ UNCHANGED <<live, moves, wire, arrived, stage, rows, service, inFlight, claims>>

(* A settled send that keeps its slot: "seen this session". *)
SettleKeepingSlot(s) ==
  /\ BagIn([s |-> s, st |-> "dispatched"], sends)
  /\ sends' = sends (-) SetToBag({[s |-> s, st |-> "dispatched"]})
  /\ UNCHANGED <<hostVars, wire, arrived, stage, rows, service, inFlight, claims>>

(* The finally of a send frees the slot, whoever holds it by now. *)
Settle(s) ==
  /\ BagIn([s |-> s, st |-> "dispatched"], sends)
  /\ sends' = sends (-) SetToBag({[s |-> s, st |-> "dispatched"]})
  /\ inFlight' = inFlight \ {s}
  /\ UNCHANGED <<hostVars, wire, arrived, stage, rows, service, claims>>
-----------------------------------------------------------------------------
Next ==
  \/ \E s \in Sessions : HostCreates(s) \/ HostDisposes(s) \/ HostLists(s)
  \/ StartPumping \/ BecomeReady \/ InstallService \/ SubscribeLate \/ ReplayReady
  \/ FramesArrive \/ FoldEvent
  \/ \E s \in Sessions : Claim(s) \/ Dispatch(s) \/ Settle(s)

(* Microtasks run and the wire delivers. *)
Fairness ==
  /\ WF_vars(FramesArrive) /\ WF_vars(FoldEvent)
  /\ WF_vars(SubscribeLate) /\ WF_vars(ReplayReady)
  /\ \A s \in Sessions : WF_vars(Dispatch(s)) /\ WF_vars(Settle(s))

Spec == Init /\ [][Next]_vars
FairSpec == Spec /\ Fairness
-----------------------------------------------------------------------------
Quiet == service = "replayed" /\ wire = <<>> /\ sends = EmptyBag

(* Once nothing is under way, every session the client knows carries the   *)
(* tools in its current life, however disposals, reopenings, catalogue     *)
(* pages, claims and the handshake interleaved with sends in flight.       *)
KnownSessionsContributed ==
  HasWorkspace /\ Quiet => \A s \in rows \cap live : s \in contributed

(* A session the client knows gets the tools unless it goes away. *)
KnownSessionsGetTools ==
  \A s \in Sessions :
    (Listening /\ HasWorkspace /\ s \in rows \cap live)
      ~> (s \in contributed \/ s \notin rows \cap live)
=============================================================================

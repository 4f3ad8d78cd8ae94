----------------------------- MODULE HostEvents -----------------------------
(***************************************************************************)
(* How AgentHost fans the client's events out while its handshake is still *)
(* running (src/agentHost.ts): a subscription is buffered in a list the    *)
(* handshake's first continuation empties into the client, and each        *)
(* subscription also has a `ready.then` callback of its own.  The sidebar  *)
(* subscribes one relay handler per resolved view and posts what the       *)
(* handler hears to whichever view is open (src/sidebar/                   *)
(* sidebarProvider.ts); the Code Tutor subscribes one watcher.             *)
(***************************************************************************)
EXTENDS Naturals, FiniteSets

CONSTANTS Relays,     \* handlers given to onRelayEvent, one per view
          Watchers,   \* handlers given to onSessionEvent
          NoView

ASSUME HandlersAssumption ==
  /\ Relays \cap Watchers = {}
  /\ IsFiniteSet(Relays \cup Watchers)
  /\ NoView \notin Relays

Handlers == Relays \cup Watchers

VARIABLES
  handshake,  \* ManoxClient.start: running, events pumping, AgentHost.ready, failed
  phase,      \* each handler: not yet attached, attached, detached
  pending,    \* AgentHost.pendingSessionEvents
  due,        \* handlers whose ready.then callback has not run
  offs,       \* handlers whose `unsubscribe` has been assigned
  subs,       \* ManoxClient.eventSubs
  view,       \* the relay handler of the open view
  early,      \* history: handlers attached before the handshake completed
  clean       \* history: handlers detached with `unsubscribe` in hand

vars == <<handshake, phase, pending, due, offs, subs, view, early, clean>>

(* What eventSubs holds for a handler.  A relay handler is subscribed as   *)
(* it is, a watcher inside a new closure each time.                        *)
Closure(h, via) == IF h \in Relays THEN <<h, "itself">> ELSE <<h, via>>
Closures == {Closure(h, via) : h \in Handlers, via \in {"buffered", "late"}}
-----------------------------------------------------------------------------
(* Every variable keeps its type. *)
TypeOK ==
  /\ handshake \in {"running", "pumping", "ready", "failed"}
  /\ phase \in [Handlers -> {"new", "attached", "detached"}]
  /\ pending \subseteq Handlers
  /\ due \subseteq Handlers
  /\ offs \subseteq Handlers
  /\ subs \subseteq Closures
  /\ view \in Relays \cup {NoView}
  /\ early \subseteq Handlers
  /\ clean \subseteq Handlers

Init ==
  /\ handshake = "running"
  /\ phase = [h \in Handlers |-> "new"]
  /\ pending = {}
  /\ due = {}
  /\ offs = {}
  /\ subs = {}
  /\ view = NoView
  /\ early = {}
  /\ clean = {}
-----------------------------------------------------------------------------
(* ready.then callbacks are microtasks: once the handshake has completed,  *)
(* VS Code's own calls find none of the given handlers' outstanding.       *)
NoneOutstanding(hs) == handshake = "ready" => due \cap hs = {}

(* ManoxClient.start attaches the initial subscriptions: events flow. *)
StartPumping ==
  /\ handshake = "running"
  /\ handshake' = "pumping"
  /\ UNCHANGED <<phase, pending, due, offs, subs, view, early, clean>>

(* A continuation that leaves the handlers to their late callbacks. *)
BecomeReadyUnbuffered ==
  /\ handshake = "pumping"
  /\ handshake' = "ready"
  /\ pending' = {}
  /\ UNCHANGED <<phase, due, offs, subs, view, early, clean>>

(* The first continuation of the handshake: buffered handlers first. *)
BecomeReady ==
  /\ handshake = "pumping"
  /\ handshake' = "ready"
  /\ subs' = subs \cup {Closure(h, "buffered") : h \in pending}
  /\ pending' = {}
  /\ UNCHANGED <<phase, due, offs, view, early, clean>>

HandshakeFails ==
  /\ handshake = "running"
  /\ handshake' = "failed"
  /\ UNCHANGED <<phase, pending, due, offs, subs, view, early, clean>>

(* onRelayEvent (resolveWebviewView) and onSessionEvent (ensureCodeChain). *)
Attach(h) ==
  /\ NoneOutstanding(early)
  /\ phase[h] = "new"
  /\ h \in Relays => view = NoView
  /\ phase' = [phase EXCEPT ![h] = "attached"]
  /\ pending' = pending \cup {h}
  /\ due' = due \cup {h}
  /\ view' = IF h \in Relays THEN h ELSE view
  /\ early' = IF handshake \in {"running", "pumping"} THEN early \cup {h} ELSE early
  /\ UNCHANGED <<handshake, offs, subs, clean>>

(* The ready.then callback of a subscription, detached or not. *)
SubscribeLate(h) ==
  /\ handshake = "ready"
  /\ h \in due
  /\ due' = due \ {h}
  /\ subs' = subs \cup {Closure(h, "late")}
  /\ offs' = offs \cup {h}
  /\ UNCHANGED <<handshake, phase, pending, view, early, clean>>

(* Detaching that forgets the client's subscription. *)
DetachOnlyPending(h) ==
  /\ NoneOutstanding(Handlers)
  /\ phase[h] = "attached"
  /\ phase' = [phase EXCEPT ![h] = "detached"]
  /\ pending' = pending \ {h}
  /\ clean' = IF h \in offs THEN clean \cup {h} ELSE clean
  /\ view' = IF h = view THEN NoView ELSE view
  /\ UNCHANGED <<handshake, due, offs, subs, early>>

(* The returned unsubscribe: the view's teardown, the service's dispose. *)
Detach(h) ==
  /\ NoneOutstanding(Handlers)
  /\ phase[h] = "attached"
  /\ phase' = [phase EXCEPT ![h] = "detached"]
  /\ pending' = pending \ {h}
  /\ subs' = IF h \in offs THEN subs \ {Closure(h, "late")} ELSE subs
  /\ clean' = IF h \in offs THEN clean \cup {h} ELSE clean
  /\ view' = IF h = view THEN NoView ELSE view
  /\ UNCHANGED <<handshake, due, offs, early>>

Next ==
  \/ StartPumping
  \/ BecomeReady
  \/ HandshakeFails
  \/ \E h \in Handlers : Attach(h) \/ SubscribeLate(h) \/ Detach(h)

Spec == Init /\ [][Next]_vars
-----------------------------------------------------------------------------
Subscribed(h) == \E via \in {"buffered", "late", "itself"} : <<h, via>> \in subs

(* "Handlers attached before the handshake completes receive everything    *)
(* from the start": from the moment AgentHost.ready resolves there is no   *)
(* gap between the buffered subscription and the late one, and a handler   *)
(* attached later hears everything once its callback has run.              *)
NothingMissed ==
  handshake = "ready" =>
    \A h \in Handlers :
      phase[h] = "attached" /\ (h \in early \/ h \notin due) => Subscribed(h)

(* A closed view that had its unsubscribe in hand hears nothing again, and *)
(* no relay handler ever hears an event twice, although it is subscribed   *)
(* twice.                                                                  *)
RelaysHearOnce ==
  \A h \in Relays :
    /\ Cardinality({via \in {"buffered", "late", "itself"} : <<h, via>> \in subs}) <= 1
    /\ h \in clean => ~Subscribed(h)

=============================================================================

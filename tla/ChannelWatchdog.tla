--------------------------- MODULE ChannelWatchdog ---------------------------
(***************************************************************************)
(* The heartbeat of the sidebar's webview over its postMessage channel     *)
(* (webview state/watchdog.ts, api/vscode-bridge.ts; the host's echo is in *)
(* sidebar/sidebarProvider.ts).  The page pings on every beat of an        *)
(* interval, any message of the host counts as life, and a page that hears *)
(* nothing reloads itself, which rebuilds the channel.                     *)
(*                                                                         *)
(* Pings and pongs carry no sequence number here: the listener reports     *)
(* life for every message before it looks at a pong, so the comparison in  *)
(* onPong has nothing left to decide.  The interval timer jitters by less  *)
(* than a beat, so the first beat after a ping may find the ping interval  *)
(* not yet elapsed, the second cannot.                                     *)
(***************************************************************************)
EXTENDS Naturals, Sequences

CONSTANTS MissLimit,     \* DEFAULT_MISS_LIMIT
          MaxInFlight    \* bound: messages in flight in each direction

ASSUME WatchdogAssumption == MissLimit \in Nat \ {0} /\ MaxInFlight \in Nat \ {0}

(* The tags of the host's messages. *)
HostMessage == {"pong", "event", "verb"}

VARIABLES
  visible,     \* document.visibilityState
  alive,       \* the host -> webview channel delivers
  toHost,      \* how many pings are on their way
  toView,      \* the host's messages on their way
  outstanding, misses, stale,   \* the watchdog
  beatPassed,  \* a beat has passed since the last ping
  page,        \* which page this is, modulo 2
  prompt,      \* this host answers a visible page within a beat; never changes
  disturbed    \* history: this page was hidden or its channel dead at some time

dogVars == <<outstanding, misses, stale, beatPassed, page>>
watchdogVars == <<visible, alive, toHost, toView, dogVars, disturbed, prompt>>
-----------------------------------------------------------------------------
FlagsOK ==
  /\ visible \in BOOLEAN
  /\ alive \in BOOLEAN
  /\ outstanding \in BOOLEAN
  /\ stale \in BOOLEAN
  /\ beatPassed \in BOOLEAN
  /\ disturbed \in BOOLEAN
  /\ prompt \in BOOLEAN

QueuesOK ==
  /\ toHost \in 0..MaxInFlight
  /\ toView \in Seq(HostMessage) /\ Len(toView) <= MaxInFlight

CountsOK ==
  /\ misses \in 0..MissLimit
  /\ page \in 0..1

(* Every variable keeps its type. *)
WatchdogTypeOK == FlagsOK /\ QueuesOK /\ CountsOK

(* onMount: the first ping is posted at once. *)
WatchdogInit ==
  /\ visible = TRUE
  /\ alive = TRUE
  /\ toHost = 1
  /\ toView = <<>>
  /\ outstanding = TRUE
  /\ misses = 0
  /\ stale = FALSE
  /\ beatPassed = FALSE
  /\ page = 0
  /\ disturbed = FALSE
  /\ prompt \in BOOLEAN
-----------------------------------------------------------------------------
(* The misses once a beat has counted the ping that was never answered. *)
CountedMisses == IF outstanding THEN misses + 1 ELSE misses

(* sendPing of a watchdog that forgives what came before. *)
SendPingForgiving ==
  /\ outstanding' = TRUE
  /\ misses' = 0
  /\ beatPassed' = FALSE
  /\ toHost' = toHost + 1
  /\ UNCHANGED <<toView, stale, page>>

(* sendPing, on a beat that has counted the misses. *)
SendPing ==
  /\ outstanding' = TRUE
  /\ misses' = CountedMisses
  /\ beatPassed' = FALSE
  /\ toHost' = toHost + 1
  /\ UNCHANGED <<toView, stale, page>>

(* reloadSelf: a fresh page, a fresh channel, a fresh watchdog; messages   *)
(* of the old page's pings may still arrive.                               *)
Reload ==
  /\ alive' = TRUE
  /\ toHost' = toHost + 1
  /\ outstanding' = TRUE
  /\ misses' = 0
  /\ stale' = FALSE
  /\ beatPassed' = FALSE
  /\ page' = 1 - page
  /\ disturbed' = FALSE
  /\ UNCHANGED toView

(* A stale page reloads on a beat while it is visible. *)
ReloadOnBeat == visible /\ Reload

(* Room for one more ping (the bound on messages in flight), and the       *)
(* real-time reading of prompt.                                            *)
BeatDue ==
  /\ toHost < MaxInFlight
  /\ prompt /\ alive /\ visible => toHost = 0 /\ toView = <<>>

(* The heartbeat interval: watchdog.tick(), then the verdict. *)
Beat ==
  /\ BeatDue
  /\ \/ /\ ~stale /\ CountedMisses < MissLimit
        /\ \/ SendPing
           \/ /\ ~beatPassed
              /\ misses' = CountedMisses
              /\ beatPassed' = TRUE
              /\ UNCHANGED <<outstanding, stale, page, toHost, toView>>
        /\ UNCHANGED <<alive, disturbed>>
     \/ /\ stale \/ CountedMisses >= MissLimit
        /\ \/ ReloadOnBeat
           \/ /\ ~visible
              /\ stale' = TRUE
              /\ misses' = IF stale THEN misses ELSE CountedMisses
              /\ UNCHANGED <<outstanding, beatPassed, page, toHost, toView,
                             alive, disturbed>>
  /\ UNCHANGED <<visible, prompt>>

(* The view is hidden; the iframe is retained. *)
Hide ==
  /\ visible
  /\ visible' = FALSE
  /\ disturbed' = TRUE
  /\ UNCHANGED <<alive, toHost, toView, dogVars, prompt>>

(* onVisibility: a page found stale reloads when it is shown. *)
Show ==
  /\ ~visible
  /\ visible' = TRUE
  /\ UNCHANGED prompt
  /\ \/ stale /\ toHost < MaxInFlight /\ Reload
     \/ ~stale /\ UNCHANGED <<alive, toHost, toView, dogVars, disturbed>>
-----------------------------------------------------------------------------
(* The host posts; a dead channel swallows it. *)
Post(m) ==
  /\ Len(toView) < MaxInFlight
  /\ toView' = IF alive THEN Append(toView, m) ELSE toView

(* onWebviewMessage, case 'ping': echo it. *)
HostEcho ==
  /\ toHost > 0
  /\ toHost' = toHost - 1
  /\ Post("pong")
  /\ UNCHANGED <<visible, alive, dogVars, disturbed, prompt>>

(* The relay and the command handlers post what they have to say. *)
HostPost ==
  /\ \E m \in {"event", "verb"} : Post(m)
  /\ UNCHANGED <<visible, alive, toHost, dogVars, disturbed, prompt>>

(* External: the extension host restarts and the retained iframe goes deaf.*)
HostRestart ==
  /\ alive
  /\ alive' = FALSE
  /\ toView' = <<>>
  /\ toHost' \in {toHost, 0}
  /\ disturbed' = TRUE
  /\ UNCHANGED <<visible, dogVars, prompt>>

(* A listener that consumes pongs before it reports life. *)
HeardAllButPongs(m) == m # "pong"

(* What clears the watchdog: onAnyHostMessage, which comes before onPong   *)
(* and leaves it nothing to compare.                                       *)
Heard(m) == TRUE

(* The page's message listener. *)
ViewReceive ==
  /\ toView # <<>>
  /\ toView' = Tail(toView)
  /\ IF Heard(Head(toView))
     THEN outstanding' = FALSE /\ misses' = 0
     ELSE UNCHANGED <<outstanding, misses>>
  /\ UNCHANGED <<visible, alive, toHost, stale, beatPassed, page, disturbed, prompt>>
-----------------------------------------------------------------------------
WatchdogNext == Beat \/ Hide \/ Show \/ HostEcho \/ HostPost \/ HostRestart \/ ViewReceive

(* The interval timer fires; the host and the page handle what arrives. *)
Fairness == WF_watchdogVars(Beat) /\ WF_watchdogVars(HostEcho) /\ WF_watchdogVars(ViewReceive)

WatchdogSpec == WatchdogInit /\ [][WatchdogNext]_watchdogVars
FairSpec == WatchdogSpec /\ Fairness
-----------------------------------------------------------------------------
(* A page whose host answers within a beat is never declared stale, unless *)
(* it was hidden or its channel did die: early beats, earlier pings and    *)
(* pongs of a page reloaded away never add up to a verdict.                *)
NoNeedlessVerdict ==
  [][prompt /\ (stale' \/ page' # page) => disturbed]_watchdogVars

(* A dead channel is rebuilt, if the view keeps being shown, however beats,*)
(* pings and changes of visibility interleave.                             *)
DeadChannelHeals == ([]<>visible) => (~alive ~> alive)

=============================================================================

----------------------------- MODULE MCChannels -----------------------------
(***************************************************************************)
(* One instance of the three links an event takes on its way to the page:  *)
(* the binding to the client (AhpTransport), the client to the view's      *)
(* relay (HostEvents), the extension to its page (ChannelWatchdog). Their  *)
(* specifications share no variable, so each is explored with the others   *)
(* at rest in their initial states.                                        *)
(***************************************************************************)
EXTENDS AhpTransport, HostEvents, ChannelWatchdog

VARIABLE running   \* the link this behaviour is about; never changes

linkVars == <<transportVars, vars, watchdogVars, running>>

MCInit ==
  /\ TransportInit /\ Init /\ WatchdogInit
  /\ running \in {"transport", "events", "watchdog"}

MCNext ==
  \/ /\ running = "transport" /\ TransportNext
     /\ UNCHANGED <<vars, watchdogVars, running>>
  \/ /\ running = "events" /\ Next
     /\ UNCHANGED <<transportVars, watchdogVars, running>>
  \/ /\ running = "watchdog" /\ WatchdogNext
     /\ UNCHANGED <<transportVars, vars, running>>

MCSpec ==
  /\ MCInit /\ [][MCNext]_linkVars
  /\ running = "transport" => TransportFairness
  /\ running = "watchdog" => Fairness
=============================================================================

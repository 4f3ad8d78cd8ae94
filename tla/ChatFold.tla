------------------------------ MODULE ChatFold ------------------------------
(***************************************************************************)
(* The state of one chat and its reducer. The reducer is chatReducer of    *)
(* @microsoft/agent-host-protocol, which the agent host, the extension's   *)
(* client and the webview all run; it is external and modelled from what   *)
(* the repository relies on. A turn is its id, what streams into it is     *)
(* left out, and one tool call at a time asks for confirmation.            *)
(***************************************************************************)
EXTENDS Naturals

CONSTANTS Turns,    \* ids of turns, minted by the client that submits
          NoTurn,   \* no turn is active
          NoChat    \* the chat is not folded, or does not exist

Chat == [active: Turns \cup {NoTurn}, over: SUBSET Turns,
         call: {"none", "pending", "denied"}, failed: BOOLEAN]

\* emptyChat of agentClient.ts and of the webview's store.ts.
EmptyChat == [active |-> NoTurn, over |-> {}, call |-> "none", failed |-> FALSE]

Actions == [type: {"draft", "start", "text", "ask", "deny", "end", "fail"},
            turn: Turns \cup {NoTurn}]

Act(type, turn) == [type |-> type, turn |-> turn]

Running(c, turn) == c.active # NoTurn /\ c.active = turn

Ended(c, turn) ==
    IF Running(c, turn)
    THEN [c EXCEPT !.active = NoTurn, !.over = @ \cup {turn}, !.call = "none"]
    ELSE c

\* The fold of one action. An action about a turn that is not the active one
\* changes nothing; a start takes the active turn's place.
Reduce(c, a) ==
    CASE a.type = "start" -> [c EXCEPT !.active = a.turn, !.call = "none"]
      [] a.type = "ask" /\ Running(c, a.turn) -> [c EXCEPT !.call = "pending"]
      [] a.type = "deny" /\ Running(c, a.turn) /\ c.call = "pending" ->
           [c EXCEPT !.call = "denied"]
      [] a.type = "end" -> Ended(c, a.turn)
      [] a.type = "fail" -> [Ended(c, a.turn) EXCEPT !.failed = TRUE]
      [] OTHER -> c

\* What the host takes of a client's actions. It echoes a refused one too,
\* with a rejection reason, and leaves its own state alone.
Takes(c, a) ==
    CASE a.type = "start" -> c.active = NoTurn /\ a.turn \notin c.over
      [] a.type = "deny" -> Running(c, a.turn) /\ c.call = "pending"
      [] a.type = "end" -> Running(c, a.turn)
      [] OTHER -> TRUE
=============================================================================

---------------------------- MODULE MCTutorTools ----------------------------
(***************************************************************************)
(* Instances of ToolContribution and SymbolResolution for TLC: how a       *)
(* session comes by the tools, and what a call of one has resolved. The    *)
(* two share no variable, so each is explored with the other at rest.      *)
(* Contribution: one session of the store, one that comes later; both may  *)
(* be disposed of and come back. Resolution: one node over every document  *)
(* of up to three symbols; blocks of siblings, of nodes that share a       *)
(* symbol, of a node under another and of nodes with nothing to ask.       *)
(***************************************************************************)
EXTENDS ToolContribution, SymbolResolution

CONSTANTS A, B, AB

MCSpelled == [n \in Names |-> IF n = AB THEN <<A, B>> ELSE <<n>>]

Call(up, path) == [up |-> up, file |-> Code, path |-> path, kind |-> "call"]

Siblings == <<Call(0, <<A, B>>), Call(0, <<B>>)>>
Sharing == <<Call(0, <<A, B>>), Call(0, <<A, B>>)>>
Nesting == <<Call(0, <<A, B>>), Call(1, <<B>>)>>
Askless ==
  <<[up |-> 0, file |-> NoFile, path |-> <<>>, kind |-> "note"],
    [up |-> 1, file |-> Outside, path |-> <<A>>, kind |-> "call"],
    [up |-> 1, file |-> Code, path |-> <<>>, kind |-> "note"],
    [up |-> 0, file |-> NoFile, path |-> <<A>>, kind |-> "call"],
    Call(0, <<>>)>>
MCDrafts == {<<Call(0, <<A, B>>)>>, Siblings, Sharing, Nesting, Askless}

Symbol(n, d) == [name |-> n, depth |-> d]
MCTrees == {<<Symbol(AB, 0)>>, <<Symbol(A, 0), Symbol(B, 1), Symbol(B, 0)>>}
-----------------------------------------------------------------------------
VARIABLE running   \* the part this behaviour is about; never changes

toolVars == <<vars, resolveVars, running>>

MCInit ==
  /\ Init /\ ResolveInit
  /\ running \in {"contribution", "resolution"}
  /\ running = "contribution" => tree = <<>>

MCNext ==
  \/ running = "contribution" /\ Next /\ UNCHANGED <<resolveVars, running>>
  \/ running = "resolution" /\ ResolveNext /\ UNCHANGED <<vars, running>>

Resolving(step) == running = "resolution" /\ step

(* The fairness of both; at rest, nothing of Fairness is enabled. *)
MCSpec ==
  /\ MCInit /\ [][MCNext]_toolVars
  /\ Fairness
  /\ WF_resolveVars(Resolving(Tick)) /\ WF_resolveVars(Resolving(Reply))
  /\ WF_resolveVars(Resolving(\E n \in Nodes : Start(n) \/ FileAnswers(n) \/ Place(n)))
  /\ WF_resolveVars(Resolving(\E n \in Nodes :
                       RefreshSkips(n) \/ RefreshAsks(n) \/ RefreshPlaces(n)))
  /\ WF_resolveVars(Resolving(\E n \in Nodes : ProbeTimesOut(n)))

(* EndsDespiteSilence of the resolutions that run: a call is answered      *)
(* although the language server never answers a probe of it (tools.ts).    *)
CallsEnd == running = "resolution" => EndsDespiteSilence
=============================================================================

----------------------------- MODULE TutorPanel -----------------------------
(***************************************************************************)
(* The Code Tutor view (src/codechain/panel.ts): the chain it shows, the   *)
(* chain handed to it before there was a view, and the cursor of the tour. *)
(* VS Code resolves views as often as it likes; the latest is the current  *)
(* one, and a replaced view may be disposed of later.  The webview shows   *)
(* the panel's state: `ready` is answered with all of it.                  *)
(***************************************************************************)
EXTENDS ChainStore

CONSTANTS
  Views,         \* webview views, as many as may be alive at once
  NoView,        \* no view
  NoNode         \* no tour stop

VARIABLES
  view,          \* the current view
  alive,         \* views not disposed of
  shown,         \* chain
  pending,       \* pendingChain
  cursor,        \* tourIndex + 1: 0 before the first stop
  stop           \* tourNodeId

panelVars == <<view, alive, shown, pending, cursor, stop>>

PanelInit ==
  /\ view = NoView /\ alive = {}
  /\ shown = NoChain /\ pending = NoChain
  /\ cursor = 0 /\ stop = NoNode

Tour == IF shown = NoChain THEN <<>> ELSE TourOrder(shown.tree)

(* Mutant of SetChain: every push starts the tour again. *)
SetChainAfresh(chain, newGeneration) ==
  /\ shown' = chain
  /\ cursor' = 0
  /\ stop' = NoNode

(* setChain: the cursor stays on its node within one chain. *)
SetChain(chain, newGeneration) ==
  LET tour == TourOrder(chain.tree)
      keep == IF newGeneration THEN NoNode ELSE stop
  IN  /\ shown' = chain
      /\ cursor' = IF keep \in IdsOf(tour) THEN NodeAt(tour, keep) ELSE 0
      /\ stop' = IF keep \in IdsOf(tour) THEN keep ELSE NoNode

OfOtherChain(chain) == shown = NoChain \/ shown.id # chain.id

(* show: before there is a view the chain is stashed. *)
Show(chain) ==
  /\ IF view # NoView
     THEN SetChain(chain, OfOtherChain(chain)) /\ UNCHANGED pending
     ELSE pending' = chain /\ UNCHANGED <<shown, cursor, stop>>
  /\ UNCHANGED <<view, alive>>

(* Mutant of Update: without a view the push is dropped. *)
UpdateOpenOnly(chain) ==
  /\ IF view # NoView THEN SetChain(chain, OfOtherChain(chain)) ELSE UNCHANGED <<shown, cursor, stop>>
  /\ UNCHANGED <<view, alive, pending>>

(* update: the host-side state follows always. *)
Update(chain) ==
  /\ SetChain(chain, OfOtherChain(chain))
  /\ UNCHANGED <<view, alive, pending>>

(* resolveWebviewView *)
Resolve(v) ==
  /\ v \notin alive
  /\ view' = v
  /\ alive' = alive \cup {v}
  /\ IF shown = NoChain /\ pending # NoChain
     THEN pending' = NoChain /\ SetChain(pending, TRUE)
     ELSE UNCHANGED <<pending, shown, cursor, stop>>

(* onDidDispose: a replaced view takes nothing with it. *)
Dispose(v) ==
  /\ v \in alive
  /\ alive' = alive \ {v}
  /\ IF v = view
     THEN /\ view' = NoView /\ shown' = NoChain
          /\ cursor' = 0 /\ stop' = NoNode
     ELSE UNCHANGED <<view, shown, cursor, stop>>
  /\ UNCHANGED pending

(* A status under which a node may have candidates: an ambiguous one, and  *)
(* an interface, whose implementations stay listed when it goes stale.     *)
Pickable == {"weak", "ok", "stale"}

(* pickCandidate: the node on show is placed, and the chain saved and set. *)
PickNode(n) ==
  LET next == [shown EXCEPT !.tree = Marked(@, n, "ok")]
  IN  /\ shown # NoChain /\ n \in IdsOf(shown.tree)
      /\ shown.tree[NodeAt(shown.tree, n)].st \in Pickable
      /\ Save(next)
      /\ SetChain(next, FALSE)
      /\ UNCHANGED <<view, alive, pending>>

(* stepTour: one stop on or back, pinned at the ends. *)
StepTour(dir) ==
  LET target == IF dir = "next" THEN cursor + 1 ELSE IF cursor = 0 THEN 0 ELSE cursor - 1
      landed == IF target \in DOMAIN Tour THEN target ELSE IF dir = "next" THEN Len(Tour) ELSE 1
  IN  /\ Tour # <<>>
      /\ landed # cursor
      /\ cursor' = landed
      /\ stop' = Tour[landed].id
      /\ UNCHANGED <<view, alive, shown, pending>>

=============================================================================

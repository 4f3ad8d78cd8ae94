------------------------------- MODULE ExtBag -------------------------------
(***************************************************************************)
(* The x-manox extension surface (src/protocol/xmanox.ts), which the       *)
(* extension and the sidebar's page both fold with. A fold only ever       *)
(* writes whole slots, so what an action does is given as the slots it     *)
(* writes, with their contents: a partial function, which Over lays on     *)
(* what was there. The registry of background tasks is a slot per task.    *)
(***************************************************************************)
CONSTANTS
  Types,         \* the types of action sent on a bag's channel: of DOMAIN SlotOf
  Tasks,         \* ids of background tasks
  Workspaces,    \* ids of workspace rows
  Values,        \* payloads; a payload of the wrong type is one of them
  Absent         \* a slot that was never written, or a row that is gone

(* The slot of the bag that an action of each type writes. *)
SlotOf ==
  [planModeChanged |-> "planMode", planChanged |-> "plan",
   verdictRequested |-> "planReview", reviewSettled |-> "planReview",
   goalChanged |-> "goal", browserSuitesChanged |-> "browserSuites",
   activeToolsChanged |-> "activeTools", metricsChanged |-> "sessionInfo",
   pinnedChanged |-> "pinned", labelChanged |-> "label",
   sessionInfoChanged |-> "sessionInfo", leafChanged |-> "leaf",
   orderChanged |-> "order"]

Slots == {SlotOf[t] : t \in Types} \cup Tasks

Contents == Values \cup {Absent}

Over(f, g) == [c \in DOMAIN f |-> IF c \in DOMAIN g THEN g[c] ELSE f[c]]

(* An action of a known type writes its slot; of another, nothing. *)
ExtAction(t, v) == [s \in {SlotOf[t]} |-> v]

(* A task's row is upserted under its id. *)
TaskAction(task, v) == [s \in {task} |-> v]

(* Object.assign: what the state has is written, and a registry of tasks   *)
(* takes the place of the whole one before.                                *)
Assigned(state) ==
  [s \in DOMAIN state \cup (IF DOMAIN state \cap Tasks = {} THEN {} ELSE Tasks) |->
     IF s \in DOMAIN state THEN state[s] ELSE Absent]

(* The states a baseline or a snapshot of a bag can carry. *)
States == UNION {[D -> Values] : D \in SUBSET Slots}

(* The catalogue of workspaces: its baseline replaces all rows, a change   *)
(* writes one, a removal takes one away.                                   *)
WorkspacesBaseline(rows) ==
  [w \in Workspaces |-> IF w \in DOMAIN rows THEN rows[w] ELSE Absent]
WorkspaceChanged(w, v) == [x \in {w} |-> v]
WorkspaceRemoved(w) == [x \in {w} |-> Absent]

WorkspaceRows == UNION {[D -> Values] : D \in SUBSET Workspaces}
=============================================================================

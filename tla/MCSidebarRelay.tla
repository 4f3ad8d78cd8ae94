--------------------------- MODULE MCSidebarRelay ---------------------------
(***************************************************************************)
(* An instance of SidebarRelay for TLC: one session in a worktree of the   *)
(* workspace's repository and one in another repository, both in the store *)
(* beforehand, and one in the workspace folder itself.                     *)
(***************************************************************************)
EXTENDS SidebarRelay, TLC

CONSTANTS tree, other, here, dCwd, dTree, dOther, repo, otherRepo

MCProject == [s \in Sessions |->
                CASE s = tree -> dTree [] s = other -> dOther [] OTHER -> dCwd]
MCRepo == (dCwd :> repo) @@ (dTree :> repo) @@ (dOther :> otherRepo)
=============================================================================

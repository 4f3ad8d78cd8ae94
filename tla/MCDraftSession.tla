--------------------------- MODULE MCDraftSession ---------------------------
(* Instance of DraftSession for TLC: one draft and the session it becomes. *)
EXTENDS DraftSession

CONSTANTS s1, draft, t1, t2, v1, v2, v3

MCLocal == s1 :> draft
MCOpening == s1 :> t1
MCTyped == s1 :> {t2}
MCNothing == s1 :> {}
=============================================================================

----------------------------- MODULE ChainTree -----------------------------
(***************************************************************************)
(* The tree of a code chain (src/codechain/types.ts, chainStore.ts,        *)
(* tools.ts, tour.ts).  A tree is its preorder sequence of nodes, each     *)
(* with its level (root: 1), which determines the tree.  A node's place in *)
(* the code is reduced to what the tools tell apart:                       *)
(*   ok     a provider's position, with the symbol it came from            *)
(*   real   a position of a call-hierarchy edge, with no symbol            *)
(*   note   a conceptual step: ok, but nowhere to jump to                  *)
(*   weak   ambiguous: candidates to pick from                             *)
(*   stale  was ok, the last refresh missed it                             *)
(*   none   unresolved                                                     *)
(***************************************************************************)
EXTENDS Entries

Statuses == {"ok", "real", "note", "weak", "stale", "none"}

TreeNodes(ids) == [id : ids, level : Nat, st : Statuses]

IdsOf(tree) == {tree[i].id : i \in DOMAIN tree}

(* Node j is below node i. *)
Below(tree, i, j) == i < j /\ \A k \in (i + 1)..j : tree[k].level > tree[i].level

(* The last node of the subtree of node i. *)
LastOf(tree, i) ==
  CHOOSE e \in i..Len(tree) :
    /\ e = i \/ Below(tree, i, e)
    /\ e = Len(tree) \/ ~Below(tree, i, e + 1)

(* countDraftTree: the nodes of the subtree of node i. *)
SizeOf(tree, i) == LastOf(tree, i) - i + 1

(* findNode: the first node with this id, in preorder. *)
NodeAt(tree, id) ==
  CHOOSE i \in DOMAIN tree :
    /\ tree[i].id = id
    /\ \A j \in 1..(i - 1) : tree[j].id # id

(* The nodes replaceNode replaces: every one with this id that is not      *)
(* below another one.                                                      *)
Replaced(tree, id) ==
  {i \in DOMAIN tree :
     /\ tree[i].id = id
     /\ ~\E j \in DOMAIN tree : tree[j].id = id /\ Below(tree, j, i)}

(* Mutant of Grown: the new children take the place of the old ones. *)
GrownAfresh(tree, id, block) ==
  LET p == NodeAt(tree, id)
      under == [b \in DOMAIN block |-> [block[b] EXCEPT !.level = @ + tree[p].level]]
  IN  SubSeq(tree, 1, p) \o under \o SubSeq(tree, LastOf(tree, p) + 1, Len(tree))

(* A block of subtrees, its levels counted from below level `top`.         *)
Lifted(block, top) == [b \in DOMAIN block |-> [block[b] EXCEPT !.level = @ + top]]

(* What comes to stand after node i when `block` becomes the last children *)
(* of the nodes `id`: the block, below the node whose subtree ends with i. *)
Inserted(tree, id, block, i) ==
  LET ending == {p \in Replaced(tree, id) : LastOf(tree, p) = i}
  IN  IF ending = {} THEN <<>> ELSE Lifted(block, tree[CHOOSE p \in ending : TRUE].level)

(* replaceNode and its callers: `block` becomes the last children of the   *)
(* nodes `id`.                                                             *)
Grown(tree, id, block) ==
  LET upTo[i \in 0..Len(tree)] ==
        IF i = 0 THEN <<>> ELSE upTo[i - 1] \o <<tree[i]>> \o Inserted(tree, id, block, i)
  IN  upTo[Len(tree)]

(* The nodes `id` are given the status `st`. *)
Marked(tree, id, st) ==
  [i \in DOMAIN tree |-> IF i \in Replaced(tree, id) THEN [tree[i] EXCEPT !.st = st] ELSE tree[i]]

(* tourOrder: what the editor can jump to, in preorder. *)
TourOrder(tree) ==
  EntriesAt(tree, {i \in DOMAIN tree : tree[i].st \in {"ok", "real", "weak", "stale"}})

(* Draft blocks as validateDraft leaves them: at most `size` nodes on at   *)
(* most `depth` levels.                                                    *)
Blocks(ids, size, depth) ==
  {b \in UNION {[1..n -> [id : ids, level : 1..depth]] : n \in 1..size} :
     /\ b[1].level = 1
     /\ \A i \in 2..Len(b) : b[i].level <= b[i - 1].level + 1}

=============================================================================

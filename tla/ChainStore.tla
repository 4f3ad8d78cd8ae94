----------------------------- MODULE ChainStore -----------------------------
(***************************************************************************)
(* The registry of code chains (src/codechain/chainStore.ts): one row per  *)
(* chain and an index of the rows in the order they were last saved, both  *)
(* keys of the extension's workspaceState, which is read synchronously and *)
(* written as a whole.  Chain 0 is a row an earlier session left behind,   *)
(* possibly in a shape this version does not accept.                       *)
(***************************************************************************)
EXTENDS ChainTree, FiniteSets

CONSTANTS
  Sessions,      \* session URIs
  Roots,         \* node ids chains may start with
  MaxChains,     \* bound: chain ids minted
  MaxStored,     \* MAX_STORED_CHAINS
  NoChain,       \* no chain
  NoRow,         \* no row under the key
  Corrupt        \* a row that validChain refuses

ASSUME StoreAssumption ==
  /\ MaxChains \in Nat
  /\ MaxStored \in Nat \ {0}

VARIABLES
  index,         \* INDEX_KEY
  rows           \* CHAIN_KEY_PREFIX + id

storeVars == <<index, rows>>

ChainIds == 0..MaxChains
OldChains ==
  {[id |-> 0, session |-> s, tree |-> <<[id |-> r, level |-> 1, st |-> "ok"]>>, said |-> {}] :
     s \in Sessions, r \in Roots}

StoreInit ==
  \E old \in OldChains \cup {NoRow, Corrupt} :
    /\ rows = [i \in ChainIds |-> IF i = 0 THEN old ELSE NoRow]
    /\ index = IF old = NoRow THEN <<>> ELSE <<0>>

IsChain(row) == row \notin {NoRow, Corrupt}
Listed(seq) == {seq[i] : i \in DOMAIN seq}
Without(seq, ids) == EntriesAt(seq, {i \in DOMAIN seq : seq[i] \notin ids})

(* Mutants of Save: the old place in the index stays beside the new one;   *)
(* a chain saved again keeps its place.                                    *)
SaveTwice(chain) ==
  LET next == Append(index, chain.id)
      over == IF Len(next) > MaxStored THEN Len(next) - MaxStored ELSE 0
  IN  /\ index' = SubSeq(next, over + 1, Len(next))
      /\ rows' = [i \in ChainIds |->
                    IF i \in Listed(SubSeq(next, 1, over)) THEN NoRow
                    ELSE IF i = chain.id THEN chain ELSE rows[i]]

SaveInPlace(chain) ==
  LET next == IF chain.id \in Listed(index) THEN index ELSE Append(index, chain.id)
      over == IF Len(next) > MaxStored THEN Len(next) - MaxStored ELSE 0
  IN  /\ index' = SubSeq(next, over + 1, Len(next))
      /\ rows' = [i \in ChainIds |->
                    IF i \in Listed(SubSeq(next, 1, over)) THEN NoRow
                    ELSE IF i = chain.id THEN chain ELSE rows[i]]

(* save: the chain moves to the end of the index; past the cap the oldest  *)
(* rows go.                                                                *)
Save(chain) ==
  LET next == Append(Without(index, {chain.id}), chain.id)
      over == IF Len(next) > MaxStored THEN Len(next) - MaxStored ELSE 0
  IN  /\ index' = SubSeq(next, over + 1, Len(next))
      /\ rows' = [i \in ChainIds |->
                    IF i \in Listed(SubSeq(next, 1, over)) THEN NoRow
                    ELSE IF i = chain.id THEN chain ELSE rows[i]]

(* get of a row that validChain refuses, by itself or within list(): the   *)
(* row and its place in the index go.                                      *)
Heal(ids) ==
  /\ rows' = [i \in ChainIds |-> IF i \in ids THEN NoRow ELSE rows[i]]
  /\ index' = Without(index, ids)

CorruptRows == {i \in ChainIds : rows[i] = Corrupt}

(* list(session)[0]: the youngest chain of the session.  Ids are minted in *)
(* the order of createdAt.                                                 *)
Latest(s) ==
  LET mine == {i \in Listed(index) : IsChain(rows[i]) /\ rows[i].session = s}
  IN  IF mine = {} THEN NoChain
      ELSE rows[CHOOSE i \in mine : \A j \in mine : j <= i]

=============================================================================

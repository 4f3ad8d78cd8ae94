----------------------------- MODULE CodeChain ------------------------------
(***************************************************************************)
(* The Code Tutor: its tools (src/codechain/tools.ts) over the chain store *)
(* and the panel.  A tool that resolves symbols loads a chain, awaits the  *)
(* language servers, and saves what it loaded with its change; calls are   *)
(* not serialised (agentHost.ts, registration.ts), so `calls` holds those  *)
(* in flight with the chain each one loaded.  Malformed and oversized      *)
(* calls are answered before anything is touched and leave no trace here.  *)
(***************************************************************************)
EXTENDS TutorPanel

CONSTANTS
  Slots,         \* calls in flight at once
  Steps,         \* node ids Add and Extend may bring
  Edges,         \* node ids of call-hierarchy edges (callees:..., callers:...)
  MaxNodes,      \* MAX_CHAIN_NODES
  MaxDepth,      \* MAX_CHAIN_DEPTH
  MaxRounds,     \* MAX_CORRECTION_ROUNDS
  Findings,      \* what resolving a drafted symbol can find
  MaxBlock,      \* bound: nodes of an Extend block
  MaxCalls,      \* bound: tool calls, and chains reopened by hand
  Idle,          \* no call in the slot
  Story          \* the narrative of a chain, among what was said of it

(* resolveSymbol: a status, and whether it comes with a failure reason.    *)
AllFindings ==
  {[st |-> "ok", failed |-> FALSE], [st |-> "note", failed |-> FALSE],
   [st |-> "weak", failed |-> FALSE], [st |-> "weak", failed |-> TRUE],
   [st |-> "none", failed |-> TRUE]}

ASSUME ToolAssumption ==
  /\ MaxNodes \in Nat \ {0}
  /\ MaxDepth \in Nat \ {0}
  /\ MaxRounds \in Nat
  /\ MaxBlock \in Nat
  /\ MaxCalls \in Nat
  /\ NoView \notin Views
  /\ Findings \subseteq AllFindings
  /\ IsFiniteSet(Edges)
  /\ (Roots \cup Steps) \cap Edges = {}
  /\ NoNode \notin Roots \cup Steps \cup Edges
  /\ Story \notin Roots \cup Steps \cup Edges

VARIABLES
  minted,        \* chain ids minted
  calls,         \* calls between load and save
  attempts,      \* correctionAttempts
  spent,         \* calls and reopenings so far
  promised,      \* history: what calls on each chain were acknowledged
  overlapped,    \* history: chains on which two writers overlapped
  sprawling,     \* history: chains grown by Extend or Expand
  recency,       \* history: chain ids in the order of their last save
  owed           \* history: the chain handed over last, since a view went with it

toolVars == <<minted, calls, attempts, spent>>
histVars == <<promised, overlapped, sprawling, recency>>
viewVars == <<panelVars, owed>>
vars == <<storeVars, viewVars, toolVars, histVars>>

Ids == Roots \cup Steps \cup Edges
Chains ==
  [id : ChainIds, session : Sessions, tree : Seq(TreeNodes(Ids)), said : SUBSET (Ids \cup {Story})]

ASSUME SentinelAssumption ==
  /\ NoRow # Corrupt
  /\ \A sentinel \in {NoChain, NoRow, Corrupt} : sentinel \notin Chains

Keys == Sessions \X (ChainIds \cup {NoChain}) \X Ids

Init ==
  /\ StoreInit
  /\ PanelInit
  /\ minted = 0
  /\ calls = [c \in Slots |-> Idle]
  /\ attempts = [k \in Keys |-> 0]
  /\ spent = 0
  /\ promised = [i \in ChainIds |-> {}]
  /\ overlapped = {}
  /\ sprawling = {}
  /\ recency = index
  /\ owed = NoChain

Facts(chain) ==
  {<<"node", n>> : n \in IdsOf(chain.tree)} \cup {<<"said", x>> : x \in chain.said}

InFlight(id) == \E c \in Slots : calls[c] # Idle /\ calls[c].base # NoChain /\ calls[c].base.id = id

(* A chain goes to the panel, to be shown or as what is open now. *)
HandOver(chain, reveal) ==
  /\ IF reveal THEN Show(chain) ELSE Update(chain)
  /\ owed' = chain

(* save, and show or update; the reply acknowledges `news`.                *)
Commit(chain, news, reveal) ==
  /\ Save(chain)
  /\ HandOver(chain, reveal)
  /\ promised' = [promised EXCEPT ![chain.id] = @ \cup news]
  /\ recency' = Append(Without(recency, {chain.id}), chain.id)

-----------------------------------------------------------------------------
(* The part of a handler before its await. *)

Begin(c, tool, s, base, at, block) ==
  /\ calls[c] = Idle
  /\ spent < MaxCalls
  /\ spent' = spent + 1
  /\ calls' = [calls EXCEPT ![c] =
       [tool |-> tool, session |-> s, base |-> base, at |-> at, block |-> block]]
  /\ overlapped' = IF base # NoChain /\ InFlight(base.id)
                   THEN overlapped \cup {base.id} ELSE overlapped
  /\ UNCHANGED <<storeVars, viewVars, minted, attempts, promised, sprawling, recency>>

One(n) == <<[id |-> n, level |-> 1]>>

(* genCodeChain *)
CallEntry(c, s, n) == Begin(c, "entry", s, NoChain, NoNode, One(n))

(* Mutant of Fits: the id may be in the chain already. *)
FitsAgain(tree, parent, n) ==
  /\ parent \in IdsOf(tree) /\ n \in Steps
  /\ tree[NodeAt(tree, parent)].level + 1 <= MaxDepth
  /\ Len(tree) + 1 <= MaxNodes

(* addCodeChainNode with a chain: the parent is there, the id is new, the  *)
(* caps hold.                                                              *)
Fits(tree, parent, n) ==
  /\ parent \in IdsOf(tree)
  /\ n \notin IdsOf(tree)
  /\ tree[NodeAt(tree, parent)].level + 1 <= MaxDepth
  /\ Len(tree) + 1 <= MaxNodes

CallAdd(c, s, chain, parent, n) ==
  /\ chain.id \in ChainIds /\ Fits(chain.tree, parent, n)
  /\ Begin(c, "add", s, chain, parent, One(n))

(* addCodeChainNode without a chain in the session; its list() has dropped *)
(* the corrupt rows (DropCorrupt).                                         *)
CallSeed(c, s, n) ==
  /\ Latest(s) = NoChain
  /\ CorruptRows = {}
  /\ Begin(c, "seed", s, NoChain, NoNode, One(n))

(* extendCodeChain *)
CallExtend(c, s, chain, parent, block) ==
  /\ parent \in IdsOf(chain.tree)
  /\ Begin(c, "extend", s, chain, parent, block)

(* expand: a node with a position *)
CallExpand(c, s, chain, at) ==
  /\ at \in IdsOf(chain.tree)
  /\ chain.tree[NodeAt(chain.tree, at)].st \in {"ok", "real"}
  /\ Begin(c, "expand", s, chain, at, <<>>)

(* refresh, of a tool call or of the panel's button *)
CallRefresh(c, s, chain) == Begin(c, "refresh", s, chain, NoNode, <<>>)

(* store.get by the id a call names; the session is not compared. *)
Loadable == {rows[i] : i \in {j \in ChainIds : IsChain(rows[j])}}

Call(c) ==
  \E s \in Sessions :
    \/ \E n \in Roots : CallEntry(c, s, n) \/ CallSeed(c, s, n)
    \/ \E chain \in Loadable :
         \/ \E n \in Steps : \E p \in IdsOf(chain.tree) : CallAdd(c, s, chain, p, n)
         \/ \E p \in IdsOf(chain.tree), b \in Blocks(Steps, MaxBlock, MaxDepth - 1) :
              CallExtend(c, s, chain, p, b)
         \/ \E p \in IdsOf(chain.tree) : CallExpand(c, s, chain, p)
         \/ CallRefresh(c, s, chain)

(* A call that meets a corrupt row drops it; list() drops them all.  The   *)
(* call itself fails, or goes on as one that finds the row gone.           *)
DropCorrupt ==
  \E ids \in (SUBSET CorruptRows) \ {{}} :
    /\ Heal(ids)
    /\ recency' = Without(recency, ids)
    /\ UNCHANGED <<viewVars, toolVars, promised, overlapped, sprawling>>

-----------------------------------------------------------------------------
(* The part after the await. *)

(* correctionGate: a failing block is refused MaxRounds times, then taken  *)
(* as it is.                                                               *)
Refused(key, failed) == failed /\ attempts[key] < MaxRounds

Tally(key, failed) ==
  attempts' = [attempts EXCEPT ![key] = IF Refused(key, failed) THEN @ + 1 ELSE 0]

Refuse(c) ==
  /\ calls' = [calls EXCEPT ![c] = Idle]
  /\ UNCHANGED <<storeVars, viewVars, spent, promised, overlapped, sprawling, recency>>

(* The block with what was found for each of its nodes. *)
Resolved(block, found) ==
  [i \in DOMAIN block |-> [id |-> block[i].id, level |-> block[i].level, st |-> found[i].st]]
Failing(found) == \E i \in DOMAIN found : found[i].failed

NewChain(s, n, found) ==
  [id |-> minted + 1, session |-> s, tree |-> Resolved(One(n), found), said |-> {}]

(* A chain of one node; its rounds are counted under `owner`.              *)
FinishNew(c, owner) ==
  LET call == calls[c]
      n == call.block[1].id
  IN  /\ minted < MaxChains
      /\ \E found \in [{1} -> Findings] :
           LET failed == Failing(found)
               key == <<call.session, owner, n>>
               chain == NewChain(call.session, n, found)
           IN  /\ Tally(key, failed)
               /\ minted' = minted + 1
               /\ \/ Refused(key, failed) /\ Refuse(c)
                  \/ /\ ~Refused(key, failed)
                     /\ calls' = [calls EXCEPT ![c] = Idle]
                     /\ Commit(chain, {<<"node", n>>}, TRUE)
                     /\ UNCHANGED <<spent, overlapped, sprawling>>

(* genCodeChain: the rounds of a session and a root. *)
FinishEntry(c) == calls[c] # Idle /\ calls[c].tool = "entry" /\ FinishNew(c, NoChain)

(* addCodeChainNode: the rounds of the chain just minted, which no other   *)
(* call has.                                                               *)
FinishSeed(c) == calls[c] # Idle /\ calls[c].tool = "seed" /\ FinishNew(c, minted + 1)

(* What extendCodeChain keeps of a block below level `top`: a node stays   *)
(* whatever its own level or size, but loses its children when they would  *)
(* be too deep or when the chain and the node's subtree exceed the budget. *)
KeptOf(base, top, block) ==
  LET Childless(i) == \/ top + block[i].level > MaxDepth
                      \/ Len(base.tree) + SizeOf(block, i) > MaxNodes
  IN  EntriesAt(block,
        {i \in DOMAIN block : ~\E j \in DOMAIN block : Below(block, j, i) /\ Childless(j)})

Grow(call, nodes) == [call.base EXCEPT !.tree = Grown(@, call.at, nodes)]

(* addCodeChainNode and extendCodeChain: the snapshot plus the nodes.  An  *)
(* Extend block fails too for children that do not parse, which are not    *)
(* part of `block`; it may bring a narrative with it.                      *)
FinishGrow(c) ==
  LET call == calls[c]
      key == <<call.session, call.base.id,
               IF call.tool = "add" THEN call.block[1].id ELSE call.at>>
      top == call.base.tree[NodeAt(call.base.tree, call.at)].level
      block == IF call.tool = "add" THEN call.block ELSE KeptOf(call.base, top, call.block)
  IN  /\ calls[c] # Idle /\ call.tool \in {"add", "extend"}
      /\ \E found \in [DOMAIN block -> Findings], torn \in BOOLEAN, told \in SUBSET {Story} :
           LET failed == Failing(found) \/ torn
               nodes == Resolved(block, found)
           IN  /\ torn \/ told # {} => call.tool = "extend"
               /\ Tally(key, failed)
               /\ \/ Refused(key, failed) /\ Refuse(c) /\ UNCHANGED minted
                  \/ /\ ~Refused(key, failed)
                     /\ calls' = [calls EXCEPT ![c] = Idle]
                     /\ Commit([Grow(call, nodes) EXCEPT !.said = @ \cup told],
                               {<<"node", x>> : x \in IdsOf(nodes)} \cup {<<"said", x>> : x \in told},
                               FALSE)
                     /\ sprawling' = IF call.tool = "extend"
                                     THEN sprawling \cup {call.base.id} ELSE sprawling
                     /\ UNCHANGED <<minted, spent, overlapped>>

(* Edges of the call hierarchy that are not in the tree, each once, as     *)
(* nodes at a position but with no symbol.                                 *)
NewEdges(tree) ==
  {b \in UNION {[1..n -> [id : Edges \ IdsOf(tree), level : {1}, st : {"real"}]] :
                   n \in 1..Cardinality(Edges)} :
     \A i, j \in DOMAIN b : b[i].id = b[j].id => i = j}

(* No edges, or a provider that fails or is too slow: nothing changes.     *)
ExpandFails(c) ==
  /\ calls[c] # Idle /\ calls[c].tool = "expand"
  /\ calls' = [calls EXCEPT ![c] = Idle]
  /\ UNCHANGED <<storeVars, viewVars, minted, attempts, spent, histVars>>

(* expand: new edges become children. *)
FinishExpand(c) ==
  LET call == calls[c]
  IN  /\ calls[c] # Idle /\ call.tool = "expand"
      /\ calls' = [calls EXCEPT ![c] = Idle]
      /\ \E new \in NewEdges(call.base.tree) :
           /\ Commit(Grow(call, new), {<<"node", x>> : x \in IdsOf(new)}, FALSE)
           /\ sprawling' = sprawling \cup {call.base.id}
      /\ UNCHANGED <<minted, attempts, spent, overlapped>>

(* refresh: every node with a symbol is resolved again.  A chain in which  *)
(* nothing moved and no status changed is not saved.                       *)
Rerolled(st, hit) ==
  CASE st = "ok" -> IF hit = "ok" THEN "ok" ELSE "stale"
    [] st \in {"weak", "stale"} -> hit
    [] OTHER -> st

FinishRefresh(c) ==
  LET call == calls[c]
      tree == call.base.tree
  IN  /\ calls[c] # Idle /\ call.tool = "refresh"
      /\ calls' = [calls EXCEPT ![c] = Idle]
      /\ \E hits \in [DOMAIN tree -> {f.st : f \in Findings} \ {"note"}] :
           LET next == [i \in DOMAIN tree |-> [tree[i] EXCEPT !.st = Rerolled(@, hits[i])]]
           IN  \/ /\ next = tree
                  /\ UNCHANGED <<storeVars, viewVars, promised, recency>>
               \/ /\ \E i \in DOMAIN tree : tree[i].st \in {"ok", "weak", "stale"}
                  /\ Commit([call.base EXCEPT !.tree = next], {}, FALSE)
      /\ UNCHANGED <<minted, attempts, spent, overlapped, sprawling>>

-----------------------------------------------------------------------------
(* Handlers that do not wait. *)

(* Two writers of a chain overlap too when one of them does not wait. *)
Cross(id) == overlapped' = IF InFlight(id) THEN overlapped \cup {id} ELSE overlapped

Say(chain, what) ==
  /\ spent < MaxCalls
  /\ spent' = spent + 1
  /\ Commit([chain EXCEPT !.said = @ \cup {what}], {<<"said", what>>}, FALSE)
  /\ Cross(chain.id)
  /\ UNCHANGED <<minted, calls, attempts, sprawling>>

(* narrateCodeChain *)
Narrate(chain) == Say(chain, Story)

(* annotate *)
Annotate(chain, n) == n \in IdsOf(chain.tree) /\ Say(chain, n)

(* pickCandidate: the panel saves the chain it shows, with the node placed.*)
Pick(n) ==
  /\ view # NoView
  /\ PickNode(n)
  /\ owed' = IF owed = shown THEN shown' ELSE owed
  /\ recency' = Append(Without(recency, {shown.id}), shown.id)
  /\ overlapped' = IF InFlight(shown.id) \/ shown # rows[shown.id]
                   THEN overlapped \cup {shown.id} ELSE overlapped
  /\ UNCHANGED <<toolVars, promised, sprawling>>

(* openChain *)
Open(chain) ==
  /\ spent < MaxCalls
  /\ spent' = spent + 1
  /\ HandOver(chain, TRUE)
  /\ UNCHANGED <<storeVars, minted, calls, attempts, histVars>>

ViewStep ==
  /\ \/ \E v \in Views : Resolve(v) /\ UNCHANGED owed
     \/ \E v \in alive : Dispose(v)
          /\ owed' = IF v = view /\ owed # pending THEN NoChain ELSE owed
     \/ \E dir \in {"next", "prev"} : StepTour(dir) /\ UNCHANGED owed
  /\ UNCHANGED <<storeVars, toolVars, histVars>>

Next ==
  \/ \E c \in Slots :
       \/ Call(c)
       \/ FinishEntry(c) \/ FinishSeed(c) \/ FinishGrow(c)
       \/ FinishExpand(c) \/ ExpandFails(c) \/ FinishRefresh(c)
  \/ DropCorrupt
  \/ \E i \in ChainIds :
       IsChain(rows[i]) /\ (Narrate(rows[i]) \/ \E n \in Ids : Annotate(rows[i], n))
  \/ \E n \in Ids : Pick(n)
  \/ \E i \in ChainIds : IsChain(rows[i]) /\ Open(rows[i])
  \/ ViewStep

Spec == Init /\ [][Next]_vars

-----------------------------------------------------------------------------
(* Properties. *)

Sound(chain) ==
  /\ chain.session \in Sessions
  /\ chain.said \subseteq Ids \cup {Story}
  /\ chain.tree # <<>> /\ chain.tree[1].level = 1
  /\ \A i \in DOMAIN chain.tree :
       /\ chain.tree[i].id \in Ids /\ chain.tree[i].st \in Statuses
       /\ i > 1 => chain.tree[i].level \in 2..(chain.tree[i - 1].level + 1)

(* Every chain, stored, loaded or shown, is a tree with one root, and the  *)
(* tables hold what they are for: a row is the chain of its own id, a      *)
(* count of rounds stays within the rounds.                                *)
TypeOK ==
  /\ \A i \in ChainIds : IsChain(rows[i]) => rows[i].id = i /\ Sound(rows[i])
  /\ Listed(index) \subseteq ChainIds
  /\ minted \in 0..MaxChains /\ spent \in 0..MaxCalls
  /\ \A c \in Slots : calls[c] # Idle => calls[c].base = NoChain \/ Sound(calls[c].base)
  /\ \A k \in Keys : attempts[k] \in 0..MaxRounds
  /\ \A chain \in {shown, pending, owed} : chain # NoChain => Sound(chain)
  /\ alive \subseteq Views /\ view \in alive \cup {NoView}

(* The index and the rows, written apart, agree after every call: each id  *)
(* once, as many as may be stored, and a row exactly for each.             *)
IndexMatchesRows ==
  /\ \A i, j \in DOMAIN index : index[i] = index[j] => i = j
  /\ Len(index) <= MaxStored
  /\ Listed(index) = {i \in ChainIds : rows[i] # NoRow}

(* The chains saved last, as many as may be stored, can be reopened,       *)
(* whatever order calls end in: a chain in work is not evicted for one     *)
(* nobody touched.                                                         *)
RecentChainsKept ==
  \A k \in DOMAIN recency : Len(recency) - k < MaxStored => rows[recency[k]] # NoRow

OwnIds(tree) == \A a, b \in DOMAIN tree : tree[a].id = tree[b].id => a = b

WellFormed(tree) ==
  /\ Len(tree) <= MaxNodes
  /\ \A a \in DOMAIN tree : tree[a].level <= MaxDepth
  /\ OwnIds(tree)

(* A chain grown by Entry and Add alone stays within the caps, with ids of *)
(* its own, even when calls overlap and save what others had not seen.     *)
StepwiseWellFormed ==
  \A i \in ChainIds : IsChain(rows[i]) /\ i \notin sprawling => WellFormed(rows[i].tree)

(* What the tools acknowledged stays in the chain: nodes and what was said *)
(* of it survive refreshes, retries, picks in the panel, eviction during a *)
(* call and calls on other chains; only writers that overlap on the chain  *)
(* itself lose one another's work.                                         *)
NothingAcceptedIsLost ==
  \A i \in ChainIds : IsChain(rows[i]) /\ i \notin overlapped => promised[i] \subseteq Facts(rows[i])

(* The chain handed to the panel last, by show or by update and with a     *)
(* view or without one, is not dropped before the view that has it goes:   *)
(* it is in view, or kept for the next view that has nothing else, and an  *)
(* open view is not empty then (panel.ts show, update, resolveWebviewView).*)
NeverDropped ==
  owed # NoChain => owed \in {shown, pending} /\ (view # NoView => shown # NoChain)

(* panel.ts:23-26 and 66-68: resolveWebviewView drains what was stashed as *)
(* well as what was updated, so that a first open is never lost to the     *)
(* race: a view that is resolved shows what was handed over last.          *)
StashDrained == view # NoView /\ owed # NoChain => shown = owed

(* A push of the chain in view, or a replaced view that goes late, does    *)
(* not move the reader: the view keeps a chain, and the tour its node as   *)
(* long as the node can be visited.                                        *)
PanelKeepsItsPlace ==
  [][ view # NoView /\ view' = view /\ shown # NoChain =>
        /\ shown' # NoChain
        /\ shown' # shown /\ shown'.id = shown.id /\ stop \in IdsOf(TourOrder(shown'.tree))
             => stop' = stop ]_vars

=============================================================================

-------------------------- MODULE TutorViewProofs --------------------------
(***************************************************************************)
(* For every set of chains, views, nodes and calls: a page that has heard  *)
(* all there is shows the panel's chain, its tour and the node the tour is *)
(* at; what the reader selected and collapsed is on the tree; a page that  *)
(* was told of the cursor keeps up with the watcher; answers to searches   *)
(* come in order.                                                          *)
(*                                                                         *)
(* The invariant says of each part of the panel's state that the page is   *)
(* right about it, or that the last message of its kind on the way is. A   *)
(* page that has not asked for all of it yet, or whose `ready` is still on *)
(* its way, need not be right: `ready` is answered with every part.        *)
(***************************************************************************)
EXTENDS TutorView, RecursionProofs, FiniteSetTheorems

ChainMsgs == [t : {"chain"}, chain : Chains]
TourMsgs == [t : {"tourState"}, tour : [at : Nat, total : Nat]]
SyncMsgs == [t : {"sync"}, node : Nodes \cup {NoNode}]
RefsMsgs == [t : {"references"}, node : Nodes]

Messages == ChainMsgs \cup TourMsgs \cup SyncMsgs \cup RefsMsgs

Posts == [t : {"ready"}] \cup [t : {"tour"}, dir : {"prev", "next"}]
           \cup [t : {"pick", "findRefs"}, node : Nodes]

Pages ==
  [mounted : BOOLEAN, chain : Chains \cup {NoChain}, selected : Nodes \cup {NoNode},
   collapsed : SUBSET Nodes, tour : [at : Nat, total : Nat], synced : Nodes \cup {NoNode},
   told : BOOLEAN, open : Nodes \cup {NoNode}, refs : SUBSET Nodes]

Queries == [token : Nat, node : Nodes, current : BOOLEAN]

(* The chains kept, the panel, the page and what travels between them are  *)
(* of their types.                                                         *)
Stored ==
  /\ rows \in [ChainIds -> Chains \cup {NoRow, Corrupt}]
  /\ loaded \in [Slots -> Chains \cup {NoChain}]

Held ==
  /\ shown \in Chains \cup {NoChain} /\ pending \in Chains \cup {NoChain}
  /\ cursor \in Nat
  /\ {place, last} \subseteq Nodes \cup {NoNode}

Travels == web \in Pages /\ inbox \in Seq(Messages) /\ asks \in Seq(Posts)

(* With no view there is no page, and nothing travels. *)
Away == view = NoView => web = Blank /\ inbox = <<>> /\ asks = <<>>

(* m is the last message of its kind in q; q has no message of the kind. *)
Last(q, m) == \E i \in DOMAIN q : q[i] = m /\ \A j \in DOMAIN q : j > i => q[j].t # m.t
None(q, kind) == \A i \in DOMAIN q : q[i].t # kind

(* The last word on its way to the page is m, or there is none and the     *)
(* page is right.                                                          *)
Follows(q, m, right) == Last(q, m) \/ (None(q, m.t) /\ right)

(* A page that is mounted, and whose `ready` was answered. *)
Caught == web.mounted /\ \A i \in DOMAIN asks : asks[i].t # "ready"

TourNow == [at |-> cursor, total |-> Len(Tour)]

Chained ==
  /\ shown = NoChain => None(inbox, "chain") /\ web.chain = NoChain
  /\ shown # NoChain /\ view # NoView =>
       Follows(inbox, ChainMsg(shown), Caught => web.chain = shown)

Toured ==
  shown # NoChain /\ view # NoView =>
    Follows(inbox, TourMsg(cursor, Len(Tour)), Caught => web.tour = TourNow)

Synced ==
  /\ web.told => web.mounted
  /\ view # NoView => Follows(inbox, SyncMsg(last), web.told => web.synced = last)

(* The cursor is on the stop of the tour. *)
Stopped == stop # NoNode => cursor \in DOMAIN Tour /\ Tour[cursor].id = stop

(* Tokens are given out in order. *)
Searched ==
  /\ asked \in Nat /\ answered \in 0..asked
  /\ queries \subseteq Queries /\ \A q \in queries : q.token \in 1..asked

Current == Chained /\ Toured /\ Synced

IInv ==
  /\ Stored /\ Held /\ Travels /\ Away
  /\ Current /\ Stopped /\ SelectionOnTree /\ Searched

-----------------------------------------------------------------------------
(* Queues. *)

(* A message of another kind changes nothing; one of the kind is the last. *)
LEMMA FollowsOther ==
  ASSUME NEW S, NEW q \in Seq(S), NEW n \in S, NEW m, n.t # m.t, NEW right, Follows(q, m, right)
  PROVE  Follows(Append(q, n), m, right)
<1> DEFINE r == Append(q, n)
<1>1. /\ Len(q) \in Nat /\ DOMAIN q = 1..Len(q) /\ DOMAIN r = 1..(Len(q) + 1)
      /\ \A i \in 1..Len(q) : r[i] = q[i]
      /\ r[Len(q) + 1] = n
  BY AppendProperties, LenProperties
<1> HIDE DEF r
<1>2. \A j \in DOMAIN r : (j \in DOMAIN q /\ r[j] = q[j]) \/ r[j].t # m.t
  BY <1>1
<1>3. \A i \in DOMAIN q : i \in DOMAIN r /\ r[i] = q[i]
  BY <1>1
<1>4. CASE Last(q, m)
  BY <1>2, <1>3, <1>4 DEF Follows, Last
<1>5. CASE None(q, m.t) /\ right
  BY <1>2, <1>5 DEF Follows, None
<1>6. QED
  BY <1>4, <1>5 DEF Follows, r

LEMMA LastAppended ==
  ASSUME NEW S, NEW q \in Seq(S), NEW m \in S
  PROVE  Last(Append(q, m), m)
<1>1. /\ Len(q) \in Nat /\ DOMAIN Append(q, m) = 1..(Len(q) + 1)
      /\ Append(q, m)[Len(q) + 1] = m
  BY AppendProperties, LenProperties
<1>2. QED
  BY <1>1 DEF Last

LEMMA NoneAppended ==
  ASSUME NEW S, NEW q \in Seq(S), NEW n \in S, NEW kind, n.t # kind, None(q, kind)
  PROVE  None(Append(q, n), kind)
<1>1. /\ Len(q) \in Nat /\ DOMAIN q = 1..Len(q) /\ DOMAIN Append(q, n) = 1..(Len(q) + 1)
      /\ \A i \in 1..Len(q) : Append(q, n)[i] = q[i]
      /\ Append(q, n)[Len(q) + 1] = n
  BY AppendProperties, LenProperties
<1>2. \A i \in DOMAIN Append(q, n) : i \in DOMAIN q \/ i = Len(q) + 1
  BY <1>1
<1>3. QED
  BY <1>1, <1>2 DEF None

(* Taking the head of a queue. *)
LEMMA TailShifts ==
  ASSUME NEW S, NEW q \in Seq(S), q # <<>>
  PROVE  /\ Head(q) \in S /\ Tail(q) \in Seq(S)
         /\ 1 \in DOMAIN q /\ Head(q) = q[1]
         /\ \A i \in DOMAIN Tail(q) : i \in Nat /\ i + 1 \in DOMAIN q /\ Tail(q)[i] = q[i + 1]
         /\ \A i \in DOMAIN q : i \in Nat /\ (i = 1 \/ (i - 1 \in DOMAIN Tail(q) /\ Tail(q)[i - 1] = q[i]))
<1>1. /\ Len(q) \in Nat /\ Len(q) # 0 /\ DOMAIN q = 1..Len(q)
      /\ Tail(q) \in Seq(S) /\ Len(Tail(q)) = Len(q) - 1
      /\ Head(q) \in S /\ Head(q) = q[1]
      /\ \A i \in 1..Len(Tail(q)) : Tail(q)[i] = q[i + 1]
  BY HeadTailProperties, LenProperties, EmptySeq
<1>2. DOMAIN Tail(q) = 1..(Len(q) - 1)
  BY <1>1, LenProperties
<1>3. \A i \in DOMAIN Tail(q) : i \in Nat /\ i + 1 \in DOMAIN q /\ Tail(q)[i] = q[i + 1]
  BY <1>1, <1>2
<1>4. \A i \in DOMAIN q : i \in Nat /\ (i = 1 \/ (i - 1 \in DOMAIN Tail(q) /\ (i - 1) + 1 = i))
  BY <1>1, <1>2
<1>5. QED
  BY <1>1, <1>3, <1>4

LEMMA LastOfTail ==
  ASSUME NEW S, NEW q \in Seq(S), q # <<>>, NEW m, Last(q, m)
  PROVE  Last(Tail(q), m) \/ (Head(q) = m /\ None(Tail(q), m.t))
<1> DEFINE r == Tail(q)
<1>1. PICK i \in DOMAIN q : q[i] = m /\ \A j \in DOMAIN q : j > i => q[j].t # m.t
  BY DEF Last
<1>2. /\ \A j \in DOMAIN r : j \in Nat /\ j + 1 \in DOMAIN q /\ r[j] = q[j + 1]
      /\ i \in Nat /\ (i = 1 \/ (i - 1 \in DOMAIN r /\ r[i - 1] = q[i]))
      /\ Head(q) = q[1]
  BY TailShifts
<1> HIDE DEF r
<1>3. CASE i = 1
  <2>1. ASSUME NEW j \in DOMAIN r
        PROVE  r[j].t # m.t
    <3>1. j \in DOMAIN r /\ j \in Nat /\ j + 1 \in DOMAIN q /\ r[j] = q[j + 1]
      BY <1>2
    <3>2. j # 0
      BY <3>1, LenProperties DEF r
    <3>3. QED
      BY <1>1, <1>3, <3>1, <3>2
  <2>2. QED
    BY <1>1, <1>2, <1>3, <2>1 DEF None, r
<1>4. CASE i - 1 \in DOMAIN r /\ r[i - 1] = q[i]
  <2>1. ASSUME NEW j \in DOMAIN r, j > i - 1
        PROVE  r[j].t # m.t
    BY <1>1, <1>2, <2>1
  <2>2. QED
    BY <1>1, <1>4, <2>1 DEF Last, r
<1>5. QED
  BY <1>2, <1>3, <1>4

LEMMA NoneOfTail ==
  ASSUME NEW S, NEW q \in Seq(S), q # <<>>, NEW kind, None(q, kind)
  PROVE  None(Tail(q), kind) /\ Head(q).t # kind
BY TailShifts DEF None

LEMMA NoneEmpty ==
  ASSUME NEW kind
  PROVE  None(<<>>, kind)
BY DEF None

LEMMA LastEmpty ==
  ASSUME NEW m
  PROVE  ~Last(<<>>, m)
BY DEF Last

(* A push is appended message by message. *)
LEMMA AppendTwo ==
  ASSUME NEW S, NEW q \in Seq(S), NEW a \in S, NEW b \in S
  PROVE  q \o <<a, b>> = Append(Append(q, a), b)
OBVIOUS

LEMMA AppendThree ==
  ASSUME NEW S, NEW q \in Seq(S), NEW a \in S, NEW b \in S, NEW c \in S
  PROVE  q \o <<a, b, c>> = Append(Append(Append(q, a), b), c)
OBVIOUS

-----------------------------------------------------------------------------
(* The panel. *)

LEMMA ChainShape ==
  ASSUME NEW chain \in Chains
  PROVE  /\ chain.id \in ChainIds /\ chain.tree \in Seq(TreeNodes(Nodes)) /\ chain.tree # <<>>
         /\ chain # NoChain
BY SentinelAssumption DEF Chains

LEMMA TourType ==
  ASSUME NEW chain \in Chains
  PROVE  TourOrder(chain.tree) \in Seq(TreeNodes(Nodes))
BY ChainShape, FilterType DEF TourOrder

(* A chain that is set has its cursor on the stop, if there is one. *)
LEMMA SetChainStep ==
  ASSUME NEW chain \in Chains, NEW newGeneration, SetChain(chain, newGeneration)
  PROVE  shown' = chain /\ cursor' \in Nat /\ Stopped'
<1> DEFINE tour == TourOrder(chain.tree)
           keep == IF newGeneration THEN NoNode ELSE stop
<1>1. /\ shown' = chain
      /\ cursor' = IF keep \in IdsOf(tour) THEN NodeAt(tour, keep) ELSE 0
      /\ stop' = IF keep \in IdsOf(tour) THEN keep ELSE NoNode
  BY DEF SetChain
<1>2. Tour' = tour /\ tour \in Seq(TreeNodes(Nodes))
  BY <1>1, ChainShape, TourType DEF Tour
<1> HIDE DEF keep, tour
<1>3. CASE keep \in IdsOf(tour)
  <2>1. NodeAt(tour, keep) \in DOMAIN tour /\ tour[NodeAt(tour, keep)].id = keep
    BY <1>2, <1>3, NodeAtProperties
  <2>2. DOMAIN tour \subseteq Nat
    BY <1>2, LenProperties
  <2>3. QED
    BY <1>1, <1>2, <1>3, <2>1, <2>2 DEF Stopped
<1>4. CASE keep \notin IdsOf(tour)
  BY <1>1, <1>4 DEF Stopped
<1>5. QED
  BY <1>1, <1>3, <1>4

(* A page is told of the chain it is given and where its tour is. *)
LEMMA PushHeard ==
  ASSUME IInv, view # NoView, view' = view, web' = web, last' = last,
         NEW chain \in Chains, shown' = chain, cursor' \in Nat, inbox' = inbox \o Pushed
  PROVE  inbox' \in Seq(Messages) /\ Current'
<1> DEFINE a == ChainMsg(chain)
           b == TourMsg(cursor', Len(TourOrder(chain.tree)))
<1>1. Tour' = TourOrder(chain.tree) /\ Len(TourOrder(chain.tree)) \in Nat
  BY ChainShape, TourType, LenProperties DEF Tour
<1>2. a \in Messages /\ a.t = "chain"
  BY DEF ChainMsg, Messages, ChainMsgs
<1>3. b \in Messages /\ b.t = "tourState"
  BY <1>1 DEF TourMsg, Messages, TourMsgs
<1>4. Pushed = <<a, b>>
  BY DEF Pushed
<1>5. a = ChainMsg(shown') /\ b = TourMsg(cursor', Len(Tour'))
  BY <1>1
<1> HIDE DEF a, b
<1>6. inbox \in Seq(Messages)
  BY DEF IInv, Travels
<1>7. inbox' = Append(Append(inbox, a), b)
  BY <1>2, <1>3, <1>4, <1>6, AppendTwo
<1>8. Append(inbox, a) \in Seq(Messages) /\ inbox' \in Seq(Messages)
  BY <1>2, <1>3, <1>6, <1>7, AppendProperties
<1>9. Follows(inbox', a, (Caught => web.chain = shown)')
  <2>1. Last(Append(inbox, a), a)
    BY <1>2, <1>6, LastAppended
  <2>2. Follows(Append(inbox, a), a, (Caught => web.chain = shown)')
    BY <2>1 DEF Follows
  <2>3. QED
    BY <1>2, <1>3, <1>7, <1>8, <2>2, FollowsOther
<1>10. Follows(inbox', b, (Caught => web.tour = TourNow)')
  BY <1>3, <1>7, <1>8, LastAppended DEF Follows
<1>11. Follows(inbox', SyncMsg(last), web.told => web.synced = last)
  <2> DEFINE s == SyncMsg(last)
  <2>1. s.t = "sync"
    BY DEF SyncMsg
  <2>2. Follows(inbox, s, web.told => web.synced = last)
    BY DEF IInv, Current, Synced
  <2> HIDE DEF s
  <2>3. Follows(Append(inbox, a), s, web.told => web.synced = last)
    BY <1>2, <1>6, <2>1, <2>2, FollowsOther
  <2>4. QED
    BY <1>3, <1>7, <1>8, <2>1, <2>3, FollowsOther DEF s
<1>12. Chained'
  BY <1>5, <1>9, ChainShape DEF Chained
<1>13. Toured'
  BY <1>5, <1>10 DEF Toured
<1>14. Synced'
  BY <1>11 DEF IInv, Current, Synced
<1>15. QED
  BY <1>8, <1>12, <1>13, <1>14 DEF Current

-----------------------------------------------------------------------------
(* Chains handed to the panel. *)

LEMMA SaveType ==
  ASSUME Stored, NEW chain \in Chains, Save(chain)
  PROVE  rows' \in [ChainIds -> Chains \cup {NoRow, Corrupt}]
<1>1. PICK gone : rows' = [i \in ChainIds |-> IF i \in gone THEN NoRow
                                             ELSE IF i = chain.id THEN chain ELSE rows[i]]
  BY DEF Save
<1>2. QED
  BY <1>1 DEF Stored

(* Searches keep their tokens when their chain is replaced. *)
LEMMA OutdatedSearch ==
  ASSUME Searched, queries' \in {queries, Outdated(queries)}, asked' = asked, answered' = answered
  PROVE  Searched'
<1>1. ASSUME NEW q \in queries
      PROVE  [q EXCEPT !.current = FALSE] \in Queries /\ [q EXCEPT !.current = FALSE].token = q.token
  BY DEF Searched, Queries
<1>2. Outdated(queries) \subseteq Queries /\ \A q \in Outdated(queries) : q.token \in 1..asked
  BY <1>1 DEF Outdated, Searched
<1>3. QED
  BY <1>2 DEF Searched

(* The panel is given a chain and posts it, if there is a view. *)
LEMMA GivenStep ==
  ASSUME IInv, NEW chain \in Chains, NEW newGeneration, SetChain(chain, newGeneration),
         inbox' = inbox \o Pushed, view' = view, pending' = pending, web' = web,
         UNCHANGED syncVars, Stored', Searched',
         asks' \in Seq(Posts), view = NoView => asks' = asks
  PROVE  IInv'
<1>1. shown' = chain /\ cursor' \in Nat /\ Stopped'
  BY SetChainStep
<1>2. place' = place /\ last' = last
  BY DEF syncVars
<1>3. Held'
  BY <1>1, <1>2 DEF IInv, Held
<1>4. SelectionOnTree'
  BY DEF IInv, SelectionOnTree
<1>5. CASE view # NoView
  <2>1. inbox' \in Seq(Messages) /\ Current'
    BY <1>1, <1>2, <1>5, PushHeard
  <2>2. Travels'
    BY <2>1 DEF IInv, Travels
  <2>3. Away'
    BY <1>5 DEF Away
  <2>4. QED
    BY <1>1, <1>3, <1>4, <2>1, <2>2, <2>3 DEF IInv
<1>6. CASE view = NoView
  <2>1. web = Blank /\ inbox = <<>> /\ asks = <<>>
    BY <1>6 DEF IInv, Away
  <2>2. inbox' = <<>> \o <<>>
    BY <1>6, <2>1 DEF Pushed
  <2>3. inbox' = <<>>
    BY <2>2
  <2>4. Travels' /\ Away'
    BY <1>6, <2>1, <2>3, EmptySeq DEF IInv, Travels, Away
  <2>5. Current'
    BY <1>1, <1>6, <2>1, ChainShape DEF Current, Chained, Toured, Synced, Blank
  <2>6. QED
    BY <1>1, <1>3, <1>4, <2>4, <2>5 DEF IInv
<1>7. QED
  BY <1>5, <1>6

(* Without a view a chain to be shown is stashed. *)
LEMMA StashedStep ==
  ASSUME IInv, NEW chain \in Chains, pending' = chain, UNCHANGED <<view, shown, cursor, stop>>,
         UNCHANGED pageVars, UNCHANGED syncVars, Stored', Searched'
  PROVE  IInv'
<1>1. Held' /\ Travels' /\ Away'
  BY DEF IInv, Held, Travels, Away, pageVars, syncVars
<1>2. Tour' = Tour
  BY DEF Tour
<1>3. Current' /\ Stopped' /\ SelectionOnTree'
  BY <1>2 DEF IInv, Current, Chained, Toured, Synced, Caught, TourNow, Stopped, SelectionOnTree, pageVars, syncVars
<1>4. QED
  BY <1>1, <1>3 DEF IInv

(* show, of the panel and of its view. *)
LEMMA ShowStep ==
  ASSUME IInv, NEW chain \in Chains, Show(chain), web' = web, asks' = asks, UNCHANGED syncVars,
         IF view = NoView THEN UNCHANGED inbox ELSE inbox' = inbox \o Pushed,
         Stored', Searched'
  PROVE  IInv'
<1>1. CASE view # NoView
  <2>1. SetChain(chain, OfOtherChain(chain)) /\ pending' = pending /\ view' = view /\ inbox' = inbox \o Pushed
    BY <1>1 DEF Show
  <2>2. asks' \in Seq(Posts)
    BY DEF IInv, Travels
  <2>3. QED
    BY <2>1, <2>2, GivenStep
<1>2. CASE view = NoView
  <2>1. pending' = chain /\ UNCHANGED <<view, shown, cursor, stop>> /\ UNCHANGED pageVars
    BY <1>2 DEF Show, pageVars
  <2>2. QED
    BY <2>1, StashedStep
<1>3. QED
  BY <1>1, <1>2

(* A tool saves a chain and hands it over. *)
LEMMA CommitStep ==
  ASSUME IInv, NEW chain \in Chains, NEW reveal \in BOOLEAN, Commit(chain, reveal),
         loaded' \in [Slots -> Chains \cup {NoChain}]
  PROVE  IInv'
<1>1. /\ Save(chain) /\ web' = web /\ asks' = asks /\ UNCHANGED syncVars
      /\ queries' \in {queries, Outdated(queries)} /\ asked' = asked /\ answered' = answered
      /\ IF reveal THEN Show(chain) ELSE Update(chain)
      /\ IF reveal /\ view = NoView THEN UNCHANGED inbox ELSE inbox' = inbox \o Pushed
  BY DEF Commit
<1>2. Stored'
  BY <1>1, SaveType DEF IInv, Stored
<1>3. Searched'
  BY <1>1, OutdatedSearch DEF IInv
<1>4. asks' \in Seq(Posts)
  BY <1>1 DEF IInv, Travels
<1>5. CASE reveal
  BY <1>1, <1>2, <1>3, <1>5, ShowStep
<1>6. CASE ~reveal
  <2>1. SetChain(chain, OfOtherChain(chain)) /\ view' = view /\ pending' = pending
    BY <1>1, <1>6 DEF Update
  <2>2. QED
    BY <1>1, <1>2, <1>3, <1>4, <1>6, <2>1, GivenStep
<1>7. QED
  BY <1>5, <1>6

(* How many chains there are. *)
LEMMA MintedType == Minted \in Nat
<1> DEFINE there == {i \in ChainIds : rows[i] # NoRow}
<1>1. IsFiniteSet(ChainIds)
  BY FS_Interval, StoreAssumption DEF ChainIds
<1>2. IsFiniteSet(there)
  BY <1>1, FS_Subset
<1>3. QED
  BY <1>2, FS_CardinalityType DEF Minted

LEMMA GenerateStep ==
  ASSUME IInv, NEW r \in Roots, Generate(r)
  PROVE  IInv'
<1>1. Minted + 1 \in ChainIds
  BY MintedType, StoreAssumption DEF Generate, ChainIds
<1>2. PICK s \in Sessions :
        Commit([id |-> Minted + 1, session |-> s, said |-> {},
                tree |-> <<[id |-> r, level |-> 1, st |-> "ok"]>>], TRUE)
  BY DEF Generate
<1> DEFINE node == [id |-> r, level |-> 1, st |-> "ok"]
           chain == [id |-> Minted + 1, session |-> s, said |-> {}, tree |-> <<node>>]
<1>3. node \in TreeNodes(Nodes)
  BY DEF TreeNodes, Nodes, Statuses
<1>4. <<node>> \in Seq(TreeNodes(Nodes)) /\ <<node>> # <<>>
  BY <1>3
<1>5. chain \in Chains
  BY <1>1, <1>4 DEF Chains
<1>6. loaded' \in [Slots -> Chains \cup {NoChain}]
  BY DEF Generate, IInv, Stored
<1>7. Commit(chain, TRUE)
  BY <1>2
<1> HIDE DEF chain
<1>8. QED
  BY <1>5, <1>6, <1>7, CommitStep

(* What a call makes of a chain is a chain. *)
LEMMA ChangedType ==
  ASSUME NEW chain \in Chains
  PROVE  Changed(chain) \subseteq Chains
<1>1. chain.tree \in Seq(TreeNodes(Nodes)) /\ chain.tree # <<>>
  BY ChainShape
<1>2. IdsOf(chain.tree) # {} /\ IdsOf(<<>>) = {}
  <2>1. 1 \in DOMAIN chain.tree
    BY <1>1, TailShifts
  <2>2. IdsOf(chain.tree) # {}
    BY <2>1 DEF IdsOf
  <2>3. DOMAIN <<>> = {}
    OBVIOUS
  <2>4. IdsOf(<<>>) = {}
    BY <2>3, Zenon DEF IdsOf
  <2>5. QED
    BY <2>2, <2>4
<1>3. ASSUME NEW tree \in Seq(TreeNodes(Nodes)), IdsOf(chain.tree) \subseteq IdsOf(tree)
      PROVE  [chain EXCEPT !.tree = tree] \in Chains
  <2>1. tree # <<>>
    BY <1>2, <1>3
  <2>2. QED
    BY <2>1 DEF Chains
<1>4. ASSUME NEW n \in Steps, NEW st \in {"ok", "weak"}
      PROVE  [chain EXCEPT !.tree = Grown(@, @[1].id, <<[id |-> n, level |-> 1, st |-> st]>>)] \in Chains
  <2> DEFINE block == <<[id |-> n, level |-> 1, st |-> st]>>
             tree == Grown(chain.tree, chain.tree[1].id, block)
  <2>1. block \in Seq(TreeNodes(Nodes))
    <3>1. [id |-> n, level |-> 1, st |-> st] \in TreeNodes(Nodes)
      BY DEF TreeNodes, Nodes, Statuses
    <3>2. QED
      BY <3>1
  <2> HIDE DEF block
  <2>2. tree \in Seq(TreeNodes(Nodes)) /\ IdsOf(chain.tree) \subseteq IdsOf(tree)
    BY <1>1, <2>1, GrownType, GrownIds
  <2> HIDE DEF tree
  <2>3. [chain EXCEPT !.tree = tree] \in Chains
    BY <1>3, <2>2
  <2>4. QED
    BY <2>3 DEF tree, block
<1>5. ASSUME NEW n
      PROVE  [chain EXCEPT !.tree = Marked(@, n, "stale")] \in Chains
  <2>1. /\ Marked(chain.tree, n, "stale") \in Seq(TreeNodes(Nodes))
        /\ IdsOf(Marked(chain.tree, n, "stale")) = IdsOf(chain.tree)
    BY <1>1, MarkedType DEF Statuses
  <2>2. QED
    BY <1>3, <2>1
<1> DEFINE grown(n, st) ==
             [chain EXCEPT !.tree = Grown(@, @[1].id, <<[id |-> n, level |-> 1, st |-> st]>>)]
           marked(n) == [chain EXCEPT !.tree = Marked(@, n, "stale")]
<1>6. /\ \A n \in Steps, st \in {"ok", "weak"} : grown(n, st) \in Chains
      /\ \A n : marked(n) \in Chains
  BY <1>4, <1>5, Zenon
<1>7. Changed(chain) = {grown(n, st) : n \in Steps \ IdsOf(chain.tree), st \in {"ok", "weak"}}
                         \cup {marked(n) : n \in IdsOf(chain.tree)}
  BY DEF Changed
<1> HIDE DEF grown, marked
<1>8. QED
  BY <1>6, <1>7

(* The panel, the page and what travels between them stay as they are. *)
LEMMA IdleStep ==
  ASSUME IInv, UNCHANGED <<rows, view, shown, pending, cursor, stop, web, inbox, asks, last>>,
         loaded' \in [Slots -> Chains \cup {NoChain}], place' \in Nodes \cup {NoNode}, Searched'
  PROVE  IInv'
<1>1. Stored' /\ Held' /\ Travels' /\ Away'
  BY DEF IInv, Stored, Held, Travels, Away
<1>2. Tour' = Tour
  BY DEF Tour
<1>3. Current' /\ Stopped' /\ SelectionOnTree'
  BY <1>2 DEF IInv, Current, Chained, Toured, Synced, Caught, TourNow, Stopped, SelectionOnTree
<1>4. QED
  BY <1>1, <1>3 DEF IInv

LEMMA FinishStep ==
  ASSUME IInv, NEW c \in Slots, Finish(c)
  PROVE  IInv'
<1>1. loaded[c] \in Chains /\ loaded' \in [Slots -> Chains \cup {NoChain}]
  BY DEF Finish, IInv, Stored
<1>2. ASSUME NEW chain \in Changed(loaded[c]), Commit(chain, FALSE)
      PROVE  IInv'
  <2>1. chain \in Chains
    BY <1>1, ChangedType
  <2>2. QED
    BY <1>1, <1>2, <2>1, CommitStep
<1>3. CASE UNCHANGED <<storeVars, panelVars, pageVars, syncVars, refsVars, spent>>
  <2>1. /\ UNCHANGED <<rows, view, shown, pending, cursor, stop, web, inbox, asks, last>>
        /\ UNCHANGED <<place, queries, asked, answered>>
    BY <1>3 DEF storeVars, panelVars, pageVars, syncVars, refsVars
  <2>2. place' \in Nodes \cup {NoNode} /\ Searched'
    BY <2>1 DEF IInv, Held, Searched
  <2>3. QED
    BY <1>1, <2>1, <2>2, IdleStep
<1>4. QED
  BY <1>2, <1>3 DEF Finish

LEMMA ReopenStep ==
  ASSUME IInv, NEW i \in ChainIds, Reopen(i)
  PROVE  IInv'
<1>1. rows[i] \in Chains
  BY DEF Reopen, IsChain, IInv, Stored
<1>2. /\ Show(rows[i]) /\ web' = web /\ asks' = asks /\ UNCHANGED syncVars /\ loaded' = loaded /\ rows' = rows
      /\ queries' \in {queries, Outdated(queries)} /\ asked' = asked /\ answered' = answered
      /\ IF view = NoView THEN UNCHANGED inbox ELSE inbox' = inbox \o Pushed
  BY DEF Reopen, storeVars
<1>3. Stored'
  BY <1>2 DEF IInv, Stored
<1>4. Searched'
  BY <1>2, OutdatedSearch DEF IInv
<1>5. QED
  BY <1>1, <1>2, <1>3, <1>4, ShowStep

-----------------------------------------------------------------------------
(* The page and the reader. *)

(* The panel keeps its state and posts nothing; the page keeps what it was *)
(* told. A page that has not heard yet what it asked for may forget that.  *)
Told(w) == <<w.chain, w.tour, w.synced, w.told>>

LEMMA PageStep ==
  ASSUME IInv, view # NoView, UNCHANGED <<rows, loaded, view, shown, pending, cursor, stop, inbox, place, last>>,
         web' \in Pages, asks' \in Seq(Posts), Told(web') = Told(web), web.told => web'.mounted,
         Caught' => Caught, SelectionOnTree', Searched'
  PROVE  IInv'
<1>1. Stored' /\ Held' /\ Travels' /\ Away'
  BY DEF IInv, Stored, Held, Travels, Away
<1>2. Tour' = Tour
  BY DEF Tour
<1>3. /\ web'.chain = web.chain /\ web'.tour = web.tour
      /\ web'.synced = web.synced /\ web'.told = web.told
  BY DEF Told
<1>4. Follows(inbox, ChainMsg(shown), Caught => web.chain = shown) =>
        Follows(inbox, ChainMsg(shown), Caught' => web.chain = shown)
  BY DEF Follows
<1>5. Chained'
  BY <1>3, <1>4 DEF IInv, Current, Chained
<1>6. Follows(inbox, TourMsg(cursor, Len(Tour)), Caught => web.tour = TourNow) =>
        Follows(inbox, TourMsg(cursor, Len(Tour)), Caught' => web.tour = TourNow)
  BY DEF Follows
<1>7. TourNow' = TourNow
  BY <1>2 DEF TourNow
<1>8. Toured'
  BY <1>2, <1>3, <1>6, <1>7 DEF IInv, Current, Toured
<1>9. Synced'
  BY <1>3 DEF IInv, Current, Synced
<1>10. Stopped'
  BY <1>2 DEF IInv, Stopped
<1>11. QED
  BY <1>1, <1>5, <1>8, <1>9, <1>10 DEF IInv, Current

(* A page with a chain belongs to a view. *)
LEMMA PageHasView ==
  ASSUME IInv, web.chain # NoChain
  PROVE  view # NoView
BY DEF IInv, Away, Blank

(* What the page shows are nodes. *)
LEMMA VisibleNodes ==
  ASSUME IInv, web.chain # NoChain
  PROVE  /\ web.chain \in Chains
         /\ Visible \subseteq IdsOf(web.chain.tree)
         /\ IdsOf(web.chain.tree) \subseteq Nodes
         /\ InView \subseteq Nodes
<1>1. web.chain \in Chains /\ web.selected \in Nodes \cup {NoNode}
  BY DEF IInv, Travels, Pages
<1>2. ASSUME NEW tree \in Seq(TreeNodes(Nodes))
      PROVE  \A i \in DOMAIN tree : tree[i].id \in Nodes
  <2>1. TAKE i \in DOMAIN tree
  <2>2. tree[i] \in TreeNodes(Nodes)
    BY ElementOfSeq, LenProperties
  <2>3. QED
    BY <2>2 DEF TreeNodes
<1>3. web.chain.tree \in Seq(TreeNodes(Nodes)) /\ 1 \in DOMAIN web.chain.tree
  BY <1>1, ChainShape, TailShifts
<1>4. Visible \subseteq IdsOf(web.chain.tree)
  BY DEF Visible, IdsOf
<1>5. IdsOf(web.chain.tree) \subseteq Nodes
  BY <1>2, <1>3 DEF IdsOf
<1>6. Detail \in Nodes
  BY <1>2, <1>3, <1>4, <1>5 DEF Detail
<1>7. FocusNode \in Nodes \cup {NoNode}
  <2>1. PageTour \in Seq(TreeNodes(Nodes))
    BY <1>1, TourType DEF PageTour
  <2>2. PageTour # <<>> => 1 \in DOMAIN PageTour
    BY <2>1, TailShifts
  <2>3. QED
    BY <1>2, <2>1, <2>2 DEF FocusNode
<1>8. QED
  BY <1>1, <1>4, <1>5, <1>6, <1>7 DEF InView

(* Another post of the page does not make it heard. *)
LEMMA AskedStill ==
  ASSUME IInv, NEW m \in Posts, asks' = Append(asks, m), web'.mounted = web.mounted
  PROVE  asks' \in Seq(Posts) /\ (Caught' => Caught)
<1>1. asks \in Seq(Posts)
  BY DEF IInv, Travels
<1>2. DOMAIN asks \subseteq DOMAIN asks' /\ \A i \in DOMAIN asks : asks'[i] = asks[i]
  BY <1>1, AppendProperties, LenProperties
<1>3. asks' \in Seq(Posts)
  BY <1>1, AppendProperties
<1>4. QED
  BY <1>2, <1>3 DEF Caught

(* What the reader does to the rows. *)
LEMMA RowsStep ==
  ASSUME IInv, web.chain # NoChain, readerIdle' = readerIdle, asks' = asks,
         NEW n \in IdsOf(web.chain.tree), NEW rowsHidden, rowsHidden \subseteq IdsOf(web.chain.tree),
         web' \in {[web EXCEPT !.selected = n], [web EXCEPT !.collapsed = rowsHidden]}
  PROVE  IInv'
<1>1. /\ UNCHANGED <<rows, loaded, view, shown, pending, cursor, stop, inbox, place, last>>
      /\ UNCHANGED <<queries, asked, answered>>
  BY DEF readerIdle, storeVars, panelVars, syncVars, refsVars
<1>2. /\ web' \in Pages /\ web'.mounted = web.mounted /\ Told(web') = Told(web)
      /\ {web'.selected} \cup web'.collapsed \subseteq IdsOf(web.chain.tree)
  BY VisibleNodes DEF IInv, Travels, Pages, SelectionOnTree, Told
<1>3. SelectionOnTree'
  BY <1>2 DEF SelectionOnTree, Told
<1>4. Searched' /\ asks' \in Seq(Posts) /\ Caught' = Caught /\ (web.told => web'.mounted)
  BY <1>1, <1>2 DEF IInv, Searched, Travels, Caught, Current, Synced
<1>5. QED
  BY <1>1, <1>2, <1>3, <1>4, PageHasView, PageStep

LEMMA ReaderStep ==
  ASSUME IInv,
         \/ \E n \in Nodes : Select(n) \/ Toggle(n)
         \/ ExpandAll
  PROVE  IInv'
<1>1. ASSUME NEW n \in Nodes, Select(n)
      PROVE  IInv'
  <2>1. web.chain # NoChain /\ n \in IdsOf(web.chain.tree)
    BY <1>1, VisibleNodes DEF Select, HasRow
  <2>2. readerIdle' = readerIdle /\ asks' = asks /\ web' = [web EXCEPT !.selected = n]
    BY <1>1 DEF Select
  <2>3. QED
    BY <2>1, <2>2, RowsStep
<1>2. ASSUME NEW n \in Nodes, Toggle(n)
      PROVE  IInv'
  <2>1. web.chain # NoChain /\ n \in IdsOf(web.chain.tree)
    BY <1>2, VisibleNodes DEF Toggle, HasRow
  <2>2. /\ readerIdle' = readerIdle /\ asks' = asks
        /\ web' = [web EXCEPT !.collapsed = IF n \in @ THEN @ \ {n} ELSE @ \cup {n}]
    BY <1>2 DEF Toggle
  <2> DEFINE hidden == IF n \in web.collapsed THEN web.collapsed \ {n} ELSE web.collapsed \cup {n}
  <2>3. web' = [web EXCEPT !.collapsed = hidden]
    BY <2>2
  <2>4. hidden \subseteq IdsOf(web.chain.tree)
    BY <2>1 DEF IInv, SelectionOnTree
  <2> HIDE DEF hidden
  <2>5. QED
    BY <2>1, <2>2, <2>3, <2>4, RowsStep
<1>3. ASSUME ExpandAll
      PROVE  IInv'
  <2> DEFINE hidden == IF web.collapsed # {} THEN {} ELSE IdsOf(web.chain.tree)
  <2>1. /\ web.chain # NoChain /\ readerIdle' = readerIdle /\ asks' = asks
        /\ web' = [web EXCEPT !.collapsed = hidden]
    BY <1>3 DEF ExpandAll
  <2>2. hidden \subseteq IdsOf(web.chain.tree) /\ web.selected \in IdsOf(web.chain.tree)
    BY <2>1 DEF IInv, SelectionOnTree
  <2> HIDE DEF hidden
  <2>3. QED
    BY <2>1, <2>2, RowsStep
<1>4. QED
  BY <1>1, <1>2, <1>3

(* What the reader asks for. *)
LEMMA AskStep ==
  ASSUME IInv,
         \/ Mount \/ PickCandidate \/ OpenDrawer \/ CloseDrawer
         \/ \E dir \in {"prev", "next"} : Press(dir)
  PROVE  IInv'
<1>1. /\ UNCHANGED <<rows, loaded, view, shown, pending, cursor, stop, inbox, place, last>>
      /\ UNCHANGED <<queries, asked, answered>>
  BY DEF Mount, PickCandidate, OpenDrawer, CloseDrawer, Press, readerIdle, storeVars, panelVars, syncVars, refsVars
<1>2. Searched'
  BY <1>1 DEF IInv, Searched
<1>3. web \in Pages /\ asks \in Seq(Posts) /\ (web.told => web.mounted)
  BY DEF IInv, Travels, Current, Synced
<1>4. CASE Mount
  <2>1. view # NoView /\ web' = [web EXCEPT !.mounted = TRUE] /\ asks' = Append(asks, [t |-> "ready"])
    BY <1>4 DEF Mount
  <2>2. web' \in Pages /\ Told(web') = Told(web) /\ web'.mounted
    BY <1>3, <2>1 DEF Pages, Told
  <2>3. web'.chain = web.chain /\ web'.selected = web.selected /\ web'.collapsed = web.collapsed
    BY <1>3, <2>1 DEF Pages
  <2>4. SelectionOnTree'
    BY <2>3 DEF IInv, SelectionOnTree
  <2> DEFINE m == [t |-> "ready"]
  <2>5. m \in Posts /\ m.t = "ready"
    BY DEF Posts
  <2> HIDE DEF m
  <2>6. asks' \in Seq(Posts) /\ Len(asks) + 1 \in DOMAIN asks' /\ asks'[Len(asks) + 1] = m
    BY <1>3, <2>1, <2>5, AppendProperties, LenProperties DEF m
  <2>7. ~Caught'
    BY <2>5, <2>6 DEF Caught
  <2>8. QED
    BY <1>1, <1>2, <2>1, <2>2, <2>4, <2>6, <2>7, PageStep
<1>5. CASE CloseDrawer
  <2>1. web.chain # NoChain /\ web' = [web EXCEPT !.open = NoNode] /\ asks' = asks
    BY <1>5 DEF CloseDrawer
  <2>2. /\ web' \in Pages /\ Told(web') = Told(web) /\ web'.mounted = web.mounted
        /\ web'.chain = web.chain /\ web'.selected = web.selected /\ web'.collapsed = web.collapsed
    BY <1>3, <2>1 DEF Pages, Told
  <2>3. SelectionOnTree' /\ Caught' = Caught
    BY <2>1, <2>2 DEF IInv, SelectionOnTree, Caught
  <2>4. QED
    BY <1>1, <1>2, <1>3, <2>1, <2>2, <2>3, PageHasView, PageStep
<1>6. ASSUME NEW dir \in {"prev", "next"}, Press(dir)
      PROVE  IInv'
  <2>1. [t |-> "tour", dir |-> dir] \in Posts
    BY DEF Posts
  <2>2. web.chain # NoChain /\ web' = web /\ asks' = Append(asks, [t |-> "tour", dir |-> dir])
    BY <1>6 DEF Press, readerIdle
  <2>3. asks' \in Seq(Posts) /\ (Caught' => Caught)
    BY <2>1, <2>2, AskedStill
  <2>4. SelectionOnTree'
    BY <2>2 DEF IInv, SelectionOnTree
  <2>5. QED
    BY <1>1, <1>2, <1>3, <2>2, <2>3, <2>4, PageHasView, PageStep
<1>7. CASE PickCandidate
  <2>1. PICK n \in InView : web.chain # NoChain /\ web' = web /\ asks' = Append(asks, [t |-> "pick", node |-> n])
    BY <1>7 DEF PickCandidate
  <2>2. [t |-> "pick", node |-> n] \in Posts
    BY <2>1, VisibleNodes DEF Posts
  <2>3. asks' \in Seq(Posts) /\ (Caught' => Caught)
    BY <2>1, <2>2, AskedStill
  <2>4. SelectionOnTree'
    BY <2>1 DEF IInv, SelectionOnTree
  <2>5. QED
    BY <1>1, <1>2, <1>3, <2>1, <2>3, <2>4, PageHasView, PageStep
<1>8. CASE OpenDrawer
  <2>1. PICK n \in InView : /\ web.chain # NoChain
                            /\ web' = [web EXCEPT !.open = n, !.refs = @ \ {n}]
                            /\ asks' = Append(asks, [t |-> "findRefs", node |-> n])
    BY <1>8 DEF OpenDrawer
  <2>2. n \in Nodes
    BY <2>1, VisibleNodes
  <2>3. [t |-> "findRefs", node |-> n] \in Posts
    BY <2>2 DEF Posts
  <2>4. /\ web' \in Pages /\ Told(web') = Told(web) /\ web'.mounted = web.mounted
        /\ web'.chain = web.chain /\ web'.selected = web.selected /\ web'.collapsed = web.collapsed
    BY <1>3, <2>1, <2>2 DEF Pages, Told
  <2>5. asks' \in Seq(Posts) /\ (Caught' => Caught)
    BY <2>1, <2>3, <2>4, AskedStill
  <2>6. SelectionOnTree'
    BY <2>4 DEF IInv, SelectionOnTree
  <2>7. QED
    BY <1>1, <1>2, <1>3, <2>1, <2>4, <2>5, <2>6, PageHasView, PageStep
<1>9. QED
  BY <1>4, <1>5, <1>6, <1>7, <1>8

-----------------------------------------------------------------------------
(* Views and pages come and go. *)

LEMMA BlankType == Blank \in Pages
BY ViewAssumption DEF Blank, Pages

(* A blank page has no chain to be wrong about. *)
LEMMA BlankSelection ==
  ASSUME web' = Blank
  PROVE  SelectionOnTree'
BY DEF Blank, SelectionOnTree

(* A blank page, to which nothing is on its way. *)
LEMMA FreshStep ==
  ASSUME IInv, web' = Blank, inbox' = <<>>, asks' = <<>>, UNCHANGED <<rows, loaded, place, last>>,
         Held', Stopped', Searched'
  PROVE  IInv'
<1>1. Stored' /\ Travels' /\ Away'
  BY BlankType, EmptySeq DEF IInv, Stored, Travels, Away
<1>2. ~Caught' /\ ~web'.told /\ web'.chain = NoChain
  BY DEF Caught, Blank
<1>3. \A m, right : right => Follows(inbox', m, right)
  BY NoneEmpty DEF Follows
<1>4. Chained'
  BY <1>2, <1>3, NoneEmpty DEF Chained
<1>5. Toured'
  BY <1>2, <1>3 DEF Toured
<1>6. Synced'
  BY <1>2, <1>3 DEF Synced
<1>7. QED
  BY <1>1, <1>4, <1>5, <1>6, BlankSelection DEF IInv, Current

LEMMA ReloadStep ==
  ASSUME IInv, Reload
  PROVE  IInv'
<1>1. /\ web' = Blank /\ inbox' = <<>> /\ asks' = <<>> /\ UNCHANGED <<rows, loaded, place, last>>
      /\ UNCHANGED <<shown, pending, cursor, stop, queries, asked, answered>>
  BY DEF Reload, panelVars, pageIdle, storeVars, syncVars
<1>2. Held' /\ Searched' /\ Tour' = Tour
  BY <1>1 DEF IInv, Held, Searched, Tour
<1>3. Stopped'
  BY <1>1, <1>2 DEF IInv, Stopped
<1>4. QED
  BY <1>1, <1>2, <1>3, FreshStep

LEMMA CloseStep ==
  ASSUME IInv, NEW v, Close(v)
  PROVE  IInv'
<1>1. UNCHANGED <<rows, loaded, place, last, pending, asked, answered>>
  BY DEF Close, Dispose, pageIdle, storeVars, syncVars
<1>2. CASE v = view
  <2>1. /\ web' = Blank /\ inbox' = <<>> /\ asks' = <<>> /\ queries' = Outdated(queries)
        /\ shown' = NoChain /\ cursor' = 0 /\ stop' = NoNode
    BY <1>2 DEF Close, Dispose
  <2>2. Held' /\ Stopped'
    BY <1>1, <2>1 DEF IInv, Held, Stopped
  <2>3. Searched'
    BY <1>1, <2>1, OutdatedSearch DEF IInv
  <2>4. QED
    BY <1>1, <2>1, <2>2, <2>3, FreshStep
<1>3. CASE v # view
  <2>1. UNCHANGED <<view, shown, cursor, stop, web, inbox, asks, queries>>
    BY <1>3 DEF Close, Dispose, pageVars
  <2>2. loaded' \in [Slots -> Chains \cup {NoChain}] /\ place' \in Nodes \cup {NoNode} /\ Searched'
    BY <1>1, <2>1 DEF IInv, Stored, Held, Searched
  <2>3. QED
    BY <1>1, <2>1, <2>2, IdleStep
<1>4. QED
  BY <1>2, <1>3

(* A new view is told at once of what there is; its page is not mounted    *)
(* yet and may hear nothing of it.                                         *)
LEMMA OpenStep ==
  ASSUME IInv, NEW v \in Views, Open(v)
  PROVE  IInv'
<1>1. /\ web' = Blank /\ asks' = <<>> /\ UNCHANGED <<rows, loaded, place, last, asked, answered>>
      /\ inbox' = (IF shown' = NoChain THEN <<>> ELSE Pushed)
      /\ queries' \in {queries, Outdated(queries)}
      /\ view' = v /\ v # NoView
  BY ViewAssumption DEF Open, Resolve, pageIdle, storeVars, syncVars
<1>2. Searched'
  BY <1>1, OutdatedSearch DEF IInv
<1>3. /\ shown' \in Chains \cup {NoChain} /\ pending' \in Chains \cup {NoChain}
      /\ cursor' \in Nat /\ Stopped'
  <2>1. CASE shown = NoChain /\ pending # NoChain
    <3>1. pending \in Chains
      BY <2>1 DEF IInv, Held
    <3>2. SetChain(pending, TRUE) /\ pending' = NoChain
      BY <2>1 DEF Open, Resolve
    <3>3. QED
      BY <3>1, <3>2, SetChainStep
  <2>2. CASE ~(shown = NoChain /\ pending # NoChain)
    <3>1. UNCHANGED <<pending, shown, cursor, stop>>
      BY <2>2 DEF Open, Resolve
    <3>2. Tour' = Tour
      BY <3>1 DEF Tour
    <3>3. QED
      BY <3>1, <3>2 DEF IInv, Held, Stopped
  <2>3. QED
    BY <2>1, <2>2
<1>4. Held'
  BY <1>1, <1>3 DEF IInv, Held
<1>5. CASE shown' = NoChain
  BY <1>1, <1>2, <1>3, <1>4, <1>5, FreshStep
<1>6. CASE shown' # NoChain
  <2> DEFINE a == ChainMsg(shown')
             b == TourMsg(cursor', Len(Tour'))
  <2>1. shown' \in Chains
    BY <1>3, <1>6
  <2>2. Tour' = TourOrder(shown'.tree) /\ Len(Tour') \in Nat
    BY <1>6, <2>1, TourType, LenProperties DEF Tour
  <2>3. a \in Messages /\ a.t = "chain"
    BY <2>1 DEF ChainMsg, Messages, ChainMsgs
  <2>4. b \in Messages /\ b.t = "tourState"
    BY <1>3, <2>2 DEF TourMsg, Messages, TourMsgs
  <2>5. inbox' = <<a, b>>
    BY <1>1, <1>6, <2>2 DEF Pushed
  <2> HIDE DEF a, b
  <2>6. inbox' \in Seq(Messages) /\ DOMAIN inbox' = 1..2 /\ inbox'[1] = a /\ inbox'[2] = b
    BY <2>3, <2>4, <2>5
  <2>7. Last(inbox', a) /\ Last(inbox', b) /\ None(inbox', "sync")
    BY <2>3, <2>4, <2>6 DEF Last, None
  <2>8. ~web'.told
    BY <1>1 DEF Blank
  <2>9. Chained' /\ Toured'
    BY <1>6, <2>7 DEF Chained, Toured, Follows, a, b
  <2>10. Synced'
    BY <2>7, <2>8 DEF Synced, Follows, SyncMsg
  <2>11. Stored' /\ Travels' /\ Away'
    BY <1>1, <2>6, BlankType, EmptySeq DEF IInv, Stored, Travels, Away
  <2>12. SelectionOnTree'
    BY <1>1, BlankSelection
  <2>13. QED
    BY <1>2, <1>3, <1>4, <2>9, <2>10, <2>11, <2>12 DEF IInv, Current
<1>7. QED
  BY <1>5, <1>6

-----------------------------------------------------------------------------
(* The page hears a message. *)

LEMMA FoldedChain ==
  ASSUME NEW w \in Pages, NEW m \in ChainMsgs
  PROVE  LET f == Folded(w, m)
         IN  /\ f \in Pages /\ f.mounted = w.mounted /\ f.chain = m.chain
             /\ f.tour = w.tour /\ f.synced = w.synced /\ f.told = w.told
             /\ {f.selected} \cup f.collapsed \subseteq IdsOf(f.chain.tree)
<1> DEFINE new == w.chain = NoChain \/ w.chain.id # m.chain.id
           ids == IdsOf(m.chain.tree)
           sel == IF ~new /\ w.selected \in ids THEN w.selected ELSE m.chain.tree[1].id
           col == IF new THEN {} ELSE w.collapsed \cap ids
<1>1. m.chain \in Chains /\ m.t = "chain"
  BY DEF ChainMsgs
<1>2. 1 \in DOMAIN m.chain.tree /\ m.chain.tree[1] \in TreeNodes(Nodes)
  BY <1>1, ChainShape, TailShifts
<1>3. m.chain.tree[1].id \in ids /\ m.chain.tree[1].id \in Nodes
  BY <1>2 DEF IdsOf, TreeNodes
<1>4. sel \in ids /\ sel \in Nodes \cup {NoNode} /\ col \subseteq ids /\ col \subseteq Nodes
  BY <1>3 DEF Pages
<1>5. Folded(w, m) = [w EXCEPT !.chain = m.chain, !.selected = sel, !.collapsed = col]
  BY <1>1 DEF Folded
<1> HIDE DEF sel, col, new
<1> DEFINE f == Folded(w, m)
<1>6. /\ f.chain = m.chain /\ f.selected = sel /\ f.collapsed = col /\ f.mounted = w.mounted
      /\ f.tour = w.tour /\ f.synced = w.synced /\ f.told = w.told
  BY <1>5 DEF Pages
<1>7. f \in Pages
  BY <1>1, <1>4, <1>5 DEF Pages
<1> HIDE DEF f
<1>8. {f.selected} \cup f.collapsed \subseteq IdsOf(f.chain.tree)
  BY <1>4, <1>6
<1>9. QED
  BY <1>6, <1>7, <1>8 DEF f

LEMMA FoldedTour ==
  ASSUME NEW w \in Pages, NEW m \in TourMsgs
  PROVE  LET f == Folded(w, m)
         IN  f \in Pages /\ f = [w EXCEPT !.tour = m.tour]
BY DEF Folded, Pages, TourMsgs

LEMMA FoldedSync ==
  ASSUME NEW w \in Pages, NEW m \in SyncMsgs
  PROVE  LET f == Folded(w, m)
         IN  f \in Pages /\ f = [w EXCEPT !.synced = m.node, !.told = TRUE]
BY DEF Folded, Pages, SyncMsgs

(* What the page makes of a message of the panel. *)
Heard(w, m) == IF w.mounted /\ m.t \in Vocabulary THEN Folded(w, m) ELSE w

LEMMA HeardShape ==
  ASSUME NEW w \in Pages, NEW m \in Messages
  PROVE  LET h == Heard(w, m)
         IN  /\ h \in Pages /\ h.mounted = w.mounted
             /\ m.t # "chain" => /\ h.chain = w.chain
                                 /\ h.selected = w.selected /\ h.collapsed = w.collapsed
             /\ m.t # "tourState" => h.tour = w.tour
             /\ m.t # "sync" => h.synced = w.synced /\ h.told = w.told
             /\ w.mounted /\ m.t = "chain" =>
                  h.chain = m.chain /\ {h.selected} \cup h.collapsed \subseteq IdsOf(h.chain.tree)
             /\ ~w.mounted => h = w
             /\ w.mounted /\ m.t = "tourState" => h.tour = m.tour
             /\ w.mounted /\ m.t = "sync" => h.synced = m.node /\ h.told
<1>1. CASE ~w.mounted
  BY <1>1 DEF Heard
<1>2. CASE w.mounted /\ m \in ChainMsgs
  <2>1. m.t = "chain" /\ Heard(w, m) = Folded(w, m)
    BY <1>2 DEF Heard, Vocabulary, ChainMsgs
  <2> DEFINE f == Folded(w, m)
  <2>2. /\ f \in Pages /\ f.mounted = w.mounted /\ f.chain = m.chain
        /\ f.tour = w.tour /\ f.synced = w.synced /\ f.told = w.told
        /\ {f.selected} \cup f.collapsed \subseteq IdsOf(f.chain.tree)
    BY <1>2, FoldedChain
  <2>3. Heard(w, m) = f
    BY <2>1
  <2> HIDE DEF f
  <2>4. QED
    BY <1>2, <2>1, <2>2, <2>3
<1>3. CASE w.mounted /\ m \in TourMsgs
  <2>1. m.t = "tourState" /\ Heard(w, m) = Folded(w, m)
    BY <1>3 DEF Heard, Vocabulary, TourMsgs
  <2>2. Heard(w, m) \in Pages /\ Heard(w, m) = [w EXCEPT !.tour = m.tour]
    BY <1>3, <2>1, FoldedTour
  <2>3. QED
    BY <1>3, <2>1, <2>2 DEF Pages
<1>4. CASE w.mounted /\ m \in SyncMsgs
  <2>1. m.t = "sync" /\ Heard(w, m) = Folded(w, m)
    BY <1>4 DEF Heard, Vocabulary, SyncMsgs
  <2>2. Heard(w, m) \in Pages /\ Heard(w, m) = [w EXCEPT !.synced = m.node, !.told = TRUE]
    BY <1>4, <2>1, FoldedSync
  <2>3. QED
    BY <1>4, <2>1, <2>2 DEF Pages
<1>5. CASE w.mounted /\ m \in RefsMsgs
  BY <1>5 DEF Heard, Vocabulary, RefsMsgs
<1>6. QED
  BY <1>1, <1>2, <1>3, <1>4, <1>5 DEF Messages

LEMMA DeliverStep ==
  ASSUME IInv, Deliver
  PROVE  IInv'
<1> DEFINE m == Head(inbox)
<1>1. /\ inbox # <<>> /\ inbox' = Tail(inbox) /\ web' = Heard(web, m)
      /\ UNCHANGED <<rows, loaded, view, shown, pending, cursor, stop, asks, place, last>>
      /\ UNCHANGED <<queries, asked, answered>>
  BY DEF Deliver, Heard, storeVars, panelVars, syncVars, refsVars
<1>2. inbox \in Seq(Messages) /\ web \in Pages /\ view # NoView
  BY <1>1 DEF IInv, Travels, Away
<1>3. m \in Messages /\ inbox' \in Seq(Messages)
  BY <1>1, <1>2, TailShifts
<1> HIDE DEF m
<1>4. /\ web' \in Pages /\ web'.mounted = web.mounted
      /\ m.t # "chain" => /\ web'.chain = web.chain
                          /\ web'.selected = web.selected /\ web'.collapsed = web.collapsed
      /\ m.t # "tourState" => web'.tour = web.tour
      /\ m.t # "sync" => web'.synced = web.synced /\ web'.told = web.told
      /\ web.mounted /\ m.t = "chain" =>
           web'.chain = m.chain /\ {web'.selected} \cup web'.collapsed \subseteq IdsOf(web'.chain.tree)
      /\ ~web.mounted => web' = web
      /\ web.mounted /\ m.t = "tourState" => web'.tour = m.tour
      /\ web.mounted /\ m.t = "sync" => web'.synced = m.node /\ web'.told
  <2>1. web' = Heard(web, m)
    BY <1>1
  <2>2. QED
    BY <1>2, <1>3, <2>1, HeardShape
<1>5. ASSUME NEW n, Last(inbox, n)
      PROVE  Last(inbox', n) \/ (m = n /\ None(inbox', n.t))
  BY <1>1, <1>2, <1>5, LastOfTail DEF m
<1>6. ASSUME NEW kind, None(inbox, kind)
      PROVE  None(inbox', kind) /\ m.t # kind
  BY <1>1, <1>2, <1>6, NoneOfTail DEF m
<1>7. Caught' = Caught
  BY <1>1, <1>4 DEF Caught
<1>8. Tour' = Tour /\ TourNow' = TourNow
  BY <1>1 DEF Tour, TourNow
<1>9. Stored' /\ Held' /\ Travels' /\ Away' /\ Stopped' /\ Searched'
  BY <1>1, <1>2, <1>3, <1>4, <1>8 DEF IInv, Stored, Held, Travels, Away, Stopped, Searched
<1>10. Chained'
  <2>1. CASE shown = NoChain
    <3>1. None(inbox, "chain") /\ web.chain = NoChain
      BY <2>1 DEF IInv, Current, Chained
    <3>2. None(inbox', "chain") /\ web'.chain = NoChain
      BY <1>4, <1>6, <3>1
    <3>3. QED
      BY <1>1, <2>1, <3>2 DEF Chained
  <2>2. CASE shown # NoChain
    <3> DEFINE n == ChainMsg(shown)
    <3>1. n.t = "chain" /\ n.chain = shown
      BY DEF ChainMsg
    <3>2. Follows(inbox, n, Caught => web.chain = shown)
      BY <1>2, <2>2 DEF IInv, Current, Chained
    <3> HIDE DEF n
    <3>3. CASE Last(inbox, n)
      <4>1. Last(inbox', n) \/ (m = n /\ None(inbox', n.t))
        BY <1>5, <3>3
      <4>2. m = n => (Caught => web'.chain = shown)
        BY <1>4, <3>1 DEF Caught
      <4>3. Follows(inbox', n, Caught => web'.chain = shown)
        BY <4>1, <4>2 DEF Follows
      <4>4. QED
        BY <1>1, <1>7, <2>2, <4>3 DEF Chained, n
    <3>4. CASE None(inbox, n.t) /\ (Caught => web.chain = shown)
      <4>1. Follows(inbox', n, Caught => web'.chain = shown)
        BY <1>4, <1>6, <3>1, <3>4 DEF Follows
      <4>2. QED
        BY <1>1, <1>7, <2>2, <4>1 DEF Chained, n
    <3>5. QED
      BY <3>2, <3>3, <3>4 DEF Follows
  <2>3. QED
    BY <2>1, <2>2
<1>11. Toured'
  <2> DEFINE n == TourMsg(cursor, Len(Tour))
  <2>1. n.t = "tourState" /\ n.tour = TourNow
    BY DEF TourMsg, TourNow
  <2> HIDE DEF n
  <2>2. SUFFICES ASSUME shown # NoChain
                 PROVE  Follows(inbox', n, Caught => web'.tour = TourNow)
    BY <1>1, <1>7, <1>8 DEF Toured, n
  <2>3. Follows(inbox, n, Caught => web.tour = TourNow)
    BY <1>2, <2>2 DEF IInv, Current, Toured, n
  <2>4. CASE Last(inbox, n)
    <3>1. m = n => (Caught => web'.tour = TourNow)
      BY <1>4, <2>1 DEF Caught
    <3>2. QED
      BY <1>5, <2>4, <3>1 DEF Follows
  <2>5. CASE None(inbox, n.t) /\ (Caught => web.tour = TourNow)
    BY <1>4, <1>6, <2>1, <2>5 DEF Follows
  <2>6. QED
    BY <2>3, <2>4, <2>5 DEF Follows
<1>12. Synced'
  <2> DEFINE n == SyncMsg(last)
  <2>1. n.t = "sync" /\ n.node = last
    BY DEF SyncMsg
  <2> HIDE DEF n
  <2>2. web.told => web.mounted
    BY DEF IInv, Current, Synced
  <2>3. web'.told => web'.mounted
    BY <1>4, <2>2
  <2>4. Follows(inbox, n, web.told => web.synced = last)
    BY <1>2 DEF IInv, Current, Synced, n
  <2>5. CASE Last(inbox, n)
    <3>1. m = n => (web'.told => web'.synced = last)
      BY <1>4, <2>1, <2>2
    <3>2. Follows(inbox', n, web'.told => web'.synced = last)
      BY <1>5, <2>5, <3>1 DEF Follows
    <3>3. QED
      BY <1>1, <2>3, <3>2 DEF Synced, n
  <2>6. CASE None(inbox, n.t) /\ (web.told => web.synced = last)
    <3>1. Follows(inbox', n, web'.told => web'.synced = last)
      BY <1>4, <1>6, <2>1, <2>6 DEF Follows
    <3>2. QED
      BY <1>1, <2>3, <3>1 DEF Synced, n
  <2>7. QED
    BY <2>4, <2>5, <2>6 DEF Follows
<1>13. SelectionOnTree'
  <2>1. CASE web.mounted /\ m.t = "chain"
    BY <1>4, <2>1 DEF SelectionOnTree
  <2>2. CASE ~(web.mounted /\ m.t = "chain")
    BY <1>4, <2>2 DEF IInv, SelectionOnTree
  <2>3. QED
    BY <2>1, <2>2
<1>14. QED
  BY <1>9, <1>10, <1>11, <1>12, <1>13 DEF IInv, Current

-----------------------------------------------------------------------------
(* The panel posts. *)

(* Where the tour is, where the editor's cursor is, or an answer is posted *)
(* to the page, and what is told of it is what it says.                    *)
LEMMA PostedStep ==
  ASSUME IInv, view # NoView, NEW n \in Messages, inbox' = Append(inbox, n), n.t # "chain",
         UNCHANGED <<rows, loaded, view, shown, pending, web>>,
         (cursor' = cursor /\ n.t # "tourState") \/ n = TourMsg(cursor', Len(Tour)),
         (last' = last /\ n.t # "sync") \/ n = SyncMsg(last'),
         asks' \in Seq(Posts), Caught' => Caught, Held', Stopped', Searched'
  PROVE  IInv'
<1>1. inbox \in Seq(Messages) /\ inbox' \in Seq(Messages)
  BY AppendProperties DEF IInv, Travels
<1>2. Stored' /\ Travels' /\ Away' /\ SelectionOnTree'
  BY <1>1 DEF IInv, Stored, Travels, Away, SelectionOnTree
<1>3. Tour' = Tour
  BY DEF Tour
<1>4. ASSUME NEW m, n.t # m.t, NEW right, Follows(inbox, m, right)
      PROVE  Follows(inbox', m, right)
  BY <1>1, <1>4, FollowsOther
<1>5. \A m, right : n = m => Follows(inbox', m, right)
  BY <1>1, LastAppended DEF Follows
<1>6. Chained'
  <2>1. CASE shown = NoChain
    <3>1. None(inbox, "chain") /\ web.chain = NoChain
      BY <2>1 DEF IInv, Current, Chained
    <3>2. None(inbox', "chain")
      BY <1>1, <3>1, NoneAppended
    <3>3. QED
      BY <2>1, <3>1, <3>2 DEF Chained
  <2>2. CASE shown # NoChain
    <3> DEFINE m == ChainMsg(shown)
    <3>1. m.t = "chain"
      BY DEF ChainMsg
    <3>2. Follows(inbox, m, Caught => web.chain = shown)
      BY <2>2 DEF IInv, Current, Chained
    <3> HIDE DEF m
    <3>3. Follows(inbox', m, Caught => web.chain = shown)
      BY <1>4, <3>1, <3>2
    <3>4. Follows(inbox', m, Caught' => web.chain = shown)
      BY <3>3 DEF Follows
    <3>5. QED
      BY <2>2, <3>4 DEF Chained, m
  <2>3. QED
    BY <2>1, <2>2
<1>7. Toured'
  <2>1. SUFFICES ASSUME shown # NoChain
                 PROVE  Follows(inbox', TourMsg(cursor', Len(Tour)), (Caught => web.tour = TourNow)')
    BY <1>3 DEF Toured
  <2>2. CASE n = TourMsg(cursor', Len(Tour))
    BY <1>5, <2>2
  <2>3. CASE cursor' = cursor /\ n.t # "tourState"
    <3> DEFINE m == TourMsg(cursor, Len(Tour))
    <3>1. m.t = "tourState"
      BY DEF TourMsg
    <3>2. Follows(inbox, m, Caught => web.tour = TourNow)
      BY <2>1 DEF IInv, Current, Toured
    <3> HIDE DEF m
    <3>3. Follows(inbox', m, Caught => web.tour = TourNow)
      BY <1>4, <2>3, <3>1, <3>2
    <3>4. TourNow' = TourNow
      BY <1>3, <2>3 DEF TourNow
    <3>5. Follows(inbox', m, (Caught => web.tour = TourNow)')
      BY <3>3, <3>4 DEF Follows
    <3>6. QED
      BY <2>3, <3>5 DEF m
  <2>4. QED
    BY <2>2, <2>3
<1>8. Synced'
  <2>1. web.told => web.mounted
    BY DEF IInv, Current, Synced
  <2>2. CASE n = SyncMsg(last')
    BY <1>5, <2>1, <2>2 DEF Synced
  <2>3. CASE last' = last /\ n.t # "sync"
    <3> DEFINE m == SyncMsg(last)
    <3>1. m.t = "sync"
      BY DEF SyncMsg
    <3>2. Follows(inbox, m, web.told => web.synced = last)
      BY DEF IInv, Current, Synced
    <3> HIDE DEF m
    <3>3. Follows(inbox', m, web.told => web.synced = last)
      BY <1>4, <2>3, <3>1, <3>2
    <3>4. QED
      BY <2>1, <2>3, <3>3 DEF Synced, m
  <2>4. QED
    BY <2>2, <2>3
<1>9. QED
  BY <1>2, <1>6, <1>7, <1>8 DEF IInv, Current

(* stepTour lands on a stop. *)
LEMMA TourStep ==
  ASSUME IInv, NEW dir \in {"prev", "next"}, Stepped(dir), view # NoView,
         UNCHANGED <<rows, loaded, web, place, last, queries, asked, answered>>,
         asks' \in Seq(Posts), Caught' => Caught
  PROVE  IInv'
<1> DEFINE target == IF dir = "next" THEN cursor + 1 ELSE IF cursor = 0 THEN 0 ELSE cursor - 1
           landed == IF target \in DOMAIN Tour THEN target ELSE IF dir = "next" THEN Len(Tour) ELSE 1
<1>1. /\ Tour # <<>> /\ cursor' = landed /\ stop' = Tour[landed].id
      /\ UNCHANGED <<view, shown, pending>>
      /\ inbox' = Append(inbox, TourMsg(cursor', Len(Tour)))
  BY DEF Stepped, StepTour
<1>2. Tour \in Seq(TreeNodes(Nodes))
  BY <1>1, TourType DEF Tour, IInv, Held
<1>3. DOMAIN Tour = 1..Len(Tour) /\ Len(Tour) \in Nat /\ Len(Tour) # 0
  BY <1>1, <1>2, LenProperties, EmptySeq
<1>4. landed \in DOMAIN Tour
  BY <1>3
<1> HIDE DEF landed
<1>5. cursor' \in Nat /\ Tour' = Tour
  BY <1>1, <1>3, <1>4 DEF Tour
<1>6. Held' /\ Stopped' /\ Searched'
  BY <1>1, <1>4, <1>5 DEF IInv, Held, Stopped, Searched
<1>7. TourMsg(cursor', Len(Tour)) \in Messages /\ TourMsg(cursor', Len(Tour)).t = "tourState"
  BY <1>3, <1>5 DEF TourMsg, Messages, TourMsgs
<1>8. QED
  BY <1>1, <1>6, <1>7, PostedStep

LEMMA KeyStep ==
  ASSUME IInv, NEW dir \in {"prev", "next"}, Key(dir)
  PROVE  IInv'
<1>1. /\ view # NoView /\ Stepped(dir)
      /\ UNCHANGED <<rows, loaded, web, asks, place, last, queries, asked, answered>>
  BY DEF Key, storeVars, syncVars, refsVars
<1>2. asks' \in Seq(Posts) /\ Caught' = Caught
  BY <1>1 DEF IInv, Travels, Caught
<1>3. QED
  BY <1>1, <1>2, TourStep

(* The watcher tells of another node, and remembers that it did. *)
LEMMA EvaluateStep ==
  ASSUME IInv, Evaluate
  PROVE  IInv'
<1>1. /\ last' = Hit
      /\ inbox' = (IF Hit # last /\ view # NoView THEN Append(inbox, SyncMsg(Hit)) ELSE inbox)
      /\ UNCHANGED <<rows, loaded, view, shown, pending, cursor, stop, web, asks, place>>
      /\ UNCHANGED <<queries, asked, answered>>
  BY DEF Evaluate, storeVars, panelVars, refsVars
<1>2. Hit \in Nodes \cup {NoNode}
  BY DEF Hit, IInv, Held
<1>3. Searched' /\ Tour' = Tour /\ asks' \in Seq(Posts) /\ Caught' = Caught
  BY <1>1 DEF IInv, Searched, Tour, Travels, Caught
<1>4. Held' /\ Stopped'
  BY <1>1, <1>2, <1>3 DEF IInv, Held, Stopped
<1>5. CASE Hit # last /\ view # NoView
  <2>1. SyncMsg(Hit) \in Messages /\ SyncMsg(Hit).t = "sync"
    BY <1>2 DEF SyncMsg, Messages, SyncMsgs
  <2>2. inbox' = Append(inbox, SyncMsg(Hit)) /\ SyncMsg(Hit) = SyncMsg(last')
    BY <1>1, <1>5
  <2>3. QED
    BY <1>1, <1>3, <1>4, <1>5, <2>1, <2>2, PostedStep
<1>6. CASE Hit = last
  <2>1. loaded' \in [Slots -> Chains \cup {NoChain}] /\ place' \in Nodes \cup {NoNode}
    BY <1>1 DEF IInv, Stored, Held
  <2>2. QED
    BY <1>1, <1>3, <1>6, <2>1, IdleStep
<1>7. CASE view = NoView
  <2>1. web = Blank /\ inbox = <<>> /\ asks = <<>>
    BY <1>7 DEF IInv, Away
  <2>2. web' = Blank /\ inbox' = <<>> /\ asks' = <<>>
    BY <1>1, <1>7, <2>1
  <2>3. Stored' /\ Travels' /\ Away'
    BY <1>1, <1>3, <2>2, BlankType, EmptySeq DEF IInv, Stored, Travels, Away
  <2>4. Current'
    BY <1>1, <1>7, <2>2, NoneEmpty DEF Current, Chained, Toured, Synced, Blank
  <2>5. QED
    BY <1>3, <1>4, <2>2, <2>3, <2>4, BlankSelection DEF IInv
<1>8. QED
  BY <1>5, <1>6, <1>7

(* A search comes back; its answer is posted, or not. *)
LEMMA FoundStep ==
  ASSUME IInv, NEW q \in queries, Found(q)
  PROVE  IInv' /\ answered' \in {answered, asked}
<1>1. /\ UNCHANGED <<rows, loaded, view, shown, pending, cursor, stop, web, asks, place, last, asked>>
      /\ queries' = queries \ {q}
      /\ inbox' = (IF Answers(q) THEN Append(inbox, RefsMsg(q.node)) ELSE inbox)
      /\ answered' = (IF Answers(q) THEN q.token ELSE answered)
  BY DEF Found, storeVars, panelVars, syncVars
<1>2. answered' \in {answered, asked}
  BY <1>1 DEF Answers
<1>3. Searched'
  BY <1>1, <1>2 DEF IInv, Searched
<1>4. Tour' = Tour /\ asks' \in Seq(Posts) /\ Caught' = Caught
  BY <1>1 DEF Tour, IInv, Travels, Caught
<1>5. Held' /\ Stopped'
  BY <1>1, <1>4 DEF IInv, Held, Stopped
<1>6. CASE Answers(q)
  <2>1. q.node \in Nodes
    BY DEF IInv, Searched, Queries
  <2>2. RefsMsg(q.node) \in Messages /\ RefsMsg(q.node).t = "references"
    BY <2>1 DEF RefsMsg, Messages, RefsMsgs
  <2>3. view # NoView
    BY <1>6 DEF Answers
  <2>4. inbox' = Append(inbox, RefsMsg(q.node))
    BY <1>1, <1>6
  <2>5. QED
    BY <1>1, <1>2, <1>3, <1>4, <1>5, <2>2, <2>3, <2>4, PostedStep
<1>7. CASE ~Answers(q)
  <2>1. loaded' \in [Slots -> Chains \cup {NoChain}] /\ place' \in Nodes \cup {NoNode}
    BY <1>1 DEF IInv, Stored, Held
  <2>2. QED
    BY <1>1, <1>2, <1>3, <1>7, <2>1, IdleStep
<1>8. QED
  BY <1>6, <1>7

-----------------------------------------------------------------------------
(* The panel takes what the page posts. *)

(* Taking a post that is not `ready` makes nobody heard. *)
LEMMA TakenPost ==
  ASSUME IInv, asks # <<>>, asks' = Tail(asks), web' = web
  PROVE  /\ Head(asks) \in Posts /\ asks' \in Seq(Posts)
         /\ Head(asks).t # "ready" => (Caught' => Caught)
<1>1. asks \in Seq(Posts)
  BY DEF IInv, Travels
<1>2. /\ Head(asks) \in Posts /\ Tail(asks) \in Seq(Posts) /\ Head(asks) = asks[1]
      /\ \A i \in DOMAIN asks : i \in Nat /\ (i = 1 \/ (i - 1 \in DOMAIN Tail(asks) /\ Tail(asks)[i - 1] = asks[i]))
  BY <1>1, TailShifts
<1>3. ASSUME Head(asks).t # "ready", Caught'
      PROVE  Caught
  <2>1. web.mounted /\ \A j \in DOMAIN Tail(asks) : Tail(asks)[j].t # "ready"
    BY <1>3 DEF Caught
  <2>2. QED
    BY <1>2, <1>3, <2>1 DEF Caught
<1>4. QED
  BY <1>2, <1>3

(* `ready`: the page is told everything. *)
LEMMA ReadyStep ==
  ASSUME IInv, view # NoView, asks' \in Seq(Posts), inbox' = inbox \o Resent,
         UNCHANGED <<rows, loaded, view, shown, pending, cursor, stop, web, place, last>>,
         UNCHANGED <<queries, asked, answered>>
  PROVE  IInv'
<1>1. Stored' /\ Held' /\ Away' /\ SelectionOnTree' /\ Searched' /\ Tour' = Tour
  BY DEF IInv, Stored, Held, Away, SelectionOnTree, Searched, Tour
<1>2. Stopped'
  BY <1>1 DEF IInv, Stopped
<1>3. inbox \in Seq(Messages)
  BY DEF IInv, Travels
<1>4. CASE shown = NoChain
  <2>1. inbox' = inbox
    BY <1>3, <1>4 DEF Resent
  <2>2. Travels'
    BY <2>1 DEF IInv, Travels
  <2>3. Current'
    BY <1>1, <1>4, <2>1 DEF IInv, Current, Chained, Toured, Synced
  <2>4. QED
    BY <1>1, <1>2, <2>2, <2>3 DEF IInv
<1>5. CASE shown # NoChain
  <2> DEFINE a == ChainMsg(shown)
             b == TourMsg(cursor, Len(Tour))
             c == SyncMsg(last)
  <2>1. shown \in Chains /\ cursor \in Nat /\ last \in Nodes \cup {NoNode}
    BY <1>5 DEF IInv, Held
  <2>2. Len(Tour) \in Nat
    BY <1>5, <2>1, TourType, LenProperties DEF Tour
  <2>3. a \in Messages /\ a.t = "chain"
    BY <2>1 DEF ChainMsg, Messages, ChainMsgs
  <2>4. b \in Messages /\ b.t = "tourState"
    BY <2>1, <2>2 DEF TourMsg, Messages, TourMsgs
  <2>5. c \in Messages /\ c.t = "sync"
    BY <2>1 DEF SyncMsg, Messages, SyncMsgs
  <2>6. Resent = <<a, b, c>>
    BY <1>5 DEF Resent
  <2>7. a = ChainMsg(shown') /\ b = TourMsg(cursor', Len(Tour')) /\ c = SyncMsg(last')
    BY <1>1
  <2> HIDE DEF a, b, c
  <2> DEFINE q == Append(inbox, a)
             r == Append(q, b)
  <2>8. inbox' = Append(r, c)
    BY <1>3, <2>3, <2>4, <2>5, <2>6, AppendThree
  <2>9. q \in Seq(Messages) /\ r \in Seq(Messages) /\ inbox' \in Seq(Messages)
    BY <1>3, <2>3, <2>4, <2>5, <2>8, AppendProperties
  <2>10. Last(q, a) /\ Last(r, b) /\ Last(inbox', c)
    <3>1. Last(q, a)
      BY <1>3, <2>3, LastAppended
    <3>2. Last(r, b)
      BY <2>4, <2>9, LastAppended
    <3>3. Last(inbox', c)
      BY <2>5, <2>8, <2>9, LastAppended
    <3>4. QED
      BY <3>1, <3>2, <3>3
  <2> HIDE DEF q, r
  <2>11. \A right : Follows(inbox', a, right)
    <3>1. TAKE right
    <3>2. Follows(q, a, right)
      BY <2>10 DEF Follows
    <3>3. Follows(r, a, right)
      BY <2>3, <2>4, <2>9, <3>2, FollowsOther DEF r
    <3>4. QED
      BY <2>3, <2>5, <2>8, <2>9, <3>3, FollowsOther
  <2>12. \A right : Follows(inbox', b, right)
    <3>1. TAKE right
    <3>2. Follows(r, b, right)
      BY <2>10 DEF Follows
    <3>3. QED
      BY <2>4, <2>5, <2>8, <2>9, <3>2, FollowsOther
  <2>13. \A right : Follows(inbox', c, right)
    BY <2>10 DEF Follows
  <2>14. Current'
    <3>1. Chained'
      BY <1>5, <2>7, <2>11 DEF Chained
    <3>2. Toured'
      BY <2>7, <2>12 DEF Toured
    <3>3. Synced'
      BY <2>7, <2>13 DEF IInv, Current, Synced
    <3>4. QED
      BY <3>1, <3>2, <3>3 DEF Current
  <2>15. Travels'
    BY <2>9 DEF IInv, Travels
  <2>16. QED
    BY <1>1, <1>2, <2>14, <2>15 DEF IInv
<1>6. QED
  BY <1>4, <1>5

LEMMA HandleStep ==
  ASSUME IInv, Handle
  PROVE  IInv' /\ answered' = answered
<1> DEFINE m == Head(asks)
<1>1. asks # <<>> /\ asks' = Tail(asks) /\ web' = web /\ UNCHANGED <<place, last, loaded>>
  BY DEF Handle, syncVars
<1>2. view # NoView /\ SelectionOnTree' /\ web' \in Pages /\ Told(web') = Told(web) /\ (web.told => web'.mounted)
  BY <1>1 DEF IInv, Away, SelectionOnTree, Travels, Told, Current, Synced
<1>3. m \in Posts /\ asks' \in Seq(Posts) /\ (m.t # "ready" => (Caught' => Caught))
  BY <1>1, TakenPost
<1>4. Handle =>
        \/ m.t = "ready" /\ inbox' = inbox \o Resent /\ UNCHANGED <<storeVars, panelVars, refsVars>>
        \/ /\ m.t = "tour"
           /\ IF StepLands(m.dir) THEN Stepped(m.dir) ELSE UNCHANGED <<panelVars, inbox>>
           /\ UNCHANGED <<storeVars, refsVars>>
        \/ /\ m.t = "pick"
           /\ Placed(m.node) \/ UNCHANGED <<storeVars, panelVars, inbox, queries>>
           /\ UNCHANGED <<asked, answered>>
        \/ /\ m.t = "findRefs"
           /\ IF shown = NoChain THEN UNCHANGED <<asked, queries>>
              ELSE /\ asked' = asked + 1
                   /\ queries' = queries \cup {[token |-> asked + 1, node |-> m.node, current |-> TRUE]}
           /\ UNCHANGED <<storeVars, panelVars, inbox, answered>>
  BY DEF Handle
<1> HIDE DEF m
<1>5. ASSUME UNCHANGED <<rows, view, shown, pending, cursor, stop, inbox>>, m.t # "ready", Searched'
      PROVE  IInv'
  BY <1>1, <1>2, <1>3, <1>5, PageStep
<1>6. ASSUME UNCHANGED <<queries, asked, answered>>
      PROVE  Searched'
  BY <1>6 DEF IInv, Searched
<1>7. CASE m.t = "ready" /\ inbox' = inbox \o Resent /\ UNCHANGED <<storeVars, panelVars, refsVars>>
  <2>1. UNCHANGED <<rows, loaded, view, shown, pending, cursor, stop, web, place, last, queries, asked, answered>>
    BY <1>1, <1>7 DEF storeVars, panelVars, refsVars
  <2>2. QED
    BY <1>2, <1>3, <1>7, <2>1, ReadyStep
<1>8. CASE /\ m.t = "tour"
           /\ IF StepLands(m.dir) THEN Stepped(m.dir) ELSE UNCHANGED <<panelVars, inbox>>
           /\ UNCHANGED <<storeVars, refsVars>>
  <2>1. UNCHANGED <<rows, queries, asked, answered>> /\ Searched'
    BY <1>6, <1>8 DEF storeVars, refsVars
  <2>2. CASE StepLands(m.dir)
    <3>1. m.dir \in {"prev", "next"}
      BY <1>3, <1>8 DEF Posts
    <3>2. Stepped(m.dir) /\ (Caught' => Caught)
      BY <1>3, <1>8, <2>2
    <3>3. QED
      BY <1>1, <1>2, <1>3, <2>1, <3>1, <3>2, TourStep
  <2>3. CASE ~StepLands(m.dir)
    <3>1. UNCHANGED <<view, shown, pending, cursor, stop, inbox>>
      BY <1>8, <2>3 DEF panelVars
    <3>2. QED
      BY <1>5, <1>8, <2>1, <3>1
  <2>4. QED
    BY <2>2, <2>3
<1>9. CASE /\ m.t = "pick"
           /\ Placed(m.node) \/ UNCHANGED <<storeVars, panelVars, inbox, queries>>
           /\ UNCHANGED <<asked, answered>>
  <2>1. CASE Placed(m.node)
    <3> DEFINE next == [shown EXCEPT !.tree = Marked(@, m.node, "ok")]
    <3>1. /\ Save(next) /\ SetChain(next, FALSE) /\ view' = view /\ pending' = pending
          /\ inbox' = inbox \o Pushed /\ queries' = Outdated(queries)
      BY <2>1 DEF Placed, PickNode
    <3>2. shown \in Chains
      BY <2>1 DEF Placed, PickNode, IInv, Held
    <3>3. next \in Chains
      <4>1. shown.tree \in Seq(TreeNodes(Nodes)) /\ shown.tree # <<>>
        BY <3>2, ChainShape
      <4>2. /\ Marked(shown.tree, m.node, "ok") \in Seq(TreeNodes(Nodes))
            /\ DOMAIN Marked(shown.tree, m.node, "ok") = DOMAIN shown.tree
        BY <4>1, MarkedType DEF Statuses, Marked
      <4>3. 1 \in DOMAIN shown.tree
        BY <4>1, TailShifts
      <4>4. Marked(shown.tree, m.node, "ok") # <<>>
        BY <4>2, <4>3
      <4>5. QED
        BY <3>2, <4>2, <4>4 DEF Chains
    <3> HIDE DEF next
    <3>4. Stored'
      BY <1>1, <3>1, <3>3, SaveType DEF IInv, Stored
    <3>5. Searched'
      BY <1>9, <3>1, OutdatedSearch DEF IInv
    <3>6. UNCHANGED syncVars
      BY DEF Handle
    <3>7. IInv'
      BY <1>1, <1>2, <1>3, <3>1, <3>3, <3>4, <3>5, <3>6, GivenStep
    <3>8. QED
      BY <1>9, <3>7
  <2>2. CASE UNCHANGED <<storeVars, panelVars, inbox, queries>>
    <3>1. UNCHANGED <<rows, view, shown, pending, cursor, stop, inbox, queries>>
      BY <2>2 DEF storeVars, panelVars
    <3>2. QED
      BY <1>5, <1>6, <1>9, <3>1
  <2>3. QED
    BY <1>9, <2>1, <2>2
<1>10. CASE /\ m.t = "findRefs"
            /\ IF shown = NoChain THEN UNCHANGED <<asked, queries>>
               ELSE /\ asked' = asked + 1
                    /\ queries' = queries \cup {[token |-> asked + 1, node |-> m.node, current |-> TRUE]}
            /\ UNCHANGED <<storeVars, panelVars, inbox, answered>>
  <2>1. UNCHANGED <<rows, view, shown, pending, cursor, stop, inbox, answered>>
    BY <1>10 DEF storeVars, panelVars
  <2>2. m.node \in Nodes
    BY <1>3, <1>10 DEF Posts
  <2>3. Searched'
    <3>1. CASE shown = NoChain
      BY <1>6, <1>10, <3>1
    <3>2. CASE shown # NoChain
      <4> DEFINE q == [token |-> asked + 1, node |-> m.node, current |-> TRUE]
      <4>1. asked' = asked + 1 /\ queries' = queries \cup {q} /\ answered' = answered
        BY <1>10, <3>2
      <4>2. asked \in Nat
        BY DEF IInv, Searched
      <4>3. q \in Queries /\ q.token = asked + 1
        BY <2>2, <4>2 DEF Queries
      <4> HIDE DEF q
      <4>4. \A x \in queries' : x.token \in 1..(asked + 1)
        BY <4>1, <4>2, <4>3 DEF IInv, Searched
      <4>5. QED
        BY <4>1, <4>2, <4>3, <4>4 DEF IInv, Searched
    <3>3. QED
      BY <3>1, <3>2
  <2>4. QED
    BY <1>5, <1>10, <2>1, <2>3
<1>11. QED
  BY <1>4, <1>7, <1>8, <1>9, <1>10

-----------------------------------------------------------------------------
(* All of it. *)

LEMMA InitIInv == Init => IInv
<1> SUFFICES ASSUME Init PROVE IInv
  OBVIOUS
<1>1. /\ shown = NoChain /\ pending = NoChain /\ cursor = 0 /\ stop = NoNode
      /\ view = NoView /\ web = Blank /\ inbox = <<>> /\ asks = <<>>
      /\ place = NoNode /\ last = NoNode /\ queries = {} /\ asked = 0 /\ answered = 0
  BY DEF Init, PanelInit
<1>2. Stored
  BY DEF Init, Stored
<1>3. Held /\ Away /\ Stopped /\ Searched
  BY <1>1 DEF Held, Away, Stopped, Searched
<1>4. Travels
  BY <1>1, BlankType, EmptySeq DEF Travels
<1>5. Current /\ SelectionOnTree
  BY <1>1, NoneEmpty DEF Current, Chained, Toured, Synced, SelectionOnTree, Blank
<1>6. QED
  BY <1>2, <1>3, <1>4, <1>5 DEF IInv

(* Steps of the tools and of the editor. *)
LEMMA ToolsStep ==
  ASSUME IInv,
         \/ \E r \in Roots : Generate(r)
         \/ \E c \in Slots : Load(c) \/ Finish(c)
         \/ \E i \in ChainIds : Reopen(i)
         \/ \E n \in Nodes \cup {NoNode} : Move(n)
  PROVE  IInv'
<1>1. ASSUME NEW c \in Slots, Load(c)
      PROVE  IInv'
  <2>1. /\ UNCHANGED <<rows, view, shown, pending, cursor, stop, web, inbox, asks, last, place>>
        /\ UNCHANGED <<queries, asked, answered>>
    BY <1>1 DEF Load, storeVars, panelVars, pageVars, syncVars, refsVars
  <2>2. loaded' \in [Slots -> Chains \cup {NoChain}]
    BY <1>1 DEF Load, IsChain, IInv, Stored
  <2>3. place' \in Nodes \cup {NoNode} /\ Searched'
    BY <2>1 DEF IInv, Held, Searched
  <2>4. QED
    BY <2>1, <2>2, <2>3, IdleStep
<1>2. ASSUME NEW n \in Nodes \cup {NoNode}, Move(n)
      PROVE  IInv'
  <2>1. /\ UNCHANGED <<rows, view, shown, pending, cursor, stop, web, inbox, asks, last>>
        /\ UNCHANGED <<loaded, queries, asked, answered>> /\ place' = n
    BY <1>2 DEF Move, storeVars, panelVars, pageVars, refsVars
  <2>2. loaded' \in [Slots -> Chains \cup {NoChain}] /\ Searched'
    BY <2>1 DEF IInv, Stored, Searched
  <2>3. QED
    BY <2>1, <2>2, IdleStep
<1>3. QED
  BY <1>1, <1>2, GenerateStep, FinishStep, ReopenStep

LEMMA NextIInv ==
  ASSUME IInv, [Next]_vars
  PROVE  IInv'
<1>1. CASE UNCHANGED vars
  <2>1. /\ UNCHANGED <<rows, view, shown, pending, cursor, stop, web, inbox, asks, last, place>>
        /\ UNCHANGED <<loaded, queries, asked, answered>>
    BY <1>1 DEF vars, storeVars, panelVars, pageVars, syncVars, refsVars
  <2>2. loaded' \in [Slots -> Chains \cup {NoChain}] /\ place' \in Nodes \cup {NoNode} /\ Searched'
    BY <2>1 DEF IInv, Stored, Held, Searched
  <2>3. QED
    BY <2>1, <2>2, IdleStep
<1>2. CASE Next
  <2>1. CASE \/ \E r \in Roots : Generate(r)
             \/ \E c \in Slots : Load(c) \/ Finish(c)
             \/ \E i \in ChainIds : Reopen(i)
             \/ \E n \in Nodes \cup {NoNode} : Move(n)
    BY <2>1, ToolsStep
  <2>2. CASE \E v \in Views : Open(v) \/ Close(v)
    BY <2>2, OpenStep, CloseStep
  <2>3. CASE (\E n \in Nodes : Select(n) \/ Toggle(n)) \/ ExpandAll
    BY <2>3, ReaderStep
  <2>4. CASE \/ Mount \/ PickCandidate \/ OpenDrawer \/ CloseDrawer
             \/ \E dir \in {"prev", "next"} : Press(dir)
    BY <2>4, AskStep
  <2>5. CASE Reload \/ Deliver \/ Handle \/ Evaluate
    BY <2>5, ReloadStep, DeliverStep, HandleStep, EvaluateStep
  <2>6. CASE (\E dir \in {"prev", "next"} : Key(dir)) \/ \E q \in queries : Found(q)
    BY <2>6, KeyStep, FoundStep
  <2>7. QED
    BY <1>2, <2>1, <2>2, <2>3, <2>4, <2>5, <2>6 DEF Next
<1>3. QED
  BY <1>1, <1>2

LEMMA Invariance == Spec => []IInv
<1>1. IInv /\ [Next]_vars => IInv'
  BY NextIInv
<1>2. QED
  BY InitIInv, <1>1, PTL DEF Spec

(* A page that has heard all there is shows the panel's chain, its tour    *)
(* and the node the tour is at.                                            *)
THEOREM ShowsCorrect == Spec => []ShowsThePanel
<1>1. IInv => ShowsThePanel
  <2> SUFFICES ASSUME IInv, Quiet PROVE ShowsThePanel
    BY DEF ShowsThePanel
  <2>1. view # NoView /\ Caught /\ inbox = <<>>
    BY DEF Quiet, Caught, IInv, Away, Blank
  <2>2. web.chain = shown
    BY <2>1, LastEmpty DEF IInv, Current, Chained, Follows
  <2>3. shown # NoChain => web.tour = TourNow
    BY <2>1, LastEmpty DEF IInv, Current, Toured, Follows
  <2>4. ASSUME stop # NoNode
        PROVE  FocusNode = stop
    <3>1. cursor \in DOMAIN Tour /\ Tour[cursor].id = stop
      BY <2>4 DEF IInv, Stopped
    <3>2. shown # NoChain
      BY <3>1 DEF Tour
    <3>3. PageTour = Tour /\ web.tour.at = cursor
      BY <2>2, <2>3, <3>2 DEF PageTour, Tour, TourNow
    <3>4. QED
      BY <3>1, <3>3 DEF FocusNode
  <2>5. QED
    BY <2>2, <2>3, <2>4 DEF ShowsThePanel, TourNow
<1>2. QED
  BY Invariance, <1>1, PTL

(* What the reader selected and collapsed is in the tree on show. *)
THEOREM SelectionCorrect == Spec => []SelectionOnTree
<1>1. IInv => SelectionOnTree
  BY DEF IInv
<1>2. QED
  BY Invariance, <1>1, PTL

(* A page that was told of the editor's cursor keeps up with the watcher. *)
THEOREM SyncedCorrect == Spec => []SyncedIsLast
<1>1. IInv => SyncedIsLast
  <2> SUFFICES ASSUME IInv, Quiet, web.told PROVE web.synced = last
    BY DEF SyncedIsLast
  <2>1. view # NoView /\ inbox = <<>>
    BY DEF Quiet, IInv, Away, Blank
  <2>2. QED
    BY <2>1, LastEmpty DEF IInv, Current, Synced, Follows
<1>2. QED
  BY Invariance, <1>1, PTL

(* The answer to a search never follows that of a newer one. *)
THEOREM AnswersCorrect == Spec => AnswersInOrder
<1>1. ASSUME IInv, [Next]_vars
      PROVE  answered' = answered \/ answered' = asked
  <2>1. CASE \/ Reload \/ Mount \/ Deliver \/ Evaluate \/ PickCandidate \/ OpenDrawer \/ CloseDrawer \/ ExpandAll
             \/ \E n \in Nodes : Select(n) \/ Toggle(n)
             \/ \E dir \in {"prev", "next"} : Press(dir) \/ Key(dir)
             \/ \E v \in Views : Open(v) \/ Close(v)
    BY <2>1 DEF Reload, Mount, Deliver, Evaluate, PickCandidate, OpenDrawer, CloseDrawer, ExpandAll,
                Select, Toggle, Press, Key, Open, Close, readerIdle, pageIdle, refsVars
  <2>2. CASE \/ \E r \in Roots : Generate(r)
             \/ \E c \in Slots : Load(c) \/ Finish(c)
             \/ \E i \in ChainIds : Reopen(i)
             \/ \E n \in Nodes \cup {NoNode} : Move(n)
    BY <2>2 DEF Generate, Load, Finish, Reopen, Move, Commit, refsVars
  <2>3. CASE Handle
    BY <1>1, <2>3, HandleStep
  <2>4. CASE \E q \in queries : Found(q)
    BY <1>1, <2>4, FoundStep
  <2>5. CASE UNCHANGED vars
    BY <2>5 DEF vars, refsVars
  <2>6. QED
    BY <1>1, <2>1, <2>2, <2>3, <2>4, <2>5 DEF Next
<1>2. IInv /\ [Next]_vars => [answered' >= answered]_vars
  <2>1. SUFFICES ASSUME IInv, [Next]_vars PROVE answered' >= answered
    OBVIOUS
  <2>2. answered \in Nat /\ asked \in Nat /\ answered <= asked
    BY <2>1 DEF IInv, Searched
  <2>3. QED
    BY <1>1, <2>1, <2>2
<1>3. QED
  BY Invariance, <1>2, PTL DEF Spec, AnswersInOrder

=============================================================================

-------------------------- MODULE ViewChannelProofs ---------------------------
(***************************************************************************)
(* What a view hears, what it shows of that and when it gives up on its    *)
(* host. Each part speaks of one specification and its constants; they     *)
(* share no variable.                                                      *)
(***************************************************************************)
EXTENDS SidebarRelay, HostEvents, ChannelWatchdog, FiniteSetTheorems, TLAPS

-------------------------------------------------------------------------------
(***************************************************************************)
(* For every set of sessions and every bound: the relay is well typed, and *)
(* no row of another repository ever reaches the sidebar.  Nor is anything *)
(* lost between the agent host and the sidebar, for any number of passes,  *)
(* pushes and views: a clean pass fills the catalogue, and what the        *)
(* catalogue has is on the page or on its way.                             *)
(***************************************************************************)

(* Adding one copy of each element of a set adds the set. *)
LEMMA BagAdd ==
  ASSUME NEW B, NEW S
  PROVE  BagToSet(B (+) SetToBag(S)) = BagToSet(B) \cup S
BY Zenon DEF BagToSet, SetToBag, (+)

(* Removing copies adds no element. *)
LEMMA BagRemove ==
  ASSUME NEW B, NEW C
  PROVE  BagToSet(B (-) C) \subseteq BagToSet(B)
BY DEF BagToSet, (-)

(* Relaying events keeps the lookups in flight typed. *)
LEMMA ScopeTyped ==
  ASSUME NEW events \in SUBSET ScopedEvent, Scope(events),
         BagToSet(scoping) \subseteq ScopedEvent
  PROVE  BagToSet(scoping') \subseteq ScopedEvent
<1>1. CASE open
  <2>1. scoping' = scoping (+) SetToBag(events)
    BY <1>1, Zenon DEF Scope
  <2>2. QED
    BY <2>1, BagAdd, Zenon
<1>2. CASE ~open
  BY <1>2, Zenon DEF Scope
<1>3. QED
  BY <1>1, <1>2, Zenon

(* Versions start at 0 and 1. *)
LEMMA FirstVersions == 0 \in Versions /\ 1 \in Versions
BY CatalogueAssumption DEF Versions

(* A row function with one row replaced by a version is a row function. *)
LEMMA RowUpdate ==
  ASSUME NEW f \in [Sessions -> Versions], NEW s \in Sessions, NEW v \in Versions
  PROVE  [f EXCEPT ![s] = v] \in [Sessions -> Versions]
OBVIOUS

(* The empty catalogue is a row function. *)
LEMMA NoRowsTyped == NoRows \in [Sessions -> Versions]
BY FirstVersions DEF NoRows

(* A relayed event over a version is an event. *)
LEMMA EventTyped ==
  ASSUME NEW k \in {"added", "changed"}, NEW s \in Sessions, NEW v \in Versions
  PROVE  {[kind |-> k, s |-> s, v |-> v]} \in SUBSET ScopedEvent
BY DEF ScopedEvent

(* The fold of an event into the sidebar's rows is a row function. *)
LEMMA StoreFoldTyped ==
  ASSUME NEW e \in ScopedEvent, web \in [Sessions -> Versions]
  PROVE  StoreFold(e) \in [Sessions -> Versions]
<1>1. e.s \in Sessions /\ e.v \in Versions
  BY DEF ScopedEvent
<1>2. QED
  BY <1>1, RowUpdate DEF StoreFold

(* Changes of the agent host keep the rows and the lookups typed. *)
LEMMA HostStepTyped ==
  ASSUME RowsOK, LookupsOK, NEW s \in Sessions,
         SessionAdded(s) \/ SessionChanged(s) \/ SessionRemoved(s)
  PROVE  RowsOK' /\ LookupsOK'
<1>1. CASE SessionAdded(s)
  <2>1. /\ live' = [live EXCEPT ![s] = 1]
        /\ rows' = [rows EXCEPT ![s] = 1]
        /\ UNCHANGED <<gone, web, views, pushes, pushed>>
    BY <1>1, Zenon DEF SessionAdded, viewVars, pushVars
  <2>2. BagToSet(scoping') \subseteq ScopedEvent
    <3>1. Scope({[kind |-> "added", s |-> s, v |-> 1]})
      BY <1>1, Zenon DEF SessionAdded
    <3>2. {[kind |-> "added", s |-> s, v |-> 1]} \in SUBSET ScopedEvent
      BY EventTyped, FirstVersions
    <3>3. QED
      BY <3>1, <3>2, ScopeTyped, Zenon DEF LookupsOK
  <2>3. RowsOK'
    BY <2>1, FirstVersions DEF RowsOK
  <2>4. QED
    BY <2>1, <2>2, <2>3, Zenon DEF LookupsOK
<1>2. CASE SessionChanged(s)
  <2>1. /\ live[s] \in 1..(MaxVersion - 1)
        /\ live' = [live EXCEPT ![s] = live[s] + 1]
        /\ UNCHANGED <<gone, views, pushes, pushed>>
    BY <1>2 DEF SessionChanged, pushVars
  <2>2. live[s] + 1 \in Versions
    BY <2>1, CatalogueAssumption DEF Versions
  <2>3. CASE rows[s] # 0
    <3>1. /\ rows' = [rows EXCEPT ![s] = live[s] + 1]
          /\ Scope({[kind |-> "changed", s |-> s, v |-> live[s] + 1]})
          /\ UNCHANGED web
      BY <1>2, <2>3, Zenon DEF SessionChanged
    <3>2. {[kind |-> "changed", s |-> s, v |-> live[s] + 1]} \in SUBSET ScopedEvent
      BY <2>2, EventTyped
    <3>3. BagToSet(scoping') \subseteq ScopedEvent
      BY <3>1, <3>2, ScopeTyped, Zenon DEF LookupsOK
    <3>4. RowsOK'
      BY <2>1, <2>2, <3>1 DEF RowsOK
    <3>5. QED
      BY <2>1, <3>3, <3>4, Zenon DEF LookupsOK
  <2>4. CASE rows[s] = 0
    <3>1. /\ web' \in {web, [web EXCEPT ![s] = live[s] + 1]}
          /\ UNCHANGED <<rows, scoping>>
      BY <1>2, <2>4, Zenon DEF SessionChanged
    <3>2. RowsOK'
      BY <2>1, <2>2, <3>1 DEF RowsOK
    <3>3. QED
      BY <2>1, <3>1, <3>2, Zenon DEF LookupsOK
  <2>5. QED
    BY <2>3, <2>4, Zenon
<1>3. CASE SessionRemoved(s)
  <2>1. /\ live' = [live EXCEPT ![s] = 0]
        /\ gone' = gone \cup {s}
        /\ rows' = [rows EXCEPT ![s] = 0]
        /\ web' \in {web, [web EXCEPT ![s] = 0]}
        /\ UNCHANGED <<scoping, views, pushes, pushed>>
    BY <1>3, Zenon DEF SessionRemoved, pushVars
  <2>2. RowsOK'
    BY <2>1, FirstVersions DEF RowsOK
  <2>3. QED
    BY <2>1, <2>2, Zenon DEF LookupsOK
<1>4. QED
  BY <1>1, <1>2, <1>3, Zenon

(* The passes over listSessions keep rows, lookups and passes typed. *)
LEMMA SweepStepTyped ==
  ASSUME RowsOK, LookupsOK, SweepsOK, NEW k \in 1..Sweeps,
         SweepStart(k) \/ SweepAnswer(k) \/ SweepFold(k) \/ SweepFail(k)
  PROVE  RowsOK' /\ LookupsOK' /\ SweepsOK'
<1>1. CASE SweepStart(k)
  <2>1. /\ sweep' = [sweep EXCEPT ![k].st = "asked"]
        /\ cold' \in {cold, cold \cup {k}}
        /\ UNCHANGED <<live, gone, rows, web, views, scoping, pushes, pushed>>
    BY <1>1, Zenon DEF SweepStart, hostVars, viewVars, pushVars
  <2>2. SweepsOK'
    BY <2>1 DEF SweepsOK
  <2>3. QED
    BY <2>1, <2>2, Zenon DEF RowsOK, LookupsOK
<1>2. CASE SweepAnswer(k)
  <2> DEFINE answer(part) ==
        [st |-> "page",
         rest |-> IF warm THEN sweep[k].rest \ part ELSE {},
         page |-> [s \in Sessions |-> IF warm /\ s \in part THEN live[s] ELSE 0]]
  <2>1. PICK part \in SUBSET sweep[k].rest : sweep' = [sweep EXCEPT ![k] = answer(part)]
    BY <1>2, Zenon DEF SweepAnswer
  <2>2. UNCHANGED <<cold, live, gone, rows, web, views, scoping, pushes, pushed>>
    BY <1>2, Zenon DEF SweepAnswer, hostVars, viewVars, pushVars
  <2>3. [s \in Sessions |-> IF warm /\ s \in part THEN live[s] ELSE 0]
          \in [Sessions -> Versions]
    BY FirstVersions DEF RowsOK
  <2>4. (IF warm THEN sweep[k].rest \ part ELSE {}) \in SUBSET Sessions
    BY DEF SweepsOK
  <2> DEFINE a == answer(part)
  <2>5. SweepsOK'
    <3>1. a \in [st : {"timer", "asked", "page", "done", "failed"},
                 rest : SUBSET Sessions, page : [Sessions -> Versions]]
      BY <2>3, <2>4
    <3>2. sweep' = [sweep EXCEPT ![k] = a]
      BY <2>1
    <3> HIDE DEF a
    <3>3. QED
      BY <3>1, <3>2, <2>2 DEF SweepsOK
  <2>6. QED
    BY <2>2, <2>5, Zenon DEF RowsOK, LookupsOK
<1>3. CASE SweepFold(k)
  <2> DEFINE answer == sweep[k].page
             fresh == {[kind |-> "added", s |-> s, v |-> answer[s]] : s \in FreshRows(answer)}
  <2>1. /\ rows' = [s \in Sessions |-> IF answer[s] # 0 THEN answer[s] ELSE rows[s]]
        /\ Scope(fresh)
        /\ sweep' = [sweep EXCEPT ![k].st = SweepNext(k), ![k].page = NoRows]
        /\ UNCHANGED <<cold, live, gone, web, views, pushes, pushed>>
    BY <1>3, Zenon DEF SweepFold, hostVars, viewVars, pushVars
  <2>2. answer \in [Sessions -> Versions]
    BY DEF SweepsOK
  <2>3. fresh \in SUBSET ScopedEvent
    BY <2>2 DEF FreshRows, ScopedEvent
  <2>4. BagToSet(scoping') \subseteq ScopedEvent
    BY <2>1, <2>3, ScopeTyped, Zenon DEF LookupsOK
  <2>5. SweepNext(k) \in {"done", "asked"}
    BY DEF SweepNext
  <2>6. SweepsOK'
    BY <2>1, <2>5, NoRowsTyped DEF SweepsOK
  <2>7. RowsOK'
    BY <2>1, <2>2 DEF RowsOK
  <2>8. QED
    BY <2>1, <2>4, <2>6, <2>7, Zenon DEF LookupsOK
<1>4. CASE SweepFail(k)
  <2>1. /\ sweep' = [sweep EXCEPT ![k].st = "failed"]
        /\ UNCHANGED <<cold, live, gone, rows, web, views, scoping, pushes, pushed>>
    BY <1>4, Zenon DEF SweepFail, hostVars, viewVars, pushVars
  <2>2. SweepsOK'
    BY <2>1 DEF SweepsOK
  <2>3. QED
    BY <2>1, <2>2, Zenon DEF RowsOK, LookupsOK
<1>5. QED
  BY <1>1, <1>2, <1>3, <1>4, Zenon

(* Starting a boot push keeps the lookups typed. *)
LEMMA StartPushTyped ==
  ASSUME RowsOK, LookupsOK, StartPush
  PROVE  /\ BagToSet(pushes') \subseteq [Sessions -> Versions]
         /\ pushed' \in 0..MaxPushes
<1>1. pushes' = pushes (+) SetToBag({rows}) /\ pushed < MaxPushes /\ pushed' = pushed + 1
  BY Zenon DEF StartPush
<1>2. BagToSet(pushes') = BagToSet(pushes) \cup {rows}
  BY <1>1, BagAdd, Zenon
<1>3. BagToSet(pushes') \subseteq [Sessions -> Versions]
  BY <1>2, Zenon DEF RowsOK, LookupsOK
<1>4. pushed' \in 0..MaxPushes
  BY <1>1, CatalogueAssumption DEF LookupsOK
<1>5. QED
  BY <1>3, <1>4

(* The life of the view keeps rows and lookups typed. *)
LEMMA ViewStepTyped ==
  ASSUME RowsOK, LookupsOK, OpenView \/ Refresh \/ CloseView
  PROVE  RowsOK' /\ LookupsOK'
<1>1. CASE OpenView
  <2>1. /\ StartPush
        /\ views < MaxViews /\ views' = views + 1
        /\ web' = NoRows
        /\ UNCHANGED <<live, gone, rows, scoping>>
    BY <1>1, Zenon DEF OpenView, hostVars
  <2>2. views' \in 0..MaxViews
    BY <2>1, CatalogueAssumption DEF LookupsOK
  <2>3. QED
    BY <2>1, <2>2, StartPushTyped, NoRowsTyped, Zenon DEF RowsOK, LookupsOK
<1>2. CASE Refresh
  <2>1. StartPush /\ UNCHANGED <<live, gone, rows, web, scoping, views>>
    BY <1>2, Zenon DEF Refresh, hostVars, viewVars
  <2>2. QED
    BY <2>1, StartPushTyped, Zenon DEF RowsOK, LookupsOK
<1>3. CASE CloseView
  <2>1. web' = NoRows /\ UNCHANGED <<live, gone, rows, scoping, views, pushes, pushed>>
    BY <1>3, Zenon DEF CloseView, hostVars, pushVars
  <2>2. QED
    BY <2>1, NoRowsTyped, Zenon DEF RowsOK, LookupsOK
<1>4. QED
  BY <1>1, <1>2, <1>3, Zenon

(* The ends of lookups keep rows and lookups typed. *)
LEMMA LookupStepTyped ==
  ASSUME RowsOK, LookupsOK,
         \/ \E p \in BagToSet(pushes) : PushPost(p)
         \/ \E e \in BagToSet(scoping) : ScopeDone(e)
  PROVE  RowsOK' /\ LookupsOK'
<1>1. ASSUME NEW p \in BagToSet(pushes), PushPost(p) PROVE RowsOK' /\ LookupsOK'
  <2>1. /\ pushes' = pushes (-) SetToBag({p})
        /\ UNCHANGED <<live, gone, rows, views, scoping, pushed>>
    BY <1>1, Zenon DEF PushPost, hostVars
  <2>2. BagToSet(pushes') \subseteq [Sessions -> Versions]
    BY <2>1, BagRemove, Zenon DEF LookupsOK
  <2>3. p \in [Sessions -> Versions]
    BY Zenon DEF LookupsOK
  <2>4. web' \in [Sessions -> Versions]
    <3>1. CASE web' = web
      BY <3>1, Zenon DEF RowsOK
    <3>2. CASE web' # web
      <4>1. PICK kept \in PushKeeps(p) :
              web' = [s \in Sessions |-> IF s \in kept THEN p[s] ELSE web[s]]
        BY <1>1, <3>2, Zenon DEF PushPost
      <4>2. QED
        BY <4>1, <2>3 DEF RowsOK
    <3>3. QED
      BY <3>1, <3>2, Zenon
  <2>5. QED
    BY <2>1, <2>2, <2>4, Zenon DEF RowsOK, LookupsOK
<1>2. ASSUME NEW e \in BagToSet(scoping), ScopeDone(e) PROVE RowsOK' /\ LookupsOK'
  <2>1. /\ scoping' = scoping (-) SetToBag({e})
        /\ web' \in {web, StoreFold(e)}
        /\ UNCHANGED <<live, gone, rows, views, pushes, pushed>>
    BY <1>2, Zenon DEF ScopeDone, hostVars, pushVars
  <2>2. e \in ScopedEvent
    BY Zenon DEF LookupsOK
  <2>3. BagToSet(scoping') \subseteq ScopedEvent
    BY <2>1, BagRemove, Zenon DEF LookupsOK
  <2>4. web' \in [Sessions -> Versions]
    BY <2>1, <2>2, StoreFoldTyped, Zenon DEF RowsOK
  <2>5. QED
    BY <2>1, <2>3, <2>4, Zenon DEF RowsOK, LookupsOK
<1>3. QED
  BY <1>1, <1>2, Zenon

(* Every reachable state of the relay is well typed. *)
THEOREM RelayTypeCorrect == RelaySpec => []RelayTypeOK
<1>1. RelayInit => RelayTypeOK
  <2> SUFFICES ASSUME RelayInit PROVE RelayTypeOK
    OBVIOUS
  <2>1. RelayFlagsOK
    BY Zenon DEF RelayInit, RelayFlagsOK
  <2>2. live = [s \in Sessions |-> IF s \in PreExisting THEN 1 ELSE 0]
          /\ gone = {} /\ rows = NoRows /\ web = NoRows
    BY Zenon DEF RelayInit
  <2>3. RowsOK
    BY <2>2, FirstVersions, NoRowsTyped DEF RowsOK
  <2>4. LookupsOK
    BY CatalogueAssumption DEF RelayInit, LookupsOK, EmptyBag, SetToBag, BagToSet
  <2>5. SweepsOK
    BY NoRowsTyped DEF RelayInit, SweepsOK
  <2>6. QED
    BY <2>1, <2>3, <2>4, <2>5, Zenon DEF RelayTypeOK
<1>2. RelayTypeOK /\ [RelayNext]_relayVars => RelayTypeOK'
  <2> SUFFICES ASSUME RelayFlagsOK, RowsOK, LookupsOK, SweepsOK, [RelayNext]_relayVars
               PROVE  RelayFlagsOK' /\ RowsOK' /\ LookupsOK' /\ SweepsOK'
    BY Zenon DEF RelayTypeOK
  <2>1. RelayFlagsOK'
    BY Zenon DEF RelayFlagsOK, RelayNext, SessionAdded, SessionChanged, SessionRemoved, StoreWarms,
      SweepStart, SweepAnswer, SweepFold, SweepFail, OpenView, Refresh, CloseView, PushPost,
      ScopeDone, hostVars, viewVars, pushVars, relayVars
  <2> SUFFICES RowsOK' /\ LookupsOK' /\ SweepsOK'
    BY <2>1, Zenon
  <2>2. ASSUME NEW s \in Sessions,
               SessionAdded(s) \/ SessionChanged(s) \/ SessionRemoved(s)
        PROVE  RowsOK' /\ LookupsOK' /\ SweepsOK'
    <3>1. RowsOK' /\ LookupsOK'
      BY <2>2, HostStepTyped, Zenon
    <3>2. UNCHANGED <<sweep, cold>>
      BY <2>2, Zenon DEF SessionAdded, SessionChanged, SessionRemoved, sweepVars
    <3>3. QED
      BY <3>1, <3>2, Zenon DEF SweepsOK
  <2>3. ASSUME NEW k \in 1..Sweeps,
               SweepStart(k) \/ SweepAnswer(k) \/ SweepFold(k) \/ SweepFail(k)
        PROVE  RowsOK' /\ LookupsOK' /\ SweepsOK'
    BY <2>3, SweepStepTyped, Zenon
  <2>4. CASE OpenView \/ Refresh \/ CloseView
    <3>1. UNCHANGED <<sweep, cold>>
      BY <2>4, Zenon DEF OpenView, Refresh, CloseView, sweepVars
    <3>2. QED
      BY <2>4, <3>1, ViewStepTyped, Zenon DEF SweepsOK
  <2>5. CASE \/ \E p \in BagToSet(pushes) : PushPost(p)
             \/ \E e \in BagToSet(scoping) : ScopeDone(e)
    <3>1. UNCHANGED <<sweep, cold>>
      BY <2>5, Zenon DEF PushPost, ScopeDone, sweepVars
    <3>2. QED
      BY <2>5, <3>1, LookupStepTyped, Zenon DEF SweepsOK
  <2>6. CASE StoreWarms
    BY <2>6, Zenon DEF StoreWarms, sweepVars, viewVars, pushVars, RowsOK, LookupsOK, SweepsOK
  <2>7. CASE UNCHANGED relayVars
    BY <2>7, Zenon DEF relayVars, RowsOK, LookupsOK, SweepsOK
  <2>8. QED
    BY <2>2, <2>3, <2>4, <2>5, <2>6, <2>7, Zenon DEF RelayNext
<1>3. QED
  BY <1>1, <1>2, PTL DEF RelaySpec

(* Whatever a lookup answers, a row it admits is owned or undecodable. *)
LEMMA AdmittedRows ==
  ASSUME NEW s \in Sessions, TRUE \in Verdicts(s)
  PROVE  Owned(s) \/ s \in Malformed
BY DEF Verdicts, MayKeep

(* A folded event changes the row of its own session only. *)
LEMMA StoreFoldOther ==
  ASSUME RowsOK, NEW e \in ScopedEvent, NEW s \in Sessions, s # e.s
  PROVE  StoreFold(e)[s] = web[s]
BY DEF StoreFold, RowsOK

(* A foreign row never surfaces in the sidebar: boot pushes, relayed events*)
(* and changes that skip the lookup can each only touch rows that are      *)
(* owned, undecodable, or already there.                                   *)
THEOREM ScopingCorrect == RelaySpec => []ForeignNeverSurfaces
<1>1. RelayInit => ForeignNeverSurfaces
  <2> SUFFICES ASSUME RelayInit, NEW s \in Sessions PROVE web[s] = 0
    BY DEF ForeignNeverSurfaces
  <2>1. web = NoRows
    BY Zenon DEF RelayInit
  <2>2. QED
    BY <2>1 DEF NoRows
<1>2. RelayTypeOK /\ ForeignNeverSurfaces /\ [RelayNext]_relayVars => ForeignNeverSurfaces'
  <2> SUFFICES ASSUME RowsOK, LookupsOK, ForeignNeverSurfaces, [RelayNext]_relayVars,
                      NEW s \in Sessions, web'[s] # 0, web[s] = 0
               PROVE  Owned(s) \/ s \in Malformed
    BY Zenon DEF RelayTypeOK, ForeignNeverSurfaces
  <2>1. ASSUME NEW r \in Sessions, SessionChanged(r) PROVE FALSE
    <3>1. web' = web \/ (web[r] # 0 /\ web' = [web EXCEPT ![r] = live[r] + 1])
      BY <2>1, Zenon DEF SessionChanged
    <3>2. QED
      BY <3>1 DEF RowsOK
  <2>2. ASSUME NEW r \in Sessions, SessionRemoved(r) PROVE FALSE
    <3>1. web' \in {web, [web EXCEPT ![r] = 0]}
      BY <2>2, Zenon DEF SessionRemoved
    <3>2. QED
      BY <3>1 DEF RowsOK
  <2>3. CASE OpenView \/ CloseView
    <3>1. web' = NoRows
      BY <2>3, Zenon DEF OpenView, CloseView
    <3>2. QED
      BY <3>1 DEF NoRows
  <2>4. ASSUME NEW p \in BagToSet(pushes), PushPost(p) PROVE Owned(s)
    <3>1. PICK kept \in PushKeeps(p) :
            web' = [r \in Sessions |-> IF r \in kept THEN p[r] ELSE web[r]]
      <4>1. web' # web
        BY Zenon
      <4>2. QED
        BY <2>4, <4>1, Zenon DEF PushPost
    <3>2. s \in kept
      BY <3>1
    <3>3. QED
      BY <3>2, Zenon DEF PushKeeps, MayKeep
  <2>5. ASSUME NEW e \in BagToSet(scoping), ScopeDone(e) PROVE Owned(s) \/ s \in Malformed
    <3>1. PICK verdict \in Verdicts(e.s) : web' = IF verdict /\ open THEN StoreFold(e) ELSE web
      BY <2>5, Zenon DEF ScopeDone
    <3>2. web' # web
      BY Zenon
    <3>3. verdict /\ web' = StoreFold(e)
      BY <3>1, <3>2, Zenon
    <3>4. e \in ScopedEvent
      BY Zenon DEF LookupsOK
    <3>5. s = e.s
      BY <3>2, <3>3, <3>4, StoreFoldOther, Zenon
    <3>6. verdict \in BOOLEAN
      BY Zenon DEF Verdicts
    <3>7. TRUE \in Verdicts(s)
      BY <3>3, <3>5, <3>6, Zenon
    <3>8. QED
      BY <3>7, AdmittedRows, Zenon
  <2>6. CASE UNCHANGED web
    BY <2>6, Zenon
  <2>7. QED
    BY <2>1, <2>2, <2>3, <2>4, <2>5, <2>6, Zenon DEF RelayNext, SessionAdded, StoreWarms,
      SweepStart, SweepAnswer, SweepFold, SweepFail, Refresh, viewVars, relayVars
<1>3. QED
  BY <1>1, <1>2, RelayTypeCorrect, PTL DEF RelaySpec

-----------------------------------------------------------------------------
(* Passes. *)

(* Sessions from before the connection that are disposed of stay so. *)
GoneOK == \A s \in PreExisting : live[s] = 0 => s \in gone

(* Where a pass stands: it has all pages ahead of it, or none. *)
PassOK ==
  \A k \in 1..Sweeps :
    /\ sweep[k].st = "timer" => sweep[k].rest = Sessions
    /\ sweep[k].st # "timer" /\ k \notin cold => warm
    /\ sweep[k].st = "done" => sweep[k].rest = {}

(* A session that lives and is not on the pages to come is on the page     *)
(* that travels, or in the catalogue.                                      *)
PagedOK ==
  \A k \in 1..Sweeps \ cold : \A s \in PreExisting \ sweep[k].rest :
    live[s] # 0 => \/ rows[s] # 0
                   \/ sweep[k].st = "page" /\ sweep[k].page[s] # 0

SweepInv == GoneOK /\ PassOK /\ PagedOK

(* Only steps of a pass touch the passes. *)
LEMMA HostKeepsPasses ==
  ASSUME RelayTypeOK, SweepInv, NEW s \in Sessions,
         SessionAdded(s) \/ SessionChanged(s) \/ SessionRemoved(s)
  PROVE  SweepInv'
<1>1. /\ UNCHANGED <<sweep, cold, warm>>
      /\ s \in PreExisting => (live[s] = 0 => s \in gone)
  BY DEF SessionAdded, SessionChanged, SessionRemoved, sweepVars, SweepInv, GoneOK
<1>2. PassOK'
  BY <1>1 DEF SweepInv, PassOK
<1>3. CASE SessionAdded(s)
  <2>1. /\ s \notin PreExisting /\ gone' = gone
        /\ live' = [live EXCEPT ![s] = 1] /\ rows' = [rows EXCEPT ![s] = 1]
    BY <1>1, <1>3 DEF SessionAdded
  <2>2. \A r \in PreExisting : live'[r] = live[r] /\ rows'[r] = rows[r]
    BY <2>1, CatalogueAssumption DEF RelayTypeOK, RowsOK
  <2>3. QED
    BY <1>1, <1>2, <2>1, <2>2 DEF SweepInv, GoneOK, PagedOK
<1>4. CASE SessionChanged(s)
  <2>1. /\ gone' = gone /\ live[s] \in Nat /\ live[s] # 0
        /\ live' = [live EXCEPT ![s] = live[s] + 1]
        /\ rows' \in {rows, [rows EXCEPT ![s] = live[s] + 1]}
        /\ rows[s] = 0 => rows' = rows
    BY <1>4, CatalogueAssumption DEF SessionChanged
  <2>2. \A r \in Sessions : /\ live'[r] = 0 <=> live[r] = 0
                            /\ rows[r] # 0 => rows'[r] # 0
    BY <2>1 DEF RelayTypeOK, RowsOK
  <2>3. QED
    BY <1>1, <1>2, <2>1, <2>2, CatalogueAssumption DEF SweepInv, GoneOK, PagedOK
<1>5. CASE SessionRemoved(s)
  <2>1. /\ gone' = gone \cup {s}
        /\ live' = [live EXCEPT ![s] = 0] /\ rows' = [rows EXCEPT ![s] = 0]
    BY <1>5 DEF SessionRemoved
  <2>2. /\ live'[s] = 0
        /\ \A r \in Sessions \ {s} : live'[r] = live[r] /\ rows'[r] = rows[r]
    BY <2>1 DEF RelayTypeOK, RowsOK
  <2>3. QED
    BY <1>1, <1>2, <2>1, <2>2, CatalogueAssumption DEF SweepInv, GoneOK, PagedOK
<1>6. QED
  BY <1>3, <1>4, <1>5

(* A pass keeps track of what it has seen. *)
LEMMA PassKeepsTrack ==
  ASSUME RelayTypeOK, SweepInv, NEW k \in 1..Sweeps,
         SweepStart(k) \/ SweepAnswer(k) \/ SweepFold(k) \/ SweepFail(k)
  PROVE  SweepInv'
<1>1. UNCHANGED <<live, gone, warm>> /\ cold \subseteq cold'
  BY DEF SweepStart, SweepAnswer, SweepFold, SweepFail, hostVars
<1>2. GoneOK'
  BY <1>1 DEF SweepInv, GoneOK
<1>3. \A j \in (1..Sweeps) \ {k} : sweep'[j] = sweep[j]
  BY DEF RelayTypeOK, SweepsOK, SweepStart, SweepAnswer, SweepFold, SweepFail
<1>4. \A s \in PreExisting : rows[s] # 0 => rows'[s] # 0
  BY CatalogueAssumption DEF RelayTypeOK, RowsOK, SweepsOK,
     SweepStart, SweepAnswer, SweepFold, SweepFail
<1>5. SUFFICES /\ sweep'[k].st = "timer" => sweep'[k].rest = Sessions
               /\ sweep'[k].st # "timer" /\ k \notin cold' => warm
               /\ sweep'[k].st = "done" => sweep'[k].rest = {}
               /\ k \notin cold' => \A s \in PreExisting \ sweep'[k].rest :
                    live[s] # 0 => \/ rows'[s] # 0
                                   \/ sweep'[k].st = "page" /\ sweep'[k].page[s] # 0
  BY <1>1, <1>2, <1>3, <1>4 DEF SweepInv, PassOK, PagedOK
<1>6. CASE SweepStart(k)
  <2>1. /\ sweep[k].st = "timer" /\ rows' = rows
        /\ k \notin cold' => warm
        /\ sweep' = [sweep EXCEPT ![k].st = "asked"]
    BY <1>6 DEF SweepStart
  <2>2. sweep'[k].st = "asked" /\ sweep'[k].rest = sweep[k].rest
    BY <2>1 DEF RelayTypeOK, SweepsOK
  <2>3. QED
    BY <2>1, <2>2, CatalogueAssumption DEF SweepInv, PassOK
<1>7. CASE SweepAnswer(k)
  <2>1. PICK part \in SUBSET sweep[k].rest :
          sweep' = [sweep EXCEPT ![k] =
            [st |-> "page",
             rest |-> IF warm THEN sweep[k].rest \ part ELSE {},
             page |-> [s \in Sessions |-> IF warm /\ s \in part THEN live[s] ELSE 0]]]
    BY <1>7 DEF SweepAnswer
  <2>2. /\ sweep[k].st = "asked" /\ rows' = rows /\ cold' = cold
    BY <1>7 DEF SweepAnswer
  <2>3. /\ sweep'[k].st = "page"
        /\ sweep'[k].rest = IF warm THEN sweep[k].rest \ part ELSE {}
        /\ \A s \in Sessions : sweep'[k].page[s] = IF warm /\ s \in part THEN live[s] ELSE 0
    BY <2>1 DEF RelayTypeOK, SweepsOK
  <2>4. k \notin cold => warm
    BY <2>2 DEF SweepInv, PassOK
  <2>5. ASSUME k \notin cold, NEW s \in PreExisting \ sweep'[k].rest, live[s] # 0
        PROVE  rows'[s] # 0 \/ sweep'[k].page[s] # 0
    <3>1. s \in part \/ s \notin sweep[k].rest
      BY <2>3, <2>4, <2>5
    <3>2. CASE s \in part
      BY <3>2, <2>3, <2>4, <2>5, CatalogueAssumption
    <3>3. CASE s \notin sweep[k].rest
      BY <3>3, <2>2, <2>5 DEF SweepInv, PagedOK
    <3>4. QED
      BY <3>1, <3>2, <3>3
  <2>6. QED
    BY <2>2, <2>3, <2>4, <2>5
<1>8. CASE SweepFold(k)
  <2>1. /\ sweep[k].st = "page" /\ cold' = cold
        /\ rows' = [s \in Sessions |->
                      IF sweep[k].page[s] # 0 THEN sweep[k].page[s] ELSE rows[s]]
        /\ sweep' = [sweep EXCEPT ![k].st = SweepNext(k), ![k].page = NoRows]
    BY <1>8 DEF SweepFold
  <2>2. sweep'[k].st = SweepNext(k) /\ sweep'[k].rest = sweep[k].rest
    BY <2>1 DEF RelayTypeOK, SweepsOK
  <2>3. ASSUME k \notin cold, NEW s \in PreExisting \ sweep[k].rest, live[s] # 0
        PROVE  rows'[s] # 0
    <3>1. rows[s] # 0 \/ sweep[k].page[s] # 0
      BY <2>3 DEF SweepInv, PagedOK
    <3>2. QED
      BY <2>1, <2>3, <3>1, CatalogueAssumption
  <2>4. /\ SweepNext(k) \in {"done", "asked"}
        /\ SweepNext(k) = "done" => sweep[k].rest = {}
    BY DEF SweepNext
  <2>5. k \notin cold => warm
    BY <2>1 DEF SweepInv, PassOK
  <2>6. QED
    BY <2>1, <2>2, <2>3, <2>4, <2>5
<1>9. CASE SweepFail(k)
  <2>1. /\ sweep[k].st = "asked" /\ rows' = rows /\ cold' = cold
        /\ sweep' = [sweep EXCEPT ![k].st = "failed"]
    BY <1>9 DEF SweepFail
  <2>2. sweep'[k].st = "failed" /\ sweep'[k].rest = sweep[k].rest
    BY <2>1 DEF RelayTypeOK, SweepsOK
  <2>3. QED
    BY <2>1, <2>2 DEF SweepInv, PassOK, PagedOK
<1>10. QED
  BY <1>6, <1>7, <1>8, <1>9

(* A pass that saw a warm store from its first request and ended without   *)
(* an error has every session that lived throughout in the catalogue, for  *)
(* any number of passes that page at the same time (agentClient.ts         *)
(* hydrateSessionCatalogue, sweepSessionCatalogue).                        *)
THEOREM SweepCorrect == RelaySpec => []SweepIsComplete
<1>1. RelayInit => SweepInv
  BY CatalogueAssumption DEF RelayInit, SweepInv, GoneOK, PassOK, PagedOK
<1>2. RelayTypeOK /\ SweepInv /\ [RelayNext]_relayVars => SweepInv'
  <2> SUFFICES ASSUME RelayTypeOK, SweepInv, [RelayNext]_relayVars
               PROVE  SweepInv'
    OBVIOUS
  <2>1. CASE \E s \in Sessions : SessionAdded(s) \/ SessionChanged(s) \/ SessionRemoved(s)
    BY <2>1, HostKeepsPasses
  <2>2. CASE \E k \in 1..Sweeps :
               SweepStart(k) \/ SweepAnswer(k) \/ SweepFold(k) \/ SweepFail(k)
    BY <2>2, PassKeepsTrack
  <2>3. CASE StoreWarms
    BY <2>3 DEF StoreWarms, sweepVars, SweepInv, GoneOK, PassOK, PagedOK
  <2>4. CASE \/ OpenView \/ Refresh \/ CloseView
             \/ \E p \in BagToSet(pushes) : PushPost(p)
             \/ \E e \in BagToSet(scoping) : ScopeDone(e)
             \/ UNCHANGED relayVars
    <3>1. UNCHANGED <<live, gone, warm, rows, sweep, cold>>
      BY <2>4 DEF OpenView, Refresh, CloseView, PushPost, ScopeDone, hostVars, sweepVars, relayVars
    <3>2. QED
      BY <3>1 DEF SweepInv, GoneOK, PassOK, PagedOK
  <2>5. QED
    BY <2>1, <2>2, <2>3, <2>4 DEF RelayNext
<1>3. RelayTypeOK /\ SweepInv => SweepIsComplete
  BY DEF SweepInv, PassOK, PagedOK, SweepIsComplete
<1>4. QED
  BY <1>1, <1>2, <1>3, RelayTypeCorrect, PTL DEF RelaySpec
-----------------------------------------------------------------------------
(* Rows on their way. *)

Positive(B) == \A x \in DOMAIN B : B[x] \in Nat \ {0}

(* The row of a session is on the page, or a lookup will bring it. *)
Coming(s) ==
  \/ web[s] # 0
  \/ \E e \in BagToSet(scoping) : e.kind = "added" /\ e.s = s
  \/ \E p \in BagToSet(pushes) : p[s] # 0

CarriesOK ==
  /\ Positive(scoping) /\ Positive(pushes)
  /\ \A e \in BagToSet(scoping) : e.v # 0

SurfaceOK ==
  ~GitMayFail /\ open /\ ~fatal =>
    \A s \in Sessions : rows[s] # 0 /\ Owned(s) => Coming(s)

SurfaceInv == CarriesOK /\ SurfaceOK

(* Adding a set of elements to a bag. *)
LEMMA BagGrows ==
  ASSUME NEW B, NEW S, Positive(B)
  PROVE  Positive(B (+) SetToBag(S)) /\ BagToSet(B (+) SetToBag(S)) = BagToSet(B) \cup S
<1> DEFINE D == B (+) SetToBag(S)
<1>1. /\ DOMAIN D = DOMAIN B \cup S
      /\ \A x \in DOMAIN D : D[x] = (IF x \in DOMAIN B THEN B[x] ELSE 0)
                                     + (IF x \in S THEN 1 ELSE 0)
  BY DEF (+), SetToBag
<1> HIDE DEF D
<1>2. Positive(D)
  BY <1>1 DEF Positive
<1>3. QED
  BY <1>1, <1>2 DEF BagToSet, D

(* Taking one copy of an element out of a bag leaves the others. *)
LEMMA BagShrinks ==
  ASSUME NEW B, NEW x, Positive(B)
  PROVE  /\ Positive(B (-) SetToBag({x}))
         /\ BagToSet(B (-) SetToBag({x})) \subseteq BagToSet(B)
         /\ \A y \in BagToSet(B) \ {x} : y \in BagToSet(B (-) SetToBag({x}))
<1> DEFINE C == B (-) SetToBag({x})
           D == [y \in DOMAIN B |-> IF y \in {x} THEN B[y] - 1 ELSE B[y]]
<1>1. C = [y \in {d \in DOMAIN D : D[d] > 0} |-> D[y]]
  BY DEF (-), SetToBag
<1>2. \A y \in DOMAIN B : D[y] \in Nat /\ (y # x => D[y] > 0)
  BY DEF Positive
<1> HIDE DEF D
<1>3. DOMAIN D = DOMAIN B
  BY DEF D
<1> HIDE DEF C
<1>4. QED
  BY <1>1, <1>2, <1>3 DEF Positive, BagToSet, C

(* Relaying events keeps the counts, and adds them for an open page.       *)
LEMMA ScopeGrows ==
  ASSUME CarriesOK, NEW events, Scope(events), \A e \in events : e.v # 0
  PROVE  /\ Positive(scoping')
         /\ \A e \in BagToSet(scoping') : e.v # 0
         /\ BagToSet(scoping) \subseteq BagToSet(scoping')
         /\ open => events \subseteq BagToSet(scoping')
<1>1. CASE open
  <2>1. scoping' = scoping (+) SetToBag(events)
    BY <1>1 DEF Scope
  <2>2. Positive(scoping') /\ BagToSet(scoping') = BagToSet(scoping) \cup events
    BY <2>1, BagGrows, Zenon DEF CarriesOK
  <2>3. QED
    BY <2>2 DEF CarriesOK
<1>2. CASE ~open
  BY <1>2 DEF Scope, CarriesOK
<1>3. QED
  BY <1>1, <1>2

(* A step keeps the promise if what was on its way still is, and what is   *)
(* new in the catalogue is on its way.                                     *)
LEMMA PromiseKept ==
  ASSUME SurfaceOK, open' => open, fatal => fatal',
         \A s \in Sessions :
           open' /\ ~fatal' /\ ~GitMayFail /\ Owned(s) =>
             /\ rows'[s] # 0 => rows[s] # 0 \/ Coming(s)'
             /\ Coming(s) => Coming(s)'
  PROVE  SurfaceOK'
BY DEF SurfaceOK, Owned, SameRepo, NeedsNoLookup

(* The agent host's events. *)
LEMMA HostSurface ==
  ASSUME RelayTypeOK, SurfaceInv, NEW s \in Sessions,
         SessionAdded(s) \/ SessionChanged(s) \/ SessionRemoved(s)
  PROVE  SurfaceInv'
<1>1. UNCHANGED <<open, fatal, pushes>>
  BY DEF SessionAdded, SessionChanged, SessionRemoved, viewVars, pushVars
<1>2. CASE SessionAdded(s)
  <2> DEFINE e == [kind |-> "added", s |-> s, v |-> 1]
  <2>1. /\ Scope({e}) /\ web' = web
        /\ rows' = [rows EXCEPT ![s] = 1]
    BY <1>2 DEF SessionAdded, viewVars
  <2>2. /\ Positive(scoping')
        /\ \A x \in BagToSet(scoping') : x.v # 0
        /\ BagToSet(scoping) \subseteq BagToSet(scoping')
        /\ open => e \in BagToSet(scoping')
    BY <2>1, ScopeGrows DEF SurfaceInv
  <2>3. \A r \in Sessions : Coming(r) => Coming(r)'
    BY <1>1, <2>1, <2>2 DEF Coming
  <2>4. open' => Coming(s)'
    BY <1>1, <2>2 DEF Coming
  <2>5. \A r \in Sessions \ {s} : rows'[r] = rows[r]
    BY <2>1 DEF RelayTypeOK, RowsOK
  <2>6. SurfaceOK'
    BY <1>1, <2>3, <2>4, <2>5, PromiseKept DEF SurfaceInv
  <2>7. QED
    BY <1>1, <2>2, <2>6 DEF SurfaceInv, CarriesOK
<1>3. CASE SessionChanged(s)
  <2> DEFINE e == [kind |-> "changed", s |-> s, v |-> live[s] + 1]
  <2>1. live[s] \in Nat /\ live[s] + 1 # 0
    BY <1>3, CatalogueAssumption DEF SessionChanged
  <2>2. CASE rows[s] # 0
    <3>1. Scope({e}) /\ web' = web /\ rows' = [rows EXCEPT ![s] = live[s] + 1]
      BY <1>3, <2>2 DEF SessionChanged
    <3>2. /\ Positive(scoping')
          /\ \A x \in BagToSet(scoping') : x.v # 0
          /\ BagToSet(scoping) \subseteq BagToSet(scoping')
      BY <2>1, <3>1, ScopeGrows DEF SurfaceInv
    <3>3. \A r \in Sessions : Coming(r) => Coming(r)'
      BY <1>1, <3>1, <3>2 DEF Coming
    <3>4. \A r \in Sessions : rows'[r] # 0 => rows[r] # 0
      BY <2>2, <3>1 DEF RelayTypeOK, RowsOK
    <3>5. SurfaceOK'
      BY <1>1, <3>3, <3>4, PromiseKept DEF SurfaceInv
    <3>6. QED
      BY <1>1, <3>2, <3>5 DEF SurfaceInv, CarriesOK
  <2>3. CASE rows[s] = 0
    <3>1. /\ UNCHANGED <<rows, scoping>>
          /\ web' \in {web, [web EXCEPT ![s] = live[s] + 1]}
      BY <1>3, <2>3 DEF SessionChanged
    <3>2. \A r \in Sessions : web[r] # 0 => web'[r] # 0
      BY <2>1, <3>1 DEF RelayTypeOK, RowsOK
    <3>3. \A r \in Sessions : Coming(r) => Coming(r)'
      BY <1>1, <3>1, <3>2 DEF Coming
    <3>4. SurfaceOK'
      BY <1>1, <3>1, <3>3, PromiseKept DEF SurfaceInv
    <3>5. QED
      BY <1>1, <3>1, <3>4 DEF SurfaceInv, CarriesOK
  <2>4. QED
    BY <2>2, <2>3
<1>4. CASE SessionRemoved(s)
  <2>1. /\ rows' = [rows EXCEPT ![s] = 0] /\ scoping' = scoping
        /\ web' \in {web, [web EXCEPT ![s] = 0]}
    BY <1>4 DEF SessionRemoved
  <2>2. \A r \in Sessions \ {s} : rows'[r] = rows[r] /\ web'[r] = web[r]
    BY <2>1 DEF RelayTypeOK, RowsOK
  <2>3. \A r \in Sessions \ {s} : Coming(r) => Coming(r)'
    BY <1>1, <2>1, <2>2 DEF Coming
  <2>4. rows'[s] = 0
    BY <2>1 DEF RelayTypeOK, RowsOK
  <2>5. SurfaceOK'
    BY <1>1, <2>2, <2>3, <2>4 DEF SurfaceInv, SurfaceOK, Owned, SameRepo, NeedsNoLookup
  <2>6. QED
    BY <1>1, <2>1, <2>5 DEF SurfaceInv, CarriesOK
<1>5. QED
  BY <1>2, <1>3, <1>4

(* A page of a pass: what is new in the catalogue is relayed. *)
LEMMA FoldSurface ==
  ASSUME RelayTypeOK, SurfaceInv, NEW k \in 1..Sweeps, SweepFold(k)
  PROVE  SurfaceInv'
<1> DEFINE answer == sweep[k].page
           fresh == {[kind |-> "added", s |-> s, v |-> answer[s]] : s \in FreshRows(answer)}
<1>1. /\ UNCHANGED <<open, fatal, pushes, web>>
      /\ Scope(fresh)
      /\ rows' = [s \in Sessions |-> IF answer[s] # 0 THEN answer[s] ELSE rows[s]]
  BY DEF SweepFold, viewVars, pushVars
<1>2. \A e \in fresh : e.v # 0
  BY DEF FreshRows
<1>3. /\ Positive(scoping')
      /\ \A x \in BagToSet(scoping') : x.v # 0
      /\ BagToSet(scoping) \subseteq BagToSet(scoping')
      /\ open => fresh \subseteq BagToSet(scoping')
  BY <1>1, <1>2, ScopeGrows DEF SurfaceInv
<1>4. \A r \in Sessions : Coming(r) => Coming(r)'
  BY <1>1, <1>3 DEF Coming
<1>5. ASSUME NEW s \in Sessions, open', rows'[s] # 0, rows[s] = 0
      PROVE  Coming(s)'
  <2>1. s \in FreshRows(answer)
    BY <1>1, <1>5 DEF FreshRows
  <2>2. [kind |-> "added", s |-> s, v |-> answer[s]] \in BagToSet(scoping')
    BY <1>1, <1>3, <1>5, <2>1
  <2>3. QED
    BY <2>2 DEF Coming
<1>6. SurfaceOK'
  BY <1>1, <1>4, <1>5, PromiseKept DEF SurfaceInv
<1>7. QED
  BY <1>1, <1>3, <1>6 DEF SurfaceInv, CarriesOK

(* Views come with a push of all rows, and go with their store.            *)
LEMMA ViewSurface ==
  ASSUME RelayTypeOK, SurfaceInv, OpenView \/ Refresh \/ CloseView
  PROVE  SurfaceInv'
<1>1. UNCHANGED <<rows, scoping, fatal>>
  BY DEF OpenView, Refresh, CloseView, pushVars
<1>2. CASE OpenView \/ Refresh
  <2>1. pushes' = pushes (+) SetToBag({rows})
    BY <1>2 DEF OpenView, Refresh, StartPush
  <2>2. Positive(pushes') /\ BagToSet(pushes') = BagToSet(pushes) \cup {rows}
    BY <2>1, BagGrows, Zenon DEF SurfaceInv, CarriesOK
  <2>3. \A s \in Sessions : rows[s] # 0 => Coming(s)'
    BY <2>2 DEF Coming
  <2>4. SurfaceOK'
    BY <1>1, <2>3 DEF SurfaceOK
  <2>5. QED
    BY <1>1, <2>2, <2>4 DEF SurfaceInv, CarriesOK
<1>3. CASE CloseView
  <2>1. ~open' /\ pushes' = pushes
    BY <1>3 DEF CloseView, pushVars
  <2>2. QED
    BY <1>1, <2>1 DEF SurfaceInv, CarriesOK, SurfaceOK
<1>4. QED
  BY <1>2, <1>3

(* A push that ends brings its owned rows, or the fatal error.             *)
LEMMA PushSurface ==
  ASSUME RelayTypeOK, SurfaceInv, NEW p \in BagToSet(pushes), PushPost(p)
  PROVE  SurfaceInv'
<1>1. /\ UNCHANGED <<rows, open, scoping>>
      /\ pushes' = pushes (-) SetToBag({p})
      /\ fatal => fatal'
  <2>1. fatal' = fatal \/ fatal' = (fatal \/ open)
    BY Zenon DEF PushPost
  <2>2. fatal => fatal'
    BY <2>1, Zenon
  <2>3. QED
    BY <2>2 DEF PushPost
<1>2. /\ Positive(pushes')
      /\ \A q \in BagToSet(pushes) \ {p} : q \in BagToSet(pushes')
  BY <1>1, BagShrinks DEF SurfaceInv, CarriesOK
<1>3. p \in [Sessions -> Versions] /\ web \in [Sessions -> Versions]
  BY DEF RelayTypeOK, LookupsOK, RowsOK
<1>4. ASSUME open', ~fatal', ~GitMayFail, NEW s \in Sessions, Owned(s), Coming(s)
      PROVE  Coming(s)'
  <2>1. PICK kept \in PushKeeps(p) :
          web' = [r \in Sessions |-> IF r \in kept THEN p[r] ELSE web[r]]
    <3>1. open /\ ~(fatal' = (fatal \/ open))
      BY <1>1, <1>4, Zenon
    <3>2. QED
      BY <3>1, Zenon DEF PushPost
  <2>2. /\ p[s] # 0 => s \in kept
        /\ s \in kept => p[s] # 0
    BY <1>4 DEF PushKeeps, SurelyKept, Owned
  <2>3. p[s] # 0 \/ web[s] # 0 => web'[s] # 0
    BY <2>1, <2>2, <1>3
  <2>4. QED
    BY <1>1, <1>2, <1>4, <2>3 DEF Coming
<1>5. SurfaceOK'
  BY <1>1, <1>4, PromiseKept DEF SurfaceInv
<1>6. QED
  BY <1>1, <1>2, <1>5 DEF SurfaceInv, CarriesOK

(* The lookup of an event that ends brings its row, if it is owned.        *)
LEMMA ScopeSurface ==
  ASSUME RelayTypeOK, SurfaceInv, NEW e \in BagToSet(scoping), ScopeDone(e)
  PROVE  SurfaceInv'
<1>1. /\ UNCHANGED <<rows, open, fatal, pushes>>
      /\ scoping' = scoping (-) SetToBag({e})
  BY DEF ScopeDone, pushVars
<1>2. /\ Positive(scoping')
      /\ BagToSet(scoping') \subseteq BagToSet(scoping)
      /\ \A x \in BagToSet(scoping) \ {e} : x \in BagToSet(scoping')
  BY <1>1, BagShrinks DEF SurfaceInv, CarriesOK
<1>3. /\ e \in ScopedEvent /\ e.s \in Sessions /\ e.v # 0
      /\ web \in [Sessions -> Versions]
  BY DEF RelayTypeOK, LookupsOK, RowsOK, ScopedEvent, SurfaceInv, CarriesOK
<1>4. ASSUME open', ~GitMayFail, NEW s \in Sessions, Owned(s), Coming(s)
      PROVE  Coming(s)'
  <2>1. web[s] # 0 => web'[s] # 0
    BY <1>3 DEF ScopeDone, StoreFold
  <2>2. CASE e.kind = "added" /\ e.s = s
    <3>1. \A v \in Verdicts(s) : v = TRUE
      BY <1>4 DEF Verdicts, SurelyKept, Owned
    <3>2. web' = StoreFold(e)
      BY <1>1, <1>4, <2>2, <3>1 DEF ScopeDone
    <3>3. web'[s] # 0
      BY <1>3, <2>2, <3>2 DEF StoreFold
    <3>4. QED
      BY <3>3 DEF Coming
  <2>3. CASE ~(e.kind = "added" /\ e.s = s)
    BY <1>1, <1>2, <1>4, <2>1, <2>3 DEF Coming
  <2>4. QED
    BY <2>2, <2>3
<1>5. SurfaceOK'
  BY <1>1, <1>4, PromiseKept DEF SurfaceInv
<1>6. QED
  BY <1>1, <1>2, <1>5 DEF SurfaceInv, CarriesOK

(* With git lookups that are answered, and a page that was not told of a   *)
(* fatal error, an owned row of the client's catalogue is in the sidebar   *)
(* once no lookup is running: there is no gap between boot push, relayed   *)
(* events and passes, over any number of views and pushes                  *)
(* (sidebarProvider.ts resolveWebviewView, pushBootState, scope).          *)
THEOREM SurfaceCorrect == RelaySpec => [](~GitMayFail => OwnedRowsSurface)
<1>1. RelayInit => SurfaceInv
  <2> SUFFICES ASSUME RelayInit PROVE SurfaceInv
    OBVIOUS
  <2>1. DOMAIN EmptyBag = {}
    BY DEF EmptyBag, SetToBag
  <2>2. QED
    BY <2>1 DEF RelayInit, SurfaceInv, CarriesOK, SurfaceOK, Positive, BagToSet
<1>2. RelayTypeOK /\ SurfaceInv /\ [RelayNext]_relayVars => SurfaceInv'
  <2> SUFFICES ASSUME RelayTypeOK, SurfaceInv, [RelayNext]_relayVars
               PROVE  SurfaceInv'
    OBVIOUS
  <2>1. CASE \E s \in Sessions : SessionAdded(s) \/ SessionChanged(s) \/ SessionRemoved(s)
    BY <2>1, HostSurface
  <2>2. CASE \E k \in 1..Sweeps : SweepFold(k)
    BY <2>2, FoldSurface
  <2>3. CASE OpenView \/ Refresh \/ CloseView
    BY <2>3, ViewSurface
  <2>4. CASE \E p \in BagToSet(pushes) : PushPost(p)
    BY <2>4, PushSurface
  <2>5. CASE \E e \in BagToSet(scoping) : ScopeDone(e)
    BY <2>5, ScopeSurface
  <2>6. CASE \/ StoreWarms \/ UNCHANGED relayVars
             \/ \E k \in 1..Sweeps : SweepStart(k) \/ SweepAnswer(k) \/ SweepFail(k)
    <3>1. UNCHANGED <<rows, open, fatal, web, scoping, pushes>>
      BY <2>6 DEF StoreWarms, SweepStart, SweepAnswer, SweepFail, viewVars, pushVars, relayVars
    <3>2. QED
      BY <3>1 DEF SurfaceInv, CarriesOK, SurfaceOK, Coming, Owned, SameRepo, NeedsNoLookup
  <2>7. QED
    BY <2>1, <2>2, <2>3, <2>4, <2>5, <2>6 DEF RelayNext
<1>3. SurfaceInv => (~GitMayFail => OwnedRowsSurface)
  <2>1. BagToSet(EmptyBag) = {}
    BY DEF BagToSet, EmptyBag, SetToBag
  <2>2. QED
    BY <2>1 DEF SurfaceInv, SurfaceOK, Coming, OwnedRowsSurface, Quiet
<1>4. QED
  BY <1>1, <1>2, <1>3, RelayTypeCorrect, PTL DEF RelaySpec

-------------------------------------------------------------------------------
(***************************************************************************)
(* For every miss limit: a page whose host answers within a beat and that  *)
(* was neither hidden nor cut off is never declared stale, nor reloaded.   *)
(***************************************************************************)

(* What travels: a number of pings, and a sequence of messages. *)
Queues == toHost \in Nat /\ toView \in Seq(HostMessage)

(* A ping that is still unanswered is the only thing that counts misses.   *)
Settled == ~outstanding => misses = 0

(* On an undisturbed page an unanswered ping, or its answer, is in flight. *)
Undisturbed ==
  ~disturbed => /\ visible
                /\ alive
                /\ ~stale
                /\ outstanding => toHost # 0 \/ toView # <<>>

WInv == Queues /\ Settled /\ Undisturbed

(* Posting a ping leaves it in flight. *)
LEMMA PingQueues ==
  ASSUME Queues, toHost' = toHost + 1, toView' = toView
  PROVE  Queues' /\ toHost' # 0
BY DEF Queues

(* A reload starts an undisturbed page with its first ping in flight. *)
LEMMA ReloadStep ==
  ASSUME WInv, Reload, visible'
  PROVE  WInv'
<1>1. Queues' /\ toHost' # 0
  BY PingQueues, Zenon DEF WInv, Reload
<1>2. alive' /\ outstanding' /\ ~stale'
  BY Zenon DEF Reload
<1>3. QED
  BY <1>1, <1>2, Zenon DEF WInv, Settled, Undisturbed

(* On an undisturbed page of a prompt host a beat finds nothing unanswered.*)
LEMMA QuietBeat ==
  ASSUME WInv, prompt, BeatDue, ~disturbed
  PROVE  ~stale /\ ~outstanding /\ CountedMisses = 0
<1>1. ~stale /\ ~outstanding
  BY Zenon DEF WInv, Undisturbed, BeatDue
<1>2. misses = 0
  BY <1>1, Zenon DEF WInv, Settled
<1>3. QED
  BY <1>1, <1>2, Zenon DEF CountedMisses

(* A beat keeps the invariant, and gives no verdict on an undisturbed page.*)
LEMMA BeatStep ==
  ASSUME WInv, prompt, Beat
  PROVE  WInv' /\ (stale' \/ page' # page => disturbed)
<1>1. BeatDue /\ visible' = visible
  BY Zenon DEF Beat
<1>2. CASE SendPing /\ UNCHANGED <<alive, disturbed>> /\ ~stale
  <2>1. Queues' /\ toHost' # 0
    BY <1>2, PingQueues, Zenon DEF WInv, SendPing
  <2>2. outstanding' /\ stale' = stale /\ page' = page
    BY <1>2, Zenon DEF SendPing
  <2>3. Settled' /\ Undisturbed'
    BY <1>1, <1>2, <2>1, <2>2, Zenon DEF WInv, Settled, Undisturbed
  <2>4. QED
    BY <1>2, <2>1, <2>2, <2>3, Zenon DEF WInv
<1>3. CASE /\ ~stale
           /\ misses' = CountedMisses
           /\ UNCHANGED <<outstanding, stale, page, toHost, toView, alive, disturbed>>
  <2>1. Settled'
    BY <1>3, Zenon DEF WInv, Settled, CountedMisses
  <2>2. Queues' /\ Undisturbed'
    BY <1>1, <1>3, Zenon DEF WInv, Queues, Undisturbed
  <2>3. QED
    BY <1>3, <2>1, <2>2, Zenon DEF WInv
<1>4. CASE /\ stale \/ CountedMisses >= MissLimit
           /\ \/ ReloadOnBeat
              \/ /\ misses' = IF stale THEN misses ELSE CountedMisses
                 /\ UNCHANGED <<outstanding, toHost, toView, alive, disturbed>>
  <2>1. disturbed
    <3>1. SUFFICES ASSUME ~disturbed PROVE FALSE
      OBVIOUS
    <3>2. ~stale /\ CountedMisses = 0
      BY <1>1, <3>1, QuietBeat, Zenon
    <3>3. 0 >= MissLimit
      BY <1>4, <3>2, Zenon
    <3>4. QED
      BY <3>3, WatchdogAssumption
  <2>2. CASE ReloadOnBeat
    BY <1>1, <2>1, <2>2, ReloadStep, Zenon DEF ReloadOnBeat
  <2>3. CASE /\ misses' = IF stale THEN misses ELSE CountedMisses
             /\ UNCHANGED <<outstanding, toHost, toView, alive, disturbed>>
    <3>1. Settled'
      BY <2>3, Zenon DEF WInv, Settled, CountedMisses
    <3>2. disturbed'
      BY <2>1, <2>3, Zenon
    <3>3. Queues'
      BY <2>3, Zenon DEF WInv, Queues
    <3>4. QED
      BY <2>1, <3>1, <3>2, <3>3, Zenon DEF WInv, Undisturbed
  <2>4. QED
    BY <1>4, <2>2, <2>3, Zenon
<1>5. QED
  BY <1>2, <1>3, <1>4, Zenon DEF Beat

(* The host's steps and the page's listener keep the invariant. *)
LEMMA MessageStep ==
  ASSUME WInv, HostEcho \/ HostPost \/ HostRestart \/ ViewReceive
  PROVE  WInv' /\ stale' = stale /\ page' = page
<1>1. ASSUME NEW m \in HostMessage, Post(m), alive
      PROVE  toView' \in Seq(HostMessage) /\ toView' # <<>>
  <2>1. toView' = Append(toView, m)
    BY <1>1, Zenon DEF Post
  <2>2. QED
    BY <2>1 DEF WInv, Queues
<1>2. ASSUME NEW m \in HostMessage, Post(m) PROVE toView' \in Seq(HostMessage)
  <2>1. CASE alive
    BY <1>1, <1>2, <2>1, Zenon
  <2>2. CASE ~alive
    BY <1>2, <2>2, Zenon DEF Post, WInv, Queues
  <2>3. QED
    BY <2>1, <2>2, Zenon
<1>3. CASE HostEcho
  <2>1. /\ toHost > 0 /\ toHost' = toHost - 1 /\ Post("pong")
        /\ UNCHANGED <<visible, alive, outstanding, misses, stale, page, disturbed>>
    BY <1>3, Zenon DEF HostEcho, dogVars
  <2>2. "pong" \in HostMessage /\ toHost' \in Nat
    BY <2>1 DEF WInv, Queues, HostMessage
  <2>3. toView' \in Seq(HostMessage) /\ (alive => toView' # <<>>)
    BY <1>1, <1>2, <2>1, <2>2, Zenon
  <2>4. QED
    BY <2>1, <2>2, <2>3, Zenon DEF WInv, Queues, Settled, Undisturbed
<1>4. CASE HostPost
  <2>1. PICK m \in {"event", "verb"} : Post(m)
    BY <1>4, Zenon DEF HostPost
  <2>2. m \in HostMessage /\ Post(m)
    BY <2>1 DEF HostMessage
  <2>3. toView' \in Seq(HostMessage) /\ (alive => toView' # <<>>)
    BY <1>1, <1>2, <2>2, Zenon
  <2>4. UNCHANGED <<visible, alive, toHost, outstanding, misses, stale, page, disturbed>>
    BY <1>4, Zenon DEF HostPost, dogVars
  <2>5. QED
    BY <2>3, <2>4, Zenon DEF WInv, Queues, Settled, Undisturbed
<1>5. CASE HostRestart
  <2>1. /\ toView' = <<>> /\ toHost' \in {toHost, 0} /\ disturbed'
        /\ UNCHANGED <<outstanding, misses, stale, page>>
    BY <1>5, Zenon DEF HostRestart, dogVars
  <2>2. 0 \in Nat /\ <<>> \in Seq(HostMessage)
    OBVIOUS
  <2>3. toHost' \in Nat
    <3>1. toHost' = toHost \/ toHost' = 0
      BY <2>1, Zenon
    <3>2. QED
      BY <2>2, <3>1, Zenon DEF WInv, Queues
  <2>4. Queues'
    BY <2>1, <2>2, <2>3, Zenon DEF Queues
  <2>5. QED
    BY <2>1, <2>4, Zenon DEF WInv, Settled, Undisturbed
<1>6. CASE ViewReceive
  <2>1. /\ toView # <<>> /\ toView' = Tail(toView)
        /\ ~outstanding' /\ misses' = 0
        /\ UNCHANGED <<visible, alive, toHost, stale, page, disturbed>>
    BY <1>6, Zenon DEF ViewReceive, Heard
  <2>2. toView' \in Seq(HostMessage)
    BY <2>1 DEF WInv, Queues
  <2>3. QED
    BY <2>1, <2>2, Zenon DEF WInv, Queues, Settled, Undisturbed
<1>7. QED
  BY <1>3, <1>4, <1>5, <1>6, Zenon

(* Hiding and showing the view keeps the invariant; only a page that was   *)
(* hidden reloads when it is shown.                                        *)
LEMMA VisibilityStep ==
  ASSUME WInv, Hide \/ Show
  PROVE  WInv' /\ (stale' \/ page' # page => disturbed \/ stale)
<1>1. CASE Hide
  BY <1>1, Zenon DEF Hide, dogVars, WInv, Queues, Settled, Undisturbed
<1>2. CASE Show
  <2>1. ~visible /\ visible'
    BY <1>2, Zenon DEF Show
  <2>2. disturbed
    BY <2>1, Zenon DEF WInv, Undisturbed
  <2>3. CASE Reload
    BY <2>1, <2>2, <2>3, ReloadStep, Zenon
  <2>4. CASE UNCHANGED <<alive, toHost, toView, dogVars, disturbed>>
    BY <2>1, <2>2, <2>4, Zenon DEF dogVars, WInv, Queues, Settled, Undisturbed
  <2>5. QED
    BY <1>2, <2>3, <2>4, Zenon DEF Show
<1>3. QED
  BY <1>1, <1>2, Zenon

(* One step of a prompt system: the invariant is kept, and only a disturbed*)
(* page is given the verdict.                                              *)
LEMMA StepSound ==
  ASSUME WInv, prompt, [WatchdogNext]_watchdogVars
  PROVE  WInv' /\ (stale' \/ page' # page => disturbed)
<1>1. stale => disturbed
  BY Zenon DEF WInv, Undisturbed
<1>2. CASE UNCHANGED watchdogVars
  <2>1. UNCHANGED <<visible, alive, toHost, toView, outstanding, misses, stale, page, disturbed>>
    BY <1>2, Zenon DEF watchdogVars, dogVars
  <2>2. QED
    BY <1>1, <2>1, Zenon DEF WInv, Queues, Settled, Undisturbed
<1>3. CASE Beat
  BY <1>3, BeatStep, Zenon
<1>4. CASE HostEcho \/ HostPost \/ HostRestart \/ ViewReceive
  <2>1. WInv' /\ stale' = stale /\ page' = page
    BY <1>4, MessageStep, Zenon
  <2>2. stale' => disturbed
    <3>1. CASE stale
      BY <1>1, <3>1, Zenon
    <3>2. CASE ~stale
      BY <2>1, <3>2, Zenon
    <3>3. QED
      BY <3>1, <3>2, Zenon
  <2>3. QED
    BY <2>1, <2>2, Zenon
<1>5. CASE Hide \/ Show
  BY <1>1, <1>5, VisibilityStep, Zenon
<1>6. QED
  BY <1>2, <1>3, <1>4, <1>5, Zenon DEF WatchdogNext

(* What a prompt host keeps. *)
PInv == prompt => WInv

(* A prompt host stays one, so its invariant is kept. *)
LEMMA StepKeepsPrompt == PInv /\ [WatchdogNext]_watchdogVars => PInv'
<1> SUFFICES ASSUME PInv, [WatchdogNext]_watchdogVars PROVE PInv'
  OBVIOUS
<1>1. prompt' = prompt
  BY Zenon DEF WatchdogNext, watchdogVars, Beat, Hide, Show, HostEcho, HostPost, HostRestart, ViewReceive
<1>2. prompt => WInv'
  BY StepSound, Zenon DEF PInv
<1>3. QED
  BY <1>1, <1>2, Zenon DEF PInv

(* With a prompt host no page is declared stale or reloaded needlessly.    *)
THEOREM VerdictSound == WatchdogSpec => NoNeedlessVerdict
<1>1. WatchdogInit => PInv
  <2> SUFFICES ASSUME WatchdogInit PROVE WInv
    BY Zenon DEF PInv
  <2>1. toHost = 1 /\ toView = <<>>
    BY Zenon DEF WatchdogInit
  <2>2. Queues /\ toHost # 0
    BY <2>1 DEF Queues
  <2>3. visible /\ alive /\ ~stale /\ outstanding
    BY Zenon DEF WatchdogInit
  <2>4. QED
    BY <2>2, <2>3, Zenon DEF WInv, Settled, Undisturbed
<1>2. PInv /\ [WatchdogNext]_watchdogVars => PInv'
  BY StepKeepsPrompt
<1>3. PInv /\ [WatchdogNext]_watchdogVars => [prompt /\ (stale' \/ page' # page) => disturbed]_watchdogVars
  BY StepSound DEF PInv
<1>4. QED
  BY <1>1, <1>2, <1>3, PTL DEF WatchdogSpec, NoNeedlessVerdict

-------------------------------------------------------------------------------
(***************************************************************************)
(* For any number of views and watchers: a subscription of AgentHost is    *)
(* gapless from the handshake on, and a relay handler hears an event at    *)
(* most once, and never after a clean detach.                              *)
(***************************************************************************)

(* A relay handler is only ever subscribed as itself. *)
ViaOK == \A h \in Relays : \A via : <<h, via>> \in subs => via = "itself"

(* Before the handshake completes nothing is subscribed and every attached *)
(* handler is buffered; only attached handlers are.                        *)
BufferOK ==
  /\ pending \subseteq Handlers
  /\ handshake \in {"running", "pumping"} =>
       /\ subs = {}
       /\ offs = {}
       /\ \A h \in Handlers : phase[h] = "attached" => h \in pending
  /\ \A h \in Handlers : h \in pending => phase[h] = "attached"
  /\ \A h \in Handlers : phase[h] = "new" => h \notin due /\ h \notin early

(* Only a handler whose callback has run has its unsubscribe. *)
OffsOK == \A h \in Handlers : h \in offs => h \notin due /\ phase[h] # "new"

(* A handler detached cleanly is out of every set. *)
CleanOK ==
  \A h \in Relays : h \in clean =>
    phase[h] = "detached" /\ h \notin due /\ \A via : <<h, via>> \notin subs

PhaseOK == phase \in [Handlers -> {"new", "attached", "detached"}]

IInv == PhaseOK /\ ViaOK /\ BufferOK /\ OffsOK /\ CleanOK /\ NothingMissed

USE DEF Handlers

(* The closures of a handler, and of no other. *)
LEMMA ClosureOf ==
  ASSUME NEW h \in Handlers, NEW via
  PROVE  /\ h \in Relays => Closure(h, via) = <<h, "itself">>
         /\ h \notin Relays => Closure(h, via) = <<h, via>>
BY DEF Closure

(* A subscription made in either way counts. *)
LEMMA ClosureSubscribes ==
  ASSUME NEW h \in Handlers, NEW via \in {"buffered", "late"},
         Closure(h, via) \in subs'
  PROVE  Subscribed(h)'
BY ClosureOf DEF Subscribed

(* Subscribing more loses nobody. *)
LEMMA SubscribedGrows ==
  ASSUME NEW h \in Handlers, subs \subseteq subs', Subscribed(h)
  PROVE  Subscribed(h)'
BY DEF Subscribed

(* The initial state satisfies the invariant. *)
LEMMA InitIInv == Init => IInv
BY DEF Init, IInv, PhaseOK, ViaOK, BufferOK, OffsOK, CleanOK, NothingMissed

(* Buffering is over: every attached early handler is subscribed. *)
LEMMA ReadyStep == IInv /\ BecomeReady => IInv'
<1> SUFFICES ASSUME IInv, BecomeReady PROVE IInv'
  OBVIOUS
<1> USE DEF IInv, BecomeReady
<1>1. PhaseOK'
  BY DEF PhaseOK
<1>2. ViaOK'
  <2> SUFFICES ASSUME NEW h \in Relays, NEW via, <<h, via>> \in subs'
               PROVE  via = "itself"
    BY DEF ViaOK
  <2>1. PICK g \in Handlers : <<h, via>> = Closure(g, "buffered")
    BY DEF BufferOK
  <2>2. g = h
    BY <2>1, ClosureOf
  <2>3. QED
    BY <2>1, <2>2, ClosureOf
<1>3. BufferOK'
  BY DEF BufferOK
<1>4. OffsOK'
  BY DEF OffsOK
<1>5. CleanOK'
  <2> SUFFICES ASSUME NEW h \in Relays, h \in clean, NEW via
               PROVE  phase[h] = "detached" /\ h \notin due /\ <<h, via>> \notin subs'
    BY DEF CleanOK
  <2>1. phase[h] = "detached" /\ h \notin due /\ <<h, via>> \notin subs
    BY DEF CleanOK
  <2>2. h \notin pending
    BY <2>1 DEF BufferOK
  <2>3. \A g \in Handlers : g \in pending => <<h, via>> # Closure(g, "buffered")
    BY <2>2, ClosureOf
  <2>4. <<h, via>> \notin {Closure(g, "buffered") : g \in pending}
    BY <2>3 DEF BufferOK
  <2>5. QED
    BY <2>1, <2>4
<1>6. NothingMissed'
  <2> SUFFICES ASSUME NEW h \in Handlers, phase[h] = "attached"
               PROVE  Subscribed(h)'
    BY DEF NothingMissed
  <2>1. Closure(h, "buffered") \in subs'
    BY DEF BufferOK
  <2>2. QED
    BY <2>1, ClosureSubscribes
<1>7. QED
  BY <1>1, <1>2, <1>3, <1>4, <1>5, <1>6

(* A new handler is buffered, whatever the stage of the handshake. *)
LEMMA AttachStep == ASSUME NEW h \in Handlers PROVE IInv /\ Attach(h) => IInv'
<1> SUFFICES ASSUME IInv, Attach(h) PROVE IInv'
  OBVIOUS
<1> USE DEF IInv, Attach
<1>1. PhaseOK'
  BY DEF PhaseOK
<1>2. ViaOK'
  BY DEF ViaOK
<1>3. BufferOK'
  BY DEF BufferOK, PhaseOK
<1>4. OffsOK'
  BY DEF OffsOK, PhaseOK
<1>5. CleanOK'
  BY DEF CleanOK, PhaseOK
<1>6. NothingMissed'
  <2> SUFFICES ASSUME handshake = "ready", NEW g \in Handlers, phase'[g] = "attached",
                      g \in early' \/ g \notin due'
               PROVE  Subscribed(g)'
    BY DEF NothingMissed
  <2>1. g # h
    BY DEF BufferOK, PhaseOK
  <2>2. phase[g] = "attached" /\ (g \in early \/ g \notin due)
    BY <2>1 DEF PhaseOK
  <2>3. Subscribed(g)
    BY <2>2 DEF NothingMissed
  <2>4. QED
    BY <2>3, SubscribedGrows
<1>7. QED
  BY <1>1, <1>2, <1>3, <1>4, <1>5, <1>6

(* The late callback subscribes its handler, again or for the first time. *)
LEMMA LateStep == ASSUME NEW h \in Handlers PROVE IInv /\ SubscribeLate(h) => IInv'
<1> SUFFICES ASSUME IInv, SubscribeLate(h) PROVE IInv'
  OBVIOUS
<1> USE DEF IInv, SubscribeLate
<1>1. PhaseOK'
  BY DEF PhaseOK
<1>2. ViaOK'
  BY ClosureOf DEF ViaOK
<1>3. BufferOK'
  BY DEF BufferOK
<1>4. OffsOK'
  BY DEF OffsOK, BufferOK
<1>5. CleanOK'
  <2> SUFFICES ASSUME NEW g \in Relays, g \in clean, NEW via
               PROVE  phase[g] = "detached" /\ g \notin due' /\ <<g, via>> \notin subs'
    BY DEF CleanOK
  <2>1. phase[g] = "detached" /\ g \notin due /\ <<g, via>> \notin subs
    BY DEF CleanOK
  <2>2. <<g, via>> # Closure(h, "late")
    BY <2>1, ClosureOf
  <2>3. QED
    BY <2>1, <2>2
<1>6. NothingMissed'
  <2> SUFFICES ASSUME NEW g \in Handlers, phase[g] = "attached",
                      g \in early \/ g \notin due'
               PROVE  Subscribed(g)'
    BY DEF NothingMissed
  <2>1. CASE g = h
    <3>1. Closure(g, "late") \in subs'
      BY <2>1
    <3>2. QED
      BY <3>1, ClosureSubscribes
  <2>2. CASE g # h
    <3>1. Subscribed(g)
      BY <2>2 DEF NothingMissed
    <3>2. QED
      BY <3>1, SubscribedGrows
  <2>3. QED
    BY <2>1, <2>2
<1>7. QED
  BY <1>1, <1>2, <1>3, <1>4, <1>5, <1>6

(* A detached handler takes at most its own closures along. *)
LEMMA DetachStep == ASSUME NEW h \in Handlers PROVE IInv /\ Detach(h) => IInv'
<1> SUFFICES ASSUME IInv, Detach(h) PROVE IInv'
  OBVIOUS
<1> USE DEF IInv, Detach
<1>1. PhaseOK'
  BY DEF PhaseOK
<1>2. ViaOK'
  BY DEF ViaOK
<1>3. BufferOK'
  BY DEF BufferOK, PhaseOK
<1>4. OffsOK'
  BY DEF OffsOK, PhaseOK
<1>5. CleanOK'
  <2> SUFFICES ASSUME NEW g \in Relays, g \in clean', NEW via
               PROVE  phase'[g] = "detached" /\ g \notin due /\ <<g, via>> \notin subs'
    BY DEF CleanOK
  <2>1. CASE g \in clean
    BY <2>1 DEF CleanOK, PhaseOK
  <2>2. CASE g \notin clean
    <3>1. g = h /\ h \in offs
      BY <2>2
    <3>2. phase'[g] = "detached" /\ g \notin due
      BY <3>1 DEF PhaseOK, OffsOK
    <3>3. subs' = subs \ {<<h, "itself">>}
      BY <3>1, ClosureOf
    <3>4. <<g, via>> \notin subs'
      BY <3>1, <3>3 DEF ViaOK
    <3>5. QED
      BY <3>2, <3>4
  <2>3. QED
    BY <2>1, <2>2
<1>6. NothingMissed'
  <2> SUFFICES ASSUME handshake = "ready", NEW g \in Handlers, phase'[g] = "attached",
                      g \in early \/ g \notin due
               PROVE  Subscribed(g)'
    BY DEF NothingMissed
  <2>1. g # h /\ phase[g] = "attached"
    BY DEF PhaseOK
  <2>2. PICK via \in {"buffered", "late", "itself"} : <<g, via>> \in subs
    BY <2>1 DEF NothingMissed, Subscribed
  <2>3. <<g, via>> # Closure(h, "late")
    BY <2>1, ClosureOf
  <2>4. <<g, via>> \in subs'
    BY <2>2, <2>3
  <2>5. QED
    BY <2>4 DEF Subscribed
<1>7. QED
  BY <1>1, <1>2, <1>3, <1>4, <1>5, <1>6

(* Every other step leaves the subscriptions alone. *)
LEMMA OtherStep ==
  IInv /\ (StartPumping \/ HandshakeFails \/ UNCHANGED vars) => IInv'
<1> SUFFICES ASSUME IInv,
                    StartPumping \/ HandshakeFails \/ UNCHANGED vars
             PROVE  IInv'
  OBVIOUS
<1>1. /\ UNCHANGED <<phase, pending, due, offs, subs, early, clean>>
      /\ \/ UNCHANGED handshake
         \/ handshake = "running" /\ handshake' \in {"pumping", "failed"}
  BY DEF StartPumping, HandshakeFails, vars
<1>2. PhaseOK' /\ ViaOK' /\ OffsOK' /\ CleanOK'
  BY <1>1 DEF IInv, PhaseOK, ViaOK, OffsOK, CleanOK
<1>3. BufferOK'
  BY <1>1 DEF IInv, BufferOK
<1>4. NothingMissed'
  BY <1>1 DEF IInv, NothingMissed, Subscribed
<1>5. QED
  BY <1>2, <1>3, <1>4 DEF IInv

(* The inductive invariant holds. *)
THEOREM Invariance == Spec => []IInv
<1>1. IInv /\ [Next]_vars => IInv'
  BY ReadyStep, AttachStep, LateStep, DetachStep, OtherStep DEF Next
<1>2. QED
  BY InitIInv, <1>1, PTL DEF Spec

(* No gap between the buffered and the late subscription (agentHost.ts     *)
(* onSessionEvent, onRelayEvent, the constructor's continuation).          *)
THEOREM GaplessCorrect == Spec => []NothingMissed
BY Invariance, PTL DEF IInv

(* A relay handler hears an event at most once, and nothing after a clean  *)
(* detach.                                                                 *)
THEOREM RelayCorrect == Spec => []RelaysHearOnce
<1>1. IInv => RelaysHearOnce
  <2> SUFFICES ASSUME IInv, NEW h \in Relays
               PROVE  /\ Cardinality({via \in {"buffered", "late", "itself"} :
                                        <<h, via>> \in subs}) <= 1
                      /\ h \in clean => ~Subscribed(h)
    BY DEF RelaysHearOnce
  <2> DEFINE ways == {via \in {"buffered", "late", "itself"} : <<h, via>> \in subs}
  <2>1. ways \subseteq {"itself"}
    BY DEF IInv, ViaOK
  <2>2. ways = {} \/ ways = {"itself"}
    BY <2>1
  <2>3. Cardinality(ways) <= 1
    <3>1. Cardinality({}) = 0 /\ Cardinality({"itself"}) = 1
      BY FS_EmptySet, FS_Singleton, Zenon
    <3> HIDE DEF ways
    <3>2. QED
      BY <2>2, <3>1
  <2>4. h \in clean => ~Subscribed(h)
    BY DEF IInv, CleanOK, Subscribed
  <2>5. QED
    BY <2>3, <2>4
<1>2. QED
  BY Invariance, <1>1, PTL

===============================================================================

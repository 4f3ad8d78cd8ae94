-------------------------- MODULE SymbolResolution --------------------------
(***************************************************************************)
(* One call of a Code Tutor tool that places drafted nodes in the code     *)
(* (src/codechain/tools.ts), and the tutor_refresh that may follow it:     *)
(* files checked against the workspace, symbols asked of the document, of  *)
(* the workspace index and of the text (src/codechain/resolve.ts), every   *)
(* probe raced against a timer (src/codechain/lspClient.ts).  A block's    *)
(* nodes are resolved side by side, children after their parent, and share *)
(* the lookups of a file and of a symbol; a refresh walks the chain one    *)
(* node at a time, children first, and shares nothing.                     *)
(*                                                                         *)
(* Time is counted in PROVIDER_TIMEOUT_MS: a probe answers before the tick *)
(* it is issued in, or the next one, at which its timer fires.  The stat   *)
(* of a file is not raced and is taken to answer at once.                  *)
(***************************************************************************)
EXTENDS SymbolTree

CONSTANTS Trees,       \* bound: the documents several nodes are resolved in
          Drafts,      \* the drafts a call may carry: sequences of nodes
          Code,        \* the workspace file the drafts name
          Outside,     \* a path with a .. segment
          Elsewhere,   \* another document, that only the workspace index names
          NoFile,
          Budget       \* bound: ticks of a pass

Files == {Code, Outside, NoFile}
Documents == {Code, Elsewhere, NoFile}

(* A drafted node: `up` is its parent's place, 0 for the block's own.      *)
Node == [up : Nat, file : Files, path : Paths, kind : {"note", "call"}]

ASSUME DraftsAssumption ==
  /\ Trees \subseteq Forest
  /\ Cardinality({Code, Outside, Elsewhere, NoFile}) = 4
  /\ \A b \in Drafts : b \in Seq(Node) /\ \A n \in DOMAIN b : b[n].up < n
  /\ Budget \in Nat

VARIABLES
  tree,     \* the symbols of Code
  block,    \* the drafted nodes
  mode,     \* the call: resolving, resolved, refreshing, refreshed
  phase,    \* each node: waiting, its file's stat, its symbol's lookup, done
  known,    \* fileCache for Code
  owner,    \* symbolCache: the node whose lookup serves a symbol, 0 for none
  joined,   \* the node whose lookup a node awaits
  lookup,   \* each node's own lookup
  location, \* where each node was found
  before,   \* history: the locations the refresh began with
  silent,   \* history: a probe of this pass got no answer from the server
  now       \* ticks since the call began

resolveVars == <<tree, block, mode, phase, known, owner, joined, lookup, location, before,
                 silent, now>>

Nodes == DOMAIN block
Key(n) == <<block[n].path, block[n].kind>>
Keys == {Key(n) : n \in Nodes}

(* Where the workspace index says a symbol is: a range of its own, which   *)
(* need not be that of any symbol the document reports.                    *)
Indexed == MaxSymbols + 1

(* Where a lookup ended: a hit's place among the document's symbols, 0 for *)
(* none; the path kept for a refresh.                                      *)
Located(status, doc, hit, path) ==
  [status |-> status, doc |-> doc, hit |-> hit, path |-> path]
Nowhere == Located("unresolved", NoFile, 0, <<>>)
Location ==
  [status : {"ok", "ambiguous", "unresolved", "stale"}, doc : Documents,
   hit : 0..Indexed, path : Paths]

Stages == {"none", "open", "symbols", "index", "text", "settled"}
Lookup == [stage : Stages, doc : Documents, path : Paths, overdue : BOOLEAN, found : Location]
NoLookup ==
  [stage |-> "none", doc |-> NoFile, path |-> <<>>, overdue |-> FALSE, found |-> Nowhere]

Probing(n) == lookup[n].stage \in {"open", "symbols", "index", "text"}
-----------------------------------------------------------------------------
(* Every variable keeps its type. *)
ResolveTypeOK ==
  /\ tree \in Forest
  /\ block \in Drafts
  /\ mode \in {"resolving", "resolved", "refreshing", "refreshed"}
  /\ phase \in [Nodes -> {"waiting", "file", "symbol", "done"}]
  /\ known \in {"unknown", "present", "missing"}
  /\ owner \in [Keys -> 0..Len(block)]
  /\ joined \in [Nodes -> 0..Len(block)]
  /\ lookup \in [Nodes -> Lookup]
  /\ location \in [Nodes -> Location]
  /\ before \in [Nodes -> Location]
  /\ silent \in BOOLEAN
  /\ now \in 0..Budget

(* A call arrives with a block. *)
ResolveInit ==
  /\ tree \in Forest
  /\ block \in Drafts
  /\ Len(block) > 1 => tree \in Trees
  /\ mode = "resolving"
  /\ phase = [n \in Nodes |-> "waiting"]
  /\ location = [n \in Nodes |-> Nowhere]
  /\ known = "unknown"
  /\ owner = [k \in Keys |-> 0]
  /\ joined = [n \in Nodes |-> 0]
  /\ lookup = [n \in Nodes |-> NoLookup]
  /\ before = [n \in Nodes |-> Nowhere]
  /\ silent = FALSE
  /\ now = 0
-----------------------------------------------------------------------------
(* resolveSymbol before its first await: a note has no symbol to look for, *)
(* another node must name one.                                             *)
Asked(doc, path, kind) ==
  IF kind = "note" THEN
    [NoLookup EXCEPT !.stage = "settled", !.found = Located("ok", doc, 0, <<>>)]
  ELSE IF path = <<>> THEN
    [NoLookup EXCEPT !.stage = "settled"]
  ELSE
    [NoLookup EXCEPT !.stage = "open", !.doc = doc, !.path = path]

Advance(n, stage) ==
  lookup' = [lookup EXCEPT ![n].stage = stage, ![n].overdue = FALSE]

Settles(n, found) ==
  lookup' = [lookup EXCEPT ![n].stage = "settled", ![n].overdue = FALSE, ![n].found = found]

(* The path a fuzzy hit is remembered under, were it the segment's. *)
FuzzyPathSought(t, path, hit) == <<Last(path)>>

(* The path a fuzzy hit is remembered under: its own name, split again by  *)
(* symbolPath when a refresh asks for it.                                  *)
FuzzyPath(t, path, hit) == Spelled[t[hit].name]

(* The document's symbols have come: the exact path, then the fuzzy pass,  *)
(* then on to the workspace index.                                         *)
Match(n, t) ==
  LET l == lookup[n]
      exact == ExactHits(t, l.path)
      hits == IF exact # <<>> THEN exact ELSE FuzzyHits(t, l.path)
  IN \/ /\ Len(hits) = 1
        /\ Settles(n, Located("ok", l.doc, hits[1],
                              IF exact # <<>> THEN l.path ELSE FuzzyPath(t, l.path, hits[1])))
     \/ /\ Len(hits) > 1
        /\ Settles(n, Located("ambiguous", l.doc, 0, l.path))
     \/ /\ hits = <<>>
        /\ Advance(n, "index")

(* What another document reports is its own affair: one symbol the path    *)
(* means or its last segment names, several of them, or none.              *)
MatchElsewhere(n) ==
  LET l == lookup[n] IN
  \/ \E path \in {l.path, <<Last(l.path)>>} : Settles(n, Located("ok", Elsewhere, 1, path))
  \/ Settles(n, Located("ambiguous", Elsewhere, 0, l.path))
  \/ Advance(n, "index")

StepOfLookup ==
  UNCHANGED <<tree, block, mode, phase, known, owner, joined, location, before, now>>

(* VS Code opens the document, for its symbols or for its text. *)
DocumentOpens(n) ==
  /\ lookup[n].stage = "open"
  /\ Advance(n, "symbols")
  /\ UNCHANGED silent
  /\ StepOfLookup

SymbolsAnswer(n) ==
  /\ lookup[n].stage = "symbols"
  /\ IF lookup[n].doc = Elsewhere THEN MatchElsewhere(n) ELSE Match(n, tree)
  /\ UNCHANGED silent
  /\ StepOfLookup

(* The index answers with its hits of the exact name: one resolves, also   *)
(* in another file; several are left to the picker.                        *)
IndexAnswers(n) ==
  /\ lookup[n].stage = "index"
  /\ \/ \E doc \in {Code, Elsewhere} :
          Settles(n, Located("ok", doc, Indexed, lookup[n].path))
     \/ Settles(n, Located("ambiguous", lookup[n].doc, 0, lookup[n].path))
     \/ Advance(n, "text")
  /\ UNCHANGED silent
  /\ StepOfLookup

(* A word of the text is weak evidence: a candidate, with a reason. *)
TextAnswers(n) ==
  /\ lookup[n].stage = "text"
  /\ \/ Settles(n, Located("ambiguous", lookup[n].doc, 0, lookup[n].path))
     \/ Settles(n, Located("unresolved", lookup[n].doc, 0, <<>>))
  /\ UNCHANGED silent
  /\ StepOfLookup

(* A probe without an answer reads as an empty one.  A document that does  *)
(* not open has no symbols and no text.                                    *)
Unanswered(n) ==
  /\ silent' = TRUE
  /\ \/ lookup[n].stage \in {"open", "symbols"} /\ Advance(n, "index")
     \/ lookup[n].stage = "index" /\ Advance(n, "text")
     \/ lookup[n].stage = "text"
        /\ Settles(n, Located("unresolved", lookup[n].doc, 0, <<>>))
  /\ StepOfLookup

(* No provider, a rejection, a flat answer: at once. *)
ProbeFails(n) ==
  /\ Probing(n)
  /\ Unanswered(n)

(* Only the document's opening raced. *)
OpeningTimesOut(n) == lookup[n].overdue /\ lookup[n].stage \in {"open", "text"} /\ Unanswered(n)

(* The server is wedged: the timer of the race fires. *)
ProbeTimesOut(n) == lookup[n].overdue /\ Unanswered(n)
-----------------------------------------------------------------------------
Conclude(n, found) ==
  /\ phase' = [phase EXCEPT ![n] = "done"]
  /\ location' = [location EXCEPT ![n] = found]

(* cachedResolve: the first to ask for a symbol starts its lookup. *)
Join(n) ==
  /\ phase' = [phase EXCEPT ![n] = "symbol"]
  /\ IF owner[Key(n)] = 0
     THEN /\ owner' = [owner EXCEPT ![Key(n)] = n]
          /\ joined' = [joined EXCEPT ![n] = n]
          /\ lookup' = [lookup EXCEPT ![n] = Asked(Code, block[n].path, block[n].kind)]
     ELSE /\ joined' = [joined EXCEPT ![n] = owner[Key(n)]]
          /\ UNCHANGED <<owner, lookup>>
  /\ UNCHANGED location

(* Siblings one after another, as a loop that awaits would take them. *)
StartableInTurn(n) ==
  /\ phase[n] = "waiting"
  /\ block[n].up # 0 => phase[block[n].up] = "done"
  /\ \A m \in Nodes : m < n /\ block[m].up = block[n].up => phase[m] = "done"

(* Promise.all starts siblings together, once their parent is placed. *)
Startable(n) ==
  /\ phase[n] = "waiting"
  /\ block[n].up # 0 => phase[block[n].up] = "done"

(* resolveDraft, resolveSingle, resolveNode: the node's file first.        *)
Start(n) ==
  /\ mode = "resolving"
  /\ Startable(n)
  /\ \/ /\ block[n].file = NoFile
        /\ Conclude(n, IF block[n].kind = "note" THEN Located("ok", NoFile, 0, <<>>)
                       ELSE Nowhere)
        /\ UNCHANGED <<owner, joined, lookup>>
     \/ /\ block[n].file = Outside \/ (block[n].file = Code /\ known = "missing")
        /\ Conclude(n, Nowhere)
        /\ UNCHANGED <<owner, joined, lookup>>
     \/ /\ block[n].file = Code /\ known = "present"
        /\ Join(n)
     \/ /\ block[n].file = Code /\ known = "unknown"
        /\ phase' = [phase EXCEPT ![n] = "file"]
        /\ UNCHANGED <<owner, joined, lookup, location>>
  /\ UNCHANGED <<tree, block, mode, known, before, silent, now>>

(* The stat answers each node that asked before the first answer came.     *)
FileAnswers(n) ==
  /\ phase[n] = "file"
  /\ \/ /\ known' = "present"
        /\ Join(n)
     \/ /\ known' = "missing"
        /\ Conclude(n, Nowhere)
        /\ UNCHANGED <<owner, joined, lookup>>
  /\ UNCHANGED <<tree, block, mode, before, silent, now>>

(* A node's await of its lookup returns. *)
Place(n) ==
  /\ mode = "resolving"
  /\ phase[n] = "symbol"
  /\ lookup[joined[n]].stage = "settled"
  /\ Conclude(n, lookup[joined[n]].found)
  /\ UNCHANGED <<tree, block, mode, known, owner, joined, lookup, before, silent, now>>

AllDone == \A n \in Nodes : phase[n] = "done"

(* The nodes are attached to the chain and the call is answered. *)
Reply ==
  /\ mode \in {"resolving", "refreshing"}
  /\ AllDone
  /\ mode' = IF mode = "resolving" THEN "resolved" ELSE "refreshed"
  /\ UNCHANGED <<tree, block, phase, known, owner, joined, lookup, location, before, silent, now>>
-----------------------------------------------------------------------------
(* tutor_refresh of the chain the block became part of. *)
StartRefresh ==
  /\ mode = "resolved"
  /\ mode' = "refreshing"
  /\ phase' = [n \in Nodes |-> "waiting"]
  /\ joined' = [n \in Nodes |-> n]
  /\ lookup' = [n \in Nodes |-> NoLookup]
  /\ before' = location
  /\ silent' = FALSE
  /\ now' = 0
  /\ UNCHANGED <<tree, block, known, owner, location>>

(* n is in the subtree of m. *)
Descends(nodes, n, m) ==
  LET under[k \in 0..Len(nodes)] == k # 0 /\ (nodes[k].up = m \/ under[nodes[k].up])
  IN under[n]
Under(n, m) == Descends(block, n, m)

(* reroll awaits a node's children, in order, before its own lookup. *)
Turn(n) ==
  /\ mode = "refreshing"
  /\ phase[n] = "waiting"
  /\ \A m \in Nodes : Under(m, n) \/ (m < n /\ ~Under(n, m)) => phase[m] = "done"

(* A node with no position to re-locate is left as it is. *)
NothingToRefresh(n) ==
  block[n].kind = "note" \/ location[n].doc = NoFile \/ location[n].path = <<>>

RefreshSkips(n) ==
  /\ Turn(n)
  /\ NothingToRefresh(n)
  /\ phase' = [phase EXCEPT ![n] = "done"]
  /\ UNCHANGED <<tree, block, mode, known, owner, joined, lookup, location, before, silent, now>>

RefreshAsks(n) ==
  /\ Turn(n)
  /\ ~NothingToRefresh(n)
  /\ phase' = [phase EXCEPT ![n] = "symbol"]
  /\ lookup' = [lookup EXCEPT ![n] = Asked(location[n].doc, location[n].path, "call")]
  /\ UNCHANGED <<tree, block, mode, known, owner, joined, location, before, silent, now>>

(* What the refresh makes of a node: unmoved, moved, stale, or, for one    *)
(* that had no position, whatever it finds now.  Two positions are the     *)
(* same when their lines are, whatever the documents: those of a symbol    *)
(* found again are, those of two symbols may be, and so may what the index *)
(* said and what the document says.                                        *)
RefreshPlaces(n) ==
  /\ mode = "refreshing"
  /\ phase[n] = "symbol"
  /\ lookup[n].stage = "settled"
  /\ phase' = [phase EXCEPT ![n] = "done"]
  /\ \E sameLines \in BOOLEAN :
     LET was == location[n]
         found == lookup[n].found
         again == found.doc = was.doc /\ found.hit = was.hit /\ was.hit # Indexed
         same == found.status = "ok" /\ (again \/ sameLines)
     IN \/ /\ was.status = "ok" /\ same
           /\ UNCHANGED location
        \/ /\ was.status = "ok" /\ ~same /\ found.status = "ok"
           /\ location' = [location EXCEPT ![n] = found]
        \/ /\ was.status = "ok" /\ found.status # "ok"
           /\ location' = [location EXCEPT ![n].status = "stale"]
        \/ /\ was.status # "ok"
           /\ location' = [location EXCEPT ![n] = found]
  /\ UNCHANGED <<tree, block, mode, known, owner, joined, lookup, before, silent, now>>

(* Everybody waits for a probe, and no probe is past its timer. *)
Tick ==
  /\ mode \in {"resolving", "refreshing"}
  /\ \E n \in Nodes : Probing(n)
  /\ \A n \in Nodes :
       /\ ~lookup[n].overdue
       /\ \/ phase[n] = "done"
          \/ phase[n] = "waiting" /\ ~Turn(n) /\ (mode = "resolving" => ~Startable(n))
          \/ phase[n] = "symbol" /\ Probing(joined[n])
  /\ now < Budget
  /\ now' = now + 1
  /\ lookup' = [n \in Nodes |-> [lookup[n] EXCEPT !.overdue = Probing(n)]]
  /\ UNCHANGED <<tree, block, mode, phase, known, owner, joined, location, before, silent>>
-----------------------------------------------------------------------------
ResolveNext ==
  \/ \E n \in Nodes :
       \/ Start(n) \/ FileAnswers(n) \/ Place(n)
       \/ DocumentOpens(n) \/ SymbolsAnswer(n) \/ IndexAnswers(n) \/ TextAnswers(n)
       \/ ProbeFails(n) \/ ProbeTimesOut(n)
       \/ RefreshSkips(n) \/ RefreshAsks(n) \/ RefreshPlaces(n)
  \/ Reply \/ StartRefresh \/ Tick

(* Microtasks run, a stat returns, time passes and timers fire; no probe   *)
(* has to answer.                                                          *)
ResolveFairness ==
  /\ WF_resolveVars(Tick) /\ WF_resolveVars(Reply)
  /\ WF_resolveVars(\E n \in Nodes : Start(n) \/ FileAnswers(n) \/ Place(n))
  /\ WF_resolveVars(\E n \in Nodes : RefreshSkips(n) \/ RefreshAsks(n) \/ RefreshPlaces(n))
  /\ WF_resolveVars(\E n \in Nodes : ProbeTimesOut(n))

ResolveSpec == ResolveInit /\ [][ResolveNext]_resolveVars
ResolveFairSpec == ResolveSpec /\ ResolveFairness
-----------------------------------------------------------------------------
(* The tolerant descent finds what a path means and nothing else, and      *)
(* finds it once, by however many ways it comes by it: a symbol that is    *)
(* alone in being meant is placed, not offered for a pick.                 *)
MatchIsDescent ==
  \A segments \in Paths \ {<<>>} :
    LET hits == ExactHits(tree, segments) IN
    /\ ToSet(hits) = Meant(tree, segments)
    /\ Len(hits) = Cardinality(ToSet(hits))

Level(n) == 1 + Cardinality({m \in Nodes : Under(n, m)})

(* A wedged server costs a block four timeouts for each of its levels,     *)
(* however many nodes a level has.                                         *)
BoundedByLevels ==
  mode = "resolving" => \A n \in Nodes : now > 4 * Level(n) => phase[n] = "done"

(* A refresh of code that did not change, by a server that answers, leaves *)
(* every position the document's own symbols gave where it was, also one   *)
(* found under a name other than the drafted one.  A position the index    *)
(* gave is no such: the refresh asks the document first, which may report  *)
(* the symbol at other lines, or several of them.                          *)
RefreshKeepsUnchanged ==
  mode = "refreshed" /\ ~silent =>
    \A n \in Nodes :
      before[n].status = "ok" /\ before[n].hit # Indexed => location[n] = before[n]

(* A call is answered although the server never answers a probe of it. *)
EndsDespiteSilence ==
  /\ mode = "resolving" ~> mode = "resolved"
  /\ mode = "refreshing" ~> mode = "refreshed"
=============================================================================

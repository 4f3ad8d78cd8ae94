----------------------------- MODULE SymbolTree -----------------------------
(***************************************************************************)
(* How a drafted symbol is looked for among the symbols a language server  *)
(* reports for a document (src/codechain/resolve.ts).  A document's        *)
(* symbols are the sequence flattenSymbols walks: each with its name and   *)
(* its depth, parents first.                                               *)
(***************************************************************************)
EXTENDS Entries, FiniteSets, SequencesExt

CONSTANTS Names,   \* names a symbol may have
          Spelled, \* the segments symbolPath splits a name into
          MaxSymbols,
          MaxSegments

(* Names without a dot: what symbolPath makes a path of. *)
Segments == {n \in Names : Spelled[n] = <<n>>}
Paths == UNION {[1..n -> Segments] : n \in 0..MaxSegments}

(* A name is its segments joined.  One that is not, with a blank beside a  *)
(* dot, meets no path in the code, and stands here for any that meets none.*)
ASSUME NamesAssumption ==
  /\ Spelled \in [Names -> Paths \ {<<>>}]
  /\ \A m, n \in Names : Spelled[m] = Spelled[n] => m = n
  /\ {MaxSymbols, MaxSegments} \subseteq Nat

Forest ==
  UNION {{t \in [1..n -> [name : Names, depth : 0..(n - 1)]] :
            /\ n > 0 => t[1].depth = 0
            /\ \A i \in 1..(n - 1) : t[i + 1].depth <= t[i].depth + 1} :
         n \in 0..MaxSymbols}

(* Symbols in the order flattenSymbols walks them. *)
Walked(t, symbols) == EntriesAt([k \in 1..Len(t) |-> k], symbols)

(* The symbols under one of them. *)
Inside(t, i) == {j \in DOMAIN t : j > i /\ \A k \in (i + 1)..j : t[k].depth > t[i].depth}
Within(t, i) == Walked(t, Inside(t, i))

Children(t, i) == Walked(t, {j \in Inside(t, i) : t[j].depth = t[i].depth + 1})
Roots(t) == Walked(t, {j \in DOMAIN t : t[j].depth = 0})
-----------------------------------------------------------------------------
(* The hits of each of the symbols, one after the other. *)
HitsOf(symbols, hits) == FlattenSeq([k \in 1..Len(symbols) |-> hits[symbols[k]]])

(* A descent that trusts the provider's nesting: one level a segment. *)
MatchLevels(t, symbols, segments) ==
  LET n == Len(segments)
      hits[left \in 1..n] ==
        [i \in DOMAIN t |->
           IF t[i].name # segments[n + 1 - left] THEN <<>>
           ELSE IF left = 1 THEN <<i>> ELSE HitsOf(Children(t, i), hits[left - 1])]
  IN HitsOf(symbols, hits[n])

(* The hits of a path, as often as the descent comes by them, for the last *)
(* segments that are left: the next segment among the children, then       *)
(* anywhere in the subtree but its first.                                  *)
MatchSegments(t, symbols, segments) ==
  LET n == Len(segments)
      hits[left \in 1..n] ==
        [i \in DOMAIN t |->
           IF t[i].name # segments[n + 1 - left] THEN <<>>
           ELSE IF left = 1 THEN <<i>>
           ELSE LET within == Within(t, i) IN
                HitsOf(Children(t, i), hits[left - 1])
                  \o HitsOf(SubSeq(within, 2, Len(within)), hits[left - 1])]
  IN HitsOf(symbols, hits[n])

(* The fallback: the last segment, or the whole path as one name, anywhere.*)
MatchFuzzy(t, segments) ==
  Walked(t, {j \in DOMAIN t : t[j].name = Last(segments) \/ Spelled[t[j].name] = segments})

(* A hit's key, where it starts and its name, tells the symbols apart. *)
DedupeHits(hits) ==
  EntriesAt(hits, {k \in DOMAIN hits : \A j \in 1..(k - 1) : hits[j] # hits[k]})

ExactHits(t, segments) == DedupeHits(MatchSegments(t, Roots(t), segments))
FuzzyHits(t, segments) == DedupeHits(MatchFuzzy(t, segments))
-----------------------------------------------------------------------------
(* What a path stands for: a chain of symbols, each somewhere inside the   *)
(* one before it, that starts at the top of the document.                  *)
Meant(t, segments) ==
  {i \in DOMAIN t :
     \E chain \in [1..Len(segments) -> DOMAIN t] :
       /\ chain[Len(segments)] = i
       /\ t[chain[1]].depth = 0
       /\ \A k \in 1..Len(segments) : t[chain[k]].name = segments[k]
       /\ \A k \in 1..(Len(segments) - 1) : chain[k + 1] \in Inside(t, chain[k])}
=============================================================================

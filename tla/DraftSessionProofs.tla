------------------------- MODULE DraftSessionProofs -------------------------
(***************************************************************************)
(* For any number of sessions and turns: the thread that is open has a     *)
(* record to render, a config write the host refuses ran out of time, and  *)
(* the chat the webview shows is the host's once nothing of it is on the   *)
(* way.                                                                    *)
(***************************************************************************)
EXTENDS DraftSession, RecursionProofs, FiniteSetTheorems

Chats == Chat \cup {NoChat}

\* What travels: posts to the extension, frames of the host, messages to the webview.
Submissions == [s : Sessions, t : Turns, exit : BOOLEAN]

Posts == [m : {"view", "viewChat", "create", "config"}, s : Sessions]
           \cup [m : {"refresh"}, s : {NoThread}]
           \cup [m : {"turn"}, s : Sessions, t : Turns, exit : BOOLEAN]

Answers == [m : {"answer"}, leg : {"session", "chat"}, s : Sessions, ok : BOOLEAN,
            record : Records, chat : Chats]
Results == [m : {"result"}, s : Sessions, ok : BOOLEAN]
Notes == [m : {"added", "removed", "named"}, s : Sessions]
Registries == [m : {"models"}, some : BOOLEAN]
Acts == [m : {"act"}, s : Sessions, act : Actions]
RowPushes == [m : {"row"}, s : Sessions, record : Records]
ChatPushes == [m : {"chat"}, s : Sessions, chat : Chat]

Frames == Answers \cup Results \cup Notes \cup Registries \cup Acts
Messages == Results \cup Notes \cup Registries \cup Acts \cup RowPushes \cup ChatPushes

Webs ==
    [edges : [Keys -> {"none", "bare", "chat"}], creating : SUBSET Keys,
     echoes : [Keys -> SUBSET Turns], summaries : SUBSET Sessions,
     records : [Sessions -> Records], chats : [Sessions -> Chats],
     thread : [Keys -> {"none", "idle", "loading"}], active : Keys \cup {NoThread},
     models : BOOLEAN, picked : SUBSET Sessions, post : Seq(Posts)]

Clients ==
    [subs : SUBSET ({"session", "chat"} \X Sessions), records : [Sessions -> Records],
     chats : [Sessions -> Chats], rows : SUBSET Sessions, models : BOOLEAN]

\* Of a chat that is a pointer nobody is served, and only a pointer is to come.
Hosts ==
    {r \in [live : BOOLEAN, named : BOOLEAN, coming : BOOLEAN, served : BOOLEAN,
            parked : Seq(Turns), chose : BOOLEAN, chat : Chats] :
        /\ r.served => r.chat # NoChat
        /\ r.coming => r.chat = NoChat}

Walks == [id : Walkers, m : {"view", "viewChat"}, s : Sessions, at : {"session", "chat"},
          waits : {"answer", "pause"}, tries : Nat]

\* The state in the variables that messages change: the store, what is on its
\* way to it and from the host, the client, its walks, and the host.
Types(w, b, q, x, v, h) ==
    /\ w \in Webs /\ b \in Seq(Messages) /\ q \in Seq(Frames)
    /\ x \in Clients /\ IsFiniteSet(x.rows)
    /\ v \subseteq Walks
    /\ h \in [Sessions -> Hosts]

Ledgers ==
    /\ warm \in BOOLEAN
    /\ create \in [Sessions -> {"none", "asked", "made", "failed"}]
    /\ writer \in [Sessions -> {"none", "polls", "done", "late"}]
    /\ waiting \in Seq(Submissions)
    /\ heard \subseteq Sessions /\ refused \subseteq Sessions
-----------------------------------------------------------------------------
\* What the store keeps: a thread for every edge, an edge for the open thread.
Shown(w) ==
    /\ \A k \in Keys : w.edges[k] # "none" => w.thread[k] # "none"
    /\ w.active # NoThread => w.edges[w.active] # "none"

\* Nobody has heard of models before they are registered.
Cold(w, b, q, x) ==
    ~warm => /\ ~w.models /\ ~x.models
             /\ \A m \in ToSet(b) \cup ToSet(q) : m.m = "models" => ~m.some

\* A config write that is too early is late.
Writes(w) == \A m \in ToSet(w.post) : m.m = "config" => warm \/ writer[m.s] = "late"
Refusals == \A s \in refused : writer[s] = "late"

\* A message of this kind about session s.
Is(m, kind, s) == m.m = kind /\ m.s = s
Has(q, kind, s) == \E m \in ToSet(q) : Is(m, kind, s)
Once(q, kind, s) ==
    \A i, j \in DOMAIN q : Is(q[i], kind, s) /\ Is(q[j], kind, s) => i = j

\* Of a session the host has made nothing of.
Unborn(h, s) == ~h[s].live /\ h[s].chat = NoChat /\ ~h[s].coming

\* A session is asked for once, and answered once.
Asked(w, b, q, h, s) ==
    /\ Once(w.post, "create", s) /\ Once(q, "result", s) /\ Once(b, "result", s)
    /\ Has(w.post, "create", s) =>
         Unborn(h, s) /\ ~Has(q, "result", s) /\ ~Has(b, "result", s)
    /\ Has(q, "result", s) => ~Has(b, "result", s)
    /\ Has(w.post, "create", s) \/ Has(q, "result", s) \/ Has(b, "result", s)
         => create[s] = "asked" /\ writer[s] = "none"
    /\ create[s] = "none" => Unborn(h, s) /\ writer[s] = "none"

\* Of a session that is not made nobody knows but who asked for it.
Mentions(m, s) == m.m # "models" /\ m.s = s /\ ~(m.m = "result" /\ ~m.ok)

Unknown(w, b, q, x, v, s) ==
    /\ s \notin w.summaries /\ s \notin heard
    /\ s \notin x.rows /\ \A leg \in {"session", "chat"} : <<leg, s>> \notin x.subs
    /\ \A walk \in v : walk.s # s
    /\ \A m \in ToSet(w.post) : m.m \in {"view", "viewChat"} => m.s # s
    /\ \A m \in ToSet(q) \cup ToSet(b) : ~Mentions(m, s)

\* An answer that brings the chat of s, or does not find it, or an action on it.
Answering(m, s) == m.m = "answer" /\ m.leg = "chat" /\ m.s = s /\ m.ok
Refusing(m, s) == m.m = "answer" /\ m.leg = "chat" /\ m.s = s /\ ~m.ok
OfChat(m, s) == Answering(m, s) \/ Is(m, "act", s)

\* Nobody has a chat of s, and none is on its way.
Chatless(w, b, q, x, s) ==
    /\ x.chats[s] = NoChat /\ w.chats[s] = NoChat
    /\ \A m \in ToSet(q) \cup ToSet(b) :
         ~Is(m, "act", s) /\ ~Is(m, "chat", s) /\ ~Answering(m, s)

\* What the message makes of the chat of s.
Norm(c) == IF c = NoChat THEN EmptyChat ELSE c
After(c, m, s) ==
    IF Is(m, "act", s) THEN Reduce(c, m.act)
    ELSE IF Is(m, "chat", s) \/ Answering(m, s) THEN Norm(m.chat) ELSE c

\* The messages q make d of the chat c of s.
Leads(s, c, q, d) ==
    \E g : /\ g[0] = c /\ g[Len(q)] = d
           /\ \A i \in 1..Len(q) : g[i] = After(g[i - 1], q[i], s)

Subscribed(x, s) == <<"chat", s>> \in x.subs

\* Of a session that lives: an answer that brings its chat comes first, and
\* once, and before anything was pushed to the webview.
Serving(b, q, x, s) ==
    /\ \A m \in ToSet(q) \cup ToSet(b) : ~Is(m, "removed", s)
    /\ \A i \in DOMAIN q : Answering(q[i], s) =>
         x.chats[s] = NoChat /\ \A j \in DOMAIN q : j < i => ~OfChat(q[j], s)
    /\ x.chats[s] = NoChat => s \notin heard /\ ~Has(b, "chat", s)

\* The chat of s is asked for anew only when the last refusal has arrived.
Lone(q, s) == \A i, j \in DOMAIN q : Refusing(q[i], s) /\ Refusing(q[j], s) => i = j

\* The client holds a subscription from the moment the host serves it the chat,
\* and has nothing of the chat before.
Granted(q, x, h, s) ==
    /\ h[s].served => Subscribed(x, s) /\ \A m \in ToSet(q) : ~Refusing(m, s)
    /\ ~h[s].served => x.chats[s] = NoChat /\ \A m \in ToSet(q) : ~OfChat(m, s)
    /\ \A m \in ToSet(q) : Refusing(m, s) => Subscribed(x, s)
    /\ Lone(q, s)

\* What is on the way brings the client to the host, and the webview, once it
\* has or gets a snapshot, to the client.
Caught(q, x, h, s) ==
    /\ Granted(q, x, h, s)
    /\ \E d : Leads(s, Norm(x.chats[s]), q, d)
    /\ h[s].served => Leads(s, Norm(x.chats[s]), q, Norm(h[s].chat))

Fed(w, b, x, s) ==
    /\ \E d : Leads(s, Norm(w.chats[s]), b, d)
    /\ s \in heard \/ Has(b, "chat", s) => Leads(s, Norm(w.chats[s]), b, Norm(x.chats[s]))

Steady(w, b, q, x, v, h) ==
    /\ Types(w, b, q, x, v, h)
    /\ \A s \in Sessions :
         /\ Asked(w, b, q, h, s)
         /\ Unborn(h, s) => Unknown(w, b, q, x, v, s)
         /\ h[s].chat = NoChat => Chatless(w, b, q, x, s)
         /\ h[s].live => Serving(b, q, x, s) /\ Caught(q, x, h, s) /\ Fed(w, b, x, s)

Sound(w, b, q, x, v, h) == Steady(w, b, q, x, v, h) /\ Cold(w, b, q, x)

IInv ==
    /\ Sound(web, inbox, wire, ext, walks, host)
    /\ Ledgers /\ Refusals
    /\ Shown(web) /\ Writes(web)
-----------------------------------------------------------------------------
\* Sequences of messages.

LEMMA InSeq ==
    ASSUME NEW V, NEW q \in Seq(V)
    PROVE  ToSet(q) \subseteq V
<1>1. \A i \in DOMAIN q : q[i] \in V
  BY ElementOfSeq, LenProperties
<1>2. QED
  BY <1>1 DEF ToSet

LEMMA InAppend ==
    ASSUME NEW V, NEW q \in Seq(V), NEW e \in V
    PROVE  Append(q, e) \in Seq(V) /\ ToSet(Append(q, e)) = ToSet(q) \cup {e}
<1>1. /\ Append(q, e) \in Seq(V) /\ Len(q) \in Nat /\ DOMAIN q = 1..Len(q)
      /\ DOMAIN Append(q, e) = 1..(Len(q) + 1)
      /\ \A i \in 1..Len(q) : Append(q, e)[i] = q[i]
      /\ Append(q, e)[Len(q) + 1] = e
  BY AppendProperties, LenProperties
<1>2. 1..(Len(q) + 1) = 1..Len(q) \cup {Len(q) + 1}
  BY <1>1
<1>3. ToSet(Append(q, e)) = {Append(q, e)[i] : i \in 1..Len(q)} \cup {Append(q, e)[Len(q) + 1]}
  BY <1>1, <1>2, Zenon DEF ToSet
<1>4. {Append(q, e)[i] : i \in 1..Len(q)} = ToSet(q)
  BY <1>1 DEF ToSet
<1>5. QED
  BY <1>1, <1>3, <1>4

LEMMA InConcat ==
    ASSUME NEW V, NEW q \in Seq(V), NEW r \in Seq(V)
    PROVE  /\ q \o r \in Seq(V)
           /\ ToSet(q \o r) = ToSet(q) \cup ToSet(r)
<1> DEFINE c == q \o r
<1>1. /\ c \in Seq(V) /\ Len(q) \in Nat /\ Len(r) \in Nat
      /\ DOMAIN q = 1..Len(q) /\ DOMAIN r = 1..Len(r)
      /\ DOMAIN c = 1..(Len(q) + Len(r))
      /\ \A i \in 1..(Len(q) + Len(r)) : c[i] = IF i <= Len(q) THEN q[i] ELSE r[i - Len(q)]
  BY ConcatProperties, LenProperties
<1> HIDE DEF c
<1>2. ASSUME NEW i \in DOMAIN c
      PROVE  c[i] \in ToSet(q) \cup ToSet(r)
  <2>1. CASE i <= Len(q)
    <3>1. i \in DOMAIN q /\ c[i] = q[i]
      BY <1>1, <2>1
    <3>2. QED
      BY <3>1 DEF ToSet
  <2>2. CASE ~(i <= Len(q))
    <3>1. i - Len(q) \in DOMAIN r /\ c[i] = r[i - Len(q)]
      BY <1>1, <2>2
    <3>2. QED
      BY <3>1 DEF ToSet
  <2>3. QED
    BY <2>1, <2>2
<1>3. ASSUME NEW i \in DOMAIN q
      PROVE  q[i] \in ToSet(c)
  <2>1. i \in DOMAIN c /\ c[i] = q[i]
    BY <1>1
  <2>2. QED
    BY <2>1 DEF ToSet
<1>4. ASSUME NEW i \in DOMAIN r
      PROVE  r[i] \in ToSet(c)
  <2>1. /\ i + Len(q) \in 1..(Len(q) + Len(r)) /\ ~(i + Len(q) <= Len(q))
        /\ (i + Len(q)) - Len(q) = i
    BY <1>1
  <2>2. i + Len(q) \in DOMAIN c /\ c[i + Len(q)] = r[i]
    BY <1>1, <2>1, Zenon
  <2>3. QED
    BY <2>2 DEF ToSet
<1>5. QED
  BY <1>1, <1>2, <1>3, <1>4 DEF ToSet, c

LEMMA InTail ==
    ASSUME NEW V, NEW q \in Seq(V), q # <<>>
    PROVE  /\ Tail(q) \in Seq(V) /\ Head(q) \in V /\ Head(q) \in ToSet(q)
           /\ ToSet(q) = ToSet(Tail(q)) \cup {Head(q)}
<1> DEFINE h == <<Head(q)>>
<1>1. /\ Head(q) \in V /\ Tail(q) \in Seq(V) /\ q = h \o Tail(q)
  BY HeadTailProperties, EmptySeq
<1>2. h \in Seq(V) /\ ToSet(h) = {Head(q)}
  BY <1>1 DEF ToSet
<1> HIDE DEF h
<1>3. ToSet(h \o Tail(q)) = ToSet(h) \cup ToSet(Tail(q))
  <2>1. \A p \in Seq(V), r \in Seq(V) : ToSet(p \o r) = ToSet(p) \cup ToSet(r)
    BY InConcat
  <2>2. QED
    BY <1>1, <1>2, <2>1, Zenon
<1>4. ToSet(q) = ToSet(h) \cup ToSet(Tail(q))
  BY <1>1, <1>3, Zenon
<1>5. QED
  BY <1>1, <1>2, <1>4

\* The places of a queue that grows or shrinks.
LEMMA AtAppend ==
    ASSUME NEW V, NEW q \in Seq(V), NEW e \in V
    PROVE  /\ Len(q) \in Nat /\ DOMAIN q = 1..Len(q)
           /\ DOMAIN Append(q, e) = 1..(Len(q) + 1)
           /\ \A i \in 1..Len(q) : Append(q, e)[i] = q[i]
           /\ Append(q, e)[Len(q) + 1] = e
  BY AppendProperties, LenProperties

LEMMA AtTail ==
    ASSUME NEW V, NEW q \in Seq(V), q # <<>>
    PROVE  /\ DOMAIN q = 1..Len(q) /\ DOMAIN Tail(q) = 1..(Len(q) - 1)
           /\ Len(q) \in Nat \ {0} /\ Len(Tail(q)) = Len(q) - 1
           /\ \A i \in 1..(Len(q) - 1) : Tail(q)[i] = q[i + 1] /\ i + 1 \in DOMAIN q
           /\ Head(q) = q[1] /\ 1 \in DOMAIN q
<1>1. /\ Len(q) \in Nat \ {0} /\ Len(Tail(q)) = Len(q) - 1 /\ DOMAIN q = 1..Len(q)
      /\ \A i \in 1..(Len(q) - 1) : Tail(q)[i] = q[i + 1]
      /\ Head(q) = q[1] /\ Tail(q) \in Seq(V)
  BY HeadTailProperties, LenProperties, EmptySeq
<1>2. DOMAIN Tail(q) = 1..Len(Tail(q))
  BY <1>1, LenProperties
<1>3. QED
  BY <1>1, <1>2
-----------------------------------------------------------------------------
\* What the messages on the way make of a chat.

LEMMA LeadsFurther ==
    ASSUME NEW V, NEW q \in Seq(V), NEW m \in V, NEW s, NEW c, NEW d, Leads(s, c, q, d)
    PROVE  Leads(s, c, Append(q, m), After(d, m, s))
<1> DEFINE N == Len(q)
           z == After(d, m, s)
<1>1. PICK g : g[0] = c /\ g[N] = d /\ \A i \in 1..N : g[i] = After(g[i - 1], q[i], s)
  BY DEF Leads
<1> DEFINE h == [i \in 0..(N + 1) |-> IF i <= N THEN g[i] ELSE z]
<1>2. /\ N \in Nat /\ Len(Append(q, m)) = N + 1
      /\ \A i \in 1..N : Append(q, m)[i] = q[i]
      /\ Append(q, m)[N + 1] = m
  BY AppendProperties, LenProperties
<1> HIDE DEF N, z
<1>3. h[0] = c /\ h[N] = d /\ h[N + 1] = z
  BY <1>1, <1>2
<1>4. \A i \in 1..N : i \in 0..N /\ i - 1 \in 0..N
  BY <1>2
<1>5. \A i \in 0..N : h[i] = g[i]
  BY <1>2
<1> HIDE DEF h
<1>6. ASSUME NEW i \in 1..(N + 1)
      PROVE  h[i] = After(h[i - 1], Append(q, m)[i], s)
  <2>1. CASE i \in 1..N
    <3>1. h[i] = g[i] /\ h[i - 1] = g[i - 1] /\ Append(q, m)[i] = q[i]
      BY <1>2, <1>4, <1>5, <2>1
    <3>2. QED
      BY <1>1, <2>1, <3>1, Zenon
  <2>2. CASE i = N + 1
    <3>1. i - 1 = N
      BY <1>2, <2>2
    <3>2. h[i] = z /\ h[i - 1] = d /\ Append(q, m)[i] = m
      BY <1>2, <1>3, <2>2, <3>1
    <3>3. QED
      BY <3>2, Zenon DEF z
  <2>3. QED
    BY <1>2, <2>1, <2>2
<1>7. QED
  BY <1>2, <1>3, <1>6, Zenon DEF Leads, z

LEMMA LeadsOn ==
    ASSUME NEW V, NEW q \in Seq(V), q # <<>>, NEW s, NEW c, NEW d, Leads(s, c, q, d)
    PROVE  Leads(s, After(c, Head(q), s), Tail(q), d)
<1> DEFINE N == Len(q)
           h(g) == [i \in 0..(N - 1) |-> g[i + 1]]
<1>1. PICK g : g[0] = c /\ g[N] = d /\ \A i \in 1..N : g[i] = After(g[i - 1], q[i], s)
  BY DEF Leads
<1>2. /\ N \in Nat \ {0} /\ Len(Tail(q)) = N - 1
      /\ \A i \in 1..(N - 1) : Tail(q)[i] = q[i + 1]
      /\ Head(q) = q[1]
  BY HeadTailProperties, LenProperties, EmptySeq
<1> HIDE DEF N
<1>3. 1 \in 1..N /\ 1 - 1 = 0
  BY <1>2
<1>4. g[1] = After(c, Head(q), s)
  BY <1>1, <1>2, <1>3, Zenon
<1>5. h(g)[0] = g[1] /\ h(g)[N - 1] = d
  BY <1>1, <1>2
<1>6. \A i \in 0..(N - 1) : h(g)[i] = g[i + 1]
  OBVIOUS
<1> HIDE DEF h
<1>7. ASSUME NEW i \in 1..(N - 1)
      PROVE  h(g)[i] = After(h(g)[i - 1], Tail(q)[i], s)
  <2>1. i + 1 \in 1..N /\ (i + 1) - 1 = i /\ (i - 1) + 1 = i /\ i - 1 \in 0..(N - 1) /\ i \in 0..(N - 1)
    BY <1>2
  <2>2. h(g)[i] = g[i + 1] /\ h(g)[i - 1] = g[i]
    BY <1>6, <2>1
  <2>3. g[i + 1] = After(g[i], q[i + 1], s)
    BY <1>1, <2>1
  <2>4. QED
    BY <1>2, <2>2, <2>3, Zenon
<1>8. QED
  BY <1>2, <1>4, <1>5, <1>7, Zenon DEF Leads

\* Messages that bring no chat of s and no action on it leave it alone.
LEMMA LeadsNowhere ==
    ASSUME NEW V, NEW q \in Seq(V), NEW s, NEW c,
           \A m \in ToSet(q) : ~OfChat(m, s) /\ ~Is(m, "chat", s)
    PROVE  Leads(s, c, q, c)
<1> DEFINE g == [i \in 0..Len(q) |-> c]
<1>1. Len(q) \in Nat /\ DOMAIN q = 1..Len(q)
  BY LenProperties
<1>2. \A i \in 0..Len(q) : g[i] = c
  OBVIOUS
<1> HIDE DEF g
<1>3. ASSUME NEW i \in 1..Len(q)
      PROVE  g[i] = After(g[i - 1], q[i], s)
  <2>1. q[i] \in ToSet(q) /\ i \in 0..Len(q) /\ i - 1 \in 0..Len(q)
    BY <1>1 DEF ToSet
  <2>2. After(c, q[i], s) = c
    BY <2>1, Zenon DEF After, OfChat
  <2>3. QED
    BY <1>2, <2>1, <2>2, Zenon
<1>4. 0 \in 0..Len(q) /\ Len(q) \in 0..Len(q)
  BY <1>1
<1>5. QED
  BY <1>2, <1>3, <1>4, Zenon DEF Leads

LEMMA LeadsNot ==
    ASSUME NEW V, NEW q \in Seq(V), NEW s, NEW c, NEW d, Leads(s, c, q, d),
           \A m \in ToSet(q) : ~OfChat(m, s) /\ ~Is(m, "chat", s)
    PROVE  c = d
<1>1. PICK g : g[0] = c /\ g[Len(q)] = d /\ \A i \in 1..Len(q) : g[i] = After(g[i - 1], q[i], s)
  BY DEF Leads
<1> DEFINE T == {i \in 0..Len(q) : g[i] = c}
<1>2. Len(q) \in Nat /\ DOMAIN q = 1..Len(q)
  BY LenProperties
<1>3. ASSUME NEW i \in 1..Len(q)
      PROVE  g[i] = g[i - 1]
  <2>1. q[i] \in ToSet(q)
    BY <1>2 DEF ToSet
  <2>2. After(g[i - 1], q[i], s) = g[i - 1]
    BY <2>1, Zenon DEF After, OfChat
  <2>3. QED
    BY <1>1, <2>2
<1>4. 0 \in T
  BY <1>1, <1>2
<1>5. ASSUME NEW i \in 0..Len(q), i \in T, i + 1 <= Len(q)
      PROVE  i + 1 \in T
  <2>1. i + 1 \in 1..Len(q) /\ (i + 1) - 1 = i /\ i + 1 \in 0..Len(q)
    BY <1>2, <1>5
  <2>2. g[i + 1] = g[i]
    BY <1>3, <2>1
  <2>3. QED
    BY <1>5, <2>1, <2>2
<1> HIDE DEF T
<1>6. 0..Len(q) \subseteq T
  BY <1>2, <1>4, <1>5, Inductive
<1>7. Len(q) \in T
  BY <1>2, <1>6
<1>8. QED
  BY <1>1, <1>7 DEF T
-----------------------------------------------------------------------------
\* The store.

\* The thread that is open has an edge.
Edged(w) == w.active # NoThread => w.edges[w.active] # "none"

\* Two stores that differ in no field but these.
SameFolds(w, v) == v.chats = w.chats /\ v.models = w.models /\ v.summaries = w.summaries

LEMMA PublishedWeb ==
    ASSUME NEW w \in Webs, Edged(w)
    PROVE  /\ Published(w) \in Webs /\ Shown(Published(w))
           /\ SameFolds(w, Published(w)) /\ Published(w).post = w.post
<1> DEFINE f == [k \in Keys |-> IF w.edges[k] = "none" THEN "none"
                    ELSE IF w.thread[k] = "loading" /\ ~ChatShown(w, k) THEN "loading" ELSE "idle"]
           v == [w EXCEPT !.thread = f]
<1>1. f \in [Keys -> {"none", "idle", "loading"}]
  OBVIOUS
<1>2. \A k \in Keys : w.edges[k] # "none" => f[k] # "none"
  OBVIOUS
<1> HIDE DEF f
<1>3. v \in Webs /\ v.thread = f /\ v.edges = w.edges /\ v.active = w.active
      /\ v.chats = w.chats /\ v.models = w.models /\ v.summaries = w.summaries /\ v.post = w.post
  BY <1>1 DEF Webs
<1>4. Published(w) = v
  BY DEF Published, f
<1> HIDE DEF v
<1>5. QED
  BY <1>2, <1>3, <1>4 DEF Shown, Edged, SameFolds

LEMMA WithEdgeWeb ==
    ASSUME NEW w \in Webs, NEW k \in Keys
    PROVE  /\ WithEdge(w, k) \in Webs
           /\ WithEdge(w, k).edges[k] # "none"
           /\ \A j \in Keys : w.edges[j] # "none" => WithEdge(w, k).edges[j] # "none"
           /\ \A j \in Keys \ {k} : WithEdge(w, k).edges[j] = w.edges[j]
           /\ SameFolds(w, WithEdge(w, k))
           /\ WithEdge(w, k).post = w.post /\ WithEdge(w, k).active = w.active
           /\ WithEdge(w, k).thread = w.thread /\ WithEdge(w, k).records = w.records
           /\ Edged(w) => Edged(WithEdge(w, k))
<1> DEFINE e == IF w.edges[k] = "none" THEN "bare" ELSE w.edges[k]
           v == [w EXCEPT !.edges = [w.edges EXCEPT ![k] = e]]
<1>1. WithEdge(w, k) = v
  BY DEF WithEdge, Webs
<1>2. e \in {"bare", "chat"} /\ (w.edges[k] # "none" => e = w.edges[k])
  BY DEF Webs
<1> HIDE DEF e
<1>3. /\ v \in Webs /\ v.edges = [w.edges EXCEPT ![k] = e]
      /\ v.chats = w.chats /\ v.models = w.models /\ v.summaries = w.summaries /\ v.post = w.post
      /\ v.active = w.active /\ v.thread = w.thread /\ v.records = w.records
  BY <1>2 DEF Webs
<1> HIDE DEF v
<1>4. v.edges[k] = e /\ \A j \in Keys \ {k} : v.edges[j] = w.edges[j]
  BY <1>3 DEF Webs
<1>5. \A j \in Keys : w.edges[j] # "none" => v.edges[j] # "none"
  BY <1>2, <1>4
<1>6. Edged(w) => Edged(v)
  BY <1>3, <1>5 DEF Edged, Webs
<1>7. QED
  BY <1>1, <1>2, <1>3, <1>4, <1>5, <1>6 DEF SameFolds

LEMMA EchoUserWeb ==
    ASSUME NEW w \in Webs, Edged(w), NEW k \in Keys, NEW t \in Turns
    PROVE  /\ EchoUser(w, k, t) \in Webs /\ Shown(EchoUser(w, k, t))
           /\ SameFolds(w, EchoUser(w, k, t)) /\ EchoUser(w, k, t).post = w.post
<1> DEFINE v == [w EXCEPT !.echoes[k] = @ \cup {t}]
<1>1. /\ v \in Webs /\ v.edges = w.edges /\ v.active = w.active
      /\ v.chats = w.chats /\ v.models = w.models /\ v.summaries = w.summaries /\ v.post = w.post
  BY DEF Webs
<1>2. EchoUser(w, k, t) = Published(v)
  BY DEF EchoUser
<1> HIDE DEF v
<1>3. Edged(v)
  BY <1>1 DEF Edged
<1>4. QED
  BY <1>1, <1>2, <1>3, PublishedWeb DEF SameFolds

LEMMA LocalKey == \A s \in Sessions : Local[s] \in Keys /\ s \in Keys /\ Local[s] # s
BY StoreAssumption DEF Keys, Range

LEMMA DraftThreadWeb ==
    ASSUME NEW w \in Webs, Shown(w), NEW s \in Sessions, NEW t \in Turns
    PROVE  /\ DraftThread(w, s, t) \in Webs /\ Shown(DraftThread(w, s, t))
           /\ SameFolds(w, DraftThread(w, s, t)) /\ DraftThread(w, s, t).post = w.post
<1> DEFINE l == Local[s]
           u == WithEdge(w, l)
           v == [u EXCEPT !.creating = @ \cup {l}, !.active = l, !.thread[l] = "idle"]
<1>1. l \in Keys
  BY LocalKey
<1>2. DraftThread(w, s, t) = EchoUser(v, l, t)
  BY DEF DraftThread
<1> HIDE DEF l
<1>3. /\ u \in Webs /\ u.edges[l] # "none"
      /\ SameFolds(w, u) /\ u.post = w.post
  BY <1>1, WithEdgeWeb
<1> HIDE DEF u
<1>4. /\ v \in Webs /\ v.edges = u.edges /\ v.active = l
      /\ v.chats = u.chats /\ v.models = u.models /\ v.summaries = u.summaries /\ v.post = u.post
  BY <1>1, <1>3 DEF Webs
<1> HIDE DEF v
<1>5. Edged(v)
  BY <1>3, <1>4 DEF Edged
<1>6. QED
  BY <1>1, <1>2, <1>3, <1>4, <1>5, EchoUserWeb DEF SameFolds

LEMMA ConfirmDraftWeb ==
    ASSUME NEW w \in Webs, Shown(w), NEW s \in Sessions
    PROVE  /\ ConfirmDraft(w, s) \in Webs /\ Shown(ConfirmDraft(w, s))
           /\ SameFolds(w, ConfirmDraft(w, s)) /\ ConfirmDraft(w, s).post = w.post
<1> DEFINE l == Local[s]
<1>1. l \in Keys /\ s \in Keys /\ l # s
  BY LocalKey
<1>2. CASE w.edges[l] = "none"
  BY <1>2 DEF ConfirmDraft, SameFolds
<1>3. CASE w.edges[l] # "none"
  <2> DEFINE a == IF w.active = l THEN s ELSE w.active
             e == [w.edges EXCEPT ![s] = w.edges[l], ![l] = "none"]
             h == [w.thread EXCEPT ![s] = w.thread[l], ![l] = "none"]
             c == (w.creating \ {l}) \cup {s}
             v == [w EXCEPT !.edges = e, !.creating = c, !.thread = h, !.active = a]
  <2>1. ConfirmDraft(w, s) = v
    BY <1>3 DEF ConfirmDraft, Webs
  <2>2. /\ e \in [Keys -> {"none", "bare", "chat"}] /\ h \in [Keys -> {"none", "idle", "loading"}]
        /\ c \in SUBSET Keys /\ a \in Keys \cup {NoThread}
    BY <1>1 DEF Webs
  <2>3. /\ e[s] = w.edges[l] /\ e[l] = "none" /\ h[s] = w.thread[l]
        /\ \A k \in Keys : k # s /\ k # l => e[k] = w.edges[k] /\ h[k] = w.thread[k]
    BY <1>1 DEF Webs
  <2>4. a # NoThread => e[a] # "none"
    <3>1. CASE w.active = l
      BY <1>3, <2>3, <3>1
    <3>2. CASE w.active # l
      <4>1. a = w.active
        BY <3>2
      <4>2. CASE w.active = NoThread
        BY <4>1, <4>2
      <4>3. CASE w.active = s
        BY <1>3, <2>3, <4>1, <4>3
      <4>4. CASE w.active # NoThread /\ w.active # s
        <5>1. w.active \in Keys /\ w.edges[w.active] # "none"
          BY <4>4 DEF Shown, Webs
        <5>2. QED
          BY <2>3, <3>2, <4>1, <4>4, <5>1
      <4>5. QED
        BY <4>2, <4>3, <4>4
    <3>3. QED
      BY <3>1, <3>2
  <2>5. \A k \in Keys : e[k] # "none" => h[k] # "none"
    BY <1>1, <1>3, <2>3 DEF Shown
  <2> HIDE DEF a, e, h, c
  <2>6. /\ v \in Webs /\ v.edges = e /\ v.active = a /\ v.thread = h
        /\ v.chats = w.chats /\ v.models = w.models /\ v.summaries = w.summaries /\ v.post = w.post
    BY <2>2 DEF Webs
  <2> HIDE DEF v
  <2>7. QED
    BY <2>1, <2>4, <2>5, <2>6 DEF Shown, SameFolds
<1>4. QED
  BY <1>2, <1>3

LEMMA OpenRemoteWeb ==
    ASSUME NEW w \in Webs, Shown(w), NEW s \in Sessions
    PROVE  /\ OpenRemote(w, s) \in Webs /\ Shown(OpenRemote(w, s))
           /\ SameFolds(w, OpenRemote(w, s))
           /\ OpenRemote(w, s).post = Append(w.post, ViewMsg(s))
<1> DEFINE u == WithEdge(w, s)
           h == [u.thread EXCEPT ![s] = "loading"]
           p == Append(u.post, ViewMsg(s))
           v == [u EXCEPT !.active = s, !.thread = h, !.post = p]
<1>1. s \in Keys
  BY LocalKey
<1>2. /\ u \in Webs /\ u.edges[s] # "none" /\ SameFolds(w, u) /\ u.post = w.post
      /\ u.thread = w.thread /\ \A k \in Keys \ {s} : u.edges[k] = w.edges[k]
  BY <1>1, WithEdgeWeb
<1>3. OpenRemote(w, s) = v
  BY <1>2 DEF OpenRemote, Webs
<1> HIDE DEF u
<1>4. h \in [Keys -> {"none", "idle", "loading"}] /\ h[s] = "loading"
      /\ \A k \in Keys \ {s} : h[k] = u.thread[k]
  BY <1>1, <1>2 DEF Webs
<1>5. ViewMsg(s) \in Posts /\ u.post \in Seq(Posts)
  BY <1>2 DEF ViewMsg, Posts, Webs
<1>6. p \in Seq(Posts)
  BY <1>5, AppendProperties
<1> HIDE DEF h, p
<1>7. /\ v \in Webs /\ v.edges = u.edges /\ v.active = s /\ v.thread = h /\ v.post = p
      /\ v.chats = u.chats /\ v.models = u.models /\ v.summaries = u.summaries
  BY <1>1, <1>2, <1>4, <1>6 DEF Webs
<1> HIDE DEF v
<1>8. \A k \in Keys : u.edges[k] # "none" => h[k] # "none"
  BY <1>2, <1>4 DEF Shown
<1>9. QED
  BY <1>2, <1>3, <1>7, <1>8 DEF Shown, SameFolds, p

LEMMA PickModelWeb ==
    ASSUME NEW w \in Webs, Edged(w), NEW s \in Sessions
    PROVE  /\ PickModel(w, s) \in Webs /\ Shown(PickModel(w, s))
           /\ SameFolds(w, PickModel(w, s)) /\ PickModel(w, s).post = w.post
<1> DEFINE v == [w EXCEPT !.picked = @ \cup {s}]
<1>1. /\ v \in Webs /\ v.edges = w.edges /\ v.active = w.active
      /\ v.chats = w.chats /\ v.models = w.models /\ v.summaries = w.summaries /\ v.post = w.post
  BY DEF Webs
<1>2. PickModel(w, s) = Published(v)
  BY DEF PickModel
<1> HIDE DEF v
<1>3. Edged(v)
  BY <1>1 DEF Edged
<1>4. QED
  BY <1>1, <1>2, <1>3, PublishedWeb DEF SameFolds

LEMMA BackToListWeb ==
    ASSUME NEW w \in Webs, Shown(w)
    PROVE  /\ BackToList(w) \in Webs /\ Shown(BackToList(w))
           /\ SameFolds(w, BackToList(w)) /\ BackToList(w).post = w.post
<1> DEFINE v == [w EXCEPT !.active = NoThread]
<1>1. /\ v \in Webs /\ v.edges = w.edges /\ v.active = NoThread /\ v.thread = w.thread
      /\ v.chats = w.chats /\ v.models = w.models /\ v.summaries = w.summaries /\ v.post = w.post
  BY DEF Webs
<1>2. BackToList(w) = v
  BY DEF BackToList
<1> HIDE DEF v
<1>3. QED
  BY <1>1, <1>2 DEF Shown, SameFolds

\* Posting a message changes nothing else.
LEMMA PostWeb ==
    ASSUME NEW w \in Webs, NEW p \in Seq(Posts)
    PROVE  /\ [w EXCEPT !.post = p] \in Webs /\ SameFolds(w, [w EXCEPT !.post = p])
           /\ [w EXCEPT !.post = p].post = p
           /\ Shown(w) => Shown([w EXCEPT !.post = p])
<1> DEFINE v == [w EXCEPT !.post = p]
<1>1. /\ v \in Webs /\ v.edges = w.edges /\ v.active = w.active /\ v.thread = w.thread
      /\ v.chats = w.chats /\ v.models = w.models /\ v.summaries = w.summaries /\ v.post = p
  BY DEF Webs
<1> HIDE DEF v
<1>2. v \in Webs /\ SameFolds(w, v) /\ v.post = p /\ (Shown(w) => Shown(v))
  BY <1>1 DEF Shown, SameFolds
<1>3. QED
  BY <1>2 DEF v

LEMMA UpsertWeb ==
    ASSUME NEW w \in Webs, Edged(w), NEW s \in Sessions
    PROVE  /\ Upsert(w, s) \in Webs /\ Shown(Upsert(w, s))
           /\ Upsert(w, s).chats = w.chats /\ Upsert(w, s).models = w.models
           /\ Upsert(w, s).summaries = w.summaries \cup {s}
           /\ Upsert(w, s).post = w.post \/ Upsert(w, s).post = Append(w.post, ViewChatMsg(s))
<1> DEFINE new == w.records[s] = "named" /\ ~Known(w, s)
           u == WithEdge(w, s)
           e == [u.edges EXCEPT ![s] = IF new THEN "chat" ELSE u.edges[s]]
           p == IF new THEN Append(u.post, ViewChatMsg(s)) ELSE u.post
           c == u.creating \ {s}
           y == u.summaries \cup {s}
           v == [u EXCEPT !.summaries = y, !.edges = e, !.post = p, !.creating = c]
<1>1. s \in Keys
  BY LocalKey
<1>2. /\ u \in Webs /\ u.edges[s] # "none" /\ SameFolds(w, u) /\ u.post = w.post
      /\ u.active = w.active /\ Edged(u)
  BY <1>1, WithEdgeWeb
<1>3. Upsert(w, s) = Published(v)
  BY <1>2 DEF Upsert, Webs
<1> HIDE DEF u
<1>4. ViewChatMsg(s) \in Posts /\ u.post \in Seq(Posts)
  BY <1>2 DEF ViewChatMsg, Posts, Webs
<1>5. p \in Seq(Posts) /\ (p = w.post \/ p = Append(w.post, ViewChatMsg(s)))
  BY <1>2, <1>4, AppendProperties
<1>6. e \in [Keys -> {"none", "bare", "chat"}] /\ e[s] # "none"
      /\ \A k \in Keys \ {s} : e[k] = u.edges[k]
  BY <1>1, <1>2 DEF Webs
<1>7. c \in SUBSET Keys /\ y \in SUBSET Sessions
  BY <1>2 DEF Webs
<1> HIDE DEF p, e, c, new, y
<1>8. /\ v \in Webs /\ v.edges = e /\ v.active = u.active /\ v.post = p
      /\ v.chats = u.chats /\ v.models = u.models /\ v.summaries = y
  BY <1>2, <1>5, <1>6, <1>7 DEF Webs
<1> HIDE DEF v
<1>9. Edged(v)
  BY <1>2, <1>6, <1>8 DEF Edged, Webs
<1>10. /\ Published(v) \in Webs /\ Shown(Published(v)) /\ SameFolds(v, Published(v))
       /\ Published(v).post = v.post
  BY <1>8, <1>9, PublishedWeb
<1>11. y = w.summaries \cup {s}
  BY <1>2 DEF y, SameFolds
<1>12. QED
  BY <1>2, <1>3, <1>5, <1>8, <1>10, <1>11 DEF SameFolds

LEMMA SessionSnapshotWeb ==
    ASSUME NEW w \in Webs, Edged(w), NEW s \in Sessions, NEW r \in Records
    PROVE  LET v == SessionSnapshot(w, s, r) IN
           /\ v \in Webs /\ Shown(v) /\ v.chats = w.chats /\ v.models = w.models
           /\ v.summaries = w.summaries \cup {s}
           /\ v.post = w.post \/ v.post = Append(w.post, ViewChatMsg(s))
<1> DEFINE u == [w EXCEPT !.records[s] = r]
<1>1. /\ u \in Webs /\ u.edges = w.edges /\ u.active = w.active
      /\ u.chats = w.chats /\ u.models = w.models /\ u.summaries = w.summaries /\ u.post = w.post
  BY DEF Webs
<1>2. SessionSnapshot(w, s, r) = Upsert(u, s)
  BY DEF SessionSnapshot
<1> HIDE DEF u
<1>3. Edged(u)
  BY <1>1 DEF Edged
<1>4. QED
  BY <1>1, <1>2, <1>3, UpsertWeb

LEMMA ChatSnapshotWeb ==
    ASSUME NEW w \in Webs, Edged(w), NEW s \in Sessions, NEW c \in Chats
    PROVE  LET v == ChatSnapshot(w, s, c) IN
           /\ v \in Webs /\ Shown(v) /\ v.models = w.models /\ v.summaries = w.summaries
           /\ v.post = w.post /\ v.chats = [w.chats EXCEPT ![s] = c]
<1> DEFINE u == [w EXCEPT !.chats[s] = c]
<1>1. /\ u \in Webs /\ u.edges = w.edges /\ u.active = w.active /\ u.models = w.models
      /\ u.chats = [w.chats EXCEPT ![s] = c] /\ u.summaries = w.summaries /\ u.post = w.post
  BY DEF Webs
<1>2. ChatSnapshot(w, s, c) = Published(u)
  BY DEF ChatSnapshot
<1> HIDE DEF u
<1>3. Edged(u)
  BY <1>1 DEF Edged
<1>4. QED
  BY <1>1, <1>2, <1>3, PublishedWeb DEF SameFolds

LEMMA ModelsFoldedWeb ==
    ASSUME NEW w \in Webs, Edged(w), NEW some \in BOOLEAN
    PROVE  LET v == ModelsFolded(w, some) IN
           /\ v \in Webs /\ Shown(v) /\ v.models = some /\ v.summaries = w.summaries
           /\ v.post = w.post /\ v.chats = w.chats
<1> DEFINE u == [w EXCEPT !.models = some]
<1>1. /\ u \in Webs /\ u.edges = w.edges /\ u.active = w.active /\ u.models = some
      /\ u.chats = w.chats /\ u.summaries = w.summaries /\ u.post = w.post
  BY DEF Webs
<1>2. ModelsFolded(w, some) = Published(u)
  BY DEF ModelsFolded
<1> HIDE DEF u
<1>3. Edged(u)
  BY <1>1 DEF Edged
<1>4. QED
  BY <1>1, <1>2, <1>3, PublishedWeb DEF SameFolds

LEMMA ReduceType ==
    ASSUME NEW c \in Chat, NEW a \in Actions
    PROVE  Reduce(c, a) \in Chat
BY DEF Reduce, Ended, Running, Chat, Actions

LEMMA NormType ==
    /\ EmptyChat \in Chat
    /\ \A c \in Chats : Norm(c) \in Chat
    /\ \A c \in Chat : Norm(c) = c /\ c # NoChat
BY DraftAssumption DEF Norm, Chats, EmptyChat, Chat

LEMMA ChatActionWeb ==
    ASSUME NEW w \in Webs, Edged(w), NEW s \in Sessions, NEW a \in Actions
    PROVE  LET v == ChatAction(w, s, a) IN
           /\ v \in Webs /\ Shown(v) /\ v.models = w.models /\ v.summaries = w.summaries
           /\ v.post = w.post /\ v.chats = [w.chats EXCEPT ![s] = Reduce(Norm(w.chats[s]), a)]
<1> DEFINE r == Reduce(Norm(w.chats[s]), a)
           u == [w EXCEPT !.chats = [w.chats EXCEPT ![s] = r]]
           y == Retire(u, s)
<1>1. w.chats[s] \in Chats
  BY DEF Webs
<1>2. r \in Chats
  BY <1>1, NormType, ReduceType DEF Chats
<1>3. ChatAction(w, s, a) = Published(y)
  BY DEF ChatAction, Norm, Webs
<1> HIDE DEF r
<1>4. /\ u \in Webs /\ u.edges = w.edges /\ u.active = w.active /\ u.models = w.models
      /\ u.chats = [w.chats EXCEPT ![s] = r] /\ u.summaries = w.summaries /\ u.post = w.post
  BY <1>2 DEF Webs
<1> HIDE DEF u
<1>5. /\ y \in Webs /\ y.edges = u.edges /\ y.active = u.active /\ y.models = u.models
      /\ y.chats = u.chats /\ y.summaries = u.summaries /\ y.post = u.post
  <2> DEFINE e == {t \in u.echoes[s] : ~Carries(u.chats[s], t)}
             z == [u EXCEPT !.echoes[s] = e]
  <2>1. s \in Keys
    BY LocalKey
  <2>2. e \in SUBSET Turns
    BY <1>4, <2>1 DEF Webs
  <2> HIDE DEF e
  <2>3. /\ z \in Webs /\ z.edges = u.edges /\ z.active = u.active /\ z.models = u.models
        /\ z.chats = u.chats /\ z.summaries = u.summaries /\ z.post = u.post
    BY <1>4, <2>1, <2>2 DEF Webs
  <2>4. y = u \/ y = z
    BY <1>4 DEF Retire, e, Webs
  <2> HIDE DEF z, y
  <2>5. QED
    BY <1>4, <2>3, <2>4
<1> HIDE DEF y
<1>6. Edged(y)
  BY <1>4, <1>5 DEF Edged
<1>7. QED
  BY <1>3, <1>4, <1>5, <1>6, PublishedWeb DEF SameFolds, r

LEMMA DropWeb ==
    ASSUME NEW w \in Webs, Edged(w), NEW s \in Sessions
    PROVE  LET v == Drop(w, s) IN
           /\ v \in Webs /\ Shown(v) /\ v.models = w.models /\ v.summaries \subseteq w.summaries
           /\ v.post = w.post /\ \A r \in Sessions : v.chats[r] = w.chats[r] \/ (r = s /\ v.chats[r] = NoChat)
<1> DEFINE a == IF w.active = s THEN NoThread ELSE w.active
           e == [w.edges EXCEPT ![s] = "none"]
           f == [w.chats EXCEPT ![s] = IF Known(w, s) THEN NoChat ELSE w.chats[s]]
           r == [w.records EXCEPT ![s] = "none"]
           o == [w.echoes EXCEPT ![s] = {}]
           u == [w EXCEPT !.summaries = w.summaries \ {s}, !.records = r, !.chats = f,
                          !.echoes = o, !.picked = w.picked \ {s}, !.edges = e,
                          !.creating = w.creating \ {s}, !.active = a]
<1>1. s \in Keys
  BY LocalKey
<1>2. Drop(w, s) = Published(u)
  BY DEF Drop, Webs
<1>3. /\ a \in Keys \cup {NoThread} /\ e \in [Keys -> {"none", "bare", "chat"}]
      /\ r \in [Sessions -> Records] /\ o \in [Keys -> SUBSET Turns]
  BY <1>1 DEF Webs, Records
<1>4. f \in [Sessions -> Chats]
  BY DEF Webs, Chats
<1>5. \A k \in Sessions : f[k] = w.chats[k] \/ (k = s /\ f[k] = NoChat)
  BY DEF Webs
<1>6. a # NoThread => e[a] # "none"
  BY <1>1 DEF Edged, Webs
<1> HIDE DEF a, e, f, r, o
<1>7. /\ u \in Webs /\ u.edges = e /\ u.active = a /\ u.models = w.models
      /\ u.chats = f /\ u.summaries = w.summaries \ {s} /\ u.post = w.post
  BY <1>3, <1>4 DEF Webs
<1> HIDE DEF u
<1>8. Edged(u)
  BY <1>6, <1>7 DEF Edged
<1>9. QED
  BY <1>2, <1>5, <1>7, <1>8, PublishedWeb DEF SameFolds
-----------------------------------------------------------------------------
\* Messages of one kind about one session.

LEMMA OnceTail ==
    ASSUME NEW V, NEW q \in Seq(V), q # <<>>, NEW kind, NEW s, Once(q, kind, s)
    PROVE  /\ Once(Tail(q), kind, s)
           /\ Is(Head(q), kind, s) => ~Has(Tail(q), kind, s)
<1> DEFINE N == Len(q)
           r == Tail(q)
<1>1. /\ DOMAIN q = 1..N /\ DOMAIN r = 1..(N - 1) /\ N \in Nat \ {0}
      /\ \A i \in 1..(N - 1) : r[i] = q[i + 1] /\ i + 1 \in DOMAIN q
      /\ Head(q) = q[1] /\ 1 \in DOMAIN q
  BY AtTail
<1> HIDE DEF N, r
<1>2. Once(r, kind, s)
  <2> SUFFICES ASSUME NEW i \in DOMAIN r, NEW j \in DOMAIN r, Is(r[i], kind, s), Is(r[j], kind, s)
               PROVE  i = j
    BY DEF Once
  <2>1. i + 1 \in DOMAIN q /\ j + 1 \in DOMAIN q /\ r[i] = q[i + 1] /\ r[j] = q[j + 1]
    BY <1>1
  <2>2. i + 1 = j + 1
    BY <2>1, Zenon DEF Once
  <2>3. QED
    BY <1>1, <2>2
<1>3. ASSUME Is(Head(q), kind, s), Has(r, kind, s)
      PROVE  FALSE
  <2>1. PICK i \in DOMAIN r : Is(r[i], kind, s)
    BY <1>3 DEF Has, ToSet
  <2>2. i + 1 \in DOMAIN q /\ r[i] = q[i + 1]
    BY <1>1, <2>1
  <2>3. i + 1 = 1
    BY <1>1, <1>3, <2>1, <2>2, Zenon DEF Once
  <2>4. QED
    BY <1>1, <2>3
<1>4. QED
  BY <1>2, <1>3 DEF r

LEMMA OnceAppend ==
    ASSUME NEW V, NEW q \in Seq(V), NEW m \in V, NEW kind, NEW s, Once(q, kind, s),
           Is(m, kind, s) => ~Has(q, kind, s)
    PROVE  Once(Append(q, m), kind, s)
<1> DEFINE N == Len(q)
           r == Append(q, m)
<1>1. /\ DOMAIN q = 1..N /\ DOMAIN r = 1..(N + 1) /\ N \in Nat
      /\ \A i \in 1..N : r[i] = q[i]
      /\ r[N + 1] = m
  BY AtAppend
<1> HIDE DEF N, r
<1>2. ASSUME NEW i \in DOMAIN r, i # N + 1
      PROVE  i \in DOMAIN q /\ r[i] = q[i]
  BY <1>1, <1>2
<1>3. \A i \in DOMAIN q : q[i] \in ToSet(q)
  BY DEF ToSet
<1>4. ASSUME NEW i \in DOMAIN r, NEW j \in DOMAIN r, Is(r[i], kind, s), Is(r[j], kind, s)
      PROVE  i = j
  <2>1. CASE i = N + 1 /\ j = N + 1
    BY <2>1
  <2>2. CASE i # N + 1 /\ j # N + 1
    <3>1. i \in DOMAIN q /\ j \in DOMAIN q /\ Is(q[i], kind, s) /\ Is(q[j], kind, s)
      BY <1>2, <1>4, <2>2
    <3>2. QED
      BY <3>1, Zenon DEF Once
  <2>3. CASE i = N + 1 /\ j # N + 1
    BY <1>1, <1>2, <1>3, <1>4, <2>3, Zenon DEF Has
  <2>4. CASE i # N + 1 /\ j = N + 1
    BY <1>1, <1>2, <1>3, <1>4, <2>4, Zenon DEF Has
  <2>5. QED
    BY <2>1, <2>2, <2>3, <2>4
<1>5. QED
  BY <1>4 DEF Once, r

LEMMA OnceConcat ==
    ASSUME NEW V, NEW q \in Seq(V), NEW r \in Seq(V), NEW kind, NEW s, Once(q, kind, s),
           \A m \in ToSet(r) : ~Is(m, kind, s)
    PROVE  Once(q \o r, kind, s)
<1> DEFINE c == q \o r
<1>1. /\ Len(q) \in Nat /\ Len(r) \in Nat
      /\ DOMAIN q = 1..Len(q) /\ DOMAIN r = 1..Len(r)
      /\ DOMAIN c = 1..(Len(q) + Len(r))
      /\ \A i \in 1..(Len(q) + Len(r)) : c[i] = IF i <= Len(q) THEN q[i] ELSE r[i - Len(q)]
  BY ConcatProperties, LenProperties
<1> HIDE DEF c
<1>2. ASSUME NEW i \in DOMAIN c, Is(c[i], kind, s)
      PROVE  i \in DOMAIN q /\ Is(q[i], kind, s)
  <2>1. CASE i <= Len(q)
    <3>1. i \in DOMAIN q /\ c[i] = q[i]
      BY <1>1, <2>1
    <3>2. QED
      BY <1>2, <3>1
  <2>2. CASE ~(i <= Len(q))
    <3>1. i - Len(q) \in DOMAIN r /\ c[i] = r[i - Len(q)]
      BY <1>1, <2>2
    <3>2. QED
      BY <1>2, <3>1 DEF ToSet
  <2>3. QED
    BY <2>1, <2>2
<1>3. QED
  BY <1>2, Zenon DEF Once, c

\* Refusals.
LEMMA LoneTail ==
    ASSUME NEW V, NEW q \in Seq(V), q # <<>>, NEW s, Lone(q, s)
    PROVE  /\ Lone(Tail(q), s)
           /\ Refusing(Head(q), s) => \A m \in ToSet(Tail(q)) : ~Refusing(m, s)
<1> DEFINE N == Len(q)
           r == Tail(q)
<1>1. /\ DOMAIN q = 1..N /\ DOMAIN r = 1..(N - 1) /\ N \in Nat \ {0}
      /\ \A i \in 1..(N - 1) : r[i] = q[i + 1] /\ i + 1 \in DOMAIN q
      /\ Head(q) = q[1] /\ 1 \in DOMAIN q
  BY AtTail
<1> HIDE DEF N, r
<1>2. Lone(r, s)
  <2> SUFFICES ASSUME NEW i \in DOMAIN r, NEW j \in DOMAIN r, Refusing(r[i], s), Refusing(r[j], s)
               PROVE  i = j
    BY DEF Lone
  <2>1. i + 1 \in DOMAIN q /\ j + 1 \in DOMAIN q /\ r[i] = q[i + 1] /\ r[j] = q[j + 1]
    BY <1>1
  <2>2. i + 1 = j + 1
    BY <2>1, Zenon DEF Lone
  <2>3. QED
    BY <1>1, <2>2
<1>3. ASSUME Refusing(Head(q), s), NEW m \in ToSet(r), Refusing(m, s)
      PROVE  FALSE
  <2>1. PICK i \in DOMAIN r : Refusing(r[i], s)
    BY <1>3 DEF ToSet
  <2>2. i + 1 \in DOMAIN q /\ r[i] = q[i + 1]
    BY <1>1, <2>1
  <2>3. i + 1 = 1
    BY <1>1, <1>3, <2>1, <2>2, Zenon DEF Lone
  <2>4. QED
    BY <1>1, <2>3
<1>4. QED
  BY <1>2, <1>3 DEF r

LEMMA LoneAppend ==
    ASSUME NEW V, NEW q \in Seq(V), NEW m \in V, NEW s, Lone(q, s),
           Refusing(m, s) => \A o \in ToSet(q) : ~Refusing(o, s)
    PROVE  Lone(Append(q, m), s)
<1> DEFINE N == Len(q)
           r == Append(q, m)
<1>1. /\ DOMAIN q = 1..N /\ DOMAIN r = 1..(N + 1) /\ N \in Nat
      /\ \A i \in 1..N : r[i] = q[i]
      /\ r[N + 1] = m
  BY AtAppend
<1> HIDE DEF N, r
<1>2. ASSUME NEW i \in DOMAIN r, i # N + 1
      PROVE  i \in DOMAIN q /\ r[i] = q[i] /\ q[i] \in ToSet(q)
  BY <1>1, <1>2 DEF ToSet
<1>3. ASSUME NEW i \in DOMAIN r, NEW j \in DOMAIN r, Refusing(r[i], s), Refusing(r[j], s)
      PROVE  i = j
  <2>1. CASE i = N + 1 /\ j = N + 1
    BY <2>1
  <2>2. CASE i # N + 1 /\ j # N + 1
    <3>1. i \in DOMAIN q /\ j \in DOMAIN q /\ Refusing(q[i], s) /\ Refusing(q[j], s)
      BY <1>2, <1>3, <2>2
    <3>2. QED
      BY <3>1, Zenon DEF Lone
  <2>3. CASE i = N + 1 /\ j # N + 1
    BY <1>1, <1>2, <1>3, <2>3, Zenon
  <2>4. CASE i # N + 1 /\ j = N + 1
    BY <1>1, <1>2, <1>3, <2>4, Zenon
  <2>5. QED
    BY <2>1, <2>2, <2>3, <2>4
<1>4. QED
  BY <1>3 DEF Lone, r

\* A frame that is no answer, and no action on a chat nobody is served.
LEMMA GrantedAppend ==
    ASSUME NEW V, NEW q \in Seq(V), NEW m \in V, NEW x, NEW h, NEW s, Granted(q, x, h, s),
           ~Refusing(m, s), OfChat(m, s) => h[s].served
    PROVE  Granted(Append(q, m), x, h, s)
<1>1. ToSet(Append(q, m)) = ToSet(q) \cup {m}
  BY InAppend
<1>2. Lone(Append(q, m), s)
  BY LoneAppend DEF Granted
<1>3. QED
  BY <1>1, <1>2, Zenon DEF Granted

\* What the records of the protocol are, one kind at a time.
LEMMA FrameKinds ==
    /\ \A m \in Frames : /\ m.m \in {"answer", "result", "added", "removed", "named", "models", "act"}
                         /\ m.m = "answer" => m \in Answers
                         /\ m.m = "act" => m \in Acts
                         /\ m.m = "result" => m \in Results
                         /\ m.m = "models" => m.some \in BOOLEAN
                         /\ m.m # "answer" => m \in Messages
                         /\ m.m # "models" => m.s \in Sessions
    /\ \A m \in Messages : /\ m.m \in {"result", "added", "removed", "named", "models", "act", "row", "chat"}
                           /\ m.m = "act" => m \in Acts
                           /\ m.m = "result" => m \in Results
                           /\ m.m = "chat" => m \in ChatPushes
                           /\ m.m = "row" => m \in RowPushes
                           /\ m.m = "models" => m.some \in BOOLEAN
                           /\ m.m # "models" => m.s \in Sessions
BY DEF Frames, Messages, Answers, Results, Notes, Registries, Acts, RowPushes, ChatPushes

\* A message that the extension posts of its own accord.
LEMMA PushSound ==
    ASSUME NEW w, NEW b, NEW q, NEW x, NEW v, NEW h, Sound(w, b, q, x, v, h),
           NEW m \in Messages, m.m \in {"row", "chat", "models"},
           m.m = "models" => (m.some => warm),
           \A s \in Sessions : Mentions(m, s) => ~Unborn(h, s),
           \A s \in Sessions : Is(m, "chat", s) =>
             h[s].chat # NoChat /\ x.chats[s] # NoChat /\ Norm(m.chat) = Norm(x.chats[s])
    PROVE  Sound(w, Append(b, m), q, x, v, h)
<1> DEFINE c == Append(b, m)
<1>1. /\ b \in Seq(Messages) /\ c \in Seq(Messages) /\ ToSet(c) = ToSet(b) \cup {m}
  BY InAppend DEF Sound, Steady, Types
<1>2. ASSUME NEW s \in Sessions, NEW d, NEW e, Leads(s, d, b, e)
      PROVE  Leads(s, d, c, After(e, m, s))
  BY <1>1, <1>2, LeadsFurther
<1>3. ASSUME NEW s \in Sessions, Once(b, "result", s)
      PROVE  Once(c, "result", s)
  <2>1. ~Is(m, "result", s)
    BY DEF Is
  <2>2. QED
    BY <1>1, <1>3, <2>1, OnceAppend
<1> HIDE DEF c
<1>4. Types(w, c, q, x, v, h)
  BY <1>1 DEF Sound, Steady, Types
<1>5. Cold(w, c, q, x)
  BY <1>1 DEF Sound, Steady, Cold
<1>6. ASSUME NEW s \in Sessions
      PROVE  Asked(w, c, q, h, s)
  <2>1. Has(c, "result", s) <=> Has(b, "result", s)
    BY <1>1 DEF Has, Is
  <2>2. QED
    BY <1>3, <2>1 DEF Sound, Steady, Asked
<1>7. ASSUME NEW s \in Sessions, Unborn(h, s)
      PROVE  Unknown(w, c, q, x, v, s)
  BY <1>1, <1>7 DEF Sound, Steady, Unknown
<1>8. ASSUME NEW s \in Sessions, h[s].chat = NoChat
      PROVE  Chatless(w, c, q, x, s)
  <2>1. ~Is(m, "act", s) /\ ~Is(m, "chat", s) /\ ~Answering(m, s)
    BY <1>8 DEF Is, Answering
  <2>2. QED
    BY <1>1, <1>8, <2>1 DEF Sound, Steady, Chatless
<1>9. ASSUME NEW s \in Sessions, h[s].live
      PROVE  Serving(c, q, x, s) /\ Fed(w, c, x, s)
  <2>1. Serving(b, q, x, s) /\ Fed(w, b, x, s)
    BY <1>9 DEF Sound, Steady
  <2>2. ~Is(m, "removed", s)
    BY DEF Is
  <2>3. x.chats[s] = NoChat => ~Is(m, "chat", s)
    OBVIOUS
  <2>4. Serving(c, q, x, s)
    BY <1>1, <2>1, <2>2, <2>3 DEF Serving, Has
  <2>5. \A e : After(e, m, s) = e \/ (Is(m, "chat", s) /\ After(e, m, s) = Norm(x.chats[s]))
    BY DEF After, Is, Answering
  <2>6. \E e : Leads(s, Norm(w.chats[s]), c, e)
    BY <1>2, <2>1, Zenon DEF Fed
  <2>7. ASSUME s \in heard \/ Has(c, "chat", s)
        PROVE  Leads(s, Norm(w.chats[s]), c, Norm(x.chats[s]))
    <3>1. CASE Is(m, "chat", s)
      <4>1. PICK e : Leads(s, Norm(w.chats[s]), b, e)
        BY <2>1 DEF Fed
      <4>2. After(e, m, s) = Norm(x.chats[s])
        BY <3>1 DEF After, Is
      <4>3. QED
        BY <1>2, <4>1, <4>2
    <3>2. CASE ~Is(m, "chat", s)
      <4>1. s \in heard \/ Has(b, "chat", s)
        BY <1>1, <2>7, <3>2 DEF Has
      <4>2. Leads(s, Norm(w.chats[s]), b, Norm(x.chats[s]))
        BY <2>1, <4>1 DEF Fed
      <4>3. After(Norm(x.chats[s]), m, s) = Norm(x.chats[s])
        BY <2>5
      <4>4. QED
        BY <1>2, <4>2, <4>3
    <3>3. QED
      BY <3>1, <3>2
  <2>8. QED
    BY <2>4, <2>6, <2>7 DEF Fed
<1>10. QED
  BY <1>4, <1>5, <1>6, <1>7, <1>8, <1>9 DEF Sound, Steady, c

\* The client y after it took frame m as x, and what it leaves the webview.
Relayed(m, b, c, x, y) ==
    /\ m.m # "answer"
    /\ c = Append(b, m) \/ (c = b /\ m.m = "models")
    /\ y \in Clients /\ IsFiniteSet(y.rows) /\ y.subs = x.subs
    /\ \A s \in y.rows : s \in x.rows \/ Mentions(m, s)
    /\ y.models = x.models \/ (m.m = "models" /\ y.models = m.some)
    /\ \A s \in Sessions : /\ Is(m, "act", s) => y.chats[s] = Reduce(Norm(x.chats[s]), m.act)
                           /\ ~Is(m, "act", s) => y.chats[s] = x.chats[s]

\* The client takes a frame that is no answer, folds it, and relays it; only
\* the note of a populated registry may miss the webview.
LEMMA RelaySound ==
    ASSUME NEW w, NEW b, NEW q, NEW x, NEW v, NEW h, Sound(w, b, q, x, v, h), q # <<>>,
           NEW c, NEW y, Relayed(Head(q), b, c, x, y)
    PROVE  Sound(w, c, Tail(q), y, v, h)
<1> DEFINE m == Head(q)
           r == Tail(q)
<1> SUFFICES ASSUME m.m # "answer",
                    c = Append(b, m) \/ (c = b /\ m.m = "models"),
                    y \in Clients, IsFiniteSet(y.rows), y.subs = x.subs,
                    \A s \in y.rows : s \in x.rows \/ Mentions(m, s),
                    y.models = x.models \/ (m.m = "models" /\ y.models = m.some),
                    \A s \in Sessions :
                      /\ Is(m, "act", s) => y.chats[s] = Reduce(Norm(x.chats[s]), m.act)
                      /\ ~Is(m, "act", s) => y.chats[s] = x.chats[s]
             PROVE  Sound(w, c, r, y, v, h)
  BY DEF Relayed
<1>1. /\ q \in Seq(Frames) /\ r \in Seq(Frames) /\ m \in Frames /\ m \in ToSet(q)
      /\ ToSet(q) = ToSet(r) \cup {m}
  BY InTail DEF Sound, Steady, Types
<1>2. m \in Messages /\ m.m \in {"result", "added", "removed", "named", "models", "act"}
  BY <1>1, FrameKinds
<1>3. /\ b \in Seq(Messages) /\ c \in Seq(Messages)
      /\ ToSet(c) = ToSet(b) \cup {m} \/ (ToSet(c) = ToSet(b) /\ m.m = "models")
  <2>1. b \in Seq(Messages)
    BY DEF Sound, Steady, Types
  <2>2. Append(b, m) \in Seq(Messages) /\ ToSet(Append(b, m)) = ToSet(b) \cup {m}
    BY <1>2, <2>1, InAppend
  <2>3. c = Append(b, m) \/ (c = b /\ m.m = "models")
    OBVIOUS
  <2> HIDE DEF m
  <2>4. QED
    BY <2>1, <2>2, <2>3
<1>4. ASSUME NEW s \in Sessions, NEW d, NEW e, Leads(s, d, b, e)
      PROVE  Leads(s, d, c, After(e, m, s))
  <2>1. CASE c = Append(b, m)
    BY <1>2, <1>3, <1>4, <2>1, LeadsFurther
  <2>2. CASE c = b /\ m.m = "models"
    <3>1. After(e, m, s) = e
      BY <2>2 DEF After, Is, Answering
    <3>2. QED
      BY <1>4, <2>2, <3>1
  <2>3. QED
    BY <2>1, <2>2
<1>5. ASSUME NEW s \in Sessions, NEW d, NEW e, Leads(s, d, q, e)
      PROVE  Leads(s, After(d, m, s), r, e)
  BY <1>1, <1>5, LeadsOn
<1>6. ASSUME NEW s \in Sessions, Once(q, "result", s)
      PROVE  Once(r, "result", s) /\ (Is(m, "result", s) => ~Has(r, "result", s))
  BY <1>1, <1>6, OnceTail
<1>7. ASSUME NEW s \in Sessions, Once(b, "result", s), Is(m, "result", s) => ~Has(b, "result", s)
      PROVE  Once(c, "result", s)
  <2>1. CASE c = Append(b, m)
    BY <1>2, <1>3, <1>7, <2>1, OnceAppend
  <2>2. QED
    BY <1>7, <2>1
<1>8. ASSUME NEW s \in Sessions,
             \A i \in DOMAIN q : Answering(q[i], s) => \A j \in DOMAIN q : j < i => ~OfChat(q[j], s)
      PROVE  /\ \A i \in DOMAIN r : Answering(r[i], s) =>
                  \A j \in DOMAIN r : j < i => ~OfChat(r[j], s)
             /\ Is(m, "act", s) => \A i \in DOMAIN r : ~Answering(r[i], s)
  <2>1. /\ DOMAIN q = 1..Len(q) /\ DOMAIN r = 1..(Len(q) - 1) /\ Len(q) \in Nat \ {0}
        /\ \A i \in 1..(Len(q) - 1) : r[i] = q[i + 1] /\ i + 1 \in DOMAIN q
        /\ m = q[1] /\ 1 \in DOMAIN q
    BY <1>1, AtTail
  <2>2. ASSUME NEW i \in DOMAIN r, Answering(r[i], s), NEW j \in DOMAIN r, j < i
        PROVE  ~OfChat(r[j], s)
    <3>1. /\ i + 1 \in DOMAIN q /\ j + 1 \in DOMAIN q /\ j + 1 < i + 1
          /\ r[i] = q[i + 1] /\ r[j] = q[j + 1]
      BY <2>1, <2>2
    <3>2. QED
      BY <1>8, <2>2, <3>1
  <2>3. ASSUME Is(m, "act", s), NEW i \in DOMAIN r
        PROVE  ~Answering(r[i], s)
    <3>1. i + 1 \in DOMAIN q /\ 1 < i + 1 /\ r[i] = q[i + 1]
      BY <2>1
    <3>2. OfChat(q[1], s)
      BY <2>1, <2>3 DEF OfChat
    <3>3. QED
      BY <1>8, <2>1, <3>1, <3>2
  <2>4. QED
    BY <2>2, <2>3
<1>9. \A i \in DOMAIN r : r[i] \in ToSet(r)
  BY DEF ToSet
<1> HIDE DEF m, r
<1>10. \A s \in Sessions : x.chats[s] \in Chats /\ y.chats[s] \in Chats
  BY DEF Sound, Steady, Types, Clients
<1>11. \A s \in Sessions : Norm(y.chats[s]) = After(Norm(x.chats[s]), m, s)
                           /\ (Is(m, "act", s) => y.chats[s] # NoChat)
  <2> SUFFICES ASSUME NEW s \in Sessions
               PROVE  Norm(y.chats[s]) = After(Norm(x.chats[s]), m, s)
                      /\ (Is(m, "act", s) => y.chats[s] # NoChat)
    OBVIOUS
  <2>1. CASE Is(m, "act", s)
    <3>1. m.act \in Actions
      BY <1>1, <2>1, FrameKinds DEF Is, Acts
    <3>2. y.chats[s] = Reduce(Norm(x.chats[s]), m.act) /\ Norm(x.chats[s]) \in Chat
      BY <1>10, <2>1, NormType DEF m
    <3>3. y.chats[s] \in Chat
      BY <3>1, <3>2, ReduceType
    <3>4. After(Norm(x.chats[s]), m, s) = y.chats[s]
      BY <2>1, <3>2 DEF After
    <3>5. QED
      BY <3>3, <3>4, NormType
  <2>2. CASE ~Is(m, "act", s)
    <3>1. y.chats[s] = x.chats[s]
      BY <2>2 DEF m
    <3>2. After(Norm(x.chats[s]), m, s) = Norm(x.chats[s])
      BY <1>2, <2>2 DEF After, Is, Answering
    <3>3. QED
      BY <2>2, <3>1, <3>2
  <2>3. QED
    BY <2>1, <2>2
<1>12. Types(w, c, r, y, v, h)
  BY <1>1, <1>3 DEF Sound, Steady, Types
<1>13. Cold(w, c, r, y)
  BY <1>1, <1>3 DEF Sound, Steady, Cold, m
<1>14. ASSUME NEW s \in Sessions
       PROVE  Asked(w, c, r, h, s)
  <2>1. Asked(w, b, q, h, s)
    BY DEF Sound, Steady
  <2>2. Has(q, "result", s) <=> Has(r, "result", s) \/ Is(m, "result", s)
    BY <1>1 DEF Has
  <2>3. Has(c, "result", s) <=> Has(b, "result", s) \/ Is(m, "result", s)
    BY <1>3 DEF Has, Is
  <2>4. Once(r, "result", s) /\ (Is(m, "result", s) => ~Has(r, "result", s))
    BY <1>6, <2>1 DEF Asked
  <2>5. Once(c, "result", s)
    BY <1>7, <2>1, <2>2 DEF Asked
  <2>6. QED
    BY <2>1, <2>2, <2>3, <2>4, <2>5 DEF Asked
<1>15. ASSUME NEW s \in Sessions, Unborn(h, s)
       PROVE  Unknown(w, c, r, y, v, s)
  <2>1. Unknown(w, b, q, x, v, s)
    BY <1>15 DEF Sound, Steady
  <2>2. ~Mentions(m, s)
    BY <1>1, <2>1 DEF Unknown
  <2>3. s \notin y.rows
    BY <2>1, <2>2 DEF Unknown, m
  <2>4. QED
    BY <1>1, <1>3, <2>1, <2>2, <2>3 DEF Unknown
<1>16. ASSUME NEW s \in Sessions, h[s].chat = NoChat
       PROVE  Chatless(w, c, r, y, s)
  <2>1. Chatless(w, b, q, x, s)
    BY <1>16 DEF Sound, Steady
  <2>2. ~Is(m, "act", s)
    BY <1>1, <2>1 DEF Chatless
  <2>3. y.chats[s] = NoChat
    BY <2>1, <2>2 DEF Chatless, m
  <2>4. QED
    BY <1>1, <1>3, <2>1, <2>3 DEF Chatless
<1>17. ASSUME NEW s \in Sessions, h[s].live
       PROVE  Serving(c, r, y, s) /\ Caught(r, y, h, s) /\ Fed(w, c, y, s)
  <2>1. Serving(b, q, x, s) /\ Caught(q, x, h, s) /\ Fed(w, b, x, s)
    BY <1>17 DEF Sound, Steady
  <2>2. \A o \in ToSet(r) \cup ToSet(c) : o \in ToSet(q) \cup ToSet(b)
    BY <1>1, <1>3
  <2>3. Is(m, "act", s) => \A i \in DOMAIN r : ~Answering(r[i], s)
    BY <1>8, <2>1 DEF Serving
  <2>4. \A i \in DOMAIN r : Answering(r[i], s) => \A j \in DOMAIN r : j < i => ~OfChat(r[j], s)
    BY <1>8, <2>1 DEF Serving
  <2>5. ~Is(m, "act", s) => y.chats[s] = x.chats[s]
    BY DEF m
  <2>6. \A i \in DOMAIN r : Answering(r[i], s) => y.chats[s] = NoChat
    <3> SUFFICES ASSUME NEW i \in DOMAIN r, Answering(r[i], s)
                 PROVE  y.chats[s] = NoChat
      OBVIOUS
    <3>1. r[i] \in ToSet(q)
      BY <1>1, <1>9
    <3>2. \E j \in DOMAIN q : q[j] = r[i]
      BY <3>1 DEF ToSet
    <3>3. x.chats[s] = NoChat
      BY <2>1, <3>2 DEF Serving
    <3>4. QED
      BY <2>3, <2>5, <3>3
  <2>7. Granted(r, y, h, s)
    <3>1. Granted(q, x, h, s) /\ (Subscribed(y, s) <=> Subscribed(x, s))
      BY <2>1 DEF Caught, Subscribed
    <3>2. ~h[s].served => y.chats[s] = NoChat /\ \A o \in ToSet(r) : ~OfChat(o, s)
      <4> SUFFICES ASSUME ~h[s].served
                   PROVE  y.chats[s] = NoChat /\ \A o \in ToSet(r) : ~OfChat(o, s)
        OBVIOUS
      <4>1. x.chats[s] = NoChat /\ \A o \in ToSet(q) : ~OfChat(o, s)
        BY <3>1 DEF Granted
      <4>2. ~Is(m, "act", s)
        BY <1>1, <4>1 DEF OfChat
      <4>3. QED
        BY <1>1, <2>5, <4>1, <4>2
    <3>3. Lone(r, s)
      BY <1>1, <3>1, LoneTail DEF Granted, r
    <3>4. QED
      BY <1>1, <3>1, <3>2, <3>3 DEF Granted
  <2>8. y.chats[s] = NoChat => s \notin heard /\ ~Has(c, "chat", s)
    <3> SUFFICES ASSUME y.chats[s] = NoChat
                 PROVE  s \notin heard /\ ~Has(c, "chat", s)
      OBVIOUS
    <3>1. x.chats[s] = NoChat
      BY <1>11, <2>5
    <3>2. s \notin heard /\ ~Has(b, "chat", s)
      BY <2>1, <3>1 DEF Serving
    <3>3. ~Is(m, "chat", s)
      BY <1>2 DEF Is
    <3>4. QED
      BY <1>3, <3>2, <3>3 DEF Has
  <2>9. Serving(c, r, y, s)
    BY <1>1, <2>1, <2>2, <2>4, <2>6, <2>8 DEF Serving
  <2>10. Caught(r, y, h, s)
    BY <1>5, <1>11, <2>1, <2>7 DEF Caught
  <2>11. Fed(w, c, y, s)
    <3>1. Has(c, "chat", s) => Has(b, "chat", s)
      BY <1>2, <1>3 DEF Has, Is
    <3>2. \E d : Leads(s, Norm(w.chats[s]), c, d)
      BY <1>4, <2>1 DEF Fed
    <3>3. QED
      BY <1>4, <1>11, <2>1, <3>1, <3>2 DEF Fed
  <2>12. QED
    BY <2>9, <2>10, <2>11
<1>18. QED
  BY <1>12, <1>13, <1>14, <1>15, <1>16, <1>17 DEF Sound, Steady, r

\* The answer to a subscription lands, and one walk less awaits one.
LEMMA LandSound ==
    ASSUME NEW w, NEW b, NEW q, NEW x, NEW v, NEW h, Sound(w, b, q, x, v, h), q # <<>>,
           Head(q).m = "answer",
           NEW u, u \subseteq Walks, \A walk \in u : \E z \in v : walk.s = z.s,
           NEW y \in Clients, IsFiniteSet(y.rows), y.models = x.models,
           y.subs = x.subs \/ (~Head(q).ok /\ y.subs = x.subs \ {<<Head(q).leg, Head(q).s>>}),
           \A s \in y.rows : s \in x.rows \/ s = Head(q).s,
           \A s \in Sessions : y.chats[s] = IF Answering(Head(q), s)
                                            THEN Head(q).chat ELSE x.chats[s]
    PROVE  Sound(w, b, Tail(q), y, u, h)
<1> DEFINE m == Head(q)
           r == Tail(q)
<1>1. /\ q \in Seq(Frames) /\ r \in Seq(Frames) /\ m \in Frames /\ m \in ToSet(q)
      /\ ToSet(q) = ToSet(r) \cup {m}
  BY InTail DEF Sound, Steady, Types
<1>2. m \in Answers
  BY <1>1, FrameKinds
<1>3. ASSUME NEW s \in Sessions, NEW d, NEW e, Leads(s, d, q, e)
      PROVE  Leads(s, After(d, m, s), r, e)
  BY <1>1, <1>3, LeadsOn
<1>4. ASSUME NEW s \in Sessions, Once(q, "result", s)
      PROVE  Once(r, "result", s)
  BY <1>1, <1>4, OnceTail
<1>5. /\ DOMAIN q = 1..Len(q) /\ DOMAIN r = 1..(Len(q) - 1) /\ Len(q) \in Nat \ {0}
      /\ \A i \in 1..(Len(q) - 1) : r[i] = q[i + 1] /\ i + 1 \in DOMAIN q
      /\ m = q[1] /\ 1 \in DOMAIN q
  BY <1>1, AtTail
<1>6. ASSUME NEW s \in Sessions,
             \A i \in DOMAIN q : Answering(q[i], s) => \A j \in DOMAIN q : j < i => ~OfChat(q[j], s)
      PROVE  /\ \A i \in DOMAIN r : Answering(r[i], s) =>
                  \A j \in DOMAIN r : j < i => ~OfChat(r[j], s)
             /\ Answering(m, s) => \A i \in DOMAIN r : ~Answering(r[i], s)
  <2>1. ASSUME NEW i \in DOMAIN r, Answering(r[i], s), NEW j \in DOMAIN r, j < i
        PROVE  ~OfChat(r[j], s)
    <3>1. /\ i + 1 \in DOMAIN q /\ j + 1 \in DOMAIN q /\ j + 1 < i + 1
          /\ r[i] = q[i + 1] /\ r[j] = q[j + 1]
      BY <1>5, <2>1
    <3>2. QED
      BY <1>6, <2>1, <3>1
  <2>2. ASSUME Answering(m, s), NEW i \in DOMAIN r
        PROVE  ~Answering(r[i], s)
    <3>1. i + 1 \in DOMAIN q /\ 1 < i + 1 /\ r[i] = q[i + 1]
      BY <1>5
    <3>2. OfChat(q[1], s)
      BY <1>5, <2>2 DEF OfChat
    <3>3. QED
      BY <1>5, <1>6, <3>1, <3>2
  <2>3. QED
    BY <2>1, <2>2
<1>7. \A i \in DOMAIN r : r[i] \in ToSet(r)
  BY DEF ToSet
<1>8. \A s \in Sessions : y.chats[s] = IF Answering(m, s) THEN m.chat ELSE x.chats[s]
  OBVIOUS
<1>9. y.subs = x.subs \/ (~m.ok /\ y.subs = x.subs \ {<<m.leg, m.s>>})
  OBVIOUS
<1>10. \A s \in y.rows : s \in x.rows \/ s = m.s
  OBVIOUS
<1> HIDE DEF m, r
<1>11. Types(w, b, r, y, u, h)
  BY <1>1 DEF Sound, Steady, Types
<1>12. Cold(w, b, r, y)
  BY <1>1 DEF Sound, Steady, Cold
<1>13. ASSUME NEW s \in Sessions
       PROVE  Asked(w, b, r, h, s)
  <2>1. Has(r, "result", s) <=> Has(q, "result", s)
    BY <1>1, <1>2 DEF Has, Is, Answers
  <2>2. QED
    BY <1>4, <2>1 DEF Sound, Steady, Asked
<1>14. ASSUME NEW s \in Sessions, Unborn(h, s)
       PROVE  Unknown(w, b, r, y, u, s)
  <2>1. Unknown(w, b, q, x, v, s)
    BY <1>14 DEF Sound, Steady
  <2>2. ~Mentions(m, s)
    BY <1>1, <2>1 DEF Unknown
  <2>3. m.s # s
    BY <1>2, <2>2 DEF Mentions, Answers
  <2>4. s \notin y.rows /\ y.subs \subseteq x.subs
    BY <1>9, <1>10, <2>1, <2>3 DEF Unknown
  <2>5. \A walk \in u : walk.s # s
    BY <2>1 DEF Unknown
  <2>6. QED
    BY <1>1, <2>1, <2>4, <2>5 DEF Unknown
<1>15. ASSUME NEW s \in Sessions, h[s].chat = NoChat
       PROVE  Chatless(w, b, r, y, s)
  <2>1. Chatless(w, b, q, x, s)
    BY <1>15 DEF Sound, Steady
  <2>2. y.chats[s] = NoChat
    BY <1>1, <1>8, <2>1 DEF Chatless
  <2>3. QED
    BY <1>1, <2>1, <2>2 DEF Chatless
<1>16. ASSUME NEW s \in Sessions, h[s].live
       PROVE  Serving(b, r, y, s) /\ Caught(r, y, h, s) /\ Fed(w, b, y, s)
  <2>1. Serving(b, q, x, s) /\ Caught(q, x, h, s) /\ Fed(w, b, x, s)
    BY <1>16 DEF Sound, Steady
  <2>2. Granted(q, x, h, s)
    BY <2>1 DEF Caught
  <2>3. Refusing(m, s) \/ (Subscribed(y, s) <=> Subscribed(x, s))
    <3>1. m.leg = "chat" /\ m.s = s /\ ~m.ok => Refusing(m, s)
      BY <1>2 DEF Refusing, Answers
    <3>2. QED
      BY <1>9, <3>1 DEF Subscribed
  <2>4. ~Is(m, "act", s) /\ ~Is(m, "chat", s)
    BY <1>2 DEF Is, Answers
  <2>5. Answering(m, s) => x.chats[s] = NoChat /\ \A i \in DOMAIN r : ~Answering(r[i], s)
    BY <1>5, <1>6, <2>1 DEF Serving
  <2>6. \A i \in DOMAIN r : Answering(r[i], s) =>
          y.chats[s] = NoChat /\ \A j \in DOMAIN r : j < i => ~OfChat(r[j], s)
    <3> SUFFICES ASSUME NEW i \in DOMAIN r, Answering(r[i], s)
                 PROVE  y.chats[s] = NoChat /\ \A j \in DOMAIN r : j < i => ~OfChat(r[j], s)
      OBVIOUS
    <3>1. \E j \in DOMAIN q : q[j] = r[i]
      BY <1>5
    <3>2. x.chats[s] = NoChat
      BY <2>1, <3>1 DEF Serving
    <3>3. y.chats[s] = NoChat
      BY <1>8, <2>5, <3>2
    <3>4. \A j \in DOMAIN r : j < i => ~OfChat(r[j], s)
      BY <1>6, <2>1 DEF Serving
    <3>5. QED
      BY <3>3, <3>4
  <2>7. Granted(r, y, h, s)
    <3>1. ~h[s].served => y.chats[s] = NoChat /\ \A o \in ToSet(r) : ~OfChat(o, s)
      <4> SUFFICES ASSUME ~h[s].served
                   PROVE  y.chats[s] = NoChat /\ \A o \in ToSet(r) : ~OfChat(o, s)
        OBVIOUS
      <4>1. x.chats[s] = NoChat /\ \A o \in ToSet(q) : ~OfChat(o, s)
        BY <2>2 DEF Granted
      <4>2. ~Answering(m, s)
        BY <1>1, <4>1 DEF OfChat
      <4>3. QED
        BY <1>1, <1>8, <4>1, <4>2
    <3>2. Lone(r, s) /\ (Refusing(m, s) => \A o \in ToSet(r) : ~Refusing(o, s))
      BY <1>1, <2>2, LoneTail DEF Granted, m, r
    <3>3. h[s].served => Subscribed(y, s) /\ \A o \in ToSet(r) : ~Refusing(o, s)
      BY <1>1, <2>2, <2>3 DEF Granted
    <3>4. \A o \in ToSet(r) : Refusing(o, s) => Subscribed(y, s)
      BY <1>1, <2>2, <2>3, <3>2 DEF Granted
    <3>5. QED
      BY <3>1, <3>2, <3>3, <3>4 DEF Granted
  <2>8. y.chats[s] = NoChat \/ Answering(m, s) => s \notin heard /\ ~Has(b, "chat", s)
    <3> SUFFICES ASSUME y.chats[s] = NoChat \/ Answering(m, s)
                 PROVE  s \notin heard /\ ~Has(b, "chat", s)
      OBVIOUS
    <3>1. x.chats[s] = NoChat
      BY <1>8, <2>5
    <3>2. QED
      BY <2>1, <3>1 DEF Serving
  <2>9. Serving(b, r, y, s)
    BY <1>1, <2>1, <2>6, <2>8 DEF Serving
  <2>10. After(Norm(x.chats[s]), m, s) = Norm(y.chats[s])
    BY <1>8, <2>4, Zenon DEF After
  <2>11. Caught(r, y, h, s)
    BY <1>3, <2>1, <2>7, <2>10 DEF Caught
  <2>12. Fed(w, b, y, s)
    <3>1. CASE Answering(m, s)
      BY <2>1, <2>8, <3>1 DEF Fed
    <3>2. CASE ~Answering(m, s)
      BY <1>8, <2>1, <3>2 DEF Fed
    <3>3. QED
      BY <3>1, <3>2
  <2>13. QED
    BY <2>9, <2>11, <2>12
<1>17. QED
  BY <1>11, <1>12, <1>13, <1>14, <1>15, <1>16 DEF Sound, Steady, r

\* What a subscription to channel leg of session s changes: the host answers with
\* what it has and serves the chat it found, and no other session is touched.
Joins(q, x, v, h, s, leg, g, y, u, k, found, rec) ==
    /\ s \in Sessions /\ ~Unborn(h, s)
    /\ leg \in {"session", "chat"} /\ <<leg, s>> \notin x.subs
    /\ found \in BOOLEAN /\ rec \in Records
    /\ found => h[s].live
    /\ leg = "chat" => (found <=> h[s].live /\ h[s].chat # NoChat)
    /\ g = Append(q, AnswerFrame(leg, s, found, rec, h[s].chat))
    /\ u \subseteq Walks /\ \A walk \in u : walk \in v \/ walk.s = s
    /\ y \in Clients /\ y.rows = x.rows /\ y.models = x.models /\ y.chats = x.chats
    /\ y.subs = x.subs \cup {<<leg, s>>}
    /\ k \in [Sessions -> Hosts]
    /\ \A o \in Sessions :
         /\ k[o].live = h[o].live /\ k[o].chat = h[o].chat
         /\ Unborn(k, o) <=> Unborn(h, o)
         /\ k[o].served <=> h[o].served \/ (o = s /\ leg = "chat" /\ found)

LEMMA SubscribeSound ==
    ASSUME NEW w, NEW b, NEW q, NEW x, NEW v, NEW h, Sound(w, b, q, x, v, h),
           NEW s, NEW leg, NEW found, NEW rec, NEW g, NEW y, NEW u, NEW k,
           Joins(q, x, v, h, s, leg, g, y, u, k, found, rec)
    PROVE  Sound(w, b, g, y, u, k)
<1> USE DEF Joins
<1> DEFINE m == AnswerFrame(leg, s, found, rec, h[s].chat)
           r == Append(q, m)
<1>1. h[s].live \in BOOLEAN /\ h[s].chat \in Chats
  BY DEF Sound, Steady, Types, Hosts
<1>2. /\ m \in Answers /\ m.m = "answer" /\ m.leg = leg /\ m.s = s /\ m.ok = found
      /\ m.chat = h[s].chat
  BY <1>1 DEF AnswerFrame, Answers
<1>3. m \in Frames
  BY <1>2 DEF Frames
<1> HIDE DEF m
<1>4. /\ q \in Seq(Frames) /\ r \in Seq(Frames) /\ ToSet(r) = ToSet(q) \cup {m}
  BY <1>3, InAppend DEF Sound, Steady, Types
<1>5. ASSUME NEW o \in Sessions, NEW d, NEW e, Leads(o, d, q, e)
      PROVE  Leads(o, d, r, After(e, m, o))
  BY <1>3, <1>4, <1>5, LeadsFurther
<1>6. ASSUME NEW o \in Sessions, Once(q, "result", o)
      PROVE  Once(r, "result", o)
  <2>1. ~Is(m, "result", o)
    BY <1>2 DEF Is
  <2>2. QED
    BY <1>3, <1>4, <1>6, <2>1, OnceAppend
<1>7. /\ DOMAIN q = 1..Len(q) /\ DOMAIN r = 1..(Len(q) + 1) /\ Len(q) \in Nat
      /\ \A i \in 1..Len(q) : r[i] = q[i]
      /\ r[Len(q) + 1] = m
  BY <1>3, <1>4, AtAppend
<1> HIDE DEF r
<1>8. Types(w, b, r, y, u, k)
  BY <1>4 DEF Sound, Steady, Types
<1>9. Cold(w, b, r, y)
  BY <1>2, <1>4 DEF Sound, Steady, Cold
<1>10. ASSUME NEW o \in Sessions
       PROVE  Asked(w, b, r, k, o)
  <2>1. Has(r, "result", o) <=> Has(q, "result", o)
    BY <1>2, <1>4 DEF Has, Is
  <2>2. QED
    BY <1>6, <2>1 DEF Sound, Steady, Asked
<1>11. ASSUME NEW o \in Sessions, Unborn(k, o)
       PROVE  Unknown(w, b, r, y, u, o)
  <2>1. Unknown(w, b, q, x, v, o)
    BY <1>11 DEF Sound, Steady
  <2>2. o # s
    BY <1>11
  <2>3. ~Mentions(m, o)
    BY <1>2, <2>2 DEF Mentions
  <2>4. \A l : <<l, o>> \in y.subs => <<l, o>> \in x.subs
    BY <2>2
  <2>5. QED
    BY <1>4, <2>1, <2>2, <2>3, <2>4 DEF Unknown
<1>12. ASSUME NEW o \in Sessions, k[o].chat = NoChat
       PROVE  Chatless(w, b, r, y, o)
  <2>1. h[o].chat = NoChat
    BY <1>12
  <2>2. ~Is(m, "act", o) /\ ~Is(m, "chat", o) /\ ~Answering(m, o)
    BY <1>2, <2>1 DEF Is, Answering
  <2>3. QED
    BY <1>4, <2>1, <2>2 DEF Sound, Steady, Chatless
<1>13. ASSUME NEW o \in Sessions, k[o].live
       PROVE  Serving(b, r, y, o) /\ Caught(r, y, k, o) /\ Fed(w, b, y, o)
  <2>1. /\ Serving(b, q, x, o) /\ Caught(q, x, h, o) /\ Fed(w, b, x, o) /\ Granted(q, x, h, o)
        /\ k[o].chat = h[o].chat /\ h[o].live
    BY <1>13 DEF Sound, Steady, Caught
  <2>2. ~Is(m, "act", o) /\ ~Is(m, "chat", o) /\ ~Is(m, "removed", o)
    BY <1>2 DEF Is
  <2>3. Answering(m, o) \/ Refusing(m, o) =>
          o = s /\ leg = "chat" /\ ~Subscribed(x, o) /\ ~h[o].served /\ x.chats[o] = NoChat
          /\ \A f \in ToSet(q) : ~OfChat(f, o) /\ ~Refusing(f, o)
    <3> SUFFICES ASSUME Answering(m, o) \/ Refusing(m, o)
                 PROVE  o = s /\ leg = "chat" /\ ~Subscribed(x, o) /\ ~h[o].served
                        /\ x.chats[o] = NoChat
                        /\ \A f \in ToSet(q) : ~OfChat(f, o) /\ ~Refusing(f, o)
      OBVIOUS
    <3>1. o = s /\ leg = "chat"
      BY <1>2 DEF Answering, Refusing
    <3>2. ~Subscribed(x, o)
      BY <3>1 DEF Subscribed
    <3>3. QED
      BY <2>1, <3>1, <3>2 DEF Granted
  <2>4. /\ Subscribed(y, o) <=> Subscribed(x, o) \/ Answering(m, o) \/ Refusing(m, o)
        /\ k[o].served <=> h[o].served \/ Answering(m, o)
    <3>1. leg = "chat" /\ o = s <=> Answering(m, o) \/ Refusing(m, o)
      BY <1>2 DEF Answering, Refusing
    <3>2. leg = "chat" /\ o = s /\ found <=> Answering(m, o)
      BY <1>2 DEF Answering
    <3>3. Subscribed(y, o) <=> Subscribed(x, o) \/ (leg = "chat" /\ o = s)
      BY DEF Subscribed
    <3>4. QED
      BY <3>1, <3>2, <3>3
  <2>5. ASSUME NEW i \in DOMAIN r, Answering(r[i], o)
        PROVE  x.chats[o] = NoChat /\ \A j \in DOMAIN r : j < i => ~OfChat(r[j], o)
    <3>1. CASE i = Len(q) + 1
      <4>1. Answering(m, o)
        BY <1>7, <2>5, <3>1
      <4>2. \A j \in DOMAIN r : j < i => r[j] \in ToSet(q)
        BY <1>7, <3>1 DEF ToSet
      <4>3. QED
        BY <2>3, <4>1, <4>2
    <3>2. CASE i # Len(q) + 1
      <4>1. i \in DOMAIN q /\ r[i] = q[i]
        BY <1>7, <3>2
      <4>2. \A j \in DOMAIN r : j < i => j \in DOMAIN q /\ r[j] = q[j]
        BY <1>7, <4>1
      <4>3. QED
        BY <2>1, <2>5, <4>1, <4>2 DEF Serving
    <3>3. QED
      BY <3>1, <3>2
  <2>6. Granted(r, y, k, o)
    <3>1. Lone(r, o)
      <4>1. Refusing(m, o) => \A f \in ToSet(q) : ~Refusing(f, o)
        BY <2>3
      <4>2. QED
        BY <1>3, <1>4, <2>1, <4>1, LoneAppend DEF Granted, r
    <3>2. k[o].served => Subscribed(y, o) /\ \A f \in ToSet(r) : ~Refusing(f, o)
      <4>1. Answering(m, o) => ~Refusing(m, o)
        BY DEF Answering, Refusing
      <4>2. QED
        BY <1>4, <2>1, <2>3, <2>4, <4>1 DEF Granted
    <3>3. ~k[o].served => y.chats[o] = NoChat /\ \A f \in ToSet(r) : ~OfChat(f, o)
      BY <1>4, <2>1, <2>2, <2>4 DEF Granted, OfChat
    <3>4. \A f \in ToSet(r) : Refusing(f, o) => Subscribed(y, o)
      BY <1>4, <2>1, <2>4 DEF Granted
    <3>5. QED
      BY <3>1, <3>2, <3>3, <3>4 DEF Granted
  <2>7. Serving(b, r, y, o)
    BY <1>4, <2>1, <2>2, <2>5 DEF Serving
  <2>8. \E d : Leads(o, Norm(y.chats[o]), r, d)
    BY <1>5, <2>1 DEF Caught
  <2>9. k[o].served => Leads(o, Norm(y.chats[o]), r, Norm(k[o].chat))
    <3>1. CASE Answering(m, o)
      <4>1. PICK d : Leads(o, Norm(x.chats[o]), q, d)
        BY <2>1 DEF Caught
      <4>2. o = s
        BY <1>2, <3>1 DEF Answering
      <4>3. After(d, m, o) = Norm(k[o].chat)
        BY <1>2, <2>1, <2>2, <3>1, <4>2 DEF After
      <4>4. QED
        BY <1>5, <4>1, <4>3
    <3>2. CASE ~Answering(m, o)
      <4>1. After(Norm(h[o].chat), m, o) = Norm(h[o].chat)
        BY <2>2, <3>2 DEF After
      <4>2. QED
        BY <1>5, <2>1, <2>4, <3>2, <4>1 DEF Caught
    <3>3. QED
      BY <3>1, <3>2
  <2>10. Fed(w, b, y, o)
    BY <2>1 DEF Fed
  <2>11. QED
    BY <2>6, <2>7, <2>8, <2>9, <2>10 DEF Caught
<1>14. QED
  BY <1>8, <1>9, <1>10, <1>11, <1>12, <1>13 DEF Sound, Steady, r, m

\* Messages that bring nothing of a chat.
LEMMA LeadsPast ==
    ASSUME NEW V, NEW q \in Seq(V), NEW p \in Seq(V), NEW s, NEW c, NEW d, Leads(s, c, q, d),
           \A m \in ToSet(p) : ~OfChat(m, s) /\ ~Is(m, "chat", s)
    PROVE  Leads(s, c, q \o p, d)
<1> DEFINE r == q \o p
           N == Len(q)
           M == Len(p)
<1>1. /\ N \in Nat /\ M \in Nat /\ Len(r) = N + M
      /\ \A i \in 1..N : r[i] = q[i]
      /\ \A i \in 1..(N + M) : ~(i <= N) => r[i] \in ToSet(p)
  <2>1. /\ N \in Nat /\ M \in Nat /\ Len(r) = N + M /\ DOMAIN p = 1..M
        /\ \A i \in 1..(N + M) : r[i] = IF i <= N THEN q[i] ELSE p[i - N]
    BY ConcatProperties, LenProperties
  <2> HIDE DEF r, N, M
  <2>2. \A i \in 1..N : i \in 1..(N + M) /\ i <= N
    BY <2>1
  <2>3. \A i \in 1..(N + M) : ~(i <= N) => i - N \in DOMAIN p
    BY <2>1
  <2>4. \A i \in 1..(N + M) : ~(i <= N) => r[i] \in ToSet(p)
    BY <2>1, <2>3 DEF ToSet
  <2>5. QED
    BY <2>1, <2>2, <2>4
<1>2. PICK g : g[0] = c /\ g[N] = d /\ \A i \in 1..N : g[i] = After(g[i - 1], q[i], s)
  BY DEF Leads
<1> DEFINE h == [i \in 0..(N + M) |-> IF i <= N THEN g[i] ELSE d]
<1> HIDE DEF r, N, M
<1>3. \A i \in 0..N : h[i] = g[i]
  BY <1>1
<1>4. \A i \in 0..(N + M) : N <= i => h[i] = d
  BY <1>1, <1>2
<1>5. 0 \in 0..N /\ N + M \in 0..(N + M) /\ N <= N + M
  BY <1>1
<1> HIDE DEF h
<1>6. ASSUME NEW i \in 1..(N + M)
      PROVE  h[i] = After(h[i - 1], r[i], s)
  <2>1. CASE i <= N
    <3>1. i \in 1..N /\ i \in 0..N /\ i - 1 \in 0..N
      BY <1>1, <2>1
    <3>2. h[i] = g[i] /\ h[i - 1] = g[i - 1] /\ r[i] = q[i]
      BY <1>1, <1>3, <3>1
    <3>3. QED
      BY <1>2, <3>1, <3>2, Zenon
  <2>2. CASE ~(i <= N)
    <3>1. i \in 0..(N + M) /\ i - 1 \in 0..(N + M) /\ N <= i /\ N <= i - 1
      BY <1>1, <2>2
    <3>2. h[i] = d /\ h[i - 1] = d
      BY <1>4, <3>1
    <3>3. r[i] \in ToSet(p)
      BY <1>1, <2>2
    <3>4. After(d, r[i], s) = d
      BY <3>3, Zenon DEF After, OfChat
    <3>5. QED
      BY <3>2, <3>4
  <2>3. QED
    BY <2>1, <2>2
<1>7. h[0] = c /\ h[N + M] = d
  BY <1>2, <1>3, <1>4, <1>5
<1>8. QED
  BY <1>1, <1>6, <1>7, Zenon DEF Leads, r

\* The extension posts rows and the registry, as a batch.
LEMMA BatchSound ==
    ASSUME NEW w, NEW b, NEW q, NEW x, NEW v, NEW h, Sound(w, b, q, x, v, h),
           NEW p \in Seq(Messages),
           \A m \in ToSet(p) : /\ m.m \in {"row", "models"}
                               /\ m.m = "models" => (m.some => warm)
                               /\ \A s \in Sessions : Mentions(m, s) => ~Unborn(h, s)
    PROVE  Sound(w, b \o p, q, x, v, h)
<1> DEFINE c == b \o p
<1>1. /\ b \in Seq(Messages) /\ c \in Seq(Messages) /\ ToSet(c) = ToSet(b) \cup ToSet(p)
  BY InConcat DEF Sound, Steady, Types
<1>2. \A m \in ToSet(p), s \in Sessions :
        /\ ~Is(m, "act", s) /\ ~Is(m, "chat", s) /\ ~Is(m, "removed", s) /\ ~Is(m, "result", s)
        /\ ~Answering(m, s) /\ ~OfChat(m, s)
  BY DEF Is, Answering, OfChat
<1>3. ASSUME NEW s \in Sessions, NEW d, NEW e, Leads(s, d, b, e)
      PROVE  Leads(s, d, c, e)
  BY <1>1, <1>2, <1>3, LeadsPast
<1>4. ASSUME NEW s \in Sessions, Once(b, "result", s)
      PROVE  Once(c, "result", s)
  BY <1>1, <1>2, <1>4, OnceConcat
<1> HIDE DEF c
<1>5. Types(w, c, q, x, v, h)
  BY <1>1 DEF Sound, Steady, Types
<1>6. Cold(w, c, q, x)
  BY <1>1 DEF Sound, Steady, Cold
<1>7. ASSUME NEW s \in Sessions
      PROVE  Asked(w, c, q, h, s)
  <2>1. Has(c, "result", s) <=> Has(b, "result", s)
    BY <1>1, <1>2 DEF Has
  <2>2. QED
    BY <1>4, <2>1 DEF Sound, Steady, Asked
<1>8. ASSUME NEW s \in Sessions, Unborn(h, s)
      PROVE  Unknown(w, c, q, x, v, s)
  BY <1>1, <1>8 DEF Sound, Steady, Unknown
<1>9. ASSUME NEW s \in Sessions, h[s].chat = NoChat
      PROVE  Chatless(w, c, q, x, s)
  BY <1>1, <1>2, <1>9 DEF Sound, Steady, Chatless
<1>10. ASSUME NEW s \in Sessions, h[s].live
       PROVE  Serving(c, q, x, s) /\ Fed(w, c, x, s)
  <2>1. Serving(b, q, x, s) /\ Fed(w, b, x, s)
    BY <1>10 DEF Sound, Steady
  <2>2. Has(c, "chat", s) <=> Has(b, "chat", s)
    BY <1>1, <1>2 DEF Has
  <2>3. Serving(c, q, x, s)
    BY <1>1, <1>2, <2>1, <2>2 DEF Serving
  <2>4. Fed(w, c, x, s)
    BY <1>3, <2>1, <2>2 DEF Fed
  <2>5. QED
    BY <2>3, <2>4
<1>11. QED
  BY <1>5, <1>6, <1>7, <1>8, <1>9, <1>10 DEF Sound, Steady, c

\* The host changes, but no chat that the client is served.
LEMMA HostSound ==
    ASSUME NEW w, NEW b, NEW q, NEW x, NEW v, NEW h, Sound(w, b, q, x, v, h),
           NEW k \in [Sessions -> Hosts],
           \A s \in Sessions : /\ k[s].live => h[s].live
                               /\ Unborn(k, s) <=> Unborn(h, s)
                               /\ k[s].chat = NoChat => h[s].chat = NoChat
                               /\ k[s].served = h[s].served
                               /\ h[s].served => Norm(k[s].chat) = Norm(h[s].chat)
    PROVE  Sound(w, b, q, x, v, k)
<1>1. Types(w, b, q, x, v, k)
  BY DEF Sound, Steady, Types
<1>2. \A s \in Sessions : Asked(w, b, q, k, s)
  BY DEF Sound, Steady, Asked
<1>3. \A s \in Sessions : k[s].live => Caught(q, x, k, s)
  BY DEF Sound, Steady, Caught, Granted
<1>4. QED
  BY <1>1, <1>2, <1>3 DEF Sound, Steady

\* The host sends a note.
LEMMA NoteSteady ==
    ASSUME NEW w, NEW b, NEW q, NEW x, NEW v, NEW h, Steady(w, b, q, x, v, h),
           NEW m \in Frames, m.m \in {"added", "named", "removed", "models"},
           \A s \in Sessions : Mentions(m, s) => ~Unborn(h, s),
           \A s \in Sessions : Is(m, "removed", s) => ~h[s].live
    PROVE  /\ Steady(w, b, Append(q, m), x, v, h)
           /\ Cold(w, b, q, x) /\ (m.m = "models" => (m.some => warm)) => Cold(w, b, Append(q, m), x)
<1> DEFINE r == Append(q, m)
<1>1. /\ q \in Seq(Frames) /\ r \in Seq(Frames) /\ ToSet(r) = ToSet(q) \cup {m}
  BY InAppend DEF Steady, Types
<1>2. \A s \in Sessions : ~Is(m, "act", s) /\ ~Is(m, "chat", s) /\ ~Is(m, "result", s)
                          /\ ~Answering(m, s) /\ ~OfChat(m, s)
  BY DEF Is, Answering, OfChat
<1>3. ASSUME NEW s \in Sessions, NEW d, NEW e, Leads(s, d, q, e)
      PROVE  Leads(s, d, r, e)
  <2>1. Leads(s, d, r, After(e, m, s))
    BY <1>1, <1>3, LeadsFurther
  <2>2. After(e, m, s) = e
    BY <1>2 DEF After
  <2>3. QED
    BY <2>1, <2>2
<1>4. ASSUME NEW s \in Sessions, Once(q, "result", s)
      PROVE  Once(r, "result", s)
  BY <1>1, <1>2, <1>4, OnceAppend
<1>5. /\ DOMAIN q = 1..Len(q) /\ DOMAIN r = 1..(Len(q) + 1) /\ Len(q) \in Nat
      /\ \A i \in 1..Len(q) : r[i] = q[i]
      /\ r[Len(q) + 1] = m
  BY <1>1, AtAppend
<1> HIDE DEF r
<1>6. Types(w, b, r, x, v, h)
  BY <1>1 DEF Steady, Types
<1>7. ASSUME NEW s \in Sessions
      PROVE  Asked(w, b, r, h, s)
  <2>1. Has(r, "result", s) <=> Has(q, "result", s)
    BY <1>1, <1>2 DEF Has
  <2>2. QED
    BY <1>4, <2>1 DEF Steady, Asked
<1>8. ASSUME NEW s \in Sessions, Unborn(h, s)
      PROVE  Unknown(w, b, r, x, v, s)
  BY <1>1, <1>8 DEF Steady, Unknown
<1>9. ASSUME NEW s \in Sessions, h[s].chat = NoChat
      PROVE  Chatless(w, b, r, x, s)
  BY <1>1, <1>2, <1>9 DEF Steady, Chatless
<1>10. ASSUME NEW s \in Sessions, h[s].live
       PROVE  Serving(b, r, x, s) /\ Caught(r, x, h, s)
  <2>1. Serving(b, q, x, s) /\ Caught(q, x, h, s)
    BY <1>10 DEF Steady
  <2>2. ASSUME NEW i \in DOMAIN r, Answering(r[i], s)
        PROVE  x.chats[s] = NoChat /\ \A j \in DOMAIN r : j < i => ~OfChat(r[j], s)
    <3>1. i # Len(q) + 1
      BY <1>2, <1>5, <2>2
    <3>2. i \in DOMAIN q /\ r[i] = q[i]
      BY <1>5, <3>1
    <3>3. \A j \in DOMAIN r : j < i => j \in DOMAIN q /\ r[j] = q[j]
      BY <1>5, <3>2
    <3>4. QED
      BY <2>1, <2>2, <3>2, <3>3 DEF Serving
  <2>3. Serving(b, r, x, s)
    BY <1>1, <1>2, <1>10, <2>1, <2>2 DEF Serving
  <2>4. Caught(r, x, h, s)
    <3>1. ~Refusing(m, s)
      BY DEF Refusing
    <3>2. Granted(r, x, h, s)
      BY <1>1, <1>2, <2>1, <3>1, GrantedAppend DEF Caught, r
    <3>3. QED
      BY <1>3, <2>1, <3>2 DEF Caught
  <2>5. QED
    BY <2>3, <2>4
<1>11. Steady(w, b, r, x, v, h)
  BY <1>6, <1>7, <1>8, <1>9, <1>10 DEF Steady
<1>12. Cold(w, b, q, x) /\ (m.m = "models" => (m.some => warm)) => Cold(w, b, r, x)
  BY <1>1 DEF Cold
<1>13. QED
  BY <1>11, <1>12 DEF r

LEMMA NoteSound ==
    ASSUME NEW w, NEW b, NEW q, NEW x, NEW v, NEW h, Sound(w, b, q, x, v, h),
           NEW m \in Frames, m.m \in {"added", "named", "removed"},
           \A s \in Sessions : Mentions(m, s) => ~Unborn(h, s),
           \A s \in Sessions : Is(m, "removed", s) => ~h[s].live
    PROVE  Sound(w, b, Append(q, m), x, v, h)
BY NoteSteady DEF Sound

\* The host answers a request for a session.
LEMMA ResultSound ==
    ASSUME NEW w, NEW b, NEW q, NEW x, NEW v, NEW h, Sound(w, b, q, x, v, h),
           NEW s \in Sessions, NEW ok \in BOOLEAN, ok => ~Unborn(h, s),
           create[s] = "asked", writer[s] = "none",
           ~Has(w.post, "create", s), ~Has(q, "result", s), ~Has(b, "result", s)
    PROVE  Sound(w, b, Append(q, ResultNote(s, ok)), x, v, h)
<1> DEFINE m == ResultNote(s, ok)
           r == Append(q, m)
<1>1. m \in Results /\ m.m = "result" /\ m.s = s /\ m.ok = ok
  BY DEF ResultNote, Results
<1>2. m \in Frames
  BY <1>1 DEF Frames
<1> HIDE DEF m
<1>3. /\ q \in Seq(Frames) /\ r \in Seq(Frames) /\ ToSet(r) = ToSet(q) \cup {m}
  BY <1>2, InAppend DEF Sound, Steady, Types
<1>4. \A k \in Sessions : ~Is(m, "act", k) /\ ~Is(m, "chat", k) /\ ~Is(m, "removed", k)
                          /\ ~Answering(m, k) /\ ~OfChat(m, k) /\ (Is(m, "result", k) <=> k = s)
  BY <1>1 DEF Is, Answering, OfChat
<1>5. ASSUME NEW k \in Sessions, NEW d, NEW e, Leads(k, d, q, e)
      PROVE  Leads(k, d, r, e)
  <2>1. Leads(k, d, r, After(e, m, k))
    BY <1>2, <1>3, <1>5, LeadsFurther
  <2>2. After(e, m, k) = e
    BY <1>4 DEF After
  <2>3. QED
    BY <2>1, <2>2
<1>6. ASSUME NEW k \in Sessions, Once(q, "result", k)
      PROVE  Once(r, "result", k)
  BY <1>2, <1>3, <1>4, <1>6, OnceAppend
<1>7. /\ DOMAIN q = 1..Len(q) /\ DOMAIN r = 1..(Len(q) + 1) /\ Len(q) \in Nat
      /\ \A i \in 1..Len(q) : r[i] = q[i]
      /\ r[Len(q) + 1] = m
  BY <1>2, <1>3, AtAppend
<1> HIDE DEF r
<1>8. Types(w, b, r, x, v, h)
  BY <1>3 DEF Sound, Steady, Types
<1>9. Cold(w, b, r, x)
  BY <1>1, <1>3 DEF Sound, Cold
<1>10. ASSUME NEW k \in Sessions
       PROVE  Asked(w, b, r, h, k)
  <2>1. Asked(w, b, q, h, k) /\ Once(r, "result", k)
    BY <1>6 DEF Sound, Steady, Asked
  <2>2. Has(r, "result", k) <=> Has(q, "result", k) \/ k = s
    BY <1>3, <1>4 DEF Has
  <2>3. QED
    BY <2>1, <2>2 DEF Asked
<1>11. ASSUME NEW k \in Sessions, Unborn(h, k)
       PROVE  Unknown(w, b, r, x, v, k)
  <2>1. ~Mentions(m, k)
    BY <1>1, <1>11 DEF Mentions
  <2>2. QED
    BY <1>3, <1>11, <2>1 DEF Sound, Steady, Unknown
<1>12. ASSUME NEW k \in Sessions, h[k].chat = NoChat
       PROVE  Chatless(w, b, r, x, k)
  BY <1>3, <1>4, <1>12 DEF Sound, Steady, Chatless
<1>13. ASSUME NEW k \in Sessions, h[k].live
       PROVE  Serving(b, r, x, k) /\ Caught(r, x, h, k)
  <2>1. Serving(b, q, x, k) /\ Caught(q, x, h, k)
    BY <1>13 DEF Sound, Steady
  <2>2. ASSUME NEW i \in DOMAIN r, Answering(r[i], k)
        PROVE  x.chats[k] = NoChat /\ \A j \in DOMAIN r : j < i => ~OfChat(r[j], k)
    <3>1. i # Len(q) + 1
      BY <1>4, <1>7, <2>2
    <3>2. i \in DOMAIN q /\ r[i] = q[i]
      BY <1>7, <3>1
    <3>3. \A j \in DOMAIN r : j < i => j \in DOMAIN q /\ r[j] = q[j]
      BY <1>7, <3>2
    <3>4. QED
      BY <2>1, <2>2, <3>2, <3>3 DEF Serving
  <2>3. Serving(b, r, x, k)
    BY <1>3, <1>4, <2>1, <2>2 DEF Serving
  <2>4. Caught(r, x, h, k)
    <3>1. ~Refusing(m, k)
      BY <1>1 DEF Refusing
    <3>2. Granted(r, x, h, k)
      BY <1>2, <1>3, <1>4, <2>1, <3>1, GrantedAppend DEF Caught, r
    <3>3. QED
      BY <1>5, <2>1, <3>2 DEF Caught
  <2>5. QED
    BY <2>3, <2>4
<1>14. QED
  BY <1>8, <1>9, <1>10, <1>11, <1>12, <1>13 DEF Sound, Steady, r, m

\* The host folds an action, and sends it where the client is served.
LEMMA ActSound ==
    ASSUME NEW w, NEW b, NEW q, NEW x, NEW v, NEW h, Sound(w, b, q, x, v, h),
           NEW s \in Sessions, h[s].live, h[s].chat # NoChat, NEW a \in Actions,
           NEW k \in [Sessions -> Hosts], k[s].live, k[s].chat = Reduce(h[s].chat, a),
           k[s].served = h[s].served,
           \A o \in Sessions \ {s} : k[o] = h[o],
           NEW r, r = IF h[s].served THEN Append(q, ActionPush(s, a)) ELSE q
    PROVE  Sound(w, b, r, x, v, k) /\ k[s].chat # NoChat
<1> DEFINE m == ActionPush(s, a)
<1>1. m \in Acts /\ m.m = "act" /\ m.s = s /\ m.act = a
  BY DEF ActionPush, Acts
<1>2. m \in Frames /\ q \in Seq(Frames)
  BY <1>1 DEF Frames, Sound, Steady, Types
<1>3. (r = Append(q, m) /\ h[s].served) \/ (r = q /\ ~h[s].served)
  OBVIOUS
<1>4. h[s].served => r = Append(q, m)
  OBVIOUS
<1> HIDE DEF m
<1>5. \A o \in Sessions : /\ ~Is(m, "chat", o) /\ ~Is(m, "removed", o) /\ ~Answering(m, o)
                          /\ ~Is(m, "result", o) /\ (Is(m, "act", o) <=> o = s)
                          /\ ~Refusing(m, o)
  BY <1>1 DEF Is, Answering, Refusing
<1>6. h[s].chat \in Chat /\ k[s].chat \in Chat
  <2>1. h[s].chat \in Chat
    BY DEF Sound, Steady, Types, Hosts, Chats
  <2>2. QED
    BY <2>1, ReduceType
<1>7. k[s].chat # NoChat /\ Norm(k[s].chat) = k[s].chat /\ Norm(h[s].chat) = h[s].chat
  BY <1>6, NormType
<1>8. /\ r \in Seq(Frames)
     /\ (ToSet(r) = ToSet(q) \cup {m} \/ ToSet(r) = ToSet(q))
  BY <1>2, <1>3, InAppend
<1>9. ASSUME NEW o \in Sessions, NEW d, NEW e, Leads(o, d, q, e)
      PROVE  /\ o # s => Leads(o, d, r, e)
             /\ r = Append(q, m) => Leads(o, d, r, After(e, m, o))
             /\ r = q => Leads(o, d, r, e)
  <2>1. r = Append(q, m) => Leads(o, d, r, After(e, m, o))
    BY <1>2, <1>9, LeadsFurther
  <2>2. o # s => After(e, m, o) = e
    BY <1>5 DEF After
  <2>3. QED
    BY <1>3, <1>9, <2>1, <2>2
<1>10. ASSUME NEW o \in Sessions, Once(q, "result", o)
       PROVE  Once(r, "result", o)
  BY <1>2, <1>3, <1>5, <1>10, OnceAppend
<1>11. r = Append(q, m) =>
         /\ DOMAIN q = 1..Len(q) /\ DOMAIN r = 1..(Len(q) + 1) /\ Len(q) \in Nat
         /\ \A i \in 1..Len(q) : r[i] = q[i]
         /\ r[Len(q) + 1] = m
  BY <1>2, AtAppend
<1>12. \A o \in Sessions : k[o].live = h[o].live /\ (k[o].chat = NoChat <=> h[o].chat = NoChat)
  <2>1. k[s].live = h[s].live
    BY DEF Sound, Steady, Types, Hosts
  <2>2. QED
    BY <1>7, <2>1
<1>13. \A o \in Sessions : Unborn(k, o) <=> Unborn(h, o)
  <2>1. ~Unborn(k, s) /\ ~Unborn(h, s)
    BY <1>7 DEF Unborn
  <2>2. QED
    BY <2>1 DEF Unborn
<1>14. Types(w, b, r, x, v, k)
  BY <1>2, <1>3, <1>8 DEF Sound, Steady, Types
<1>15. Cold(w, b, r, x)
  BY <1>1, <1>8 DEF Sound, Cold
<1>16. ASSUME NEW o \in Sessions
       PROVE  Asked(w, b, r, k, o)
  <2>1. Has(r, "result", o) <=> Has(q, "result", o)
    BY <1>5, <1>8 DEF Has
  <2>2. QED
    BY <1>10, <1>13, <2>1 DEF Sound, Steady, Asked
<1>17. ASSUME NEW o \in Sessions, Unborn(k, o)
       PROVE  Unknown(w, b, r, x, v, o)
  <2>1. Unborn(h, o) /\ o # s
    BY <1>7, <1>13, <1>17 DEF Unborn
  <2>2. ~Mentions(m, o)
    BY <1>1, <2>1 DEF Mentions
  <2>3. QED
    BY <1>8, <2>1, <2>2 DEF Sound, Steady, Unknown
<1>18. ASSUME NEW o \in Sessions, k[o].chat = NoChat
       PROVE  Chatless(w, b, r, x, o)
  <2>1. o # s /\ h[o].chat = NoChat
    BY <1>7, <1>12, <1>18
  <2>2. QED
    BY <1>5, <1>8, <2>1 DEF Sound, Steady, Chatless
<1>19. ASSUME NEW o \in Sessions, k[o].live
       PROVE  Serving(b, r, x, o) /\ Caught(r, x, k, o) /\ Fed(w, b, x, o)
  <2>1. Serving(b, q, x, o) /\ Caught(q, x, h, o) /\ Fed(w, b, x, o)
    BY <1>12, <1>19 DEF Sound, Steady
  <2>2. ASSUME NEW i \in DOMAIN r, Answering(r[i], o)
        PROVE  x.chats[o] = NoChat /\ \A j \in DOMAIN r : j < i => ~OfChat(r[j], o)
    <3>1. CASE r = q
      BY <2>1, <2>2, <3>1 DEF Serving
    <3>2. CASE r = Append(q, m)
      <4>1. i # Len(q) + 1
        BY <1>5, <1>11, <2>2, <3>2
      <4>2. i \in DOMAIN q /\ r[i] = q[i]
        BY <1>11, <3>2, <4>1
      <4>3. \A j \in DOMAIN r : j < i => j \in DOMAIN q /\ r[j] = q[j]
        BY <1>11, <3>2, <4>2
      <4>4. QED
        BY <2>1, <2>2, <4>2, <4>3 DEF Serving
    <3>3. QED
      BY <1>3, <3>1, <3>2
  <2>3. Granted(r, x, k, o)
    <3>1. Granted(q, x, h, o) /\ k[o].served = h[o].served
      BY <2>1 DEF Caught
    <3>2. Granted(q, x, k, o)
      BY <3>1 DEF Granted
    <3>3. CASE r = q
      BY <3>2, <3>3
    <3>4. CASE r = Append(q, m) /\ h[s].served
      <4>1. ~Refusing(m, o) /\ (OfChat(m, o) => k[o].served)
        BY <1>5, <3>1, <3>4 DEF OfChat
      <4>2. QED
        BY <1>2, <3>2, <3>4, <4>1, GrantedAppend
    <3>5. QED
      BY <1>3, <3>3, <3>4
  <2>4. Serving(b, r, x, o)
    BY <1>5, <1>8, <2>1, <2>2 DEF Serving
  <2>5. \E d : Leads(o, Norm(x.chats[o]), r, d)
    BY <1>3, <1>9, <2>1 DEF Caught
  <2>6. k[o].served => Leads(o, Norm(x.chats[o]), r, Norm(k[o].chat))
    <3> SUFFICES ASSUME h[o].served
                 PROVE  Leads(o, Norm(x.chats[o]), r, Norm(k[o].chat))
      OBVIOUS
    <3>1. Leads(o, Norm(x.chats[o]), q, Norm(h[o].chat))
      BY <2>1 DEF Caught
    <3>2. CASE o # s
      BY <1>9, <3>1, <3>2
    <3>3. CASE o = s
      <4>1. r = Append(q, m)
        BY <1>4, <3>3
      <4>2. After(Norm(h[s].chat), m, s) = Norm(k[s].chat)
        BY <1>1, <1>5, <1>7 DEF After
      <4>3. QED
        BY <1>9, <3>1, <3>3, <4>1, <4>2
    <3>4. QED
      BY <3>2, <3>3
  <2>7. QED
    BY <2>1, <2>3, <2>4, <2>5, <2>6 DEF Caught
<1>20. QED
  BY <1>7, <1>14, <1>15, <1>16, <1>17, <1>18, <1>19 DEF Sound, Steady

\* The host makes the session that it was asked for.
LEMMA BirthSound ==
    ASSUME NEW w, NEW b, NEW q, NEW x, NEW v, NEW h, Sound(w, b, q, x, v, h),
           NEW s \in Sessions, Unborn(h, s), ~Has(w.post, "create", s), create[s] = "asked",
           NEW k \in [Sessions -> Hosts], k[s].live, k[s].chat = NoChat,
           \A o \in Sessions \ {s} : k[o] = h[o]
    PROVE  Sound(w, b, q, x, v, k)
<1>1. Unknown(w, b, q, x, v, s) /\ Chatless(w, b, q, x, s)
  BY DEF Sound, Steady, Unborn
<1>0. ~k[s].served
  BY DEF Hosts
<1>2. ~Unborn(k, s) /\ \A o \in Sessions \ {s} : Unborn(k, o) <=> Unborn(h, o)
  BY DEF Unborn
<1>3. Types(w, b, q, x, v, k)
  BY DEF Sound, Steady, Types
<1>4. ASSUME NEW o \in Sessions
      PROVE  /\ Asked(w, b, q, k, o)
             /\ Unborn(k, o) => Unknown(w, b, q, x, v, o)
             /\ k[o].chat = NoChat => Chatless(w, b, q, x, o)
  <2>1. Asked(w, b, q, h, o)
    BY DEF Sound, Steady
  <2>2. Asked(w, b, q, k, o)
    BY <1>2, <2>1 DEF Asked
  <2>3. k[o].chat = NoChat => Chatless(w, b, q, x, o)
    BY <1>1 DEF Sound, Steady
  <2>4. Unborn(k, o) => Unknown(w, b, q, x, v, o)
    BY <1>2 DEF Sound, Steady
  <2>5. QED
    BY <2>2, <2>3, <2>4
<1>5. Serving(b, q, x, s) /\ Caught(q, x, k, s) /\ Fed(w, b, x, s)
  <2>1. \A m \in ToSet(q) \cup ToSet(b) :
          ~Is(m, "removed", s) /\ ~Is(m, "act", s) /\ ~Is(m, "chat", s) /\ ~Answering(m, s)
          /\ ~OfChat(m, s) /\ ~Refusing(m, s)
    BY <1>1 DEF Unknown, Mentions, Is, Answering, OfChat, Refusing
  <2>2. ~Subscribed(x, s) /\ s \notin heard /\ x.chats[s] = NoChat
    BY <1>1 DEF Unknown, Chatless, Subscribed
  <2>3. \A i \in DOMAIN q : q[i] \in ToSet(q)
    BY DEF ToSet
  <2>4. Serving(b, q, x, s)
    BY <2>1, <2>2, <2>3 DEF Serving, Has
  <2>5. \A c : Leads(s, c, q, c) /\ Leads(s, c, b, c)
    BY <2>1, LeadsNowhere DEF Sound, Steady, Types
  <2>6. Caught(q, x, k, s)
    <3>1. Lone(q, s)
      BY <2>1, <2>3 DEF Lone
    <3>2. Granted(q, x, k, s)
      BY <1>0, <2>1, <2>2, <3>1 DEF Granted
    <3>3. QED
      BY <1>0, <2>5, <3>2 DEF Caught
  <2>7. Fed(w, b, x, s)
    BY <2>1, <2>2, <2>5 DEF Fed, Has
  <2>8. QED
    BY <2>4, <2>6, <2>7
<1>6. ASSUME NEW o \in Sessions \ {s}, k[o].live
      PROVE  Serving(b, q, x, o) /\ Caught(q, x, k, o) /\ Fed(w, b, x, o)
  BY <1>6 DEF Sound, Steady, Caught, Granted
<1>7. QED
  BY <1>3, <1>4, <1>5, <1>6 DEF Sound, Steady

\* The store u once the first post of w is taken.
Taken(w, u) == u \in Webs /\ SameFolds(w, u) /\ u.post = Tail(w.post)

\* The extension takes the next post of the webview.
LEMMA TakePostSound ==
    ASSUME NEW w, NEW b, NEW q, NEW x, NEW v, NEW h, Sound(w, b, q, x, v, h), w.post # <<>>,
           NEW u, Taken(w, u)
    PROVE  /\ Sound(u, b, q, x, v, h) /\ (Writes(w) => Writes(u))
           /\ Head(w.post) \in Posts /\ Head(w.post) \in ToSet(w.post)
           /\ \A s \in Sessions : Is(Head(w.post), "create", s) => ~Has(u.post, "create", s)
<1> DEFINE p == w.post
           m == Head(p)
           r == Tail(p)
<1>1. w \in Webs /\ p \in Seq(Posts) /\ p # <<>>
  BY DEF Sound, Steady, Types, Webs
<1> HIDE DEF p
<1>2. r \in Seq(Posts) /\ m \in Posts /\ m \in ToSet(p) /\ ToSet(p) = ToSet(r) \cup {m}
  BY <1>1, InTail
<1>3. \A s \in Sessions : Once(p, "create", s) =>
        Once(r, "create", s) /\ (Is(m, "create", s) => ~Has(r, "create", s))
  BY <1>1, OnceTail
<1> HIDE DEF m, r
<1>5. u \in Webs /\ SameFolds(w, u) /\ u.post = r
  BY DEF Taken, r, p
<1>6. Types(u, b, q, x, v, h)
  BY <1>5 DEF Sound, Steady, Types
<1>7. Cold(u, b, q, x)
  BY <1>5 DEF Sound, Cold, SameFolds
<1>8. ASSUME NEW s \in Sessions
      PROVE  Asked(u, b, q, h, s) /\ (Is(m, "create", s) => ~Has(r, "create", s))
  <2>1. Asked(w, b, q, h, s)
    BY DEF Sound, Steady
  <2>2. Has(r, "create", s) => Has(p, "create", s)
    BY <1>2 DEF Has
  <2>3. Once(r, "create", s) /\ (Is(m, "create", s) => ~Has(r, "create", s))
    BY <1>3, <2>1 DEF Asked, p
  <2>4. QED
    BY <1>5, <2>1, <2>2, <2>3 DEF Asked, p
<1>9. ASSUME NEW s \in Sessions, Unborn(h, s)
      PROVE  Unknown(u, b, q, x, v, s)
  <2>1. Unknown(w, b, q, x, v, s)
    BY <1>9 DEF Sound, Steady
  <2>2. QED
    BY <1>2, <1>5, <2>1 DEF Unknown, SameFolds, p
<1>10. ASSUME NEW s \in Sessions, h[s].chat = NoChat
       PROVE  Chatless(u, b, q, x, s)
  BY <1>5, <1>10 DEF Sound, Steady, Chatless, SameFolds
<1>11. ASSUME NEW s \in Sessions, h[s].live
       PROVE  Serving(b, q, x, s) /\ Caught(q, x, h, s) /\ Fed(u, b, x, s)
  BY <1>5, <1>11 DEF Sound, Steady, Fed, SameFolds
<1>12. Sound(u, b, q, x, v, h)
  BY <1>6, <1>7, <1>8, <1>9, <1>10, <1>11 DEF Sound, Steady
<1>13. Writes(w) => Writes(u)
  BY <1>2, <1>5 DEF Writes, p
<1>14. QED
  BY <1>2, <1>5, <1>8, <1>12, <1>13 DEF m, p

\* The host that answers the subscription of a walk.
LEMMA SubscribeHost ==
    ASSUME NEW k \in [Sessions -> Hosts], NEW s \in Sessions,
           NEW r \in Hosts, r.live = k[s].live, r.chat = k[s].chat,
           r.coming => k[s].coming \/ k[s].live, k[s].coming => r.coming,
           NEW n, n = [k EXCEPT ![s] = r]
    PROVE  /\ n \in [Sessions -> Hosts]
           /\ \A o \in Sessions : /\ n[o].live = k[o].live /\ n[o].chat = k[o].chat
                                  /\ Unborn(n, o) <=> Unborn(k, o)
           /\ n[s].served = r.served /\ \A o \in Sessions \ {s} : n[o].served = k[o].served
<1>1. n \in [Sessions -> Hosts] /\ n[s] = r /\ \A o \in Sessions \ {s} : n[o] = k[o]
  OBVIOUS
<1>2. Unborn(n, s) <=> Unborn(k, s)
  BY <1>1 DEF Unborn
<1>3. QED
  BY <1>1, <1>2 DEF Unborn

LEMMA SubscribeStep ==
    ASSUME NEW w, NEW e, NEW u, NEW q, Sound(w, inbox, q, e, u, host),
           NEW walk \in Walks, ~Unborn(host, walk.s), NEW draft \in BOOLEAN,
           <<walk.at, walk.s>> \notin e.subs, Subscribe(walk, draft, e, u, q)
    PROVE  Sound(w, inbox', wire', ext', walks', host')
<1> DEFINE s == walk.s
           leg == walk.at
           y == [e EXCEPT !.subs = @ \cup {<<leg, s>>}]
           z == u \cup {walk}
           rec == IF host[s].named THEN "named" ELSE "plain"
           sv == host[s].served \/ (leg = "chat" /\ Found("chat", s))
           cm == host[s].coming \/ (leg = "chat" /\ draft /\ host[s].live /\ ~Found("chat", s))
<1>1. /\ ext' = y /\ walks' = z /\ wire' = Append(q, Answer(leg, s)) /\ inbox' = inbox
      /\ host' = [host EXCEPT ![s].served = sv, ![s].coming = cm]
  BY DEF Subscribe
<1>2. /\ s \in Sessions /\ leg \in {"session", "chat"} /\ <<leg, s>> \notin e.subs
      /\ ~Unborn(host, s)
  BY DEF Walks
<1>3. /\ e \in Clients /\ u \subseteq Walks /\ host \in [Sessions -> Hosts]
  BY DEF Sound, Steady, Types
<1>4. /\ host[s].live \in BOOLEAN /\ host[s].served \in BOOLEAN /\ host[s].coming \in BOOLEAN
      /\ host[s].served => host[s].chat # NoChat
      /\ host[s].coming => host[s].chat = NoChat
  BY <1>2, <1>3 DEF Hosts
<1>a. Found(leg, s) \in BOOLEAN
  BY <1>4 DEF Found
<1>b. PICK found \in BOOLEAN : found = Found(leg, s)
  BY <1>a
<1>5. /\ found \in BOOLEAN /\ sv \in BOOLEAN /\ cm \in BOOLEAN
      /\ found => host[s].live
      /\ leg = "chat" => (found <=> host[s].live /\ host[s].chat # NoChat)
      /\ sv <=> host[s].served \/ (leg = "chat" /\ found)
      /\ sv => host[s].chat # NoChat
      /\ cm => host[s].chat = NoChat /\ (host[s].coming \/ host[s].live)
      /\ host[s].coming => cm
  BY <1>4, <1>b, Zenon DEF Found
<1>6. Answer(leg, s) = AnswerFrame(leg, s, found, rec, host[s].chat)
  BY <1>b DEF Answer
<1>7. rec \in Records
  BY DEF Records
<1>8. z \subseteq Walks /\ \A o \in z : o \in u \/ o.s = s
  BY <1>3
<1>9. /\ y \in Clients /\ y.rows = e.rows /\ y.models = e.models /\ y.chats = e.chats
      /\ y.subs = e.subs \cup {<<leg, s>>}
  <2> DEFINE more == e.subs \cup {<<leg, s>>}
  <2>1. more \subseteq {"session", "chat"} \X Sessions
    BY <1>2, <1>3 DEF Clients
  <2>2. y = [e EXCEPT !.subs = more]
    BY <1>3 DEF Clients
  <2>3. more = e.subs \cup {<<leg, s>>}
    OBVIOUS
  <2> HIDE DEF more
  <2>4. QED
    BY <1>3, <2>1, <2>2, <2>3 DEF Clients
<1> HIDE DEF y, z, rec, sv, cm, s, leg
<1>10. /\ host' \in [Sessions -> Hosts]
       /\ \A o \in Sessions : /\ host'[o].live = host[o].live /\ host'[o].chat = host[o].chat
                              /\ Unborn(host', o) <=> Unborn(host, o)
       /\ host'[s].served = sv /\ \A o \in Sessions \ {s} : host'[o].served = host[o].served
  <2> DEFINE r == [host[s] EXCEPT !.served = sv, !.coming = cm]
  <2>1. /\ r \in Hosts /\ r.live = host[s].live /\ r.chat = host[s].chat
        /\ r.served = sv
        /\ r.coming => host[s].coming \/ host[s].live
        /\ host[s].coming => r.coming
    BY <1>2, <1>3, <1>5 DEF Hosts
  <2>2. host' = [host EXCEPT ![s] = r]
    BY <1>1
  <2> HIDE DEF r
  <2>3. QED
    BY <1>2, <1>3, <2>1, <2>2, SubscribeHost, Zenon
<1>11. \A o \in Sessions :
         /\ host'[o].live = host[o].live /\ host'[o].chat = host[o].chat
         /\ Unborn(host', o) <=> Unborn(host, o)
         /\ host'[o].served <=> host[o].served \/ (o = s /\ leg = "chat" /\ found)
  BY <1>5, <1>10
<1>12. Joins(q, e, u, host, s, leg, wire', y, z, host', found, rec)
  BY <1>1, <1>2, <1>5, <1>6, <1>7, <1>8, <1>9, <1>10, <1>11 DEF Joins
<1>13. QED
  BY <1>1, <1>12, SubscribeSound

\* A walk goes on: it subscribes to its next channel, or ends with what the
\* extension posts.
LEMMA WalkOnSound ==
    ASSUME NEW w, NEW e, NEW u, NEW q, Sound(w, inbox, q, e, u, host),
           NEW walk \in Walks, ~Unborn(host, walk.s), WalkOn(walk, e, u, q)
    PROVE  Sound(w, inbox', wire', ext', walks', host')
<1> DEFINE kind == walk.m
           s == walk.s
           leg == Leg(kind, s, e)
<1>0. s \in Sessions /\ ~Unborn(host, s)
  BY DEF Walks
<1>1. /\ e \in Clients /\ inbox \in Seq(Messages) /\ u \subseteq Walks
      /\ host[s].chat = NoChat => e.chats[s] = NoChat
  BY <1>0 DEF Sound, Steady, Types, Chatless
<1>2. leg \in {"session", "chat", "end"} /\ (leg # "end" => <<leg, s>> \notin e.subs)
  BY DEF Leg
<1>3. CASE leg = "end"
  <2>1. /\ ext' = e /\ walks' = u /\ wire' = q /\ inbox' = inbox \o Viewed(kind, s, e)
        /\ host' = host
    BY <1>3 DEF WalkOn
  <2> HIDE DEF kind, s, leg
  <2>2. e.records[s] \in Records /\ e.chats[s] \in Chats
    BY <1>0, <1>1 DEF Clients
  <2>3. CASE kind = "view" /\ e.records[s] # "none"
    <3>1. Viewed(kind, s, e) = <<RowPush(s, e.records[s])>>
      BY <2>3 DEF Viewed
    <3> DEFINE m == RowPush(s, e.records[s])
    <3>2. m \in RowPushes /\ m.m = "row" /\ m.s = s
      BY <1>0, <2>2 DEF RowPush, RowPushes
    <3>3. m \in Messages
      BY <3>2 DEF Messages
    <3> HIDE DEF m
    <3>4. inbox' = Append(inbox, m)
      BY <1>1, <2>1, <3>1, <3>3 DEF m
    <3>5. \A k \in Sessions : (Mentions(m, k) => ~Unborn(host, k)) /\ ~Is(m, "chat", k)
      BY <1>0, <3>2 DEF Mentions, Is
    <3>6. Sound(w, Append(inbox, m), q, e, u, host)
      BY <3>2, <3>3, <3>5, PushSound
    <3>7. QED
      BY <2>1, <3>4, <3>6
  <2>4. CASE kind = "viewChat" /\ e.chats[s] # NoChat
    <3>1. Viewed(kind, s, e) = <<ChatPush(s, e.chats[s])>>
      BY <2>4 DEF Viewed
    <3> DEFINE m == ChatPush(s, e.chats[s])
    <3>2. m \in ChatPushes /\ m.m = "chat" /\ m.s = s /\ m.chat = e.chats[s]
      BY <1>0, <2>2, <2>4 DEF ChatPush, ChatPushes, Chats
    <3>3. m \in Messages
      BY <3>2 DEF Messages
    <3> HIDE DEF m
    <3>4. inbox' = Append(inbox, m)
      BY <1>1, <2>1, <3>1, <3>3 DEF m
    <3>5. \A k \in Sessions : Mentions(m, k) => ~Unborn(host, k)
      BY <1>0, <3>2 DEF Mentions
    <3>6. \A k \in Sessions : Is(m, "chat", k) =>
            host[k].chat # NoChat /\ e.chats[k] # NoChat /\ Norm(m.chat) = Norm(e.chats[k])
      BY <1>1, <2>4, <3>2 DEF Is
    <3>7. Sound(w, Append(inbox, m), q, e, u, host)
      BY <3>2, <3>3, <3>5, <3>6, PushSound
    <3>8. QED
      BY <2>1, <3>4, <3>7
  <2>5. CASE ~(kind = "view" /\ e.records[s] # "none") /\ ~(kind = "viewChat" /\ e.chats[s] # NoChat)
    <3>1. Viewed(kind, s, e) = <<>>
      BY <2>5 DEF Viewed
    <3>2. inbox' = inbox
      BY <1>1, <2>1, <3>1
    <3>3. QED
      BY <2>1, <3>2
  <2>6. QED
    BY <2>3, <2>4, <2>5
<1>4. CASE leg # "end"
  <2> DEFINE z == [walk EXCEPT !.at = leg, !.waits = "answer", !.tries = 0]
  <2>1. Subscribe(z, TRUE, e, u, q)
    BY <1>4 DEF WalkOn
  <2>2. leg \in {"session", "chat"} /\ <<leg, s>> \notin e.subs
    BY <1>2, <1>4
  <2> HIDE DEF leg
  <2>3. z \in Walks /\ z.s = s /\ z.at = leg
    BY <2>2 DEF Walks
  <2> HIDE DEF z, s
  <2>4. QED
    BY <1>0, <2>1, <2>2, <2>3, SubscribeStep
<1>5. QED
  BY <1>3, <1>4

-----------------------------------------------------------------------------
\* What a step adds to the posts, none of it a request for a session.
TurnPosts == [m : {"turn"}, s : Sessions, t : Turns, exit : BOOLEAN]

More(p, q, new) ==
    /\ ToSet(q) \subseteq ToSet(p) \cup new
    /\ \A m \in new : m.m # "create"
    /\ \A s \in Sessions : Once(p, "create", s) => Once(q, "create", s)

LEMMA MoreMore ==
    ASSUME NEW p, NEW q, NEW r, NEW new, NEW next, More(p, q, new), More(q, r, next)
    PROVE  More(p, r, new \cup next)
BY DEF More

LEMMA MoreSame == \A p : More(p, p, {})
BY DEF More

LEMMA MoreAppend ==
    ASSUME NEW p \in Seq(Posts), NEW e \in Posts, e.m # "create"
    PROVE  More(p, Append(p, e), {e}) /\ Append(p, e) \in Seq(Posts)
<1>1. ToSet(Append(p, e)) = ToSet(p) \cup {e} /\ Append(p, e) \in Seq(Posts)
  BY InAppend
<1>2. \A s \in Sessions : Once(p, "create", s) => Once(Append(p, e), "create", s)
  <2>1. ASSUME NEW s \in Sessions, Once(p, "create", s)
        PROVE  Once(Append(p, e), "create", s)
    <3>1. ~Is(e, "create", s)
      BY DEF Is
    <3>2. QED
      BY <2>1, <3>1, OnceAppend
  <2>2. QED
    BY <2>1
<1>3. QED
  BY <1>1, <1>2 DEF More

LEMMA FlushedWeb ==
    ASSUME NEW w \in Webs, NEW queue \in Seq(Submissions)
    PROVE  LET v == Flushed(w, queue) IN
           /\ v \in Webs /\ SameFolds(w, v) /\ (Shown(w) => Shown(v))
           /\ More(w.post, v.post, TurnPosts)
           /\ Left(w, queue) \in Seq(Submissions)
<1> DEFINE go == EntriesAt(queue, Ready(w, queue))
           r == [i \in 1..Len(go) |-> TurnMsg(go[i])]
           p == w.post \o r
<1>1. go \in Seq(Submissions) /\ Left(w, queue) \in Seq(Submissions)
  BY FilterType DEF Left
<1>2. p = w.post \o r /\ Flushed(w, queue) = [w EXCEPT !.post = p]
  BY DEF Flushed, Webs
<1> HIDE DEF go, p
<1>3. \A i \in 1..Len(go) : TurnMsg(go[i]) \in TurnPosts
  <2>1. \A i \in 1..Len(go) : go[i] \in Submissions
    BY <1>1, ElementOfSeq, LenProperties
  <2>2. QED
    BY <2>1 DEF Submissions, TurnMsg, TurnPosts
<1>4. TurnPosts \subseteq Posts /\ \A m \in TurnPosts : m.m = "turn"
  BY DEF TurnPosts, Posts
<1>5. Len(go) \in Nat /\ r \in Seq(TurnPosts) /\ r \in Seq(Posts)
  BY <1>1, <1>3, <1>4, LenProperties
<1> HIDE DEF r
<1>6. ToSet(r) \subseteq TurnPosts
  BY <1>5, InSeq
<1>7. w.post \in Seq(Posts)
  BY DEF Webs
<1>8. p \in Seq(Posts) /\ ToSet(p) = ToSet(w.post) \cup ToSet(r)
  BY <1>2, <1>5, <1>7, InConcat
<1>9. \A s \in Sessions : Once(w.post, "create", s) => Once(p, "create", s)
  <2>1. ASSUME NEW s \in Sessions, Once(w.post, "create", s)
        PROVE  Once(p, "create", s)
    <3>1. \A m \in ToSet(r) : ~Is(m, "create", s)
      BY <1>4, <1>6 DEF Is
    <3>2. Once(w.post \o r, "create", s)
      BY <1>5, <1>7, <2>1, <3>1, OnceConcat
    <3>3. QED
      BY <1>2, <3>2
  <2>2. QED
    BY <2>1
<1>10. More(w.post, p, TurnPosts)
  BY <1>4, <1>6, <1>8, <1>9 DEF More
<1>11. /\ [w EXCEPT !.post = p] \in Webs /\ SameFolds(w, [w EXCEPT !.post = p])
       /\ [w EXCEPT !.post = p].post = p
       /\ Shown(w) => Shown([w EXCEPT !.post = p])
  BY <1>8, PostWeb
<1>12. QED
  BY <1>1, <1>2, <1>10, <1>11
-----------------------------------------------------------------------------
\* A step of the webview that takes no message.
LEMMA PageSound ==
    ASSUME IInv, UNCHANGED <<inbox, wire, ext, walks, host, warm, create, heard, refused>>,
           web' \in Webs, Shown(web'), SameFolds(web, web'), waiting' \in Seq(Submissions),
           NEW new, More(web.post, web'.post, new),
           \A m \in new : /\ m.m \in {"view", "viewChat"} => m.s \in web.summaries
                          /\ m.m = "config" => warm \/ writer'[m.s] = "late",
           writer' \in [Sessions -> {"none", "polls", "done", "late"}],
           \A s \in Sessions : writer'[s] = writer[s] \/ writer[s] = "polls"
    PROVE  IInv'
<1>1. Sound(web, inbox, wire, ext, walks, host) /\ Ledgers /\ Refusals /\ Writes(web)
  BY DEF IInv
<1>2. \A m \in ToSet(web'.post) : m \in ToSet(web.post) \/ (m \in new /\ m.m # "create")
  BY DEF More
<1>3. ASSUME NEW s \in Sessions
      PROVE  /\ Asked(web, inbox, wire, host, s)'
             /\ (Unborn(host, s) => Unknown(web, inbox, wire, ext, walks, s))'
             /\ (host[s].chat = NoChat => Chatless(web, inbox, wire, ext, s))'
             /\ (host[s].live => /\ Serving(inbox, wire, ext, s) /\ Caught(wire, ext, host, s)
                                 /\ Fed(web, inbox, ext, s))'
  <2>1. /\ Asked(web, inbox, wire, host, s)
        /\ Unborn(host, s) => Unknown(web, inbox, wire, ext, walks, s)
        /\ host[s].chat = NoChat => Chatless(web, inbox, wire, ext, s)
        /\ host[s].live => Serving(inbox, wire, ext, s) /\ Caught(wire, ext, host, s) /\ Fed(web, inbox, ext, s)
    BY <1>1 DEF Sound, Steady
  <2>2. Has(web'.post, "create", s) => Has(web.post, "create", s)
    BY <1>2 DEF Has, Is
  <2>3. Once(web'.post, "create", s)
    BY <2>1 DEF More, Asked
  <2>4. writer[s] = "none" => writer'[s] = "none"
    OBVIOUS
  <2>5. Asked(web, inbox, wire, host, s)'
    BY <2>1, <2>2, <2>3, <2>4 DEF Asked, Unborn
  <2>6. (Unborn(host, s) => Unknown(web, inbox, wire, ext, walks, s))'
    BY <1>2, <2>1 DEF Unknown, SameFolds, Unborn
  <2>7. (host[s].chat = NoChat => Chatless(web, inbox, wire, ext, s))'
    BY <2>1 DEF Chatless, SameFolds
  <2>8. (host[s].live => Serving(inbox, wire, ext, s) /\ Caught(wire, ext, host, s) /\ Fed(web, inbox, ext, s))'
    BY <2>1 DEF Serving, Caught, Granted, Fed, Subscribed, SameFolds
  <2>9. QED
    BY <2>5, <2>6, <2>7, <2>8
<1>4. Types(web, inbox, wire, ext, walks, host)'
  BY <1>1 DEF Sound, Steady, Types
<1>5. Cold(web, inbox, wire, ext)'
  BY <1>1 DEF Sound, Cold, SameFolds
<1>6. Ledgers' /\ Refusals'
  BY <1>1 DEF Ledgers, Refusals
<1>7. Writes(web)'
  <2>1. ASSUME NEW m \in ToSet(web'.post), m.m = "config"
        PROVE  warm' \/ writer'[m.s] = "late"
    <3>1. CASE m \in ToSet(web.post)
      <4>1. warm \/ writer[m.s] = "late"
        BY <1>1, <2>1, <3>1 DEF Writes
      <4>2. m.s \in Sessions
        <5>1. web.post \in Seq(Posts)
          BY <1>1 DEF Sound, Steady, Types, Webs
        <5>2. m \in Posts
          BY <3>1, <5>1, InSeq
        <5>3. QED
          BY <2>1, <5>2 DEF Posts
      <4>3. QED
        BY <4>1, <4>2
    <3>2. CASE m \in new
      BY <2>1, <3>2
    <3>3. QED
      BY <1>2, <3>1, <3>2
  <2>2. QED
    BY <2>1 DEF Writes
<1>8. QED
  BY <1>3, <1>4, <1>5, <1>6, <1>7 DEF IInv, Sound, Steady

\* The webview takes the next message.
LEMMA HearSound ==
    ASSUME IInv, inbox # <<>>, NEW m, m = Head(inbox), inbox' = Tail(inbox),
           UNCHANGED <<wire, ext, walks, host, warm, refused>>,
           web' \in Webs, Shown(web'), waiting' \in Seq(Submissions),
           NEW new, More(web.post, web'.post, new),
           \A p \in new : /\ p.m \in {"view", "viewChat"} => Mentions(m, p.s)
                          /\ p.m = "config" => warm,
           web'.models => warm,
           \A s \in web'.summaries : s \in web.summaries \/ Mentions(m, s),
           heard' = heard \cup {s \in Sessions : Is(m, "chat", s)},
           \A s \in Sessions : /\ web'.chats[s] # NoChat =>
                                    web.chats[s] # NoChat \/ Is(m, "act", s) \/ Is(m, "chat", s)
                               /\ Is(m, "removed", s)
                                    \/ Norm(web'.chats[s]) = After(Norm(web.chats[s]), m, s),
           create' \in [Sessions -> {"none", "asked", "made", "failed"}],
           writer' \in [Sessions -> {"none", "polls", "done", "late"}],
           \A s \in Sessions : \/ Is(m, "result", s) /\ create'[s] # "none"
                               \/ create'[s] = create[s] /\ writer'[s] = writer[s]
    PROVE  IInv'
<1>1. /\ Sound(web, inbox, wire, ext, walks, host) /\ Ledgers /\ Refusals /\ Writes(web)
      /\ inbox \in Seq(Messages)
  BY DEF IInv, Sound, Steady, Types
<1>2. \A p \in ToSet(web'.post) : p \in ToSet(web.post) \/ (p \in new /\ p.m # "create")
  BY DEF More
<1>3. Tail(inbox) \in Seq(Messages) /\ m \in Messages /\ m \in ToSet(inbox)
      /\ ToSet(inbox) = ToSet(inbox') \cup {m}
  BY <1>1, InTail
<1>4. \A s \in Sessions : Once(inbox, "result", s) =>
        Once(inbox', "result", s) /\ (Is(m, "result", s) => ~Has(inbox', "result", s))
  BY <1>1, OnceTail
<1>5. ASSUME NEW s \in Sessions, NEW c, NEW d, Leads(s, c, inbox, d)
      PROVE  Leads(s, After(c, m, s), inbox', d)
  BY <1>1, <1>5, LeadsOn
<1>6. ASSUME NEW s \in Sessions
      PROVE  /\ Asked(web, inbox, wire, host, s)'
             /\ (Unborn(host, s) => Unknown(web, inbox, wire, ext, walks, s))'
             /\ (host[s].chat = NoChat => Chatless(web, inbox, wire, ext, s))'
             /\ (host[s].live => /\ Serving(inbox, wire, ext, s) /\ Caught(wire, ext, host, s)
                                 /\ Fed(web, inbox, ext, s))'
  <2>1. /\ Asked(web, inbox, wire, host, s)
        /\ Unborn(host, s) => Unknown(web, inbox, wire, ext, walks, s)
        /\ host[s].chat = NoChat => Chatless(web, inbox, wire, ext, s)
        /\ host[s].live => Serving(inbox, wire, ext, s) /\ Caught(wire, ext, host, s) /\ Fed(web, inbox, ext, s)
    BY <1>1 DEF Sound, Steady
  <2>2. Has(web'.post, "create", s) => Has(web.post, "create", s)
    BY <1>2 DEF Has, Is
  <2>3. Once(web'.post, "create", s)
    BY <2>1 DEF More, Asked
  <2>4. /\ Has(inbox', "result", s) => Has(inbox, "result", s)
        /\ Has(inbox', "chat", s) => Has(inbox, "chat", s)
        /\ Is(m, "result", s) => Has(inbox, "result", s)
        /\ Is(m, "chat", s) => Has(inbox, "chat", s)
        /\ s \in heard' <=> s \in heard \/ Is(m, "chat", s)
    BY <1>3 DEF Has
  <2>5. Asked(web, inbox, wire, host, s)'
    <3>1. /\ Once(inbox', "result", s) /\ (Is(m, "result", s) => ~Has(inbox', "result", s))
      BY <1>4, <2>1 DEF Asked
    <3>2. CASE Is(m, "result", s)
      <4>1. ~Has(inbox', "result", s) /\ ~Has(wire, "result", s) /\ ~Has(web.post, "create", s)
        BY <2>1, <2>4, <3>1, <3>2 DEF Asked
      <4>2. QED
        BY <2>1, <2>2, <2>3, <3>1, <4>1 DEF Asked
    <3>3. CASE ~Is(m, "result", s)
      <4>1. create'[s] = create[s] /\ writer'[s] = writer[s]
        BY <3>3
      <4>2. QED
        BY <2>1, <2>2, <2>3, <2>4, <3>1, <4>1 DEF Asked, Unborn
    <3>4. QED
      BY <3>2, <3>3
  <2>6. (Unborn(host, s) => Unknown(web, inbox, wire, ext, walks, s))'
    <3>1. SUFFICES ASSUME Unborn(host, s) PROVE Unknown(web, inbox, wire, ext, walks, s)'
      BY DEF Unborn
    <3>2. ~Mentions(m, s) /\ Unknown(web, inbox, wire, ext, walks, s)
      BY <1>3, <2>1, <3>1 DEF Unknown
    <3>3. ~Is(m, "chat", s)
      BY <3>2 DEF Is, Mentions
    <3>4. s \notin web'.summaries /\ s \notin heard'
      BY <2>4, <3>2, <3>3 DEF Unknown
    <3>5. \A p \in ToSet(web'.post) : p.m \in {"view", "viewChat"} => p.s # s
      BY <1>2, <3>2 DEF Unknown
    <3>6. QED
      BY <1>3, <3>2, <3>4, <3>5 DEF Unknown
  <2>7. (host[s].chat = NoChat => Chatless(web, inbox, wire, ext, s))'
    BY <1>3, <2>1 DEF Chatless
  <2>8. (host[s].live => Serving(inbox, wire, ext, s) /\ Caught(wire, ext, host, s) /\ Fed(web, inbox, ext, s))'
    <3>1. SUFFICES ASSUME host[s].live
                   PROVE  /\ Serving(inbox, wire, ext, s)' /\ Caught(wire, ext, host, s)'
                          /\ Fed(web, inbox, ext, s)'
      OBVIOUS
    <3>2. Serving(inbox, wire, ext, s)'
      BY <1>3, <2>1, <2>4, <3>1 DEF Serving
    <3>3. Caught(wire, ext, host, s)'
      BY <2>1, <3>1 DEF Caught, Granted, Subscribed
    <3>4. Norm(web'.chats[s]) = After(Norm(web.chats[s]), m, s)
      BY <1>3, <2>1, <3>1 DEF Serving
    <3>5. \A d : Leads(s, Norm(web.chats[s]), inbox, d) => Leads(s, Norm(web'.chats[s]), inbox', d)
      BY <1>5, <3>4
    <3>6. Fed(web, inbox, ext, s)'
      BY <2>1, <2>4, <3>1, <3>5 DEF Fed
    <3>7. QED
      BY <3>2, <3>3, <3>6
  <2>9. QED
    BY <2>5, <2>6, <2>7, <2>8
<1>7. Types(web, inbox, wire, ext, walks, host)'
  BY <1>1, <1>3 DEF Sound, Steady, Types
<1>8. Cold(web, inbox, wire, ext)'
  BY <1>1, <1>3 DEF Sound, Cold
<1>9. ASSUME NEW s \in Sessions, writer[s] = "late"
      PROVE  writer'[s] = "late"
  <2>1. Is(m, "result", s) => Has(inbox, "result", s)
    BY <1>3 DEF Has
  <2>2. ~Is(m, "result", s)
    BY <1>1, <1>9, <2>1 DEF Sound, Steady, Asked
  <2>3. QED
    BY <1>9, <2>2
<1>10. Ledgers' /\ Refusals'
  BY <1>1, <1>9 DEF Ledgers, Refusals
<1>11. Writes(web)'
  <2>1. ASSUME NEW p \in ToSet(web'.post), p.m = "config"
        PROVE  warm' \/ writer'[p.s] = "late"
    <3>1. CASE p \in ToSet(web.post)
      <4>1. warm \/ writer[p.s] = "late"
        BY <1>1, <2>1, <3>1 DEF Writes
      <4>2. p.s \in Sessions
        <5>1. web.post \in Seq(Posts)
          BY <1>1 DEF Sound, Steady, Types, Webs
        <5>2. p \in Posts
          BY <3>1, <5>1, InSeq
        <5>3. QED
          BY <2>1, <5>2 DEF Posts
      <4>3. QED
        BY <1>9, <4>1, <4>2
    <3>2. CASE p \in new
      BY <2>1, <3>2
    <3>3. QED
      BY <1>2, <3>1, <3>2
  <2>2. QED
    BY <2>1 DEF Writes
<1>12. QED
  BY <1>6, <1>7, <1>8, <1>10, <1>11 DEF IInv, Sound, Steady

LEMMA RemovedType ==
    ASSUME NEW V, NEW q \in Seq(V), NEW i \in DOMAIN q
    PROVE  RemoveAt(q, i) \in Seq(V)
<1>1. Len(q) \in Nat /\ DOMAIN q = 1..Len(q) /\ \A j \in 1..Len(q) : q[j] \in V
  BY LenProperties, ElementOfSeq
<1>2. i - 1 \in Int /\ i + 1 \in Int /\ 1 \in Int /\ Len(q) \in Int
  BY <1>1
<1>3. /\ \A j \in 1..(i - 1) : q[j] \in V
      /\ \A j \in (i + 1)..Len(q) : q[j] \in V
  BY <1>1
<1>4. SubSeq(q, 1, i - 1) \in Seq(V) /\ SubSeq(q, i + 1, Len(q)) \in Seq(V)
  BY <1>2, <1>3, SubSeqProperties
<1>5. \A a, b \in Seq(V) : a \o b \in Seq(V)
  BY ConcatProperties
<1>6. SubSeq(q, 1, i - 1) \o SubSeq(q, i + 1, Len(q)) \in Seq(V)
  BY <1>4, <1>5, Zenon
<1>7. QED
  BY <1>6, Zenon DEF RemoveAt

LEMMA PublishWeb ==
    ASSUME NEW w \in Webs, Shown(w), NEW queue \in Seq(Submissions), Publish(w, queue)
    PROVE  /\ web' \in Webs /\ Shown(web') /\ SameFolds(w, web')
           /\ More(w.post, web'.post, TurnPosts)
           /\ waiting' \in Seq(Submissions)
BY FlushedWeb DEF Publish

LEMMA PostKinds ==
    \A s \in Sessions :
        /\ ViewMsg(s) \in Posts /\ ViewMsg(s).m = "view" /\ ViewMsg(s).s = s
        /\ ViewChatMsg(s) \in Posts /\ ViewChatMsg(s).m = "viewChat" /\ ViewChatMsg(s).s = s
        /\ Msg("config", s) \in Posts /\ Msg("config", s).m = "config" /\ Msg("config", s).s = s
        /\ Msg("create", s) \in Posts /\ Msg("create", s).m = "create" /\ Msg("create", s).s = s
        /\ Msg("refresh", NoThread) \in Posts /\ Msg("refresh", NoThread).m = "refresh"
        /\ \A m \in TurnPosts : m.m = "turn"
BY DEF Posts, ViewMsg, ViewChatMsg, Msg, TurnPosts

\* What a store handler takes for granted of the store and the ledgers.
LEMMA Given ==
    ASSUME IInv
    PROVE  /\ web \in Webs /\ Shown(web) /\ Edged(web) /\ web.post \in Seq(Posts)
           /\ waiting \in Seq(Submissions)
           /\ create \in [Sessions -> {"none", "asked", "made", "failed"}]
           /\ writer \in [Sessions -> {"none", "polls", "done", "late"}]
           /\ heard \subseteq Sessions
           /\ web.models => warm
           /\ SameFolds(web, web) /\ More(web.post, web.post, {})
BY MoreSame DEF IInv, Sound, Steady, Types, Webs, Shown, Edged, Ledgers, Cold, SameFolds

LEMMA OpenSound ==
    ASSUME IInv, NEW s \in Sessions, Open(s)
    PROVE  IInv'
<1>1. web \in Webs /\ Shown(web) /\ web.post \in Seq(Posts)
  BY Given
<1>2. web' = OpenRemote(web, s) /\ s \in web.summaries
  BY DEF Open
<1>3. /\ web' \in Webs /\ Shown(web') /\ SameFolds(web, web')
      /\ web'.post = Append(web.post, ViewMsg(s))
  BY <1>1, <1>2, OpenRemoteWeb
<1>4. More(web.post, web'.post, {ViewMsg(s)})
  BY <1>1, <1>3, MoreAppend, PostKinds
<1>5. /\ UNCHANGED <<inbox, wire, ext, walks, host, warm, create, heard, refused>>
      /\ waiting' = waiting /\ writer' = writer
  BY DEF Open, userIdle
<1>6. \A m \in {ViewMsg(s)} : /\ m.m \in {"view", "viewChat"} => m.s \in web.summaries
                              /\ m.m = "config" => warm \/ writer'[m.s] = "late"
  BY <1>2, PostKinds
<1>7. QED
  BY <1>3, <1>4, <1>5, <1>6, Given, PageSound

LEMMA BackSound ==
    ASSUME IInv, Back
    PROVE  IInv'
<1>1. web \in Webs /\ Shown(web)
  BY Given
<1>2. web' = BackToList(web)
  BY DEF Back
<1>3. /\ web' \in Webs /\ Shown(web') /\ SameFolds(web, web') /\ web'.post = web.post
  BY <1>1, <1>2, BackToListWeb
<1>4. More(web.post, web'.post, {})
  BY <1>3, Given
<1>5. /\ UNCHANGED <<inbox, wire, ext, walks, host, warm, create, heard, refused>>
      /\ waiting' = waiting /\ writer' = writer
  BY DEF Back, userIdle
<1>6. QED
  BY <1>3, <1>4, <1>5, Given, PageSound

LEMMA SendSound ==
    ASSUME IInv, NEW s \in Sessions, NEW t \in Turns, NEW exit \in BOOLEAN, Send(s, t, exit)
    PROVE  IInv'
<1> DEFINE w == EchoUser(web, s, t)
           u == IF exit THEN BackToList(w) ELSE w
           queue == Append(waiting, [s |-> s, t |-> t, exit |-> exit])
<1>1. web \in Webs /\ Shown(web) /\ Edged(web) /\ s \in Keys
  BY Given, LocalKey
<1>2. w \in Webs /\ Shown(w) /\ SameFolds(web, w) /\ w.post = web.post
  BY <1>1, EchoUserWeb
<1>3. Publish(u, queue)
  BY DEF Send
<1> HIDE DEF w
<1>4. u \in Webs /\ Shown(u) /\ SameFolds(web, u) /\ u.post = web.post
  BY <1>2, BackToListWeb DEF SameFolds
<1>5. queue \in Seq(Submissions)
  BY Given, InAppend DEF Submissions
<1> HIDE DEF u, queue
<1>6. /\ web' \in Webs /\ Shown(web') /\ SameFolds(u, web')
      /\ More(u.post, web'.post, TurnPosts) /\ waiting' \in Seq(Submissions)
  BY <1>3, <1>4, <1>5, PublishWeb
<1>7. SameFolds(web, web') /\ More(web.post, web'.post, TurnPosts)
  BY <1>4, <1>6 DEF SameFolds
<1>8. /\ UNCHANGED <<inbox, wire, ext, walks, host, warm, create, heard, refused>>
      /\ writer' = writer
  BY DEF Send, userIdle
<1>9. \A m \in TurnPosts : /\ m.m \in {"view", "viewChat"} => m.s \in web.summaries
                           /\ m.m = "config" => warm \/ writer'[m.s] = "late"
  BY PostKinds
<1>10. QED
  BY <1>6, <1>7, <1>8, <1>9, Given, PageSound

LEMMA GiveUpSound ==
    ASSUME IInv, NEW i \in DOMAIN waiting, GiveUp(i)
    PROVE  IInv'
<1>1. waiting' = RemoveAt(waiting, i) /\ waiting \in Seq(Submissions)
  BY Given DEF GiveUp
<1>2. waiting' \in Seq(Submissions)
  BY <1>1, RemovedType
<1>3. /\ UNCHANGED <<inbox, wire, ext, walks, host, warm, create, heard, refused>>
      /\ web' = web /\ writer' = writer
  BY DEF GiveUp, userIdle
<1>4. QED
  BY <1>2, <1>3, Given, PageSound

LEMMA TickSound ==
    ASSUME IInv, Tick
    PROVE  IInv'
<1> DEFINE p == Append(web.post, Msg("refresh", NoThread))
<1>1. web \in Webs /\ Shown(web) /\ web.post \in Seq(Posts)
  BY Given
<1>2. web' = [web EXCEPT !.post = p]
  BY <1>1 DEF Tick, Webs
<1>3. p \in Seq(Posts) /\ More(web.post, p, {Msg("refresh", NoThread)})
  <2>1. Msg("refresh", NoThread) \in Posts /\ Msg("refresh", NoThread).m = "refresh"
    BY DEF Msg, Posts
  <2>2. QED
    BY <1>1, <2>1, MoreAppend
<1> HIDE DEF p
<1>4. web' \in Webs /\ Shown(web') /\ SameFolds(web, web') /\ web'.post = p
  BY <1>1, <1>2, <1>3, PostWeb
<1>5. /\ UNCHANGED <<inbox, wire, ext, walks, host, warm, create, heard, refused>>
      /\ waiting' = waiting /\ writer' = writer
  BY DEF Tick, webIdle
<1>6. QED
  BY <1>3, <1>4, <1>5, Given, PageSound DEF Msg

LEMMA WriteConfigSound ==
    ASSUME IInv, NEW s \in Sessions, WriteConfig(s)
    PROVE  IInv'
<1> DEFINE w == PickModel(web, s)
           p == Append(web.post, Msg("config", s))
           u == [w EXCEPT !.post = p]
<1>1. web \in Webs /\ Shown(web) /\ Edged(web) /\ web.post \in Seq(Posts)
      /\ waiting \in Seq(Submissions)
  BY Given
<1>2. w \in Webs /\ Shown(w) /\ SameFolds(web, w) /\ w.post = web.post
  BY <1>1, PickModelWeb
<1>3. Publish([w EXCEPT !.post = Append(@, Msg("config", s))], waiting)
  BY DEF WriteConfig
<1>4. p \in Seq(Posts) /\ More(web.post, p, {Msg("config", s)})
  BY <1>1, PostKinds, MoreAppend
<1> HIDE DEF w
<1>5. u = [w EXCEPT !.post = Append(@, Msg("config", s))]
  BY <1>2 DEF Webs
<1> HIDE DEF p
<1>6. u \in Webs /\ Shown(u) /\ SameFolds(w, u) /\ u.post = p
  BY <1>2, <1>4, PostWeb
<1>7. Publish(u, waiting)
  BY <1>3, <1>5
<1> HIDE DEF u
<1>8. /\ web' \in Webs /\ Shown(web') /\ SameFolds(u, web')
      /\ More(p, web'.post, TurnPosts) /\ waiting' \in Seq(Submissions)
  BY <1>1, <1>6, <1>7, PublishWeb
<1>9. SameFolds(web, web')
  BY <1>2, <1>6, <1>8 DEF SameFolds
<1>10. More(web.post, web'.post, {Msg("config", s)} \cup TurnPosts)
  BY <1>4, <1>8, MoreMore
<1>11. /\ UNCHANGED <<inbox, wire, ext, walks, host, warm, create, heard, refused>>
       /\ writer[s] = "polls"
       /\ \/ web.models /\ writer' = [writer EXCEPT ![s] = "done"]
          \/ writer' = [writer EXCEPT ![s] = "late"]
  BY DEF WriteConfig, webIdle
<1>12. /\ writer' \in [Sessions -> {"none", "polls", "done", "late"}]
       /\ \A r \in Sessions : writer'[r] = writer[r] \/ writer[r] = "polls"
       /\ warm \/ writer'[s] = "late"
  BY <1>11, Given
<1>13. \A m \in {Msg("config", s)} \cup TurnPosts :
         /\ m.m \in {"view", "viewChat"} => m.s \in web.summaries
         /\ m.m = "config" => warm \/ writer'[m.s] = "late"
  BY <1>12, PostKinds
<1>14. QED
  BY <1>8, <1>9, <1>10, <1>11, <1>12, <1>13, PageSound

LEMMA DraftSound ==
    ASSUME IInv, NEW s \in Sessions, Draft(s)
    PROVE  IInv'
<1> DEFINE w == DraftThread(web, s, Opening[s])
           m == Msg("create", s)
           p == Append(web.post, m)
<1>1. web \in Webs /\ Shown(web) /\ web.post \in Seq(Posts) /\ m \in Posts /\ Opening[s] \in Turns
  BY Given, PostKinds, DraftAssumption
<1>2. w \in Webs /\ Shown(w) /\ SameFolds(web, w) /\ w.post = web.post
  BY <1>1, DraftThreadWeb
<1>3. /\ create[s] = "none" /\ create' = [create EXCEPT ![s] = "asked"]
      /\ web' = [w EXCEPT !.post = Append(@, m)]
      /\ UNCHANGED <<inbox, wire, ext, walks, host, warm, writer, heard, refused, waiting>>
  BY DEF Draft, userIdle
<1> HIDE DEF w
<1>4. web' = [w EXCEPT !.post = p]
  BY <1>2, <1>3 DEF Webs
<1>5. p \in Seq(Posts) /\ ToSet(p) = ToSet(web.post) \cup {m}
  BY <1>1, InAppend
<1>6. \A o \in Sessions : Once(web.post, "create", o) /\ (Is(m, "create", o) => ~Has(web.post, "create", o))
                            => Once(p, "create", o)
  BY <1>1, OnceAppend
<1> HIDE DEF p, m
<1>7. web' \in Webs /\ Shown(web') /\ web'.post = p /\ SameFolds(web, web')
  <2>1. /\ [w EXCEPT !.post = p] \in Webs /\ SameFolds(w, [w EXCEPT !.post = p])
        /\ [w EXCEPT !.post = p].post = p /\ Shown([w EXCEPT !.post = p])
    BY <1>2, <1>5, PostWeb
  <2>2. QED
    BY <1>2, <1>4, <2>1 DEF SameFolds
<1>8. m.m = "create" /\ m.s = s
  BY DEF m, Msg
<1>9. Sound(web, inbox, wire, ext, walks, host) /\ Ledgers /\ Refusals /\ Writes(web)
  BY DEF IInv
<1>10. /\ create' \in [Sessions -> {"none", "asked", "made", "failed"}]
       /\ create'[s] = "asked" /\ \A o \in Sessions \ {s} : create'[o] = create[o]
  BY <1>3, Given
<1>11. ASSUME NEW o \in Sessions
       PROVE  /\ Asked(web, inbox, wire, host, o)'
              /\ (Unborn(host, o) => Unknown(web, inbox, wire, ext, walks, o))'
              /\ (host[o].chat = NoChat => Chatless(web, inbox, wire, ext, o))'
              /\ (host[o].live => /\ Serving(inbox, wire, ext, o) /\ Caught(wire, ext, host, o)
                                  /\ Fed(web, inbox, ext, o))'
  <2>1. /\ Asked(web, inbox, wire, host, o)
        /\ Unborn(host, o) => Unknown(web, inbox, wire, ext, walks, o)
        /\ host[o].chat = NoChat => Chatless(web, inbox, wire, ext, o)
        /\ host[o].live => Serving(inbox, wire, ext, o) /\ Caught(wire, ext, host, o) /\ Fed(web, inbox, ext, o)
    BY <1>9 DEF Sound, Steady
  <2>2. Asked(web, inbox, wire, host, o)'
    <3>1. CASE o = s
      <4>1. ~Has(web.post, "create", s) /\ ~Has(wire, "result", s) /\ ~Has(inbox, "result", s)
            /\ Unborn(host, s) /\ writer[s] = "none"
        BY <1>3, <2>1, <3>1 DEF Asked
      <4>2. Once(p, "create", s)
        BY <1>6, <2>1, <3>1, <4>1 DEF Asked
      <4>3. QED
        BY <1>3, <1>7, <1>10, <2>1, <3>1, <4>1, <4>2 DEF Asked, Unborn
    <3>2. CASE o # s
      <4>1. ~Is(m, "create", o)
        BY <1>8, <3>2 DEF Is
      <4>2. Once(p, "create", o) /\ (Has(p, "create", o) => Has(web.post, "create", o))
        BY <1>5, <1>6, <2>1, <4>1 DEF Asked, Has
      <4>3. create'[o] = create[o]
        BY <1>10, <3>2
      <4>4. QED
        BY <1>3, <1>7, <2>1, <4>2, <4>3 DEF Asked, Unborn
    <3>3. QED
      BY <3>1, <3>2
  <2>3. (Unborn(host, o) => Unknown(web, inbox, wire, ext, walks, o))'
    BY <1>3, <1>5, <1>7, <1>8, <2>1 DEF Unknown, SameFolds, Unborn
  <2>4. (host[o].chat = NoChat => Chatless(web, inbox, wire, ext, o))'
    BY <1>3, <1>7, <2>1 DEF Chatless, SameFolds
  <2>5. (host[o].live => Serving(inbox, wire, ext, o) /\ Caught(wire, ext, host, o) /\ Fed(web, inbox, ext, o))'
    BY <1>3, <1>7, <2>1 DEF Serving, Caught, Granted, Fed, Subscribed, SameFolds
  <2>6. QED
    BY <2>2, <2>3, <2>4, <2>5
<1>12. Types(web, inbox, wire, ext, walks, host)'
  BY <1>3, <1>7, <1>9 DEF Sound, Steady, Types
<1>13. Cold(web, inbox, wire, ext)'
  BY <1>3, <1>7, <1>9 DEF Sound, Cold, SameFolds
<1>14. Ledgers' /\ Refusals'
  BY <1>3, <1>9, <1>10 DEF Ledgers, Refusals
<1>15. Writes(web)'
  BY <1>3, <1>5, <1>7, <1>8, <1>9 DEF Writes
<1>16. QED
  BY <1>7, <1>11, <1>12, <1>13, <1>14, <1>15 DEF IInv, Sound, Steady

\* The answer to newSession: the draft becomes the session, and is viewed.
LEMMA CreatedWeb ==
    ASSUME NEW w \in Webs, Shown(w), NEW s \in Sessions
    PROVE  LET v == Created(w, s) IN
           /\ v \in Webs /\ Shown(v) /\ SameFolds(w, v)
           /\ More(w.post, v.post, IF w.models THEN {Msg("config", s), ViewMsg(s)} ELSE {ViewMsg(s)})
<1> DEFINE k == PickModel(w, s)
           p == Append(w.post, Msg("config", s))
           u == IF w.models THEN [k EXCEPT !.post = p] ELSE w
           c == ConfirmDraft(u, s)
           new == IF w.models THEN {Msg("config", s)} ELSE {}
<1>1. k \in Webs /\ Shown(k) /\ SameFolds(w, k) /\ k.post = w.post
  BY PickModelWeb DEF Shown, Edged
<1>2. p \in Seq(Posts) /\ More(w.post, p, {Msg("config", s)})
  BY PostKinds, MoreAppend DEF Webs
<1>3. Created(w, s) = OpenRemote(c, s)
  <2>1. [k EXCEPT !.post = Append(@, Msg("config", s))] = [k EXCEPT !.post = p]
    BY <1>1 DEF Webs
  <2>2. QED
    BY <2>1 DEF Created
<1> HIDE DEF k, p
<1>4. u \in Webs /\ Shown(u) /\ SameFolds(w, u) /\ More(w.post, u.post, new)
  <2>1. CASE w.models
    <3>1. /\ [k EXCEPT !.post = p] \in Webs /\ SameFolds(k, [k EXCEPT !.post = p])
          /\ [k EXCEPT !.post = p].post = p /\ Shown([k EXCEPT !.post = p])
      BY <1>1, <1>2, PostWeb
    <3>2. QED
      BY <1>1, <1>2, <2>1, <3>1 DEF SameFolds
  <2>2. CASE ~w.models
    BY <2>2, MoreSame DEF SameFolds
  <2>3. QED
    BY <2>1, <2>2
<1> HIDE DEF u
<1>5. c \in Webs /\ Shown(c) /\ SameFolds(u, c) /\ c.post = u.post
  BY <1>4, ConfirmDraftWeb
<1> HIDE DEF c
<1>6. /\ OpenRemote(c, s) \in Webs /\ Shown(OpenRemote(c, s)) /\ SameFolds(c, OpenRemote(c, s))
      /\ OpenRemote(c, s).post = Append(c.post, ViewMsg(s))
  BY <1>5, OpenRemoteWeb
<1>7. More(c.post, Append(c.post, ViewMsg(s)), {ViewMsg(s)})
  BY <1>5, PostKinds, MoreAppend DEF Webs
<1>8. More(w.post, OpenRemote(c, s).post, new \cup {ViewMsg(s)})
  BY <1>4, <1>5, <1>6, <1>7, MoreMore
<1>9. new \cup {ViewMsg(s)} = IF w.models THEN {Msg("config", s), ViewMsg(s)} ELSE {ViewMsg(s)}
  OBVIOUS
<1>10. SameFolds(w, OpenRemote(c, s))
  BY <1>4, <1>5, <1>6 DEF SameFolds
<1>11. QED
  BY <1>3, <1>6, <1>8, <1>9, <1>10

\* A message that the store folds.
LEMMA PushHeard ==
    ASSUME IInv, inbox # <<>>, NEW m, m = Head(inbox), inbox' = Tail(inbox),
           UNCHANGED <<wire, ext, walks, host, warm, refused, create, writer>>,
           NEW w \in Webs, Shown(w), Publish(w, waiting),
           w.post = web.post \/ (m.m \in {"row", "added"} /\ w.post = Append(web.post, ViewChatMsg(m.s))),
           w.models => warm,
           \A s \in w.summaries : s \in web.summaries \/ (m.m \in {"row", "added"} /\ s = m.s),
           heard' = heard \cup {s \in Sessions : Is(m, "chat", s)},
           \A s \in Sessions : /\ w.chats[s] # NoChat =>
                                    web.chats[s] # NoChat \/ Is(m, "act", s) \/ Is(m, "chat", s)
                               /\ Is(m, "removed", s)
                                    \/ Norm(w.chats[s]) = After(Norm(web.chats[s]), m, s)
    PROVE  IInv'
<1> DEFINE new == IF w.post = web.post THEN {} ELSE {ViewChatMsg(m.s)}
<1>1. /\ web \in Webs /\ web.post \in Seq(Posts) /\ waiting \in Seq(Submissions)
      /\ create' \in [Sessions -> {"none", "asked", "made", "failed"}]
      /\ writer' \in [Sessions -> {"none", "polls", "done", "late"}]
  BY Given
<1>2. /\ web' \in Webs /\ Shown(web') /\ SameFolds(w, web')
      /\ More(w.post, web'.post, TurnPosts) /\ waiting' \in Seq(Submissions)
  BY <1>1, PublishWeb
<1>3. inbox \in Seq(Messages) /\ m \in Messages
  BY InTail DEF IInv, Sound, Steady, Types
<1>4. m.m # "models" => m.s \in Sessions
  BY <1>3, FrameKinds
<1>5. w.post # web.post => m.m \in {"row", "added"} /\ w.post = Append(web.post, ViewChatMsg(m.s))
  OBVIOUS
<1>6. More(web.post, w.post, new)
  <2>1. CASE w.post = web.post
    BY <2>1, MoreSame
  <2>2. CASE w.post # web.post
    <3>1. ViewChatMsg(m.s) \in Posts /\ ViewChatMsg(m.s).m # "create"
      BY <1>4, <1>5, <2>2, PostKinds
    <3>2. More(web.post, Append(web.post, ViewChatMsg(m.s)), {ViewChatMsg(m.s)})
      BY <1>1, <3>1, MoreAppend
    <3>3. QED
      BY <1>5, <2>2, <3>2
  <2>3. QED
    BY <2>1, <2>2
<1>7. More(web.post, web'.post, new \cup TurnPosts)
  BY <1>2, <1>6, MoreMore
<1>8. \A p \in new \cup TurnPosts : /\ p.m \in {"view", "viewChat"} => Mentions(m, p.s)
                                    /\ p.m = "config" => warm
  <2>1. ASSUME NEW p \in new
        PROVE  p.m = "viewChat" /\ Mentions(m, p.s)
    <3>1. p = ViewChatMsg(m.s) /\ m.m \in {"row", "added"}
      BY <1>5, <2>1
    <3>2. p.m = "viewChat" /\ p.s = m.s
      BY <3>1 DEF ViewChatMsg
    <3>3. QED
      BY <3>1, <3>2 DEF Mentions
  <2>2. \A p \in TurnPosts : p.m = "turn"
    BY DEF TurnPosts
  <2>3. QED
    BY <2>1, <2>2
<1>9. web'.models => warm
  BY <1>2 DEF SameFolds
<1>10. \A s \in web'.summaries : s \in web.summaries \/ Mentions(m, s)
  BY <1>2 DEF SameFolds, Mentions
<1>11. \A s \in Sessions : /\ web'.chats[s] # NoChat =>
                                web.chats[s] # NoChat \/ Is(m, "act", s) \/ Is(m, "chat", s)
                           /\ Is(m, "removed", s)
                                \/ Norm(web'.chats[s]) = After(Norm(web.chats[s]), m, s)
  BY <1>2 DEF SameFolds
<1> HIDE DEF new
<1>12. \A s \in Sessions : create'[s] = create[s] /\ writer'[s] = writer[s]
  OBVIOUS
<1>13. QED
  BY <1>1, <1>2, <1>7, <1>8, <1>9, <1>10, <1>11, <1>12, HearSound

LEMMA ResultHeard ==
    ASSUME IInv, inbox # <<>>, NEW m, m = Head(inbox), inbox' = Tail(inbox), m.m = "result",
           UNCHANGED <<wire, ext, walks, host, warm, refused>>, TakeResult(m)
    PROVE  IInv'
<1>1. /\ web \in Webs /\ Shown(web) /\ web.post \in Seq(Posts) /\ waiting \in Seq(Submissions)
      /\ create \in [Sessions -> {"none", "asked", "made", "failed"}]
      /\ writer \in [Sessions -> {"none", "polls", "done", "late"}]
      /\ web.models => warm
      /\ SameFolds(web, web) /\ More(web.post, web.post, {})
  BY Given
<1>2. inbox \in Seq(Messages) /\ m \in Messages
  BY InTail DEF IInv, Sound, Steady, Types
<1>3. m \in Results /\ m.s \in Sessions /\ Is(m, "result", m.s)
  BY <1>2, FrameKinds DEF Is
<1>4. \A s \in Sessions : ~Is(m, "chat", s) /\ ~Is(m, "act", s) /\ ~Answering(m, s) /\ ~Is(m, "removed", s)
                          /\ (Is(m, "result", s) <=> s = m.s)
  BY DEF Is, Answering
<1>5. \A s \in Sessions : \A c : After(c, m, s) = c
  BY <1>4 DEF After
<1>6. heard' = heard
  BY DEF TakeResult
<1>7. heard' = heard \cup {s \in Sessions : Is(m, "chat", s)}
  BY <1>4, <1>6
<1>8. CASE m.ok
  <2> DEFINE w == Created(web, m.s)
             queue == Append(waiting, [s |-> m.s, t |-> Opening[m.s], exit |-> FALSE])
             new == IF web.models THEN {Msg("config", m.s), ViewMsg(m.s)} ELSE {ViewMsg(m.s)}
  <2>1. w \in Webs /\ Shown(w) /\ SameFolds(web, w) /\ More(web.post, w.post, new)
    BY <1>1, <1>3, CreatedWeb
  <2>2. queue \in Seq(Submissions)
    BY <1>1, <1>3, DraftAssumption, InAppend DEF Submissions
  <2>3. /\ Publish(w, queue)
        /\ create' = [create EXCEPT ![m.s] = "made"]
        /\ writer' = [writer EXCEPT ![m.s] = IF web.models THEN "done" ELSE "polls"]
    BY <1>8 DEF TakeResult
  <2> HIDE DEF w, queue
  <2>4. /\ web' \in Webs /\ Shown(web') /\ SameFolds(w, web')
        /\ More(w.post, web'.post, TurnPosts) /\ waiting' \in Seq(Submissions)
    BY <2>1, <2>2, <2>3, PublishWeb
  <2>5. SameFolds(web, web') /\ More(web.post, web'.post, new \cup TurnPosts)
    BY <2>1, <2>4, MoreMore DEF SameFolds
  <2>6. \A p \in new \cup TurnPosts : /\ p.m \in {"view", "viewChat"} => Mentions(m, p.s)
                                      /\ p.m = "config" => warm
    BY <1>1, <1>3, <1>8, PostKinds DEF Mentions
  <2> HIDE DEF new
  <2>7. /\ create' \in [Sessions -> {"none", "asked", "made", "failed"}]
        /\ writer' \in [Sessions -> {"none", "polls", "done", "late"}]
        /\ create'[m.s] # "none"
        /\ \A s \in Sessions \ {m.s} : create'[s] = create[s] /\ writer'[s] = writer[s]
    BY <1>1, <1>3, <2>3
  <2>8. \A s \in Sessions : \/ Is(m, "result", s) /\ create'[s] # "none"
                            \/ create'[s] = create[s] /\ writer'[s] = writer[s]
    BY <1>4, <2>7
  <2>9. /\ web'.models => warm
        /\ \A s \in web'.summaries : s \in web.summaries \/ Mentions(m, s)
        /\ \A s \in Sessions : /\ web'.chats[s] # NoChat =>
                                    web.chats[s] # NoChat \/ Is(m, "act", s) \/ Is(m, "chat", s)
                               /\ Is(m, "removed", s)
                                    \/ Norm(web'.chats[s]) = After(Norm(web.chats[s]), m, s)
    BY <1>1, <1>5, <2>5 DEF SameFolds
  <2>10. QED
    BY <1>7, <2>4, <2>5, <2>6, <2>7, <2>8, <2>9, HearSound
<1>9. CASE ~m.ok
  <2>1. /\ web' = web /\ waiting' = waiting /\ writer' = writer
        /\ create' = [create EXCEPT ![m.s] = "failed"]
    BY <1>9 DEF TakeResult
  <2>2. /\ create' \in [Sessions -> {"none", "asked", "made", "failed"}]
        /\ create'[m.s] # "none"
        /\ \A s \in Sessions \ {m.s} : create'[s] = create[s] /\ writer'[s] = writer[s]
    BY <1>1, <1>3, <2>1
  <2>3. \A s \in Sessions : \/ Is(m, "result", s) /\ create'[s] # "none"
                            \/ create'[s] = create[s] /\ writer'[s] = writer[s]
    BY <1>4, <2>2
  <2>4. \A s \in Sessions : Norm(web.chats[s]) = After(Norm(web.chats[s]), m, s)
    BY <1>5
  <2>5. QED
    BY <1>1, <1>7, <2>1, <2>2, <2>3, <2>4, HearSound
<1>10. QED
  BY <1>8, <1>9

LEMMA ReceiveSound ==
    ASSUME IInv, Receive
    PROVE  IInv'
<1> DEFINE m == Head(inbox)
<1>1. /\ inbox # <<>> /\ inbox' = Tail(inbox)
      /\ UNCHANGED <<wire, ext, walks, host, warm, refused>>
  BY DEF Receive, webIdle
<1>2. inbox \in Seq(Messages) /\ m \in Messages /\ m \in ToSet(inbox)
  BY <1>1, InTail DEF IInv, Sound, Steady, Types
<1>3. /\ m.m = "result" => TakeResult(m)
      /\ m.m = "row" => TakePush(SessionSnapshot(web, m.s, m.record))
      /\ m.m = "added" => TakePush(Upsert(web, m.s))
      /\ m.m = "removed" => TakePush(Drop(web, m.s))
      /\ m.m = "models" => TakePush(ModelsFolded(web, m.some))
      /\ m.m = "act" => TakePush(ChatAction(web, m.s, m.act))
      /\ m.m = "named" => TakePush(Published(web))
      /\ m.m = "chat" => /\ Publish(ChatSnapshot(web, m.s, m.chat), waiting)
                         /\ heard' = heard \cup {m.s}
                         /\ UNCHANGED <<create, writer>>
  BY DEF Receive
<1>4. /\ web \in Webs /\ Shown(web) /\ Edged(web) /\ (web.models => warm) /\ heard \subseteq Sessions
  BY Given
<1>5. m.m \in {"result", "added", "removed", "named", "models", "act", "row", "chat"}
  BY <1>2, FrameKinds
<1>6. \A c : NoChat # c => Norm(c) = c
  BY DEF Norm
<1>7. m.m = "models" => (m.some => warm)
  BY <1>2 DEF IInv, Sound, Cold
<1>8. /\ m.m # "models" => m.s \in Sessions
      /\ m.m = "act" => m \in Acts
      /\ m.m = "row" => m \in RowPushes
      /\ m.m = "chat" => m \in ChatPushes
      /\ m.m = "models" => m.some \in BOOLEAN
  BY <1>2, FrameKinds
<1> HIDE DEF m
<1>9. m.m # "chat" => heard \cup {s \in Sessions : Is(m, "chat", s)} = heard
  BY DEF Is
<1>10. \A w : TakePush(w) => Publish(w, waiting) /\ UNCHANGED <<create, writer, heard>>
  BY DEF TakePush
<1>11. \A s \in Sessions : \A c : m.m \notin {"act", "chat"} => After(c, m, s) = c
  BY <1>5 DEF After, Is, Answering
<1>12. CASE m.m = "result"
  BY <1>1, <1>3, <1>12, ResultHeard DEF m
<1>13. CASE m.m = "row"
  <2> DEFINE w == SessionSnapshot(web, m.s, m.record)
  <2>1. m.record \in Records
    BY <1>8, <1>13 DEF RowPushes
  <2>2. /\ w \in Webs /\ Shown(w) /\ w.chats = web.chats /\ w.models = web.models
        /\ w.summaries = web.summaries \cup {m.s}
        /\ w.post = web.post \/ w.post = Append(web.post, ViewChatMsg(m.s))
    BY <1>4, <1>8, <1>13, <2>1, SessionSnapshotWeb
  <2>3. Publish(w, waiting) /\ UNCHANGED <<create, writer, heard>>
    BY <1>3, <1>10, <1>13
  <2> HIDE DEF w
  <2>4. \A s \in Sessions : Norm(w.chats[s]) = After(Norm(web.chats[s]), m, s)
    BY <1>11, <1>13, <2>2
  <2>5. QED
    BY <1>1, <1>4, <1>9, <1>13, <2>2, <2>3, <2>4, PushHeard DEF m
<1>14. CASE m.m = "added"
  <2> DEFINE w == Upsert(web, m.s)
  <2>1. /\ w \in Webs /\ Shown(w) /\ w.chats = web.chats /\ w.models = web.models
        /\ w.summaries = web.summaries \cup {m.s}
        /\ w.post = web.post \/ w.post = Append(web.post, ViewChatMsg(m.s))
    BY <1>4, <1>8, <1>14, UpsertWeb
  <2>2. Publish(w, waiting) /\ UNCHANGED <<create, writer, heard>>
    BY <1>3, <1>10, <1>14
  <2> HIDE DEF w
  <2>3. \A s \in Sessions : Norm(w.chats[s]) = After(Norm(web.chats[s]), m, s)
    BY <1>11, <1>14, <2>1
  <2>4. QED
    BY <1>1, <1>4, <1>9, <1>14, <2>1, <2>2, <2>3, PushHeard DEF m
<1>15. CASE m.m = "removed"
  <2> DEFINE w == Drop(web, m.s)
  <2>1. /\ w \in Webs /\ Shown(w) /\ w.models = web.models /\ w.summaries \subseteq web.summaries
        /\ w.post = web.post
        /\ \A r \in Sessions : w.chats[r] = web.chats[r] \/ (r = m.s /\ w.chats[r] = NoChat)
    BY <1>4, <1>8, <1>15, DropWeb
  <2>2. Publish(w, waiting) /\ UNCHANGED <<create, writer, heard>>
    BY <1>3, <1>10, <1>15
  <2> HIDE DEF w
  <2>3. \A s \in Sessions : /\ w.chats[s] # NoChat => web.chats[s] # NoChat
                            /\ Is(m, "removed", s) \/ Norm(w.chats[s]) = After(Norm(web.chats[s]), m, s)
    BY <1>11, <1>15, <2>1 DEF Is
  <2>4. QED
    BY <1>1, <1>4, <1>9, <1>15, <2>1, <2>2, <2>3, PushHeard DEF m
<1>16. CASE m.m = "models"
  <2> DEFINE w == ModelsFolded(web, m.some)
  <2>1. /\ w \in Webs /\ Shown(w) /\ w.models = m.some /\ w.summaries = web.summaries
        /\ w.post = web.post /\ w.chats = web.chats
    BY <1>4, <1>8, <1>16, ModelsFoldedWeb
  <2>2. Publish(w, waiting) /\ UNCHANGED <<create, writer, heard>>
    BY <1>3, <1>10, <1>16
  <2> HIDE DEF w
  <2>3. \A s \in Sessions : Norm(w.chats[s]) = After(Norm(web.chats[s]), m, s)
    BY <1>11, <1>16, <2>1
  <2>4. QED
    BY <1>1, <1>7, <1>9, <1>16, <2>1, <2>2, <2>3, PushHeard DEF m
<1>17. CASE m.m = "act"
  <2> DEFINE w == ChatAction(web, m.s, m.act)
  <2>1. m.act \in Actions
    BY <1>8, <1>17 DEF Acts
  <2>2. /\ w \in Webs /\ Shown(w) /\ w.models = web.models /\ w.summaries = web.summaries
        /\ w.post = web.post
        /\ w.chats = [web.chats EXCEPT ![m.s] = Reduce(Norm(web.chats[m.s]), m.act)]
    BY <1>4, <1>8, <1>17, <2>1, ChatActionWeb
  <2>3. Publish(w, waiting) /\ UNCHANGED <<create, writer, heard>>
    BY <1>3, <1>10, <1>17
  <2> HIDE DEF w
  <2>4. web.chats \in [Sessions -> Chats]
    BY <1>4 DEF Webs
  <2>5. ASSUME NEW s \in Sessions
        PROVE  /\ w.chats[s] # NoChat => web.chats[s] # NoChat \/ Is(m, "act", s)
               /\ Norm(w.chats[s]) = After(Norm(web.chats[s]), m, s)
    <3>1. CASE s = m.s
      <4>1. Is(m, "act", s) /\ w.chats[s] = Reduce(Norm(web.chats[s]), m.act)
        BY <1>17, <2>2, <2>4, <3>1 DEF Is
      <4>2. web.chats[s] \in Chats
        BY <2>4
      <4>3. Norm(web.chats[s]) \in Chat
        BY <4>2, NormType
      <4>4. Reduce(Norm(web.chats[s]), m.act) \in Chat
        BY <2>1, <4>3, ReduceType
      <4>5. Norm(w.chats[s]) = w.chats[s]
        BY <4>1, <4>4, NormType
      <4>6. QED
        BY <4>1, <4>5 DEF After
    <3>2. CASE s # m.s
      <4>1. ~Is(m, "act", s) /\ ~Is(m, "chat", s) /\ ~Answering(m, s) /\ w.chats[s] = web.chats[s]
        BY <1>17, <2>2, <2>4, <3>2 DEF Is, Answering
      <4>2. QED
        BY <4>1 DEF After
    <3>3. QED
      BY <3>1, <3>2
  <2>6. QED
    BY <1>1, <1>4, <1>9, <1>17, <2>2, <2>3, <2>5, PushHeard DEF m
<1>18. CASE m.m = "named"
  <2> DEFINE w == Published(web)
  <2>1. w \in Webs /\ Shown(w) /\ SameFolds(web, w) /\ w.post = web.post
    BY <1>4, PublishedWeb
  <2>2. Publish(w, waiting) /\ UNCHANGED <<create, writer, heard>>
    BY <1>3, <1>10, <1>18
  <2> HIDE DEF w
  <2>3. w.chats = web.chats /\ w.models = web.models /\ w.summaries = web.summaries
    BY <2>1 DEF SameFolds
  <2>4. \A s \in Sessions : Norm(w.chats[s]) = After(Norm(web.chats[s]), m, s)
    BY <1>11, <1>18, <2>3
  <2>5. QED
    BY <1>1, <1>4, <1>9, <1>18, <2>1, <2>2, <2>3, <2>4, PushHeard DEF m
<1>19. CASE m.m = "chat"
  <2> DEFINE w == ChatSnapshot(web, m.s, m.chat)
  <2>1. m.chat \in Chats
    BY <1>8, <1>19 DEF ChatPushes, Chats
  <2>2. /\ w \in Webs /\ Shown(w) /\ w.models = web.models /\ w.summaries = web.summaries
        /\ w.post = web.post /\ w.chats = [web.chats EXCEPT ![m.s] = m.chat]
    BY <1>4, <1>8, <1>19, <2>1, ChatSnapshotWeb
  <2>3. Publish(w, waiting) /\ heard' = heard \cup {m.s} /\ UNCHANGED <<create, writer>>
    BY <1>3, <1>19
  <2>4. heard' = heard \cup {s \in Sessions : Is(m, "chat", s)}
    BY <1>8, <1>19, <2>3 DEF Is
  <2> HIDE DEF w
  <2>5. web.chats \in [Sessions -> Chats]
    BY <1>4 DEF Webs
  <2>6. ASSUME NEW s \in Sessions
        PROVE  /\ w.chats[s] # NoChat => web.chats[s] # NoChat \/ Is(m, "chat", s)
               /\ Norm(w.chats[s]) = After(Norm(web.chats[s]), m, s)
    <3>1. CASE s = m.s
      <4>1. Is(m, "chat", s) /\ ~Is(m, "act", s) /\ w.chats[s] = m.chat
        BY <1>19, <2>2, <2>5, <3>1 DEF Is
      <4>2. QED
        BY <4>1 DEF After
    <3>2. CASE s # m.s
      <4>1. ~Is(m, "act", s) /\ ~Is(m, "chat", s) /\ ~Answering(m, s) /\ w.chats[s] = web.chats[s]
        BY <1>19, <2>2, <2>5, <3>2 DEF Is, Answering
      <4>2. QED
        BY <4>1 DEF After
    <3>3. QED
      BY <3>1, <3>2
  <2>7. QED
    BY <1>1, <1>4, <1>19, <2>2, <2>3, <2>4, <2>6, PushHeard DEF m
<1>20. QED
  BY <1>5, <1>12, <1>13, <1>14, <1>15, <1>16, <1>17, <1>18, <1>19
-----------------------------------------------------------------------------
\* A step of the extension or of the host.
LEMMA SteadyMove ==
    ASSUME UNCHANGED <<create, writer, heard>>, Steady(web', inbox', wire', ext', walks', host')
    PROVE  Steady(web, inbox, wire, ext, walks, host)'
<1>1. ASSUME NEW s \in Sessions
      PROVE  /\ Asked(web, inbox, wire, host, s)'
             /\ (Unborn(host, s) => Unknown(web, inbox, wire, ext, walks, s))'
             /\ (host[s].chat = NoChat => Chatless(web, inbox, wire, ext, s))'
             /\ (host[s].live => /\ Serving(inbox, wire, ext, s) /\ Caught(wire, ext, host, s)
                                 /\ Fed(web, inbox, ext, s))'
  <2>1. /\ Asked(web', inbox', wire', host', s)
        /\ Unborn(host', s) => Unknown(web', inbox', wire', ext', walks', s)
        /\ host'[s].chat = NoChat => Chatless(web', inbox', wire', ext', s)
        /\ host'[s].live => /\ Serving(inbox', wire', ext', s) /\ Caught(wire', ext', host', s)
                            /\ Fed(web', inbox', ext', s)
    BY DEF Steady
  <2>2. Asked(web, inbox, wire, host, s)'
    BY <2>1 DEF Asked, Unborn
  <2>3. (Unborn(host, s) => Unknown(web, inbox, wire, ext, walks, s))'
    BY <2>1 DEF Unknown, Unborn
  <2>4. (host[s].chat = NoChat => Chatless(web, inbox, wire, ext, s))'
    BY <2>1 DEF Chatless
  <2>5. (host[s].live => /\ Serving(inbox, wire, ext, s) /\ Caught(wire, ext, host, s)
                         /\ Fed(web, inbox, ext, s))'
    BY <2>1 DEF Serving, Caught, Granted, Fed, Subscribed
  <2>6. QED
    BY <2>2, <2>3, <2>4, <2>5
<1>2. Types(web, inbox, wire, ext, walks, host)'
  BY DEF Steady, Types
<1>3. QED
  BY <1>1, <1>2 DEF Steady

LEMMA HostMove ==
    ASSUME IInv, UNCHANGED <<warm, create, writer, heard, waiting>>,
           Sound(web', inbox', wire', ext', walks', host'), Shown(web'), Writes(web'),
           \A s \in refused' : s \in Sessions /\ writer[s] = "late"
    PROVE  IInv'
<1>1. Steady(web, inbox, wire, ext, walks, host)'
  BY SteadyMove DEF Sound
<1>2. Cold(web, inbox, wire, ext)'
  BY DEF Sound, Cold
<1>3. Ledgers' /\ Refusals'
  BY DEF IInv, Ledgers, Refusals
<1>4. Shown(web)' /\ Writes(web)'
  BY DEF Shown, Writes
<1>5. QED
  BY <1>1, <1>2, <1>3, <1>4 DEF IInv, Sound

LEMMA ConcatTwo ==
    ASSUME NEW V, NEW q \in Seq(V), NEW d \in V, NEW e \in V
    PROVE  q \o <<d, e>> = Append(Append(q, d), e) /\ q \o <<d>> = Append(q, d)
OBVIOUS

\* An action reaches the client if it is served the chat.
EnvelopeFrames(s, a) ==
    \A q \in Seq(Frames) :
        q \o Envelope(s, a) = IF host[s].served THEN Append(q, ActionPush(s, a)) ELSE q

LEMMA EnvelopeIs ==
    ASSUME NEW s \in Sessions, NEW a \in Actions
    PROVE  EnvelopeFrames(s, a) /\ ActionPush(s, a) \in Frames
<1> DEFINE f == ActionPush(s, a)
<1>1. f \in Frames
  BY DEF ActionPush, Frames, Acts
<1>2. Envelope(s, a) = IF host[s].served THEN <<f>> ELSE <<>>
  BY DEF Envelope
<1> HIDE DEF f
<1>3. \A q \in Seq(Frames) : q \o <<f>> = Append(q, f) /\ q \o <<>> = q
  BY <1>1
<1>4. QED
  BY <1>1, <1>2, <1>3 DEF EnvelopeFrames, f

\* The host makes the session, or refuses to.
LEMMA HostCreatesSound ==
    ASSUME NEW w, NEW s \in Sessions, Sound(w, inbox, wire, ext, walks, host),
           Unborn(host, s), ~Has(w.post, "create", s),
           ~Has(wire, "result", s), ~Has(inbox, "result", s),
           create[s] = "asked", writer[s] = "none", HostCreates(s)
    PROVE  Sound(w, inbox, wire', ext, walks, host')
<1> DEFINE good == ResultNote(s, TRUE)
           bad == ResultNote(s, FALSE)
           note == Note("added", s)
<1>1. wire \in Seq(Frames) /\ host \in [Sessions -> Hosts]
  BY DEF Sound, Steady, Types
<1>2. good \in Frames /\ note \in Frames /\ note.m = "added" /\ note.s = s
  BY DEF ResultNote, Note, Frames, Results, Notes
<1>3. CASE wire' = Append(wire, bad) /\ host' = host
  BY <1>3, ResultSound
<1>4. ASSUME NEW named \in BOOLEAN,
             host' = [host EXCEPT ![s].live = TRUE, ![s].named = named],
             wire' \in {wire \o <<good, note>>, wire \o <<note, good>>}
      PROVE  Sound(w, inbox, wire', ext, walks, host')
  <2>1. /\ host' \in [Sessions -> Hosts] /\ host'[s].live /\ host'[s].chat = NoChat
        /\ \A o \in Sessions \ {s} : host'[o] = host[o]
    BY <1>1, <1>4 DEF Hosts, Unborn
  <2>2. Sound(w, inbox, wire, ext, walks, host')
    BY <2>1, BirthSound
  <2>3. ~Unborn(host', s)
    BY <2>1 DEF Unborn
  <2>4. \A o \in Sessions : (Mentions(note, o) => ~Unborn(host', o)) /\ ~Is(note, "removed", o)
    BY <1>2, <2>3 DEF Mentions, Is
  <2> HIDE DEF note
  <2>5. CASE wire' = wire \o <<good, note>>
    <3>1. wire' = Append(Append(wire, good), note)
      <4>1. \A d, e \in Frames : wire \o <<d, e>> = Append(Append(wire, d), e)
        BY <1>1, ConcatTwo
      <4>2. wire \o <<good, note>> = Append(Append(wire, good), note)
        BY <1>2, <4>1, Zenon
      <4>3. QED
        BY <2>5, <4>2
    <3>2. Sound(w, inbox, Append(wire, good), ext, walks, host')
      BY <2>2, <2>3, ResultSound
    <3> HIDE DEF good
    <3>3. QED
      BY <1>2, <2>4, <3>1, <3>2, NoteSound
  <2>6. CASE wire' = wire \o <<note, good>>
    <3>1. wire' = Append(Append(wire, note), good)
      <4>1. \A d, e \in Frames : wire \o <<d, e>> = Append(Append(wire, d), e)
        BY <1>1, ConcatTwo
      <4>2. wire \o <<note, good>> = Append(Append(wire, note), good)
        BY <1>2, <4>1, Zenon
      <4>3. QED
        BY <2>6, <4>2
    <3>2. Sound(w, inbox, Append(wire, note), ext, walks, host')
      BY <1>2, <2>2, <2>4, NoteSound
    <3>3. ~Has(Append(wire, note), "result", s)
      <4>1. ToSet(Append(wire, note)) = ToSet(wire) \cup {note}
        BY <1>1, <1>2, InAppend
      <4>2. QED
        BY <1>2, <4>1 DEF Has, Is
    <3>4. QED
      BY <2>3, <3>1, <3>2, <3>3, ResultSound
  <2>7. QED
    BY <1>4, <2>5, <2>6
<1>5. QED
  BY <1>3, <1>4 DEF HostCreates

\* The host takes a turn.
LEMMA HostTurnSound ==
    ASSUME NEW w, NEW s \in Sessions, NEW t \in Turns, NEW exit \in BOOLEAN,
           Sound(w, inbox, wire, ext, walks, host), HostTurn(s, t, exit)
    PROVE  Sound(w, inbox, wire', ext, walks, host')
<1>1. wire \in Seq(Frames) /\ host \in [Sessions -> Hosts]
  BY DEF Sound, Steady, Types
<1>0. host[s] \in Hosts
  BY <1>1
<1>7. CASE ~host[s].live
  BY <1>7 DEF HostTurn
<1>2. CASE host[s].live /\ host[s].chat = NoChat
  <2>1. PICK takes \in BOOLEAN :
          /\ host' = [host EXCEPT
               ![s].coming = TRUE,
               ![s].live = ~(takes /\ exit),
               ![s].parked = IF takes /\ ~exit THEN Append(@, t) ELSE @]
          /\ wire' = IF takes /\ exit THEN Append(wire, Note("removed", s)) ELSE wire
    BY <1>2 DEF HostTurn
  <2> DEFINE p == IF takes /\ ~exit THEN Append(host[s].parked, t) ELSE host[s].parked
             l == ~(takes /\ exit)
             note == Note("removed", s)
  <2>2. p \in Seq(Turns)
    BY <1>0, InAppend DEF Hosts
  <2>3. l \in BOOLEAN /\ host' = [host EXCEPT ![s].coming = TRUE, ![s].live = l, ![s].parked = p]
        /\ wire' = IF l THEN wire ELSE Append(wire, note)
    BY <1>1, <2>1
  <2> HIDE DEF p, l
  <2>4. /\ host' \in [Sessions -> Hosts] /\ host'[s].live = l /\ host'[s].chat = NoChat
        /\ host'[s].coming /\ host'[s].served = host[s].served
        /\ \A o \in Sessions \ {s} : host'[o] = host[o]
    BY <1>0, <1>1, <1>2, <2>2, <2>3 DEF Hosts
  <2>5. \A o \in Sessions : /\ host'[o].live => host[o].live
                            /\ Unborn(host', o) <=> Unborn(host, o)
                            /\ host'[o].chat = NoChat => host[o].chat = NoChat
                            /\ host'[o].served = host[o].served
                            /\ host[o].served => Norm(host'[o].chat) = Norm(host[o].chat)
    BY <1>2, <2>4 DEF Unborn
  <2>6. Sound(w, inbox, wire, ext, walks, host')
    BY <2>4, <2>5, HostSound
  <2>7. note \in Frames /\ note.m = "removed" /\ note.s = s
    BY DEF Note, Frames, Notes
  <2> HIDE DEF note
  <2>8. CASE l
    BY <2>3, <2>6, <2>8
  <2>9. CASE ~l
    <3>1. \A o \in Sessions : /\ Mentions(note, o) => ~Unborn(host', o)
                              /\ Is(note, "removed", o) => ~host'[o].live
      BY <2>4, <2>7, <2>9 DEF Mentions, Is, Unborn
    <3>2. QED
      BY <2>3, <2>6, <2>7, <2>9, <3>1, NoteSound
  <2>10. QED
    BY <2>3, <2>8, <2>9
<1>3. CASE ~(~host[s].live \/ host[s].chat = NoChat) /\ exit
  <2> DEFINE note == Note("removed", s)
  <2>1. /\ host' = [host EXCEPT ![s].live = FALSE, ![s].parked = <<>>]
        /\ wire' = Append(wire, note)
    BY <1>3 DEF HostTurn
  <2>2. note \in Frames /\ note.m = "removed" /\ note.s = s
    BY DEF Note, Frames, Notes
  <2> HIDE DEF note
  <2>3. /\ host' \in [Sessions -> Hosts] /\ ~host'[s].live /\ host'[s].chat = host[s].chat
        /\ host'[s].served = host[s].served
        /\ \A o \in Sessions \ {s} : host'[o] = host[o]
    BY <1>1, <2>1, EmptySeq DEF Hosts
  <2>4. \A o \in Sessions : /\ host'[o].live => host[o].live
                            /\ Unborn(host', o) <=> Unborn(host, o)
                            /\ host'[o].chat = NoChat => host[o].chat = NoChat
                            /\ host'[o].served = host[o].served
                            /\ host[o].served => Norm(host'[o].chat) = Norm(host[o].chat)
    BY <1>3, <2>3 DEF Unborn
  <2>5. Sound(w, inbox, wire, ext, walks, host')
    BY <2>3, <2>4, HostSound
  <2>6. \A o \in Sessions : /\ Mentions(note, o) => ~Unborn(host', o)
                            /\ Is(note, "removed", o) => ~host'[o].live
    BY <1>3, <2>2, <2>3 DEF Mentions, Is, Unborn
  <2>7. QED
    BY <2>1, <2>2, <2>5, <2>6, NoteSound
<1>4. CASE ~(~host[s].live \/ host[s].chat = NoChat) /\ ~exit /\ host[s].chat.active # NoTurn
  <2>1. host' = [host EXCEPT ![s].parked = Append(@, t)] /\ wire' = wire
    BY <1>4 DEF HostTurn
  <2>2. /\ host' \in [Sessions -> Hosts]
        /\ \A o \in Sessions : /\ host'[o].live = host[o].live /\ host'[o].chat = host[o].chat
                              /\ host'[o].served = host[o].served
                             /\ host'[o].coming = host[o].coming
    <3>1. host[s].parked \in Seq(Turns) /\ Append(host[s].parked, t) \in Seq(Turns)
      BY <1>1, InAppend DEF Hosts
    <3>2. QED
      BY <1>1, <2>1, <3>1 DEF Hosts
  <2>3. \A o \in Sessions : /\ host'[o].live => host[o].live
                            /\ Unborn(host', o) <=> Unborn(host, o)
                            /\ host'[o].chat = NoChat => host[o].chat = NoChat
                            /\ host'[o].served = host[o].served
                            /\ host[o].served => Norm(host'[o].chat) = Norm(host[o].chat)
    BY <2>2 DEF Unborn
  <2>4. QED
    BY <2>1, <2>2, <2>3, HostSound
<1>5. CASE ~(~host[s].live \/ host[s].chat = NoChat) /\ ~exit /\ ~(host[s].chat.active # NoTurn)
  <2> DEFINE a == Act("start", t)
  <2>1. host' = [host EXCEPT ![s].chat = Reduce(@, a)] /\ wire' = wire \o Envelope(s, a)
    BY <1>5 DEF HostTurn
  <2>2. a \in Actions
    BY DEF Act, Actions
  <2> HIDE DEF a
  <2>3. EnvelopeFrames(s, a)
    BY <1>1, <2>2, EnvelopeIs
  <2>4. host[s].chat \in Chat
    BY <1>1, <1>5 DEF Hosts, Chats
  <2>5. Reduce(host[s].chat, a) \in Chat /\ Reduce(host[s].chat, a) # NoChat
    BY <2>2, <2>4, ReduceType, NormType
  <2>6. /\ host' \in [Sessions -> Hosts] /\ host'[s].live /\ host'[s].chat = Reduce(host[s].chat, a)
        /\ host'[s].served = host[s].served
        /\ \A o \in Sessions \ {s} : host'[o] = host[o]
    <3> DEFINE d == Reduce(host[s].chat, a)
    <3>1. host' = [host EXCEPT ![s].chat = d] /\ d \in Chats /\ d # NoChat
      BY <2>1, <2>5 DEF Chats
    <3>2. ~host[s].coming /\ host[s].live
      BY <1>0, <1>5 DEF Hosts
    <3> HIDE DEF d
    <3>3. /\ host' \in [Sessions -> Hosts] /\ host'[s].live /\ host'[s].chat = d
          /\ host'[s].served = host[s].served
          /\ \A o \in Sessions \ {s} : host'[o] = host[o]
      BY <1>0, <1>1, <3>1, <3>2 DEF Hosts
    <3>4. QED
      BY <3>3 DEF d
  <2>7. wire' = IF host[s].served THEN Append(wire, ActionPush(s, a)) ELSE wire
    BY <1>1, <2>1, <2>3 DEF EnvelopeFrames
  <2>8. host[s].live /\ host[s].chat # NoChat
    BY <1>5
  <2>9. QED
    BY <2>2, <2>6, <2>7, <2>8, ActSound
<1>6. QED
  BY <1>2, <1>3, <1>4, <1>5, <1>7

\* What the provider posts for a refresh: the registry and rows of the client.
LEMMA BootPushed ==
    ASSUME NEW w, NEW v, Sound(w, inbox, wire, ext, v, host)
    PROVE  /\ BootPush \in Seq(Messages)
           /\ \A m \in ToSet(BootPush) : /\ m.m \in {"row", "models"}
                                         /\ m.m = "models" => (m.some => warm)
                                         /\ \A s \in Sessions : Mentions(m, s) => ~Unborn(host, s)
<1> DEFINE rows == SetToSeq(ext.rows)
           first == ModelsPush(ext.models)
           row(i) == RowPush(rows[i], IF ext.records[rows[i]] = "none" THEN "plain"
                                      ELSE ext.records[rows[i]])
           more == [i \in 1..Len(rows) |-> row(i)]
           kinds == {m \in RowPushes : m.s \in ext.rows}
<1>1. ext \in Clients /\ IsFiniteSet(ext.rows) /\ (ext.models => warm)
      /\ \A s \in ext.rows : s \in Sessions /\ ~Unborn(host, s)
  BY DEF Sound, Steady, Types, Unknown, Cold, Clients
<1>2. rows \in Seq(ext.rows)
  <2> DEFINE N == Cardinality(ext.rows)
  <2>1. N \in Nat /\ ExistsBijection(1..N, ext.rows)
    BY <1>1, FS_CardinalityType
  <2>2. \E f \in [1..N -> ext.rows] : IsInjective(f)
    BY <2>1 DEF ExistsBijection, Bijection, Injection
  <2>3. rows \in [1..N -> ext.rows]
    BY <2>2 DEF SetToSeq
  <2>4. QED
    BY <2>1, <2>3
<1> HIDE DEF rows
<1>3. Len(rows) \in Nat /\ \A i \in 1..Len(rows) : rows[i] \in ext.rows
  BY <1>2, LenProperties, ElementOfSeq
<1>4. \A i \in 1..Len(rows) : row(i) \in kinds
  BY <1>1, <1>3 DEF RowPush, RowPushes, Clients, Records
<1> HIDE DEF row
<1>5. kinds \subseteq Messages /\ \A m \in kinds : m.m = "row" /\ m.s \in ext.rows
  BY DEF RowPushes, Messages
<1> HIDE DEF kinds
<1>6. more \in Seq(kinds) /\ more \in Seq(Messages)
  BY <1>3, <1>4, <1>5
<1> HIDE DEF more
<1>7. first \in Messages /\ first.m = "models" /\ first.some = ext.models
  BY <1>1 DEF ModelsPush, Messages, Registries, Clients
<1>8. BootPush = <<first>> \o more
  BY DEF BootPush, more, row, rows
<1> HIDE DEF first
<1>9. <<first>> \in Seq(Messages) /\ ToSet(<<first>>) = {first}
  BY <1>7 DEF ToSet
<1>10. BootPush \in Seq(Messages) /\ ToSet(BootPush) = {first} \cup ToSet(more)
  <2>1. \A a, b \in Seq(Messages) : a \o b \in Seq(Messages) /\ ToSet(a \o b) = ToSet(a) \cup ToSet(b)
    BY InConcat
  <2>2. <<first>> \o more \in Seq(Messages) /\ ToSet(<<first>> \o more) = ToSet(<<first>>) \cup ToSet(more)
    BY <1>6, <1>9, <2>1, Zenon
  <2>3. QED
    BY <1>8, <1>9, <2>2, Zenon
<1>11. ToSet(more) \subseteq kinds
  BY <1>6, InSeq
<1>12. ASSUME NEW m \in ToSet(BootPush)
       PROVE  /\ m.m \in {"row", "models"}
              /\ m.m = "models" => (m.some => warm)
              /\ \A s \in Sessions : Mentions(m, s) => ~Unborn(host, s)
  <2>1. CASE m = first
    BY <1>1, <1>7, <2>1 DEF Mentions
  <2>2. CASE m \in kinds
    BY <1>1, <1>5, <2>2 DEF Mentions
  <2>3. QED
    BY <1>10, <1>11, <2>1, <2>2
<1>13. QED
  BY <1>10, <1>12

LEMMA HandleSound ==
    ASSUME IInv, Handle
    PROVE  IInv'
<1> DEFINE m == Head(web.post)
<1>1. /\ Sound(web, inbox, wire, ext, walks, host) /\ Shown(web) /\ Writes(web) /\ Refusals
      /\ refused \subseteq Sessions
  BY DEF IInv, Ledgers
<1>2. web.post # <<>> /\ web' = [web EXCEPT !.post = Tail(@)]
      /\ UNCHANGED <<warm, create, writer, heard, waiting>>
  BY DEF Handle, extIdle
<1>3. /\ m.m \in {"view", "viewChat"} => View(m.m, m.s) /\ UNCHANGED refused
      /\ m.m = "create" => HostCreates(m.s) /\ UNCHANGED <<inbox, ext, walks, refused>>
      /\ m.m = "turn" => HostTurn(m.s, m.t, m.exit) /\ UNCHANGED <<inbox, ext, walks, refused>>
      /\ m.m = "config" => /\ host' = [host EXCEPT ![m.s].chose = warm]
                           /\ refused' = IF warm THEN refused ELSE refused \cup {m.s}
                           /\ UNCHANGED <<inbox, wire, ext, walks>>
      /\ m.m = "refresh" => inbox' = inbox \o BootPush /\ UNCHANGED <<wire, ext, walks, host, refused>>
  BY DEF Handle
<1>4. /\ Sound(web', inbox, wire, ext, walks, host) /\ Shown(web') /\ Writes(web')
      /\ m \in Posts /\ m \in ToSet(web.post)
      /\ \A s \in Sessions : Is(m, "create", s) => ~Has(web'.post, "create", s)
  <2> DEFINE p == Tail(web.post)
             u == [web EXCEPT !.post = p]
  <2>1. web \in Webs /\ web.post \in Seq(Posts) /\ web' = u
    BY <1>2, Given
  <2>2. p \in Seq(Posts)
    BY <1>2, <2>1, InTail
  <2>3. p = Tail(web.post)
    OBVIOUS
  <2> HIDE DEF p
  <2>4. u \in Webs /\ SameFolds(web, u) /\ u.post = p /\ (Shown(web) => Shown(u))
    BY <2>1, <2>2, PostWeb
  <2> HIDE DEF u
  <2>5. web' \in Webs /\ SameFolds(web, web') /\ web'.post = Tail(web.post) /\ Shown(web')
    BY <1>1, <2>1, <2>3, <2>4
  <2>6. QED
    <3>1. Taken(web, web') /\ web.post # <<>>
      BY <1>2, <2>5 DEF Taken
    <3>2. /\ Sound(web', inbox, wire, ext, walks, host) /\ (Writes(web) => Writes(web'))
          /\ Head(web.post) \in Posts /\ Head(web.post) \in ToSet(web.post)
          /\ \A s \in Sessions : Is(Head(web.post), "create", s) => ~Has(web'.post, "create", s)
      BY <1>1, <3>1, TakePostSound
    <3>3. QED
      BY <1>1, <2>5, <3>2
<1> HIDE DEF m
<1>5. /\ m.m \in {"view", "viewChat", "create", "config", "refresh", "turn"}
      /\ m.m # "refresh" => m.s \in Sessions
      /\ m.m = "turn" => m.t \in Turns /\ m.exit \in BOOLEAN
  BY <1>4 DEF Posts
<1>6. \A s \in refused : s \in Sessions /\ writer[s] = "late"
  BY <1>1 DEF Refusals
<1>7. CASE m.m \in {"view", "viewChat"}
  <2>1. ~Unborn(host, m.s)
    BY <1>1, <1>4, <1>5, <1>7 DEF Sound, Steady, Unknown
  <2> DEFINE id == CHOOSE i \in Idle : TRUE
             walk == [id |-> id, m |-> m.m, s |-> m.s, at |-> "session",
                      waits |-> "answer", tries |-> 0]
  <2>2. Idle # {} /\ WalkOn(walk, ext, walks, wire) /\ refused' = refused
    BY <1>3, <1>7 DEF View
  <2>3. id \in Walkers
    BY <2>2 DEF Idle
  <2> HIDE DEF id
  <2>4. walk \in Walks /\ walk.s = m.s
    BY <1>5, <1>7, <2>3 DEF Walks
  <2> HIDE DEF walk
  <2>5. Sound(web', inbox', wire', ext', walks', host')
    BY <1>4, <2>1, <2>2, <2>4, WalkOnSound
  <2>6. QED
    BY <1>2, <1>4, <1>6, <2>2, <2>5, HostMove
<1>8. CASE m.m = "create"
  <2>1. Is(m, "create", m.s) /\ Has(web.post, "create", m.s)
    BY <1>4, <1>8 DEF Is, Has
  <2>2. /\ Unborn(host, m.s) /\ ~Has(wire, "result", m.s) /\ ~Has(inbox, "result", m.s)
        /\ create[m.s] = "asked" /\ writer[m.s] = "none"
    BY <1>1, <1>5, <1>8, <2>1 DEF Sound, Steady, Asked
  <2>3. ~Has(web'.post, "create", m.s)
    BY <1>4, <1>5, <1>8, <2>1
  <2>4. HostCreates(m.s) /\ inbox' = inbox /\ ext' = ext /\ walks' = walks /\ refused' = refused
    BY <1>3, <1>8
  <2>5. Sound(web', inbox, wire', ext, walks, host')
    BY <1>4, <1>5, <1>8, <2>2, <2>3, <2>4, HostCreatesSound
  <2>6. QED
    BY <1>2, <1>4, <1>6, <2>4, <2>5, HostMove
<1>9. CASE m.m = "turn"
  <2>1. HostTurn(m.s, m.t, m.exit) /\ inbox' = inbox /\ ext' = ext /\ walks' = walks /\ refused' = refused
    BY <1>3, <1>9
  <2>2. Sound(web', inbox, wire', ext, walks, host')
    BY <1>4, <1>5, <1>9, <2>1, HostTurnSound
  <2>3. QED
    BY <1>2, <1>4, <1>6, <2>1, <2>2, HostMove
<1>10. CASE m.m = "config"
  <2>1. /\ host' = [host EXCEPT ![m.s].chose = warm]
        /\ inbox' = inbox /\ wire' = wire /\ ext' = ext /\ walks' = walks
        /\ refused' = IF warm THEN refused ELSE refused \cup {m.s}
    BY <1>3, <1>10
  <2>2. warm \in BOOLEAN /\ host \in [Sessions -> Hosts]
    BY <1>1 DEF IInv, Ledgers, Sound, Steady, Types
  <2>3. /\ host' \in [Sessions -> Hosts]
        /\ \A o \in Sessions : /\ host'[o].live = host[o].live /\ host'[o].chat = host[o].chat
                              /\ host'[o].served = host[o].served
                             /\ host'[o].coming = host[o].coming
    BY <1>5, <1>10, <2>1, <2>2 DEF Hosts
  <2>4. \A o \in Sessions : /\ host'[o].live => host[o].live
                            /\ Unborn(host', o) <=> Unborn(host, o)
                            /\ host'[o].chat = NoChat => host[o].chat = NoChat
                            /\ host'[o].served = host[o].served
                            /\ host[o].served => Norm(host'[o].chat) = Norm(host[o].chat)
    BY <2>3 DEF Unborn
  <2>5. Sound(web', inbox, wire, ext, walks, host')
    BY <1>4, <2>3, <2>4, HostSound
  <2>6. warm \/ writer[m.s] = "late"
    BY <1>1, <1>4, <1>10 DEF Writes
  <2>7. \A s \in refused' : s \in Sessions /\ writer[s] = "late"
    BY <1>5, <1>6, <1>10, <2>1, <2>6
  <2>8. QED
    BY <1>2, <1>4, <2>1, <2>5, <2>7, HostMove
<1>11. CASE m.m = "refresh"
  <2>1. /\ inbox' = inbox \o BootPush /\ wire' = wire /\ ext' = ext /\ walks' = walks
        /\ host' = host /\ refused' = refused
    BY <1>3, <1>11
  <2>2. Sound(web', inbox \o BootPush, wire, ext, walks, host)
    BY <1>4, BootPushed, BatchSound
  <2>3. QED
    BY <1>2, <1>4, <1>6, <2>1, <2>2, HostMove
<1>12. QED
  BY <1>5, <1>7, <1>8, <1>9, <1>10, <1>11

LEMMA FrameSound ==
    ASSUME IInv, Frame
    PROVE  IInv'
<1> DEFINE f == Head(wire)
<1>1. /\ Sound(web, inbox, wire, ext, walks, host) /\ Shown(web) /\ Writes(web)
      /\ \A s \in refused : s \in Sessions /\ writer[s] = "late"
  BY DEF IInv, Ledgers, Refusals
<1>2. /\ wire # <<>>
      /\ UNCHANGED <<web, refused, warm, create, writer, heard, waiting>>
  BY DEF Frame, extIdle
<1>0. f.m \in {"answer", "result", "added", "removed", "named", "models", "act"}
  BY <1>1, <1>2, InTail, FrameKinds DEF Sound, Steady, Types
<1>3. /\ f.m = "answer" =>
           \E v \in walks :
             /\ v.s = f.s /\ v.at = f.leg
             /\ IF f.ok THEN WalkOn(v, Landed(f), walks \ {v}, Tail(wire))
                ELSE Miss(v, walks \ {v}) /\ wire' = Tail(wire) /\ UNCHANGED <<inbox, host>>
      /\ f.m # "answer" => /\ wire' = Tail(wire) /\ walks' = walks /\ host' = host
                           /\ \/ inbox' = Append(inbox, f)
                              \/ f.m = "models" /\ inbox' = inbox
  BY <1>2, <1>0 DEF Frame
<1>4. /\ f.m = "result" => ext' = ext
      /\ f.m = "added" => ext' = [ext EXCEPT !.rows = @ \cup {f.s}]
      /\ f.m = "removed" => ext' = [ext EXCEPT !.rows = @ \ {f.s}]
      /\ f.m = "models" => ext' = [ext EXCEPT !.models = f.some]
      /\ f.m = "named" => ext' = [ext EXCEPT !.records[f.s] = "named"]
      /\ f.m = "act" => ext' = [ext EXCEPT !.chats[f.s] =
                                  Reduce(IF @ = NoChat THEN EmptyChat ELSE @, f.act)]
  BY DEF Frame
<1>5. /\ wire \in Seq(Frames) /\ f \in Frames /\ f \in ToSet(wire)
      /\ ext \in Clients /\ IsFiniteSet(ext.rows) /\ walks \subseteq Walks
  BY <1>1, <1>2, InTail DEF Sound, Steady, Types
<1>6. /\ f.m \in {"answer", "result", "added", "removed", "named", "models", "act"}
      /\ f.m = "answer" => f \in Answers
      /\ f.m = "act" => f \in Acts
      /\ f.m = "models" => f.some \in BOOLEAN
      /\ f.m # "models" => f.s \in Sessions
  BY <1>5, FrameKinds
<1>7. ASSUME Sound(web, inbox', wire', ext', walks', host')
      PROVE  IInv'
  BY <1>1, <1>2, <1>7, HostMove
<1>8. CASE f.m = "answer"
  <2>1. PICK v \in walks : /\ v.s = f.s /\ v.at = f.leg
                           /\ IF f.ok THEN WalkOn(v, Landed(f), walks \ {v}, Tail(wire))
                              ELSE /\ Miss(v, walks \ {v})
                                   /\ wire' = Tail(wire) /\ UNCHANGED <<inbox, host>>
    BY <1>3, <1>8
  <2>2. /\ f.leg \in {"session", "chat"} /\ f.s \in Sessions /\ f.ok \in BOOLEAN
        /\ f.record \in Records /\ f.chat \in Chats
    BY <1>6, <1>8 DEF Answers
  <2>3. \A s \in Sessions : Answering(f, s) <=> f.leg = "chat" /\ f.s = s /\ f.ok
    BY <1>8 DEF Answering
  <2> HIDE DEF f
  <2> DEFINE y == IF f.ok THEN Landed(f) ELSE [ext EXCEPT !.subs = @ \ {<<f.leg, f.s>>}]
             rest == [v EXCEPT !.waits = "pause"]
             u == IF f.ok \/ walks' = walks \ {v} THEN walks \ {v} ELSE (walks \ {v}) \cup {rest}
  <2>4. /\ y \in Clients /\ IsFiniteSet(y.rows) /\ y.models = ext.models
        /\ y.subs = ext.subs \/ (~f.ok /\ y.subs = ext.subs \ {<<f.leg, f.s>>})
        /\ \A s \in y.rows : s \in ext.rows \/ s = f.s
        /\ \A s \in Sessions : y.chats[s] = IF Answering(f, s) THEN f.chat ELSE ext.chats[s]
    <3>1. CASE ~f.ok
      <4>1. y = [ext EXCEPT !.subs = @ \ {<<f.leg, f.s>>}]
        BY <3>1
      <4> HIDE DEF y
      <4>2. QED
        BY <1>5, <2>3, <3>1, <4>1 DEF Clients
    <3>2. CASE f.ok /\ f.leg = "session"
      <4>1. y = [ext EXCEPT !.records[f.s] = f.record, !.rows = @ \cup {f.s}]
        BY <3>2 DEF Landed
      <4>2. IsFiniteSet(ext.rows \cup {f.s})
        BY <1>5, FS_AddElement
      <4>3. QED
        <5> HIDE DEF y
        <5>1. y \in Clients /\ y.rows = ext.rows \cup {f.s} /\ y.subs = ext.subs
              /\ y.models = ext.models /\ y.chats = ext.chats
          BY <1>5, <2>2, <4>1 DEF Clients
        <5>2. QED
          BY <2>3, <3>2, <4>2, <5>1
    <3>3. CASE f.ok /\ f.leg = "chat"
      <4>1. y = [ext EXCEPT !.chats[f.s] = f.chat]
        BY <3>3 DEF Landed
      <4> HIDE DEF y
      <4>2. /\ y \in Clients /\ y.rows = ext.rows /\ y.subs = ext.subs
            /\ y.models = ext.models /\ y.chats = [ext.chats EXCEPT ![f.s] = f.chat]
        BY <1>5, <2>2, <4>1 DEF Clients
      <4>3. \A s \in Sessions : y.chats[s] = IF s = f.s THEN f.chat ELSE ext.chats[s]
        BY <1>5, <4>2 DEF Clients
      <4>4. QED
        BY <1>5, <2>3, <3>3, <4>2, <4>3
    <3>4. QED
      BY <2>2, <3>1, <3>2, <3>3
  <2> HIDE DEF y
  <2>10. v \in Walks /\ rest \in Walks /\ rest.s = v.s
    BY <1>5 DEF Walks
  <2>11. u \subseteq Walks /\ \A walk \in u : \E o \in walks : walk.s = o.s
    BY <1>5, <2>10
  <2> HIDE DEF u, rest
  <2>5. Sound(web, inbox, Tail(wire), y, u, host)
    BY <1>1, <1>2, <1>8, <2>4, <2>11, LandSound DEF f
  <2>6. ~Unborn(host, v.s)
    BY <1>1, <2>10 DEF Sound, Steady, Unknown, Walks
  <2>7. CASE f.ok
    <3>1. WalkOn(v, y, u, Tail(wire))
      BY <2>1, <2>7 DEF y, u
    <3>2. Sound(web, inbox', wire', ext', walks', host')
      BY <1>2, <2>5, <2>6, <2>10, <3>1, WalkOnSound
    <3>3. QED
      BY <1>7, <3>2
  <2>8. CASE ~f.ok
    <3>1. /\ ext' = y /\ walks' = u /\ wire' = Tail(wire) /\ inbox' = inbox /\ host' = host
      BY <2>1, <2>8 DEF y, u, rest, Miss
    <3>2. QED
      BY <1>7, <2>5, <3>1
  <2>9. QED
    BY <2>7, <2>8
<1>9. CASE f.m # "answer"
  <2>1. wire' = Tail(wire) /\ walks' = walks /\ host' = host
        /\ (inbox' = Append(inbox, f) \/ (inbox' = inbox /\ f.m = "models"))
    BY <1>3, <1>9
  <2> HIDE DEF f
  <2> DEFINE y == ext'
  <2>2. \A s \in Sessions : Is(f, "act", s) <=> f.m = "act" /\ f.s = s
    BY DEF Is
  <2>3. \A s \in Sessions : f.m = "added" /\ f.s = s => Mentions(f, s)
    BY DEF Mentions
  <2>4. /\ y \in Clients /\ IsFiniteSet(y.rows) /\ y.subs = ext.subs
        /\ \A s \in y.rows : s \in ext.rows \/ Mentions(f, s)
        /\ y.models = ext.models \/ (f.m = "models" /\ y.models = f.some)
        /\ \A s \in Sessions : /\ Is(f, "act", s) => y.chats[s] = Reduce(Norm(ext.chats[s]), f.act)
                               /\ ~Is(f, "act", s) => y.chats[s] = ext.chats[s]
    <3>1. CASE f.m = "result"
      <4>1. y = ext
        BY <1>4, <3>1
      <4> HIDE DEF y
      <4>2. QED
        BY <1>5, <2>2, <3>1, <4>1
    <3>2. CASE f.m = "added"
      <4>1. y = [ext EXCEPT !.rows = @ \cup {f.s}]
        BY <1>4, <3>2
      <4> HIDE DEF y
      <4>2. IsFiniteSet(ext.rows \cup {f.s})
        BY <1>5, FS_AddElement
      <4>3. y \in Clients /\ y.rows = ext.rows \cup {f.s} /\ y.subs = ext.subs
            /\ y.models = ext.models /\ y.chats = ext.chats
        BY <1>5, <1>6, <3>2, <4>1 DEF Clients
      <4>4. QED
        BY <1>6, <2>2, <2>3, <3>2, <4>2, <4>3 DEF Clients
    <3>3. CASE f.m = "removed"
      <4>1. y = [ext EXCEPT !.rows = @ \ {f.s}]
        BY <1>4, <3>3
      <4> HIDE DEF y
      <4>2. IsFiniteSet(ext.rows \ {f.s})
        BY <1>5, FS_RemoveElement
      <4>3. y \in Clients /\ y.rows = ext.rows \ {f.s} /\ y.subs = ext.subs
            /\ y.models = ext.models /\ y.chats = ext.chats
        BY <1>5, <1>6, <3>3, <4>1 DEF Clients
      <4>4. QED
        BY <2>2, <3>3, <4>2, <4>3
    <3>4. CASE f.m = "models"
      <4>1. y = [ext EXCEPT !.models = f.some]
        BY <1>4, <3>4
      <4> HIDE DEF y
      <4>2. y \in Clients /\ y.rows = ext.rows /\ y.subs = ext.subs
            /\ y.models = f.some /\ y.chats = ext.chats
        BY <1>5, <1>6, <3>4, <4>1 DEF Clients
      <4>3. QED
        BY <1>5, <2>2, <3>4, <4>2
    <3>5. CASE f.m = "named"
      <4>1. y = [ext EXCEPT !.records[f.s] = "named"]
        BY <1>4, <3>5
      <4> HIDE DEF y
      <4>2. y \in Clients /\ y.rows = ext.rows /\ y.subs = ext.subs
            /\ y.models = ext.models /\ y.chats = ext.chats
        BY <1>5, <1>6, <3>5, <4>1 DEF Clients, Records
      <4>3. QED
        BY <1>5, <2>2, <3>5, <4>2
    <3>6. CASE f.m = "act"
      <4>1. y = [ext EXCEPT !.chats[f.s] = Reduce(IF @ = NoChat THEN EmptyChat ELSE @, f.act)]
        BY <1>4, <3>6
      <4> HIDE DEF y
      <4> DEFINE c == Reduce(Norm(ext.chats[f.s]), f.act)
      <4>2. f.act \in Actions /\ f.s \in Sessions /\ ext.chats \in [Sessions -> Chats]
        BY <1>5, <1>6, <3>6 DEF Acts, Clients
      <4>3. Norm(ext.chats[f.s]) \in Chat
        BY <4>2, NormType
      <4>4. c \in Chats
        BY <4>2, <4>3, ReduceType DEF Chats
      <4>5. y = [ext EXCEPT !.chats[f.s] = c]
        BY <4>1 DEF Norm
      <4> HIDE DEF c
      <4>6. y \in Clients /\ y.rows = ext.rows /\ y.subs = ext.subs
            /\ y.models = ext.models /\ y.chats = [ext.chats EXCEPT ![f.s] = c]
        BY <1>5, <4>2, <4>4, <4>5 DEF Clients
      <4>7. \A s \in Sessions : y.chats[s] = IF s = f.s THEN c ELSE ext.chats[s]
        BY <4>2, <4>6
      <4>8. QED
        BY <1>5, <2>2, <3>6, <4>6, <4>7 DEF c
    <3>7. QED
      BY <1>6, <1>9, <3>1, <3>2, <3>3, <3>4, <3>5, <3>6
  <2> HIDE DEF y
  <2>5. Sound(web, inbox', Tail(wire), y, walks, host)
    <3>1. Relayed(f, inbox, inbox', ext, y)
      BY <1>9, <2>1, <2>4 DEF Relayed
    <3>2. Relayed(Head(wire), inbox, inbox', ext, y) /\ wire # <<>>
      BY <1>2, <3>1 DEF f
    <3>3. QED
      BY <1>1, <3>2, RelaySound
  <2>6. QED
    BY <1>7, <2>1, <2>5 DEF y
<1>10. QED
  BY <1>8, <1>9

LEMMA WarmSound ==
    ASSUME IInv, Warm
    PROVE  IInv'
<1> DEFINE m == ModelsPush(TRUE)
<1>1. /\ Steady(web, inbox, wire, ext, walks, host)
      /\ warm' = TRUE /\ wire' = Append(wire, m)
      /\ UNCHANGED <<host, web, inbox, ext, walks, create, waiting, writer, heard, refused>>
  BY DEF IInv, Sound, Warm, hostIdle
<1>2. m \in Frames /\ m.m = "models"
  BY DEF ModelsPush, Frames, Registries
<1> HIDE DEF m
<1>3. \A s \in Sessions : ~Mentions(m, s) /\ ~Is(m, "removed", s)
  BY <1>2 DEF Mentions, Is
<1>4. Steady(web, inbox, Append(wire, m), ext, walks, host)
  BY <1>1, <1>2, <1>3, NoteSteady
<1>5. Steady(web, inbox, wire, ext, walks, host)'
  BY <1>1, <1>4, SteadyMove
<1>6. Cold(web, inbox, wire, ext)'
  BY <1>1 DEF Cold
<1>7. Ledgers' /\ Refusals'
  BY <1>1 DEF IInv, Ledgers, Refusals
<1>8. Shown(web)' /\ Writes(web)'
  BY <1>1 DEF IInv, Shown, Writes
<1>9. QED
  BY <1>5, <1>6, <1>7, <1>8 DEF IInv, Sound

LEMMA SeedSound ==
    ASSUME IInv, NEW s \in Sessions, Seed(s)
    PROVE  IInv'
<1> DEFINE note == Note("named", s)
<1>1. /\ Sound(web, inbox, wire, ext, walks, host) /\ Shown(web) /\ Writes(web)
      /\ \A r \in refused : r \in Sessions /\ writer[r] = "late"
      /\ host \in [Sessions -> Hosts]
  BY DEF IInv, Ledgers, Refusals, Sound, Steady, Types
<1>2. /\ host[s].live
      /\ host' = [host EXCEPT ![s].named = TRUE]
      /\ wire' = Append(wire, note) \/ wire' = wire
      /\ UNCHANGED <<web, inbox, ext, walks, warm, create, waiting, writer, heard, refused>>
  BY DEF Seed, hostIdle
<1>3. note \in Frames /\ note.m = "named" /\ note.s = s
  BY DEF Note, Frames, Notes
<1> HIDE DEF note
<1>4. /\ host' \in [Sessions -> Hosts] /\ host'[s].live /\ host'[s].chat = host[s].chat
      /\ host'[s].served = host[s].served
      /\ \A o \in Sessions \ {s} : host'[o] = host[o]
  BY <1>1, <1>2 DEF Hosts
<1>5. \A o \in Sessions : /\ host'[o].live => host[o].live
                          /\ Unborn(host', o) <=> Unborn(host, o)
                          /\ host'[o].chat = NoChat => host[o].chat = NoChat
                          /\ host'[o].served = host[o].served
                          /\ host[o].served => Norm(host'[o].chat) = Norm(host[o].chat)
  BY <1>2, <1>4 DEF Unborn
<1>6. Sound(web, inbox, wire, ext, walks, host')
  BY <1>1, <1>4, <1>5, HostSound
<1>7. \A o \in Sessions : (Mentions(note, o) => ~Unborn(host', o)) /\ ~Is(note, "removed", o)
  BY <1>3, <1>4 DEF Mentions, Is, Unborn
<1>8. Sound(web, inbox, Append(wire, note), ext, walks, host')
  BY <1>3, <1>6, <1>7, NoteSound
<1>9. Sound(web, inbox, wire', ext, walks, host')
  BY <1>2, <1>6, <1>8
<1>10. QED
  BY <1>1, <1>2, <1>9, HostMove

\* A walk leaves.
LEMMA FewerWalks ==
    ASSUME NEW w, NEW b, NEW q, NEW x, NEW v, NEW h, Sound(w, b, q, x, v, h), NEW u, u \subseteq v
    PROVE  Sound(w, b, q, x, u, h)
<1>1. Types(w, b, q, x, u, h)
  BY DEF Sound, Steady, Types
<1>2. \A s \in Sessions : Unborn(h, s) => Unknown(w, b, q, x, u, s)
  BY DEF Sound, Steady, Unknown
<1>3. QED
  BY <1>1, <1>2 DEF Sound, Steady

LEMMA MaterialiseSound ==
    ASSUME IInv, NEW s \in Sessions, Materialise(s)
    PROVE  IInv'
<1> DEFINE h == host[s]
           c == IF h.parked = <<>> THEN EmptyChat
                ELSE Reduce(EmptyChat, Act("start", Head(h.parked)))
           p == IF h.parked = <<>> THEN h.parked ELSE Tail(h.parked)
<1>1. /\ Sound(web, inbox, wire, ext, walks, host) /\ Shown(web) /\ Writes(web)
      /\ \A r \in refused : r \in Sessions /\ writer[r] = "late"
      /\ host \in [Sessions -> Hosts]
  BY DEF IInv, Ledgers, Refusals, Sound, Steady, Types
<1>2. /\ h.live /\ h.coming
      /\ host' = [host EXCEPT ![s].coming = FALSE, ![s].chat = c, ![s].parked = p]
      /\ UNCHANGED <<wire, web, inbox, ext, walks, warm, create, waiting, writer, heard, refused>>
  BY <1>1 DEF Materialise, hostIdle
<1>3. /\ h \in Hosts /\ h.parked \in Seq(Turns) /\ h.chat = NoChat /\ h.served = FALSE
  BY <1>1, <1>2 DEF Hosts
<1>4. c \in Chat /\ p \in Seq(Turns)
  <2>1. CASE h.parked = <<>>
    BY <1>3, <2>1, NormType
  <2>2. CASE h.parked # <<>>
    <3>1. Head(h.parked) \in Turns /\ Tail(h.parked) \in Seq(Turns)
      BY <1>3, <2>2, InTail
    <3>2. Act("start", Head(h.parked)) \in Actions
      BY <3>1 DEF Act, Actions
    <3>3. QED
      BY <2>2, <3>1, <3>2, NormType, ReduceType
  <2>3. QED
    BY <2>1, <2>2
<1>5. c # NoChat /\ c \in Chats
  BY <1>4, NormType DEF Chats
<1> HIDE DEF c, p
<1>6. /\ host' \in [Sessions -> Hosts] /\ host'[s].live /\ host'[s].chat = c
      /\ ~host'[s].served
      /\ \A o \in Sessions \ {s} : host'[o] = host[o]
  BY <1>1, <1>2, <1>3, <1>4, <1>5 DEF Hosts
<1>7. \A o \in Sessions : /\ host'[o].live => host[o].live
                          /\ Unborn(host', o) <=> Unborn(host, o)
                          /\ host'[o].chat = NoChat => host[o].chat = NoChat
                          /\ host'[o].served = host[o].served
                          /\ host[o].served => Norm(host'[o].chat) = Norm(host[o].chat)
  <2>1. host'[s].served = host[s].served
    BY <1>3, <1>6 DEF Hosts
  <2>2. QED
    BY <1>2, <1>3, <1>6, <2>1 DEF Unborn
<1>8. Sound(web, inbox, wire, ext, walks, host')
  BY <1>1, <1>6, <1>7, HostSound
<1>9. QED
  BY <1>1, <1>2, <1>8, HostMove

LEMMA RetrySound ==
    ASSUME IInv, NEW walk \in walks, Retry(walk)
    PROVE  IInv'
<1> DEFINE u == walks \ {walk}
           again == [walk EXCEPT !.waits = "answer", !.tries = @ + 1]
<1>1. /\ Sound(web, inbox, wire, ext, walks, host) /\ Shown(web) /\ Writes(web)
      /\ \A r \in refused : r \in Sessions /\ writer[r] = "late"
      /\ walks \subseteq Walks
  BY DEF IInv, Ledgers, Refusals, Sound, Steady, Types
<1>2. /\ IF <<walk.at, walk.s>> \in ext.subs THEN WalkOn(walk, ext, u, wire)
         ELSE Subscribe(again, FALSE, ext, u, wire)
      /\ UNCHANGED <<web, refused, warm, create, waiting, writer, heard>>
  BY DEF Retry, extIdle
<1>3. walk \in Walks /\ ~Unborn(host, walk.s)
  BY <1>1 DEF Sound, Steady, Unknown, Walks
<1>4. again \in Walks /\ again.s = walk.s /\ again.at = walk.at
  <2> DEFINE n == walk.tries + 1
  <2>1. n \in Nat
    BY <1>3 DEF Walks
  <2>2. again = [walk EXCEPT !.waits = "answer", !.tries = n]
    OBVIOUS
  <2> HIDE DEF n
  <2>3. QED
    BY <1>3, <2>1, <2>2 DEF Walks
<1> HIDE DEF again
<1>5. Sound(web, inbox, wire, ext, u, host)
  BY <1>1, FewerWalks
<1> HIDE DEF u
<1>6. Sound(web, inbox', wire', ext', walks', host')
  <2>1. CASE <<walk.at, walk.s>> \in ext.subs
    BY <1>2, <1>3, <1>5, <2>1, WalkOnSound
  <2>2. CASE <<walk.at, walk.s>> \notin ext.subs
    BY <1>2, <1>3, <1>4, <1>5, <2>2, SubscribeStep
  <2>3. QED
    BY <2>1, <2>2
<1>7. QED
  BY <1>1, <1>2, <1>6, HostMove

LEMMA EndTurnSound ==
    ASSUME IInv, NEW s \in Sessions, EndTurn(s)
    PROVE  IInv'
<1> DEFINE end == Act("end", host[s].chat.active)
           start == Act("start", Head(host[s].parked))
           c == Reduce(host[s].chat, end)
           mid == [host EXCEPT ![s].chat = c]
           q == IF host[s].served THEN Append(wire, ActionPush(s, end)) ELSE wire
<1>1. /\ Sound(web, inbox, wire, ext, walks, host) /\ Shown(web) /\ Writes(web)
      /\ \A r \in refused : r \in Sessions /\ writer[r] = "late"
      /\ host \in [Sessions -> Hosts] /\ wire \in Seq(Frames)
  BY DEF IInv, Ledgers, Refusals, Sound, Steady, Types
<1>2. /\ host[s].live /\ host[s].chat # NoChat /\ host[s].chat.active # NoTurn
      /\ IF host[s].parked = <<>>
         THEN /\ host' = [host EXCEPT ![s].chat = Reduce(@, end)]
              /\ wire' = wire \o Envelope(s, end)
         ELSE /\ host' = [host EXCEPT ![s].chat = Reduce(Reduce(@, end), start),
                                      ![s].parked = Tail(@)]
              /\ wire' = wire \o Envelope(s, end) \o Envelope(s, start)
      /\ UNCHANGED <<web, inbox, ext, walks, warm, create, waiting, writer, heard, refused>>
  BY DEF EndTurn, hostIdle
<1>3. host[s] \in Hosts /\ host[s].chat \in Chat /\ host[s].parked \in Seq(Turns)
  BY <1>1, <1>2 DEF Hosts, Chats
<1>4. end \in Actions
  BY <1>2, <1>3 DEF Act, Actions, Chat
<1>5. host[s].parked # <<>> => start \in Actions /\ Tail(host[s].parked) \in Seq(Turns)
  BY <1>3, InTail DEF Act, Actions
<1> HIDE DEF end, start
<1>6. c \in Chat /\ c # NoChat
  BY <1>3, <1>4, ReduceType, NormType
<1>7. c = Reduce(host[s].chat, end)
  OBVIOUS
<1> HIDE DEF c
<1>8. /\ mid \in [Sessions -> Hosts] /\ mid[s].live /\ mid[s].chat = Reduce(host[s].chat, end)
      /\ mid[s].served = host[s].served
      /\ \A o \in Sessions \ {s} : mid[o] = host[o]
  <2>1. host \in [Sessions -> Hosts] /\ host[s].live /\ ~host[s].coming
    BY <1>1, <1>2 DEF Hosts
  <2>2. /\ mid \in [Sessions -> Hosts] /\ mid[s].live /\ mid[s].chat = c
        /\ mid[s].served = host[s].served
        /\ \A o \in Sessions \ {s} : mid[o] = host[o]
    BY <1>6, <2>1 DEF Hosts, Chats
  <2> HIDE DEF mid
  <2>3. QED
    BY <1>7, <2>2
<1>9. Sound(web, inbox, q, ext, walks, mid)
  <2>1. q = IF host[s].served THEN Append(wire, ActionPush(s, end)) ELSE wire
    OBVIOUS
  <2> HIDE DEF q, mid
  <2>2. Sound(web, inbox, wire, ext, walks, host) /\ host[s].live /\ host[s].chat # NoChat
    BY <1>1, <1>2
  <2>3. QED
    BY <1>4, <1>8, <2>1, <2>2, ActSound
<1>10. EnvelopeFrames(s, end) /\ ActionPush(s, end) \in Frames
  BY <1>4, EnvelopeIs
<1>11. wire \o Envelope(s, end) = q /\ q \in Seq(Frames)
  BY <1>1, <1>10, InAppend DEF EnvelopeFrames
<1>12. CASE host[s].parked = <<>>
  <2>1. host' = mid /\ wire' = q
    BY <1>2, <1>7, <1>11, <1>12
  <2>2. Sound(web, inbox, wire', ext, walks, host')
    BY <1>9, <2>1
  <2>3. QED
    BY <1>1, <1>2, <2>2, HostMove
<1>13. CASE host[s].parked # <<>>
  <2> HIDE DEF q
  <2>1. wire' = q \o Envelope(s, start)
    BY <1>2, <1>11, <1>13
  <2>2. EnvelopeFrames(s, start)
    BY <1>5, <1>13, EnvelopeIs
  <2>3. wire' = IF mid[s].served THEN Append(q, ActionPush(s, start)) ELSE q
    BY <1>8, <1>11, <2>1, <2>2 DEF EnvelopeFrames
  <2> DEFINE d == Reduce(c, start)
  <2>4. d \in Chat
    BY <1>5, <1>6, <1>13, ReduceType
  <2>5. host' = [host EXCEPT ![s].chat = d, ![s].parked = Tail(@)]
    BY <1>2, <1>7, <1>13
  <2>6. d = Reduce(c, start)
    OBVIOUS
  <2> HIDE DEF d
  <2>7. /\ host' \in [Sessions -> Hosts] /\ host'[s].live /\ host'[s].chat = d
        /\ host'[s].served = host[s].served
        /\ \A o \in Sessions \ {s} : host'[o] = host[o]
    <3> DEFINE rest == Tail(host[s].parked)
    <3>1. host \in [Sessions -> Hosts] /\ host[s].live /\ ~host[s].coming /\ rest \in Seq(Turns)
      BY <1>1, <1>2, <1>5, <1>13 DEF Hosts
    <3>2. host' = [host EXCEPT ![s].chat = d, ![s].parked = rest]
      BY <2>5, <3>1
    <3>3. d \in Chats /\ d # NoChat
      BY <2>4, NormType DEF Chats
    <3> HIDE DEF rest
    <3>4. QED
      BY <3>1, <3>2, <3>3 DEF Hosts
  <2>8. host'[s].chat = Reduce(mid[s].chat, start) /\ host'[s].served = mid[s].served
        /\ \A o \in Sessions \ {s} : host'[o] = mid[o]
    BY <1>7, <1>8, <2>6, <2>7
  <2>9. mid[s].chat # NoChat /\ mid[s].live
    BY <1>6, <1>7, <1>8
  <2> HIDE DEF mid
  <2>10. Sound(web, inbox, wire', ext, walks, host')
    <3>1. start \in Actions
      BY <1>5, <1>13
    <3> HIDE DEF mid
    <3>2. host' \in [Sessions -> Hosts] /\ host'[s].live
      BY <2>7
    <3>3. QED
      BY <1>9, <2>3, <2>8, <2>9, <3>1, <3>2, ActSound
  <2>11. QED
    BY <1>1, <1>2, <2>10, HostMove
<1>14. QED
  BY <1>12, <1>13
-----------------------------------------------------------------------------
LEMMA InitIInv == Init => IInv
<1> SUFFICES ASSUME Init PROVE IInv
  OBVIOUS
<1> DEFINE m == Msg("refresh", NoThread)
           p == <<m>>
<1>1. /\ web = [EmptyStore EXCEPT !.post = p]
      /\ inbox = <<>> /\ wire = <<>> /\ walks = {} /\ waiting = <<>>
      /\ ext = [subs |-> {}, records |-> [s \in Sessions |-> "none"],
                chats |-> [s \in Sessions |-> NoChat], rows |-> {}, models |-> FALSE]
      /\ host = [s \in Sessions |->
                   [live |-> FALSE, named |-> FALSE, coming |-> FALSE, served |-> FALSE,
                    parked |-> <<>>, chose |-> FALSE, chat |-> NoChat]]
      /\ warm = FALSE
      /\ create = [s \in Sessions |-> "none"]
      /\ writer = [s \in Sessions |-> "none"]
      /\ heard = {} /\ refused = {}
  BY DEF Init
<1>2. m \in Posts /\ m.m = "refresh"
  BY DEF Msg, Posts
<1> HIDE DEF m
<1>3. p \in Seq(Posts) /\ ToSet(p) = {m}
  BY <1>2 DEF ToSet
<1> HIDE DEF p
<1>4. EmptyStore.active = NoThread /\ \A k \in Keys : EmptyStore.edges[k] = "none"
  BY DEF EmptyStore
<1>5. EmptyStore \in Webs /\ EmptyStore.summaries = {} /\ ~EmptyStore.models
      /\ \A s \in Sessions : EmptyStore.chats[s] = NoChat
  BY EmptySeq DEF EmptyStore, Webs, Chats, Records
<1>6. /\ web \in Webs /\ web.post = p /\ web.summaries = {} /\ ~web.models /\ Shown(web)
      /\ \A s \in Sessions : web.chats[s] = NoChat
  <2>1. Shown(EmptyStore)
    BY <1>4 DEF Shown
  <2>2. QED
    BY <1>1, <1>3, <1>5, <2>1, PostWeb DEF SameFolds
<1>7. Types(web, inbox, wire, ext, walks, host)
  <2>1. ext \in Clients /\ IsFiniteSet(ext.rows)
    BY <1>1, FS_EmptySet DEF Clients, Records, Chats
  <2>2. host \in [Sessions -> Hosts]
    BY <1>1, EmptySeq DEF Hosts, Chats
  <2>3. inbox \in Seq(Messages) /\ wire \in Seq(Frames)
    BY <1>1, EmptySeq
  <2>4. QED
    BY <1>1, <1>6, <2>1, <2>2, <2>3 DEF Types
<1>8. ToSet(inbox) = {} /\ ToSet(wire) = {} /\ DOMAIN inbox = {} /\ DOMAIN wire = {}
  BY <1>1 DEF ToSet
<1>9. ASSUME NEW s \in Sessions
      PROVE  /\ Asked(web, inbox, wire, host, s)
             /\ Unknown(web, inbox, wire, ext, walks, s)
             /\ Chatless(web, inbox, wire, ext, s)
             /\ ~host[s].live
  <2>1. /\ ext.subs = {} /\ ext.rows = {} /\ ext.chats[s] = NoChat /\ ~host[s].live
        /\ host[s].chat = NoChat
    BY <1>1
  <2>2. ~Has(web.post, "create", s) /\ ~Has(wire, "result", s) /\ ~Has(inbox, "result", s)
    BY <1>2, <1>3, <1>6, <1>8 DEF Has, Is
  <2>3. Once(web.post, "create", s)
    <3>1. \A i \in DOMAIN p : p[i] \in ToSet(p)
      BY DEF ToSet
    <3>2. QED
      BY <1>2, <1>3, <1>6, <3>1 DEF Once, Is
  <2>4. Once(wire, "result", s) /\ Once(inbox, "result", s)
    BY <1>8 DEF Once
  <2>5. Asked(web, inbox, wire, host, s)
    BY <1>1, <2>1, <2>2, <2>3, <2>4 DEF Asked, Unborn
  <2>6. Unknown(web, inbox, wire, ext, walks, s)
    BY <1>1, <1>2, <1>3, <1>6, <1>8, <2>1 DEF Unknown
  <2>7. Chatless(web, inbox, wire, ext, s)
    BY <1>6, <1>8, <2>1 DEF Chatless
  <2>8. QED
    BY <2>1, <2>5, <2>6, <2>7
<1>10. Cold(web, inbox, wire, ext)
  BY <1>1, <1>6, <1>8 DEF Cold
<1>11. Ledgers /\ Refusals
  BY <1>1, EmptySeq DEF Ledgers, Refusals
<1>12. Writes(web)
  BY <1>2, <1>3, <1>6 DEF Writes
<1>13. QED
  BY <1>6, <1>7, <1>9, <1>10, <1>11, <1>12 DEF IInv, Sound, Steady

LEMMA NextIInv == IInv /\ [Next]_vars => IInv'
<1> SUFFICES ASSUME IInv, [Next]_vars PROVE IInv'
  OBVIOUS
<1>1. CASE Back
  BY <1>1, BackSound
<1>2. CASE Receive
  BY <1>2, ReceiveSound
<1>3. CASE Tick
  BY <1>3, TickSound
<1>4. CASE Handle
  BY <1>4, HandleSound
<1>5. CASE Frame
  BY <1>5, FrameSound
<1>6. CASE Warm
  BY <1>6, WarmSound
<1>7. ASSUME NEW s \in Sessions, Draft(s) PROVE IInv'
  BY <1>7, DraftSound
<1>8. ASSUME NEW s \in Sessions, WriteConfig(s) PROVE IInv'
  BY <1>8, WriteConfigSound
<1>9. ASSUME NEW s \in Sessions, Open(s) PROVE IInv'
  BY <1>9, OpenSound
<1>10. ASSUME NEW s \in Sessions, Seed(s) PROVE IInv'
  BY <1>10, SeedSound
<1>11. ASSUME NEW s \in Sessions, EndTurn(s) PROVE IInv'
  BY <1>11, EndTurnSound
<1>16. ASSUME NEW s \in Sessions, Materialise(s) PROVE IInv'
  BY <1>16, MaterialiseSound
<1>17. ASSUME NEW walk \in walks, Retry(walk) PROVE IInv'
  BY <1>17, RetrySound
<1>12. ASSUME NEW s \in Sessions, NEW t \in Typed[s], NEW exit \in BOOLEAN, Send(s, t, exit)
       PROVE  IInv'
  BY <1>12, SendSound, DraftAssumption
<1>13. ASSUME NEW i \in DOMAIN waiting, GiveUp(i) PROVE IInv'
  BY <1>13, GiveUpSound
<1>14. CASE UNCHANGED vars
  <2>1. /\ UNCHANGED <<inbox, wire, ext, walks, host, warm, create, heard, refused>>
        /\ web' = web /\ writer' = writer /\ waiting' = waiting
    BY <1>14 DEF vars
  <2>2. QED
    BY <2>1, Given, PageSound
<1>15. QED
  BY <1>1, <1>2, <1>3, <1>4, <1>5, <1>6, <1>7, <1>8, <1>9, <1>10, <1>11, <1>12, <1>13, <1>14,
     <1>16, <1>17 DEF Next

THEOREM Invariance == Spec => []IInv
  BY InitIInv, NextIInv, PTL DEF Spec

(* The thread that is open has a record to render. *)
THEOREM ActiveCorrect == Spec => []ActiveIsShown
<1>1. IInv => ActiveIsShown
  <2> SUFFICES ASSUME IInv, web.active # NoThread PROVE web.thread[web.active] # "none"
    BY DEF ActiveIsShown
  <2>1. web \in Webs /\ Shown(web)
    BY Given
  <2>2. web.active \in Keys
    BY <2>1 DEF Webs
  <2>3. QED
    BY <2>1, <2>2 DEF Shown
<1>2. QED
  BY <1>1, Invariance, PTL

(* The host refuses a config write only if its 30 s ran out. *)
THEOREM ConfigCorrect == Spec => []ConfigHeard
<1>1. IInv => ConfigHeard
  BY DEF IInv, Refusals, ConfigHeard
<1>2. QED
  BY <1>1, Invariance, PTL

(* The chat the webview shows is the host's once nothing of it is on the way. *)
THEOREM FollowsCorrect == Spec => []StoreFollows
<1>1. IInv => StoreFollows
  <2> SUFFICES ASSUME IInv, NEW s \in heard, host[s].live, web.chats[s] # NoChat, ~OnTheWay(s)
               PROVE  web.chats[s] = host[s].chat
    BY DEF StoreFollows
  <2>1. s \in Sessions /\ web \in Webs
    BY Given
  <2>2. /\ Serving(inbox, wire, ext, s) /\ Caught(wire, ext, host, s) /\ Fed(web, inbox, ext, s)
        /\ host[s].chat = NoChat => Chatless(web, inbox, wire, ext, s)
        /\ wire \in Seq(Frames) /\ inbox \in Seq(Messages)
        /\ host \in [Sessions -> Hosts]
    BY <2>1 DEF IInv, Sound, Steady, Types
  <2>3. /\ \A m \in ToSet(wire) : ~OfChat(m, s) /\ ~Is(m, "chat", s)
        /\ \A m \in ToSet(inbox) : ~OfChat(m, s) /\ ~Is(m, "chat", s)
    <3>1. /\ \A m \in ToSet(wire) : ~(m.m \in {"answer", "act"} /\ m.s = s)
          /\ \A m \in ToSet(inbox) : ~(m.m \in {"chat", "act"} /\ m.s = s)
      BY DEF OnTheWay, ToSet
    <3>2. /\ ToSet(wire) \subseteq Frames /\ ToSet(inbox) \subseteq Messages
      BY <2>2, InSeq
    <3>3. /\ \A m \in ToSet(wire) : m.m # "chat"
          /\ \A m \in ToSet(inbox) : m.m # "answer"
      BY <3>2, FrameKinds
    <3>4. QED
      BY <3>1, <3>3 DEF OfChat, Answering, Is
  <2>4. ext.chats[s] # NoChat
    BY <2>2 DEF Serving
  <2>5. host[s].served
    BY <2>2, <2>4 DEF Caught, Granted
  <2>6. Leads(s, Norm(ext.chats[s]), wire, Norm(host[s].chat))
    BY <2>2, <2>5 DEF Caught
  <2>7. Leads(s, Norm(web.chats[s]), inbox, Norm(ext.chats[s]))
    BY <2>2 DEF Fed
  <2>8. Norm(ext.chats[s]) = Norm(host[s].chat)
    BY <2>2, <2>3, <2>6, LeadsNot
  <2>9. Norm(web.chats[s]) = Norm(ext.chats[s])
    BY <2>2, <2>3, <2>7, LeadsNot
  <2>10. host[s].chat # NoChat
    BY <2>2 DEF Chatless
  <2>11. Norm(web.chats[s]) = web.chats[s] /\ Norm(host[s].chat) = host[s].chat
    BY <2>10 DEF Norm
  <2>12. QED
    BY <2>8, <2>9, <2>11
<1>2. QED
  BY <1>1, Invariance, PTL

=============================================================================

-------------------------- MODULE WorkflowDraftProofs --------------------------
(***************************************************************************)
(* Proofs about the workflow builder: an edge joins two nodes wherever a   *)
(* graph is kept, no graph drawn by hand has a cycle, undo and redo walk a *)
(* line of graphs, and what the canvas shows is saved once all is quiet.   *)
(* For any nodes, texts, plans and bounds.                                 *)
(***************************************************************************)
EXTENDS WorkflowDraft, SequenceTheorems, FiniteSetTheorems, TLAPS

---------------------------------------------------------------------------
(* Induction, as a fact about sets of numbers: a set that has 0, and with a *)
(* number the next one, has them all.                                      *)

Before == OpToRel(<, Nat)

LEMMA Least ==
  ASSUME NEW S, S \subseteq Nat, S # {}
  PROVE  \E n \in S : \A m \in S : n <= m
  <1>1. IsWellFoundedOn(Before, Nat)
    BY NatLessThanWellFounded DEF Before
  <1>2. \A i, j \in Nat : i < j => <<i, j>> \in Before
    BY DEF Before, OpToRel
  <1>3. PICK n \in S : \A m \in S : ~(<<m, n>> \in Before)
    BY <1>1, WFMin
  <1>4. n \in Nat /\ \A m \in S : m \in Nat /\ ~(m < n)
    BY <1>2, <1>3
  <1> QED
    BY <1>4

LEMMA Induction ==
  ASSUME NEW S, 0 \in S, \A n \in Nat : n \in S => n + 1 \in S
  PROVE  Nat \subseteq S
  <1> SUFFICES ASSUME NEW x \in Nat, x \notin S PROVE FALSE
    OBVIOUS
  <1> DEFINE U == {n \in Nat : n \notin S}
  <1>1. PICK n \in U : \A m \in U : n <= m
    BY Least
  <1>2. n # 0 /\ n - 1 \in Nat /\ n - 1 \notin U
    BY <1>1
  <1>3. n - 1 + 1 \in S
    BY <1>2
  <1> QED
    BY <1>2, <1>3

---------------------------------------------------------------------------
(* wouldCycle.  The search is a function of the number of its steps; it    *)
(* exists, and after as many steps as there are nodes it has stopped.      *)

Next_(g, ns) == ns \cup Succ(g, ns)
IsSearch(f, k, g, n) == f = [i \in 0 .. k |-> IF i = 0 THEN {n} ELSE Next_(g, f[i - 1])]

LEMMA SearchStep ==
  ASSUME NEW f, NEW k \in Nat, NEW g, NEW n, IsSearch(f, k, g, n)
  PROVE  f[0] = {n} /\ \A i \in 1 .. k : f[i] = Next_(g, f[i - 1])
  <1> DEFINE E(i) == IF i = 0 THEN {n} ELSE Next_(g, f[i - 1])
  <1>1. f = [i \in 0 .. k |-> E(i)]
    BY DEF IsSearch
  <1> HIDE DEF E
  <1>2. \A i \in 0 .. k : f[i] = E(i)
    BY <1>1
  <1>3. E(0) = {n} /\ \A i \in 1 .. k : E(i) = Next_(g, f[i - 1])
    BY DEF E
  <1> QED
    BY <1>2, <1>3

LEMMA SearchExists ==
  ASSUME NEW g, NEW n
  PROVE  \A k \in Nat : \E f : IsSearch(f, k, g, n)
  <1> DEFINE S == {k \in Nat : \E f : IsSearch(f, k, g, n)}
  <1>1. 0 \in S
    <2> DEFINE f == [i \in 0 .. 0 |-> {n}]
    <2>1. f = [i \in 0 .. 0 |-> IF i = 0 THEN {n} ELSE Next_(g, f[i - 1])]
      OBVIOUS
    <2>2. IsSearch(f, 0, g, n)
      BY <2>1 DEF IsSearch
    <2> QED
      BY <2>2
  <1>2. ASSUME NEW k \in Nat, k \in S PROVE k + 1 \in S
    <2>1. PICK f : IsSearch(f, k, g, n)
      BY <1>2
    <2>2. f[0] = {n} /\ \A i \in 1 .. k : f[i] = Next_(g, f[i - 1])
      BY <2>1, SearchStep
    <2> DEFINE h == [i \in 0 .. k + 1 |-> IF i <= k THEN f[i] ELSE Next_(g, f[k])]
    <2>3. ASSUME NEW i \in 0 .. k + 1
          PROVE  h[i] = IF i = 0 THEN {n} ELSE Next_(g, h[i - 1])
      <3>1. CASE i = 0
        BY <2>2, <3>1
      <3>2. CASE i \in 1 .. k
        <4>1. h[i] = f[i] /\ h[i - 1] = f[i - 1]
          BY <3>2
        <4> QED
          BY <2>2, <3>2, <4>1
      <3>3. CASE i = k + 1
        <4>1. h[i] = Next_(g, f[k]) /\ h[i - 1] = f[k]
          BY <3>3
        <4> QED
          BY <3>3, <4>1
      <3> QED
        BY <3>1, <3>2, <3>3
    <2>4. h = [i \in 0 .. k + 1 |-> h[i]]
      OBVIOUS
    <2> HIDE DEF h
    <2>5. IsSearch(h, k + 1, g, n)
      BY <2>3, <2>4 DEF IsSearch
    <2> QED
      BY <2>5
  <1> HIDE DEF S
  <1>3. Nat \subseteq S
    BY <1>1, <1>2, Induction
  <1> QED
    BY <1>3 DEF S

\* Every step adds a node until one adds none, and then none does.
LEMMA SearchStops ==
  ASSUME NEW g \in Definition, NEW n \in Nodes, NEW k \in Nat, NEW f, IsSearch(f, k, g, n)
  PROVE  \A i \in 0 .. k : /\ f[i] \subseteq Nodes /\ n \in f[i]
                           /\ Succ(g, f[i]) \subseteq f[i] \/ Cardinality(f[i]) > i
  <1>1. f[0] = {n} /\ \A i \in 1 .. k : f[i] = Next_(g, f[i - 1])
    BY SearchStep
  <1>2. \A ns \in SUBSET Nodes : Succ(g, ns) \subseteq Nodes
    BY DEF Succ, Definition
  <1> DEFINE Grown(i) == /\ f[i] \subseteq Nodes /\ n \in f[i]
                         /\ Succ(g, f[i]) \subseteq f[i] \/ Cardinality(f[i]) > i
             S == {i \in Nat : i <= k => Grown(i)}
  <1>3. 0 \in S
    <2>1. Cardinality(f[0]) = 1
      BY <1>1, FS_Singleton
    <2> QED
      BY <1>1, <2>1
  <1>4. ASSUME NEW i \in Nat, i \in S PROVE i + 1 \in S
    <2> SUFFICES ASSUME i + 1 <= k PROVE Grown(i + 1)
      OBVIOUS
    <2>1. Grown(i)
      BY <1>4
    <2>2. f[i + 1] = f[i] \cup Succ(g, f[i])
      BY <1>1 DEF Next_
    <2>3. f[i + 1] \subseteq Nodes /\ n \in f[i + 1]
      BY <1>2, <2>1, <2>2
    <2>4. CASE Succ(g, f[i]) \subseteq f[i]
      <3>1. f[i + 1] = f[i]
        BY <2>2, <2>4
      <3> QED
        BY <2>3, <2>4, <3>1
    <2>5. CASE ~(Succ(g, f[i]) \subseteq f[i])
      <3>1. IsFiniteSet(f[i + 1]) /\ IsFiniteSet(f[i])
        BY <2>1, <2>3, NodesAssumption, FS_Subset
      <3>2. f[i] \subseteq f[i + 1] /\ f[i] # f[i + 1]
        BY <2>2, <2>5
      <3>3. Cardinality(f[i]) <= Cardinality(f[i + 1]) /\ Cardinality(f[i]) # Cardinality(f[i + 1])
        BY <3>1, <3>2, FS_Subset
      <3>4. Cardinality(f[i]) \in Nat /\ Cardinality(f[i + 1]) \in Nat
        BY <3>1, FS_CardinalityType
      <3>5. Cardinality(f[i]) > i
        BY <2>1, <2>5
      <3>6. Cardinality(f[i + 1]) > i + 1
        BY <3>3, <3>4, <3>5
      <3> QED
        BY <2>3, <3>6
    <2> QED
      BY <2>4, <2>5
  <1> HIDE DEF Grown
  <1>5. Nat \subseteq S
    BY <1>3, <1>4, Induction
  <1>6. \A i \in 0 .. k : Grown(i)
    BY <1>5
  <1> QED
    BY <1>6 DEF Grown

\* What the search finds has its start and all that edges lead to from there.
LEMMA ReachedCloses ==
  ASSUME NEW g \in Definition, NEW n \in Nodes
  PROVE  /\ Reached(g, n) \subseteq Nodes /\ n \in Reached(g, n)
         /\ Succ(g, Reached(g, n)) \subseteq Reached(g, n)
  <1> DEFINE k == Cardinality(Nodes)
             f == CHOOSE f_1 : IsSearch(f_1, k, g, n)
  <1>1. k \in Nat
    BY NodesAssumption, FS_CardinalityType
  <1>2. IsSearch(f, k, g, n)
    BY <1>1, SearchExists
  <1>3. Reached(g, n) = f[k]
    BY DEF Reached, IsSearch, Next_
  <1> HIDE DEF f
  <1>4. /\ f[k] \subseteq Nodes /\ n \in f[k]
        /\ Succ(g, f[k]) \subseteq f[k] \/ Cardinality(f[k]) > k
    BY <1>1, <1>2, SearchStops
  <1>5. Cardinality(f[k]) <= k /\ Cardinality(f[k]) \in Nat
    BY <1>4, NodesAssumption, FS_Subset, FS_CardinalityType
  <1> QED
    BY <1>1, <1>3, <1>4, <1>5

LEMMA SearchWithin ==
  ASSUME NEW g, NEW n, NEW k \in Nat, NEW f, IsSearch(f, k, g, n), NEW closed, n \in closed,
         Succ(g, closed) \subseteq closed
  PROVE  \A i \in 0 .. k : f[i] \subseteq closed
  <1>1. f[0] = {n} /\ \A i \in 1 .. k : f[i] = Next_(g, f[i - 1])
    BY SearchStep
  <1> DEFINE Within(i) == f[i] \subseteq closed
             S == {i \in Nat : i <= k => Within(i)}
  <1>2. 0 \in S
    BY <1>1
  <1>3. ASSUME NEW i \in Nat, i \in S PROVE i + 1 \in S
    <2> SUFFICES ASSUME i + 1 <= k PROVE Within(i + 1)
      OBVIOUS
    <2>1. f[i + 1] = f[i] \cup Succ(g, f[i]) /\ f[i] \subseteq closed
      BY <1>1, <1>3 DEF Next_
    <2>2. Succ(g, f[i]) \subseteq Succ(g, closed)
      BY <2>1 DEF Succ
    <2> QED
      BY <2>1, <2>2
  <1> HIDE DEF Within
  <1>4. Nat \subseteq S
    BY <1>2, <1>3, Induction
  <1>5. \A i \in 0 .. k : Within(i)
    BY <1>4
  <1> QED
    BY <1>5 DEF Within

\* ... and nothing else: it is the least such set.
LEMMA ReachedIsLeast ==
  ASSUME NEW g, NEW n, NEW closed, n \in closed, Succ(g, closed) \subseteq closed
  PROVE  Reached(g, n) \subseteq closed
  <1> DEFINE k == Cardinality(Nodes)
             f == CHOOSE f_1 : IsSearch(f_1, k, g, n)
  <1>1. k \in Nat
    BY NodesAssumption, FS_CardinalityType
  <1>2. IsSearch(f, k, g, n)
    BY <1>1, SearchExists
  <1>3. Reached(g, n) = f[k]
    BY DEF Reached, IsSearch, Next_
  <1> HIDE DEF f, k
  <1>4. \A i \in 0 .. k : f[i] \subseteq closed
    BY <1>1, <1>2, SearchWithin
  <1>5. k \in 0 .. k
    BY <1>1
  <1> QED
    BY <1>3, <1>4, <1>5

\* A set of nodes that all have a successor in it: Cyclic asks for one.
Circle(g, ns) == ns # {} /\ \A n \in ns : \E m \in ns : <<n, m>> \in g.edges

LEMMA NoNewCycle ==
  ASSUME NEW g \in Definition, NEW s \in Nodes, NEW t \in Nodes,
         ~Cyclic(g), ~WouldCycle(g, s, t)
  PROVE  ~Cyclic([g EXCEPT !.edges = @ \cup {<<s, t>>}])
  <1> DEFINE h == [g EXCEPT !.edges = @ \cup {<<s, t>>}]
             r == Reached(g, t)
  <1>1. h.edges = g.edges \cup {<<s, t>>}
    BY DEF Definition
  <1>2. r \subseteq Nodes /\ t \in r /\ Succ(g, r) \subseteq r
    BY ReachedCloses
  <1>3. s \notin r
    BY DEF WouldCycle
  <1> HIDE DEF h, r
  <1> SUFFICES ASSUME NEW ns \in SUBSET Nodes, Circle(h, ns) PROVE FALSE
    BY DEF Cyclic, Circle, h
  <1>4. ~Circle(g, ns) /\ ~Circle(g, ns \cap r)
    BY DEF Cyclic, Circle
  <1>5. t \in ns
    BY <1>1, <1>4 DEF Circle
  <1>6. ASSUME NEW n \in ns \cap r PROVE \E m \in ns \cap r : <<n, m>> \in g.edges
    <2>1. PICK m \in ns : <<n, m>> \in h.edges
      BY DEF Circle
    <2>2. <<n, m>> \in g.edges
      BY <1>1, <1>3, <2>1
    <2>3. m \in Succ(g, r)
      BY <2>2 DEF Succ
    <2> QED
      BY <1>2, <2>2, <2>3
  <1> QED
    BY <1>2, <1>4, <1>5, <1>6 DEF Circle

\* What wouldCycle refuses would indeed close a cycle: it refuses the edges
\* that do and no others (reachability over the edges of the canvas).
THEOREM WouldCycleIsExact ==
  ASSUME NEW g \in Definition, NEW s \in Nodes, NEW t \in Nodes, ~Cyclic(g)
  PROVE  WouldCycle(g, s, t) <=> Cyclic([g EXCEPT !.edges = @ \cup {<<s, t>>}])
  <1> DEFINE h == [g EXCEPT !.edges = @ \cup {<<s, t>>}]
             ns == {n \in Nodes : s \in Reached(g, n)}
  <1>1. h.edges = g.edges \cup {<<s, t>>}
    BY DEF Definition
  <1> SUFFICES ASSUME s \in Reached(g, t) PROVE Cyclic(h)
    BY NoNewCycle DEF WouldCycle
  <1>2. ns \in SUBSET Nodes /\ s \in ns /\ t \in ns
    BY ReachedCloses
  <1>3. ASSUME NEW n \in ns PROVE \E m \in ns : <<n, m>> \in h.edges
    <2>1. CASE n = s
      BY <1>1, <1>2, <2>1
    <2>2. CASE n # s
      <3> DEFINE after == UNION {Reached(g, m) : m \in Succ(g, {n})}
      <3>1. Succ(g, {n}) \subseteq Nodes
        BY DEF Succ, Definition
      <3>2. Succ(g, {n}) \subseteq after
        BY <3>1, ReachedCloses
      <3>3. Succ(g, after) \subseteq after
        <4> SUFFICES ASSUME NEW x \in Succ(g, after) PROVE x \in after
          OBVIOUS
        <4>1. PICK e \in g.edges : e[1] \in after /\ x = e[2]
          BY DEF Succ
        <4>2. PICK m \in Succ(g, {n}) : e[1] \in Reached(g, m)
          BY <4>1
        <4>3. x \in Succ(g, Reached(g, m))
          BY <4>1, <4>2 DEF Succ
        <4>4. x \in Reached(g, m)
          BY <3>1, <4>3, ReachedCloses
        <4> QED
          BY <4>4
      <3> HIDE DEF after
      <3>4. Succ(g, {n} \cup after) \subseteq {n} \cup after
        BY <3>2, <3>3 DEF Succ
      <3>5. Reached(g, n) \subseteq {n} \cup after
        <4>1. n \in {n} \cup after
          OBVIOUS
        <4> QED
          BY <3>4, <4>1, ReachedIsLeast
      <3>6. s \in after
        BY <2>2, <3>5
      <3>7. PICK m \in Succ(g, {n}) : s \in Reached(g, m)
        BY <3>6 DEF after
      <3>8. m \in ns /\ <<n, m>> \in g.edges
        BY <3>1, <3>7 DEF Succ, Definition
      <3> QED
        BY <1>1, <3>8
    <2> QED
      BY <2>1, <2>2
  <1> HIDE DEF ns, h
  <1>4. ns # {}
    BY <1>2
  <1> QED
    BY <1>2, <1>3, <1>4 DEF Cyclic

---------------------------------------------------------------------------
(* What is done to a graph.                                                *)

\* The graphs of G differ in their nodes' texts and places only.
SameBut(g, h) == /\ g.edges = h.edges
                 /\ \A n \in Nodes : /\ g.nodes[n] = Nothing <=> h.nodes[n] = Nothing
                                     /\ g.nodes[n] # Nothing => g.nodes[n].text = h.nodes[n].text

LEMMA PutFacts ==
  ASSUME NEW g \in Definition, NEW n \in Nodes, NEW d \in Data
  PROVE  /\ Put(g, n, d) \in Definition /\ Put(g, n, d).edges = g.edges
         /\ Present(Put(g, n, d)) = Present(g) \cup {n}
  <1> DEFINE h == Put(g, n, d)
  <1>1. h.edges = g.edges /\ h.nodes = [m \in Nodes |-> IF m = n THEN d ELSE g.nodes[m]]
    BY DEF Put, Definition
  <1>2. h \in Definition
    BY DEF Put, Definition
  <1> HIDE DEF h
  <1>3. Present(h) = Present(g) \cup {n}
    BY <1>1, NothingAssumption DEF Present
  <1> QED
    BY <1>1, <1>2, <1>3 DEF h

LEMMA DefaultData == Default \in Data
  BY DEF Default, Data

LEMMA TextFacts ==
  ASSUME NEW g \in Definition, NEW n \in Present(g), NEW t \in Texts
  PROVE  LET h == [g EXCEPT !.nodes[n].text = t]
         IN  h \in Definition /\ h.edges = g.edges /\ Present(h) = Present(g)
  <1> DEFINE d == [g.nodes[n] EXCEPT !.text = t]
             h == [g EXCEPT !.nodes[n].text = t]
  <1>1. n \in Nodes /\ g.nodes[n] \in Data
    BY DEF Present, Definition
  <1>2. d \in Data
    BY <1>1 DEF Data
  <1>3. h = Put(g, n, d)
    BY DEF Put, Definition
  <1>4. Present(g) \cup {n} = Present(g)
    OBVIOUS
  <1> HIDE DEF h, d
  <1>5. h \in Definition /\ h.edges = g.edges /\ Present(h) = Present(g)
    BY <1>1, <1>2, <1>3, <1>4, PutFacts
  <1> QED
    BY <1>5 DEF h

LEMMA PlaceFacts ==
  ASSUME NEW g \in Definition, NEW n \in Present(g)
  PROVE  LET h == [g EXCEPT !.nodes[n].place = 1 - @]
         IN  h \in Definition /\ h.edges = g.edges /\ Present(h) = Present(g) /\ SameBut(h, g)
  <1> DEFINE d == [g.nodes[n] EXCEPT !.place = 1 - g.nodes[n].place]
             h == [g EXCEPT !.nodes[n].place = 1 - @]
  <1>1. n \in Nodes /\ g.nodes[n] \in Data
    BY DEF Present, Definition
  <1>2. d \in Data /\ d.text = g.nodes[n].text
    BY <1>1 DEF Data
  <1>3. h = Put(g, n, d)
    BY DEF Put, Definition
  <1>4. h.nodes = [m \in Nodes |-> IF m = n THEN d ELSE g.nodes[m]]
    BY <1>3 DEF Put, Definition
  <1>5. h \in Definition /\ h.edges = g.edges /\ Present(h) = Present(g) \cup {n}
    BY <1>1, <1>2, <1>3, PutFacts
  <1> HIDE DEF h, d
  <1>6. SameBut(h, g)
    BY <1>1, <1>2, <1>4, <1>5, NothingAssumption DEF SameBut
  <1>7. h \in Definition /\ h.edges = g.edges /\ Present(h) = Present(g) /\ SameBut(h, g)
    BY <1>5, <1>6
  <1> QED
    BY <1>7 DEF h

LEMMA WithoutFacts ==
  ASSUME NEW g \in Definition, NEW ns, NEW es
  PROVE  /\ Without(g, ns, es) \in Definition
         /\ Without(g, ns, es).edges = g.edges \ (es \cup Touching(g, ns))
         /\ Present(Without(g, ns, es)) = Present(g) \ ns
  BY DEF Without, Definition, Present

LEMMA EdgeFacts ==
  ASSUME NEW g \in Definition, NEW s \in Nodes, NEW t \in Nodes
  PROVE  LET h == [g EXCEPT !.edges = @ \cup {<<s, t>>}]
         IN  h \in Definition /\ h.edges = g.edges \cup {<<s, t>>} /\ Present(h) = Present(g)
  BY DEF Definition, Present

\* Fewer edges and more nodes keep the edges joined; so does a deletion, which
\* takes the edges of a node along.
LEMMA JoinedStill ==
  ASSUME NEW g, NEW h, Joined(g), h.edges \subseteq g.edges, Present(g) \subseteq Present(h)
  PROVE  Joined(h)
  BY DEF Joined

LEMMA JoinedWithout ==
  ASSUME NEW g \in Definition, Joined(g), NEW ns, NEW es
  PROVE  Joined(Without(g, ns, es))
  BY WithoutFacts DEF Joined, Touching

LEMMA JoinedEdge ==
  ASSUME NEW g \in Definition, Joined(g), NEW s \in Present(g), NEW t \in Present(g)
  PROVE  Joined([g EXCEPT !.edges = @ \cup {<<s, t>>}])
  <1>1. s \in Nodes /\ t \in Nodes
    BY DEF Present
  <1> QED
    BY <1>1, EdgeFacts DEF Joined

LEMMA FewerEdgesNoCycle ==
  ASSUME NEW g, NEW h, ~Cyclic(g), h.edges \subseteq g.edges
  PROVE  ~Cyclic(h)
  BY DEF Cyclic

---------------------------------------------------------------------------
(* A plan that validatePlan accepts can be applied: what it holds to be     *)
(* alive is what applyPlan has made by then.                               *)

LEMMA OpFacts ==
  ASSUME NEW op \in Operation, NEW g \in Definition, NEW live,
         DOMAIN live = {"nodes", "edges"}, live.nodes = Present(g), Holds(live, op)
  PROVE  /\ ApplyOp(g, op) \in Definition
         /\ DOMAIN Live(live, op) = {"nodes", "edges"}
         /\ Live(live, op).nodes = Present(ApplyOp(g, op))
         /\ Joined(g) => Joined(ApplyOp(g, op))
  <1>1. CASE op.op = "add_node"
    <2>1. op.id \in Nodes
      BY <1>1 DEF Operation
    <2>2. ApplyOp(g, op) = Put(g, op.id, Default)
      BY <1>1 DEF ApplyOp
    <2>3. Live(live, op) = [live EXCEPT !.nodes = live.nodes \cup {op.id}]
      BY <1>1 DEF Live
    <2>4. DOMAIN Live(live, op) = {"nodes", "edges"} /\ Live(live, op).nodes = live.nodes \cup {op.id}
      BY <2>3
    <2> QED
      BY <2>1, <2>2, <2>4, DefaultData, PutFacts, JoinedStill
  <1>2. CASE op.op = "update_node"
    <2>1. op.id \in Present(g) /\ op.text \in Texts
      BY <1>2 DEF Operation, Holds
    <2>2. ApplyOp(g, op) = [g EXCEPT !.nodes[op.id].text = op.text]
      BY <1>2 DEF ApplyOp
    <2>3. Live(live, op) = live
      BY <1>2 DEF Live
    <2>4. PICK h : h = ApplyOp(g, op)
      OBVIOUS
    <2>5. h \in Definition /\ h.edges = g.edges /\ Present(h) = Present(g)
      BY <2>1, <2>2, <2>4, TextFacts
    <2> QED
      BY <2>3, <2>4, <2>5, JoinedStill
  <1>3. CASE op.op = "delete_node"
    <2>1. ApplyOp(g, op) = Without(g, {op.id}, {})
      BY <1>3 DEF ApplyOp
    <2>2. Live(live, op) = [live EXCEPT !.nodes = live.nodes \ {op.id}]
      BY <1>3 DEF Live
    <2>3. DOMAIN Live(live, op) = {"nodes", "edges"} /\ Live(live, op).nodes = live.nodes \ {op.id}
      BY <2>2
    <2> QED
      BY <2>1, <2>3, WithoutFacts, JoinedWithout
  <1>4. CASE op.op = "add_edge"
    <2>1. op.edge \in Nodes \X Nodes /\ op.edge[1] \in Present(g) /\ op.edge[2] \in Present(g)
      BY <1>4 DEF Operation, Holds
    <2>2. PICK s \in Present(g), t \in Present(g) : op.edge = <<s, t>>
      BY <2>1
    <2>3. ApplyOp(g, op) = [g EXCEPT !.edges = g.edges \cup {<<s, t>>}]
      BY <1>4, <2>2 DEF ApplyOp
    <2>4. Live(live, op) = [live EXCEPT !.edges = live.edges \cup {op.edge}]
      BY <1>4 DEF Live
    <2>5. DOMAIN Live(live, op) = {"nodes", "edges"} /\ Live(live, op).nodes = live.nodes
      BY <2>4
    <2>6. s \in Nodes /\ t \in Nodes
      BY DEF Present
    <2> QED
      BY <2>3, <2>5, <2>6, EdgeFacts, JoinedEdge
  <1>5. CASE op.op = "delete_edge"
    <2>1. ApplyOp(g, op) = Without(g, {}, {op.edge})
      BY <1>5 DEF ApplyOp
    <2>2. Live(live, op) = [live EXCEPT !.edges = live.edges \ {op.edge}]
      BY <1>5 DEF Live
    <2>3. DOMAIN Live(live, op) = {"nodes", "edges"} /\ Live(live, op).nodes = live.nodes
      BY <2>2
    <2>4. PICK h : h = Without(g, {}, {op.edge})
      OBVIOUS
    <2>5. h \in Definition /\ Present(h) = Present(g) \ {}
      BY <2>4, WithoutFacts
    <2>6. Joined(g) => Joined(h)
      BY <2>4, JoinedWithout
    <2>7. Present(h) = Present(g)
      BY <2>5
    <2>8. Live(live, op).nodes = Present(g)
      BY <2>3
    <2> QED
      BY <2>1, <2>3, <2>4, <2>5, <2>6, <2>7, <2>8
  <1> QED
    BY <1>1, <1>2, <1>3, <1>4, <1>5 DEF Operation

FirstLook(g) == [ok |-> TRUE, live |-> [nodes |-> Present(g), edges |-> g.edges]]
IsLook(f, k, plan, g) ==
  f = [i \in 0 .. k |-> IF i = 0 THEN FirstLook(g) ELSE Checked(f[i - 1], plan[i])]
IsMade(f, k, plan, g) == f = [i \in 0 .. k |-> IF i = 0 THEN g ELSE ApplyOp(f[i - 1], plan[i])]

LEMMA LookStep ==
  ASSUME NEW f, NEW k \in Nat, NEW plan, NEW g, IsLook(f, k, plan, g)
  PROVE  f[0] = FirstLook(g) /\ \A i \in 1 .. k : f[i] = Checked(f[i - 1], plan[i])
  <1> DEFINE E(i) == IF i = 0 THEN FirstLook(g) ELSE Checked(f[i - 1], plan[i])
  <1>1. f = [i \in 0 .. k |-> E(i)]
    BY DEF IsLook
  <1> HIDE DEF E
  <1>2. \A i \in 0 .. k : f[i] = E(i)
    BY <1>1
  <1>3. E(0) = FirstLook(g) /\ \A i \in 1 .. k : E(i) = Checked(f[i - 1], plan[i])
    BY DEF E
  <1> QED
    BY <1>2, <1>3

LEMMA MadeStep ==
  ASSUME NEW f, NEW k \in Nat, NEW plan, NEW g, IsMade(f, k, plan, g)
  PROVE  f[0] = g /\ \A i \in 1 .. k : f[i] = ApplyOp(f[i - 1], plan[i])
  <1> DEFINE E(i) == IF i = 0 THEN g ELSE ApplyOp(f[i - 1], plan[i])
  <1>1. f = [i \in 0 .. k |-> E(i)]
    BY DEF IsMade
  <1> HIDE DEF E
  <1>2. \A i \in 0 .. k : f[i] = E(i)
    BY <1>1
  <1>3. E(0) = g /\ \A i \in 1 .. k : E(i) = ApplyOp(f[i - 1], plan[i])
    BY DEF E
  <1> QED
    BY <1>2, <1>3

LEMMA LookExists ==
  ASSUME NEW plan, NEW g
  PROVE  \A k \in Nat : \E f : IsLook(f, k, plan, g)
  <1> DEFINE S == {k \in Nat : \E f : IsLook(f, k, plan, g)}
  <1>1. 0 \in S
    <2> DEFINE f == [i \in 0 .. 0 |-> FirstLook(g)]
    <2>1. f = [i \in 0 .. 0 |-> IF i = 0 THEN FirstLook(g) ELSE Checked(f[i - 1], plan[i])]
      OBVIOUS
    <2>2. IsLook(f, 0, plan, g)
      BY <2>1 DEF IsLook
    <2> QED
      BY <2>2
  <1>2. ASSUME NEW k \in Nat, k \in S PROVE k + 1 \in S
    <2>1. PICK f : IsLook(f, k, plan, g)
      BY <1>2
    <2>2. f[0] = FirstLook(g) /\ \A i \in 1 .. k : f[i] = Checked(f[i - 1], plan[i])
      BY <2>1, LookStep
    <2> DEFINE h == [i \in 0 .. k + 1 |-> IF i <= k THEN f[i] ELSE Checked(f[k], plan[k + 1])]
    <2>3. ASSUME NEW i \in 0 .. k + 1
          PROVE  h[i] = IF i = 0 THEN FirstLook(g) ELSE Checked(h[i - 1], plan[i])
      <3>1. CASE i = 0
        BY <2>2, <3>1
      <3>2. CASE i \in 1 .. k
        <4>1. h[i] = f[i] /\ h[i - 1] = f[i - 1]
          BY <3>2
        <4> QED
          BY <2>2, <3>2, <4>1
      <3>3. CASE i = k + 1
        <4>1. h[i] = Checked(f[k], plan[i]) /\ h[i - 1] = f[k]
          BY <3>3
        <4> QED
          BY <3>3, <4>1
      <3> QED
        BY <3>1, <3>2, <3>3
    <2>4. h = [i \in 0 .. k + 1 |-> h[i]]
      OBVIOUS
    <2> HIDE DEF h
    <2>5. IsLook(h, k + 1, plan, g)
      BY <2>3, <2>4 DEF IsLook
    <2> QED
      BY <2>5
  <1> HIDE DEF S
  <1>3. Nat \subseteq S
    BY <1>1, <1>2, Induction
  <1> QED
    BY <1>3 DEF S

LEMMA MadeExists ==
  ASSUME NEW plan, NEW g
  PROVE  \A k \in Nat : \E f : IsMade(f, k, plan, g)
  <1> DEFINE S == {k \in Nat : \E f : IsMade(f, k, plan, g)}
  <1>1. 0 \in S
    <2> DEFINE f == [i \in 0 .. 0 |-> g]
    <2>1. f = [i \in 0 .. 0 |-> IF i = 0 THEN g ELSE ApplyOp(f[i - 1], plan[i])]
      OBVIOUS
    <2>2. IsMade(f, 0, plan, g)
      BY <2>1 DEF IsMade
    <2> QED
      BY <2>2
  <1>2. ASSUME NEW k \in Nat, k \in S PROVE k + 1 \in S
    <2>1. PICK f : IsMade(f, k, plan, g)
      BY <1>2
    <2>2. f[0] = g /\ \A i \in 1 .. k : f[i] = ApplyOp(f[i - 1], plan[i])
      BY <2>1, MadeStep
    <2> DEFINE h == [i \in 0 .. k + 1 |-> IF i <= k THEN f[i] ELSE ApplyOp(f[k], plan[k + 1])]
    <2>3. ASSUME NEW i \in 0 .. k + 1
          PROVE  h[i] = IF i = 0 THEN g ELSE ApplyOp(h[i - 1], plan[i])
      <3>1. CASE i = 0
        BY <2>2, <3>1
      <3>2. CASE i \in 1 .. k
        <4>1. h[i] = f[i] /\ h[i - 1] = f[i - 1]
          BY <3>2
        <4> QED
          BY <2>2, <3>2, <4>1
      <3>3. CASE i = k + 1
        <4>1. h[i] = ApplyOp(f[k], plan[i]) /\ h[i - 1] = f[k]
          BY <3>3
        <4> QED
          BY <3>3, <4>1
      <3> QED
        BY <3>1, <3>2, <3>3
    <2>4. h = [i \in 0 .. k + 1 |-> h[i]]
      OBVIOUS
    <2> HIDE DEF h
    <2>5. IsMade(h, k + 1, plan, g)
      BY <2>3, <2>4 DEF IsMade
    <2> QED
      BY <2>5
  <1> HIDE DEF S
  <1>3. Nat \subseteq S
    BY <1>1, <1>2, Induction
  <1> QED
    BY <1>3 DEF S

\* After each operation the check, while it holds, has the nodes of the graph
\* made by then alive.
LEMMA PlanStands ==
  ASSUME NEW plan \in Seq(Operation), NEW g \in Definition, NEW k \in Nat, k = Len(plan),
         NEW look, IsLook(look, k, plan, g), NEW made, IsMade(made, k, plan, g)
  PROVE  \A i \in 0 .. k : look[i].ok =>
           made[i] \in Definition /\ (Joined(g) => Joined(made[i]))
  <1>1. look[0] = FirstLook(g) /\ \A i \in 1 .. k : look[i] = Checked(look[i - 1], plan[i])
    BY LookStep
  <1>2. made[0] = g /\ \A i \in 1 .. k : made[i] = ApplyOp(made[i - 1], plan[i])
    BY MadeStep
  <1> DEFINE Shape(i) == DOMAIN look[i] = {"ok", "live"} /\ look[i].ok \in BOOLEAN
             Alive(i) == /\ DOMAIN look[i].live = {"nodes", "edges"}
                         /\ look[i].live.nodes = Present(made[i])
                         /\ made[i] \in Definition /\ (Joined(g) => Joined(made[i]))
             Stands(i) == Shape(i) /\ (look[i].ok => Alive(i))
             S == {i \in Nat : i <= k => Stands(i)}
  <1>3. 0 \in S
    <2>1. look[0] = [ok |-> TRUE, live |-> [nodes |-> Present(g), edges |-> g.edges]] /\ made[0] = g
      BY <1>1, <1>2 DEF FirstLook
    <2>2. Shape(0)
      BY <2>1
    <2>3. Alive(0)
      BY <2>1
    <2> QED
      BY <2>2, <2>3
  <1>4. ASSUME NEW i \in Nat, i \in S PROVE i + 1 \in S
    <2> SUFFICES ASSUME i + 1 <= k PROVE Stands(i + 1)
      OBVIOUS
    <2>1. Stands(i)
      BY <1>4
    <2>2. PICK a, op : a = look[i] /\ op = plan[i + 1]
      OBVIOUS
    <2>3. look[i + 1] = Checked(a, op) /\ made[i + 1] = ApplyOp(made[i], op) /\ op \in Operation
      BY <1>1, <1>2, <2>2
    <2>4. CASE a.ok /\ Holds(a.live, op)
      <3>1. look[i + 1] = [a EXCEPT !.live = Live(a.live, op)]
        BY <2>3, <2>4 DEF Checked
      <3>2. DOMAIN look[i + 1] = {"ok", "live"} /\ look[i + 1].ok = a.ok
            /\ look[i + 1].live = Live(a.live, op)
        BY <2>1, <2>2, <3>1
      <3>3. /\ ApplyOp(made[i], op) \in Definition
            /\ DOMAIN Live(a.live, op) = {"nodes", "edges"}
            /\ Live(a.live, op).nodes = Present(ApplyOp(made[i], op))
            /\ Joined(made[i]) => Joined(ApplyOp(made[i], op))
        BY <2>1, <2>2, <2>3, <2>4, OpFacts
      <3> QED
        BY <2>1, <2>2, <2>3, <2>4, <3>2, <3>3
    <2>5. CASE ~(a.ok /\ Holds(a.live, op))
      <3>1. look[i + 1] = [a EXCEPT !.ok = FALSE]
        BY <2>3, <2>5 DEF Checked
      <3>2. DOMAIN look[i + 1] = {"ok", "live"} /\ look[i + 1].ok = FALSE
        BY <2>1, <2>2, <3>1
      <3> QED
        BY <3>2
    <2> QED
      BY <2>4, <2>5
  <1> HIDE DEF Stands
  <1>5. Nat \subseteq S
    BY <1>3, <1>4, Induction
  <1>6. \A i \in 0 .. k : Stands(i)
    BY <1>5
  <1> QED
    BY <1>6 DEF Stands

LEMMA PlanKeeps ==
  ASSUME NEW plan \in Seq(Operation), NEW g \in Definition, Valid(plan, g)
  PROVE  ApplyPlan(plan, g) \in Definition /\ (Joined(g) => Joined(ApplyPlan(plan, g)))
  <1> DEFINE k == Len(plan)
             look == CHOOSE f : IsLook(f, k, plan, g)
             made == CHOOSE f : IsMade(f, k, plan, g)
  <1>1. k \in Nat
    OBVIOUS
  <1>2. IsLook(look, k, plan, g) /\ IsMade(made, k, plan, g)
    BY <1>1, LookExists, MadeExists
  <1>3. Valid(plan, g) <=> look[k].ok
    BY DEF Valid, IsLook, FirstLook
  <1>4. ApplyPlan(plan, g) = made[k]
    BY DEF ApplyPlan, IsMade
  <1> HIDE DEF look, made
  <1> QED
    BY <1>1, <1>2, <1>3, <1>4, PlanStands

---------------------------------------------------------------------------
(* Sequences of graphs.                                                    *)

LEMMA Ends ==
  ASSUME NEW S, NEW s \in Seq(S), s # <<>>
  PROVE  /\ Len(s) \in Nat \ {0} /\ Last(s) \in S /\ Last(s) = s[Len(s)]
         /\ Front(s) \in Seq(S) /\ Len(Front(s)) = Len(s) - 1
         /\ \A i \in 1 .. Len(s) - 1 : Front(s)[i] = s[i]
  <1>1. Len(s) \in Nat \ {0}
    BY EmptySeq
  <1>2. \A i \in 1 .. Len(s) - 1 : s[i] \in S
    BY <1>1, ElementOfSeq
  <1>3. /\ SubSeq(s, 1, Len(s) - 1) \in Seq(S)
        /\ Len(SubSeq(s, 1, Len(s) - 1)) = IF 1 <= Len(s) - 1 THEN Len(s) - 1 - 1 + 1 ELSE 0
        /\ \A i \in 1 .. Len(s) - 1 - 1 + 1 : SubSeq(s, 1, Len(s) - 1)[i] = s[1 + i - 1]
    BY <1>1, <1>2, SubSeqProperties
  <1>4. Last(s) \in S /\ Last(s) = s[Len(s)]
    BY <1>1, ElementOfSeq DEF Last
  <1>5. PICK f : f = Front(s)
    OBVIOUS
  <1>6. f = SubSeq(s, 1, Len(s) - 1)
    BY <1>5 DEF Front
  <1>7. f \in Seq(S) /\ Len(f) = Len(s) - 1
    <2>1. f \in Seq(S) /\ Len(f) = IF 1 <= Len(s) - 1 THEN Len(s) - 1 - 1 + 1 ELSE 0
      BY <1>3, <1>6
    <2>2. PICK k : k = Len(s)
      OBVIOUS
    <2>3. k \in Nat \ {0} /\ (IF 1 <= k - 1 THEN k - 1 - 1 + 1 ELSE 0) = k - 1
      BY <1>1, <2>2
    <2> QED
      BY <2>1, <2>2, <2>3
  <1>8. \A i \in 1 .. Len(s) - 1 : f[i] = s[i]
    <2> TAKE i \in 1 .. Len(s) - 1
    <2>1. i \in 1 .. Len(s) - 1 - 1 + 1 /\ 1 + i - 1 = i
      BY <1>1
    <2>2. f[i] = s[1 + i - 1]
      BY <1>3, <1>6, <2>1
    <2> QED
      BY <2>1, <2>2
  <1> QED
    BY <1>1, <1>4, <1>5, <1>7, <1>8

LEMMA Removed ==
  ASSUME NEW S, NEW s \in Seq(S), NEW i \in 1 .. Len(s)
  PROVE  RemoveAt(s, i) \in Seq(S) /\ Len(RemoveAt(s, i)) = Len(s) - 1
  <1>1. Len(s) \in Nat /\ \A j \in 1 .. Len(s) : s[j] \in S
    BY LenProperties, ElementOfSeq
  <1>2. SubSeq(s, 1, i - 1) \in Seq(S) /\ Len(SubSeq(s, 1, i - 1)) = i - 1
    <2>1. \A j \in 1 .. i - 1 : s[j] \in S
      BY <1>1
    <2>2. /\ SubSeq(s, 1, i - 1) \in Seq(S)
          /\ Len(SubSeq(s, 1, i - 1)) = IF 1 <= i - 1 THEN i - 1 - 1 + 1 ELSE 0
      BY <1>1, <2>1, SubSeqProperties
    <2> QED
      BY <1>1, <2>2
  <1>3. SubSeq(s, i + 1, Len(s)) \in Seq(S) /\ Len(SubSeq(s, i + 1, Len(s))) = Len(s) - i
    <2>1. \A j \in i + 1 .. Len(s) : s[j] \in S
      BY <1>1
    <2>2. /\ SubSeq(s, i + 1, Len(s)) \in Seq(S)
          /\ Len(SubSeq(s, i + 1, Len(s))) = IF i + 1 <= Len(s) THEN Len(s) - (i + 1) + 1 ELSE 0
      BY <1>1, <2>1, SubSeqProperties
    <2> QED
      BY <1>1, <2>2
  <1> QED
    <2>1. PICK a, b : a = SubSeq(s, 1, i - 1) /\ b = SubSeq(s, i + 1, Len(s))
      OBVIOUS
    <2>2. a \o b \in Seq(S) /\ Len(a \o b) = Len(a) + Len(b)
      BY <1>2, <1>3, <2>1, ConcatProperties
    <2>3. RemoveAt(s, i) = a \o b
      BY <2>1 DEF RemoveAt
    <2>4. Len(a) = i - 1 /\ Len(b) = Len(s) - i /\ Len(s) \in Nat /\ i \in Nat
      BY <1>1, <1>2, <1>3, <2>1
    <2>5. (i - 1) + (Len(s) - i) = Len(s) - 1
      BY <2>4
    <2> QED
      BY <2>2, <2>3, <2>4, <2>5

\* What push makes of the past.
Pushed(s, g) == IF Len(s) = MaxHistory THEN Append(Tail(s), g) ELSE Append(s, g)

LEMMA PushedFacts ==
  ASSUME NEW S, NEW s \in Seq(S), NEW g \in S, Len(s) <= MaxHistory
  PROVE  /\ Pushed(s, g) \in Seq(S) /\ Len(Pushed(s, g)) <= MaxHistory
         /\ Len(Pushed(s, g)) = IF Len(s) = MaxHistory THEN MaxHistory ELSE Len(s) + 1
  <1>1. Len(s) \in Nat /\ MaxHistory \in Nat \ {0}
    BY HistoryAssumption, LenProperties
  <1>2. CASE Len(s) = MaxHistory
    <2>1. s # <<>>
      BY <1>1, <1>2, EmptySeq
    <2>2. Tail(s) \in Seq(S) /\ Len(Tail(s)) = Len(s) - 1
      BY <2>1, HeadTailProperties
    <2> QED
      BY <1>1, <1>2, <2>2, AppendProperties DEF Pushed
  <1>3. CASE Len(s) # MaxHistory
    BY <1>1, <1>3, AppendProperties DEF Pushed
  <1> QED
    BY <1>2, <1>3

---------------------------------------------------------------------------
(* Where a graph can be.  A graph lives on the canvas first: the history,   *)
(* the timer, the requests, the API and the flows hold copies of what was  *)
(* there or of what the API had.                                           *)

Opt(S) == S \cup {Nothing}
FlowHas(G, f) == /\ DOMAIN f = {"kind", "at", "copy", "vs", "pushed"}
                 /\ f.copy \in Opt(G)
                 /\ f.copy # Nothing => f.at = "load" /\ f.vs \in Seq(G)
                 /\ f.at = "push" => f.pushed \in G
Lives(G) == /\ saved \in G /\ loaded \in G /\ canvas \in G
            /\ versions \in Seq(G) /\ known \in Seq(G) /\ saves \in Seq(G)
            /\ past \in Seq(G) /\ future \in Seq(G)
            /\ drag \in Opt(G) /\ timer \in Opt(G) /\ asked \in Opt(G)
            /\ \A f \in flows : FlowHas(G, f)

Sizes == /\ Len(past) + Len(future) <= MaxHistory
         /\ field \in Opt([node : Nodes, text : Texts])
         /\ selected \in {Draft, Away} \cup 1 .. Len(known)
         /\ proposals \subseteq Plans
         /\ clean \in BOOLEAN /\ planned \in BOOLEAN /\ torn \in BOOLEAN
FieldOk == field # Nothing => drag = Nothing /\ field.node \in Present(canvas)
Types == Lives(Definition) /\ Sizes /\ FieldOk

LEMMA FlowHasCalls ==
  ASSUME NEW G, NEW f, FlowHas(G, f), NEW at, at # "push", f.at # "load"
  PROVE  FlowHas(G, [f EXCEPT !.at = at])
  <1> DEFINE h == [f EXCEPT !.at = at]
  <1>1. DOMAIN f = {"kind", "at", "copy", "vs", "pushed"} /\ f.copy = Nothing
    BY DEF FlowHas, Opt
  <1>2. DOMAIN h = DOMAIN f /\ h.copy = f.copy /\ h.at = at
    BY <1>1
  <1> HIDE DEF h
  <1>3. FlowHas(G, h)
    BY <1>1, <1>2 DEF FlowHas, Opt
  <1> QED
    BY <1>3 DEF h

LEMMA FlowHasCopy ==
  ASSUME NEW G, NEW f, FlowHas(G, f), f.at = "load", NEW g \in G, NEW vs \in Seq(G)
  PROVE  FlowHas(G, [f EXCEPT !.copy = g, !.vs = vs])
  <1> DEFINE h == [f EXCEPT !.copy = g, !.vs = vs]
  <1>1. DOMAIN f = {"kind", "at", "copy", "vs", "pushed"}
    BY DEF FlowHas
  <1>2. DOMAIN h = DOMAIN f /\ h.copy = g /\ h.vs = vs /\ h.at = f.at
    BY <1>1
  <1> HIDE DEF h
  <1>3. FlowHas(G, h)
    BY <1>1, <1>2 DEF FlowHas, Opt
  <1> QED
    BY <1>3 DEF h

LEMMA NatAway == Nothing # 0 /\ \A n \in Nat : Nothing # n
  BY NothingAssumption

LEMMA ShownLives ==
  ASSUME NEW G, NEW g \in G, NEW vs \in Seq(G), NEW sel \in {Draft} \cup 1 .. Len(vs)
  PROVE  Shown(sel, g, vs) \in G
  BY ElementOfSeq DEF Shown, Draft

LEMMA LatestIs ==
  ASSUME NEW G, NEW vs \in Seq(G)
  PROVE  Latest(vs) \in {Draft} \cup 1 .. Len(vs)
  <1>1. CASE vs = <<>>
    BY <1>1 DEF Latest
  <1>2. CASE vs # <<>>
    <2>1. Len(vs) \in Nat \ {0}
      BY <1>2, EmptySeq
    <2> QED
      BY <1>2, <2>1 DEF Latest
  <1> QED
    BY <1>1, <1>2

LEMMA InitLives ==
  ASSUME NEW G, Start \in G, Deployed \subseteq Seq(G), Init
  PROVE  Lives(G)
  <1>1. versions \in Seq(G) /\ DOMAIN versions = 1 .. Len(versions)
    BY LenProperties DEF Init
  <1>2. canvas \in G
    BY <1>1, ShownLives DEF Init
  <1>3. <<>> \in Seq(G)
    BY EmptySeq
  <1>4. saved \in G /\ loaded \in G /\ known \in Seq(G)
    BY <1>1 DEF Init
  <1> QED
    BY <1>1, <1>2, <1>3, <1>4 DEF Init, Lives, Opt

LEMMA InitTypes == Init => Types
  <1> SUFFICES ASSUME Init PROVE Types
    OBVIOUS
  <1>1. Lives(Definition)
    BY DefinitionsAssumption, InitLives
  <1>2. known \in Seq(Definition) /\ DOMAIN known = 1 .. Len(known)
    BY <1>1, LenProperties DEF Lives
  <1>3. Sizes
    <2>1. Len(past) = 0 /\ Len(future) = 0 /\ MaxHistory \in Nat
      BY EmptySeq, HistoryAssumption DEF Init
    <2>2. selected \in {Draft, Away} \cup 1 .. Len(known)
      BY <1>2 DEF Init
    <2>3. Len(past) + Len(future) <= MaxHistory
      BY <2>1
    <2>4. field = Nothing /\ proposals = {} /\ clean = TRUE /\ planned = FALSE /\ torn = FALSE
      BY DEF Init
    <2> QED
      BY <2>2, <2>3, <2>4 DEF Sizes, Opt
  <1>4. FieldOk
    BY DEF Init, FieldOk
  <1> QED
    BY <1>1, <1>3, <1>4 DEF Types

\* What a hand or a plan makes of the canvas.
ByHand(h) ==
  \/ \E s, t \in Present(canvas) : ~WouldCycle(canvas, s, t) /\ h = [canvas EXCEPT !.edges = @ \cup {<<s, t>>}]
  \/ \E n \in Nodes : h = Put(canvas, n, Default)
  \/ \E ns \in SUBSET Nodes, es \in SUBSET (Nodes \X Nodes) : h = Without(canvas, ns, es)
  \/ \E n \in Present(canvas) : h = [canvas EXCEPT !.nodes[n].place = 1 - @]
  \/ \E n \in Present(canvas), t \in Texts : h = [canvas EXCEPT !.nodes[n].text = t]
ByPlan(h) == \E plan \in Plans : Valid(plan, canvas) /\ h = ApplyPlan(plan, canvas)

LEMMA HandKeeps ==
  ASSUME canvas \in Definition, NEW h, ByHand(h)
  PROVE  h \in Definition /\ (Joined(canvas) => Joined(h)) /\ (~Cyclic(canvas) => ~Cyclic(h))
  <1>1. ASSUME NEW s \in Present(canvas), NEW t \in Present(canvas), ~WouldCycle(canvas, s, t),
               h = [canvas EXCEPT !.edges = @ \cup {<<s, t>>}]
        PROVE  h \in Definition /\ (Joined(canvas) => Joined(h)) /\ (~Cyclic(canvas) => ~Cyclic(h))
    <2>1. s \in Nodes /\ t \in Nodes
      BY DEF Present
    <2>2. h \in Definition
      BY <1>1, <2>1, EdgeFacts
    <2>3. Joined(canvas) => Joined(h)
      BY <1>1, JoinedEdge
    <2>4. ~Cyclic(canvas) => ~Cyclic(h)
      BY <1>1, <2>1, NoNewCycle
    <2> QED
      BY <2>2, <2>3, <2>4
  <1>2. ASSUME NEW n \in Nodes, h = Put(canvas, n, Default)
        PROVE  h \in Definition /\ (Joined(canvas) => Joined(h)) /\ (~Cyclic(canvas) => ~Cyclic(h))
    <2>1. h \in Definition /\ h.edges = canvas.edges /\ Present(h) = Present(canvas) \cup {n}
      BY <1>2, PutFacts, DefaultData
    <2> QED
      BY <2>1, JoinedStill, FewerEdgesNoCycle
  <1>3. ASSUME NEW ns \in SUBSET Nodes, NEW es \in SUBSET (Nodes \X Nodes), h = Without(canvas, ns, es)
        PROVE  h \in Definition /\ (Joined(canvas) => Joined(h)) /\ (~Cyclic(canvas) => ~Cyclic(h))
    <2>1. h \in Definition /\ h.edges \subseteq canvas.edges
      BY <1>3, WithoutFacts
    <2>2. Joined(canvas) => Joined(h)
      BY <1>3, JoinedWithout
    <2> QED
      BY <2>1, <2>2, FewerEdgesNoCycle
  <1>4. ASSUME NEW n \in Present(canvas), h = [canvas EXCEPT !.nodes[n].place = 1 - @]
        PROVE  h \in Definition /\ (Joined(canvas) => Joined(h)) /\ (~Cyclic(canvas) => ~Cyclic(h))
    <2>1. h \in Definition /\ h.edges = canvas.edges /\ Present(h) = Present(canvas)
      BY <1>4, PlaceFacts
    <2> QED
      BY <2>1, JoinedStill, FewerEdgesNoCycle
  <1>5. ASSUME NEW n \in Present(canvas), NEW t \in Texts, h = [canvas EXCEPT !.nodes[n].text = t]
        PROVE  h \in Definition /\ (Joined(canvas) => Joined(h)) /\ (~Cyclic(canvas) => ~Cyclic(h))
    <2>1. h \in Definition /\ h.edges = canvas.edges /\ Present(h) = Present(canvas)
      BY <1>5, TextFacts
    <2> QED
      BY <2>1, JoinedStill, FewerEdgesNoCycle
  <1> QED
    BY <1>1, <1>2, <1>3, <1>4, <1>5 DEF ByHand

LEMMA PlanMakes ==
  ASSUME canvas \in Definition, NEW h, ByPlan(h)
  PROVE  h \in Definition /\ (Joined(canvas) => Joined(h))
  <1>1. PICK plan \in Plans : Valid(plan, canvas) /\ h = ApplyPlan(plan, canvas)
    BY DEF ByPlan
  <1>2. plan \in Seq(Operation)
    BY DefinitionsAssumption
  <1> QED
    BY <1>1, <1>2, PlanKeeps

\* Wherever else an action takes the canvas from, a graph was there before.
LEMMA NewCanvas ==
  ASSUME Types, NEW G, Lives(G), [Next]_vars
  PROVE  canvas' \in G \/ ByHand(canvas') \/ (planned' /\ ByPlan(canvas'))
  <1> DEFINE C == canvas' \in G \/ ByHand(canvas') \/ (planned' /\ ByPlan(canvas'))
  <1> SUFFICES C
    OBVIOUS
  <1>1. canvas \in G /\ known \in Seq(G) /\ past \in Seq(G) /\ future \in Seq(G) /\ loaded \in G
    BY DEF Lives
  <1>2. ASSUME canvas' = canvas PROVE C
    BY <1>1, <1>2
  <1>3. ASSUME NEW s \in Nodes, NEW t \in Nodes, Connect(s, t) PROVE C
    <2>1. ByHand(canvas')
      BY <1>3 DEF Connect, Commit, ByHand
    <2> QED
      BY <2>1
  <1>4. ASSUME NEW n \in Nodes, AddNode(n) PROVE C
    <2>1. ByHand(canvas')
      BY <1>4 DEF AddNode, Commit, ByHand
    <2> QED
      BY <2>1
  <1>5. ASSUME NEW n \in Nodes, DragMove(n) PROVE C
    <2>1. ByHand(canvas')
      BY <1>5 DEF DragMove, ByHand
    <2> QED
      BY <2>1
  <1>6. ASSUME NEW ns \in SUBSET Nodes, NEW es \in SUBSET (Nodes \X Nodes), DeleteSelected(ns, es) PROVE C
    <2>1. canvas' = Without(canvas, ns, es)
      BY <1>6 DEF DeleteSelected, Commit
    <2>2. ByHand(canvas')
      BY <2>1 DEF ByHand
    <2> QED
      BY <2>2
  <1>7. CASE Undo
    <2>1. canvas' = Last(past) /\ past # <<>>
      BY <1>7 DEF Undo
    <2> QED
      BY <1>1, <2>1, Ends
  <1>8. CASE Redo
    <2>1. canvas' = Last(future) /\ future # <<>>
      BY <1>8 DEF Redo
    <2> QED
      BY <1>1, <2>1, Ends
  <1>9. CASE Blur
    <2>1. field \in [node : Nodes, text : Texts] /\ field.node \in Present(canvas)
      BY <1>9 DEF Blur, Types, Sizes, FieldOk, Opt
    <2>2. canvas' = canvas \/ canvas' = [canvas EXCEPT !.nodes[field.node].text = field.text]
      BY <1>9 DEF Blur, Commit
    <2>3. canvas' # canvas => ByHand(canvas')
      BY <2>1, <2>2 DEF ByHand
    <2> QED
      BY <1>1, <2>3
  <1>10. ASSUME NEW n \in Nodes, NEW t \in Texts, Choose(n, t) PROVE C
    <2>1. ByHand(canvas')
      BY <1>10 DEF Choose, Emit, Commit, ByHand
    <2> QED
      BY <2>1
  <1>11. ASSUME NEW plan \in Plans, Accept(plan) PROVE C
    <2>1. canvas' = canvas \/ (planned' /\ Valid(plan, canvas) /\ canvas' = ApplyPlan(plan, canvas))
      BY <1>11 DEF Accept, Commit
    <2>2. canvas' # canvas => planned' /\ ByPlan(canvas')
      BY <2>1 DEF ByPlan
    <2> QED
      BY <1>1, <2>2
  <1>12. ASSUME NEW f \in flows, Navigate(f) PROVE C
    <2>1. f.copy \in G /\ f.vs \in Seq(G)
      BY <1>12 DEF Navigate, Lives, FlowHas, Opt
    <2>2. PICK sel : sel \in {Draft, Latest(f.vs)} /\ (canvas' = canvas \/ canvas' = Shown(sel, f.copy, f.vs))
      BY <1>12 DEF Navigate, Mount
    <2>3. sel \in {Draft} \cup 1 .. Len(f.vs)
      BY <2>1, <2>2, LatestIs
    <2>4. Shown(sel, f.copy, f.vs) \in G
      BY <2>1, <2>3, ShownLives
    <2> QED
      BY <1>1, <2>2, <2>4
  <1>13. ASSUME NEW v \in DOMAIN known, Select(v) PROVE C
    <2>1. v \in 1 .. Len(known) /\ (canvas' = canvas \/ canvas' = Shown(v, loaded, known))
      BY <1>13 DEF Select, Mount
    <2>2. Shown(v, loaded, known) \in G
      BY <1>1, <2>1, ShownLives
    <2> QED
      BY <1>1, <2>1, <2>2
  <1> HIDE DEF C
  <1>14. CASE CanvasStep
    <2>1. ASSUME NEW n \in Present(canvas), DeleteSelected({n}, {}) PROVE C
      <3>1. {n} \in SUBSET Nodes /\ {} \in SUBSET (Nodes \X Nodes)
        BY DEF Present
      <3> QED
        BY <1>6, <2>1, <3>1
    <2>2. ASSUME NEW e \in canvas.edges, DeleteSelected({}, {e}) PROVE C
      <3>1. {} \in SUBSET Nodes /\ {e} \in SUBSET (Nodes \X Nodes)
        BY DEF Types, Lives, Definition
      <3> QED
        BY <1>6, <2>2, <3>1
    <2>3. CASE DragStart \/ DragStop
      BY <1>2, <2>3 DEF DragStart, DragStop
    <2> QED
      BY <1>3, <1>4, <1>5, <1>7, <1>8, <1>14, <2>1, <2>2, <2>3 DEF CanvasStep
  <1>15. CASE InspectorStep
    <2>1. ASSUME NEW n \in Nodes, NEW t \in Texts, Focus(n, t) PROVE C
      BY <1>2, <2>1 DEF Focus
    <2> QED
      BY <1>9, <1>10, <1>15, <2>1 DEF InspectorStep
  <1>16. CASE AssistantStep
    <2>1. ASSUME NEW plan \in Plans, Propose(plan) \/ Reject(plan) PROVE C
      BY <1>2, <2>1 DEF Propose, Reject
    <2>2. CASE Ask \/ AnswerWithout
      BY <1>2, <2>2 DEF Ask, AnswerWithout
    <2> QED
      BY <1>11, <1>16, <2>1, <2>2 DEF AssistantStep, Decide
  <1>17. CASE SaveStep
    <2>1. canvas' = canvas
      BY <1>17 DEF SaveStep, TimerFires, ServeSave, LoseSave
    <2> QED
      BY <1>2, <2>1
  <1>18. CASE PageStep
    <2>1. CASE Deploy \/ Edit \/ CancelEdit \/ Delete
      BY <1>2, <2>1 DEF Deploy, Edit, CancelEdit, Delete
    <2>2. ASSUME NEW f \in flows, Serve(f) \/ FlowEnds(f) PROVE C
      BY <1>2, <2>2 DEF Serve, FlowEnds
    <2> QED
      BY <1>12, <1>13, <1>18, <2>1, <2>2 DEF PageStep
  <1>19. CASE UNCHANGED vars
    BY <1>2, <1>19 DEF vars
  <1> QED
    BY <1>14, <1>15, <1>16, <1>17, <1>18, <1>19 DEF Next

\* A commit: the canvas goes to the past, and what replaces it to the timer.
LEMMA CommitLives ==
  ASSUME Types, NEW G, Lives(G), NEW g, Commit(g), canvas' \in G,
         UNCHANGED <<api, page, saves, flows>>, drag' \in Opt(G), asked' \in Opt(G)
  PROVE  Lives(G)' /\ Len(past') + Len(future') <= MaxHistory
  <1>1. past' = Pushed(past, canvas) /\ future' = <<>> /\ timer' = canvas'
    BY DEF Commit, Push, Schedule, Pushed
  <1>2. past \in Seq(G) /\ canvas \in G /\ past \in Seq(Definition) /\ future \in Seq(Definition)
    BY DEF Lives, Types
  <1>3. Len(past) \in Nat /\ Len(future) \in Nat /\ Len(past) + Len(future) <= MaxHistory
        /\ MaxHistory \in Nat
    BY <1>2, LenProperties, HistoryAssumption DEF Types, Sizes
  <1>4. Len(past) <= MaxHistory
    BY <1>3
  <1>5. past' \in Seq(G) /\ Len(past') <= MaxHistory
    BY <1>1, <1>2, <1>4, PushedFacts
  <1>6. future' \in Seq(G) /\ Len(future') = 0
    BY <1>1, EmptySeq
  <1>7. Len(past') \in Nat
    BY <1>5, LenProperties
  <1>8. Len(past') + Len(future') <= MaxHistory
    BY <1>3, <1>5, <1>6, <1>7
  <1>9. Lives(G)'
    BY <1>1, <1>5, <1>6 DEF Lives, Opt, api, page
  <1> QED
    BY <1>8, <1>9

\* One place an undo or redo takes a graph from, another where it leaves one.
LEMMA MoveLives ==
  ASSUME NEW G, NEW from \in Seq(G), NEW to \in Seq(G), from # <<>>, NEW g \in G
  PROVE  /\ Last(from) \in G /\ Front(from) \in Seq(G) /\ Append(to, g) \in Seq(G)
         /\ Len(Front(from)) + Len(Append(to, g)) = Len(from) + Len(to)
         /\ Len(Append(to, g)) + Len(Front(from)) = Len(to) + Len(from)
  <1>1. PICK a, b : a = Front(from) /\ b = Append(to, g)
    OBVIOUS
  <1>2. a \in Seq(G) /\ Len(a) = Len(from) - 1 /\ Len(from) \in Nat /\ Last(from) \in G
    BY <1>1, Ends
  <1>3. b \in Seq(G) /\ Len(b) = Len(to) + 1 /\ Len(to) \in Nat
    BY <1>1, AppendProperties, LenProperties
  <1>4. Len(a) + Len(b) = Len(from) + Len(to) /\ Len(b) + Len(a) = Len(to) + Len(from)
    BY <1>2, <1>3
  <1> QED
    BY <1>1, <1>2, <1>3, <1>4

LEMMA CanvasStepLives ==
  ASSUME Types, NEW G, Lives(G), canvas' \in G, CanvasStep
  PROVE  Lives(G)' /\ Len(past') + Len(future') <= MaxHistory
  <1> DEFINE C == Lives(G)' /\ Len(past') + Len(future') <= MaxHistory
  <1>1. /\ canvas \in G /\ past \in Seq(G) /\ future \in Seq(G) /\ drag \in Opt(G) /\ asked \in Opt(G)
        /\ Len(past) + Len(future) <= MaxHistory
    BY DEF Types, Lives, Sizes
  <1>2. ASSUME NEW s \in Nodes, NEW t \in Nodes, Connect(s, t) PROVE C
    BY <1>1, <1>2, CommitLives DEF Connect, assistant
  <1>3. ASSUME NEW n \in Nodes, AddNode(n) PROVE C
    BY <1>1, <1>3, CommitLives DEF AddNode, assistant
  <1>4. ASSUME NEW ns, NEW es, DeleteSelected(ns, es) PROVE C
    BY <1>1, <1>4, CommitLives DEF DeleteSelected, assistant
  <1>5. CASE Undo
    <2>1. /\ past # <<>> /\ canvas' = Last(past) /\ past' = Front(past) /\ future' = Append(future, canvas)
          /\ timer' = Last(past)
          /\ UNCHANGED <<api, page, drag, saves, flows, assistant>>
      BY <1>5 DEF Undo, Schedule
    <2>2. past' \in Seq(G) /\ future' \in Seq(G) /\ timer' \in G
          /\ Len(past') + Len(future') = Len(past) + Len(future)
      <3>1. /\ Last(past) \in G /\ Front(past) \in Seq(G) /\ Append(future, canvas) \in Seq(G)
            /\ Len(Front(past)) + Len(Append(future, canvas)) = Len(past) + Len(future)
            /\ Len(Append(future, canvas)) + Len(Front(past)) = Len(future) + Len(past)
        <4>1. past # <<>>
          BY <2>1
        <4> QED
          BY <1>1, <4>1, MoveLives
      <3> QED
        BY <2>1, <3>1
    <2>3. Lives(G)'
      BY <2>1, <2>2 DEF Lives, Opt, api, page, assistant
    <2> QED
      BY <1>1, <2>2, <2>3
  <1>6. CASE Redo
    <2>1. /\ future # <<>> /\ canvas' = Last(future) /\ future' = Front(future) /\ past' = Append(past, canvas)
          /\ timer' = Last(future)
          /\ UNCHANGED <<api, page, drag, saves, flows, assistant>>
      BY <1>6 DEF Redo, Schedule
    <2>2. past' \in Seq(G) /\ future' \in Seq(G) /\ timer' \in G
          /\ Len(past') + Len(future') = Len(past) + Len(future)
      <3>1. /\ Last(future) \in G /\ Front(future) \in Seq(G) /\ Append(past, canvas) \in Seq(G)
            /\ Len(Front(future)) + Len(Append(past, canvas)) = Len(future) + Len(past)
            /\ Len(Append(past, canvas)) + Len(Front(future)) = Len(past) + Len(future)
        <4>1. future # <<>>
          BY <2>1
        <4> QED
          BY <1>1, <4>1, MoveLives
      <3> QED
        BY <2>1, <3>1
    <2>3. Lives(G)'
      BY <2>1, <2>2 DEF Lives, Opt, api, page, assistant
    <2> QED
      BY <1>1, <2>2, <2>3
  <1>7. CASE DragStart
    BY <1>1, <1>7 DEF DragStart, Lives, Opt, api, page, stack, assistant
  <1>8. ASSUME NEW n \in Nodes, DragMove(n) PROVE C
    BY <1>1, <1>8 DEF DragMove, Lives, Opt, api, page, stack, assistant
  <1>9. CASE DragStop
    <2>1. drag \in G /\ drag' = Nothing /\ canvas' = canvas
          /\ UNCHANGED <<api, page, saves, flows, assistant>>
      BY <1>1, <1>9 DEF DragStop, Opt
    <2>2. CASE UNCHANGED <<stack, timer>>
      BY <1>1, <2>1, <2>2 DEF Lives, Opt, api, page, stack, assistant
    <2>3. CASE Push(drag) /\ Schedule(canvas)
      <3>1. past' = Pushed(past, drag) /\ future' = <<>> /\ timer' = canvas
        BY <2>3 DEF Push, Schedule, Pushed
      <3>2. Len(past) \in Nat /\ Len(future) \in Nat /\ MaxHistory \in Nat
        BY <1>1, LenProperties, HistoryAssumption
      <3>3. Len(past) <= MaxHistory
        BY <1>1, <3>2
      <3>4. past' \in Seq(G) /\ Len(past') <= MaxHistory
        BY <1>1, <2>1, <3>1, <3>3, PushedFacts
      <3>5. future' \in Seq(G) /\ Len(future') = 0
        BY <3>1, EmptySeq
      <3>6. Len(past') \in Nat
        BY <3>4, LenProperties
      <3>7. Len(past') + Len(future') <= MaxHistory
        BY <3>2, <3>4, <3>5, <3>6
      <3>8. Lives(G)'
        BY <2>1, <3>1, <3>4, <3>5 DEF Lives, Opt, api, page, assistant
      <3> QED
        BY <3>7, <3>8
    <2> QED
      BY <1>9, <2>2, <2>3 DEF DragStop
  <1> HIDE DEF C
  <1> QED
    BY <1>2, <1>3, <1>4, <1>5, <1>6, <1>7, <1>8, <1>9 DEF CanvasStep, C

LEMMA InspectorStepLives ==
  ASSUME Types, NEW G, Lives(G), canvas' \in G, InspectorStep
  PROVE  Lives(G)' /\ Len(past') + Len(future') <= MaxHistory
  <1> DEFINE C == Lives(G)' /\ Len(past') + Len(future') <= MaxHistory
  <1>1. Len(past) + Len(future) <= MaxHistory /\ drag \in Opt(G) /\ asked \in Opt(G)
    BY DEF Types, Sizes, Lives
  <1>2. CASE Blur
    <2>1. UNCHANGED <<api, page, drag, saves, flows, assistant>>
      BY <1>2 DEF Blur
    <2>2. CASE UNCHANGED <<canvas, stack, timer>>
      BY <1>1, <2>1, <2>2 DEF Lives, Opt, api, page, stack, assistant
    <2>3. CASE Commit([canvas EXCEPT !.nodes[field.node].text = field.text])
      BY <1>1, <2>1, <2>3, CommitLives DEF assistant
    <2> QED
      BY <1>2, <2>2, <2>3 DEF Blur
  <1>3. ASSUME NEW n \in Nodes, NEW t \in Texts, Focus(n, t) PROVE C
    BY <1>1, <1>3 DEF Focus, Lives, Opt, api, page, stack, assistant
  <1>4. ASSUME NEW n \in Nodes, NEW t \in Texts, Choose(n, t) PROVE C
    BY <1>1, <1>4, CommitLives DEF Choose, Emit, assistant
  <1> HIDE DEF C
  <1> QED
    BY <1>2, <1>3, <1>4 DEF InspectorStep, C

LEMMA AssistantStepLives ==
  ASSUME Types, NEW G, Lives(G), canvas' \in G, AssistantStep
  PROVE  Lives(G)' /\ Len(past') + Len(future') <= MaxHistory
  <1> DEFINE C == Lives(G)' /\ Len(past') + Len(future') <= MaxHistory
  <1>1. Len(past) + Len(future) <= MaxHistory /\ drag \in Opt(G) /\ asked \in Opt(G)
    BY DEF Types, Sizes, Lives
  <1>2. CASE Ask
    BY <1>1, <1>2 DEF Ask, Lives, Opt, api, page, stack
  <1>3. CASE AnswerWithout
    BY <1>1, <1>3 DEF AnswerWithout, StreamEnds, Lives, Opt, api, page, stack
  <1>4. ASSUME NEW plan \in Plans, Propose(plan) PROVE C
    BY <1>1, <1>4 DEF Propose, StreamEnds, Lives, Opt, api, page, stack
  <1>5. ASSUME NEW plan \in Plans, Reject(plan) PROVE C
    BY <1>1, <1>5 DEF Reject, Lives, Opt, api, page, stack
  <1>6. ASSUME NEW plan \in Plans, Accept(plan) PROVE C
    <2>1. UNCHANGED <<api, page, drag, saves, flows, asked>>
      BY <1>6 DEF Accept
    <2>2. CASE UNCHANGED <<canvas, stack, timer>>
      BY <1>1, <2>1, <2>2 DEF Lives, Opt, api, page, stack
    <2>3. CASE Commit(ApplyPlan(plan, canvas))
      BY <1>1, <2>1, <2>3, CommitLives
    <2> QED
      BY <1>6, <2>2, <2>3 DEF Accept
  <1> HIDE DEF C
  <1> QED
    BY <1>2, <1>3, <1>4, <1>5, <1>6 DEF AssistantStep, Decide, C

LEMMA SaveStepLives ==
  ASSUME Types, NEW G, Lives(G), canvas' \in G, SaveStep
  PROVE  Lives(G)' /\ UNCHANGED stack
  <1>1. saves \in Seq(G) /\ DOMAIN saves = 1 .. Len(saves)
    BY LenProperties DEF Lives
  <1>2. CASE TimerFires
    <2>1. timer \in G
      BY <1>2 DEF TimerFires, Lives, Opt
    <2>2. Append(saves, timer) \in Seq(G)
      BY <1>1, <2>1, AppendProperties
    <2> QED
      BY <1>2, <2>2 DEF TimerFires, Lives, Opt, api, page, stack, assistant
  <1>3. ASSUME NEW i \in DOMAIN saves, ServeSave(i) PROVE Lives(G)' /\ UNCHANGED stack
    <2>1. RemoveAt(saves, i) \in Seq(G) /\ saves[i] \in G
      BY <1>1, Removed, ElementOfSeq
    <2> QED
      BY <1>3, <2>1 DEF ServeSave, Lives, Opt, page, stack, assistant
  <1>4. ASSUME NEW i \in DOMAIN saves, LoseSave(i) PROVE Lives(G)' /\ UNCHANGED stack
    <2>1. RemoveAt(saves, i) \in Seq(G)
      BY <1>1, Removed
    <2> QED
      BY <1>4, <2>1 DEF LoseSave, Lives, Opt, api, page, stack, assistant
  <1> QED
    BY <1>2, <1>3, <1>4 DEF SaveStep

LEMMA BeginLives ==
  ASSUME NEW G, NEW kind, NEW at, \A f \in flows : FlowHas(G, f), Begin(kind, at),
         at = "push" => known[selected] \in G
  PROVE  \A f \in flows' : FlowHas(G, f)
  <1>1. flows' = flows \cup {Flow(kind, at)}
    BY DEF Begin
  <1>2. FlowHas(G, Flow(kind, at))
    BY DEF Flow, FlowHas, Opt
  <1> QED
    BY <1>1, <1>2

LEMMA ServeLives ==
  ASSUME Types, NEW G, Lives(G), NEW f \in flows, Serve(f)
  PROVE  Lives(G)' /\ UNCHANGED stack
  <1>1. FlowHas(G, f) /\ saved \in G /\ versions \in Seq(G)
    BY DEF Lives
  <1>2. UNCHANGED <<page, canvas, stack, drag, field, timer, assistant, edits, started, history>>
    BY DEF Serve
  <1> SUFFICES ASSUME NEW h, flows' = (flows \ {f}) \cup {h}, FlowHas(G, h),
                      saved' \in G, versions' \in Seq(G), UNCHANGED saves
               PROVE  Lives(G)'
    <2>1. \A h : flows' = (flows \ {f}) \cup {h} /\ FlowHas(G, h)
                 /\ saved' \in G /\ versions' \in Seq(G) /\ UNCHANGED saves => Lives(G)'
      OBVIOUS
    <2>2. CASE ServePush(f)
      <3>1. FlowHas(G, [f EXCEPT !.at = "call"]) /\ f.pushed \in G
        BY <1>1, <2>2, FlowHasCalls DEF ServePush, At, FlowHas
      <3> QED
        BY <1>1, <1>2, <2>1, <2>2, <3>1 DEF ServePush, Advance
    <2>3. CASE ServeEdit(f)
      <3>1. FlowHas(G, [f EXCEPT !.at = "load"])
        BY <1>1, <2>3, FlowHasCalls DEF ServeEdit, At
      <3> QED
        BY <1>1, <1>2, <2>1, <2>3, <3>1 DEF ServeEdit, Advance
    <2>4. CASE ServeDeploy(f)
      <3>1. FlowHas(G, [f EXCEPT !.at = "load"])
        BY <1>1, <2>4, FlowHasCalls DEF ServeDeploy, At
      <3>2. Append(versions, saved) \in Seq(G)
        BY <1>1, AppendProperties
      <3> QED
        BY <1>1, <1>2, <2>1, <2>4, <3>1, <3>2 DEF ServeDeploy, Advance
    <2>5. CASE ServeCancel(f)
      <3>1. FlowHas(G, [f EXCEPT !.at = "load"])
        BY <1>1, <2>5, FlowHasCalls DEF ServeCancel, At
      <3>2. Last(versions) \in G
        BY <1>1, <2>5, Ends DEF ServeCancel
      <3> QED
        BY <1>1, <1>2, <2>1, <2>5, <3>1, <3>2 DEF ServeCancel, Advance
    <2>6. CASE ServeDelete(f)
      <3>1. FlowHas(G, [f EXCEPT !.at = "gone"])
        BY <1>1, <2>6, FlowHasCalls DEF ServeDelete, At
      <3> QED
        BY <1>1, <1>2, <2>1, <2>6, <3>1 DEF ServeDelete, Advance
    <2>7. CASE ServeLoad(f)
      <3>1. FlowHas(G, [f EXCEPT !.copy = saved, !.vs = versions])
        BY <1>1, <2>7, FlowHasCopy DEF ServeLoad
      <3> QED
        BY <1>1, <1>2, <2>1, <2>7, <3>1 DEF ServeLoad, Advance, api
    <2> QED
      BY <1>2, <2>2, <2>3, <2>4, <2>5, <2>6, <2>7 DEF Serve
  <1>3. \A k \in flows' : FlowHas(G, k)
    BY DEF Lives
  <1> QED
    BY <1>2, <1>3 DEF Lives, Opt, page, stack, assistant

LEMMA PageStepLives ==
  ASSUME Types, NEW G, Lives(G), canvas' \in G, PageStep
  PROVE  Lives(G)' /\ (UNCHANGED stack \/ (past' = <<>> /\ future' = <<>>))
  <1> DEFINE C == Lives(G)' /\ (UNCHANGED stack \/ (past' = <<>> /\ future' = <<>>))
  <1>1. \A f \in flows : FlowHas(G, f)
    BY DEF Lives
  <1>2. known \in Seq(G) /\ DOMAIN known = 1 .. Len(known) /\ <<>> \in Seq(G)
    BY LenProperties, EmptySeq DEF Lives
  <1>3. CASE Deploy
    <2>1. \A f \in flows' : FlowHas(G, f)
      BY <1>1, <1>3, BeginLives DEF Deploy
    <2> QED
      BY <1>3, <2>1 DEF Deploy, Lives, Opt, api, page, stack, assistant
  <1>4. CASE Edit
    <2>1. known[selected] \in G
      BY <1>2, <1>4, ElementOfSeq DEF Edit
    <2>2. \A f \in flows' : FlowHas(G, f)
      BY <1>1, <1>4, <2>1, BeginLives DEF Edit
    <2> QED
      BY <1>4, <2>2 DEF Edit, Lives, Opt, api, page, stack, assistant
  <1>5. CASE CancelEdit
    <2>1. \A f \in flows' : FlowHas(G, f)
      BY <1>1, <1>5, BeginLives DEF CancelEdit
    <2> QED
      BY <1>5, <2>1 DEF CancelEdit, Lives, Opt, api, page, stack, assistant
  <1>6. CASE Delete
    <2>1. \A f \in flows' : FlowHas(G, f)
      BY <1>1, <1>6, BeginLives DEF Delete
    <2> QED
      BY <1>6, <2>1 DEF Delete, Lives, Opt, api, page, stack, assistant
  <1>7. ASSUME NEW f \in flows, Serve(f) PROVE C
    BY <1>7, ServeLives
  <1>8. ASSUME NEW f \in flows, Navigate(f) PROVE C
    <2>1. /\ f.copy \in G /\ f.vs \in Seq(G)
          /\ loaded' = f.copy /\ known' = f.vs /\ flows' = flows \ {f} /\ UNCHANGED <<api, saves>>
      BY <1>1, <1>8 DEF Navigate, FlowHas, Opt
    <2>2. \/ UNCHANGED <<stack, drag, timer, assistant>>
          \/ past' = <<>> /\ future' = <<>> /\ drag' = Nothing /\ timer' = Nothing /\ asked' = Nothing
      BY <1>8 DEF Navigate, Mount
    <2>3. \A k \in flows' : FlowHas(G, k)
      BY <1>1, <2>1
    <2> QED
      BY <1>2, <2>1, <2>2, <2>3 DEF Lives, Opt, api, stack, assistant
  <1>9. ASSUME NEW f \in flows, FlowEnds(f) PROVE C
    <2>1. \/ UNCHANGED <<stack, drag, timer>>
          \/ past' = <<>> /\ future' = <<>> /\ drag' = Nothing /\ timer' = Nothing
      BY <1>9 DEF FlowEnds
    <2>2. flows' = flows \ {f} /\ UNCHANGED <<api, loaded, known, saves, assistant>>
      BY <1>9 DEF FlowEnds
    <2>3. \A k \in flows' : FlowHas(G, k)
      BY <1>1, <2>2
    <2> QED
      BY <1>2, <2>1, <2>2, <2>3 DEF Lives, Opt, api, stack, assistant
  <1>10. ASSUME NEW v \in DOMAIN known, Select(v) PROVE C
    <2>1. \/ UNCHANGED <<stack, drag, timer, assistant>>
          \/ past' = <<>> /\ future' = <<>> /\ drag' = Nothing /\ timer' = Nothing /\ asked' = Nothing
      BY <1>10 DEF Select, Mount
    <2>2. UNCHANGED <<api, loaded, known, saves, flows>>
      BY <1>10 DEF Select
    <2> QED
      BY <1>2, <2>1, <2>2 DEF Lives, Opt, api, stack, assistant
  <1> HIDE DEF C
  <1> QED
    BY <1>3, <1>4, <1>5, <1>6, <1>7, <1>8, <1>9, <1>10 DEF PageStep, C

LEMMA LivesStep ==
  ASSUME Types, NEW G, Lives(G), [Next]_vars, canvas' \in G
  PROVE  Lives(G)' /\ Len(past') + Len(future') <= MaxHistory
  <1>1. Len(past) + Len(future) <= MaxHistory /\ Len(<<>>) + Len(<<>>) <= MaxHistory
    BY EmptySeq, HistoryAssumption DEF Types, Sizes
  <1>2. CASE CanvasStep
    BY <1>2, CanvasStepLives
  <1>3. CASE InspectorStep
    BY <1>3, InspectorStepLives
  <1>4. CASE AssistantStep
    BY <1>4, AssistantStepLives
  <1>5. CASE SaveStep
    <2>1. Lives(G)' /\ UNCHANGED stack
      BY <1>5, SaveStepLives
    <2> QED
      BY <1>1, <2>1 DEF stack
  <1>6. CASE PageStep
    <2>1. Lives(G)' /\ (UNCHANGED stack \/ (past' = <<>> /\ future' = <<>>))
      BY <1>6, PageStepLives
    <2> QED
      BY <1>1, <2>1 DEF stack
  <1>7. CASE UNCHANGED vars
    BY <1>1, <1>7 DEF vars, Lives
  <1> QED
    BY <1>2, <1>3, <1>4, <1>5, <1>6, <1>7 DEF Next

Chosen == /\ selected \in {Draft, Away} \cup 1 .. Len(known) /\ proposals \subseteq Plans
          /\ clean \in BOOLEAN /\ planned \in BOOLEAN /\ torn \in BOOLEAN

LEMMA ChosenStep ==
  ASSUME Types, [Next]_vars
  PROVE  Chosen'
  <1>1. Chosen
    BY DEF Types, Sizes, Chosen
  <1>2. known \in Seq(Definition) /\ DOMAIN known = 1 .. Len(known)
    BY LenProperties DEF Types, Lives
  <1>3. CASE CanvasStep
    <2>1. UNCHANGED <<page, proposals, planned>> /\ clean' \in BOOLEAN /\ torn' \in BOOLEAN
      BY <1>1, <1>3 DEF CanvasStep, Connect, AddNode, DragMove, DeleteSelected, Undo, Redo, DragStart,
         DragStop, Chosen, history, assistant
    <2> QED
      BY <1>1, <2>1 DEF Chosen, page
  <1>4. CASE InspectorStep
    <2>1. UNCHANGED <<page, proposals, history>>
      BY <1>4 DEF InspectorStep, Blur, Focus, Choose, assistant
    <2> QED
      BY <1>1, <2>1 DEF Chosen, page, history
  <1>5. CASE AssistantStep
    <2>1. CASE Ask \/ AnswerWithout
      BY <1>1, <2>1 DEF Ask, AnswerWithout, Chosen, page, history
    <2>2. ASSUME NEW plan \in Plans, Propose(plan) PROVE Chosen'
      BY <1>1, <2>2 DEF Propose, Chosen, page, history
    <2>3. ASSUME NEW plan \in Plans, Accept(plan) PROVE Chosen'
      <3>1. UNCHANGED <<page, clean, torn>> /\ proposals' \subseteq proposals /\ planned' \in BOOLEAN
        BY <1>1, <2>3 DEF Accept, Chosen
      <3> QED
        BY <1>1, <3>1 DEF Chosen, page
    <2>4. ASSUME NEW plan \in Plans, Reject(plan) PROVE Chosen'
      BY <1>1, <2>4 DEF Reject, Chosen, page, history
    <2> QED
      BY <1>5, <2>1, <2>2, <2>3, <2>4 DEF AssistantStep, Decide
  <1>6. CASE SaveStep
    <2>1. UNCHANGED <<page, assistant, planned, torn>> /\ clean' \in BOOLEAN
      BY <1>1, <1>6 DEF SaveStep, TimerFires, ServeSave, LoseSave, Chosen, history
    <2> QED
      BY <1>1, <2>1 DEF Chosen, page, assistant
  <1>7. CASE PageStep
    <2>1. CASE Deploy \/ Edit \/ CancelEdit \/ Delete
      <3>1. UNCHANGED <<page, assistant, planned, torn>> /\ clean' = FALSE
        BY <2>1 DEF Deploy, Edit, CancelEdit, Delete, Begin
      <3> QED
        BY <1>1, <3>1 DEF Chosen, page, assistant
    <2>2. ASSUME NEW f \in flows, Serve(f) PROVE Chosen'
      BY <1>1, <2>2 DEF Serve, Chosen, page, assistant, history
    <2>3. ASSUME NEW f \in flows, Navigate(f) PROVE Chosen'
      <3>1. f.vs \in Seq(Definition) /\ known' = f.vs /\ UNCHANGED planned
        BY <2>3 DEF Navigate, Types, Lives, FlowHas
      <3>2. clean' \in BOOLEAN
        BY <2>3 DEF Navigate
      <3>3. selected' \in {Away, Draft, Latest(f.vs)}
        BY <2>3 DEF Navigate, Mount
      <3>4. selected' \in {Draft, Away} \cup 1 .. Len(known')
        BY <3>1, <3>3, LatestIs
      <3>5. proposals' \in {proposals, {}} /\ torn' \in {torn, FALSE}
        BY <2>3 DEF Navigate, Mount, assistant
      <3> QED
        BY <1>1, <3>1, <3>2, <3>4, <3>5 DEF Chosen
    <2>4. ASSUME NEW f \in flows, FlowEnds(f) PROVE Chosen'
      BY <1>1, <2>4 DEF FlowEnds, Chosen, assistant, history
    <2>5. ASSUME NEW v \in DOMAIN known, Select(v) PROVE Chosen'
      <3>1. v \in 1 .. Len(known) /\ selected' = v /\ UNCHANGED <<known, planned>> /\ clean' = FALSE
        BY <2>5 DEF Select, Mount
      <3>2. proposals' \in {proposals, {}} /\ torn' \in {torn, FALSE}
        BY <2>5 DEF Select, Mount, assistant
      <3> QED
        BY <1>1, <3>1, <3>2 DEF Chosen
    <2> QED
      BY <1>7, <2>1, <2>2, <2>3, <2>4, <2>5 DEF PageStep
  <1>8. CASE UNCHANGED vars
    BY <1>1, <1>8 DEF vars, Chosen
  <1> QED
    BY <1>3, <1>4, <1>5, <1>6, <1>7, <1>8 DEF Next

FieldIs == field \in Opt([node : Nodes, text : Texts]) /\ FieldOk

\* A click elsewhere takes the focus first, and undo and redo take the node.
LEMMA FieldStep ==
  ASSUME Types, [Next]_vars
  PROVE  FieldIs'
  <1>1. FieldIs
    BY DEF Types, Sizes, FieldIs
  <1>2. ASSUME field' = Nothing PROVE FieldIs'
    BY <1>2 DEF FieldIs, FieldOk, Opt
  <1>3. ASSUME UNCHANGED <<field, drag, canvas>> PROVE FieldIs'
    BY <1>1, <1>3 DEF FieldIs, FieldOk, Opt
  <1>4. CASE CanvasStep
    <2>1. CASE (\E s, t \in Nodes : Connect(s, t)) \/ (\E n \in Nodes : AddNode(n)) \/ DragStart
      BY <1>2, <2>1 DEF Connect, AddNode, DragStart, Clicking
    <2>2. ASSUME NEW n \in Nodes, DragMove(n) PROVE FieldIs'
      <3>1. field = Nothing
        BY <2>2 DEF DragMove, Types, FieldOk
      <3> QED
        BY <1>2, <2>2, <3>1 DEF DragMove
    <2>3. ASSUME NEW ns, NEW es, DeleteSelected(ns, es) PROVE FieldIs'
      BY <1>2, <2>3 DEF DeleteSelected
    <2>4. CASE Undo
      <3>1. canvas' = Last(past) /\ field' = Kept(Last(past)) /\ drag' = drag
        BY <2>4 DEF Undo
      <3> QED
        BY <1>1, <1>2, <3>1 DEF Kept, FieldIs, FieldOk, Opt, Present
    <2>5. CASE Redo
      <3>1. canvas' = Last(future) /\ field' = Kept(Last(future)) /\ drag' = drag
        BY <2>5 DEF Redo
      <3> QED
        BY <1>1, <1>2, <3>1 DEF Kept, FieldIs, FieldOk, Opt, Present
    <2>6. CASE DragStop
      <3>1. field = Nothing
        BY <2>6 DEF DragStop, Types, FieldOk
      <3> QED
        BY <1>2, <2>6, <3>1 DEF DragStop
    <2> QED
      BY <1>4, <2>1, <2>2, <2>3, <2>4, <2>5, <2>6 DEF CanvasStep
  <1>5. CASE InspectorStep
    <2>1. CASE Blur
      BY <1>2, <2>1 DEF Blur
    <2>2. ASSUME NEW n \in Nodes, NEW t \in Texts, Focus(n, t) PROVE FieldIs'
      <3>1. field' = [node |-> n, text |-> t] /\ drag' = Nothing /\ canvas' = canvas /\ n \in Present(canvas)
        BY <2>2 DEF Focus, Clicking
      <3> QED
        BY <3>1 DEF FieldIs, FieldOk, Opt
    <2>3. ASSUME NEW n \in Nodes, NEW t \in Texts, Choose(n, t) PROVE FieldIs'
      BY <1>2, <2>3 DEF Choose, Clicking
    <2> QED
      BY <1>5, <2>1, <2>2, <2>3 DEF InspectorStep
  <1>6. CASE AssistantStep
    <2>1. ASSUME NEW plan \in Plans, Accept(plan) PROVE FieldIs'
      BY <1>2, <2>1 DEF Accept, Clicking
    <2>2. ASSUME NEW plan \in Plans, Propose(plan) \/ Reject(plan) PROVE FieldIs'
      BY <1>3, <2>2 DEF Propose, Reject
    <2>3. CASE Ask \/ AnswerWithout
      BY <1>3, <2>3 DEF Ask, AnswerWithout
    <2> QED
      BY <1>6, <2>1, <2>2, <2>3 DEF AssistantStep, Decide
  <1>7. CASE SaveStep
    <2>1. UNCHANGED <<field, drag, canvas>>
      BY <1>7 DEF SaveStep, TimerFires, ServeSave, LoseSave
    <2> QED
      BY <1>3, <2>1
  <1>8. CASE PageStep
    <2>1. CASE Deploy \/ Edit \/ CancelEdit \/ Delete
      BY <1>3, <2>1 DEF Deploy, Edit, CancelEdit, Delete
    <2>2. ASSUME NEW f \in flows, Serve(f) PROVE FieldIs'
      BY <1>3, <2>2 DEF Serve
    <2>3. ASSUME NEW f \in flows, Navigate(f) PROVE FieldIs'
      <3>1. UNCHANGED <<field, drag, canvas>> \/ field' = Nothing
        BY <2>3 DEF Navigate, Mount
      <3> QED
        BY <1>2, <1>3, <3>1
    <2>4. ASSUME NEW f \in flows, FlowEnds(f) PROVE FieldIs'
      <3>1. UNCHANGED <<field, drag, canvas>> \/ field' = Nothing
        BY <2>4 DEF FlowEnds
      <3> QED
        BY <1>2, <1>3, <3>1
    <2>5. ASSUME NEW v \in DOMAIN known, Select(v) PROVE FieldIs'
      <3>1. UNCHANGED <<field, drag, canvas>> \/ field' = Nothing
        BY <2>5 DEF Select, Mount
      <3> QED
        BY <1>2, <1>3, <3>1
    <2> QED
      BY <1>8, <2>1, <2>2, <2>3, <2>4, <2>5 DEF PageStep
  <1>9. CASE UNCHANGED vars
    BY <1>3, <1>9 DEF vars
  <1> QED
    BY <1>4, <1>5, <1>6, <1>7, <1>8, <1>9 DEF Next

LEMMA TypesStep ==
  ASSUME Types, [Next]_vars
  PROVE  Types'
  <1>1. Lives(Definition) /\ canvas \in Definition
    BY DEF Types, Lives
  <1>2. canvas' \in Definition
    BY <1>1, NewCanvas, HandKeeps, PlanMakes
  <1>3. Lives(Definition)' /\ Len(past') + Len(future') <= MaxHistory
    BY <1>1, <1>2, LivesStep
  <1> QED
    BY <1>3, ChosenStep, FieldStep DEF Types, Sizes, Chosen, FieldIs

\* Whatever is edited, saved, deployed or reverted, a graph is a graph, the
\* history stays within its limit, and a field with the focus is one of a node
\* on the canvas (workflow-builder-provider.tsx, use-workflow-history.ts).
THEOREM DraftTypes == Spec => []Types
  <1>1. Types /\ [Next]_vars => Types'
    BY TypesStep
  <1> QED
    BY <1>1, InitTypes, PTL DEF Spec

---------------------------------------------------------------------------
(* Edges and cycles.  The graphs the API has at first are as the editor    *)
(* made them.                                                              *)

Sound == {g \in Definition : Joined(g)}
Acyclic == {g \in Definition : ~Cyclic(g)}
StartsSound == Start \in Sound /\ Deployed \subseteq Seq(Sound)
StartsAcyclic == Start \in Acyclic /\ Deployed \subseteq Seq(Acyclic)

LEMMA SoundStep ==
  ASSUME Types, Lives(Sound), [Next]_vars
  PROVE  Lives(Sound)'
  <1>1. canvas \in Definition /\ Joined(canvas)
    BY DEF Lives, Sound
  <1>2. canvas' \in Sound
    BY <1>1, NewCanvas, HandKeeps, PlanMakes DEF Sound
  <1> QED
    BY <1>2, LivesStep

LEMMA SoundMeans ==
  ASSUME Lives(Sound)
  PROVE  EdgesJoinNodes
  <1>1. \A s \in Seq(Sound) : \A i \in DOMAIN s : s[i] \in Sound
    BY LenProperties, ElementOfSeq
  <1>2. \A g \in Graphs : g \in Sound
    BY <1>1 DEF Lives, Opt, Graphs, Range
  <1> QED
    BY <1>2 DEF EdgesJoinNodes, Sound

\* Whatever is deleted, undone, redone, dragged, planned, deployed or reverted,
\* an edge joins two nodes of its graph, wherever the graph is kept.
THEOREM EdgesAlwaysJoinNodes ==
  ASSUME StartsSound
  PROVE  Spec => []EdgesJoinNodes
  <1>1. Init => Types /\ Lives(Sound)
    BY InitTypes, InitLives DEF StartsSound
  <1>2. Types /\ Lives(Sound) /\ [Next]_vars => Types' /\ Lives(Sound)'
    BY TypesStep, SoundStep
  <1>3. Lives(Sound) => EdgesJoinNodes
    BY SoundMeans
  <1> QED
    BY <1>1, <1>2, <1>3, PTL DEF Spec

Drawn == planned \/ Lives(Acyclic)

LEMMA PlannedStays == [Next]_vars /\ planned => planned'
  <1> SUFFICES ASSUME [Next]_vars, planned PROVE planned'
    OBVIOUS
  <1>1. CASE CanvasStep
    BY <1>1 DEF CanvasStep, Connect, AddNode, DragMove, DeleteSelected, Undo, Redo, DragStart, DragStop, history
  <1>2. CASE InspectorStep
    BY <1>2 DEF InspectorStep, Blur, Focus, Choose, history
  <1>3. CASE AssistantStep
    BY <1>3 DEF AssistantStep, Ask, AnswerWithout, Propose, Decide, Accept, Reject, history
  <1>4. CASE SaveStep
    BY <1>4 DEF SaveStep, TimerFires, ServeSave, LoseSave, history
  <1>5. CASE PageStep
    BY <1>5 DEF PageStep, Deploy, Edit, CancelEdit, Delete, Serve, Navigate, FlowEnds, Select, history
  <1>6. CASE UNCHANGED vars
    BY <1>6 DEF vars
  <1> QED
    BY <1>1, <1>2, <1>3, <1>4, <1>5, <1>6 DEF Next

LEMMA DrawnStep ==
  ASSUME Types, Drawn, [Next]_vars
  PROVE  Drawn'
  <1> SUFFICES ASSUME ~planned, ~planned' PROVE Lives(Acyclic)'
    BY PlannedStays DEF Drawn
  <1>1. Lives(Acyclic) /\ canvas \in Definition /\ ~Cyclic(canvas)
    BY DEF Drawn, Lives, Acyclic
  <1>2. canvas' \in Acyclic
    BY <1>1, NewCanvas, HandKeeps DEF Acyclic
  <1> QED
    BY <1>1, <1>2, LivesStep

\* The search of wouldCycle is enough: until a plan of the assistant was
\* accepted, which checks for none, no canvas has a cycle.
THEOREM NoCycleWithoutPlan ==
  ASSUME StartsAcyclic
  PROVE  Spec => []NoCycleByHand
  <1>1. Init => Types /\ Drawn
    BY InitTypes, InitLives DEF StartsAcyclic, Drawn
  <1>2. Types /\ Drawn /\ [Next]_vars => Types' /\ Drawn'
    BY TypesStep, DrawnStep
  <1>3. Drawn => NoCycleByHand
    BY DEF Drawn, Lives, Acyclic, NoCycleByHand
  <1> QED
    BY <1>1, <1>2, <1>3, PTL DEF Spec

---------------------------------------------------------------------------
(* What is shown and what is saved.  A drag that moved nothing shows the   *)
(* graph it began with; and of what was shown last, some save is still to  *)
(* come, unless it is what the API has.                                    *)

DragOk == drag # Nothing /\ ~torn => SameBut(canvas, drag)
Gone == status = "deleted" => selected = Away \/ \E f \in flows : f.kind = "delete" /\ f.at = "gone"
Pending == IF timer # Nothing THEN timer ELSE IF saves # <<>> THEN Last(saves) ELSE saved
Quiet == clean => flows = {} /\ (IsDraft /\ ~torn => Pending = Current)

LEMMA NotMoved ==
  ASSUME NEW g \in Definition, NEW h \in Definition, SameBut(g, h),
         \A n \in Present(g) \cap Present(h) : g.nodes[n].place = h.nodes[n].place
  PROVE  g = h
  <1>1. /\ g = [nodes |-> g.nodes, edges |-> g.edges] /\ h = [nodes |-> h.nodes, edges |-> h.edges]
        /\ g.nodes \in [Nodes -> Data \cup {Nothing}] /\ h.nodes \in [Nodes -> Data \cup {Nothing}]
    BY DEF Definition
  <1>2. ASSUME NEW n \in Nodes PROVE g.nodes[n] = h.nodes[n]
    <2>1. CASE g.nodes[n] = Nothing
      BY <2>1 DEF SameBut
    <2>2. CASE g.nodes[n] # Nothing
      <3>1. h.nodes[n] # Nothing /\ g.nodes[n].text = h.nodes[n].text
        BY <2>2 DEF SameBut
      <3>2. g.nodes[n] \in Data /\ h.nodes[n] \in Data
        BY <1>1, <2>2, <3>1
      <3>3. g.nodes[n].place = h.nodes[n].place
        BY <2>2, <3>1 DEF Present
      <3> QED
        BY <3>1, <3>2, <3>3 DEF Data
    <2> QED
      BY <2>1, <2>2
  <1>3. g.nodes = h.nodes
    BY <1>1, <1>2
  <1> QED
    BY <1>1, <1>3 DEF SameBut

LEMMA DragOkStep ==
  ASSUME Types, DragOk, [Next]_vars
  PROVE  DragOk'
  <1>1. canvas \in Definition /\ drag \in Opt(Definition)
    BY DEF Types, Lives
  <1>2. ASSUME drag' = Nothing PROVE DragOk'
    BY <1>2 DEF DragOk
  <1>3. ASSUME UNCHANGED <<canvas, drag, torn>> PROVE DragOk'
    BY <1>3 DEF DragOk
  <1>4. ASSUME torn' PROVE DragOk'
    BY <1>4 DEF DragOk
  <1>5. CASE CanvasStep
    <2>1. CASE (\E s, t \in Nodes : Connect(s, t)) \/ (\E n \in Nodes : AddNode(n)) \/ DragStop
      BY <1>2, <2>1 DEF Connect, AddNode, DragStop, Clicking
    <2>2. CASE DragStart
      BY <2>2 DEF DragStart, DragOk, SameBut
    <2>3. ASSUME NEW n \in Nodes, DragMove(n) PROVE DragOk'
      <3>1. /\ n \in Present(canvas) /\ canvas' = [canvas EXCEPT !.nodes[n].place = 1 - @]
            /\ drag' = drag /\ torn' = torn
        BY <2>3 DEF DragMove, history
      <3>2. SameBut(canvas', canvas)
        BY <1>1, <3>1, PlaceFacts
      <3> QED
        BY <3>1, <3>2 DEF DragOk, SameBut
    <2>4. ASSUME NEW ns, NEW es, DeleteSelected(ns, es) PROVE DragOk'
      BY <1>2, <1>4, <2>4 DEF DeleteSelected
    <2>5. CASE Undo \/ Redo
      BY <1>2, <1>4, <2>5 DEF Undo, Redo
    <2> QED
      BY <1>5, <2>1, <2>2, <2>3, <2>4, <2>5 DEF CanvasStep
  <1>6. CASE InspectorStep
    BY <1>2, <1>6 DEF InspectorStep, Blur, Focus, Choose, Clicking
  <1>7. CASE AssistantStep
    <2>1. ASSUME NEW plan \in Plans, Accept(plan) PROVE DragOk'
      BY <1>2, <2>1 DEF Accept, Clicking
    <2>2. ASSUME NEW plan \in Plans, Propose(plan) \/ Reject(plan) PROVE DragOk'
      BY <1>3, <2>2 DEF Propose, Reject, history
    <2>3. CASE Ask \/ AnswerWithout
      BY <1>3, <2>3 DEF Ask, AnswerWithout, history
    <2> QED
      BY <1>7, <2>1, <2>2, <2>3 DEF AssistantStep, Decide
  <1>8. CASE SaveStep
    <2>1. UNCHANGED <<canvas, drag, torn>>
      BY <1>8 DEF SaveStep, TimerFires, ServeSave, LoseSave, history
    <2> QED
      BY <1>3, <2>1
  <1>9. CASE PageStep
    <2>1. CASE Deploy \/ Edit \/ CancelEdit \/ Delete
      BY <1>3, <2>1 DEF Deploy, Edit, CancelEdit, Delete
    <2>2. ASSUME NEW f \in flows, Serve(f) PROVE DragOk'
      BY <1>3, <2>2 DEF Serve, history
    <2>3. ASSUME NEW f \in flows, Navigate(f) PROVE DragOk'
      <3>1. UNCHANGED <<canvas, drag, torn>> \/ drag' = Nothing
        BY <2>3 DEF Navigate, Mount
      <3> QED
        BY <1>2, <1>3, <3>1
    <2>4. ASSUME NEW f \in flows, FlowEnds(f) PROVE DragOk'
      <3>1. UNCHANGED <<canvas, drag, torn>> \/ drag' = Nothing
        BY <2>4 DEF FlowEnds, history
      <3> QED
        BY <1>2, <1>3, <3>1
    <2>5. ASSUME NEW v \in DOMAIN known, Select(v) PROVE DragOk'
      <3>1. UNCHANGED <<canvas, drag, torn>> \/ drag' = Nothing
        BY <2>5 DEF Select, Mount
      <3> QED
        BY <1>2, <1>3, <3>1
    <2> QED
      BY <1>9, <2>1, <2>2, <2>3, <2>4, <2>5 DEF PageStep
  <1>10. CASE UNCHANGED vars
    BY <1>3, <1>10 DEF vars
  <1> QED
    BY <1>5, <1>6, <1>7, <1>8, <1>9, <1>10 DEF Next

LEMMA GoneStep ==
  ASSUME Types, Gone, [Next]_vars
  PROVE  Gone'
  <1>1. \A f \in flows : FlowHas(Definition, f)
    BY DEF Types, Lives
  <1>2. ASSUME UNCHANGED <<status, selected>>, flows \subseteq flows' PROVE Gone'
    BY <1>2 DEF Gone
  <1>3. CASE CanvasStep
    <2>1. UNCHANGED <<status, selected, flows>>
      BY <1>3 DEF CanvasStep, Connect, AddNode, DragMove, DeleteSelected, Undo, Redo, DragStart, DragStop, api, page
    <2> QED
      BY <1>2, <2>1
  <1>4. CASE InspectorStep
    <2>1. UNCHANGED <<status, selected, flows>>
      BY <1>4 DEF InspectorStep, Blur, Focus, Choose, api, page
    <2> QED
      BY <1>2, <2>1
  <1>5. CASE AssistantStep
    <2>1. UNCHANGED <<status, selected, flows>>
      BY <1>5 DEF AssistantStep, Ask, AnswerWithout, Propose, Decide, Accept, Reject, api, page
    <2> QED
      BY <1>2, <2>1
  <1>6. CASE SaveStep
    <2>1. UNCHANGED <<status, selected, flows>>
      BY <1>6 DEF SaveStep, TimerFires, ServeSave, LoseSave, api, page
    <2> QED
      BY <1>2, <2>1
  <1>7. CASE PageStep
    <2>1. CASE Deploy \/ Edit \/ CancelEdit \/ Delete
      BY <1>2, <2>1 DEF Deploy, Edit, CancelEdit, Delete, Begin, api, page
    <2>2. ASSUME NEW f \in flows, Serve(f) PROVE Gone'
      <3>1. status # "deleted"
        BY <2>2 DEF Serve, ServePush, ServeEdit, ServeDeploy, ServeCancel, ServeDelete, ServeLoad, At
      <3>2. CASE ServeDelete(f)
        <4>1. DOMAIN f = {"kind", "at", "copy", "vs", "pushed"}
          BY <1>1 DEF FlowHas
        <4>2. PICK h : h = [f EXCEPT !.at = "gone"]
          OBVIOUS
        <4>3. h.kind = "delete" /\ h.at = "gone"
          BY <3>2, <4>1, <4>2 DEF ServeDelete, At
        <4>4. h \in flows'
          BY <3>2, <4>2 DEF ServeDelete, Advance
        <4> QED
          BY <4>3, <4>4 DEF Gone
      <3>3. CASE ~ServeDelete(f)
        <4>1. status' # "deleted"
          BY <2>2, <3>1, <3>3 DEF Serve, ServePush, ServeEdit, ServeDeploy, ServeCancel, ServeLoad, api
        <4> QED
          BY <4>1 DEF Gone
      <3> QED
        BY <3>2, <3>3
    <2>3. ASSUME NEW f \in flows, Navigate(f) PROVE Gone'
      <3>1. f.at = "load" /\ flows' = flows \ {f} /\ UNCHANGED api
        BY <1>1, <2>3 DEF Navigate, FlowHas
      <3>2. selected = Away => selected' = Away
        BY <2>3 DEF Navigate
      <3> QED
        BY <3>1, <3>2 DEF Gone, api
    <2>4. ASSUME NEW f \in flows, FlowEnds(f) PROVE Gone'
      <3>1. flows' = flows \ {f} /\ status' = status
        BY <2>4 DEF FlowEnds, api
      <3>2. CASE f.at = "gone"
        BY <2>4, <3>2 DEF FlowEnds, Gone
      <3>3. CASE f.at # "gone"
        <4>1. selected = Away => selected' = Away
          BY <2>4 DEF FlowEnds
        <4> QED
          BY <3>1, <3>3, <4>1 DEF Gone
      <3> QED
        BY <3>2, <3>3
    <2>5. ASSUME NEW v \in DOMAIN known, Select(v) PROVE Gone'
      BY <2>5 DEF Select, Gone, api
    <2> QED
      BY <1>7, <2>1, <2>2, <2>3, <2>4, <2>5 DEF PageStep
  <1>8. CASE UNCHANGED vars
    BY <1>2, <1>8 DEF vars
  <1> QED
    BY <1>3, <1>4, <1>5, <1>6, <1>7, <1>8 DEF Next

LEMMA CommitQuiet ==
  ASSUME Types, NEW g, Commit(g), drag' = Nothing, canvas' \in Definition, UNCHANGED <<flows, clean>>, Quiet
  PROVE  Quiet'
  <1>1. timer' = canvas' /\ canvas' # Nothing
    BY NothingAssumption DEF Commit, Schedule
  <1> QED
    BY <1>1 DEF Quiet, Pending, Current

LEMMA FirstServed ==
  ASSUME NEW S, NEW s \in Seq(S), s # <<>>
  PROVE  LET t == RemoveAt(s, 1)
         IN  IF t = <<>> THEN s[1] = Last(s) ELSE Last(t) = Last(s)
  <1> DEFINE n == Len(s)
             t == RemoveAt(s, 1)
  <1>1. n \in Nat \ {0} /\ s \in [1 .. n -> S]
    BY EmptySeq, LenProperties
  <1>2. t \in Seq(S) /\ Len(t) = n - 1
    <2>1. 1 \in 1 .. Len(s)
      BY <1>1
    <2> QED
      BY <2>1, Removed
  <1>3. SubSeq(s, 1, 1 - 1) = <<>>
    BY SubSeqEmpty
  <1>4. \A i \in 2 .. n : s[i] \in S
    BY <1>1
  <1>5. /\ SubSeq(s, 2, n) \in Seq(S)
        /\ \A i \in 1 .. n - 2 + 1 : SubSeq(s, 2, n)[i] = s[2 + i - 1]
    BY <1>1, <1>4, SubSeqProperties
  <1>6. t = SubSeq(s, 2, n)
    <2>1. t = <<>> \o SubSeq(s, 2, n)
      BY <1>3 DEF RemoveAt
    <2> QED
      BY <1>5, <2>1, ConcatEmptySeq
  <1>7. CASE t = <<>>
    <2>1. n = 1
      BY <1>1, <1>2, <1>7, EmptySeq
    <2> QED
      BY <1>7, <2>1 DEF Last
  <1>8. CASE t # <<>>
    <2>1. n - 1 \in Nat \ {0}
      BY <1>1, <1>2, <1>8, EmptySeq
    <2>2. n - 1 \in 1 .. n - 2 + 1 /\ 2 + (n - 1) - 1 = n
      BY <1>1, <2>1
    <2>3. SubSeq(s, 2, n)[n - 1] = s[2 + (n - 1) - 1]
      BY <1>5, <2>2
    <2>4. t[n - 1] = s[n]
      BY <1>6, <2>2, <2>3
    <2>5. Last(t) = t[n - 1] /\ Last(s) = s[n]
      BY <1>2 DEF Last
    <2> QED
      BY <1>8, <2>4, <2>5
  <1> QED
    BY <1>7, <1>8

LEMMA QuietCanvas ==
  ASSUME Types, Types', DragOk, Quiet, CanvasStep
  PROVE  Quiet'
  <1>1. canvas' \in Definition /\ canvas \in Definition /\ drag \in Opt(Definition)
        /\ past \in Seq(Definition) /\ future \in Seq(Definition)
    BY DEF Types, Lives
  <1>2. ASSUME NEW s \in Nodes, NEW t \in Nodes, Connect(s, t) PROVE Quiet'
    BY <1>1, <1>2, CommitQuiet DEF Connect, Clicking, history
  <1>3. ASSUME NEW n \in Nodes, AddNode(n) PROVE Quiet'
    BY <1>1, <1>3, CommitQuiet DEF AddNode, Clicking, history
  <1>4. ASSUME NEW ns, NEW es, DeleteSelected(ns, es) PROVE Quiet'
    <2>1. CASE drag = Nothing
      BY <1>1, <1>4, <2>1, CommitQuiet DEF DeleteSelected
    <2>2. CASE drag # Nothing
      BY <1>4, <2>2 DEF DeleteSelected, Quiet
    <2> QED
      BY <2>1, <2>2
  <1>5. CASE Undo \/ Redo
    <2>1. timer' = canvas' /\ drag' = drag /\ UNCHANGED <<flows, clean>> /\ (drag # Nothing => torn')
      BY <1>5 DEF Undo, Redo, Schedule
    <2>2. canvas' # Nothing
      BY <1>1, NothingAssumption
    <2> QED
      BY <2>1, <2>2 DEF Quiet, Pending, Current
  <1>6. CASE DragStart
    <2>1. canvas # Nothing
      BY <1>1, NothingAssumption
    <2>2. drag = Nothing /\ drag' = canvas /\ UNCHANGED <<api, page, timer, saves, flows, history>>
      BY <1>6 DEF DragStart, Clicking
    <2>3. Current' = Current /\ Pending' = Pending
      BY <2>1, <2>2 DEF Current, Pending, api
    <2> QED
      BY <2>2, <2>3 DEF Quiet, IsDraft, page, history
  <1>7. ASSUME NEW n \in Nodes, DragMove(n) PROVE Quiet'
    <2>1. drag # Nothing /\ UNCHANGED <<api, page, drag, timer, saves, flows, history>>
      BY <1>7 DEF DragMove
    <2>2. Current' = Current /\ Pending' = Pending
      BY <2>1 DEF Current, Pending, api
    <2> QED
      BY <2>1, <2>2 DEF Quiet, IsDraft, page, history
  <1>8. CASE DragStop
    <2>1. /\ drag # Nothing /\ drag' = Nothing /\ clean' = (clean /\ ~torn) /\ canvas' = canvas
          /\ UNCHANGED <<api, page, saves, flows>>
      BY <1>8 DEF DragStop
    <2>2. canvas # Nothing /\ drag \in Definition
      BY <1>1, <2>1, NothingAssumption DEF Opt
    <2>3. CASE HasMoved
      <3>1. timer' = canvas
        BY <1>8, <2>3 DEF DragStop, Schedule
      <3> QED
        BY <2>1, <2>2, <3>1 DEF Quiet, Pending, Current
    <2>4. CASE ~HasMoved
      <3>1. timer' = timer
        BY <1>8, <2>4 DEF DragStop
      <3> SUFFICES ASSUME clean' PROVE flows' = {} /\ (IsDraft' /\ ~torn' => Pending' = Current')
        BY DEF Quiet
      <3>2. clean /\ ~torn
        BY <2>1
      <3>3. canvas = drag
        <4>1. SameBut(canvas, drag)
          BY <2>1, <3>2 DEF DragOk
        <4> QED
          BY <1>1, <2>2, <2>4, <4>1, NotMoved DEF HasMoved
      <3>4. Current' = Current /\ Pending' = Pending
        BY <2>1, <3>1, <3>3 DEF Current, Pending, api
      <3>5. flows = {} /\ (IsDraft => Pending = Current)
        BY <3>2 DEF Quiet
      <3> QED
        BY <2>1, <3>4, <3>5 DEF IsDraft, page
    <2> QED
      BY <2>3, <2>4
  <1> QED
    BY <1>2, <1>3, <1>4, <1>5, <1>6, <1>7, <1>8 DEF CanvasStep

LEMMA QuietSame ==
  ASSUME Quiet, UNCHANGED <<api, page, canvas, drag, timer, saves, flows, clean, torn>>
  PROVE  Quiet'
  BY DEF Quiet, IsDraft, Pending, Current, api, page

LEMMA QuietStep ==
  ASSUME Types, Types', DragOk, Gone, Quiet, [Next]_vars
  PROVE  Quiet'
  <1>1. canvas' \in Definition /\ saves \in Seq(Definition) /\ DOMAIN saves = 1 .. Len(saves)
        /\ timer \in Opt(Definition)
    BY LenProperties DEF Types, Lives
  <1>2. CASE CanvasStep
    BY <1>2, QuietCanvas
  <1>3. CASE InspectorStep
    <2>1. CASE Blur
      <3>1. drag' = Nothing /\ UNCHANGED <<api, page, drag, saves, flows, history>>
        BY <2>1 DEF Blur
      <3>2. CASE UNCHANGED <<canvas, stack, timer>>
        BY <3>1, <3>2, QuietSame DEF history
      <3>3. CASE Commit([canvas EXCEPT !.nodes[field.node].text = field.text])
        BY <1>1, <3>1, <3>3, CommitQuiet DEF history
      <3> QED
        BY <2>1, <3>2, <3>3 DEF Blur
    <2>2. ASSUME NEW n \in Nodes, NEW t \in Texts, Focus(n, t) PROVE Quiet'
      BY <2>2, QuietSame DEF Focus, history
    <2>3. ASSUME NEW n \in Nodes, NEW t \in Texts, Choose(n, t) PROVE Quiet'
      BY <1>1, <2>3, CommitQuiet DEF Choose, Emit, Clicking, history
    <2> QED
      BY <1>3, <2>1, <2>2, <2>3 DEF InspectorStep
  <1>4. CASE AssistantStep
    <2>1. ASSUME NEW plan \in Plans, Accept(plan) PROVE Quiet'
      <3>1. drag' = Nothing /\ UNCHANGED <<api, page, drag, saves, flows, clean, torn>>
        BY <2>1 DEF Accept, Clicking
      <3>2. CASE UNCHANGED <<canvas, stack, timer>>
        BY <3>1, <3>2, QuietSame
      <3>3. CASE Commit(ApplyPlan(plan, canvas))
        BY <1>1, <3>1, <3>3, CommitQuiet
      <3> QED
        BY <2>1, <3>2, <3>3 DEF Accept
    <2>2. ASSUME NEW plan \in Plans, Propose(plan) \/ Reject(plan) PROVE Quiet'
      BY <2>2, QuietSame DEF Propose, Reject, history
    <2>3. CASE Ask \/ AnswerWithout
      BY <2>3, QuietSame DEF Ask, AnswerWithout, history
    <2> QED
      BY <1>4, <2>1, <2>2, <2>3 DEF AssistantStep, Decide
  <1>5. CASE SaveStep
    <2>1. CASE TimerFires
      <3>1. timer \in Definition /\ timer # Nothing /\ saves' = Append(saves, timer) /\ timer' = Nothing
        BY <1>1, <2>1 DEF TimerFires, Opt
      <3>2. saves' # <<>> /\ Len(saves') = Len(saves) + 1 /\ saves'[Len(saves) + 1] = timer
        BY <1>1, <3>1, AppendProperties
      <3>3. Last(saves') = timer
        BY <3>2 DEF Last
      <3>4. Pending' = Pending
        BY <3>1, <3>2, <3>3 DEF Pending
      <3>5. UNCHANGED <<page, canvas, drag, flows, history>>
        BY <2>1 DEF TimerFires
      <3> QED
        BY <3>4, <3>5 DEF Quiet, IsDraft, Current, page, history
    <2>2. ASSUME NEW i \in DOMAIN saves, ServeSave(i) PROVE Quiet'
      <3> SUFFICES ASSUME clean' PROVE flows' = {} /\ (IsDraft' /\ ~torn' => Pending' = Current')
        BY DEF Quiet
      <3>1. clean /\ i = 1 /\ saves' = RemoveAt(saves, 1) /\ saves # <<>>
        <4>1. clean /\ i = 1 /\ saves' = RemoveAt(saves, 1)
          BY <2>2 DEF ServeSave
        <4>2. i \in 1 .. Len(saves)
          BY <1>1
        <4>3. saves # <<>>
          BY <1>1, <4>2, EmptySeq
        <4> QED
          BY <4>1, <4>3
      <3>2. UNCHANGED <<page, canvas, drag, timer, flows, torn>>
        BY <2>2 DEF ServeSave
      <3>3. flows = {} /\ (IsDraft /\ ~torn => Pending = Current)
        BY <3>1 DEF Quiet
      <3>4. ASSUME IsDraft PROVE Pending' = Pending
        <4>1. status # "deleted"
          BY <3>3, <3>4, NatAway DEF Gone, IsDraft, Away, Draft
        <4>2. saved' = saves[1]
          BY <2>2, <3>1, <4>1 DEF ServeSave
        <4>3. IF saves' = <<>> THEN saves[1] = Last(saves) ELSE Last(saves') = Last(saves)
          BY <1>1, <3>1, FirstServed
        <4> QED
          BY <3>1, <3>2, <4>2, <4>3 DEF Pending
      <3> QED
        BY <3>2, <3>3, <3>4 DEF IsDraft, Current, page
    <2>3. ASSUME NEW i \in DOMAIN saves, LoseSave(i) PROVE Quiet'
      BY <2>3 DEF LoseSave, Quiet
    <2> QED
      BY <1>5, <2>1, <2>2, <2>3 DEF SaveStep
  <1>6. CASE PageStep
    <2>1. CASE Deploy \/ Edit \/ CancelEdit \/ Delete
      BY <2>1 DEF Deploy, Edit, CancelEdit, Delete, Begin, Quiet
    <2>2. ASSUME NEW f \in flows, Serve(f) \/ FlowEnds(f) PROVE Quiet'
      <3>1. ~clean /\ clean' = clean
        BY <2>2 DEF Quiet, Serve, FlowEnds, history
      <3> QED
        BY <3>1 DEF Quiet
    <2>3. ASSUME NEW f \in flows, Navigate(f) PROVE Quiet'
      <3> SUFFICES ASSUME clean' PROVE flows' = {} /\ (IsDraft' /\ ~torn' => Pending' = Current')
        BY DEF Quiet
      <3>1. flows = {f} /\ saves = <<>> /\ f.copy = saved /\ selected' # selected
        BY <2>3 DEF Navigate
      <3>2. flows' = {} /\ saves' = <<>> /\ saved' = saved
        BY <2>3, <3>1 DEF Navigate, api
      <3>3. /\ timer' = Nothing /\ drag' = Nothing
            /\ canvas' = Shown(selected', f.copy, f.vs)
        BY <2>3, <3>1 DEF Navigate, Mount
      <3>4. IsDraft' => canvas' = saved
        BY <3>1, <3>3 DEF IsDraft, Shown
      <3> QED
        BY <3>2, <3>3, <3>4 DEF Pending, Current
    <2>4. ASSUME NEW v \in DOMAIN known, Select(v) PROVE Quiet'
      BY <2>4 DEF Select, Quiet
    <2> QED
      BY <1>6, <2>1, <2>2, <2>3, <2>4 DEF PageStep
  <1>7. CASE UNCHANGED vars
    BY <1>7, QuietSame DEF vars, api, page
  <1> QED
    BY <1>2, <1>3, <1>4, <1>5, <1>6, <1>7 DEF Next

LEMMA InitQuiet == Init => DragOk /\ Gone /\ Quiet
  <1> SUFFICES ASSUME Init PROVE DragOk /\ Gone /\ Quiet
    OBVIOUS
  <1>1. DragOk /\ Gone
    BY DEF Init, DragOk, Gone
  <1>2. timer = Nothing /\ saves = <<>> /\ drag = Nothing /\ flows = {} /\ saved = Start
        /\ canvas = Shown(selected, Start, versions)
    BY DEF Init
  <1>3. Quiet
    BY <1>2 DEF Quiet, Pending, Current, IsDraft, Shown
  <1> QED
    BY <1>1, <1>3

\* Once no save is queued or under way, the API has what the canvas shows,
\* unless a PUT was lost or overtaken, a flow of the page intervened, or a key
\* cut into a drag (use-auto-save.ts).
THEOREM SavedOnceQuiet == Spec => []SavedWhenQuiet
  <1>1. Init => Types /\ DragOk /\ Gone /\ Quiet
    BY InitTypes, InitQuiet
  <1>2. Types /\ DragOk /\ Gone /\ Quiet /\ [Next]_vars => Types' /\ DragOk' /\ Gone' /\ Quiet'
    BY TypesStep, DragOkStep, GoneStep, QuietStep
  <1>3. Quiet => SavedWhenQuiet
    BY DEF Quiet, Pending, Current, SavedWhenQuiet
  <1> QED
    BY <1>1, <1>2, <1>3, PTL DEF Spec

---------------------------------------------------------------------------
(* The line of graphs: what is past, what is current, what was undone.     *)

Line(p, c, f) == p \o <<c>> \o Reverse(f)

LEMMA ReverseFacts ==
  ASSUME NEW S, NEW s \in Seq(S)
  PROVE  /\ Reverse(s) \in Seq(S) /\ Len(Reverse(s)) = Len(s)
         /\ \A i \in 1 .. Len(s) : Reverse(s)[i] = s[Len(s) - i + 1]
  <1>1. Len(s) \in Nat /\ s \in [1 .. Len(s) -> S]
    BY LenProperties
  <1>2. \A i \in 1 .. Len(s) : Len(s) - i + 1 \in 1 .. Len(s)
    BY <1>1
  <1>3. PICK r : r = Reverse(s)
    OBVIOUS
  <1>4. r = [i \in 1 .. Len(s) |-> s[Len(s) - i + 1]]
    BY <1>3 DEF Reverse
  <1>5. r \in [1 .. Len(s) -> S] /\ \A i \in 1 .. Len(s) : r[i] = s[Len(s) - i + 1]
    BY <1>1, <1>2, <1>4
  <1>6. r \in Seq(S)
    BY <1>1, <1>5, SeqDef
  <1>7. Len(r) \in Nat /\ 1 .. Len(r) = 1 .. Len(s)
    BY <1>5, <1>6, LenProperties
  <1>8. Len(r) = Len(s)
    BY <1>1, <1>7
  <1> QED
    BY <1>3, <1>5, <1>6, <1>8

LEMMA OneElement ==
  ASSUME NEW S, NEW c \in S
  PROVE  <<c>> \in Seq(S) /\ Len(<<c>>) = 1 /\ <<c>>[1] = c
  OBVIOUS

LEMMA EndsAppend ==
  ASSUME NEW S, NEW s \in Seq(S), s # <<>>
  PROVE  s = Append(Front(s), Last(s))
  <1>1. PICK f, l : f = Front(s) /\ l = Last(s)
    OBVIOUS
  <1>2. /\ Len(s) \in Nat \ {0} /\ l \in S /\ l = s[Len(s)] /\ f \in Seq(S) /\ Len(f) = Len(s) - 1
        /\ \A i \in 1 .. Len(s) - 1 : f[i] = s[i]
    BY <1>1, Ends
  <1>3. /\ Append(f, l) \in Seq(S) /\ Len(Append(f, l)) = Len(f) + 1
        /\ \A i \in 1 .. Len(f) : Append(f, l)[i] = f[i]
        /\ Append(f, l)[Len(f) + 1] = l
    BY <1>2, AppendProperties
  <1>4. Len(Append(f, l)) = Len(s)
    BY <1>2, <1>3
  <1>5. \A i \in 1 .. Len(s) : s[i] = Append(f, l)[i]
    BY <1>2, <1>3
  <1>6. s = Append(f, l)
    BY <1>2, <1>3, <1>4, <1>5, SeqEqual
  <1> QED
    BY <1>1, <1>6

LEMMA ReverseAppend ==
  ASSUME NEW S, NEW s \in Seq(S), NEW c \in S
  PROVE  Reverse(Append(s, c)) = <<c>> \o Reverse(s)
  <1>1. PICK t, a, b, r : t = Append(s, c) /\ a = Reverse(t) /\ r = Reverse(s) /\ b = <<c>> \o r
    OBVIOUS
  <1>2. PICK n \in Nat : n = Len(s)
    BY LenProperties
  <1>3. /\ t \in Seq(S) /\ Len(t) = n + 1 /\ t[n + 1] = c
        /\ \A i \in 1 .. n : t[i] = s[i]
    BY <1>1, <1>2, AppendProperties
  <1>4. a \in Seq(S) /\ Len(a) = n + 1 /\ \A i \in 1 .. n + 1 : a[i] = t[n + 1 - i + 1]
    <2>1. /\ Reverse(t) \in Seq(S) /\ Len(Reverse(t)) = Len(t)
          /\ \A i \in 1 .. Len(t) : Reverse(t)[i] = t[Len(t) - i + 1]
      BY <1>3, ReverseFacts
    <2> QED
      BY <1>1, <1>3, <2>1
  <1>5. r \in Seq(S) /\ Len(r) = n /\ \A i \in 1 .. n : r[i] = s[n - i + 1]
    BY <1>1, <1>2, ReverseFacts
  <1>6. /\ b \in Seq(S) /\ Len(b) = 1 + n
        /\ \A i \in 1 .. 1 + n : b[i] = IF i <= 1 THEN <<c>>[i] ELSE r[i - 1]
    BY <1>1, <1>5, OneElement, ConcatProperties
  <1>7. ASSUME NEW i \in 1 .. n + 1 PROVE a[i] = b[i]
    <2>1. a[i] = t[n + 1 - i + 1]
      BY <1>4
    <2>2. CASE i = 1
      <3>1. n + 1 - i + 1 = n + 1
        BY <2>2
      <3>2. b[i] = c
        BY <1>6, <2>2, OneElement
      <3> QED
        BY <1>3, <2>1, <3>1, <3>2
    <2>3. CASE i # 1
      <3>1. i \in 1 .. 1 + n /\ ~(i <= 1) /\ i - 1 \in 1 .. n /\ n + 1 - i + 1 \in 1 .. n
            /\ n - (i - 1) + 1 = n + 1 - i + 1
        BY <2>3
      <3>2. b[i] = r[i - 1]
        BY <1>6, <3>1
      <3>3. r[i - 1] = s[n - (i - 1) + 1]
        BY <1>5, <3>1
      <3>4. t[n + 1 - i + 1] = s[n + 1 - i + 1]
        BY <1>3, <3>1
      <3> QED
        BY <2>1, <3>1, <3>2, <3>3, <3>4
    <2> QED
      BY <2>2, <2>3
  <1>8. Len(a) = Len(b) /\ \A i \in 1 .. Len(a) : a[i] = b[i]
    BY <1>4, <1>6, <1>7
  <1>9. a = b
    BY <1>4, <1>6, <1>8, SeqEqual
  <1> QED
    BY <1>1, <1>9

\* An undo and a redo move the cursor and leave the line.
LEMMA MoveKeepsLine ==
  ASSUME NEW S, NEW p \in Seq(S), NEW f \in Seq(S), NEW c \in S, NEW d \in S
  PROVE  Line(Append(p, c), d, f) = Line(p, c, Append(f, d))
  <1>1. PICK r, a : r = Reverse(f) /\ a = p \o <<c>>
    OBVIOUS
  <1>2. r \in Seq(S) /\ Reverse(Append(f, d)) = <<d>> \o r
    BY <1>1, ReverseFacts, ReverseAppend
  <1>3. a \in Seq(S) /\ Append(p, c) = a
    BY <1>1, OneElement, ConcatProperties, AppendIsConcat
  <1>4. a \o (<<d>> \o r) = (a \o <<d>>) \o r
    BY <1>2, <1>3, OneElement, ConcatAssociative
  <1> QED
    BY <1>1, <1>2, <1>3, <1>4 DEF Line

\* Without anything undone the line ends with what is current.
LEMMA LineEnd ==
  ASSUME NEW S, NEW p \in Seq(S), NEW c \in S
  PROVE  /\ Line(p, c, <<>>) = Append(p, c)
         /\ Len(Line(p, c, <<>>)) = Len(p) + 1 /\ Line(p, c, <<>>)[Len(p) + 1] = c
  <1>1. Reverse(<<>>) = <<>>
    <2>1. <<>> \in Seq(S) /\ Len(<<>>) = 0
      BY EmptySeq
    <2>2. Reverse(<<>>) \in Seq(S) /\ Len(Reverse(<<>>)) = 0
      BY <2>1, ReverseFacts
    <2> QED
      BY <2>2, EmptySeq
  <1>2. Append(p, c) \in Seq(S) /\ Append(p, c) = p \o <<c>>
    BY AppendProperties, AppendIsConcat
  <1>3. Append(p, c) \o <<>> = Append(p, c)
    BY <1>2, ConcatEmptySeq
  <1>4. Line(p, c, <<>>) = Append(p, c)
    BY <1>1, <1>2, <1>3 DEF Line
  <1> QED
    BY <1>4, AppendProperties

LEMMA LineFacts ==
  ASSUME NEW S, NEW p \in Seq(S), NEW f \in Seq(S), NEW c \in S
  PROVE  /\ Line(p, c, f) \in Seq(S) /\ Len(Line(p, c, f)) = Len(p) + 1 + Len(f)
         /\ SubSeq(Line(p, c, f), 1, Len(p) + 1) = Append(p, c)
  <1>1. PICK r, a, l : r = Reverse(f) /\ a = Append(p, c) /\ l = Line(p, c, f)
    OBVIOUS
  <1>2. PICK n \in Nat : n = Len(p)
    BY LenProperties
  <1>3. a \in Seq(S) /\ Len(a) = n + 1 /\ a = p \o <<c>>
    BY <1>1, <1>2, AppendProperties, AppendIsConcat
  <1>4. r \in Seq(S) /\ Len(r) = Len(f) /\ Len(f) \in Nat
    BY <1>1, ReverseFacts, LenProperties
  <1>5. l = a \o r
    BY <1>1, <1>3 DEF Line
  <1>6. l \in Seq(S) /\ Len(l) = Len(a) + Len(r)
    <2>1. a \in Seq(S) /\ r \in Seq(S)
      BY <1>3, <1>4
    <2>2. a \o r \in Seq(S) /\ Len(a \o r) = Len(a) + Len(r)
      BY <2>1, ConcatProperties
    <2> QED
      BY <1>5, <2>2
  <1>7. 1 \in 1 .. Len(a) /\ Len(a) \in 1 .. Len(a)
    BY <1>3
  <1>8. SubSeq(l, 1, Len(a)) = SubSeq(a, 1, Len(a))
    BY <1>3, <1>4, <1>5, <1>7, SubSeqOfConcat1
  <1>9. SubSeq(a, 1, Len(a)) = a
    BY <1>3, SubSeqFull
  <1>10. Len(l) = n + 1 + Len(f)
    BY <1>3, <1>4, <1>6
  <1> QED
    BY <1>1, <1>2, <1>3, <1>6, <1>8, <1>9, <1>10

\* A commit cuts the line behind the cursor, and forgets its oldest graph when
\* it is full.
LEMMA PushOnLine ==
  ASSUME NEW S, NEW p \in Seq(S), NEW f \in Seq(S), NEW c \in S, NEW d \in S, Len(p) <= MaxHistory
  PROVE  LET x == Append(SubSeq(Line(p, c, f), 1, Len(p) + 1), d)
         IN  Line(Pushed(p, c), d, <<>>) = IF Len(x) > MaxHistory + 1 THEN Tail(x) ELSE x
  <1>1. PICK n \in Nat : n = Len(p)
    BY LenProperties
  <1>2. PICK a, x : a = Append(p, c) /\ x = Append(a, d)
    OBVIOUS
  <1>3. SubSeq(Line(p, c, f), 1, Len(p) + 1) = a
    BY <1>2, LineFacts
  <1>4. /\ a \in Seq(S) /\ Len(a) = n + 1 /\ a # <<>>
        /\ x \in Seq(S) /\ Len(x) = n + 1 + 1
    BY <1>1, <1>2, AppendProperties
  <1>5. Pushed(p, c) \in Seq(S)
    BY PushedFacts
  <1>6. Line(Pushed(p, c), d, <<>>) = Append(Pushed(p, c), d)
    BY <1>5, LineEnd
  <1>7. MaxHistory \in Nat \ {0}
    BY HistoryAssumption
  <1>8. CASE n = MaxHistory
    <2>1. p # <<>>
      BY <1>1, <1>7, <1>8, EmptySeq
    <2>2. Tail(a) = Append(Tail(p), c)
      BY <1>2, <2>1, HeadTailAppend
    <2>3. Tail(x) = Append(Tail(a), d)
      BY <1>2, <1>4, HeadTailAppend
    <2>4. Pushed(p, c) = Append(Tail(p), c)
      BY <1>1, <1>8 DEF Pushed
    <2>5. Len(x) > MaxHistory + 1
      BY <1>4, <1>7, <1>8
    <2> QED
      BY <1>2, <1>3, <1>6, <2>2, <2>3, <2>4, <2>5
  <1>9. CASE n # MaxHistory
    <2>1. Pushed(p, c) = a
      BY <1>1, <1>2, <1>9 DEF Pushed
    <2>2. ~(Len(x) > MaxHistory + 1)
      BY <1>1, <1>4, <1>7, <1>9
    <2> QED
      BY <1>2, <1>3, <1>6, <2>1, <2>2
  <1> QED
    BY <1>8, <1>9

LEMMA CurrentIs ==
  ASSUME Types
  PROVE  /\ Current \in Definition /\ past \in Seq(Definition) /\ future \in Seq(Definition)
         /\ Len(past) <= MaxHistory /\ canvas # Nothing
  <1>1. Len(past) \in Nat /\ Len(future) \in Nat /\ Len(past) + Len(future) <= MaxHistory
        /\ MaxHistory \in Nat
    BY LenProperties, HistoryAssumption DEF Types, Lives, Sizes
  <1>2. Len(past) <= MaxHistory
    BY <1>1
  <1> QED
    BY <1>2, NothingAssumption DEF Types, Lives, Opt, Current

LEMMA TimelineCommit ==
  ASSUME Types, Types', past' = Pushed(past, Current), future' = <<>>
  PROVE  History!Commit
  <1>1. PICK p, f, c, q, d : p = past /\ f = future /\ c = Current /\ q = past' /\ d = Current'
    OBVIOUS
  <1>2. /\ p \in Seq(Definition) /\ f \in Seq(Definition) /\ c \in Definition /\ Len(p) <= MaxHistory
    BY <1>1, CurrentIs
  <1>3. q \in Seq(Definition) /\ d \in Definition /\ q = Pushed(p, c)
    <2>1. Current' \in Definition /\ past' \in Seq(Definition)
      BY NothingAssumption DEF Types, Lives, Opt, Current
    <2> QED
      BY <1>1, <2>1
  <1>4. PICK x : x = Append(SubSeq(Line(p, c, f), 1, Len(p) + 1), d)
    OBVIOUS
  <1>5. Line(q, d, <<>>) = IF Len(x) > MaxHistory + 1 THEN Tail(x) ELSE x
    BY <1>2, <1>3, <1>4, PushOnLine
  <1>6. Len(Line(q, d, <<>>)) = Len(q) + 1 /\ Line(q, d, <<>>)[Len(q) + 1] = d
    BY <1>3, LineEnd
  <1>7. x = SubSeq(Line(p, c, f), 1, Len(p) + 1) \o <<d>>
    <2>1. SubSeq(Line(p, c, f), 1, Len(p) + 1) = Append(p, c) /\ Append(p, c) \in Seq(Definition)
      <3>1. SubSeq(Line(p, c, f), 1, Len(p) + 1) = Append(p, c)
        BY <1>2, LineFacts
      <3>2. Append(p, c) \in Seq(Definition)
        BY <1>2, AppendProperties
      <3> QED
        BY <3>1, <3>2
    <2>2. PICK a : a = Append(p, c)
      OBVIOUS
    <2>3. Append(a, d) = a \o <<d>>
      BY <1>3, <2>1, <2>2, AppendIsConcat
    <2> QED
      BY <1>4, <2>1, <2>2, <2>3
  <1>8. past \o <<Current>> \o Reverse(future) = Line(p, c, f)
    BY <1>1 DEF Line
  <1>9. past' \o <<Current'>> \o Reverse(future') = Line(q, d, <<>>)
    BY <1>1 DEF Line
  <1>10. Len(past) = Len(p) /\ Len(past') = Len(q)
    BY <1>1
  <1> HIDE DEF Current
  <1> QED
    BY <1>5, <1>6, <1>7, <1>8, <1>9, <1>10 DEF History!Commit, History!Bounded

LEMMA TimelineUndo ==
  ASSUME Types, Types', past # <<>>, past' = Front(past), Current' = Last(past), future' = Append(future, Current)
  PROVE  History!Undo
  <1>1. PICK p, f, c, q, d : p = past /\ f = future /\ c = Current /\ q = past' /\ d = Current'
    OBVIOUS
  <1>2. /\ p \in Seq(Definition) /\ f \in Seq(Definition) /\ c \in Definition
    BY <1>1, CurrentIs
  <1>3. /\ Len(p) \in Nat \ {0} /\ d \in Definition /\ q \in Seq(Definition) /\ Len(q) = Len(p) - 1
        /\ p = Append(q, d)
    BY <1>1, <1>2, Ends, EndsAppend
  <1>4. Line(p, c, f) = Line(q, d, Append(f, c))
    BY <1>2, <1>3, MoveKeepsLine
  <1>5. past \o <<Current>> \o Reverse(future) = Line(p, c, f)
    BY <1>1 DEF Line
  <1>6. past' \o <<Current'>> \o Reverse(future') = Line(q, d, Append(f, c))
    BY <1>1 DEF Line
  <1>7. Len(past) + 1 > 1 /\ Len(past') + 1 = Len(past) + 1 - 1
    BY <1>1, <1>3
  <1>8. UNCHANGED (past \o <<Current>> \o Reverse(future))
    BY <1>4, <1>5, <1>6
  <1>9. (Len(past) + 1)' = Len(past) + 1 - 1
    BY <1>7
  <1> QED
    BY <1>7, <1>8, <1>9 DEF History!Undo

LEMMA TimelineRedo ==
  ASSUME Types, Types', future # <<>>, future' = Front(future), Current' = Last(future), past' = Append(past, Current)
  PROVE  History!Redo
  <1>1. PICK p, f, c, g, d : p = past /\ f = future /\ c = Current /\ g = future' /\ d = Current'
    OBVIOUS
  <1>2. /\ p \in Seq(Definition) /\ f \in Seq(Definition) /\ c \in Definition
    BY <1>1, CurrentIs
  <1>3. /\ Len(f) \in Nat \ {0} /\ d \in Definition /\ g \in Seq(Definition)
        /\ f = Append(g, d)
    BY <1>1, <1>2, Ends, EndsAppend
  <1>4. Line(Append(p, c), d, g) = Line(p, c, f)
    BY <1>2, <1>3, MoveKeepsLine
  <1>5. past \o <<Current>> \o Reverse(future) = Line(p, c, f)
    BY <1>1 DEF Line
  <1>6. past' \o <<Current'>> \o Reverse(future') = Line(Append(p, c), d, g)
    BY <1>1 DEF Line
  <1>7. Len(p) \in Nat /\ Len(Append(p, c)) = Len(p) + 1 /\ Len(Line(p, c, f)) = Len(p) + 1 + Len(f)
    BY <1>2, LenProperties, AppendProperties, LineFacts
  <1>8. Len(past) + 1 < Len(Line(p, c, f)) /\ Len(past') + 1 = Len(past) + 1 + 1
    BY <1>1, <1>3, <1>7
  <1> QED
    BY <1>4, <1>5, <1>6, <1>8 DEF History!Redo

LEMMA TimelineRestart ==
  ASSUME Types', past' = <<>>, future' = <<>>
  PROVE  History!Restart
  <1>1. PICK d : d = Current'
    OBVIOUS
  <1>2. d \in Definition
    BY <1>1, NothingAssumption DEF Types, Lives, Opt, Current
  <1>3. <<>> \in Seq(Definition) /\ Len(<<>>) = 0
    BY EmptySeq
  <1>4. Line(<<>>, d, <<>>) = Append(<<>>, d) /\ Line(<<>>, d, <<>>)[Len(<<>>) + 1] = d
    BY <1>2, <1>3, LineEnd
  <1>5. Line(<<>>, d, <<>>) = <<d>> /\ Line(<<>>, d, <<>>)[1] = d
    BY <1>3, <1>4
  <1>6. past' \o <<Current'>> \o Reverse(future') = Line(<<>>, d, <<>>)
    BY <1>1 DEF Line
  <1>7. Len(past') + 1 = 1
    BY <1>3
  <1> QED
    BY <1>5, <1>6, <1>7 DEF History!Restart

Walks == torn \/ torn' \/ History!Next \/ UNCHANGED <<past, future, Current>>

LEMMA CommitWalks ==
  ASSUME Types, Types', NEW g, Commit(g), drag = Nothing, drag' = Nothing
  PROVE  Walks
  <1>1. past' = Pushed(past, Current) /\ future' = <<>>
    BY DEF Commit, Push, Pushed, Current
  <1> QED
    BY <1>1, TimelineCommit DEF Walks, History!Next

LEMMA CanvasWalks ==
  ASSUME Types, Types', DragOk, CanvasStep
  PROVE  Walks
  <1>1. canvas \in Definition /\ canvas # Nothing /\ drag \in Opt(Definition)
    BY NothingAssumption DEF Types, Lives
  <1>2. ASSUME NEW s \in Nodes, NEW t \in Nodes, Connect(s, t) PROVE Walks
    BY <1>2, CommitWalks DEF Connect, Clicking
  <1>3. ASSUME NEW n \in Nodes, AddNode(n) PROVE Walks
    BY <1>3, CommitWalks DEF AddNode, Clicking
  <1>4. ASSUME NEW ns, NEW es, DeleteSelected(ns, es) PROVE Walks
    <2>1. CASE drag = Nothing
      BY <1>4, <2>1, CommitWalks DEF DeleteSelected
    <2>2. CASE drag # Nothing
      BY <1>4, <2>2 DEF DeleteSelected, Walks
    <2> QED
      BY <2>1, <2>2
  <1>5. CASE Undo
    <2>1. CASE drag = Nothing
      <3>1. /\ past # <<>> /\ past' = Front(past) /\ Current' = Last(past)
            /\ future' = Append(future, Current)
        BY <1>5, <2>1 DEF Undo, Current
      <3> QED
        BY <3>1, TimelineUndo DEF Walks, History!Next
    <2>2. CASE drag # Nothing
      BY <1>5, <2>2 DEF Undo, Walks
    <2> QED
      BY <2>1, <2>2
  <1>6. CASE Redo
    <2>1. CASE drag = Nothing
      <3>1. /\ future # <<>> /\ future' = Front(future) /\ Current' = Last(future)
            /\ past' = Append(past, Current)
        BY <1>6, <2>1 DEF Redo, Current
      <3> QED
        BY <3>1, TimelineRedo DEF Walks, History!Next
    <2>2. CASE drag # Nothing
      BY <1>6, <2>2 DEF Redo, Walks
    <2> QED
      BY <2>1, <2>2
  <1>7. CASE DragStart
    <2>1. drag = Nothing /\ drag' = canvas /\ UNCHANGED stack
      BY <1>7 DEF DragStart, Clicking
    <2>2. UNCHANGED <<past, future, Current>>
      BY <1>1, <2>1 DEF Current, stack
    <2> QED
      BY <2>2 DEF Walks
  <1>8. ASSUME NEW n \in Nodes, DragMove(n) PROVE Walks
    <2>1. drag # Nothing /\ UNCHANGED <<drag, stack>>
      BY <1>8 DEF DragMove
    <2>2. UNCHANGED <<past, future, Current>>
      BY <2>1 DEF Current, stack
    <2> QED
      BY <2>2 DEF Walks
  <1>9. CASE DragStop
    <2>1. drag # Nothing /\ drag' = Nothing /\ canvas' = canvas
      BY <1>9 DEF DragStop
    <2>2. CASE HasMoved
      <3>1. past' = Pushed(past, Current) /\ future' = <<>>
        BY <1>9, <2>1, <2>2 DEF DragStop, Push, Pushed, Current
      <3> QED
        BY <3>1, TimelineCommit DEF Walks, History!Next
    <2>3. CASE ~HasMoved
      <3>1. CASE torn
        BY <3>1 DEF Walks
      <3>2. CASE ~torn
        <4>1. SameBut(canvas, drag)
          BY <2>1, <3>2 DEF DragOk
        <4>2. canvas = drag
          BY <1>1, <2>1, <2>3, <4>1, NotMoved DEF HasMoved, Opt
        <4>3. UNCHANGED <<past, future, Current>>
          BY <1>9, <2>1, <2>3, <4>2 DEF DragStop, Current, stack
        <4> QED
          BY <4>3 DEF Walks
      <3> QED
        BY <3>1, <3>2
    <2> QED
      BY <2>2, <2>3
  <1> QED
    BY <1>2, <1>3, <1>4, <1>5, <1>6, <1>7, <1>8, <1>9 DEF CanvasStep

LEMMA EveryStepWalks ==
  ASSUME Types, Types', DragOk, [Next]_vars
  PROVE  Walks
  <1>1. ASSUME UNCHANGED <<canvas, stack, drag>> PROVE Walks
    <2>1. UNCHANGED <<past, future, Current>>
      BY <1>1 DEF Current, stack
    <2> QED
      BY <2>1 DEF Walks
  <1>2. ASSUME past' = <<>>, future' = <<>> PROVE Walks
    BY <1>2, TimelineRestart DEF Walks, History!Next
  <1>3. CASE CanvasStep
    BY <1>3, CanvasWalks
  <1>4. CASE InspectorStep
    <2>1. CASE Blur
      BY <1>1, <2>1, CommitWalks DEF Blur
    <2>2. ASSUME NEW n \in Nodes, NEW t \in Texts, Focus(n, t) PROVE Walks
      BY <1>1, <2>2 DEF Focus
    <2>3. ASSUME NEW n \in Nodes, NEW t \in Texts, Choose(n, t) PROVE Walks
      BY <2>3, CommitWalks DEF Choose, Emit, Clicking
    <2> QED
      BY <1>4, <2>1, <2>2, <2>3 DEF InspectorStep
  <1>5. CASE AssistantStep
    <2>1. ASSUME NEW plan \in Plans, Accept(plan) PROVE Walks
      <3>1. drag = Nothing /\ drag' = drag
        BY <2>1 DEF Accept, Clicking
      <3>2. CASE UNCHANGED <<canvas, stack>>
        BY <1>1, <3>1, <3>2
      <3>3. CASE Commit(ApplyPlan(plan, canvas))
        BY <3>1, <3>3, CommitWalks
      <3> QED
        BY <2>1, <3>2, <3>3 DEF Accept
    <2>2. ASSUME NEW plan \in Plans, Propose(plan) \/ Reject(plan) PROVE Walks
      BY <1>1, <2>2 DEF Propose, Reject
    <2>3. CASE Ask \/ AnswerWithout
      BY <1>1, <2>3 DEF Ask, AnswerWithout
    <2> QED
      BY <1>5, <2>1, <2>2, <2>3 DEF AssistantStep, Decide
  <1>6. CASE SaveStep
    <2>1. UNCHANGED <<canvas, stack, drag>>
      BY <1>6 DEF SaveStep, TimerFires, ServeSave, LoseSave
    <2> QED
      BY <1>1, <2>1
  <1>7. CASE PageStep
    <2>1. CASE Deploy \/ Edit \/ CancelEdit \/ Delete
      BY <1>1, <2>1 DEF Deploy, Edit, CancelEdit, Delete
    <2>2. ASSUME NEW f \in flows, Serve(f) PROVE Walks
      BY <1>1, <2>2 DEF Serve
    <2>3. ASSUME NEW f \in flows, Navigate(f) PROVE Walks
      <3>1. UNCHANGED <<canvas, stack, drag>> \/ (past' = <<>> /\ future' = <<>>)
        BY <2>3 DEF Navigate, Mount
      <3> QED
        BY <1>1, <1>2, <3>1
    <2>4. ASSUME NEW f \in flows, FlowEnds(f) PROVE Walks
      <3>1. UNCHANGED <<canvas, stack, drag>> \/ (past' = <<>> /\ future' = <<>>)
        BY <2>4 DEF FlowEnds
      <3> QED
        BY <1>1, <1>2, <3>1
    <2>5. ASSUME NEW v \in DOMAIN known, Select(v) PROVE Walks
      <3>1. UNCHANGED <<canvas, stack, drag>> \/ (past' = <<>> /\ future' = <<>>)
        BY <2>5 DEF Select, Mount
      <3> QED
        BY <1>1, <1>2, <3>1
    <2> QED
      BY <1>7, <2>1, <2>2, <2>3, <2>4, <2>5 DEF PageStep
  <1>8. CASE UNCHANGED vars
    BY <1>1, <1>8 DEF vars, stack
  <1> QED
    BY <1>3, <1>4, <1>5, <1>6, <1>7, <1>8 DEF Next

LEMMA TimelineInit ==
  ASSUME Types, Init
  PROVE  History!Init
  <1>1. PICK d : d = Current
    OBVIOUS
  <1>2. past = <<>> /\ future = <<>> /\ d \in Definition
    BY <1>1, CurrentIs DEF Init
  <1>3. <<>> \in Seq(Definition) /\ Len(<<>>) = 0
    BY EmptySeq
  <1>4. Line(<<>>, d, <<>>) = Append(<<>>, d) /\ Line(<<>>, d, <<>>)[Len(<<>>) + 1] = d
    BY <1>2, <1>3, LineEnd
  <1>5. Line(<<>>, d, <<>>) = <<d>> /\ Line(<<>>, d, <<>>)[1] = d
    BY <1>3, <1>4
  <1>6. past \o <<Current>> \o Reverse(future) = Line(<<>>, d, <<>>)
    BY <1>1, <1>2 DEF Line
  <1>7. Len(past) + 1 = 1
    BY <1>2, <1>3
  <1> QED
    BY <1>5, <1>6, <1>7 DEF History!Init

\* Undo and redo walk a line of graphs: a change cuts off what was undone, the
\* line forgets its oldest graph only when it is full, and nothing else changes
\* it but a provider that starts anew (use-workflow-history.ts).
THEOREM HistoryWalksALine == Spec => HistoryIsTimeline
  <1>1. Init => Types /\ DragOk /\ History!Init
    BY InitTypes, InitQuiet, TimelineInit
  <1>2. Types /\ DragOk /\ [Next]_vars => Types' /\ DragOk'
    BY TypesStep, DragOkStep
  <1>3. Types /\ Types' /\ DragOk /\ [Next]_vars
          => [torn \/ torn' \/ History!Next]_<<past, future, Current>>
    BY EveryStepWalks DEF Walks
  <1> QED
    BY <1>1, <1>2, <1>3, PTL DEF Spec, HistoryIsTimeline

=============================================================================

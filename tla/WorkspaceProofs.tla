---------------------------- MODULE WorkspaceProofs ----------------------------
(***************************************************************************)
(* Proofs about the panel of an agent's workspace and the files behind it: *)
(* whatever the editor and the agent ask for, in whatever order the calls  *)
(* are served, every entry of the tree stands in a directory, a tab never  *)
(* spins without a load that will end it, and a save replaces what its tab *)
(* had read.  For any paths, calls and bounds.                             *)
(***************************************************************************)
EXTENDS WorkspaceEdit, Integers, SequenceTheorems, TLAPS

---------------------------------------------------------------------------
(* Paths. *)

LEMMA PrefixFacts ==
  ASSUME NEW p \in Seq(STRING), NEW n \in 0 .. Len(p)
  PROVE  /\ SubSeq(p, 1, n) \in Seq(STRING) /\ Len(SubSeq(p, 1, n)) = n
         /\ \A i \in 1 .. n : SubSeq(p, 1, n)[i] = p[i]
  <1>1. \A i \in 1 .. n : p[i] \in STRING
    OBVIOUS
  <1> QED
    BY <1>1, SubSeqProperties

LEMMA PrefixOfPrefix ==
  ASSUME NEW p \in Seq(STRING), NEW n \in 0 .. Len(p), NEW m \in 0 .. n
  PROVE  SubSeq(SubSeq(p, 1, n), 1, m) = SubSeq(p, 1, m)
  <1> DEFINE q == SubSeq(p, 1, n)
  <1>1. q \in Seq(STRING) /\ Len(q) = n /\ \A i \in 1 .. n : q[i] = p[i]
    BY PrefixFacts
  <1>2. m \in 0 .. Len(q) /\ m \in 0 .. Len(p)
    BY <1>1
  <1> HIDE DEF q
  <1>3. /\ SubSeq(q, 1, m) \in Seq(STRING) /\ Len(SubSeq(q, 1, m)) = m
        /\ \A i \in 1 .. m : SubSeq(q, 1, m)[i] = q[i]
    BY <1>1, <1>2, PrefixFacts
  <1>4. /\ SubSeq(p, 1, m) \in Seq(STRING) /\ Len(SubSeq(p, 1, m)) = m
        /\ \A i \in 1 .. m : SubSeq(p, 1, m)[i] = p[i]
    BY <1>2, PrefixFacts
  <1>5. SubSeq(q, 1, m) = SubSeq(p, 1, m)
    BY <1>1, <1>3, <1>4, SeqEqual
  <1> QED
    BY <1>5 DEF q

\* What is above a path is shorter, is a base or a path, and has above it
\* only what is above the path.
LEMMA AboveFacts ==
  ASSUME NEW p \in Paths, NEW q \in Above(p)
  PROVE  /\ q \in Seq(STRING) /\ Len(q) \in 1 .. Len(p) - 1
         /\ q = SubSeq(p, 1, Len(q)) /\ Below(p, q)
         /\ Above(q) \subseteq Above(p)
         /\ IsBase(q) \/ q \in Paths
  <1>1. p \in Seq(STRING) /\ Len(p) \in Nat
    BY PathsAssumption
  <1>2. PICK n \in 1 .. Len(p) - 1 : q = SubSeq(p, 1, n)
    BY DEF Above
  <1>3. n \in 0 .. Len(p)
    BY <1>1
  <1>4. q \in Seq(STRING) /\ Len(q) = n
    BY <1>1, <1>2, <1>3, PrefixFacts
  <1>5. Above(q) \subseteq Above(p)
    <2> SUFFICES ASSUME NEW m \in 1 .. Len(q) - 1 PROVE SubSeq(q, 1, m) \in Above(p)
      BY DEF Above
    <2>1. SubSeq(q, 1, m) = SubSeq(p, 1, m)
      BY <1>1, <1>2, <1>3, <1>4, PrefixOfPrefix
    <2> QED
      BY <1>1, <1>4, <2>1 DEF Above
  <1> QED
    BY <1>1, <1>2, <1>4, <1>5, PathsAssumption DEF Below

\* A path under another stays under it when names are added.
LEMMA BelowAbove ==
  ASSUME NEW p \in Paths, NEW q \in Above(p), NEW r \in Paths, q = r \/ Below(q, r)
  PROVE  Below(p, r)
  <1>1. q \in Seq(STRING) /\ Len(q) \in 1 .. Len(p) - 1 /\ q = SubSeq(p, 1, Len(q))
    BY AboveFacts
  <1>2. p \in Seq(STRING) /\ r \in Seq(STRING) /\ Len(p) \in Nat /\ Len(r) \in Nat
    BY PathsAssumption
  <1>3. CASE q = r
    BY <1>1, <1>2, <1>3 DEF Below
  <1>4. CASE Below(q, r)
    <2>1. Len(r) < Len(q) /\ SubSeq(q, 1, Len(r)) = r
      BY <1>4 DEF Below
    <2>2. SubSeq(SubSeq(p, 1, Len(q)), 1, Len(r)) = SubSeq(p, 1, Len(r))
      BY <1>1, <1>2, <2>1, PrefixOfPrefix
    <2> QED
      BY <1>1, <1>2, <2>1, <2>2 DEF Below
  <1> QED
    BY <1>3, <1>4

\* A path above one that is under r is above r, r, or under r.
LEMMA AboveBelow ==
  ASSUME NEW p \in Paths, NEW r \in Paths, Below(p, r), NEW q \in Above(p)
  PROVE  q \in Above(r) \/ q = r \/ Below(q, r)
  <1>1. q \in Seq(STRING) /\ Len(q) \in 1 .. Len(p) - 1 /\ q = SubSeq(p, 1, Len(q))
    BY AboveFacts
  <1>2. p \in Seq(STRING) /\ r \in Seq(STRING) /\ Len(p) \in Nat /\ Len(r) \in Nat
    BY PathsAssumption
  <1>3. Len(r) < Len(p) /\ SubSeq(p, 1, Len(r)) = r
    BY DEF Below
  <1>4. CASE Len(q) < Len(r)
    <2>1. SubSeq(SubSeq(p, 1, Len(r)), 1, Len(q)) = SubSeq(p, 1, Len(q))
      BY <1>1, <1>2, <1>3, <1>4, PrefixOfPrefix
    <2>2. q = SubSeq(r, 1, Len(q))
      BY <1>1, <1>3, <2>1
    <2>3. Len(q) \in 1 .. Len(r) - 1
      BY <1>1, <1>2, <1>4
    <2> QED
      BY <2>2, <2>3 DEF Above
  <1>5. CASE Len(q) >= Len(r)
    <2>1. SubSeq(SubSeq(p, 1, Len(q)), 1, Len(r)) = SubSeq(p, 1, Len(r))
      BY <1>1, <1>2, <1>5, PrefixOfPrefix
    <2>2. SubSeq(q, 1, Len(r)) = r
      BY <1>1, <1>3, <2>1
    <2> QED
      BY <1>1, <1>2, <1>3, <1>5, <2>2 DEF Below
  <1> QED
    BY <1>1, <1>2, <1>4, <1>5

---------------------------------------------------------------------------
(* Trees. *)

Tree(t) == t = [p \in Paths |-> t[p]] /\ WellFormed(t)

\* mkdirSync(recursive): the parents that were missing are there, and the
\* rest is as it was.
LEMMA ParentsTree ==
  ASSUME NEW t, Tree(t), NEW p \in Paths, ~Blocked(t, p)
  PROVE  /\ Tree(WithParents(t, p))
         /\ \A q \in Above(p) : Kind(WithParents(t, p), q) = "dir"
         /\ \A q \in Paths : t[q].kind # "none" => WithParents(t, p)[q] = t[q]
         /\ \A q \in Paths : q \notin Above(p) => WithParents(t, p)[q] = t[q]
  <1> DEFINE u == WithParents(t, p)
  <1>1. u = [q \in Paths |-> u[q]]
    BY DEF WithParents
  <1>2. \A q \in Above(p) : Kind(u, q) = "dir"
    <2> SUFFICES ASSUME NEW q \in Above(p), ~IsBase(q) PROVE u[q].kind = "dir"
      BY DEF Kind
    <2>1. q \in Paths
      BY AboveFacts
    <2> QED
      BY <2>1 DEF Blocked, Kind, WithParents, Dir
  <1>3. \A q \in Paths : /\ t[q].kind # "none" => u[q] = t[q]
                         /\ q \notin Above(p) => u[q] = t[q]
    BY DEF WithParents
  <1>4. WellFormed(u)
    <2> SUFFICES ASSUME NEW x \in Paths, u[x].kind # "none", NEW y \in Above(x), ~IsBase(y)
                 PROVE  u[y].kind = "dir"
      BY DEF WellFormed, Kind
    <2>1. y \in Paths
      BY AboveFacts
    <2>2. CASE t[x].kind = "none"
      <3>1. x \in Above(p)
        BY <1>3, <2>2
      <3> QED
        BY <1>2, <3>1, AboveFacts DEF Kind
    <2>3. CASE t[x].kind # "none"
      BY <1>3, <2>1, <2>3 DEF Tree, WellFormed, Kind
    <2> QED
      BY <2>2, <2>3
  <1> QED
    BY <1>1, <1>2, <1>3, <1>4 DEF Tree

\* An entry that is no directory, or nothing, may be replaced where its
\* directory is.
LEMMA PutTree ==
  ASSUME NEW t, Tree(t), NEW p \in Paths, NEW e, Kind(t, p) # "dir",
         \A q \in Above(p) : Kind(t, q) = "dir"
  PROVE  Tree([t EXCEPT ![p] = e])
  <1> DEFINE u == [t EXCEPT ![p] = e]
  <1>1. u = [q \in Paths |-> IF q = p THEN e ELSE t[q]]
    BY DEF Tree
  <1>2. WellFormed(u)
    <2> SUFFICES ASSUME NEW x \in Paths, u[x].kind # "none", NEW y \in Above(x), ~IsBase(y)
                 PROVE  u[y].kind = "dir"
      BY DEF WellFormed, Kind
    <2>1. y \in Paths
      BY AboveFacts
    <2>2. t[y].kind = "dir"
      BY <1>1, <2>1 DEF Tree, WellFormed, Kind
    <2>3. y # p
      BY <2>2, PathsAssumption DEF Kind
    <2> QED
      BY <1>1, <2>1, <2>2, <2>3
  <1> QED
    BY <1>1, <1>2 DEF Tree

LEMMA WriteTree ==
  ASSUME NEW t, Tree(t), NEW p \in Paths, NEW expected, NEW override,
         WriteCode(t, p, expected, override) = "ok", NEW content, NEW mtime
  PROVE  Tree(AfterWrite(t, p, content, mtime))
  <1>1. Kind(t, p) # "dir" /\ ~Blocked(t, p)
    BY DEF WriteCode
  <1>2. p \notin Above(p)
    <2>1. p \in Seq(STRING) /\ Len(p) \in Nat
      BY PathsAssumption
    <2> QED
      BY <2>1, AboveFacts
  <1>3. Kind(WithParents(t, p), p) # "dir"
    BY <1>1, <1>2, ParentsTree DEF Kind
  <1> QED
    BY <1>1, <1>3, ParentsTree, PutTree DEF AfterWrite

\* Whatever stands in a directory has directories above it.
LEMMA ParentAbove ==
  ASSUME NEW t, Tree(t), NEW p \in Paths, Kind(t, Parent(p)) = "dir"
  PROVE  \A q \in Above(p) : Kind(t, q) = "dir"
  <1> SUFFICES ASSUME NEW q \in Above(p), ~IsBase(q) PROVE t[q].kind = "dir"
    BY DEF Kind
  <1>1. p \in Seq(STRING) /\ Len(p) \in Nat /\ q \in Paths
    BY PathsAssumption, AboveFacts
  <1>2. PICK n \in 1 .. Len(p) - 1 : q = SubSeq(p, 1, n)
    BY DEF Above
  <1>3. CASE n = Len(p) - 1
    BY <1>2, <1>3 DEF Parent, Kind
  <1>4. CASE n < Len(p) - 1
    <2>0. Len(p) - 1 \in 1 .. Len(p) - 1
      BY <1>1, <1>4
    <2>1. Parent(p) \in Above(p)
      BY <2>0 DEF Parent, Above
    <2>2. Len(Parent(p)) = Len(p) - 1
      BY <1>1, <1>4, PrefixFacts DEF Parent
    <2>3. SubSeq(Parent(p), 1, n) = q
      BY <1>1, <1>2, <1>4, PrefixOfPrefix DEF Parent
    <2>4. q \in Above(Parent(p))
      BY <1>1, <1>4, <2>2, <2>3 DEF Above
    <2>5. CASE IsBase(Parent(p))
      BY <1>1, <1>2, <1>4, <2>2, <2>5 DEF IsBase
    <2>6. CASE ~IsBase(Parent(p))
      BY <2>1, <2>4, <2>6, AboveFacts DEF Tree, WellFormed, Kind
    <2> QED
      BY <2>5, <2>6
  <1> QED
    BY <1>1, <1>2, <1>3, <1>4

LEMMA DeleteTree ==
  ASSUME NEW t, Tree(t), NEW p \in Paths
  PROVE  Tree(AfterDelete(t, p))
  <1> DEFINE u == AfterDelete(t, p)
  <1>1. u = [q \in Paths |-> IF q = p \/ Below(q, p) THEN NoEntry ELSE t[q]]
    BY DEF AfterDelete
  <1>2. WellFormed(u)
    <2> SUFFICES ASSUME NEW x \in Paths, u[x].kind # "none", NEW y \in Above(x), ~IsBase(y)
                 PROVE  u[y].kind = "dir"
      BY DEF WellFormed, Kind
    <2>1. y \in Paths /\ ~(x = p \/ Below(x, p))
      BY <1>1, AboveFacts DEF NoEntry
    <2>2. ~(y = p \/ Below(y, p))
      BY <2>1, BelowAbove
    <2> QED
      BY <1>1, <2>1, <2>2 DEF Tree, WellFormed, Kind
  <1> QED
    BY <1>1, <1>2 DEF Tree

\* A path that goes on is still no base.
LEMMA LongerNoBase ==
  ASSUME NEW p \in Paths, NEW rest \in Seq(STRING)
  PROVE  ~IsBase(p \o rest)
  <1> DEFINE q == p \o rest
  <1>1. p \in Seq(STRING) /\ ~IsBase(p)
    BY PathsAssumption
  <1>2. Len(p) \in Nat /\ Len(p) # 0 /\ Len(rest) \in Nat
    BY <1>1 DEF IsBase
  <1>3. /\ q \in Seq(STRING) /\ Len(q) = Len(p) + Len(rest)
        /\ \A i \in 1 .. Len(p) + Len(rest) : q[i] = IF i <= Len(p) THEN p[i] ELSE rest[i - Len(p)]
    BY <1>1, ConcatProperties
  <1> HIDE DEF q
  <1>4. q[1] = p[1] /\ Len(q) # 0
    BY <1>2, <1>3
  <1>5. Len(q) = 1 => Len(p) = 1
    BY <1>2, <1>3
  <1>6. ~IsBase(q)
    BY <1>1, <1>3, <1>4, <1>5 DEF IsBase
  <1> QED
    BY <1>6 DEF q

\* moveEntry: `z` is where an entry that is now under `to` came from.
LEMMA Origin ==
  ASSUME NEW from \in Paths, NEW to \in Paths, NEW x \in Paths, x = to \/ Below(x, to),
         from \o Tail_(x, to) \in Paths, NEW y \in Above(x), y = to \/ Below(y, to)
  PROVE  from \o Tail_(y, to) \in Above(from \o Tail_(x, to))
  <1> DEFINE f == Len(from)
             l == Len(to)
             z == from \o Tail_(x, to)
             w == from \o Tail_(y, to)
  <1>1. /\ from \in Seq(STRING) /\ to \in Seq(STRING) /\ x \in Seq(STRING)
        /\ f \in Nat /\ l \in Nat /\ Len(x) \in Nat /\ f > 0
    BY PathsAssumption DEF IsBase
  <1>2. y \in Seq(STRING) /\ Len(y) \in 1 .. Len(x) - 1 /\ y = SubSeq(x, 1, Len(y))
    BY AboveFacts
  <1>3. Len(y) >= l
    BY <1>1, <1>2 DEF Below
  <1>4. \A i \in 1 .. Len(y) : y[i] = x[i]
    BY <1>1, <1>2, PrefixFacts
  <1>5. /\ Tail_(x, to) \in Seq(STRING) /\ Len(Tail_(x, to)) = Len(x) - l
        /\ \A i \in 1 .. Len(x) - l : Tail_(x, to)[i] = x[l + i]
    <2>1. \A i \in l + 1 .. Len(x) : x[i] \in STRING
      BY <1>1
    <2> QED
      BY <1>1, <1>2, <1>3, <2>1, SubSeqProperties DEF Tail_
  <1>6. /\ Tail_(y, to) \in Seq(STRING) /\ Len(Tail_(y, to)) = Len(y) - l
        /\ \A i \in 1 .. Len(y) - l : Tail_(y, to)[i] = y[l + i]
    <2>1. \A i \in l + 1 .. Len(y) : y[i] \in STRING
      BY <1>1, <1>2
    <2> QED
      BY <1>1, <1>2, <1>3, <2>1, SubSeqProperties DEF Tail_
  <1>7. /\ z \in Seq(STRING) /\ Len(z) = f + Len(x) - l
        /\ \A i \in 1 .. Len(z) : z[i] = IF i <= f THEN from[i] ELSE Tail_(x, to)[i - f]
    <2>1. /\ z \in Seq(STRING) /\ Len(z) = f + Len(Tail_(x, to))
          /\ \A i \in 1 .. f + Len(Tail_(x, to)) :
               z[i] = IF i <= f THEN from[i] ELSE Tail_(x, to)[i - f]
      BY <1>1, <1>5, ConcatProperties
    <2> QED
      BY <1>1, <1>2, <1>5, <2>1
  <1>8. /\ w \in Seq(STRING) /\ Len(w) = f + Len(y) - l
        /\ \A i \in 1 .. Len(w) : w[i] = IF i <= f THEN from[i] ELSE Tail_(y, to)[i - f]
    <2>1. /\ w \in Seq(STRING) /\ Len(w) = f + Len(Tail_(y, to))
          /\ \A i \in 1 .. f + Len(Tail_(y, to)) :
               w[i] = IF i <= f THEN from[i] ELSE Tail_(y, to)[i - f]
      BY <1>1, <1>6, ConcatProperties
    <2> QED
      BY <1>1, <1>2, <1>6, <2>1
  <1> HIDE DEF z, w, f, l
  <1>9. Len(w) \in 1 .. Len(z) - 1 /\ Len(z) \in Nat /\ Len(w) \in 0 .. Len(z)
    BY <1>1, <1>2, <1>3, <1>7, <1>8
  <1>10. /\ SubSeq(z, 1, Len(w)) \in Seq(STRING) /\ Len(SubSeq(z, 1, Len(w))) = Len(w)
         /\ \A i \in 1 .. Len(w) : SubSeq(z, 1, Len(w))[i] = z[i]
    BY <1>7, <1>9, PrefixFacts
  <1>11. \A i \in 1 .. Len(w) : w[i] = z[i]
    <2> TAKE i \in 1 .. Len(w)
    <2>1. CASE i <= f
      BY <1>7, <1>8, <1>9, <2>1
    <2>2. CASE i > f
      <3>1. i - f \in 1 .. Len(y) - l /\ i - f \in 1 .. Len(x) - l
        BY <1>1, <1>2, <1>3, <1>8, <2>2
      <3>2. l + (i - f) \in 1 .. Len(y)
        BY <1>1, <1>2, <1>3, <3>1
      <3>3. Tail_(y, to)[i - f] = Tail_(x, to)[i - f]
        BY <1>4, <1>5, <1>6, <3>1, <3>2
      <3>4. i \in 1 .. Len(z) /\ ~(i <= f)
        BY <1>1, <1>8, <1>9, <2>2
      <3>5. w[i] = Tail_(y, to)[i - f] /\ z[i] = Tail_(x, to)[i - f]
        BY <1>7, <1>8, <3>4
      <3> QED
        BY <3>3, <3>5
    <2> QED
      BY <1>1, <1>8, <1>9, <2>1, <2>2
  <1>12. w = SubSeq(z, 1, Len(w))
    BY <1>8, <1>10, <1>11, SeqEqual
  <1>13. w \in Above(z)
    BY <1>9, <1>12 DEF Above
  <1> QED
    BY <1>13 DEF w, z

LEMMA MoveTree ==
  ASSUME NEW t, Tree(t), NEW from \in Paths, NEW to \in Paths, MoveCode(t, from, to) = "ok"
  PROVE  Tree(AfterMove(t, from, to))
  <1> DEFINE made == WithParents(t, to)
             u == AfterMove(t, from, to)
             Under(q, p) == q = p \/ Below(q, p)
             back(q) == from \o Tail_(q, to)
  <1>1. /\ ~Blocked(t, to) /\ ~Below(to, from) /\ from # to
        /\ ~IsBase(from) /\ ~IsBase(to)
    BY DEF MoveCode, Occupied
  <1>2. Tree(made) /\ \A q \in Above(to) : Kind(made, q) = "dir"
    BY <1>1, ParentsTree
  <1>3. u = [q \in Paths |-> IF Under(q, to)
                            THEN IF back(q) \in Paths THEN made[back(q)] ELSE NoEntry
                            ELSE IF Under(q, from) THEN NoEntry ELSE made[q]]
    BY DEF AfterMove
  <1> HIDE DEF made, u
  <1>4. WellFormed(u)
    <2> SUFFICES ASSUME NEW x \in Paths, u[x].kind # "none", NEW y \in Above(x), ~IsBase(y)
                 PROVE  u[y].kind = "dir"
      BY DEF WellFormed, Kind
    <2>1. y \in Paths
      BY AboveFacts
    <2>2. CASE Under(x, to)
      <3>1. back(x) \in Paths /\ made[back(x)].kind # "none"
        BY <1>3, <2>2 DEF NoEntry
      <3>2. CASE Under(y, to)
        <4>1. back(y) \in Above(back(x))
          BY <2>2, <3>1, <3>2, Origin
        <4>2. ~IsBase(back(y))
          <5>1. y \in Seq(STRING) /\ to \in Seq(STRING)
            BY <2>1, PathsAssumption
          <5>2. Len(y) \in Nat /\ Len(to) \in Nat /\ \A i \in Len(to) + 1 .. Len(y) : y[i] \in STRING
            BY <5>1
          <5>3. Tail_(y, to) \in Seq(STRING)
            BY <5>2, SubSeqProperties DEF Tail_
          <5> QED
            BY <5>3, LongerNoBase
        <4>3. back(y) \in Paths
          BY <3>1, <4>1, <4>2, AboveFacts
        <4>4. made[back(y)].kind = "dir"
          BY <1>2, <3>1, <4>1, <4>2 DEF Tree, WellFormed, Kind
        <4> QED
          BY <1>3, <2>1, <3>2, <4>3, <4>4
      <3>3. CASE ~Under(y, to)
        <4>1. y \in Above(to)
          BY <2>2, <3>3, AboveBelow
        <4>2. ~Under(y, from)
          BY <1>1, <4>1, BelowAbove
        <4> QED
          BY <1>2, <1>3, <2>1, <3>3, <4>1, <4>2 DEF Kind
      <3> QED
        BY <3>2, <3>3
    <2>3. CASE ~Under(x, to)
      <3>1. ~Under(x, from) /\ made[x].kind # "none"
        BY <1>3, <2>3 DEF NoEntry
      <3>2. ~Under(y, to) /\ ~Under(y, from)
        BY <2>1, <2>3, <3>1, BelowAbove
      <3> QED
        BY <1>2, <1>3, <2>1, <3>1, <3>2 DEF Tree, WellFormed, Kind
    <2> QED
      BY <2>2, <2>3
  <1> QED
    BY <1>3, <1>4 DEF Tree, u

---------------------------------------------------------------------------
(* The calls under way, and those a dialog may send again, name paths.     *)

Addressed(c) ==
  /\ {"op", "path"} \subseteq DOMAIN c /\ c.path \in Paths
  /\ c.op = "move" => "to" \in DOMAIN c /\ c.to \in Paths
  /\ c.op = "load" => "gen" \in DOMAIN c

AllAddressed(cs) ==
  /\ cs = [i \in Slots |-> cs[i]]
  /\ \A i \in Slots : cs[i] = NoCall \/ Addressed(cs[i])

DialogNames ==
  dialog # Nothing =>
    /\ dialog.kind \in {"conflict", "upload"} => Addressed(dialog.call)
    /\ dialog.kind \in {"close", "delete"} => dialog.path \in Paths

IInv == /\ Tree(fs)
        /\ AllAddressed(calls)
        /\ DialogNames

LEMMA InitInv == Init => IInv
  BY StartAssumption DEF Init, IInv, Tree, AllAddressed, DialogNames, NoCall

LEMMA ExceptAddressed ==
  ASSUME NEW c, Addressed(c), NEW v
  PROVE  /\ Addressed([c EXCEPT !.reply = v]) /\ Addressed([c EXCEPT !.old = v])
         /\ Addressed([c EXCEPT !.overwrite = v])
  BY DEF Addressed

LEMMA WithAddressed ==
  ASSUME NEW cs, AllAddressed(cs), NEW c, Addressed(c)
  PROVE  AllAddressed(With(cs, c))
  <1>1. With(cs, c) = [i \in Slots |-> IF i = FirstIdle THEN c ELSE cs[i]]
    BY DEF With, AllAddressed
  <1> QED
    BY <1>1 DEF AllAddressed

LEMMA OutdatedAddressed ==
  ASSUME NEW p, AllAddressed(calls)
  PROVE  AllAddressed(Outdated(p))
  BY ExceptAddressed DEF AllAddressed, Outdated, NoCall

LEMMA LoadAddressed ==
  ASSUME NEW p \in Paths, NEW gen
  PROVE  Addressed(LoadCall(p, gen))
  BY DEF Addressed, LoadCall

LEMMA SaveAddressed ==
  ASSUME NEW p \in Paths, NEW content, NEW override
  PROVE  Addressed(SaveCall(p, content, override))
  BY DEF Addressed, SaveCall

\* The user's steps leave the tree alone; what they send names paths.
LEMMA UserInv == IInv /\ UserStep => IInv'
  <1> SUFFICES ASSUME IInv, UserStep PROVE IInv'
    OBVIOUS
  <1>1. AllAddressed(calls) /\ DialogNames /\ Tree(fs)
    BY DEF IInv
  <1>2. Files \subseteq Paths /\ \A r \in Renames : r[1] \in Paths /\ r[2] \in Paths
    BY NamesAssumption
  <1>3. ASSUME NEW p \in Files, NEW pin \in BOOLEAN, Open(p, pin) PROVE IInv'
    <2>1. fs' = fs /\ dialog' = dialog
      BY <1>3 DEF Open
    <2>2. calls' = calls \/ \E g : calls' = With(Outdated(p), LoadCall(p, g))
      BY <1>3 DEF Open, LoadFile, wire
    <2>3. AllAddressed(calls')
      BY <1>1, <1>2, <2>2, WithAddressed, OutdatedAddressed, LoadAddressed
    <2> QED
      BY <1>1, <2>1, <2>3 DEF IInv, DialogNames
  <1>4. ASSUME NEW p \in Files, Pin(p) \/ Type(p) \/ Undo(p) PROVE IInv'
    BY <1>1, <1>4 DEF Pin, Type, Undo, wire, IInv, DialogNames
  <1>5. ASSUME NEW p \in Files, Save(p) PROVE IInv'
    <2>1. AllAddressed(calls')
      BY <1>1, <1>2, <1>5, WithAddressed, SaveAddressed DEF Save, Send
    <2> QED
      BY <1>1, <1>5, <2>1 DEF Save, IInv, DialogNames
  <1>6. ASSUME NEW p \in Files, Refresh(p) PROVE IInv'
    <2>1. Addressed([op |-> "list", path |-> p, reply |-> Nothing])
      BY <1>2 DEF Addressed
    <2> QED
      BY <1>1, <1>6, <2>1, WithAddressed DEF Refresh, Send, IInv, DialogNames
  <1>7. ASSUME NEW p \in Files, RequestClose(p) PROVE IInv'
    BY <1>1, <1>2, <1>7 DEF RequestClose, wire, IInv, DialogNames
  <1>8. ASSUME NEW p \in Files, NEW upload \in BOOLEAN, CreateFile(p, upload) PROVE IInv'
    <2>1. Addressed([op |-> "create", path |-> p, content |-> texts + 1, upload |-> upload,
                     overwrite |-> FALSE, reply |-> Nothing])
      BY <1>2 DEF Addressed
    <2> QED
      BY <1>1, <1>8, <2>1, WithAddressed DEF CreateFile, Send, IInv, DialogNames
  <1>9. ASSUME NEW p \in Paths, CreateDir(p) PROVE IInv'
    <2>1. Addressed([op |-> "mkdir", path |-> p, reply |-> Nothing])
      BY DEF Addressed
    <2> QED
      BY <1>1, <1>9, <2>1, WithAddressed DEF CreateDir, Send, IInv, DialogNames
  <1>10. ASSUME NEW p \in Paths, AskDelete(p) PROVE IInv'
    BY <1>1, <1>10 DEF AskDelete, wire, IInv, DialogNames
  <1>11. ASSUME NEW r \in Renames, Rename(r[1], r[2]) PROVE IInv'
    <2>1. Addressed([op |-> "move", path |-> r[1], to |-> r[2], reply |-> Nothing])
      BY <1>2 DEF Addressed
    <2> QED
      BY <1>1, <1>11, <2>1, WithAddressed DEF Rename, Send, IInv, DialogNames
  <1>12. ASSUME ConfirmSave PROVE IInv'
    <2>1. AllAddressed(calls')
      BY <1>1, <1>12, WithAddressed, SaveAddressed DEF ConfirmSave, Send, wire, DialogNames
    <2> QED
      BY <1>1, <1>12, <2>1 DEF ConfirmSave, IInv, DialogNames
  <1>13. ASSUME Discard \/ Cancel PROVE IInv'
    BY <1>1, <1>13 DEF Discard, Cancel, wire, IInv, DialogNames
  <1>14. ASSUME Overwrite \/ ConfirmUpload PROVE IInv'
    <2>1. Addressed([dialog.call EXCEPT !.overwrite = TRUE])
      BY <1>1, <1>14, ExceptAddressed DEF Overwrite, ConfirmUpload, DialogNames
    <2> QED
      BY <1>1, <1>14, <2>1, WithAddressed DEF Overwrite, ConfirmUpload, Send, IInv, DialogNames
  <1>15. ASSUME Reload PROVE IInv'
    <2>1. dialog.call.path \in Paths
      BY <1>1, <1>15 DEF Reload, DialogNames, Addressed
    <2>2. \E g : calls' = With(Outdated(dialog.call.path), LoadCall(dialog.call.path, g))
      BY <1>15 DEF Reload, LoadFile
    <2>3. AllAddressed(calls')
      BY <1>1, <2>1, <2>2, WithAddressed, OutdatedAddressed, LoadAddressed
    <2> QED
      BY <1>1, <1>15, <2>3 DEF Reload, IInv, DialogNames
  <1>16. ASSUME ConfirmDelete PROVE IInv'
    <2>1. Addressed([op |-> "delete", path |-> dialog.path, open |-> dialog.open,
                     recursive |-> dialog.recursive, reply |-> Nothing])
      BY <1>1, <1>16 DEF ConfirmDelete, DialogNames, Addressed
    <2> QED
      BY <1>1, <1>16, <2>1, WithAddressed DEF ConfirmDelete, Send, IInv, DialogNames
  <1> QED
    BY <1>3, <1>4, <1>5, <1>6, <1>7, <1>8, <1>9, <1>10, <1>11, <1>12, <1>13, <1>14, <1>15, <1>16
       DEF UserStep

LEMMA ReplyAddressed ==
  ASSUME AllAddressed(calls), NEW i \in Slots, NEW v, calls[i].op # "none"
  PROVE  AllAddressed([calls EXCEPT ![i].reply = v])
  <1>0. Addressed(calls[i])
    BY DEF AllAddressed, NoCall
  <1>1. Addressed([calls[i] EXCEPT !.reply = v])
    BY <1>0, ExceptAddressed
  <1>2. [calls EXCEPT ![i].reply = v] = [j \in Slots |-> IF j = i THEN [calls[i] EXCEPT !.reply = v] ELSE calls[j]]
    BY DEF AllAddressed
  <1> QED
    BY <1>1, <1>2 DEF AllAddressed

LEMMA DropAddressed ==
  ASSUME AllAddressed(calls), NEW i \in Slots, NEW c, c = NoCall \/ Addressed(c)
  PROVE  AllAddressed([calls EXCEPT ![i] = c])
  <1>1. [calls EXCEPT ![i] = c] = [j \in Slots |-> IF j = i THEN c ELSE calls[j]]
    BY DEF AllAddressed
  <1> QED
    BY <1>1 DEF AllAddressed

\* A handler leaves a tree, and the call it served as it was but for the reply.
LEMMA ServedInv ==
  ASSUME IInv, NEW i \in Slots, Served(i) \/ Lose(i)
  PROVE  IInv'
  <1>1. AllAddressed(calls) /\ DialogNames /\ Tree(fs)
    BY DEF IInv
  <1>2. calls[i].op # "none" /\ dialog' = dialog
    BY DEF Served, Lose, ServeLoad, ServeWrite, ServeMakeDir, ServeMove, ServeDelete, Waiting, Serve
  <1>3. Addressed(calls[i])
    BY <1>1, <1>2 DEF AllAddressed, NoCall
  <1>4. AllAddressed(calls')
    <2>1. calls' = [calls EXCEPT ![i] = NoCall] \/ \E v : calls' = [calls EXCEPT ![i].reply = v]
      BY DEF Served, Lose, ServeLoad, ServeWrite, ServeMakeDir, ServeMove, ServeDelete, Serve, Drop
    <2> QED
      BY <1>1, <1>2, <2>1, ReplyAddressed, DropAddressed
  <1>5. Tree(fs')
    <2>1. CASE ServeLoad(i) \/ Lose(i)
      BY <1>1, <2>1 DEF ServeLoad, Lose, files
    <2>2. CASE ServeWrite(i)
      <3>1. fs' = fs \/ \E t : /\ WriteCode(fs, calls[i].path, Expected(calls[i]), calls[i].overwrite) = "ok"
                               /\ fs' = AfterWrite(fs, calls[i].path, calls[i].content, t)
        BY <2>2 DEF ServeWrite, files
      <3> QED
        BY <1>1, <1>3, <3>1, WriteTree DEF Addressed
    <2>3. CASE ServeMakeDir(i)
      <3> DEFINE p == calls[i].path
      <3>1. fs' = fs \/ (MakeDirCode(fs, p) = "ok" /\ fs' = AfterMakeDir(fs, p))
        BY <2>3 DEF ServeMakeDir
      <3>2. MakeDirCode(fs, p) = "ok" => Kind(fs, p) # "dir" /\ Kind(fs, Parent(p)) = "dir"
        BY DEF MakeDirCode
      <3>3. p \in Paths
        BY <1>3 DEF Addressed
      <3> HIDE DEF p
      <3>4. MakeDirCode(fs, p) = "ok" => Tree(AfterMakeDir(fs, p))
        BY <1>1, <3>2, <3>3, ParentAbove, PutTree DEF AfterMakeDir
      <3> QED
        BY <1>1, <3>1, <3>4
    <2>4. CASE ServeMove(i)
      <3>1. fs' = fs \/ (MoveCode(fs, calls[i].path, calls[i].to) = "ok"
                          /\ fs' = AfterMove(fs, calls[i].path, calls[i].to))
        BY <2>4 DEF ServeMove
      <3>2. calls[i].path \in Paths /\ calls[i].to \in Paths
        BY <1>3, <2>4 DEF ServeMove, Waiting, Addressed
      <3> QED
        BY <1>1, <3>1, <3>2, MoveTree
    <2>5. CASE ServeDelete(i)
      <3>1. fs' = fs \/ fs' = AfterDelete(fs, calls[i].path)
        BY <2>5 DEF ServeDelete
      <3> QED
        BY <1>1, <1>3, <3>1, DeleteTree DEF Addressed
    <2> QED
      BY <2>1, <2>2, <2>3, <2>4, <2>5 DEF Served
  <1> QED
    BY <1>1, <1>2, <1>4, <1>5 DEF IInv, DialogNames

LEMMA ContinueInv ==
  ASSUME IInv, NEW i \in Slots, Continue(i)
  PROVE  IInv'
  <1>1. AllAddressed(calls) /\ DialogNames /\ Tree(fs)
    BY DEF IInv
  <1>2. calls[i].op # "none" /\ fs' = fs
    BY DEF Continue, AnswerLoad, AnswerList, AnswerSave, AnswerCreate, AnswerMakeDir, AnswerMove,
           AnswerDelete, Answered, Waiting
  <1>3. Addressed(calls[i])
    BY <1>1, <1>2 DEF AllAddressed, NoCall
  <1>4. CASE AnswerList(i)
    <2> DEFINE p == calls[i].path
               c == LoadCall(p, gens[p] + 1)
               old == Outdated(p)
    <2>1. calls' = [old EXCEPT ![i] = c] /\ dialog' = dialog
      BY <1>4 DEF AnswerList
    <2>2. Addressed(c) /\ AllAddressed(old)
      BY <1>1, <1>3, LoadAddressed, OutdatedAddressed DEF Addressed
    <2> HIDE DEF c, old
    <2>3. [old EXCEPT ![i] = c] = [j \in Slots |-> IF j = i THEN c ELSE old[j]]
      BY <2>2 DEF AllAddressed
    <2>4. AllAddressed(calls')
      BY <2>1, <2>2, <2>3 DEF AllAddressed
    <2> QED
      BY <1>1, <1>2, <2>1, <2>4 DEF IInv, DialogNames
  <1>5. CASE ~AnswerList(i)
    <2>1. calls' = [calls EXCEPT ![i] = NoCall]
      BY <1>5 DEF Continue, AnswerLoad, AnswerSave, AnswerCreate, AnswerMakeDir, AnswerMove,
                  AnswerDelete, Drop
    <2>2. AllAddressed(calls')
      BY <1>1, <2>1, DropAddressed
    <2>3. Addressed([calls[i] EXCEPT !.reply = Nothing])
      BY <1>3, ExceptAddressed
    <2>4. \/ dialog' = dialog
          \/ /\ dialog'.kind \in {"conflict", "upload"}
             /\ dialog'.call = [calls[i] EXCEPT !.reply = Nothing]
      BY <1>5 DEF Continue, AnswerLoad, AnswerSave, AnswerCreate, AnswerMakeDir, AnswerMove, AnswerDelete
    <2> QED
      BY <1>1, <1>2, <2>2, <2>3, <2>4 DEF IInv, DialogNames
  <1> QED
    BY <1>4, <1>5

\* The agent's tools write where a directory is, and remove whole subtrees.
LEMMA AgentInv ==
  ASSUME IInv, NEW p \in Paths, AgentWrites(p) \/ AgentRemoves(p)
  PROVE  IInv'
  <1>1. AllAddressed(calls) /\ DialogNames /\ Tree(fs)
    BY DEF IInv
  <1>2. calls' = calls /\ dialog' = dialog
    BY DEF AgentWrites, AgentRemoves, wire
  <1>3. CASE AgentWrites(p)
    <2>1. Kind(fs, p) # "dir" /\ Kind(fs, Parent(p)) = "dir"
      BY <1>3 DEF AgentWrites
    <2>2. PICK e : fs' = [fs EXCEPT ![p] = e]
      BY <1>3 DEF AgentWrites
    <2>3. \A q \in Above(p) : Kind(fs, q) = "dir"
      BY <1>1, <2>1, ParentAbove
    <2>4. Tree([fs EXCEPT ![p] = e])
      BY <1>1, <2>1, <2>3, PutTree
    <2>5. Tree(fs')
      BY <2>2, <2>4
    <2> QED
      BY <1>1, <1>2, <2>5 DEF IInv, DialogNames
  <1>4. CASE AgentRemoves(p)
    BY <1>1, <1>2, <1>4, DeleteTree DEF AgentRemoves, IInv, DialogNames
  <1> QED
    BY <1>3, <1>4

LEMMA NextInv == IInv /\ [Next]_vars => IInv'
  <1> SUFFICES ASSUME IInv, [Next]_vars PROVE IInv'
    OBVIOUS
  <1>1. CASE UNCHANGED vars
    BY <1>1 DEF IInv, DialogNames, vars
  <1>2. CASE Next
    BY <1>2, UserInv, ServedInv, ContinueInv, AgentInv, NamesAssumption DEF Next
  <1> QED
    BY <1>1, <1>2

(* The tree is a function on the paths, and every call under way, or kept  *)
(* by a dialog to be sent again, names paths of it.                        *)
THEOREM CallsNamePaths == Spec => []IInv
  BY InitInv, NextInv, PTL DEF Spec

(* workspace.ts: writes with their parents, renames that carry subtrees    *)
(* along, deletes and the agent's own writes keep every entry in a         *)
(* directory, however the calls of the editor interleave.                  *)
THEOREM TreeStaysTree == Spec => []TreeWellFormed
  <1>1. IInv => TreeWellFormed
    BY DEF IInv, Tree, TreeWellFormed
  <1> QED
    BY <1>1, CallsNamePaths, PTL

---------------------------------------------------------------------------
(* The tabs: a spinner has a load that will end it, whatever is opened,     *)
(* closed, reloaded, renamed and deleted while loads are under way.        *)

\* The tabs and their generations are functions on the paths.
Kept == /\ tabs = [p \in Paths |-> tabs[p]]
        /\ gens = [p \in Paths |-> gens[p]]
        /\ \A p \in Paths : tabs[p] = Nothing \/ "loading" \in DOMAIN tabs[p]

Awaits(p, i) == calls[i].op = "load" /\ calls[i].path = p /\ Current(calls[i])
Awaited(p) == \E i \in Slots : Awaits(p, i)
Spinning(p) == IsLoading(p) /\ p \notin strays

TInv == Kept /\ LoadingIsAwaited

\* The load of `p` in slot i is under way after the step as before it.
Stays(p, i) == calls[i].op = "load" /\ calls[i].path = p =>
  calls'[i].op = "load" /\ calls'[i].path = p /\ calls'[i].gen = calls[i].gen
AllStay(p) == \A i \in Slots : Stays(p, i)

LEMMA StayAwaited ==
  ASSUME NEW p, Awaited(p), AllStay(p), gens'[p] = gens[p]
  PROVE  Awaited(p)'
  <1>1. PICK i \in Slots : Awaits(p, i)
    BY DEF Awaited
  <1>2. calls'[i].op = "load" /\ calls'[i].path = p /\ calls'[i].gen = calls[i].gen
    BY <1>1 DEF AllStay, Stays, Awaits
  <1>3. gens'[calls'[i].path] = calls'[i].gen
    BY <1>1, <1>2 DEF Awaits, Current
  <1> QED
    BY <1>2, <1>3 DEF Awaited, Awaits, Current

\* What a step does to one path: its tab does not spin afterwards, or it is
\* as it was and its loads stay, or a load of its generation has just been sent.
Safe(p) == \/ ~Spinning(p)'
           \/ Spinning(p) /\ AllStay(p) /\ gens'[p] = gens[p]
           \/ Awaited(p)'

LEMMA SafeAwaited ==
  ASSUME LoadingIsAwaited, \A p \in Paths : Safe(p)
  PROVE  LoadingIsAwaited'
  <1> SUFFICES ASSUME NEW p \in Paths, Spinning(p)' PROVE Awaited(p)'
    BY DEF LoadingIsAwaited, Spinning, Awaited, Awaits
  <1>1. CASE Spinning(p) /\ AllStay(p) /\ gens'[p] = gens[p]
    <2>1. Awaited(p)
      BY <1>1 DEF LoadingIsAwaited, Spinning, Awaited, Awaits
    <2> QED
      BY <1>1, <2>1, StayAwaited
  <1> QED
    BY <1>1 DEF Safe

---------------------------------------------------------------------------
(* What the client and the server do to the calls.                         *)

LEMMA SendStays ==
  ASSUME AllAddressed(calls), NEW c, Idle # {}, calls' = With(calls, c)
  PROVE  \A p : AllStay(p)
  <1>1. FirstIdle \in Idle
    BY DEF FirstIdle
  <1>2. With(calls, c) = [i \in Slots |-> IF i = FirstIdle THEN c ELSE calls[i]]
    BY DEF With, AllAddressed
  <1> QED
    BY <1>1, <1>2 DEF AllStay, Stays, Idle

LEMMA DropStays ==
  ASSUME AllAddressed(calls), NEW i \in Slots, calls' = [calls EXCEPT ![i] = NoCall], NEW p,
         calls[i].op # "load" \/ calls[i].path # p
  PROVE  AllStay(p)
  <1>1. calls' = [j \in Slots |-> IF j = i THEN NoCall ELSE calls[j]]
    BY DEF AllAddressed
  <1> QED
    BY <1>1 DEF AllStay, Stays

LEMMA ReplyStays ==
  ASSUME AllAddressed(calls), NEW i \in Slots, NEW v, calls' = [calls EXCEPT ![i].reply = v]
  PROVE  \A p : AllStay(p)
  <1>1. calls' = [j \in Slots |-> IF j = i THEN [calls[i] EXCEPT !.reply = v] ELSE calls[j]]
    BY DEF AllAddressed
  <1> SUFFICES ASSUME NEW p, calls[i].op = "load" PROVE Stays(p, i)
    BY <1>1 DEF AllStay, Stays
  <1>2. {"op", "path", "gen"} \subseteq DOMAIN calls[i]
    BY DEF AllAddressed, Addressed, NoCall
  <1> QED
    BY <1>1, <1>2 DEF Stays

\* Sending a load of `p` in an idle slot, or in that of the listing it follows.
LEMMA LoadStays ==
  ASSUME AllAddressed(calls), NEW p \in Paths, NEW g, NEW i \in Slots, calls[i].op # "load",
         calls' = [Outdated(p) EXCEPT ![i] = LoadCall(p, g)], gens'[p] = g
  PROVE  Awaited(p)' /\ \A q : AllStay(q)
  <1>1. calls' = [j \in Slots |-> IF j = i THEN LoadCall(p, g) ELSE Outdated(p)[j]]
    BY DEF Outdated
  <1>2. Awaited(p)'
    <2>1. calls'[i].op = "load" /\ calls'[i].path = p /\ calls'[i].gen = g
      BY <1>1 DEF LoadCall
    <2>2. gens'[calls'[i].path] = calls'[i].gen
      BY <2>1
    <2> QED
      BY <2>1, <2>2 DEF Awaited, Awaits, Current
  <1>3. \A q : AllStay(q)
    <2> SUFFICES ASSUME NEW q, NEW j \in Slots, calls[j].op = "load", calls[j].path = q
                 PROVE  calls'[j].op = "load" /\ calls'[j].path = q /\ calls'[j].gen = calls[j].gen
      BY DEF AllStay, Stays
    <2>1. {"op", "path", "gen"} \subseteq DOMAIN calls[j]
      BY DEF AllAddressed, Addressed, NoCall
    <2>2. calls'[j] = IF calls[j].op = "load" /\ calls[j].path = p
                      THEN [calls[j] EXCEPT !.old = TRUE] ELSE calls[j]
      BY <1>1 DEF Outdated
    <2> QED
      BY <2>1, <2>2
  <1> QED
    BY <1>2, <1>3

TabMap(ts) == /\ ts = [p \in Paths |-> ts[p]]
              /\ \A p \in Paths : ts[p] = Nothing \/ "loading" \in DOMAIN ts[p]

LEMMA LoadFileSafe ==
  ASSUME AllAddressed(calls), NEW p \in Paths, NEW gs, NEW ts, LoadFile(p, gs, ts),
         gs = [q \in Paths |-> gs[q]], TabMap(ts)
  PROVE  /\ Awaited(p)' /\ \A q : AllStay(q)
         /\ gens' = [q \in Paths |-> gens'[q]] /\ TabMap(tabs')
         /\ \A q \in Paths : q # p => gens'[q] = gs[q] /\ tabs'[q] = ts[q]
  <1>1. FirstIdle \in Slots /\ calls[FirstIdle].op # "load"
    BY DEF LoadFile, CanSend, FirstIdle, Idle
  <1>2. gens' = [q \in Paths |-> IF q = p THEN gs[p] + 1 ELSE gs[q]]
    BY DEF LoadFile
  <1>3. calls' = [Outdated(p) EXCEPT ![FirstIdle] = LoadCall(p, gs[p] + 1)]
    BY DEF LoadFile, With
  <1>4. tabs' = ts \/ tabs' = [q \in Paths |->
                                 IF q = p THEN [[ts[p] EXCEPT !.loading = TRUE] EXCEPT !.failed = FALSE]
                                 ELSE ts[q]]
    BY DEF LoadFile, TabMap
  <1>5. gens'[p] = gs[p] + 1
    BY <1>2
  <1>6. Awaited(p)' /\ \A q : AllStay(q)
    BY <1>1, <1>3, <1>5, LoadStays
  <1>7. DOMAIN [[ts[p] EXCEPT !.loading = TRUE] EXCEPT !.failed = FALSE] = DOMAIN ts[p]
    OBVIOUS
  <1>8. TabMap(tabs') /\ \A q \in Paths : q # p => tabs'[q] = ts[q]
    <2>1. CASE tabs' = ts
      BY <2>1
    <2>2. CASE tabs' # ts
      <3>1. tabs' = [q \in Paths |->
                       IF q = p THEN [[ts[p] EXCEPT !.loading = TRUE] EXCEPT !.failed = FALSE] ELSE ts[q]]
        BY <1>4, <2>2
      <3>2. ts[p] # Nothing
        BY <2>2 DEF LoadFile
      <3> QED
        BY <1>7, <3>1, <3>2 DEF TabMap
    <2> QED
      BY <2>1, <2>2
  <1> QED
    BY <1>2, <1>6, <1>8

LEMMA CloseSafe ==
  ASSUME Kept, NEW ps, Close(ps), \A p : AllStay(p)
  PROVE  Kept' /\ \A p \in Paths : Safe(p)
  <1>1. /\ tabs' = [p \in Paths |-> IF p \in ps THEN Nothing ELSE tabs[p]]
        /\ gens' = [p \in Paths |-> IF p \in ps THEN 0 ELSE gens[p]]
        /\ strays' = strays \ ps
    BY DEF Close, Shut, Forget
  <1>2. Kept'
    BY <1>1 DEF Kept
  <1> SUFFICES ASSUME NEW p \in Paths PROVE Safe(p)
    BY <1>2
  <1>3. CASE p \in ps
    BY <1>1, <1>3 DEF Safe, Spinning, IsLoading, IsOpen
  <1>4. CASE p \notin ps
    BY <1>1, <1>4 DEF Safe, Spinning, IsLoading, IsOpen
  <1> QED
    BY <1>3, <1>4

\* Steps that leave the tabs alone.
LEMMA SameSafe ==
  ASSUME Kept, UNCHANGED <<tabs, gens, strays>>, NEW p, AllStay(p)
  PROVE  Kept' /\ Safe(p)
  BY DEF Kept, Safe, Spinning, IsLoading, IsOpen

\* Typing and pinning change an open tab, not whether it spins.
LEMMA EditSafe ==
  ASSUME Kept, UNCHANGED <<gens, calls, strays>>, NEW p \in Paths, IsOpen(p), NEW tab,
         DOMAIN tab = DOMAIN tabs[p], tab.loading = tabs[p].loading,
         tabs' = [tabs EXCEPT ![p] = tab]
  PROVE  Kept' /\ \A q \in Paths : Safe(q)
  <1>1. tabs' = [q \in Paths |-> IF q = p THEN tab ELSE tabs[q]]
    BY DEF Kept
  <1>2. Kept'
    BY <1>1 DEF Kept, IsOpen
  <1>3. \A q \in Paths : Spinning(q)' => Spinning(q)
    BY <1>1 DEF Spinning, IsLoading, IsOpen
  <1> QED
    BY <1>2, <1>3 DEF Safe, AllStay, Stays

LEMMA InitTabs == Init => TInv
  BY DEF Init, TInv, Kept, LoadingIsAwaited, IsLoading, IsOpen

Good == Kept' /\ \A p \in Paths : Safe(p)

LEMMA OpenGood ==
  ASSUME IInv, Kept, NEW p \in Paths, NEW pin \in BOOLEAN, Open(p, pin)
  PROVE  Good
  <1>1. CASE IsOpen(p)
    <2>1. tabs' = [tabs EXCEPT ![p] = [tabs[p] EXCEPT !.pinned = tabs[p].pinned \/ pin]]
      BY <1>1 DEF Open, Kept
    <2>2. DOMAIN [tabs[p] EXCEPT !.pinned = tabs[p].pinned \/ pin] = DOMAIN tabs[p]
      OBVIOUS
    <2>3. [tabs[p] EXCEPT !.pinned = tabs[p].pinned \/ pin].loading = tabs[p].loading
      BY <1>1 DEF Kept, IsOpen
    <2>4. UNCHANGED <<gens, calls, strays>>
      BY <1>1 DEF Open, wire
    <2> QED
      BY <1>1, <2>1, <2>2, <2>3, <2>4, EditSafe DEF Good
  <1>2. CASE ~IsOpen(p)
    <2> DEFINE gone == IF pin THEN {} ELSE Preview
               gs == Forget(gens, gone)
               ts == [Shut(tabs, gone) EXCEPT ![p] = EmptyTab(pin)]
    <2>1. LoadFile(p, gs, ts) /\ strays' = strays \ gone
      BY <1>2 DEF Open
    <2>2. gs = [q \in Paths |-> IF q \in gone THEN 0 ELSE gens[q]]
      BY DEF Forget
    <2>3. ts = [q \in Paths |-> IF q = p THEN EmptyTab(pin) ELSE IF q \in gone THEN Nothing ELSE tabs[q]]
      BY DEF Shut
    <2>4. "loading" \in DOMAIN EmptyTab(pin)
      BY DEF EmptyTab
    <2> HIDE DEF gone, gs, ts
    <2>5. gs = [q \in Paths |-> gs[q]]
      BY <2>2
    <2>6. TabMap(ts)
      BY <2>3, <2>4 DEF TabMap, Kept
    <2>7. /\ Awaited(p)' /\ \A q : AllStay(q)
          /\ gens' = [q \in Paths |-> gens'[q]] /\ TabMap(tabs')
          /\ \A q \in Paths : q # p => gens'[q] = gs[q] /\ tabs'[q] = ts[q]
      BY <2>1, <2>5, <2>6, LoadFileSafe DEF IInv
    <2>8. Kept'
      BY <2>7 DEF Kept, TabMap
    <2>9. ASSUME NEW q \in Paths PROVE Safe(q)
      <3>1. CASE q = p
        BY <2>7, <3>1 DEF Safe
      <3>2. CASE q # p /\ q \in gone
        <4>1. tabs'[q] = Nothing
          BY <2>3, <2>7, <3>2
        <4> QED
          BY <4>1 DEF Safe, Spinning, IsLoading, IsOpen
      <3>3. CASE q # p /\ q \notin gone
        <4>1. tabs'[q] = tabs[q] /\ gens'[q] = gens[q]
          BY <2>2, <2>3, <2>7, <3>3
        <4>2. q \in strays' <=> q \in strays
          BY <2>1, <3>3
        <4> QED
          BY <2>7, <4>1, <4>2 DEF Safe, Spinning, IsLoading, IsOpen
      <3> QED
        BY <3>1, <3>2, <3>3
    <2> QED
      BY <2>8, <2>9 DEF Good
  <1> QED
    BY <1>1, <1>2

\* reloadTab: the tab need not be open any more.
LEMMA ReloadGood ==
  ASSUME IInv, Kept, Reload
  PROVE  Good
  <1>1. dialog.call.path \in Paths
    BY DEF Reload, IInv, DialogNames, Addressed
  <1>2. PICK p \in Paths : LoadFile(p, gens, tabs) /\ strays' = strays \ {p}
    BY <1>1 DEF Reload
  <1>3. gens = [q \in Paths |-> gens[q]] /\ TabMap(tabs)
    BY DEF Kept, TabMap
  <1>4. /\ Awaited(p)' /\ \A q : AllStay(q)
        /\ gens' = [q \in Paths |-> gens'[q]] /\ TabMap(tabs')
        /\ \A q \in Paths : q # p => gens'[q] = gens[q] /\ tabs'[q] = tabs[q]
    BY <1>2, <1>3, LoadFileSafe DEF IInv
  <1>5. Kept'
    BY <1>4 DEF Kept, TabMap
  <1>6. ASSUME NEW q \in Paths PROVE Safe(q)
    <2>1. CASE q = p
      BY <1>4, <2>1 DEF Safe
    <2>2. CASE q # p
      <3>1. tabs'[q] = tabs[q] /\ gens'[q] = gens[q] /\ (q \in strays' <=> q \in strays)
        BY <1>2, <1>4, <2>2
      <3> QED
        BY <1>4, <3>1 DEF Safe, Spinning, IsLoading, IsOpen
    <2> QED
      BY <2>1, <2>2
  <1> QED
    BY <1>5, <1>6 DEF Good

\* A step that sends a call, and leaves the tabs alone.
LEMMA SendGood ==
  ASSUME IInv, Kept, NEW c, Send(c), UNCHANGED <<tabs, gens, strays>>
  PROVE  Good
  <1>1. \A p : AllStay(p)
    BY SendStays DEF IInv, Send, CanSend
  <1> QED
    BY <1>1, SameSafe DEF Good, Kept

LEMMA QuietGood ==
  ASSUME Kept, UNCHANGED <<tabs, gens, strays, calls>>
  PROVE  Good
  BY DEF Good, Kept, Safe, Spinning, IsLoading, IsOpen, AllStay, Stays

LEMMA UserGood ==
  ASSUME IInv, Kept, UserStep
  PROVE  Good
  <1>1. Files \subseteq Paths
    BY NamesAssumption
  <1>2. ASSUME NEW p \in Files, NEW pin \in BOOLEAN, Open(p, pin) PROVE Good
    BY <1>1, <1>2, OpenGood
  <1>3. ASSUME NEW p \in Files, Pin(p) PROVE Good
    <2>1. tabs' = [tabs EXCEPT ![p] = [tabs[p] EXCEPT !.pinned = TRUE]] /\ IsOpen(p)
      BY <1>3 DEF Pin
    <2>2. [tabs[p] EXCEPT !.pinned = TRUE].loading = tabs[p].loading
      BY <1>1, <2>1 DEF Kept, IsOpen
    <2> QED
      BY <1>1, <1>3, <2>1, <2>2, EditSafe DEF Pin, wire, Good
  <1>4. ASSUME NEW p \in Files, Type(p) PROVE Good
    <2> DEFINE tab == [[tabs[p] EXCEPT !.draft = texts + 1] EXCEPT !.pinned = TRUE]
    <2>1. tabs' = [tabs EXCEPT ![p] = tab] /\ IsOpen(p)
      BY <1>1, <1>4 DEF Type, CanEdit, Kept
    <2>2. tab.loading = tabs[p].loading /\ DOMAIN tab = DOMAIN tabs[p]
      BY <1>1, <2>1 DEF Kept, IsOpen
    <2> HIDE DEF tab
    <2> QED
      BY <1>1, <1>4, <2>1, <2>2, EditSafe DEF Type, wire, Good
  <1>5. ASSUME NEW p \in Files, Undo(p) PROVE Good
    <2>1. tabs' = [tabs EXCEPT ![p] = [tabs[p] EXCEPT !.draft = Nothing]] /\ IsOpen(p)
      BY <1>5 DEF Undo, CanEdit
    <2>2. [tabs[p] EXCEPT !.draft = Nothing].loading = tabs[p].loading
      BY <1>1, <2>1 DEF Kept, IsOpen
    <2> QED
      BY <1>1, <1>5, <2>1, <2>2, EditSafe DEF Undo, wire, Good
  <1>6. ASSUME NEW p \in Files, Save(p) \/ Refresh(p) PROVE Good
    BY <1>6, SendGood DEF Save, Refresh
  <1>7. ASSUME NEW p \in Files, RequestClose(p) PROVE Good
    <2>1. calls' = calls /\ (Close({p}) \/ UNCHANGED <<tabs, gens, strays>>)
      BY <1>7 DEF RequestClose, wire
    <2>2. \A q : AllStay(q)
      BY <2>1 DEF AllStay, Stays
    <2> QED
      BY <2>1, <2>2, CloseSafe, QuietGood DEF Good
  <1>8. ASSUME NEW p \in Files, NEW upload \in BOOLEAN, CreateFile(p, upload) PROVE Good
    BY <1>8, SendGood DEF CreateFile
  <1>9. ASSUME NEW p \in Paths, CreateDir(p) PROVE Good
    BY <1>9, SendGood DEF CreateDir
  <1>10. ASSUME NEW p \in Paths, AskDelete(p) PROVE Good
    BY <1>10, QuietGood DEF AskDelete, wire
  <1>11. ASSUME NEW r \in Renames, Rename(r[1], r[2]) PROVE Good
    BY <1>11, SendGood DEF Rename
  <1>12. ASSUME ConfirmSave PROVE Good
    BY <1>12, SendGood, QuietGood DEF ConfirmSave, wire
  <1>13. ASSUME Discard PROVE Good
    <2>1. calls' = calls /\ \E p : Close({p})
      BY <1>13 DEF Discard, wire
    <2>2. \A q : AllStay(q)
      BY <2>1 DEF AllStay, Stays
    <2> QED
      BY <2>1, <2>2, CloseSafe DEF Good
  <1>14. ASSUME Cancel PROVE Good
    BY <1>14, QuietGood DEF Cancel, wire
  <1>15. ASSUME Overwrite \/ ConfirmUpload \/ ConfirmDelete PROVE Good
    BY <1>15, SendGood DEF Overwrite, ConfirmUpload, ConfirmDelete
  <1> QED
    BY <1>2, <1>3, <1>4, <1>5, <1>6, <1>7, <1>8, <1>9, <1>10, <1>11, <1>12, <1>13, <1>14, <1>15,
       ReloadGood DEF UserStep

LEMMA ServedGood ==
  ASSUME IInv, Kept, NEW i \in Slots, Served(i) \/ Lose(i)
  PROVE  Good
  <1>1. UNCHANGED <<tabs, gens, strays>>
    BY DEF Served, Lose, ServeLoad, ServeWrite, ServeMakeDir, ServeMove, ServeDelete, Serve
  <1>2. \/ calls' = [calls EXCEPT ![i] = NoCall] /\ calls[i].op # "load"
        \/ \E v : calls' = [calls EXCEPT ![i].reply = v]
    BY DEF Served, Lose, ServeLoad, ServeWrite, ServeMakeDir, ServeMove, ServeDelete, Serve, Drop, Waiting
  <1>3. \A p : AllStay(p)
    BY <1>2, DropStays, ReplyStays DEF IInv
  <1> QED
    BY <1>1, <1>3, SameSafe DEF Good, Kept

LEMMA AppliedStops ==
  ASSUME NEW tab, NEW reply, "loading" \in DOMAIN tab
  PROVE  DOMAIN Applied(tab, reply) = DOMAIN tab /\ ~Applied(tab, reply).loading
  BY DEF Applied

\* The answer of a load, or of a save, becomes the tab of `p`.
LEMMA AppliedGood ==
  ASSUME Kept, NEW p \in Paths, IsOpen(p), NEW reply, gens' = gens, strays' = strays \ {p},
         tabs' = [tabs EXCEPT ![p] = Applied(tabs[p], reply)], \A q : q # p => AllStay(q)
  PROVE  Good
  <1>1. tabs' = [q \in Paths |-> IF q = p THEN Applied(tabs[p], reply) ELSE tabs[q]]
    BY DEF Kept
  <1>2. DOMAIN Applied(tabs[p], reply) = DOMAIN tabs[p] /\ ~Applied(tabs[p], reply).loading
    BY AppliedStops DEF Kept, IsOpen
  <1>3. Kept'
    BY <1>1, <1>2 DEF Kept, IsOpen
  <1>4. ~Spinning(p)'
    BY <1>1, <1>2 DEF Spinning, IsLoading
  <1>5. ASSUME NEW q \in Paths, q # p PROVE Safe(q)
    BY <1>1, <1>5 DEF Safe, Spinning, IsLoading, IsOpen
  <1> QED
    BY <1>3, <1>4, <1>5 DEF Good, Safe

LEMMA AnswerLoadGood ==
  ASSUME IInv, Kept, LoadingIsAwaited, NEW i \in Slots, AnswerLoad(i)
  PROVE  Good
  <1>1. calls' = [calls EXCEPT ![i] = NoCall] /\ calls[i].op = "load" /\ gens' = gens
    BY DEF AnswerLoad, Answered, Drop
  <1>2. calls[i].path \in Paths
    BY <1>1 DEF IInv, AllAddressed, Addressed, NoCall
  <1>3. PICK p \in Paths : p = calls[i].path
    BY <1>2
  <1>4. \A q : q # p => AllStay(q)
    BY <1>1, <1>3, DropStays DEF IInv
  <1>5. CASE IsOpen(p) /\ Current(calls[i])
    <2>1. /\ tabs' = [tabs EXCEPT ![p] = Applied(tabs[p], calls[i].reply)]
          /\ strays' = strays \ {p}
      BY <1>3, <1>5 DEF AnswerLoad, Kept
    <2> QED
      BY <1>1, <1>4, <1>5, <2>1, AppliedGood
  <1>6. CASE ~(IsOpen(p) /\ Current(calls[i]))
    <2>1. UNCHANGED <<tabs, strays>>
      BY <1>3, <1>6 DEF AnswerLoad
    <2>2. Kept'
      BY <1>1, <2>1 DEF Kept
    <2>3. Safe(p)
      <3>1. CASE ~Spinning(p)
        BY <2>1, <3>1 DEF Safe, Spinning, IsLoading, IsOpen
      <3>2. CASE Spinning(p)
        <4>1. PICK j \in Slots : Awaits(p, j)
          BY <3>2 DEF LoadingIsAwaited, Spinning, Awaits
        <4>2. j # i
          BY <1>6, <3>2, <4>1 DEF Awaits, Spinning, IsLoading
        <4>3. calls'[j] = calls[j]
          BY <1>1, <4>2 DEF IInv, AllAddressed
        <4>4. gens'[calls'[j].path] = calls'[j].gen /\ calls'[j].op = "load" /\ calls'[j].path = p
          BY <1>1, <4>1, <4>3 DEF Awaits, Current
        <4> QED
          BY <4>4 DEF Safe, Awaited, Awaits, Current
      <3> QED
        BY <3>1, <3>2
    <2>4. ASSUME NEW q \in Paths, q # p PROVE Safe(q)
      BY <1>1, <1>4, <2>1, <2>4, SameSafe
    <2> QED
      BY <2>2, <2>3, <2>4 DEF Good
  <1> QED
    BY <1>5, <1>6

LEMMA AnswerListGood ==
  ASSUME IInv, Kept, NEW i \in Slots, AnswerList(i)
  PROVE  Good
  <1>1. calls[i].op = "list"
    BY DEF AnswerList, Waiting
  <1>2. calls[i].path \in Paths
    BY <1>1 DEF IInv, AllAddressed, Addressed, NoCall
  <1>3. PICK p \in Paths : p = calls[i].path
    BY <1>2
  <1>4. /\ gens' = [gens EXCEPT ![p] = gens[p] + 1]
        /\ calls' = [Outdated(p) EXCEPT ![i] = LoadCall(p, gens[p] + 1)]
        /\ tabs' = IF IsOpen(p)
                     THEN [tabs EXCEPT ![p] = [[tabs[p] EXCEPT !.loading = TRUE] EXCEPT !.failed = FALSE]]
                     ELSE tabs
        /\ strays' = strays \ {p}
    BY <1>3 DEF AnswerList, Kept
  <1>5. gens' = [q \in Paths |-> IF q = p THEN gens[p] + 1 ELSE gens[q]]
    BY <1>4 DEF Kept
  <1>6. PICK g : g = gens[p] + 1
    OBVIOUS
  <1>7. Awaited(p)' /\ \A q : AllStay(q)
    <2>1. calls' = [Outdated(p) EXCEPT ![i] = LoadCall(p, g)] /\ gens'[p] = g
      BY <1>4, <1>5, <1>6
    <2> QED
      BY <1>1, <2>1, LoadStays DEF IInv
  <1>8. DOMAIN [[tabs[p] EXCEPT !.loading = TRUE] EXCEPT !.failed = FALSE] = DOMAIN tabs[p]
    OBVIOUS
  <1>9. /\ tabs' = [q \in Paths |-> tabs'[q]]
        /\ tabs'[p] = Nothing \/ "loading" \in DOMAIN tabs'[p]
        /\ \A q \in Paths : q # p => tabs'[q] = tabs[q]
    <2>1. CASE IsOpen(p)
      <3>1. tabs' = [q \in Paths |->
              IF q = p THEN [[tabs[p] EXCEPT !.loading = TRUE] EXCEPT !.failed = FALSE] ELSE tabs[q]]
        BY <1>4, <2>1 DEF Kept
      <3> QED
        BY <1>8, <2>1, <3>1 DEF Kept, IsOpen
    <2>2. CASE ~IsOpen(p)
      BY <1>4, <2>2 DEF Kept
    <2> QED
      BY <2>1, <2>2
  <1>10. Kept'
    BY <1>5, <1>9 DEF Kept
  <1>11. ASSUME NEW q \in Paths PROVE Safe(q)
    <2>1. CASE q = p
      BY <1>7, <2>1 DEF Safe
    <2>2. CASE q # p
      <3>1. tabs'[q] = tabs[q] /\ gens'[q] = gens[q] /\ (q \in strays' <=> q \in strays)
        BY <1>4, <1>5, <1>9, <2>2
      <3> QED
        BY <1>7, <3>1 DEF Safe, Spinning, IsLoading, IsOpen
    <2> QED
      BY <2>1, <2>2
  <1> QED
    BY <1>10, <1>11 DEF Good

LEMMA AnswerSaveGood ==
  ASSUME IInv, Kept, NEW i \in Slots, AnswerSave(i)
  PROVE  Good
  <1>1. calls' = [calls EXCEPT ![i] = NoCall] /\ calls[i].op = "save" /\ gens' = gens
    BY DEF AnswerSave, Answered, Drop
  <1>2. calls[i].path \in Paths
    BY <1>1 DEF IInv, AllAddressed, Addressed, NoCall
  <1>3. PICK p \in Paths : p = calls[i].path
    BY <1>2
  <1>4. \A q : AllStay(q)
    BY <1>1, DropStays DEF IInv
  <1>5. CASE calls[i].reply.code = "ok" /\ IsOpen(p)
    <2>1. /\ tabs' = [tabs EXCEPT ![p] = Applied(tabs[p], calls[i].reply)]
          /\ strays' = strays \ {p}
      BY <1>3, <1>5 DEF AnswerSave, Kept
    <2> QED
      BY <1>1, <1>4, <1>5, <2>1, AppliedGood
  <1>6. CASE ~(calls[i].reply.code = "ok" /\ IsOpen(p))
    <2>1. tabs' = tabs /\ (strays' = strays \/ (strays' = strays \ {p} /\ ~IsOpen(p)))
      BY <1>3, <1>6 DEF AnswerSave
    <2>2. Kept'
      BY <1>1, <2>1 DEF Kept
    <2>3. \A q \in Paths : Spinning(q)' => Spinning(q)
      BY <2>1 DEF Spinning, IsLoading, IsOpen
    <2> QED
      BY <1>1, <1>4, <2>2, <2>3 DEF Good, Safe
  <1> QED
    BY <1>5, <1>6

\* renameTab: a tab that spins is a stray under its new name.
LEMMA AnswerMoveGood ==
  ASSUME IInv, Kept, NEW i \in Slots, AnswerMove(i)
  PROVE  Good
  <1>1. calls' = [calls EXCEPT ![i] = NoCall] /\ calls[i].op = "move"
    BY DEF AnswerMove, Answered, Drop
  <1>2. calls[i].path \in Paths /\ calls[i].to \in Paths
    BY <1>1 DEF IInv, AllAddressed, Addressed, NoCall
  <1>3. PICK from \in Paths, to \in Paths : from = calls[i].path /\ to = calls[i].to
    BY <1>2
  <1>4. \A q : AllStay(q)
    BY <1>1, DropStays DEF IInv
  <1>5. CASE UNCHANGED <<tabs, gens, strays>>
    BY <1>4, <1>5, SameSafe DEF Good, Kept
  <1>6. CASE ~UNCHANGED <<tabs, gens, strays>>
    <2>1. /\ IsOpen(from) /\ ~IsOpen(to)
          /\ tabs' = Moved(tabs, from, to, Nothing)
          /\ gens' = gens \/ gens' = Moved(gens, from, to, 0)
          /\ strays' = (strays \ {from}) \cup IF IsLoading(from) THEN {to} ELSE {}
      BY <1>3, <1>6 DEF AnswerMove
    <2>2. tabs' = [q \in Paths |-> IF q = from THEN Nothing ELSE IF q = to THEN tabs[from] ELSE tabs[q]]
      BY <2>1 DEF Kept, Moved
    <2>3. \/ gens' = gens
          \/ gens' = [q \in Paths |-> IF q = from THEN 0 ELSE IF q = to THEN gens[from] ELSE gens[q]]
      BY <2>1 DEF Kept, Moved
    <2>4. Kept'
      BY <2>2, <2>3 DEF Kept
    <2>5. ASSUME NEW q \in Paths PROVE Safe(q)
      <3>1. CASE q = from
        BY <2>2, <3>1 DEF Safe, Spinning, IsLoading, IsOpen
      <3>2. CASE q = to /\ q # from
        BY <2>1, <2>2, <3>2 DEF Safe, Spinning, IsLoading, IsOpen
      <3>3. CASE q # to /\ q # from
        <4>1. tabs'[q] = tabs[q] /\ gens'[q] = gens[q] /\ (q \in strays' <=> q \in strays)
          BY <2>1, <2>2, <2>3, <3>3
        <4> QED
          BY <1>4, <4>1 DEF Safe, Spinning, IsLoading, IsOpen
      <3> QED
        BY <3>1, <3>2, <3>3
    <2> QED
      BY <2>4, <2>5 DEF Good
  <1> QED
    BY <1>5, <1>6

LEMMA ContinueGood ==
  ASSUME IInv, Kept, LoadingIsAwaited, NEW i \in Slots, Continue(i)
  PROVE  Good
  <1>1. CASE AnswerCreate(i) \/ AnswerMakeDir(i) \/ AnswerDelete(i)
    <2>1. calls' = [calls EXCEPT ![i] = NoCall] /\ calls[i].op # "load"
      BY <1>1 DEF AnswerCreate, AnswerMakeDir, AnswerDelete, Answered, Drop
    <2>2. \A p : AllStay(p)
      BY <2>1, DropStays DEF IInv
    <2>3. UNCHANGED <<tabs, gens, strays>> \/ \E ps : Close(ps)
      BY <1>1 DEF AnswerCreate, AnswerMakeDir, AnswerDelete
    <2> QED
      BY <2>2, <2>3, SameSafe, CloseSafe DEF Good, Kept
  <1> QED
    BY <1>1, AnswerLoadGood, AnswerListGood, AnswerSaveGood, AnswerMoveGood DEF Continue

LEMMA NextGood ==
  ASSUME IInv, TInv, [Next]_vars
  PROVE  TInv'
  <1>1. CASE UNCHANGED vars
    BY <1>1, QuietGood, SafeAwaited DEF vars, TInv, Good
  <1>2. ASSUME NEW p \in Paths, AgentWrites(p) \/ AgentRemoves(p) PROVE Good
    BY <1>2, QuietGood DEF AgentWrites, AgentRemoves, wire, TInv
  <1>3. CASE Next
    BY <1>2, <1>3, UserGood, ServedGood, ContinueGood, SafeAwaited, NamesAssumption
       DEF Next, TInv, Good
  <1> QED
    BY <1>1, <1>3

(* loadFile: a tab that shows the spinner has a load of its own generation *)
(* under way, through openings that replace it, closings, reloads after a  *)
(* listing, lost connections, deletes and renames of other tabs.           *)
THEOREM SpinnerEnds == Spec => []LoadingIsAwaited
  <1>1. TInv => LoadingIsAwaited
    BY DEF TInv
  <1> QED
    BY <1>1, InitTabs, NextGood, CallsNamePaths, PTL DEF Spec

---------------------------------------------------------------------------
(* What a save replaces.  The time of a file tells its text only while no  *)
(* two texts share one: the clock has moved at every write, and so for the *)
(* files that are there at first, which are older than the clock.          *)

IsFile(f, p) == f[p].kind = "file"
Entries(f) == \A p \in Paths : f[p].kind \in {"none", "dir", "link", "file"}
Told(f) == \A p, q \in Paths :
             IsFile(f, p) /\ IsFile(f, q) /\ f[p].mtime = f[q].mtime => f[p].content = f[q].content
Past(f, now) == \A p \in Paths : IsFile(f, p) => f[p].mtime \in Int /\ f[p].mtime <= now

ClockMoves == /\ Nothing \notin Int
              /\ \A t \in Ticks : t \in Nat \ {0}
              /\ Told(Start) /\ Past(Start, 0)

\* Who has read a text with its time knows every file of that time.
Knows(f, now, content, mtime) ==
  mtime = Nothing \/ /\ mtime \in Int /\ mtime <= now
                     /\ \A p \in Paths : IsFile(f, p) /\ f[p].mtime = mtime => f[p].content = content

TabKnows(f, now, tab) ==
  tab # Nothing => {"content", "mtime"} \subseteq DOMAIN tab /\ Knows(f, now, tab.content, tab.mtime)
Shaped(c) == /\ {"op", "path", "reply"} \subseteq DOMAIN c
             /\ c.op \in {"save", "create"} => "overwrite" \in DOMAIN c
             /\ c.op = "save" => {"base", "expected"} \subseteq DOMAIN c
CallKnows(f, now, c) ==
  c.op # "none" =>
    /\ Shaped(c)
    /\ c.op = "save" /\ ~c.overwrite => Knows(f, now, c.base, c.expected)
    /\ c.op \in {"load", "save"} /\ c.reply # Nothing /\ c.reply.code = "ok" =>
         Knows(f, now, c.reply.content, c.reply.mtime)
\* A call kept by a dialog is sent again by force, and is not answered yet.
DialogWaits == dialog # Nothing /\ dialog.kind \in {"conflict", "upload"} =>
                 /\ Shaped(dialog.call) /\ dialog.call.reply = Nothing
                 /\ dialog.call.op \in {"save", "create"}
FilesTold == clock \in Int /\ Entries(fs) /\ Told(fs) /\ Past(fs, clock)
TabsKnow == \A p \in Paths : TabKnows(fs, clock, tabs[p])
CallsKnow == \A i \in Slots : CallKnows(fs, clock, calls[i])

VInv == FilesTold /\ TabsKnow /\ CallsKnow /\ DialogWaits

\* What a step may do to the files: move and remove them, or put one text
\* with a time of its own.
Grows(text) ==
  /\ Entries(fs')
  /\ clock' \in Int /\ clock <= clock'
  /\ \A p \in Paths : IsFile(fs', p) =>
       \/ \E q \in Paths : /\ IsFile(fs, q)
                           /\ fs'[p].mtime = fs[q].mtime /\ fs'[p].content = fs[q].content
       \/ clock < clock' /\ fs'[p].mtime = clock' /\ fs'[p].content = text

LEMMA GrowsTold ==
  ASSUME FilesTold, NEW text, Grows(text)
  PROVE  FilesTold'
  <1>1. Past(fs', clock')
    BY DEF FilesTold, Grows, Past
  <1>2. Told(fs')
    <2> SUFFICES ASSUME NEW p \in Paths, NEW q \in Paths, IsFile(fs', p), IsFile(fs', q),
                        fs'[p].mtime = fs'[q].mtime
                 PROVE  fs'[p].content = fs'[q].content
      BY DEF Told
    <2>1. \A x \in Paths : IsFile(fs, x) => fs[x].mtime \in Int /\ fs[x].mtime <= clock
      BY DEF FilesTold, Past
    <2>2. \A x, y \in Paths : IsFile(fs, x) /\ IsFile(fs, y) /\ fs[x].mtime = fs[y].mtime
                                => fs[x].content = fs[y].content
      BY DEF FilesTold, Told
    <2> QED
      BY <2>1, <2>2 DEF FilesTold, Grows
  <1> QED
    BY <1>1, <1>2 DEF FilesTold, Grows

LEMMA GrowsKnows ==
  ASSUME FilesTold, NEW text, Grows(text), NEW content, NEW mtime, Knows(fs, clock, content, mtime)
  PROVE  Knows(fs', clock', content, mtime)
  BY DEF FilesTold, Grows, Knows

LEMMA TabStays ==
  ASSUME FilesTold, NEW text, Grows(text), NEW tab, TabKnows(fs, clock, tab)
  PROVE  TabKnows(fs', clock', tab)
  BY GrowsKnows DEF TabKnows

LEMMA CallStays ==
  ASSUME FilesTold, NEW text, Grows(text), NEW c, CallKnows(fs, clock, c)
  PROVE  CallKnows(fs', clock', c)
  BY GrowsKnows DEF CallKnows

LEMMA SameGrows ==
  ASSUME FilesTold, fs' = fs, clock' = clock
  PROVE  Grows(Nothing)
  BY DEF FilesTold, Grows, Entries

\* What has been read is known, and so is what has been written.
LEMMA ReadKnows ==
  ASSUME FilesTold, NEW p \in Paths, IsFile(fs, p)
  PROVE  Knows(fs, clock, fs[p].content, fs[p].mtime)
  BY DEF FilesTold, Told, Past, Knows

LEMMA WrittenKnows ==
  ASSUME FilesTold, NEW text, Grows(text), clock < clock'
  PROVE  Knows(fs', clock', text, clock')
  <1>1. \A q \in Paths : IsFile(fs, q) => fs[q].mtime \in Int /\ fs[q].mtime <= clock
    BY DEF FilesTold, Past
  <1>2. clock \in Int /\ clock' \in Int
    BY DEF FilesTold, Grows
  <1>3. \A q \in Paths : IsFile(fs, q) => fs[q].mtime # clock'
    BY <1>1, <1>2
  <1> QED
    BY <1>2, <1>3 DEF Grows, Knows

---------------------------------------------------------------------------
(* The operations of the server only move, remove or put.                  *)

LEMMA ParentsFiles ==
  ASSUME NEW t, NEW p
  PROVE  \A q \in Paths : IsFile(WithParents(t, p), q) =>
           IsFile(t, q) /\ WithParents(t, p)[q] = t[q]
  BY DEF WithParents, IsFile, Dir

LEMMA WriteGrows ==
  ASSUME FilesTold, NEW p \in Paths, NEW text, NEW t \in Nat \ {0},
         clock' = clock + t, fs' = AfterWrite(fs, p, text, clock + t)
  PROVE  Grows(text)
  <1>1. fs' = [q \in Paths |-> IF q = p THEN File(text, clock + t) ELSE WithParents(fs, p)[q]]
    BY DEF AfterWrite, WithParents
  <1>2. clock' \in Int /\ clock < clock' /\ clock <= clock'
    BY DEF FilesTold
  <1>3. fs'[p].mtime = clock' /\ fs'[p].content = text
    BY <1>1 DEF File
  <1>4. \A q \in Paths : q # p /\ IsFile(fs', q) => IsFile(fs, q) /\ fs'[q] = fs[q]
    BY <1>1, ParentsFiles DEF IsFile
  <1>9. Entries(fs')
    BY <1>1 DEF WithParents, File, Dir, Entries, FilesTold
  <1> QED
    BY <1>2, <1>3, <1>4, <1>9 DEF Grows, FilesTold

LEMMA PutGrows ==
  ASSUME FilesTold, Tree(fs), NEW p \in Paths, NEW text, NEW t \in Nat \ {0},
         clock' = clock + t, fs' = [fs EXCEPT ![p] = File(text, clock + t)]
  PROVE  Grows(text)
  <1>1. fs' = [q \in Paths |-> IF q = p THEN File(text, clock + t) ELSE fs[q]]
    BY DEF Tree
  <1>2. clock' \in Int /\ clock < clock' /\ clock <= clock'
    BY DEF FilesTold
  <1>3. fs'[p].mtime = clock' /\ fs'[p].content = text
    BY <1>1 DEF File
  <1>4. \A q \in Paths : q # p /\ IsFile(fs', q) => IsFile(fs, q) /\ fs'[q] = fs[q]
    BY <1>1 DEF IsFile
  <1>5. ASSUME NEW q \in Paths, IsFile(fs', q)
        PROVE  \/ \E x \in Paths : /\ IsFile(fs, x)
                                   /\ fs'[q].mtime = fs[x].mtime /\ fs'[q].content = fs[x].content
               \/ clock < clock' /\ fs'[q].mtime = clock' /\ fs'[q].content = text
    BY <1>2, <1>3, <1>4, <1>5
  <1>9. Entries(fs')
    BY <1>1 DEF File, Entries, FilesTold
  <1> QED
    BY <1>2, <1>5, <1>9 DEF Grows

LEMMA RemoveGrows ==
  ASSUME FilesTold, NEW p, clock' = clock, fs' = AfterDelete(fs, p)
  PROVE  Grows(Nothing)
  <1>1. \A q \in Paths : IsFile(fs', q) => IsFile(fs, q) /\ fs'[q] = fs[q]
    BY DEF AfterDelete, IsFile, NoEntry
  <1>9. Entries(fs')
    BY DEF AfterDelete, NoEntry, Entries, FilesTold
  <1> QED
    BY <1>1, <1>9 DEF Grows, FilesTold

LEMMA MakeDirGrows ==
  ASSUME FilesTold, Tree(fs), NEW p \in Paths, clock' = clock, fs' = AfterMakeDir(fs, p)
  PROVE  Grows(Nothing)
  <1>1. fs' = [q \in Paths |-> IF q = p THEN Dir ELSE fs[q]]
    BY DEF AfterMakeDir, Tree
  <1>2. \A q \in Paths : IsFile(fs', q) => IsFile(fs, q) /\ fs'[q] = fs[q]
    BY <1>1 DEF IsFile, Dir
  <1>9. Entries(fs')
    BY <1>1 DEF Dir, Entries, FilesTold
  <1> QED
    BY <1>2, <1>9 DEF Grows, FilesTold

LEMMA MoveGrows ==
  ASSUME FilesTold, NEW from, NEW to, clock' = clock, fs' = AfterMove(fs, from, to)
  PROVE  Grows(Nothing)
  <1> DEFINE made == WithParents(fs, to)
  <1>1. \A q \in Paths : IsFile(made, q) => IsFile(fs, q) /\ made[q] = fs[q]
    BY ParentsFiles
  <1> HIDE DEF made
  <1>2. \A q \in Paths : IsFile(fs', q) => \E x \in Paths : IsFile(made, x) /\ fs'[q] = made[x]
    BY DEF AfterMove, IsFile, NoEntry, made
  <1>3. \A q \in Paths : IsFile(fs', q) => \E x \in Paths : IsFile(fs, x) /\ fs'[q] = fs[x]
    BY <1>1, <1>2
  <1>9. Entries(fs')
    <2>1. Entries(made)
      BY DEF FilesTold, Entries, made, WithParents, Dir
    <2> QED
      BY <2>1 DEF AfterMove, NoEntry, Entries, made
  <1> QED
    BY <1>3, <1>9 DEF Grows, FilesTold

---------------------------------------------------------------------------
(* What the client and the server do to the tabs and the calls.            *)

LEMMA InitKnows == ClockMoves /\ Init => VInv
  <1> SUFFICES ASSUME ClockMoves, Init PROVE VInv
    OBVIOUS
  <1>1. FilesTold
    BY StartAssumption DEF Entries, ClockMoves, Init, FilesTold
  <1>2. TabsKnow /\ CallsKnow /\ DialogWaits
    BY DEF Init, TabsKnow, CallsKnow, DialogWaits, TabKnows, CallKnows, NoCall
  <1> QED
    BY <1>1, <1>2 DEF VInv

LEMMA SendKnows ==
  ASSUME AllAddressed(calls), CallsKnow, Idle # {}, NEW c, CallKnows(fs, clock, c), calls' = With(calls, c),
         UNCHANGED <<fs, clock>>
  PROVE  CallsKnow'
  <1>1. calls' = [i \in Slots |-> IF i = FirstIdle THEN c ELSE calls[i]]
    BY DEF With, AllAddressed
  <1> QED
    BY <1>1 DEF CallsKnow

LEMMA DropKnows ==
  ASSUME AllAddressed(calls), CallsKnow, NEW i \in Slots, NEW c, CallKnows(fs, clock, c),
         calls' = [calls EXCEPT ![i] = c], UNCHANGED <<fs, clock>>
  PROVE  CallsKnow'
  <1>1. calls' = [j \in Slots |-> IF j = i THEN c ELSE calls[j]]
    BY DEF AllAddressed
  <1> QED
    BY <1>1 DEF CallsKnow

\* A call that is answered, and one that is outdated, ask what they asked.
LEMMA ReplyKnows ==
  ASSUME NEW f, NEW now, NEW c, CallKnows(f, now, c), c.op # "none", NEW v,
         c.op \in {"load", "save"} /\ v # Nothing /\ v.code = "ok" => Knows(f, now, v.content, v.mtime)
  PROVE  CallKnows(f, now, [c EXCEPT !.reply = v])
  <1> DEFINE d == [c EXCEPT !.reply = v]
  <1>1. Shaped(c) /\ (c.op = "save" /\ ~c.overwrite => Knows(f, now, c.base, c.expected))
    BY DEF CallKnows
  <1>2. DOMAIN d = DOMAIN c /\ d.op = c.op /\ d.reply = v
    BY <1>1 DEF Shaped
  <1>3. c.op = "save" => d.overwrite = c.overwrite /\ d.base = c.base /\ d.expected = c.expected
    BY <1>1 DEF Shaped
  <1>4. Shaped(d)
    BY <1>1, <1>2 DEF Shaped
  <1> HIDE DEF d
  <1>5. CallKnows(f, now, d)
    BY <1>1, <1>2, <1>3, <1>4 DEF CallKnows
  <1> QED
    BY <1>5 DEF d

LEMMA OutdatedKnows ==
  ASSUME AllAddressed(calls), CallsKnow, NEW p, NEW i \in Slots
  PROVE  CallKnows(fs, clock, Outdated(p)[i])
  <1>1. CallKnows(fs, clock, calls[i])
    BY DEF CallsKnow
  <1>2. CASE calls[i].op = "load"
    <2> DEFINE c == calls[i]
               d == [c EXCEPT !.old = TRUE]
    <2>1. Shaped(c) /\ (c.reply # Nothing /\ c.reply.code = "ok" =>
                          Knows(fs, clock, c.reply.content, c.reply.mtime))
      BY <1>1, <1>2 DEF CallKnows
    <2>2. DOMAIN d = DOMAIN c /\ d.op = c.op /\ d.reply = c.reply
      BY <2>1 DEF Shaped
    <2>3. Outdated(p)[i] = c \/ Outdated(p)[i] = d
      BY DEF Outdated
    <2>4. c.op = "load"
      BY <1>2
    <2> HIDE DEF c, d
    <2>5. Shaped(d)
      BY <2>1, <2>2, <2>4 DEF Shaped
    <2>6. CallKnows(fs, clock, c) /\ CallKnows(fs, clock, d)
      BY <2>1, <2>2, <2>4, <2>5 DEF CallKnows
    <2> QED
      BY <2>3, <2>6
  <1>3. CASE calls[i].op # "load"
    BY <1>1, <1>3 DEF Outdated
  <1> QED
    BY <1>2, <1>3

LEMMA NewCallsKnow ==
  ASSUME NEW f, NEW now, NEW p, NEW x
  PROVE  /\ CallKnows(f, now, LoadCall(p, x))
         /\ TabKnows(f, now, EmptyTab(x))
         /\ CallKnows(f, now, NoCall)
         /\ CallKnows(f, now, [op |-> "list", path |-> p, reply |-> Nothing])
         /\ CallKnows(f, now, [op |-> "mkdir", path |-> p, reply |-> Nothing])
         /\ CallKnows(f, now, [op |-> "move", path |-> p, to |-> x, reply |-> Nothing])
  BY DEF CallKnows, Shaped, TabKnows, Knows, LoadCall, EmptyTab, NoCall

LEMMA SaveKnows ==
  ASSUME NEW p, TabKnows(fs, clock, tabs[p]), tabs[p] # Nothing, NEW content
  PROVE  CallKnows(fs, clock, SaveCall(p, content, FALSE))
  BY DEF SaveCall, CallKnows, TabKnows, Shaped

LEMMA ForcedKnows ==
  ASSUME NEW f, NEW now, NEW c, Shaped(c), c.reply = Nothing, c.op \in {"save", "create"}
  PROVE  CallKnows(f, now, [c EXCEPT !.overwrite = TRUE])
  <1> DEFINE d == [c EXCEPT !.overwrite = TRUE]
  <1>1. DOMAIN d = DOMAIN c /\ d.op = c.op /\ d.reply = Nothing /\ d.overwrite = TRUE
    BY DEF Shaped
  <1>2. Shaped(d)
    BY <1>1 DEF Shaped
  <1> HIDE DEF d
  <1>3. CallKnows(f, now, d)
    BY <1>1, <1>2 DEF CallKnows
  <1> QED
    BY <1>3 DEF d

LEMMA LoadFileKnows ==
  ASSUME AllAddressed(calls), CallsKnow, NEW p \in Paths, NEW gs, NEW ts, LoadFile(p, gs, ts),
         ts = [q \in Paths |-> ts[q]], \A q \in Paths : TabKnows(fs, clock, ts[q]),
         UNCHANGED <<fs, clock>>
  PROVE  CallsKnow' /\ TabsKnow'
  <1>1. calls' = [Outdated(p) EXCEPT ![FirstIdle] = LoadCall(p, gs[p] + 1)]
    BY DEF LoadFile, With
  <1>2. PICK c : c = LoadCall(p, gs[p] + 1)
    OBVIOUS
  <1>3. calls' = [i \in Slots |-> IF i = FirstIdle THEN c ELSE Outdated(p)[i]]
    BY <1>1, <1>2 DEF Outdated
  <1>4. CallKnows(fs, clock, c)
    BY <1>2, NewCallsKnow
  <1>5. CallsKnow'
    BY <1>3, <1>4, OutdatedKnows DEF CallsKnow
  <1> DEFINE tab == [[ts[p] EXCEPT !.loading = TRUE] EXCEPT !.failed = FALSE]
  <1>6. tabs' = ts \/ tabs' = [q \in Paths |-> IF q = p THEN tab ELSE ts[q]]
    BY DEF LoadFile
  <1>7. TabKnows(fs, clock, tab) \/ tabs' = ts
    <2>1. CASE ts[p] # Nothing
      <3>1. {"content", "mtime"} \subseteq DOMAIN ts[p] /\ Knows(fs, clock, ts[p].content, ts[p].mtime)
        BY <2>1 DEF TabKnows
      <3>2. DOMAIN tab = DOMAIN ts[p] /\ tab.content = ts[p].content /\ tab.mtime = ts[p].mtime
        BY <3>1
      <3> QED
        BY <3>1, <3>2 DEF TabKnows
    <2>2. CASE ts[p] = Nothing
      BY <2>2 DEF LoadFile
    <2> QED
      BY <2>1, <2>2
  <1> HIDE DEF tab
  <1>8. TabsKnow'
    BY <1>6, <1>7 DEF TabsKnow
  <1> QED
    BY <1>5, <1>8

\* Typing and pinning leave what the tab has read.
LEMMA EditKnows ==
  ASSUME Kept, TabsKnow, NEW p \in Paths, NEW tab, UNCHANGED <<fs, clock>>,
         tabs' = [tabs EXCEPT ![p] = tab], TabKnows(fs, clock, tab)
  PROVE  TabsKnow'
  <1>1. tabs' = [q \in Paths |-> IF q = p THEN tab ELSE tabs[q]]
    BY DEF Kept
  <1> QED
    BY <1>1 DEF TabsKnow

LEMMA ShutKnows ==
  ASSUME TabsKnow, NEW ps, Close(ps), UNCHANGED <<fs, clock>>
  PROVE  TabsKnow'
  BY DEF TabsKnow, TabKnows, Close, Shut

LEMMA OpenKnows ==
  ASSUME IInv, Kept, VInv, NEW p \in Paths, NEW pin \in BOOLEAN, Open(p, pin)
  PROVE  TabsKnow' /\ CallsKnow'
  <1>1. UNCHANGED <<fs, clock>>
    BY DEF Open
  <1>2. TabKnows(fs, clock, tabs[p])
    BY DEF VInv, TabsKnow
  <1>3. CASE IsOpen(p)
    <2> DEFINE tab == [tabs[p] EXCEPT !.pinned = tabs[p].pinned \/ pin]
    <2>1. tabs' = [tabs EXCEPT ![p] = tab] /\ calls' = calls
      BY <1>3 DEF Open, Kept, wire
    <2>2. {"content", "mtime"} \subseteq DOMAIN tabs[p] /\ Knows(fs, clock, tabs[p].content, tabs[p].mtime)
      BY <1>2, <1>3 DEF TabKnows, IsOpen
    <2>3. DOMAIN tab = DOMAIN tabs[p] /\ tab.content = tabs[p].content /\ tab.mtime = tabs[p].mtime
      BY <2>2
    <2> HIDE DEF tab
    <2>4. TabKnows(fs, clock, tab)
      BY <2>2, <2>3 DEF TabKnows
    <2> QED
      BY <1>1, <2>1, <2>4, EditKnows DEF VInv, CallsKnow
  <1>4. CASE ~IsOpen(p)
    <2> DEFINE gone == IF pin THEN {} ELSE Preview
               ts == [Shut(tabs, gone) EXCEPT ![p] = EmptyTab(pin)]
    <2>1. LoadFile(p, Forget(gens, gone), ts)
      BY <1>4 DEF Open
    <2>2. ts = [q \in Paths |-> IF q = p THEN EmptyTab(pin) ELSE IF q \in gone THEN Nothing ELSE tabs[q]]
      BY DEF Shut
    <2>3. TabKnows(fs, clock, EmptyTab(pin)) /\ TabKnows(fs, clock, Nothing)
      BY NewCallsKnow DEF TabKnows
    <2> HIDE DEF gone, ts
    <2>4. ts = [q \in Paths |-> ts[q]] /\ \A q \in Paths : TabKnows(fs, clock, ts[q])
      BY <2>2, <2>3 DEF VInv, TabsKnow
    <2> QED
      BY <1>1, <2>1, <2>4, LoadFileKnows DEF IInv, VInv
  <1> QED
    BY <1>3, <1>4

LEMMA TypeKnows ==
  ASSUME Kept, VInv, NEW p \in Paths, Pin(p) \/ Type(p) \/ Undo(p)
  PROVE  TabsKnow'
  <1>1. UNCHANGED <<fs, clock>> /\ IsOpen(p)
    BY DEF Pin, Type, Undo, CanEdit
  <1>2. {"content", "mtime"} \subseteq DOMAIN tabs[p] /\ Knows(fs, clock, tabs[p].content, tabs[p].mtime)
    BY <1>1 DEF VInv, TabsKnow, TabKnows, IsOpen
  <1>3. PICK tab : tabs' = [tabs EXCEPT ![p] = tab] /\ DOMAIN tab = DOMAIN tabs[p]
                   /\ tab.content = tabs[p].content /\ tab.mtime = tabs[p].mtime
    <2>1. CASE Pin(p)
      <3> DEFINE tab == [tabs[p] EXCEPT !.pinned = TRUE]
      <3>1. tabs' = [tabs EXCEPT ![p] = tab]
        BY <2>1 DEF Pin, Kept
      <3>2. DOMAIN tab = DOMAIN tabs[p] /\ tab.content = tabs[p].content /\ tab.mtime = tabs[p].mtime
        BY <1>2
      <3> QED
        BY <3>1, <3>2
    <2>2. CASE Type(p)
      <3> DEFINE tab == [[tabs[p] EXCEPT !.draft = texts + 1] EXCEPT !.pinned = TRUE]
      <3>1. tabs' = [tabs EXCEPT ![p] = tab]
        BY <2>2 DEF Type, Kept
      <3>2. DOMAIN tab = DOMAIN tabs[p] /\ tab.content = tabs[p].content /\ tab.mtime = tabs[p].mtime
        BY <1>2
      <3> QED
        BY <3>1, <3>2
    <2>3. CASE Undo(p)
      <3> DEFINE tab == [tabs[p] EXCEPT !.draft = Nothing]
      <3>1. tabs' = [tabs EXCEPT ![p] = tab]
        BY <2>3 DEF Undo, Kept
      <3>2. DOMAIN tab = DOMAIN tabs[p] /\ tab.content = tabs[p].content /\ tab.mtime = tabs[p].mtime
        BY <1>2
      <3> QED
        BY <3>1, <3>2
    <2> QED
      BY <2>1, <2>2, <2>3
  <1>4. TabKnows(fs, clock, tab)
    BY <1>2, <1>3 DEF TabKnows
  <1> QED
    BY <1>1, <1>3, <1>4, EditKnows DEF VInv

\* A step that sends one call, and leaves the tabs and the files alone.
LEMMA SentKnows ==
  ASSUME IInv, VInv, NEW c, CallKnows(fs, clock, c), Send(c), UNCHANGED <<fs, clock, tabs>>
  PROVE  TabsKnow' /\ CallsKnow'
  <1>1. CallsKnow'
    BY SendKnows DEF IInv, VInv, Send, CanSend
  <1> QED
    BY <1>1 DEF VInv, TabsKnow

LEMMA UserKnows ==
  ASSUME IInv, Kept, VInv, UserStep
  PROVE  VInv'
  <1> DEFINE Same == UNCHANGED <<fs, clock>>
             Rest == TabsKnow' /\ CallsKnow'
             Quiet == UNCHANGED dialog \/ dialog' = Nothing \/ dialog'.kind \in {"close", "delete"}
  <1>0. Files \subseteq Paths
    BY NamesAssumption
  <1>1. ASSUME NEW p \in Files, NEW pin \in BOOLEAN, Open(p, pin) PROVE Same /\ Rest /\ Quiet
    BY <1>0, <1>1, OpenKnows DEF Open
  <1>2. ASSUME NEW p \in Files, Pin(p) \/ Type(p) \/ Undo(p) PROVE Same /\ Rest /\ Quiet
    <2>1. UNCHANGED <<fs, clock, calls, dialog>>
      BY <1>2 DEF Pin, Type, Undo, wire
    <2> QED
      BY <1>0, <1>2, <2>1, TypeKnows DEF VInv, CallsKnow
  <1>3. ASSUME NEW p \in Files, Save(p) PROVE Same /\ Rest /\ Quiet
    <2>1. CallKnows(fs, clock, SaveCall(p, tabs[p].draft, FALSE))
      BY <1>0, <1>3, SaveKnows DEF Save, CanEdit, IsOpen, VInv, TabsKnow
    <2> QED
      BY <1>3, <2>1, SentKnows DEF Save
  <1>4. ASSUME NEW p \in Files, Refresh(p) PROVE Same /\ Rest /\ Quiet
    BY <1>4, NewCallsKnow, SentKnows DEF Refresh
  <1>5. ASSUME NEW p \in Files, RequestClose(p) PROVE Same /\ Rest /\ Quiet
    <2>1. Same /\ calls' = calls /\ (Close({p}) \/ tabs' = tabs) /\ Quiet
      BY <1>5 DEF RequestClose, wire
    <2> QED
      BY <2>1, ShutKnows DEF VInv, TabsKnow, CallsKnow
  <1>6. ASSUME NEW p \in Files, NEW upload \in BOOLEAN, CreateFile(p, upload) PROVE Same /\ Rest /\ Quiet
    <2>1. PICK c : c = [op |-> "create", path |-> p, content |-> texts + 1, upload |-> upload,
                        overwrite |-> FALSE, reply |-> Nothing]
      OBVIOUS
    <2>2. CallKnows(fs, clock, c)
      BY <2>1 DEF CallKnows, Shaped
    <2>3. Send(c)
      BY <1>6, <2>1 DEF CreateFile
    <2> QED
      BY <1>6, <2>2, <2>3, SentKnows DEF CreateFile
  <1>7. ASSUME NEW p \in Paths, CreateDir(p) PROVE Same /\ Rest /\ Quiet
    BY <1>7, NewCallsKnow, SentKnows DEF CreateDir
  <1>8. ASSUME NEW p \in Paths, AskDelete(p) PROVE Same /\ Rest /\ Quiet
    BY <1>8 DEF AskDelete, wire, VInv, TabsKnow, CallsKnow
  <1>9. ASSUME NEW r \in Renames, Rename(r[1], r[2]) PROVE Same /\ Rest /\ Quiet
    BY <1>9, NewCallsKnow, SentKnows DEF Rename
  <1>10. ASSUME ConfirmSave PROVE Same /\ Rest /\ Quiet
    <2>1. CASE IsOpen(dialog.path)
      <3>1. PICK p \in Paths : p = dialog.path
        BY <1>10 DEF ConfirmSave, IInv, DialogNames
      <3>2. CallKnows(fs, clock, SaveCall(p, dialog.content, FALSE))
        BY <2>1, <3>1, SaveKnows DEF IsOpen, VInv, TabsKnow
      <3> QED
        BY <1>10, <2>1, <3>1, <3>2, SentKnows DEF ConfirmSave
    <2>2. CASE ~IsOpen(dialog.path)
      BY <1>10, <2>2 DEF ConfirmSave, wire, VInv, TabsKnow, CallsKnow
    <2> QED
      BY <2>1, <2>2
  <1>11. ASSUME Discard PROVE Same /\ Rest /\ Quiet
    <2>1. Same /\ calls' = calls /\ Quiet /\ \E ps : Close(ps)
      BY <1>11 DEF Discard, wire
    <2> QED
      BY <2>1, ShutKnows DEF VInv, CallsKnow
  <1>12. ASSUME Cancel PROVE Same /\ Rest /\ Quiet
    BY <1>12 DEF Cancel, wire, VInv, TabsKnow, CallsKnow
  <1>13. ASSUME Overwrite \/ ConfirmUpload PROVE Same /\ Rest /\ Quiet
    <2>1. PICK c : c = [dialog.call EXCEPT !.overwrite = TRUE]
      OBVIOUS
    <2>2. Send(c) /\ Same /\ tabs' = tabs /\ Quiet
      BY <1>13, <2>1 DEF Overwrite, ConfirmUpload
    <2>3. CallKnows(fs, clock, c)
      BY <1>13, <2>1, ForcedKnows DEF Overwrite, ConfirmUpload, VInv, DialogWaits
    <2> QED
      BY <2>2, <2>3, SentKnows
  <1>14. ASSUME Reload PROVE Same /\ Rest /\ Quiet
    <2>1. PICK p \in Paths : LoadFile(p, gens, tabs)
      BY <1>14 DEF Reload, IInv, DialogNames, Addressed
    <2>2. tabs = [q \in Paths |-> tabs[q]]
      BY DEF Kept
    <2> QED
      BY <1>14, <2>1, <2>2, LoadFileKnows DEF Reload, IInv, VInv, TabsKnow
  <1>15. ASSUME ConfirmDelete PROVE Same /\ Rest /\ Quiet
    <2>1. PICK c : c = [op |-> "delete", path |-> dialog.path, open |-> dialog.open,
                        recursive |-> dialog.recursive, reply |-> Nothing]
      OBVIOUS
    <2>2. CallKnows(fs, clock, c)
      BY <2>1 DEF CallKnows, Shaped
    <2>3. Send(c)
      BY <1>15, <2>1 DEF ConfirmDelete
    <2> QED
      BY <1>15, <2>2, <2>3, SentKnows DEF ConfirmDelete
  <1>16. Same /\ Rest /\ Quiet
    BY <1>1, <1>2, <1>3, <1>4, <1>5, <1>6, <1>7, <1>8, <1>9, <1>10, <1>11, <1>12, <1>13, <1>14, <1>15
       DEF UserStep
  <1>17. DialogWaits'
    BY <1>16 DEF VInv, DialogWaits
  <1>18. FilesTold'
    BY <1>16 DEF VInv, FilesTold
  <1> QED
    BY <1>16, <1>17, <1>18 DEF VInv

\* A handler answers one call, and may change the files.
LEMMA AnsweredKnows ==
  ASSUME AllAddressed(calls), VInv, NEW text, Grows(text), UNCHANGED <<tabs, dialog>>,
         NEW i \in Slots, NEW c, calls' = [calls EXCEPT ![i] = c], CallKnows(fs', clock', c)
  PROVE  VInv'
  <1>1. calls' = [j \in Slots |-> IF j = i THEN c ELSE calls[j]]
    BY DEF AllAddressed
  <1>2. CallsKnow'
    BY <1>1, CallStays DEF CallsKnow, VInv
  <1>3. TabsKnow'
    BY TabStays DEF TabsKnow, VInv
  <1>4. FilesTold'
    BY GrowsTold DEF VInv
  <1> QED
    BY <1>2, <1>3, <1>4 DEF VInv, DialogWaits

LEMMA ServedKnows ==
  ASSUME ClockMoves, IInv, VInv, NEW i \in Slots, Served(i) \/ Lose(i)
  PROVE  VInv'
  <1>1. calls[i].op # "none" /\ UNCHANGED <<tabs, dialog>>
    BY DEF Served, Lose, ServeLoad, ServeWrite, ServeMakeDir, ServeMove, ServeDelete, Serve, Waiting
  <1>2. PICK c : c = calls[i]
    OBVIOUS
  <1>3. Addressed(c) /\ CallKnows(fs, clock, c) /\ c.op # "none" /\ c.path \in Paths
    BY <1>1, <1>2 DEF IInv, AllAddressed, Addressed, NoCall, VInv, CallsKnow
  <1>4. Tree(fs) /\ AllAddressed(calls) /\ FilesTold
    BY DEF IInv, VInv
  <1>5. ASSUME NEW text, Grows(text), NEW v, calls' = [calls EXCEPT ![i].reply = v],
               c.op \in {"load", "save"} /\ v # Nothing /\ v.code = "ok" =>
                 Knows(fs', clock', v.content, v.mtime)
        PROVE  VInv'
    <2>1. CallKnows(fs', clock', c)
      BY <1>3, <1>4, <1>5, CallStays
    <2>2. CallKnows(fs', clock', [c EXCEPT !.reply = v])
      BY <1>3, <1>5, <2>1, ReplyKnows
    <2>3. calls' = [calls EXCEPT ![i] = [c EXCEPT !.reply = v]]
      BY <1>2, <1>5
    <2> QED
      BY <1>1, <1>4, <1>5, <2>2, <2>3, AnsweredKnows
  <1>6. CASE ServeLoad(i)
    <2> DEFINE p == c.path
               code == ReadCode(fs, p)
               v == IF code = "ok" THEN Version(fs[p].content, fs[p].mtime) ELSE Code(code)
    <2>1. calls' = [calls EXCEPT ![i].reply = v] /\ fs' = fs /\ clock' = clock
      BY <1>2, <1>6 DEF ServeLoad, Serve, files
    <2>2. code = "ok" => IsFile(fs, p)
      BY <1>3, <1>4, PathsAssumption DEF ReadCode, Kind, IsFile, FilesTold, Entries
    <2>3. v.code = "ok" => Knows(fs', clock', v.content, v.mtime)
      BY <1>3, <1>4, <2>1, <2>2, ReadKnows DEF Version, Code
    <2> HIDE DEF v
    <2> QED
      BY <1>4, <1>5, <2>1, <2>3, SameGrows
  <1>7. CASE ServeWrite(i) /\ fs' = fs /\ clock' = clock
    <2>1. PICK v : calls' = [calls EXCEPT ![i].reply = v] /\ v.code # "ok"
      <3>1. CASE \E code : code # "ok" /\ calls' = [calls EXCEPT ![i].reply = Code(code)]
        BY <3>1 DEF Code
      <3>2. CASE ~\E code : code # "ok" /\ calls' = [calls EXCEPT ![i].reply = Code(code)]
        <4>1. PICK t \in Ticks : clock' = clock + t
          BY <1>7, <3>2 DEF ServeWrite, Serve
        <4> QED
          BY <1>4, <1>7, <4>1 DEF ClockMoves, FilesTold
      <3> QED
        BY <3>1, <3>2
    <2> QED
      BY <1>4, <1>5, <1>7, <2>1, SameGrows
  <1>8. CASE ServeWrite(i) /\ ~(fs' = fs /\ clock' = clock)
    <2>1. PICK t \in Ticks :
             /\ clock' = clock + t /\ fs' = AfterWrite(fs, c.path, c.content, clock + t)
             /\ calls' = [calls EXCEPT ![i].reply = Version(c.content, clock + t)]
      BY <1>2, <1>8 DEF ServeWrite, Serve, files
    <2>2. Grows(c.content)
      BY <1>3, <1>4, <2>1, WriteGrows DEF ClockMoves
    <2>3. clock < clock'
      BY <1>4, <2>1 DEF ClockMoves, FilesTold
    <2>4. PICK v : v = Version(c.content, clock')
      OBVIOUS
    <2>5. Knows(fs', clock', v.content, v.mtime)
      BY <1>4, <2>2, <2>3, <2>4, WrittenKnows DEF Version
    <2>6. calls' = [calls EXCEPT ![i].reply = v]
      BY <2>1, <2>4
    <2> QED
      BY <1>5, <2>2, <2>5, <2>6
  <1>9. CASE ServeMakeDir(i)
    <2>1. calls' = [calls EXCEPT ![i] = NoCall] /\ clock' = clock
          /\ (fs' = fs \/ fs' = AfterMakeDir(fs, c.path))
      BY <1>2, <1>9 DEF ServeMakeDir, Drop
    <2>2. Grows(Nothing)
      BY <1>3, <1>4, <2>1, SameGrows, MakeDirGrows
    <2>3. CallKnows(fs', clock', NoCall)
      BY NewCallsKnow
    <2> QED
      BY <1>1, <1>4, <2>1, <2>2, <2>3, AnsweredKnows
  <1>10. CASE ServeMove(i) \/ ServeDelete(i)
    <2>1. /\ c.op \notin {"load", "save"} /\ clock' = clock
          /\ fs' = fs \/ (\E p : fs' = AfterDelete(fs, p)) \/ (\E p, q : fs' = AfterMove(fs, p, q))
      BY <1>2, <1>10 DEF ServeMove, ServeDelete, Waiting
    <2>2. PICK v : calls' = [calls EXCEPT ![i].reply = v]
      BY <1>10 DEF ServeMove, ServeDelete, Serve
    <2>3. Grows(Nothing)
      BY <1>4, <2>1, SameGrows, RemoveGrows, MoveGrows
    <2> QED
      BY <1>5, <2>1, <2>2, <2>3
  <1>11. CASE Lose(i)
    <2>1. PICK v : v = Code("lost")
      OBVIOUS
    <2>2. calls' = [calls EXCEPT ![i].reply = v] /\ v.code # "ok" /\ fs' = fs /\ clock' = clock
      BY <1>11, <2>1 DEF Lose, Serve, Code, files
    <2> QED
      BY <1>4, <1>5, <2>2, SameGrows
  <1> QED
    BY <1>6, <1>7, <1>8, <1>9, <1>10, <1>11 DEF Served

LEMMA AppliedKnows ==
  ASSUME NEW f, NEW now, NEW tab, {"content", "mtime"} \subseteq DOMAIN tab,
         Knows(f, now, tab.content, tab.mtime), NEW reply,
         reply.code = "ok" => Knows(f, now, reply.content, reply.mtime)
  PROVE  TabKnows(f, now, Applied(tab, reply))
  <1>1. CASE reply.code = "ok"
    <2>1. Applied(tab, reply).content = reply.content /\ Applied(tab, reply).mtime = reply.mtime
          /\ DOMAIN Applied(tab, reply) = DOMAIN tab
      BY <1>1 DEF Applied
    <2> QED
      BY <1>1, <2>1 DEF TabKnows
  <1>2. CASE reply.code # "ok"
    <2>1. Applied(tab, reply).content = tab.content /\ Applied(tab, reply).mtime = tab.mtime
          /\ DOMAIN Applied(tab, reply) = DOMAIN tab
      BY <1>2 DEF Applied
    <2> QED
      BY <2>1 DEF TabKnows
  <1> QED
    BY <1>1, <1>2

LEMMA ContinueKnows ==
  ASSUME IInv, Kept, VInv, NEW i \in Slots, Continue(i)
  PROVE  VInv'
  <1>1. calls[i].op # "none" /\ fs' = fs /\ clock' = clock
    BY DEF Continue, AnswerLoad, AnswerList, AnswerSave, AnswerCreate, AnswerMakeDir, AnswerMove,
           AnswerDelete, Answered, Waiting
  <1>2. CallKnows(fs, clock, calls[i]) /\ calls[i].path \in Paths /\ CallKnows(fs, clock, NoCall)
    <2>1. calls[i] = NoCall \/ Addressed(calls[i])
      BY DEF IInv, AllAddressed
    <2>2. calls[i].path \in Paths
      BY <1>1, <2>1 DEF NoCall, Addressed
    <2> QED
      BY <2>2, NewCallsKnow DEF VInv, CallsKnow
  <1>3. FilesTold'
    BY <1>1 DEF VInv, FilesTold
  <1>4. CASE AnswerList(i)
    <2> DEFINE p == calls[i].path
               tab == [[tabs[p] EXCEPT !.loading = TRUE] EXCEPT !.failed = FALSE]
    <2>1. PICK c : c = LoadCall(p, gens[p] + 1)
      OBVIOUS
    <2>2. calls' = [j \in Slots |-> IF j = i THEN c ELSE Outdated(p)[j]] /\ UNCHANGED dialog
      BY <1>4, <2>1 DEF AnswerList, Outdated
    <2>3. CallKnows(fs, clock, c)
      BY <2>1, NewCallsKnow
    <2>4. CallsKnow'
      BY <1>1, <2>2, <2>3, OutdatedKnows DEF CallsKnow, VInv, IInv
    <2>5. TabsKnow'
      <3>1. CASE IsOpen(p)
        <4>1. {"content", "mtime"} \subseteq DOMAIN tabs[p] /\ Knows(fs, clock, tabs[p].content, tabs[p].mtime)
          BY <1>2, <3>1 DEF VInv, TabsKnow, TabKnows, IsOpen
        <4>2. DOMAIN tab = DOMAIN tabs[p] /\ tab.content = tabs[p].content /\ tab.mtime = tabs[p].mtime
          BY <4>1
        <4>3. tabs' = [tabs EXCEPT ![p] = tab]
          BY <1>4, <3>1 DEF AnswerList, Kept
        <4> HIDE DEF tab
        <4>4. TabKnows(fs, clock, tab)
          BY <4>1, <4>2 DEF TabKnows
        <4> QED
          BY <1>1, <1>2, <4>3, <4>4, EditKnows DEF VInv
      <3>2. CASE ~IsOpen(p)
        BY <1>1, <1>4, <3>2 DEF AnswerList, VInv, TabsKnow
      <3> QED
        BY <3>1, <3>2
    <2> QED
      BY <1>3, <2>2, <2>4, <2>5 DEF VInv, DialogWaits
  <1>5. CASE ~AnswerList(i)
    <2>1. calls' = [calls EXCEPT ![i] = NoCall]
      BY <1>5 DEF Continue, AnswerLoad, AnswerSave, AnswerCreate, AnswerMakeDir, AnswerMove,
                  AnswerDelete, Drop
    <2>2. CallsKnow'
      BY <1>1, <1>2, <2>1, DropKnows DEF IInv, VInv
    <2>3. DialogWaits'
      <3>1. \/ dialog' = dialog
            \/ /\ calls[i].op \in {"save", "create"}
               /\ dialog'.call = [calls[i] EXCEPT !.reply = Nothing]
        BY <1>5 DEF Continue, AnswerLoad, AnswerSave, AnswerCreate, AnswerMakeDir, AnswerMove,
                    AnswerDelete, Answered
      <3>2. Shaped(calls[i])
        BY <1>1, <1>2 DEF CallKnows
      <3> DEFINE d == [calls[i] EXCEPT !.reply = Nothing]
      <3>3. DOMAIN d = DOMAIN calls[i] /\ d.op = calls[i].op /\ d.reply = Nothing
        BY <3>2 DEF Shaped
      <3>4. Shaped(d)
        BY <3>2, <3>3 DEF Shaped
      <3> HIDE DEF d
      <3>5. dialog' = dialog \/ (d.op \in {"save", "create"} /\ dialog'.call = d)
        BY <3>1, <3>3 DEF d
      <3> QED
        BY <3>3, <3>4, <3>5 DEF VInv, DialogWaits
    <2>4. TabsKnow'
      <3>1. CASE AnswerLoad(i) \/ AnswerSave(i)
        <4>5. PICK reply : reply = calls[i].reply
          OBVIOUS
        <4>1. PICK p \in Paths : p = calls[i].path /\ reply = calls[i].reply
          BY <1>2, <4>5
        <4>2. tabs' = tabs \/ (IsOpen(p) /\ tabs' = [tabs EXCEPT ![p] = Applied(tabs[p], reply)])
          BY <3>1, <4>1 DEF AnswerLoad, AnswerSave, Kept
        <4>3. reply.code = "ok" => Knows(fs, clock, reply.content, reply.mtime)
          BY <1>1, <1>2, <3>1, <4>1 DEF AnswerLoad, AnswerSave, Answered, CallKnows
        <4>4. IsOpen(p) => TabKnows(fs, clock, Applied(tabs[p], reply))
          <5>1. IsOpen(p) => /\ {"content", "mtime"} \subseteq DOMAIN tabs[p]
                             /\ Knows(fs, clock, tabs[p].content, tabs[p].mtime)
            BY DEF VInv, TabsKnow, TabKnows, IsOpen
          <5> QED
            BY <4>3, <5>1, AppliedKnows
        <4> QED
          BY <1>1, <4>2, <4>4, EditKnows DEF VInv, TabsKnow
      <3>2. CASE AnswerCreate(i) \/ AnswerMakeDir(i)
        BY <1>1, <3>2 DEF AnswerCreate, AnswerMakeDir, VInv, TabsKnow
      <3>3. CASE AnswerMove(i)
        <4>1. tabs' = tabs \/ tabs' = Moved(tabs, calls[i].path, calls[i].to, Nothing)
          BY <3>3 DEF AnswerMove
        <4>2. calls[i].to \in Paths
          BY <1>1, <3>3 DEF AnswerMove, Answered, IInv, AllAddressed, Addressed, NoCall
        <4>3. PICK from \in Paths, to \in Paths : from = calls[i].path /\ to = calls[i].to
          BY <1>2, <4>2
        <4>4. tabs' = tabs \/ tabs' = [q \in Paths |-> IF q = from THEN Nothing
                                                        ELSE IF q = to THEN tabs[from] ELSE tabs[q]]
          BY <4>1, <4>3 DEF Kept, Moved
        <4>5. TabKnows(fs, clock, Nothing)
          BY DEF TabKnows
        <4> QED
          BY <1>1, <4>4, <4>5 DEF VInv, TabsKnow
      <3>4. CASE AnswerDelete(i)
        <4>1. tabs' = tabs \/ \E ps : Close(ps)
          BY <3>4 DEF AnswerDelete
        <4> QED
          BY <1>1, <4>1, ShutKnows DEF VInv, TabsKnow
      <3> QED
        BY <1>5, <3>1, <3>2, <3>3, <3>4 DEF Continue
    <2> QED
      BY <1>3, <2>2, <2>3, <2>4 DEF VInv
  <1> QED
    BY <1>4, <1>5

LEMMA AgentKnows ==
  ASSUME ClockMoves, IInv, VInv, NEW p \in Paths, AgentWrites(p) \/ AgentRemoves(p)
  PROVE  VInv'
  <1>1. UNCHANGED <<tabs, calls, dialog>> /\ FilesTold /\ Tree(fs)
    BY DEF AgentWrites, AgentRemoves, wire, VInv, IInv
  <1>2. \E text : Grows(text)
    <2>1. CASE AgentWrites(p)
      <3>1. PICK t \in Ticks : clock' = clock + t /\ fs' = [fs EXCEPT ![p] = File(texts + 1, clock + t)]
        BY <2>1 DEF AgentWrites
      <3>2. PICK text : text = texts + 1
        OBVIOUS
      <3> QED
        BY <1>1, <3>1, <3>2, PutGrows DEF ClockMoves
    <2>2. CASE AgentRemoves(p)
      BY <1>1, <2>2, RemoveGrows DEF AgentRemoves
    <2> QED
      BY <2>1, <2>2
  <1> QED
    BY <1>1, <1>2, GrowsTold, TabStays, CallStays DEF VInv, TabsKnow, CallsKnow, DialogWaits

LEMMA NextKnows ==
  ASSUME ClockMoves, IInv, Kept, VInv, [Next]_vars
  PROVE  VInv'
  <1>1. CASE UNCHANGED vars
    BY <1>1 DEF vars, VInv, FilesTold, TabsKnow, CallsKnow, DialogWaits
  <1>2. CASE Next
    BY <1>2, UserKnows, ServedKnows, ContinueKnows, AgentKnows, NamesAssumption DEF Next
  <1> QED
    BY <1>1, <1>2

\* Only the write route answers a save with "ok".
LEMMA SaveStands ==
  ASSUME IInv, NEW i \in Slots, calls[i].op = "save",
         \/ UserStep
         \/ \E j \in Slots \ {i} : Served(j) \/ Lose(j)
         \/ \E j \in Slots \ {i} : Continue(j)
  PROVE  calls'[i] = calls[i]
  <1>1. AllAddressed(calls)
    BY DEF IInv
  <1>2. ASSUME NEW c, Send(c) PROVE calls'[i] = calls[i]
    BY <1>1, <1>2 DEF Send, CanSend, With, FirstIdle, Idle, AllAddressed
  <1>3. ASSUME NEW p, NEW gs, NEW ts, LoadFile(p, gs, ts) PROVE calls'[i] = calls[i]
    <2>1. calls' = [Outdated(p) EXCEPT ![FirstIdle] = LoadCall(p, gs[p] + 1)] /\ Idle # {}
      BY <1>3 DEF LoadFile, With, CanSend
    <2>2. FirstIdle # i
      BY <2>1 DEF FirstIdle, Idle
    <2>3. calls'[i] = Outdated(p)[i]
      BY <2>1, <2>2 DEF Outdated
    <2> QED
      BY <2>3 DEF Outdated
  <1>4. CASE UserStep
    <2>1. \/ calls' = calls \/ (\E c : Send(c)) \/ (\E p, gs, ts : LoadFile(p, gs, ts))
      BY <1>4 DEF UserStep, Open, Pin, Type, Undo, Save, Refresh, RequestClose, CreateFile, CreateDir,
                  AskDelete, Rename, ConfirmSave, Discard, Cancel, Overwrite, Reload, ConfirmUpload,
                  ConfirmDelete, wire
    <2> QED
      BY <1>2, <1>3, <2>1
  <1>5. ASSUME NEW j \in Slots \ {i}, Served(j) \/ Lose(j) PROVE calls'[i] = calls[i]
    <2>1. (\E c : calls' = [calls EXCEPT ![j] = c]) \/ \E v : calls' = [calls EXCEPT ![j].reply = v]
      BY <1>5 DEF Served, Lose, ServeLoad, ServeWrite, ServeMakeDir, ServeMove, ServeDelete, Serve, Drop
    <2> QED
      BY <1>1, <2>1 DEF AllAddressed
  <1>6. ASSUME NEW j \in Slots \ {i}, Continue(j) PROVE calls'[i] = calls[i]
    <2>1. CASE AnswerList(j)
      <3>1. PICK p, c : calls' = [Outdated(p) EXCEPT ![j] = c]
        BY <2>1 DEF AnswerList
      <3> QED
        BY <3>1 DEF Outdated
    <2>2. CASE ~AnswerList(j)
      <3>1. calls' = [calls EXCEPT ![j] = NoCall]
        BY <1>6, <2>2 DEF Continue, AnswerLoad, AnswerSave, AnswerCreate, AnswerMakeDir, AnswerMove,
                          AnswerDelete, Drop
      <3> QED
        BY <1>1, <3>1 DEF AllAddressed
    <2> QED
      BY <2>1, <2>2
  <1> QED
    BY <1>4, <1>5, <1>6

LEMMA WrittenOnce ==
  ASSUME IInv, CallsKnow, [Next]_vars, NEW i \in Slots, Replaced(i)
  PROVE  WriteCode(fs, calls[i].path, calls[i].expected, calls[i].overwrite) = "ok"
  <1>1. /\ calls[i].op = "save" /\ calls'[i].op = "save"
        /\ calls[i].reply = Nothing
        /\ calls'[i].reply # Nothing /\ calls'[i].reply # Code("lost") /\ calls'[i].reply.code = "ok"
    BY DEF Replaced
  <1>2. calls'[i] # calls[i]
    BY <1>1
  <1>3. Served(i) \/ Lose(i) \/ Continue(i)
    <2>1. CASE UNCHANGED vars
      BY <1>2, <2>1 DEF vars
    <2>2. CASE Next
      BY <1>1, <1>2, <2>2, SaveStands DEF Next, AgentWrites, AgentRemoves, wire
    <2> QED
      BY <2>1, <2>2
  <1>4. ~Continue(i)
    <2>1. \A j \in Slots : Continue(j) /\ calls[j].op = "save" => AnswerSave(j)
      BY DEF Continue, AnswerLoad, AnswerList, AnswerCreate, AnswerMakeDir, AnswerMove, AnswerDelete,
             Answered, Waiting
    <2>2. ~AnswerSave(i)
      BY <1>1 DEF AnswerSave, Answered
    <2> QED
      BY <1>1, <2>1, <2>2
  <1>5. "reply" \in DOMAIN calls[i]
    BY <1>1 DEF CallsKnow, CallKnows, Shaped
  <1>6. ASSUME NEW v, calls' = [calls EXCEPT ![i].reply = v] PROVE calls'[i].reply = v
    BY <1>5, <1>6 DEF IInv, AllAddressed
  <1>7. ~Lose(i)
    BY <1>1, <1>6 DEF Lose, Serve
  <1>8. ServeWrite(i)
    BY <1>1, <1>3, <1>4, <1>7 DEF Served, ServeLoad, ServeMakeDir, ServeMove, ServeDelete, Waiting
  <1> DEFINE code == WriteCode(fs, calls[i].path, calls[i].expected, calls[i].overwrite)
  <1>9. code = "ok" \/ calls' = [calls EXCEPT ![i].reply = Code(code)]
    BY <1>1, <1>8 DEF ServeWrite, Serve, Expected
  <1> HIDE DEF code
  <1>10. calls' = [calls EXCEPT ![i].reply = Code(code)] => code = "ok"
    BY <1>1, <1>6 DEF Code
  <1> QED
    BY <1>9, <1>10 DEF code

LEMMA ReplacesRead ==
  ASSUME ClockMoves, IInv, VInv, [Next]_vars, NEW i \in Slots, Replaced(i)
  PROVE  IF calls[i].expected = Nothing THEN fs[calls[i].path].kind # "file"
         ELSE fs[calls[i].path].kind = "file" /\ fs[calls[i].path].content = calls[i].base
  <1>1. PICK p, expected : p = calls[i].path /\ expected = calls[i].expected
    OBVIOUS
  <1>2. calls[i].op = "save" /\ ~calls[i].overwrite
    BY DEF Replaced
  <1>3. WriteCode(fs, p, expected, calls[i].overwrite) = "ok"
    BY <1>1, WrittenOnce DEF VInv
  <1>4. p \in Paths /\ ~IsBase(p)
    BY <1>1, <1>2, PathsAssumption DEF IInv, AllAddressed, Addressed, NoCall
  <1>5. Knows(fs, clock, calls[i].base, expected)
    BY <1>1, <1>2 DEF VInv, CallsKnow, CallKnows
  <1>6. CASE expected = Nothing
    BY <1>1, <1>2, <1>3, <1>4, <1>6 DEF WriteCode, Kind
  <1>7. CASE expected # Nothing
    <2>1. Mtime(fs, p) = expected
      BY <1>2, <1>3, <1>7 DEF WriteCode, Stale
    <2>2. fs[p].kind = "file" /\ fs[p].mtime = expected
      BY <1>7, <2>1 DEF Mtime
    <2> QED
      BY <1>1, <1>4, <1>5, <1>7, <2>2 DEF Knows, IsFile
  <1> QED
    BY <1>6, <1>7

(* What a tab and a save under way have read is the text of every file     *)
(* with the time they know, if the clock moves at every write.             *)
THEOREM TimesTellTexts ==
  ASSUME ClockMoves
  PROVE  Spec => []VInv
  <1>1. Init => VInv /\ TInv
    BY InitKnows, InitTabs
  <1>2. IInv /\ TInv /\ VInv /\ [Next]_vars => VInv' /\ TInv'
    BY NextKnows, NextGood DEF TInv
  <1> QED
    BY <1>1, <1>2, CallsNamePaths, PTL DEF Spec

(* writeFile with expectedMtime: while every write has a time of its own, a *)
(* save the user did not force replaces the very text its tab had read,     *)
(* whoever wrote, moved or removed that file since, and however the answers *)
(* that set the tab's time were delayed.                                    *)
THEOREM SaveReplacesWhatItRead ==
  ASSUME ClockMoves
  PROVE  Spec => SaveReplacesRead
  <1>1. IInv /\ VInv /\ [Next]_vars =>
          [\A i \in Slots : Replaced(i) =>
             LET c == calls[i] IN
               IF c.expected = Nothing THEN fs[c.path].kind # "file"
               ELSE fs[c.path].kind = "file" /\ fs[c.path].content = c.base]_vars
    BY ReplacesRead
  <1> QED
    BY <1>1, TimesTellTexts, CallsNamePaths, PTL DEF Spec, SaveReplacesRead

=============================================================================

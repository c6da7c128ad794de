--------------------------- MODULE EditorGridProofs ---------------------------
(***************************************************************************)
(* Proofs about the layout of the workspace editor, for any files, any     *)
(* number of panes and any limits of rows and columns: through every       *)
(* operation the grid keeps its shape and no draft is given up unasked.    *)
(***************************************************************************)
EXTENDS EditorGrid, ListProofs

\* A tab with a draft has the pin that its first edit gave it.
TabType == [path : Files, dirty : BOOLEAN, pinned : BOOLEAN]
PaneType == [id : PaneIds, tabs : Seq(TabType), active : Files \cup {Nothing}]
PinsDrafts(tabs) == \A i \in DOMAIN tabs : tabs[i].dirty => tabs[i].pinned
Proper(tabs) == tabs \in Seq(TabType) /\ Once(tabs) /\ PinsDrafts(tabs)
Sound(pane) == /\ pane \in PaneType /\ Proper(pane.tabs)
               /\ pane.tabs # <<>> => pane.active \in PathsIn(pane.tabs)

\* A grid any operation may start from, and leave behind.
Sized(rs) == /\ rs \in Seq(Seq(PaneType)) /\ Len(rs) \in 1 .. MAX_ROWS
             /\ \A r \in DOMAIN rs : Len(rs[r]) \in 1 .. MAX_COLS
Filled(rs) == \A pane \in Panes(rs) : Sound(pane) /\ (pane.tabs = <<>> => rs = InitialRows)
Grid(rs) == Sized(rs) /\ Apart(rs) /\ Filled(rs)

\* A question about one tab names one path; a deletion knows the tabs it closes.
Asked(d) == /\ d.kind \in {"close", "many", "delete"}
            /\ d.kind = "close" => \E p \in Files : d.paths = {p}
            /\ d.kind = "delete" => d.tabs \in Seq(PaneIds \X Files)
Questions == /\ dialog # Nothing => Asked(dialog)
             /\ deletion # Nothing => Asked(deletion) /\ deletion.kind = "delete"
GridInv == Grid(rows) /\ Questions

---------------------------------------------------------------------------
(* The tabs of a pane.                                                     *)

LEMMA TabFacts ==
  ASSUME NEW tabs \in Seq(TabType)
  PROVE  /\ Len(tabs) \in Nat /\ DOMAIN tabs = 1 .. Len(tabs)
         /\ \A i \in 1 .. Len(tabs) : /\ tabs[i] \in TabType /\ tabs[i].path \in Files
                                      /\ tabs[i].dirty \in BOOLEAN /\ tabs[i].pinned \in BOOLEAN
                                      /\ tabs[i].path \in PathsIn(tabs)
         /\ \A p : p \in PathsIn(tabs) <=> \E i \in 1 .. Len(tabs) : tabs[i].path = p
         /\ PathsIn(tabs) \subseteq Files
         /\ tabs = <<>> <=> Len(tabs) = 0
         /\ tabs = <<>> <=> PathsIn(tabs) = {}
  <1>1. Len(tabs) \in Nat /\ DOMAIN tabs = 1 .. Len(tabs) /\ (tabs = <<>> <=> Len(tabs) = 0)
    BY EmptySeq, LenProperties
  <1>2. \A i \in 1 .. Len(tabs) : /\ tabs[i] \in TabType /\ tabs[i].path \in Files
                                  /\ tabs[i].dirty \in BOOLEAN /\ tabs[i].pinned \in BOOLEAN
    <2> SUFFICES ASSUME NEW i \in 1 .. Len(tabs)
                 PROVE  /\ tabs[i] \in TabType /\ tabs[i].path \in Files
                        /\ tabs[i].dirty \in BOOLEAN /\ tabs[i].pinned \in BOOLEAN
      OBVIOUS
    <2>1. tabs[i] \in TabType
      BY ElementOfSeq
    <2> QED
      BY <2>1 DEF TabType
  <1>3. \A p : p \in PathsIn(tabs) <=> \E i \in 1 .. Len(tabs) : tabs[i].path = p
    BY <1>1 DEF PathsIn
  <1>4. tabs = <<>> <=> PathsIn(tabs) = {}
    <2>1. CASE Len(tabs) = 0
      BY <1>1, <1>3, <2>1
    <2>2. CASE Len(tabs) # 0
      <3>1. 1 \in 1 .. Len(tabs)
        BY <1>1, <2>2
      <3> QED
        BY <1>1, <1>3, <2>2, <3>1
    <2> QED
      BY <2>1, <2>2
  <1> QED
    BY <1>1, <1>2, <1>3, <1>4

LEMMA FirstFacts ==
  ASSUME NEW S, S \subseteq Nat, S # {}
  PROVE  FirstOf(S) \in S /\ \A j \in S : FirstOf(S) <= j
  BY Least DEF FirstOf

\* The last of a set of places is there.
LEMMA LastFacts ==
  ASSUME NEW n \in Nat, NEW S \in SUBSET (1 .. n), S # {}
  PROVE  \E j \in S : \A k \in S : k <= j
  <1> DEFINE U == {m \in Nat : \A k \in S : k <= m}
  <1>1. n \in U
    OBVIOUS
  <1>2. PICK m \in U : \A u \in U : m <= u
    BY <1>1, Least
  <1>3. CASE m \in S
    BY <1>2, <1>3
  <1>4. CASE m \notin S
    <2>1. PICK s : s \in S
      OBVIOUS
    <2>2. m - 1 \in Nat
      <3>1. s \in 1 .. n /\ s <= m /\ m \in Nat
        BY <1>2, <2>1
      <3> QED
        BY <3>1
    <2>3. \A k \in S : k <= m - 1
      BY <1>2, <1>4
    <2>4. m - 1 \in U
      BY <2>2, <2>3
    <2> QED
      BY <1>2, <2>2, <2>4
  <1> QED
    BY <1>3, <1>4

LEMMA IndexFacts ==
  ASSUME NEW tabs \in Seq(TabType), NEW p \in PathsIn(tabs)
  PROVE  /\ Index(tabs, p) \in 1 .. Len(tabs) /\ tabs[Index(tabs, p)].path = p
         /\ \A j \in 1 .. (Index(tabs, p) - 1) : tabs[j].path # p
  <1> DEFINE S == {i \in 1 .. Len(tabs) : tabs[i].path = p}
  <1>1. S \subseteq Nat /\ S # {}
    BY TabFacts
  <1>2. PICK i \in S : \A j \in S : i <= j
    BY <1>1, Least
  <1>3. \A j \in 1 .. (i - 1) : tabs[j].path # p
    BY <1>2, TabFacts
  <1>4. DOMAIN tabs = 1 .. Len(tabs)
    BY TabFacts
  <1> QED
    BY <1>2, <1>3, <1>4 DEF Index

\* Where a path is open once, Index finds that tab.
LEMMA OnceIndex ==
  ASSUME NEW tabs \in Seq(TabType), Once(tabs), NEW i \in 1 .. Len(tabs)
  PROVE  Index(tabs, tabs[i].path) = i
  <1>1. tabs[i].path \in PathsIn(tabs) /\ DOMAIN tabs = 1 .. Len(tabs)
    BY TabFacts
  <1> QED
    BY <1>1, IndexFacts DEF Once

\* The paths of the tabs with a draft.
DraftsIn(tabs) == {tabs[i].path : i \in {j \in DOMAIN tabs : tabs[j].dirty}}

LEMMA DraftFacts ==
  ASSUME NEW tabs \in Seq(TabType)
  PROVE  /\ \A p : p \in DraftsIn(tabs) <=> \E i \in 1 .. Len(tabs) : tabs[i].path = p /\ tabs[i].dirty
         /\ DraftsIn(tabs) \subseteq PathsIn(tabs)
         /\ DraftsIn(tabs) = {t.path : t \in {u \in Range(tabs) : u.dirty}}
  <1>1. DOMAIN tabs = 1 .. Len(tabs)
    BY TabFacts
  <1> QED
    BY <1>1 DEF DraftsIn, PathsIn, Range

\* A tab written over, at its place.
LEMMA PatchFacts ==
  ASSUME NEW tabs, Proper(tabs), NEW p \in PathsIn(tabs),
         NEW tab \in TabType, tab.path = p, tab.dirty => tab.pinned
  PROVE  /\ Proper(Patch(tabs, p, tab)) /\ PathsIn(Patch(tabs, p, tab)) = PathsIn(tabs)
         /\ \A x : x # p => (x \in DraftsIn(Patch(tabs, p, tab)) <=> x \in DraftsIn(tabs))
         /\ tab.dirty => p \in DraftsIn(Patch(tabs, p, tab))
  <1> DEFINE n == Len(tabs)
             new == Patch(tabs, p, tab)
  <1>1. n \in Nat /\ DOMAIN tabs = 1 .. n /\ tabs \in Seq(TabType) /\ \A i \in 1 .. n : tabs[i] \in TabType
    BY TabFacts DEF Proper
  <1>2. new = [i \in 1 .. n |-> IF tabs[i].path = p THEN tab ELSE tabs[i]]
    BY <1>1 DEF Patch
  <1> HIDE DEF new, n
  <1>3. \A i \in 1 .. n : new[i] = IF tabs[i].path = p THEN tab ELSE tabs[i]
    BY <1>2
  <1>4. new \in Seq(TabType) /\ Len(new) = n
    BY <1>1, <1>2, <1>3
  <1>5. DOMAIN new = 1 .. n /\ \A i \in 1 .. n : new[i].path = tabs[i].path
    BY <1>2, <1>3
  <1>6. Proper(new)
    BY <1>1, <1>3, <1>4, <1>5 DEF Proper, Once, PinsDrafts
  <1>7. PathsIn(new) = PathsIn(tabs)
    BY <1>1, <1>5 DEF PathsIn
  <1>8. \A x : x # p => (x \in DraftsIn(new) <=> x \in DraftsIn(tabs))
    BY <1>1, <1>3, <1>5 DEF DraftsIn
  <1>9. ASSUME tab.dirty PROVE p \in DraftsIn(new)
    <2>1. PICK i \in 1 .. n : tabs[i].path = p
      BY <1>1, TabFacts DEF n
    <2> QED
      BY <1>3, <1>5, <1>9, <2>1 DEF DraftsIn
  <1> QED
    BY <1>6, <1>7, <1>8, <1>9 DEF new

\* openFile on a tab that is there: only its pin may change.
Pinning(tabs, p, pin) ==
  [i \in DOMAIN tabs |-> IF tabs[i].path = p /\ pin THEN [tabs[i] EXCEPT !.pinned = TRUE] ELSE tabs[i]]

LEMMA PinningFacts ==
  ASSUME NEW tabs, Proper(tabs), NEW p, NEW pin
  PROVE  /\ Proper(Pinning(tabs, p, pin)) /\ PathsIn(Pinning(tabs, p, pin)) = PathsIn(tabs)
         /\ DraftsIn(Pinning(tabs, p, pin)) = DraftsIn(tabs)
  <1> DEFINE n == Len(tabs)
             new == Pinning(tabs, p, pin)
             Pin(t) == [t EXCEPT !.pinned = TRUE]
  <1>1. n \in Nat /\ DOMAIN tabs = 1 .. n /\ tabs \in Seq(TabType) /\ \A i \in 1 .. n : tabs[i] \in TabType
    BY TabFacts DEF Proper
  <1>2. \A t \in TabType : Pin(t) \in TabType /\ Pin(t).path = t.path /\ Pin(t).dirty = t.dirty /\ Pin(t).pinned
    BY DEF TabType
  <1>3. new = [i \in 1 .. n |-> IF tabs[i].path = p /\ pin THEN Pin(tabs[i]) ELSE tabs[i]]
    BY <1>1 DEF Pinning
  <1> HIDE DEF new, n, Pin
  <1>4. DOMAIN new = 1 .. n /\ \A i \in 1 .. n : new[i] = tabs[i] \/ new[i] = Pin(tabs[i])
    BY <1>3
  <1>5. \A i \in 1 .. n : /\ new[i] \in TabType /\ new[i].path = tabs[i].path /\ new[i].dirty = tabs[i].dirty
                          /\ tabs[i].pinned => new[i].pinned
    BY <1>1, <1>2, <1>4
  <1>6. new \in Seq(TabType)
    BY <1>1, <1>3, <1>5
  <1>7. Proper(new)
    BY <1>1, <1>4, <1>5, <1>6 DEF Proper, Once, PinsDrafts
  <1>8. PathsIn(new) = PathsIn(tabs)
    BY <1>1, <1>4, <1>5 DEF PathsIn
  <1>9. DraftsIn(new) = DraftsIn(tabs)
    BY <1>1, <1>4, <1>5 DEF DraftsIn
  <1> QED
    BY <1>7, <1>8, <1>9 DEF new

\* A fresh tab in place of one that has no draft.
LEMMA ReplaceFacts ==
  ASSUME NEW tabs, Proper(tabs), NEW i \in 1 .. Len(tabs), ~tabs[i].dirty,
         NEW tab \in TabType, tab.path \notin PathsIn(tabs), ~tab.dirty
  PROVE  /\ Proper(ReplaceAt(tabs, i, tab)) /\ tab.path \in PathsIn(ReplaceAt(tabs, i, tab))
         /\ DraftsIn(tabs) \subseteq DraftsIn(ReplaceAt(tabs, i, tab))
  <1> DEFINE n == Len(tabs)
             new == ReplaceAt(tabs, i, tab)
  <1>1. /\ n \in Nat /\ DOMAIN tabs = 1 .. n /\ tabs \in Seq(TabType)
        /\ \A k \in 1 .. n : tabs[k] \in TabType /\ tabs[k].path # tab.path
    BY TabFacts DEF Proper
  <1>2. new = [k \in 1 .. n |-> IF k = i THEN tab ELSE tabs[k]]
    BY <1>1 DEF ReplaceAt
  <1>3. i \in 1 .. n
    OBVIOUS
  <1> HIDE DEF new, n
  <1>4. DOMAIN new = 1 .. n /\ \A k \in 1 .. n : new[k] = IF k = i THEN tab ELSE tabs[k]
    BY <1>2
  <1>5. new \in Seq(TabType)
    BY <1>1, <1>2, <1>4
  <1>6. Once(new)
    BY <1>1, <1>4 DEF Proper, Once
  <1>7. PinsDrafts(new)
    BY <1>1, <1>4 DEF Proper, PinsDrafts
  <1>8. tab.path \in PathsIn(new)
    BY <1>3, <1>4 DEF PathsIn
  <1>9. DraftsIn(tabs) \subseteq DraftsIn(new)
    BY <1>1, <1>4 DEF DraftsIn
  <1> QED
    BY <1>5, <1>6, <1>7, <1>8, <1>9 DEF new, Proper

\* A fresh tab among the others.
LEMMA TabInserted ==
  ASSUME NEW tabs, Proper(tabs), NEW at \in 1 .. Len(tabs) + 1,
         NEW tab \in TabType, tab.path \notin PathsIn(tabs), tab.dirty => tab.pinned
  PROVE  /\ Proper(InsertAt(tabs, at, tab))
         /\ PathsIn(InsertAt(tabs, at, tab)) = PathsIn(tabs) \cup {tab.path}
         /\ DraftsIn(tabs) \subseteq DraftsIn(InsertAt(tabs, at, tab))
         /\ tab.dirty => tab.path \in DraftsIn(InsertAt(tabs, at, tab))
         /\ \A x \in DraftsIn(InsertAt(tabs, at, tab)) : x # tab.path => x \in DraftsIn(tabs)
  <1> DEFINE n == Len(tabs)
             new == InsertAt(tabs, at, tab)
  <1>1. /\ n \in Nat /\ DOMAIN tabs = 1 .. n /\ tabs \in Seq(TabType) /\ at \in 1 .. n + 1
        /\ \A k \in 1 .. n : tabs[k] \in TabType /\ tabs[k].path # tab.path
    BY TabFacts DEF Proper
  <1>2. /\ new \in Seq(TabType) /\ Len(new) = n + 1
        /\ \A k \in 1 .. n + 1 : new[k] = IF k < at THEN tabs[k] ELSE IF k = at THEN tab ELSE tabs[k - 1]
    BY <1>1, InsertFacts
  <1> HIDE DEF new, n
  <1>3. DOMAIN new = 1 .. n + 1
    BY <1>2, LenProperties
  <1>4. \A k \in 1 .. n + 1 : \/ k < at /\ k \in 1 .. n /\ new[k] = tabs[k]
                              \/ k = at /\ new[k] = tab
                              \/ k > at /\ k - 1 \in 1 .. n /\ new[k] = tabs[k - 1]
    BY <1>1, <1>2
  <1>5. ASSUME NEW k \in 1 .. n, NEW c, c = tabs[k] PROVE \E l \in 1 .. n + 1 : new[l] = c
    <2>1. CASE k < at
      BY <1>1, <1>2, <1>5, <2>1
    <2>2. CASE k >= at
      <3>1. k + 1 \in 1 .. n + 1 /\ new[k + 1] = tabs[k]
        BY <1>1, <1>2, <2>2
      <3> QED
        BY <1>5, <3>1
    <2>3. k \in Int /\ at \in Int
      BY <1>1
    <2> QED
      BY <2>1, <2>2, <2>3
  <1>6. Once(new)
    <2> SUFFICES ASSUME NEW k \in 1 .. n + 1, NEW l \in 1 .. n + 1, new[k].path = new[l].path
                 PROVE  k = l
      BY <1>3 DEF Once
    <2> DEFINE H(x) == IF x < at THEN x ELSE x - 1
    <2>1. k = at <=> l = at
      BY <1>1, <1>4
    <2>2. ASSUME k # at PROVE k = l
      <3>1. H(k) \in 1 .. n /\ H(l) \in 1 .. n /\ new[k] = tabs[H(k)] /\ new[l] = tabs[H(l)]
        BY <1>4, <2>1, <2>2
      <3>2. H(k) = H(l)
        BY <1>1, <3>1 DEF Proper, Once
      <3> QED
        BY <1>1, <2>1, <2>2, <3>2
    <2> QED
      BY <2>1, <2>2
  <1>7. PinsDrafts(new)
    BY <1>1, <1>3, <1>4 DEF PinsDrafts, Proper
  <1>8. new[at] = tab /\ at \in 1 .. n + 1
    BY <1>1, <1>2
  <1>9. PathsIn(new) = PathsIn(tabs) \cup {tab.path}
    <2>1. ASSUME NEW x \in PathsIn(new) PROVE x \in PathsIn(tabs) \cup {tab.path}
      BY <1>1, <1>3, <1>4, <2>1 DEF PathsIn
    <2>2. ASSUME NEW x \in PathsIn(tabs) PROVE x \in PathsIn(new)
      <3>1. PICK k \in 1 .. n : tabs[k].path = x
        BY <1>1, <2>2 DEF PathsIn
      <3>2. PICK l \in 1 .. n + 1 : new[l] = tabs[k]
        BY <1>5
      <3> QED
        BY <1>3, <3>1, <3>2 DEF PathsIn
    <2>3. tab.path \in PathsIn(new)
      BY <1>3, <1>8 DEF PathsIn
    <2> QED
      BY <2>1, <2>2, <2>3
  <1>10. DraftsIn(tabs) \subseteq DraftsIn(new)
    <2> SUFFICES ASSUME NEW x \in DraftsIn(tabs) PROVE x \in DraftsIn(new)
      OBVIOUS
    <2>1. PICK k \in 1 .. n : tabs[k].path = x /\ tabs[k].dirty
      BY <1>1 DEF DraftsIn
    <2>2. PICK l \in 1 .. n + 1 : new[l] = tabs[k]
      BY <1>5
    <2> QED
      BY <1>3, <2>1, <2>2 DEF DraftsIn
  <1>11. tab.dirty => tab.path \in DraftsIn(new)
    BY <1>3, <1>8 DEF DraftsIn
  <1>12. \A x \in DraftsIn(new) : x # tab.path => x \in DraftsIn(tabs)
    <2> SUFFICES ASSUME NEW x \in DraftsIn(new), x # tab.path PROVE x \in DraftsIn(tabs)
      OBVIOUS
    <2>1. PICK k \in 1 .. n + 1 : new[k].path = x /\ new[k].dirty
      BY <1>3 DEF DraftsIn
    <2>2. PICK l \in 1 .. n : new[k] = tabs[l]
      BY <1>4, <2>1
    <2> QED
      BY <1>1, <2>1, <2>2 DEF DraftsIn
  <1> QED
    BY <1>2, <1>6, <1>7, <1>9, <1>10, <1>11, <1>12 DEF Proper, new

LEMMA AppendInserts ==
  ASSUME NEW tabs \in Seq(TabType), NEW tab \in TabType, NEW at \in 1 .. Len(tabs) + 1, at = Len(tabs) + 1
  PROVE  Append(tabs, tab) = InsertAt(tabs, at, tab)
  <1> DEFINE n == Len(tabs)
             a == Append(tabs, tab)
             b == InsertAt(tabs, at, tab)
  <1>1. n \in Nat /\ at = n + 1
    BY TabFacts
  <1>2. a \in Seq(TabType) /\ Len(a) = n + 1 /\ \A k \in 1 .. n + 1 : a[k] = IF k <= n THEN tabs[k] ELSE tab
    BY <1>1, AppendProperties
  <1>3. /\ b \in Seq(TabType) /\ Len(b) = n + 1
        /\ \A k \in 1 .. n + 1 : b[k] = IF k < at THEN tabs[k] ELSE IF k = at THEN tab ELSE tabs[k - 1]
    BY <1>1, InsertFacts, SMTT(30)
  <1> HIDE DEF a, b, n
  <1>4. \A k \in 1 .. n + 1 : a[k] = b[k]
    BY <1>1, <1>2, <1>3
  <1>5. a = b
    BY <1>2, <1>3, <1>4, SeqEqual
  <1> QED
    BY <1>5 DEF a, b

\* One tab less.
LEMMA TabRemoved ==
  ASSUME NEW tabs, Proper(tabs), NEW i \in 1 .. Len(tabs)
  PROVE  /\ Proper(RemoveAt(tabs, i)) /\ Len(RemoveAt(tabs, i)) = Len(tabs) - 1
         /\ PathsIn(RemoveAt(tabs, i)) = PathsIn(tabs) \ {tabs[i].path}
         /\ \A x \in DraftsIn(tabs) : x # tabs[i].path => x \in DraftsIn(RemoveAt(tabs, i))
         /\ DraftsIn(RemoveAt(tabs, i)) \subseteq DraftsIn(tabs)
  <1> DEFINE n == Len(tabs)
             new == RemoveAt(tabs, i)
             H(x) == IF x < i THEN x ELSE x + 1
  <1>1. /\ n \in Nat /\ DOMAIN tabs = 1 .. n /\ tabs \in Seq(TabType) /\ i \in 1 .. n
        /\ \A k \in 1 .. n : tabs[k] \in TabType
    BY TabFacts DEF Proper
  <1>2. /\ new \in Seq(TabType) /\ Len(new) = n - 1
        /\ \A k \in 1 .. n - 1 : new[k] = IF k < i THEN tabs[k] ELSE tabs[k + 1]
    BY <1>1, RemoveFacts
  <1> HIDE DEF new, n
  <1>3. DOMAIN new = 1 .. n - 1
    BY <1>1, <1>2, LenProperties
  <1>4. \A k \in 1 .. n - 1 : H(k) \in 1 .. n /\ H(k) # i /\ new[k] = tabs[H(k)]
    BY <1>1, <1>2
  <1>5. ASSUME NEW k \in 1 .. n, k # i PROVE \E l \in 1 .. n - 1 : H(l) = k /\ new[l] = tabs[k]
    <2>1. CASE k < i
      BY <1>1, <1>2, <2>1
    <2>2. CASE k > i
      <3>1. k - 1 \in 1 .. n - 1 /\ H(k - 1) = k
        BY <1>1, <2>2
      <3> QED
        BY <1>4, <3>1
    <2> QED
      BY <1>1, <1>5, <2>1, <2>2
  <1>6. Once(new)
    <2> SUFFICES ASSUME NEW k \in 1 .. n - 1, NEW l \in 1 .. n - 1, new[k].path = new[l].path
                 PROVE  k = l
      BY <1>3 DEF Once
    <2>1. H(k) \in 1 .. n /\ H(l) \in 1 .. n /\ tabs[H(k)].path = tabs[H(l)].path
      BY <1>4
    <2>2. H(k) = H(l)
      BY <1>1, <2>1 DEF Proper, Once
    <2> QED
      BY <1>1, <2>2
  <1>7. PinsDrafts(new)
    BY <1>1, <1>3, <1>4 DEF PinsDrafts, Proper
  <1>8. PathsIn(new) = PathsIn(tabs) \ {tabs[i].path}
    <2>1. ASSUME NEW x \in PathsIn(new) PROVE x \in PathsIn(tabs) \ {tabs[i].path}
      <3>1. PICK k \in 1 .. n - 1 : new[k].path = x
        BY <1>3, <2>1 DEF PathsIn
      <3>2. H(k) \in 1 .. n /\ H(k) # i /\ tabs[H(k)].path = x
        BY <1>4, <3>1
      <3>3. tabs[H(k)].path # tabs[i].path
        BY <1>1, <3>2 DEF Proper, Once
      <3> QED
        BY <1>1, <3>2, <3>3 DEF PathsIn
    <2>2. ASSUME NEW x \in PathsIn(tabs) \ {tabs[i].path} PROVE x \in PathsIn(new)
      <3>1. PICK k \in 1 .. n : tabs[k].path = x
        BY <1>1, <2>2 DEF PathsIn
      <3>2. k # i
        BY <2>2, <3>1
      <3>3. PICK l \in 1 .. n - 1 : new[l] = tabs[k]
        BY <1>5, <3>2
      <3> QED
        BY <1>3, <3>1, <3>3 DEF PathsIn
    <2> QED
      BY <2>1, <2>2
  <1>9. ASSUME NEW x \in DraftsIn(tabs), x # tabs[i].path PROVE x \in DraftsIn(new)
    <2>1. PICK k \in 1 .. n : tabs[k].path = x /\ tabs[k].dirty
      BY <1>1 DEF DraftsIn
    <2>2. k # i
      BY <1>9, <2>1
    <2>3. PICK l \in 1 .. n - 1 : new[l] = tabs[k]
      BY <1>5, <2>2
    <2> QED
      BY <1>3, <2>1, <2>3 DEF DraftsIn
  <1>10. DraftsIn(new) \subseteq DraftsIn(tabs)
    <2> SUFFICES ASSUME NEW x \in DraftsIn(new) PROVE x \in DraftsIn(tabs)
      OBVIOUS
    <2>1. PICK k \in 1 .. n - 1 : new[k].path = x /\ new[k].dirty
      BY <1>3 DEF DraftsIn
    <2>2. H(k) \in 1 .. n /\ new[k] = tabs[H(k)]
      BY <1>4
    <2> QED
      BY <1>1, <2>1, <2>2 DEF DraftsIn
  <1> QED
    BY <1>2, <1>6, <1>7, <1>8, <1>9, <1>10 DEF Proper, new, n

\* closePaths and a tab dragged away: the tabs of some paths less.
LEMMA StayingFacts ==
  ASSUME NEW tabs, Proper(tabs), NEW ps
  PROVE  /\ Proper(Staying(tabs, ps)) /\ PathsIn(Staying(tabs, ps)) = PathsIn(tabs) \ ps
         /\ DraftsIn(Staying(tabs, ps)) = DraftsIn(tabs) \ ps
  <1> DEFINE n == Len(tabs)
             S == {t \in Range(tabs) : t.path \in ps}
             new == Staying(tabs, ps)
             m == Len(new)
  <1>1. /\ n \in Nat /\ DOMAIN tabs = 1 .. n /\ tabs \in Seq(TabType)
        /\ \A k \in 1 .. n : tabs[k] \in TabType /\ tabs[k] \in Range(tabs)
    BY TabFacts DEF Proper, Range
  <1>2. Filters(new, tabs, n, S, TabType)
    BY <1>1, WithoutFacts DEF Staying
  <1> HIDE DEF new, n
  <1>3. new \in Seq(TabType) /\ m \in Nat /\ DOMAIN new = 1 .. m
    BY <1>2, LenProperties DEF Filters
  <1> HIDE DEF m
  <1>4. \A k \in 1 .. m : \E l \in 1 .. n : tabs[l] = new[k] /\ new[k].path \notin ps
    <2> SUFFICES ASSUME NEW k \in 1 .. m
                 PROVE  \E l \in 1 .. n : tabs[l] = new[k] /\ new[k].path \notin ps
      OBVIOUS
    <2>1. Listed(new, new[k])
      BY DEF Listed, m
    <2>2. Among(tabs, n, new[k]) /\ new[k] \notin S
      BY <1>2, <2>1 DEF Filters
    <2> QED
      BY <1>1, <2>2 DEF Among
  <1>5. \A l \in 1 .. n : tabs[l].path \notin ps => \E k \in 1 .. m : new[k] = tabs[l]
    <2> SUFFICES ASSUME NEW l \in 1 .. n, tabs[l].path \notin ps
                 PROVE  \E k \in 1 .. m : new[k] = tabs[l]
      OBVIOUS
    <2>1. Among(tabs, n, tabs[l]) /\ tabs[l] \notin S
      BY DEF Among
    <2>2. Listed(new, tabs[l])
      BY <1>2, <2>1 DEF Filters
    <2> QED
      BY <2>2 DEF Listed, m
  <1>6. Once(new)
    <2> SUFFICES ASSUME NEW k \in 1 .. m, NEW l \in 1 .. m, new[k].path = new[l].path, k # l
                 PROVE  FALSE
      BY <1>3 DEF Once
    <2>1. PICK i \in 1 .. n : tabs[i] = new[k]
      BY <1>4
    <2>2. PICK j \in 1 .. n : tabs[j] = new[l]
      BY <1>4
    <2>3. i = j
      BY <1>1, <2>1, <2>2 DEF Proper, Once
    <2>4. Twice(new, m, new[k])
      BY <2>1, <2>2, <2>3 DEF Twice
    <2>5. Twice(tabs, n, new[k])
      BY <1>2, <2>4 DEF Filters, m
    <2> QED
      BY <1>1, <2>5 DEF Twice, Proper, Once
  <1>7. PinsDrafts(new)
    BY <1>1, <1>3, <1>4 DEF PinsDrafts, Proper
  <1>8. PathsIn(new) = PathsIn(tabs) \ ps
    <2>1. ASSUME NEW x \in PathsIn(new) PROVE x \in PathsIn(tabs) \ ps
      BY <1>1, <1>3, <1>4, <2>1 DEF PathsIn
    <2>2. ASSUME NEW x \in PathsIn(tabs) \ ps PROVE x \in PathsIn(new)
      BY <1>1, <1>3, <1>5, <2>2 DEF PathsIn
    <2> QED
      BY <2>1, <2>2
  <1>9. DraftsIn(new) = DraftsIn(tabs) \ ps
    <2>1. ASSUME NEW x \in DraftsIn(new) PROVE x \in DraftsIn(tabs) \ ps
      BY <1>1, <1>3, <1>4, <2>1 DEF DraftsIn
    <2>2. ASSUME NEW x \in DraftsIn(tabs) \ ps PROVE x \in DraftsIn(new)
      BY <1>1, <1>3, <1>5, <2>2 DEF DraftsIn
    <2> QED
      BY <2>1, <2>2
  <1> QED
    BY <1>3, <1>6, <1>7, <1>8, <1>9 DEF Proper, new

\* reorderTabs: every tab stays.
LEMMA MoveFacts ==
  ASSUME NEW tabs, Proper(tabs), NEW i \in 1 .. Len(tabs), NEW j \in 1 .. Len(tabs)
  PROVE  /\ Proper(ArrayMove(tabs, i, j)) /\ PathsIn(ArrayMove(tabs, i, j)) = PathsIn(tabs)
         /\ DraftsIn(tabs) \subseteq DraftsIn(ArrayMove(tabs, i, j))
  <1> DEFINE n == Len(tabs)
             rest == RemoveAt(tabs, i)
             tab == tabs[i]
             new == InsertAt(rest, j, tab)
  <1>1. /\ n \in Nat /\ DOMAIN tabs = 1 .. n /\ tabs \in Seq(TabType) /\ tab \in TabType
        /\ tab.path \in PathsIn(tabs) /\ (tab.dirty => tab.pinned)
    BY TabFacts DEF Proper, PinsDrafts
  <1>2. /\ Proper(rest) /\ Len(rest) = n - 1 /\ PathsIn(rest) = PathsIn(tabs) \ {tab.path}
        /\ \A x \in DraftsIn(tabs) : x # tab.path => x \in DraftsIn(rest)
    BY TabRemoved
  <1> HIDE DEF rest
  <1>3. j \in 1 .. Len(rest) + 1 /\ tab.path \notin PathsIn(rest)
    BY <1>1, <1>2
  <1>4. /\ Proper(new) /\ PathsIn(new) = PathsIn(rest) \cup {tab.path}
        /\ DraftsIn(rest) \subseteq DraftsIn(new) /\ (tab.dirty => tab.path \in DraftsIn(new))
    BY <1>1, <1>2, <1>3, TabInserted
  <1> HIDE DEF new
  <1>5. PathsIn(new) = PathsIn(tabs)
    BY <1>1, <1>2, <1>4
  <1>6. ASSUME NEW x \in DraftsIn(tabs) PROVE x \in DraftsIn(new)
    <2>1. CASE x # tab.path
      BY <1>2, <1>4, <1>6, <2>1
    <2>2. CASE x = tab.path
      <3>1. PICK k \in 1 .. n : tabs[k].path = x /\ tabs[k].dirty
        BY <1>1, <1>6 DEF DraftsIn
      <3>2. k = i
        BY <1>1, <2>2, <3>1 DEF Proper, Once
      <3> QED
        BY <1>4, <2>2, <3>1, <3>2
    <2> QED
      BY <2>1, <2>2
  <1>7. new = ArrayMove(tabs, i, j)
    BY DEF new, rest, ArrayMove
  <1> QED
    BY <1>4, <1>5, <1>6, <1>7

\* renameTab, in a pane that has not both names open.
RenamedTabs(tabs, p, q) ==
  [i \in DOMAIN tabs |-> IF tabs[i].path = p THEN [tabs[i] EXCEPT !.path = q] ELSE tabs[i]]

LEMMA RenamedFacts ==
  ASSUME NEW tabs, Proper(tabs), NEW p, NEW q \in Files, p \notin PathsIn(tabs) \/ q \notin PathsIn(tabs)
  PROVE  /\ Proper(RenamedTabs(tabs, p, q)) /\ Len(RenamedTabs(tabs, p, q)) = Len(tabs)
         /\ \A x \in PathsIn(tabs) : (IF x = p THEN q ELSE x) \in PathsIn(RenamedTabs(tabs, p, q))
         /\ \A x \in DraftsIn(tabs) : (IF x = p THEN q ELSE x) \in DraftsIn(RenamedTabs(tabs, p, q))
  <1> DEFINE n == Len(tabs)
             new == RenamedTabs(tabs, p, q)
             Ren(t) == [t EXCEPT !.path = q]
  <1>1. /\ n \in Nat /\ DOMAIN tabs = 1 .. n /\ tabs \in Seq(TabType)
        /\ \A i \in 1 .. n : tabs[i] \in TabType /\ tabs[i].path \in PathsIn(tabs)
    BY TabFacts DEF Proper
  <1>2. \A t \in TabType : Ren(t) \in TabType /\ Ren(t).path = q /\ Ren(t).dirty = t.dirty /\ Ren(t).pinned = t.pinned
    BY DEF TabType
  <1>3. new = [i \in 1 .. n |-> IF tabs[i].path = p THEN Ren(tabs[i]) ELSE tabs[i]]
    BY <1>1 DEF RenamedTabs
  <1> HIDE DEF new, n, Ren
  <1>4. DOMAIN new = 1 .. n /\ \A i \in 1 .. n : new[i] = IF tabs[i].path = p THEN Ren(tabs[i]) ELSE tabs[i]
    BY <1>3
  <1>5. \A i \in 1 .. n : /\ new[i] \in TabType /\ new[i].path = (IF tabs[i].path = p THEN q ELSE tabs[i].path)
                          /\ new[i].dirty = tabs[i].dirty /\ new[i].pinned = tabs[i].pinned
    BY <1>1, <1>2, <1>4
  <1>6. new \in Seq(TabType) /\ Len(new) = n
    BY <1>1, <1>3, <1>5
  <1>7. Once(new)
    BY <1>1, <1>4, <1>5 DEF Proper, Once
  <1>8. PinsDrafts(new)
    BY <1>1, <1>4, <1>5 DEF Proper, PinsDrafts
  <1>9. \A x \in PathsIn(tabs) : (IF x = p THEN q ELSE x) \in PathsIn(new)
    BY <1>1, <1>4, <1>5 DEF PathsIn
  <1>10. \A x \in DraftsIn(tabs) : (IF x = p THEN q ELSE x) \in DraftsIn(new)
    BY <1>1, <1>4, <1>5 DEF DraftsIn
  <1> QED
    BY <1>6, <1>7, <1>8, <1>9, <1>10 DEF new, n, Proper

\* nextActiveAfterRemoval and closePaths show a tab that stays, where one does.
LEMMA ActiveStays ==
  ASSUME NEW pane, Sound(pane), NEW p \in PathsIn(pane.tabs), PathsIn(pane.tabs) \ {p} # {}
  PROVE  ActiveWithout(pane, p) \in PathsIn(pane.tabs) \ {p}
  <1> DEFINE tabs == pane.tabs
             n == Len(tabs)
             i == Index(tabs, p)
  <1>1. /\ n \in Nat /\ DOMAIN tabs = 1 .. n /\ tabs \in Seq(TabType) /\ tabs # <<>>
        /\ \A k \in 1 .. n : tabs[k].path \in PathsIn(tabs)
        /\ \A x \in PathsIn(tabs) : \E k \in 1 .. n : tabs[k].path = x
    BY TabFacts DEF Sound, Proper
  <1>2. i \in 1 .. n /\ tabs[i].path = p
    BY <1>1, IndexFacts
  <1>3. Once(tabs)
    BY DEF Sound, Proper
  <1>4. pane.active \in PathsIn(tabs)
    BY <1>1 DEF Sound
  <1> HIDE DEF n, i
  <1>5. n > 1
    <2>1. PICK x \in PathsIn(tabs) : x # p
      OBVIOUS
    <2>2. PICK k \in 1 .. n : tabs[k].path = x
      BY <1>1
    <2>3. k # i
      BY <1>2, <2>1, <2>2
    <2> QED
      BY <1>1, <1>2, <2>3
  <1>6. CASE pane.active # p
    BY <1>4, <1>6 DEF ActiveWithout
  <1>7. CASE pane.active = p
    <2> DEFINE j == IF i < n THEN i + 1 ELSE i - 1
    <2>1. j \in 1 .. n /\ j # i
      <3>1. n \in Nat /\ i \in Nat /\ 1 <= i /\ i <= n
        BY <1>1, <1>2
      <3>2. CASE i < n
        BY <3>1, <3>2
      <3>3. CASE i = n
        BY <1>5, <3>1, <3>3
      <3> QED
        BY <3>1, <3>2, <3>3
    <2> HIDE DEF j
    <2>2. tabs[j].path \in PathsIn(tabs) /\ tabs[j].path # p
      BY <1>1, <1>2, <1>3, <2>1 DEF Once
    <2>3. ActiveWithout(pane, p) = tabs[j].path
      BY <1>1, <1>5, <1>7 DEF ActiveWithout, n, i, j
    <2> QED
      BY <2>2, <2>3
  <1> QED
    BY <1>6, <1>7

LEMMA ActiveOfMany ==
  ASSUME NEW pane, Sound(pane), NEW ps, PathsIn(pane.tabs) \ ps # {}
  PROVE  ActiveAmong(pane, ps) \in PathsIn(pane.tabs) \ ps
  <1> DEFINE tabs == pane.tabs
             n == Len(tabs)
             i == Index(tabs, pane.active)
             right == {j \in DOMAIN tabs : j > i /\ tabs[j].path \notin ps}
             left == {j \in DOMAIN tabs : j < i /\ tabs[j].path \notin ps}
  <1>1. /\ n \in Nat /\ DOMAIN tabs = 1 .. n /\ tabs \in Seq(TabType) /\ tabs # <<>>
        /\ \A k \in 1 .. n : tabs[k].path \in PathsIn(tabs)
        /\ \A x \in PathsIn(tabs) : \E k \in 1 .. n : tabs[k].path = x
    BY TabFacts DEF Sound, Proper
  <1>2. pane.active \in PathsIn(tabs)
    BY <1>1 DEF Sound
  <1>3. i \in 1 .. n /\ tabs[i].path = pane.active
    BY <1>1, <1>2, IndexFacts
  <1>4. CASE pane.active \notin ps
    BY <1>2, <1>4 DEF ActiveAmong
  <1>5. CASE pane.active \in ps /\ right # {}
    <2>1. right \subseteq Nat
      BY <1>1
    <2>2. FirstOf(right) \in right
      BY <1>5, <2>1, FirstFacts
    <2>3. ActiveAmong(pane, ps) = tabs[FirstOf(right)].path
      BY <1>5 DEF ActiveAmong
    <2> QED
      BY <1>1, <2>2, <2>3
  <1>6. CASE pane.active \in ps /\ right = {}
    <2>1. PICK x \in PathsIn(tabs) : x \notin ps
      OBVIOUS
    <2>2. PICK k \in 1 .. n : tabs[k].path = x
      BY <1>1, <2>1
    <2>3. k # i /\ ~(k > i)
      BY <1>1, <1>3, <1>6, <2>1, <2>2
    <2>4. k \in left
      <3>1. k < i
        BY <1>1, <1>3, <2>3
      <3> QED
        BY <1>1, <2>1, <2>2, <3>1
    <2>5. left \in SUBSET (1 .. n) /\ left # {}
      BY <1>1, <2>4
    <2> DEFINE l == CHOOSE j \in left : \A m \in left : m <= j
    <2>6. l \in left
      BY <1>1, <2>5, LastFacts
    <2>7. ActiveAmong(pane, ps) = tabs[l].path
      BY <1>6, <2>5 DEF ActiveAmong
    <2> QED
      BY <1>1, <2>6, <2>7
  <1> QED
    BY <1>4, <1>5, <1>6

---------------------------------------------------------------------------
(* The panes of a grid.                                                    *)

LEMMA CellFacts ==
  ASSUME NEW rs, Sized(rs)
  PROVE  /\ Len(rs) \in Nat /\ 1 <= Len(rs) /\ Len(rs) <= MAX_ROWS /\ DOMAIN rs = 1 .. Len(rs)
         /\ \A r \in 1 .. Len(rs) : /\ rs[r] \in Seq(PaneType) /\ Len(rs[r]) \in Nat
                                    /\ 1 <= Len(rs[r]) /\ Len(rs[r]) <= MAX_COLS
                                    /\ DOMAIN rs[r] = 1 .. Len(rs[r])
                                    /\ \A k \in 1 .. Len(rs[r]) : /\ rs[r][k] \in PaneType
                                                                  /\ rs[r][k] \in Panes(rs)
         /\ \A pane \in Panes(rs) : \E r \in 1 .. Len(rs) : \E k \in 1 .. Len(rs[r]) : rs[r][k] = pane
         /\ Panes(rs) \subseteq PaneType
  <1>1. Len(rs) \in Nat /\ 1 <= Len(rs) /\ Len(rs) <= MAX_ROWS /\ DOMAIN rs = 1 .. Len(rs)
    BY GridConstants, LenProperties DEF Sized
  <1>2. \A r \in 1 .. Len(rs) : rs[r] \in Seq(PaneType)
    BY ElementOfSeq DEF Sized
  <1>3. \A r \in 1 .. Len(rs) : /\ Len(rs[r]) \in Nat /\ 1 <= Len(rs[r]) /\ Len(rs[r]) <= MAX_COLS
                                /\ DOMAIN rs[r] = 1 .. Len(rs[r])
    <2> SUFFICES ASSUME NEW r \in 1 .. Len(rs)
                 PROVE  /\ Len(rs[r]) \in Nat /\ 1 <= Len(rs[r]) /\ Len(rs[r]) <= MAX_COLS
                        /\ DOMAIN rs[r] = 1 .. Len(rs[r])
      OBVIOUS
    <2>1. Len(rs[r]) \in Nat /\ DOMAIN rs[r] = 1 .. Len(rs[r])
      BY <1>2, LenProperties
    <2>2. Len(rs[r]) \in 1 .. MAX_COLS /\ MAX_COLS \in Nat
      BY <1>1, GridConstants DEF Sized
    <2> QED
      BY <2>1, <2>2
  <1>4. \A r \in 1 .. Len(rs) : \A k \in 1 .. Len(rs[r]) : rs[r][k] \in PaneType
    BY <1>2, ElementOfSeq
  <1>5. \A pane : pane \in Panes(rs) <=> \E r \in 1 .. Len(rs) : \E k \in 1 .. Len(rs[r]) : rs[r][k] = pane
    BY <1>1, <1>3 DEF Panes
  <1> QED
    BY <1>1, <1>2, <1>3, <1>4, <1>5

LEMMA ApartPanes ==
  ASSUME NEW rs, Grid(rs), NEW a \in Panes(rs), NEW b \in Panes(rs), a.id = b.id
  PROVE  a = b
  <1>1. PICK r \in 1 .. Len(rs) : \E k \in 1 .. Len(rs[r]) : rs[r][k] = a
    BY CellFacts DEF Grid
  <1>2. PICK k \in 1 .. Len(rs[r]) : rs[r][k] = a
    BY <1>1
  <1>3. PICK s \in 1 .. Len(rs) : \E l \in 1 .. Len(rs[s]) : rs[s][l] = b
    BY CellFacts DEF Grid
  <1>4. PICK l \in 1 .. Len(rs[s]) : rs[s][l] = b
    BY <1>3
  <1>5. DOMAIN rs = 1 .. Len(rs) /\ DOMAIN rs[r] = 1 .. Len(rs[r]) /\ DOMAIN rs[s] = 1 .. Len(rs[s])
    BY CellFacts DEF Grid
  <1>6. r = s /\ k = l
    BY <1>2, <1>4, <1>5 DEF Grid, Apart
  <1> QED
    BY <1>2, <1>4, <1>6

LEMMA PaneOfFacts ==
  ASSUME NEW rs, Grid(rs), NEW id \in Ids(rs)
  PROVE  /\ PaneOf(rs, id) \in Panes(rs) /\ PaneOf(rs, id).id = id /\ Sound(PaneOf(rs, id))
         /\ \A pane \in Panes(rs) : pane.id = id => pane = PaneOf(rs, id)
         /\ id \in PaneIds
  <1>1. \E pane \in Panes(rs) : pane.id = id
    BY DEF Ids
  <1>2. PaneOf(rs, id) \in Panes(rs) /\ PaneOf(rs, id).id = id
    BY <1>1 DEF PaneOf
  <1>3. Sound(PaneOf(rs, id))
    BY <1>2 DEF Grid, Filled
  <1>4. id \in PaneIds
    BY <1>2, <1>3 DEF Sound, PaneType
  <1> QED
    BY <1>2, <1>3, <1>4, ApartPanes

LEMMA StartFacts ==
  /\ Grid(InitialRows) /\ Panes(InitialRows) = {Pane(0, <<>>, Nothing)} /\ Ids(InitialRows) = {0}
  <1> DEFINE pane == Pane(0, <<>>, Nothing)
  <1>1. <<>> \in Seq(TabType)
    BY EmptySeq
  <1>2. pane.tabs = <<>> /\ pane.id = 0 /\ pane.active = Nothing /\ pane \in PaneType
    BY <1>1, GridConstants DEF Pane, PaneType
  <1>3. Proper(<<>>)
    BY <1>1 DEF Proper, Once, PinsDrafts
  <1>4. Sound(pane)
    BY <1>2, <1>3 DEF Sound
  <1> HIDE DEF pane
  <1>5. InitialRows = << <<pane>> >>
    BY DEF InitialRows, pane
  <1>6. /\ <<pane>> \in Seq(PaneType) /\ Len(<<pane>>) = 1 /\ DOMAIN <<pane>> = 1 .. 1
        /\ <<pane>>[1] = pane
    BY <1>2
  <1> DEFINE row == <<pane>>
  <1> HIDE DEF row
  <1>7. /\ row \in Seq(PaneType) /\ Len(row) = 1 /\ DOMAIN row = 1 .. 1 /\ row[1] = pane
        /\ InitialRows = <<row>>
    BY <1>5, <1>6 DEF row
  <1>8. /\ <<row>> \in Seq(Seq(PaneType)) /\ Len(<<row>>) = 1 /\ DOMAIN <<row>> = 1 .. 1
        /\ <<row>>[1] = row
    BY <1>7
  <1>9. Panes(InitialRows) = {pane}
    BY <1>7, <1>8 DEF Panes
  <1>10. Ids(InitialRows) = {0}
    BY <1>2, <1>9 DEF Ids
  <1>11. 1 \in 1 .. MAX_COLS /\ 1 \in 1 .. MAX_ROWS
    BY GridConstants
  <1>12. Sized(InitialRows)
    <2>1. \A r \in DOMAIN InitialRows : InitialRows[r] = row
      BY <1>7, <1>8
    <2>2. Len(InitialRows) \in 1 .. MAX_ROWS /\ Len(row) \in 1 .. MAX_COLS
      BY <1>7, <1>8, <1>11
    <2>3. InitialRows \in Seq(Seq(PaneType))
      BY <1>7, <1>8
    <2> QED
      BY <2>1, <2>2, <2>3 DEF Sized
  <1>13. Apart(InitialRows)
    BY <1>7, <1>8 DEF Apart
  <1>14. Filled(InitialRows)
    BY <1>4, <1>9 DEF Filled
  <1> QED
    BY <1>9, <1>10, <1>12, <1>13, <1>14 DEF Grid, pane

\* In a grid with a pane to close or to fill, no other is empty.
LEMMA OthersFilled ==
  ASSUME NEW rs, Grid(rs), NEW id \in Ids(rs), NEW pane \in Panes(rs), pane.id # id
  PROVE  pane.tabs # <<>>
  <1>1. pane.tabs = <<>> => rs = InitialRows
    BY DEF Grid, Filled
  <1>2. rs = InitialRows => pane.id = id
    BY StartFacts DEF Ids
  <1> QED
    BY <1>1, <1>2

\* A pane written over: the others stay as they are.
LEMMA WithPaneFacts ==
  ASSUME NEW rs, Grid(rs), NEW id \in Ids(rs),
         NEW pane, Sound(pane), pane.id = id, pane.tabs # <<>>
  PROVE  /\ Grid(WithPane(rs, id, pane))
         /\ Panes(WithPane(rs, id, pane)) = {x \in Panes(rs) : x.id # id} \cup {pane}
         /\ Ids(WithPane(rs, id, pane)) = Ids(rs)
         /\ Len(WithPane(rs, id, pane)) = Len(rs)
         /\ \A r \in 1 .. Len(rs) : Len(WithPane(rs, id, pane)[r]) = Len(rs[r])
         /\ \A r \in 1 .. Len(rs) : \A k \in 1 .. Len(rs[r]) :
              WithPane(rs, id, pane)[r][k].id = rs[r][k].id
  <1> DEFINE n == Len(rs)
             W == WithPane(rs, id, pane)
             row(r) == [k \in DOMAIN rs[r] |-> IF rs[r][k].id = id THEN pane ELSE rs[r][k]]
  <1>1. /\ n \in Nat /\ DOMAIN rs = 1 .. n /\ n \in 1 .. MAX_ROWS
        /\ \A r \in 1 .. n : /\ Len(rs[r]) \in Nat /\ DOMAIN rs[r] = 1 .. Len(rs[r])
                             /\ Len(rs[r]) \in 1 .. MAX_COLS
                             /\ \A k \in 1 .. Len(rs[r]) : rs[r][k] \in PaneType /\ rs[r][k] \in Panes(rs)
    BY CellFacts, GridConstants DEF Grid, Sized
  <1>2. W = [r \in 1 .. n |-> row(r)]
    BY <1>1 DEF WithPane
  <1>3. \A r \in 1 .. n : /\ row(r) \in Seq(PaneType) /\ Len(row(r)) = Len(rs[r])
                          /\ DOMAIN row(r) = 1 .. Len(rs[r])
                          /\ \A k \in 1 .. Len(rs[r]) :
                               row(r)[k] = IF rs[r][k].id = id THEN pane ELSE rs[r][k]
    <2> SUFFICES ASSUME NEW r \in 1 .. n
                 PROVE  /\ row(r) \in Seq(PaneType) /\ Len(row(r)) = Len(rs[r])
                        /\ DOMAIN row(r) = 1 .. Len(rs[r])
                        /\ \A k \in 1 .. Len(rs[r]) :
                             row(r)[k] = IF rs[r][k].id = id THEN pane ELSE rs[r][k]
      OBVIOUS
    <2> DEFINE m == Len(rs[r])
               f == row(r)
    <2>1. m \in Nat /\ f = [k \in 1 .. m |-> IF rs[r][k].id = id THEN pane ELSE rs[r][k]]
      BY <1>1
    <2>2. \A k \in 1 .. m : (IF rs[r][k].id = id THEN pane ELSE rs[r][k]) \in PaneType
      BY <1>1 DEF Sound
    <2> HIDE DEF f, m
    <2>3. f \in Seq(PaneType) /\ Len(f) = m
      BY <2>1, <2>2
    <2>4. DOMAIN f = 1 .. m /\ \A k \in 1 .. m : f[k] = IF rs[r][k].id = id THEN pane ELSE rs[r][k]
      BY <2>1
    <2> QED
      BY <2>3, <2>4 DEF f, m
  <1> HIDE DEF W, row, n
  <1>4. DOMAIN W = 1 .. n /\ \A r \in 1 .. n : W[r] = row(r)
    BY <1>2
  <1>5. W \in Seq(Seq(PaneType)) /\ Len(W) = n
    BY <1>1, <1>2, <1>3
  <1>6. \A r \in 1 .. n : /\ Len(W[r]) = Len(rs[r]) /\ DOMAIN W[r] = 1 .. Len(rs[r])
                          /\ \A k \in 1 .. Len(rs[r]) :
                               /\ W[r][k] = IF rs[r][k].id = id THEN pane ELSE rs[r][k]
                               /\ W[r][k].id = rs[r][k].id
    BY <1>3, <1>4
  <1>7. Sized(W)
    BY <1>1, <1>4, <1>5, <1>6 DEF Sized
  <1>8. Apart(W)
    <2> SUFFICES ASSUME NEW r \in DOMAIN W, NEW s \in DOMAIN W, NEW k \in DOMAIN W[r],
                        NEW l \in DOMAIN W[s], W[r][k].id = W[s][l].id
                 PROVE  r = s /\ k = l
      BY DEF Apart
    <2>1. r \in 1 .. n /\ s \in 1 .. n /\ k \in 1 .. Len(rs[r]) /\ l \in 1 .. Len(rs[s])
      BY <1>4, <1>6
    <2>2. rs[r][k].id = rs[s][l].id
      BY <1>6, <2>1
    <2>3. r \in DOMAIN rs /\ s \in DOMAIN rs /\ k \in DOMAIN rs[r] /\ l \in DOMAIN rs[s]
      BY <1>1, <2>1
    <2> QED
      BY <2>2, <2>3 DEF Grid, Apart
  <1>9. Panes(W) = {x \in Panes(rs) : x.id # id} \cup {pane}
    <2>1. ASSUME NEW x \in Panes(W) PROVE x \in {y \in Panes(rs) : y.id # id} \cup {pane}
      <3>1. PICK r \in 1 .. n : \E k \in 1 .. Len(rs[r]) : W[r][k] = x
        BY <1>4, <1>6, <2>1 DEF Panes
      <3>2. PICK k \in 1 .. Len(rs[r]) : W[r][k] = x
        BY <3>1
      <3> QED
        BY <1>1, <1>6, <3>2
    <2>2. ASSUME NEW x \in Panes(rs) PROVE IF x.id = id THEN pane \in Panes(W) ELSE x \in Panes(W)
      <3>1. PICK r \in 1 .. n : \E k \in 1 .. Len(rs[r]) : rs[r][k] = x
        BY CellFacts DEF Grid, n
      <3>2. PICK k \in 1 .. Len(rs[r]) : rs[r][k] = x
        BY <3>1
      <3>3. W[r][k] \in Panes(W)
        BY <1>4, <1>6 DEF Panes
      <3> QED
        BY <1>6, <3>2, <3>3
    <2>3. pane \in Panes(W)
      <3>1. PICK x \in Panes(rs) : x.id = id
        BY DEF Ids
      <3> QED
        BY <2>2, <3>1
    <2> QED
      BY <2>1, <2>2, <2>3
  <1>10. Filled(W)
    <2> SUFFICES ASSUME NEW x \in Panes(W) PROVE Sound(x) /\ x.tabs # <<>>
      BY DEF Filled
    <2>1. CASE x = pane
      BY <2>1
    <2>2. CASE x \in Panes(rs) /\ x.id # id
      BY <2>2, OthersFilled DEF Grid, Filled
    <2> QED
      BY <1>9, <2>1, <2>2
  <1>11. Ids(W) = Ids(rs)
    <2>1. ASSUME NEW i \in Ids(rs) PROVE i \in Ids(W)
      BY <1>9, <2>1 DEF Ids
    <2>2. ASSUME NEW i \in Ids(W) PROVE i \in Ids(rs)
      BY <1>9, <2>2 DEF Ids
    <2> QED
      BY <2>1, <2>2
  <1> QED
    BY <1>5, <1>6, <1>7, <1>8, <1>9, <1>10, <1>11 DEF W, n, Grid

\* dropPane: the others stay; where there are none the editor starts anew.
LEMMA DropPaneFacts ==
  ASSUME NEW rs, Grid(rs), NEW id \in Ids(rs)
  PROVE  /\ Grid(DropPane(rs, id))
         /\ {x \in Panes(rs) : x.id # id} \subseteq Panes(DropPane(rs, id))
  <1> DEFINE n == Len(rs)
             Gone(r) == {pane \in Range(rs[r]) : pane.id = id}
             row(r) == OtherPanes(rs[r], id)
             A == [r \in 1 .. n |-> row(r)]
             left == Without(A, {<<>>})
             m == Len(left)
  <1>1. /\ n \in Nat /\ DOMAIN rs = 1 .. n /\ n \in 1 .. MAX_ROWS
        /\ \A r \in 1 .. n : /\ rs[r] \in Seq(PaneType)
                             /\ Len(rs[r]) \in Nat /\ DOMAIN rs[r] = 1 .. Len(rs[r])
                             /\ Len(rs[r]) \in 1 .. MAX_COLS
                             /\ \A k \in 1 .. Len(rs[r]) : rs[r][k] \in PaneType /\ rs[r][k] \in Panes(rs)
    BY CellFacts, GridConstants DEF Grid, Sized
  <1>2. \A r \in 1 .. n : Filters(row(r), rs[r], Len(rs[r]), Gone(r), PaneType)
    BY <1>1, WithoutFacts DEF OtherPanes
  <1>3. \A r \in 1 .. n : /\ row(r) \in Seq(PaneType) /\ Len(row(r)) \in Nat /\ Len(row(r)) <= Len(rs[r])
                          /\ DOMAIN row(r) = 1 .. Len(row(r))
    BY <1>2, LenProperties DEF Filters
  <1>4. DropPane(rs, id) = IF left = <<>> THEN InitialRows ELSE left
    BY <1>1 DEF DropPane
  <1> HIDE DEF row, n
  <1>5. A \in Seq(Seq(PaneType)) /\ Len(A) = n /\ \A r \in 1 .. n : A[r] = row(r)
    BY <1>1, <1>3
  <1> HIDE DEF A
  <1>6. Filters(left, A, n, {<<>>}, Seq(PaneType))
    BY <1>5, WithoutFacts
  <1> HIDE DEF left, Gone
  <1>7. /\ left \in Seq(Seq(PaneType)) /\ m \in Nat /\ m <= n /\ DOMAIN left = 1 .. m
        /\ \A r \in 1 .. m : left[r] \in Seq(PaneType)
    BY <1>6, LenProperties, ElementOfSeq DEF Filters
  <1> HIDE DEF m
  \* Where a row that is left comes from, and a pane of it.
  <1>8. ASSUME NEW r \in 1 .. m PROVE left[r] # <<>> /\ \E i \in 1 .. n : row(i) = left[r]
    <2>1. Listed(left, left[r])
      BY DEF Listed, m
    <2>2. Among(A, n, left[r]) /\ left[r] \notin {<<>>}
      BY <1>6, <2>1 DEF Filters
    <2> QED
      BY <1>5, <2>2 DEF Among
  <1>9. ASSUME NEW i \in 1 .. n, NEW k \in 1 .. Len(row(i))
        PROVE  row(i)[k].id # id /\ \E j \in 1 .. Len(rs[i]) : rs[i][j] = row(i)[k]
    <2>1. Listed(row(i), row(i)[k])
      BY DEF Listed
    <2>2. Among(rs[i], Len(rs[i]), row(i)[k]) /\ row(i)[k] \notin Gone(i)
      BY <1>2, <2>1 DEF Filters
    <2>3. PICK j \in 1 .. Len(rs[i]) : rs[i][j] = row(i)[k]
      BY <2>2 DEF Among
    <2>4. row(i)[k] \in Range(rs[i])
      BY <1>1, <2>3 DEF Range
    <2> QED
      BY <2>2, <2>3, <2>4 DEF Gone
  <1>10. ASSUME NEW i \in 1 .. n, NEW j \in 1 .. Len(rs[i]), rs[i][j].id # id
         PROVE  \E k \in 1 .. Len(row(i)) : row(i)[k] = rs[i][j]
    <2>1. Among(rs[i], Len(rs[i]), rs[i][j]) /\ rs[i][j] \notin Gone(i)
      BY <1>10 DEF Among, Gone
    <2>2. Listed(row(i), rs[i][j])
      BY <1>2, <2>1 DEF Filters
    <2> QED
      BY <2>2 DEF Listed
  <1>11. ASSUME NEW i \in 1 .. n, row(i) # <<>> PROVE \E r \in 1 .. m : left[r] = row(i)
    <2>1. Among(A, n, row(i)) /\ row(i) \notin {<<>>}
      BY <1>5, <1>11 DEF Among
    <2>2. Listed(left, row(i))
      BY <1>6, <2>1 DEF Filters
    <2> QED
      BY <2>2 DEF Listed, m
  <1>12. \A x \in Panes(left) : x \in Panes(rs) /\ x.id # id
    <2> SUFFICES ASSUME NEW x \in Panes(left) PROVE x \in Panes(rs) /\ x.id # id
      OBVIOUS
    <2>1. PICK r \in 1 .. m : \E k \in DOMAIN left[r] : left[r][k] = x
      BY <1>7 DEF Panes
    <2>2. PICK i \in 1 .. n : row(i) = left[r]
      BY <1>8
    <2>3. PICK k \in 1 .. Len(row(i)) : row(i)[k] = x
      BY <1>3, <2>1, <2>2
    <2> QED
      BY <1>1, <1>9, <2>3
  <1>13. \A x \in Panes(rs) : x.id # id => x \in Panes(left)
    <2> SUFFICES ASSUME NEW x \in Panes(rs), x.id # id PROVE x \in Panes(left)
      OBVIOUS
    <2>1. PICK i \in 1 .. n : \E j \in 1 .. Len(rs[i]) : rs[i][j] = x
      BY CellFacts DEF Grid, n
    <2>2. PICK j \in 1 .. Len(rs[i]) : rs[i][j] = x
      BY <2>1
    <2>3. PICK k \in 1 .. Len(row(i)) : row(i)[k] = x
      BY <1>10, <2>2
    <2>4. row(i) # <<>>
      BY <1>3, <2>3
    <2>5. PICK r \in 1 .. m : left[r] = row(i)
      BY <1>11, <2>4
    <2>6. k \in DOMAIN left[r] /\ left[r][k] = x
      BY <1>3, <2>3, <2>5
    <2> QED
      BY <1>7, <2>6 DEF Panes
  <1>14. Apart(left)
    <2> SUFFICES ASSUME NEW r \in 1 .. m, NEW s \in 1 .. m,
                        NEW k \in DOMAIN left[r], NEW l \in DOMAIN left[s],
                        left[r][k].id = left[s][l].id
                 PROVE  r = s /\ k = l
      BY <1>7 DEF Apart
    <2>1. PICK i \in 1 .. n : row(i) = left[r]
      BY <1>8
    <2>2. PICK j \in 1 .. n : row(j) = left[s]
      BY <1>8
    <2>3. k \in 1 .. Len(row(i)) /\ l \in 1 .. Len(row(j))
      BY <1>3, <2>1, <2>2
    <2>4. PICK k_1 \in 1 .. Len(rs[i]) : rs[i][k_1] = row(i)[k]
      BY <1>9, <2>3
    <2>5. PICK l_1 \in 1 .. Len(rs[j]) : rs[j][l_1] = row(j)[l]
      BY <1>9, <2>3
    <2>6. ASSUME NEW a \in 1 .. n, NEW b \in 1 .. n, NEW x \in 1 .. Len(rs[a]), NEW y \in 1 .. Len(rs[b]),
                 rs[a][x].id = rs[b][y].id
          PROVE  a = b /\ x = y
      <3>1. a \in DOMAIN rs /\ b \in DOMAIN rs /\ x \in DOMAIN rs[a] /\ y \in DOMAIN rs[b]
        BY <1>1
      <3> QED
        BY <2>6, <3>1 DEF Grid, Apart
    <2>7. i = j /\ k_1 = l_1
      <3>1. rs[i][k_1].id = rs[j][l_1].id
        BY <2>1, <2>2, <2>4, <2>5
      <3> QED
        BY <2>6, <3>1
    <2>8. r = s
      <3> SUFFICES ASSUME r # s PROVE FALSE
        OBVIOUS
      <3>1. Twice(left, m, row(i))
        BY <2>1, <2>2, <2>7 DEF Twice
      <3>2. Twice(A, n, row(i))
        BY <1>6, <3>1 DEF Filters, m
      <3>3. PICK a, b \in 1 .. n : a # b /\ row(a) = row(i) /\ row(b) = row(i)
        BY <1>5, <3>2 DEF Twice
      <3>4. PICK x \in 1 .. Len(rs[a]) : rs[a][x] = row(i)[k]
        BY <1>9, <2>3, <3>3
      <3>5. PICK y \in 1 .. Len(rs[b]) : rs[b][y] = row(i)[k]
        BY <1>9, <2>3, <3>3
      <3>6. rs[a][x].id = rs[b][y].id
        BY <3>4, <3>5
      <3> QED
        BY <2>6, <3>3, <3>6
    <2>9. k = l
      <3> SUFFICES ASSUME k # l PROVE FALSE
        OBVIOUS
      <3>1. Twice(row(i), Len(row(i)), row(i)[k])
        BY <2>3, <2>4, <2>5, <2>7 DEF Twice
      <3>2. Twice(rs[i], Len(rs[i]), row(i)[k])
        BY <1>2, <3>1 DEF Filters
      <3>3. PICK a, b \in 1 .. Len(rs[i]) : a # b /\ rs[i][a] = row(i)[k] /\ rs[i][b] = row(i)[k]
        BY <3>2 DEF Twice
      <3>4. rs[i][a].id = rs[i][b].id
        BY <3>3
      <3>5. i \in 1 .. n
        OBVIOUS
      <3>6. a = b
        BY <2>6, <3>4, <3>5
      <3> QED
        BY <3>3, <3>6
    <2> QED
      BY <2>8, <2>9
  <1>15. CASE left = <<>>
    <2>1. DropPane(rs, id) = InitialRows /\ Panes(left) = {}
      BY <1>4, <1>15 DEF Panes
    <2> QED
      BY <1>13, <2>1, StartFacts
  <1>16. CASE left # <<>>
    <2>1. m \in 1 .. MAX_ROWS
      <3>1. m # 0
        BY <1>7, <1>16, EmptySeq DEF m
      <3> QED
        BY <1>1, <1>7, <3>1, GridConstants
    <2>2. \A r \in 1 .. m : Len(left[r]) \in 1 .. MAX_COLS
      <3> SUFFICES ASSUME NEW r \in 1 .. m PROVE Len(left[r]) \in 1 .. MAX_COLS
        OBVIOUS
      <3>1. PICK i \in 1 .. n : row(i) = left[r]
        BY <1>8
      <3>2. Len(left[r]) # 0
        BY <1>7, <1>8, EmptySeq
      <3>3. Len(left[r]) \in Nat /\ Len(left[r]) <= Len(rs[i]) /\ Len(rs[i]) \in 1 .. MAX_COLS
        BY <1>1, <1>3, <3>1
      <3> QED
        BY <3>2, <3>3, GridConstants
    <2>3. Sized(left)
      BY <1>7, <2>1, <2>2 DEF Sized, m
    <2>4. Filled(left)
      <3> SUFFICES ASSUME NEW x \in Panes(left) PROVE Sound(x) /\ x.tabs # <<>>
        BY DEF Filled
      <3>1. x \in Panes(rs) /\ x.id # id
        BY <1>12
      <3> QED
        BY <3>1, OthersFilled DEF Grid, Filled
    <2> QED
      BY <1>4, <1>13, <1>14, <1>16, <2>3, <2>4 DEF Grid
  <1> QED
    BY <1>15, <1>16

\* A pane more in a row.
LEMMA ColumnAdded ==
  ASSUME NEW rs, Grid(rs), \A x \in Panes(rs) : x.tabs # <<>>,
         NEW pane, Sound(pane), pane.tabs # <<>>, pane.id \notin Ids(rs),
         NEW r \in 1 .. Len(rs), Len(rs[r]) < MAX_COLS, NEW at \in 1 .. Len(rs[r]) + 1
  PROVE  /\ Grid([rs EXCEPT ![r] = InsertAt(@, at, pane)])
         /\ Panes([rs EXCEPT ![r] = InsertAt(@, at, pane)]) = Panes(rs) \cup {pane}
  <1> DEFINE n == Len(rs)
             c == Len(rs[r])
             row == InsertAt(rs[r], at, pane)
             new == [rs EXCEPT ![r] = row]
             Was(i, k) == IF i = r /\ k > at THEN k - 1 ELSE k
  <1>1. /\ n \in Nat /\ DOMAIN rs = 1 .. n /\ n \in 1 .. MAX_ROWS /\ r \in 1 .. n
        /\ \A i \in 1 .. n : /\ rs[i] \in Seq(PaneType)
                             /\ Len(rs[i]) \in Nat /\ DOMAIN rs[i] = 1 .. Len(rs[i])
                             /\ Len(rs[i]) \in 1 .. MAX_COLS
                             /\ \A k \in 1 .. Len(rs[i]) : rs[i][k] \in PaneType /\ rs[i][k] \in Panes(rs)
    BY CellFacts, GridConstants DEF Grid, Sized
  <1>2. c \in Nat /\ at \in 1 .. c + 1 /\ pane \in PaneType
    BY <1>1 DEF Sound
  <1>3. /\ row \in Seq(PaneType) /\ Len(row) = c + 1
        /\ \A k \in 1 .. c + 1 : row[k] = IF k < at THEN rs[r][k] ELSE IF k = at THEN pane ELSE rs[r][k - 1]
    BY <1>1, <1>2, InsertFacts
  <1> HIDE DEF row
  <1>4. new = [i \in 1 .. n |-> IF i = r THEN row ELSE rs[i]]
    BY <1>1
  <1> HIDE DEF new, n
  <1>5. DOMAIN new = 1 .. n /\ \A i \in 1 .. n : new[i] = IF i = r THEN row ELSE rs[i]
    BY <1>4
  <1>6. new \in Seq(Seq(PaneType)) /\ Len(new) = n
    BY <1>1, <1>3, <1>4, <1>5
  <1>7. \A i \in 1 .. n : /\ DOMAIN new[i] = 1 .. Len(new[i])
                          /\ Len(new[i]) = IF i = r THEN c + 1 ELSE Len(rs[i])
    BY <1>1, <1>3, <1>5, LenProperties
  <1>8. Sized(new)
    <2>1. \A i \in 1 .. n : Len(new[i]) \in 1 .. MAX_COLS
      <3> SUFFICES ASSUME NEW i \in 1 .. n PROVE Len(new[i]) \in 1 .. MAX_COLS
        OBVIOUS
      <3>1. CASE i = r
        <4>1. c + 1 \in 1 .. MAX_COLS
          BY <1>2, GridConstants DEF c
        <4> QED
          BY <1>7, <3>1, <4>1
      <3>2. CASE i # r
        BY <1>1, <1>7, <3>2
      <3> QED
        BY <3>1, <3>2
    <2> QED
      BY <1>1, <1>5, <1>6, <2>1 DEF Sized
  <1> HIDE DEF c
  <1>9. ASSUME NEW i \in 1 .. n, NEW k \in 1 .. Len(new[i])
        PROVE  \/ i = r /\ k = at /\ new[i][k] = pane
               \/ /\ ~(i = r /\ k = at) /\ Was(i, k) \in 1 .. Len(rs[i])
                  /\ new[i][k] = rs[i][Was(i, k)] /\ new[i][k] \in Panes(rs)
    <2>1. CASE i # r
      <3>1. new[i] = rs[i] /\ Was(i, k) = k /\ k \in 1 .. Len(rs[i])
        BY <1>5, <2>1
      <3> QED
        BY <1>1, <2>1, <3>1
    <2>2. CASE i = r
      <3>1. new[i] = row /\ k \in 1 .. c + 1 /\ Len(rs[i]) = c
        BY <1>3, <1>5, <2>2 DEF c
      <3>2. CASE k = at
        BY <1>3, <2>2, <3>1, <3>2
      <3>3. CASE k # at
        <4>1. Was(i, k) \in 1 .. c /\ row[k] = rs[r][Was(i, k)]
          BY <1>2, <1>3, <2>2, <3>1, <3>3
        <4> QED
          BY <1>1, <2>2, <3>1, <3>3, <4>1
      <3> QED
        BY <3>2, <3>3
    <2> QED
      BY <2>1, <2>2
  <1>10. \A x \in Panes(rs) : x.id # pane.id
    BY DEF Ids
  <1>11. Apart(new)
    <2> SUFFICES ASSUME NEW i \in 1 .. n, NEW j \in 1 .. n, NEW k \in 1 .. Len(new[i]), NEW l \in 1 .. Len(new[j]),
                        new[i][k].id = new[j][l].id
                 PROVE  i = j /\ k = l
      BY <1>5, <1>7 DEF Apart
    <2>1. (i = r /\ k = at) <=> (j = r /\ l = at)
      BY <1>9, <1>10
    <2>2. CASE ~(i = r /\ k = at)
      <3>1. /\ Was(i, k) \in 1 .. Len(rs[i]) /\ Was(j, l) \in 1 .. Len(rs[j])
            /\ rs[i][Was(i, k)].id = rs[j][Was(j, l)].id
        <4>1. Was(i, k) \in 1 .. Len(rs[i]) /\ new[i][k] = rs[i][Was(i, k)]
          BY <1>9, <2>2
        <4>2. Was(j, l) \in 1 .. Len(rs[j]) /\ new[j][l] = rs[j][Was(j, l)]
          BY <1>9, <2>1, <2>2
        <4> HIDE DEF Was
        <4> QED
          BY <4>1, <4>2
      <3>2. /\ i \in DOMAIN rs /\ j \in DOMAIN rs
            /\ Was(i, k) \in DOMAIN rs[i] /\ Was(j, l) \in DOMAIN rs[j]
        BY <1>1, <3>1
      <3>3. i = j /\ Was(i, k) = Was(j, l)
        BY <3>1, <3>2 DEF Grid, Apart
      <3>4. k \in Nat /\ l \in Nat /\ at \in Nat
        BY <1>2, <1>6, <1>7, <1>1
      <3> QED
        BY <2>1, <2>2, <3>3, <3>4
    <2> QED
      BY <2>1, <2>2
  <1>12. Panes(new) = Panes(rs) \cup {pane}
    <2>1. ASSUME NEW x \in Panes(new) PROVE x \in Panes(rs) \cup {pane}
      <3>1. PICK i \in 1 .. n : \E k \in 1 .. Len(new[i]) : new[i][k] = x
        BY <1>5, <1>7, <2>1 DEF Panes
      <3> QED
        BY <1>9, <3>1
    <2>2. ASSUME NEW i \in 1 .. n, NEW k \in 1 .. Len(new[i]) PROVE new[i][k] \in Panes(new)
      BY <1>5, <1>7 DEF Panes
    <2>3. pane \in Panes(new)
      <3>1. at \in 1 .. Len(new[r]) /\ new[r][at] = pane
        BY <1>1, <1>2, <1>3, <1>5, <1>7
      <3> QED
        BY <1>1, <2>2, <3>1
    <2>4. ASSUME NEW x \in Panes(rs) PROVE x \in Panes(new)
      <3>1. PICK i \in 1 .. n : \E k \in 1 .. Len(rs[i]) : rs[i][k] = x
        BY CellFacts DEF Grid, n
      <3>2. PICK k \in 1 .. Len(rs[i]) : rs[i][k] = x
        BY <3>1
      <3>3. CASE i # r
        <4>1. k \in 1 .. Len(new[i]) /\ new[i][k] = x
          BY <1>5, <1>7, <3>2, <3>3
        <4> QED
          BY <2>2, <4>1
      <3>4. CASE i = r
        <4> DEFINE l == IF k < at THEN k ELSE k + 1
        <4>1. l \in 1 .. c + 1 /\ row[l] = rs[r][k]
          BY <1>2, <1>3, <3>4 DEF c
        <4>2. l \in 1 .. Len(new[i]) /\ new[i][l] = x
          BY <1>5, <1>7, <3>2, <3>4, <4>1
        <4> QED
          BY <2>2, <4>2
      <3> QED
        BY <3>3, <3>4
    <2> QED
      BY <2>1, <2>3, <2>4
  <1>13. Filled(new)
    <2> SUFFICES ASSUME NEW x \in Panes(new) PROVE Sound(x) /\ x.tabs # <<>>
      BY DEF Filled
    <2> QED
      BY <1>12 DEF Grid, Filled
  <1> QED
    BY <1>8, <1>11, <1>12, <1>13 DEF Grid, new, row

\* A row more, of one pane.
LEMMA RowAdded ==
  ASSUME NEW rs, Grid(rs), \A x \in Panes(rs) : x.tabs # <<>>,
         NEW pane, Sound(pane), pane.tabs # <<>>, pane.id \notin Ids(rs),
         Len(rs) < MAX_ROWS, NEW at \in 1 .. Len(rs) + 1
  PROVE  /\ Grid(InsertAt(rs, at, <<pane>>))
         /\ Panes(InsertAt(rs, at, <<pane>>)) = Panes(rs) \cup {pane}
  <1> DEFINE n == Len(rs)
             row == <<pane>>
             new == InsertAt(rs, at, row)
             Was(i) == IF i < at THEN i ELSE i - 1
  <1>0. /\ n \in Nat /\ DOMAIN rs = 1 .. n /\ rs \in Seq(Seq(PaneType))
        /\ \A i \in 1 .. n : /\ rs[i] \in Seq(PaneType)
                             /\ Len(rs[i]) \in Nat /\ DOMAIN rs[i] = 1 .. Len(rs[i])
                             /\ Len(rs[i]) \in 1 .. MAX_COLS
                             /\ \A k \in 1 .. Len(rs[i]) : rs[i][k] \in PaneType /\ rs[i][k] \in Panes(rs)
    BY CellFacts, GridConstants DEF Grid, Sized
  <1>1. n + 1 \in 1 .. MAX_ROWS /\ at \in 1 .. n + 1
    BY <1>0, GridConstants
  <1>2. row \in Seq(PaneType) /\ Len(row) = 1 /\ DOMAIN row = 1 .. 1 /\ row[1] = pane
    BY DEF Sound
  <1> HIDE DEF row
  <1>3. /\ new \in Seq(Seq(PaneType)) /\ Len(new) = n + 1
        /\ \A i \in 1 .. n + 1 : new[i] = IF i < at THEN rs[i] ELSE IF i = at THEN row ELSE rs[i - 1]
    <2> DEFINE T == Seq(PaneType)
    <2>1. rs \in Seq(T) /\ row \in T /\ at \in 1 .. Len(rs) + 1
      BY <1>0, <1>2
    <2> HIDE DEF T
    <2>2. /\ new \in Seq(T) /\ Len(new) = Len(rs) + 1
          /\ \A i \in 1 .. Len(rs) + 1 :
               new[i] = IF i < at THEN rs[i] ELSE IF i = at THEN row ELSE rs[i - 1]
      BY <2>1, InsertFacts
    <2> QED
      BY <2>2 DEF T
  <1> HIDE DEF new, n
  <1>4. DOMAIN new = 1 .. n + 1
    BY <1>3, LenProperties
  <1>5. ASSUME NEW i \in 1 .. n + 1
        PROVE  \/ i = at /\ new[i] = row
               \/ i # at /\ Was(i) \in 1 .. n /\ new[i] = rs[Was(i)]
    BY <1>0, <1>1, <1>3
  <1> HIDE DEF Was
  <1>6. 1 \in 1 .. MAX_COLS
    BY GridConstants
  <1>7. Sized(new)
    <2>1. \A i \in 1 .. n + 1 : Len(new[i]) \in 1 .. MAX_COLS
      <3> SUFFICES ASSUME NEW i \in 1 .. n + 1 PROVE Len(new[i]) \in 1 .. MAX_COLS
        OBVIOUS
      <3>1. CASE i = at
        BY <1>2, <1>5, <1>6, <3>1
      <3>2. CASE i # at
        BY <1>0, <1>1, <1>5, <3>2
      <3> QED
        BY <3>1, <3>2
    <2> QED
      BY <1>0, <1>1, <1>3, <1>4, <2>1 DEF Sized
  <1>8. \A x \in Panes(rs) : x.id # pane.id
    BY DEF Ids
  <1>9. ASSUME NEW i \in 1 .. n + 1, NEW k \in DOMAIN new[i]
        PROVE  \/ i = at /\ k = 1 /\ new[i][k] = pane
               \/ /\ i # at /\ Was(i) \in 1 .. n /\ k \in DOMAIN rs[Was(i)]
                  /\ new[i][k] = rs[Was(i)][k] /\ new[i][k] \in Panes(rs)
    <2>1. CASE i = at
      <3>1. k \in 1 .. 1 /\ new[i] = row
        BY <1>2, <1>5, <2>1
      <3>2. k = 1
        BY <3>1
      <3> QED
        BY <1>2, <2>1, <3>1, <3>2
    <2>2. CASE i # at
      BY <1>0, <1>1, <1>5, <2>2
    <2> QED
      BY <2>1, <2>2
  <1>10. Apart(new)
    <2> SUFFICES ASSUME NEW i \in 1 .. n + 1, NEW j \in 1 .. n + 1,
                        NEW k \in DOMAIN new[i], NEW l \in DOMAIN new[j], new[i][k].id = new[j][l].id
                 PROVE  i = j /\ k = l
      BY <1>4 DEF Apart
    <2>1. CASE i = at
      <3>1. k = 1 /\ new[i][k] = pane
        BY <1>9, <2>1
      <3>2. new[j][l].id = pane.id
        BY <3>1
      <3>3. j = at /\ l = 1
        BY <1>8, <1>9, <3>2
      <3> QED
        BY <2>1, <3>1, <3>3
    <2>2. CASE i # at
      <3>1. Was(i) \in 1 .. n /\ k \in DOMAIN rs[Was(i)] /\ new[i][k] = rs[Was(i)][k] /\ new[i][k] \in Panes(rs)
        BY <1>9, <2>2
      <3>2. j # at
        BY <1>8, <1>9, <3>1
      <3>3. Was(j) \in 1 .. n /\ l \in DOMAIN rs[Was(j)] /\ new[j][l] = rs[Was(j)][l]
        BY <1>9, <3>2
      <3>4. Was(i) = Was(j) /\ k = l
        BY <1>0, <1>1, <3>1, <3>3 DEF Grid, Apart
      <3>5. i = j
        BY <1>0, <1>1, <2>2, <3>2, <3>4 DEF Was
      <3> QED
        BY <3>4, <3>5
    <2> QED
      BY <2>1, <2>2
  <1>11. Panes(new) = Panes(rs) \cup {pane}
    <2>1. ASSUME NEW x \in Panes(new) PROVE x \in Panes(rs) \cup {pane}
      <3>1. PICK i \in 1 .. n + 1 : \E k \in DOMAIN new[i] : new[i][k] = x
        BY <1>4, <2>1 DEF Panes
      <3> QED
        BY <1>9, <3>1
    <2>2. pane \in Panes(new)
      <3>1. new[at] = row
        BY <1>0, <1>1, <1>3
      <3>2. at \in DOMAIN new /\ 1 \in DOMAIN new[at] /\ new[at][1] = pane
        BY <1>0, <1>1, <1>2, <1>4, <3>1
      <3> QED
        BY <3>2 DEF Panes
    <2>3. ASSUME NEW x \in Panes(rs) PROVE x \in Panes(new)
      <3>1. PICK i \in 1 .. n : \E k \in DOMAIN rs[i] : rs[i][k] = x
        BY <1>0, <1>1, <2>3 DEF Panes
      <3> DEFINE l == IF i < at THEN i ELSE i + 1
      <3>2. l \in 1 .. n + 1 /\ new[l] = rs[i]
        BY <1>0, <1>1, <1>3
      <3> QED
        BY <1>4, <3>1, <3>2 DEF Panes
    <2> QED
      BY <2>1, <2>2, <2>3
  <1>12. Filled(new)
    <2> SUFFICES ASSUME NEW x \in Panes(new) PROVE Sound(x) /\ x.tabs # <<>>
      BY DEF Filled
    <2> QED
      BY <1>0, <1>11 DEF Grid, Filled
  <1> QED
    BY <1>7, <1>10, <1>11, <1>12 DEF Grid, new, row

---------------------------------------------------------------------------
(* The drafts of a grid.                                                   *)

LEMMA GridDrafts ==
  ASSUME NEW rs, Grid(rs)
  PROVE  /\ \A d \in Drafts(rs) : d = <<d[1], d[2]>>
         /\ \A i, p : <<i, p>> \in Drafts(rs)
              <=> \E pane \in Panes(rs) : pane.id = i /\ p \in DraftsIn(pane.tabs)
  <1> DEFINE In(pane) == {<<pane.id, t.path>> : t \in {u \in Range(pane.tabs) : u.dirty}}
  <1>1. Drafts(rs) = UNION {In(pane) : pane \in Panes(rs)}
    BY DEF Drafts
  <1>2. \A pane \in Panes(rs) : DraftsIn(pane.tabs) = {t.path : t \in {u \in Range(pane.tabs) : u.dirty}}
    BY DraftFacts DEF Grid, Filled, Sound, Proper
  <1>3. \A pane \in Panes(rs) : /\ \A d \in In(pane) : d = <<d[1], d[2]>>
                                /\ \A i, p : <<i, p>> \in In(pane) <=> pane.id = i /\ p \in DraftsIn(pane.tabs)
    <2> SUFFICES ASSUME NEW pane \in Panes(rs)
                 PROVE  /\ \A d \in In(pane) : d = <<d[1], d[2]>>
                        /\ \A i, p : <<i, p>> \in In(pane) <=> pane.id = i /\ p \in DraftsIn(pane.tabs)
      OBVIOUS
    <2> DEFINE U == {u \in Range(pane.tabs) : u.dirty}
    <2>1. DraftsIn(pane.tabs) = {t.path : t \in U} /\ In(pane) = {<<pane.id, t.path>> : t \in U}
      BY <1>2
    <2> HIDE DEF U, In
    <2> QED
      BY <2>1
  <1> HIDE DEF In
  <1> QED
    BY <1>1, <1>3

LEMMA PaneDrafts ==
  ASSUME NEW rs, Grid(rs), NEW id \in Ids(rs)
  PROVE  \A p : <<id, p>> \in Drafts(rs) <=> p \in DraftsIn(PaneOf(rs, id).tabs)
  BY GridDrafts, PaneOfFacts

LEMMA DraftPanes ==
  ASSUME NEW rs, Grid(rs), NEW i, NEW p, <<i, p>> \in Drafts(rs)
  PROVE  i \in Ids(rs) /\ p \in PathsIn(PaneOf(rs, i).tabs)
  <1>1. PICK pane \in Panes(rs) : pane.id = i /\ p \in DraftsIn(pane.tabs)
    BY GridDrafts
  <1>2. i \in Ids(rs)
    BY <1>1 DEF Ids
  <1>3. pane = PaneOf(rs, i) /\ Sound(pane)
    BY <1>1, <1>2, PaneOfFacts
  <1> QED
    BY <1>1, <1>2, <1>3, DraftFacts DEF Sound, Proper

LEMMA DraftsWith ==
  ASSUME NEW rs, Grid(rs), NEW id \in Ids(rs),
         NEW pane, Sound(pane), pane.id = id, pane.tabs # <<>>
  PROVE  \A i, p : <<i, p>> \in Drafts(WithPane(rs, id, pane))
                     <=> IF i = id THEN p \in DraftsIn(pane.tabs) ELSE <<i, p>> \in Drafts(rs)
  <1> DEFINE W == WithPane(rs, id, pane)
  <1>1. Grid(W) /\ Panes(W) = {x \in Panes(rs) : x.id # id} \cup {pane}
    BY WithPaneFacts
  <1>2. \A i, p : <<i, p>> \in Drafts(W) <=> \E x \in Panes(W) : x.id = i /\ p \in DraftsIn(x.tabs)
    BY <1>1, GridDrafts
  <1>3. \A i, p : <<i, p>> \in Drafts(rs) <=> \E x \in Panes(rs) : x.id = i /\ p \in DraftsIn(x.tabs)
    BY GridDrafts
  <1> HIDE DEF W
  <1>4. \A i, p : <<i, p>> \in Drafts(W) <=> IF i = id THEN p \in DraftsIn(pane.tabs) ELSE <<i, p>> \in Drafts(rs)
    BY <1>1, <1>2, <1>3
  <1> QED
    BY <1>4 DEF W

LEMMA DraftsDropped ==
  ASSUME NEW rs, Grid(rs), NEW id \in Ids(rs), NEW i, NEW p, i # id, <<i, p>> \in Drafts(rs)
  PROVE  <<i, p>> \in Drafts(DropPane(rs, id))
  <1>1. Grid(DropPane(rs, id)) /\ {x \in Panes(rs) : x.id # id} \subseteq Panes(DropPane(rs, id))
    BY DropPaneFacts
  <1>2. PICK x \in Panes(rs) : x.id = i /\ p \in DraftsIn(x.tabs)
    BY GridDrafts
  <1>3. x \in Panes(DropPane(rs, id))
    BY <1>1, <1>2
  <1> QED
    BY <1>1, <1>2, <1>3, GridDrafts

\* What the tab a handler acts on is.
LEMMA TabOfFacts ==
  ASSUME NEW rs, Grid(rs), NEW id \in Ids(rs), NEW p \in PathsIn(PaneOf(rs, id).tabs)
  PROVE  /\ TabOf(rs, id, p) \in TabType /\ TabOf(rs, id, p).path = p /\ p \in Files
         /\ TabOf(rs, id, p).dirty \in BOOLEAN
         /\ TabOf(rs, id, p).dirty => TabOf(rs, id, p).pinned
         /\ TabOf(rs, id, p).dirty <=> <<id, p>> \in Drafts(rs)
         /\ Has(rs, id, p) /\ PaneOf(rs, id).tabs # <<>>
  <1> DEFINE tabs == PaneOf(rs, id).tabs
             i == Index(tabs, p)
  <1>1. Proper(tabs) /\ tabs \in Seq(TabType)
    BY PaneOfFacts DEF Sound, Proper
  <1>2. i \in 1 .. Len(tabs) /\ tabs[i].path = p
    BY <1>1, IndexFacts
  <1>3. TabOf(rs, id, p) = tabs[i]
    BY DEF TabOf
  <1> HIDE DEF tabs, i
  <1>4. DOMAIN tabs = 1 .. Len(tabs) /\ tabs # <<>> /\ tabs[i] \in TabType
    BY <1>1, <1>2, TabFacts DEF tabs
  <1>5. tabs[i].dirty => tabs[i].pinned
    BY <1>1, <1>2, <1>4 DEF Proper, PinsDrafts
  <1>6. p \in DraftsIn(tabs) <=> tabs[i].dirty
    <2>1. \A j \in 1 .. Len(tabs) : tabs[j].path = p => j = i
      BY <1>1, <1>2, <1>4 DEF Proper, Once
    <2> QED
      BY <1>1, <1>2, <2>1, DraftFacts
  <1>7. p \in DraftsIn(tabs) <=> <<id, p>> \in Drafts(rs)
    BY PaneDrafts DEF tabs
  <1>8. tabs[i].dirty \in BOOLEAN /\ p \in Files
    BY <1>2, <1>4 DEF TabType
  <1>9. Has(rs, id, p)
    BY DEF Has
  <1> QED
    BY <1>2, <1>3, <1>4, <1>5, <1>6, <1>7, <1>8, <1>9 DEF tabs

\* Drafts that stay where they are, and one that moves to a place that had none.
Follow(D, E) == \E kept \in Injection(D, E) : \A d \in D : kept[d][2] = d[2]

LEMMA AllFollow ==
  ASSUME NEW D, NEW E, D \subseteq E
  PROVE  Follow(D, E)
  <1> DEFINE kept == [d \in D |-> d]
  <1>1. kept \in Injection(D, E) /\ \A d \in D : kept[d][2] = d[2]
    BY DEF Injection, IsInjective
  <1> QED
    BY <1>1 DEF Follow

LEMMA OneMoves ==
  ASSUME NEW D, NEW E, NEW a, NEW b, D \ {a} \subseteq E, b \in E, b \notin D, b[2] = a[2]
  PROVE  Follow(D, E)
  <1> DEFINE kept == [d \in D |-> IF d = a THEN b ELSE d]
  <1>1. kept \in [D -> E]
    OBVIOUS
  <1>2. \A d, e \in D : kept[d] = kept[e] => d = e
    OBVIOUS
  <1>3. \A d \in D : kept[d][2] = d[2]
    OBVIOUS
  <1> HIDE DEF kept
  <1>4. kept \in Injection(D, E)
    BY <1>1, <1>2 DEF Injection, IsInjective
  <1> QED
    BY <1>3, <1>4 DEF Follow

---------------------------------------------------------------------------
(* The operations, one by one.                                             *)

Keeps(rs, new) == Grid(new) /\ Drafts(rs) \subseteq Drafts(new)

LEMMA KeepsSame ==
  ASSUME NEW rs, Grid(rs) PROVE Keeps(rs, rs)
  BY DEF Keeps

\* A pane with other tabs, one of them shown.
Showing(pane, tabs, a) == [pane EXCEPT !.tabs = tabs, !.active = a]

LEMMA PaneMade ==
  ASSUME NEW pane \in PaneType, NEW tabs, Proper(tabs), NEW a \in PathsIn(tabs)
  PROVE  /\ Sound(Showing(pane, tabs, a)) /\ Showing(pane, tabs, a).id = pane.id
         /\ Showing(pane, tabs, a).tabs = tabs /\ tabs # <<>>
  <1>1. tabs # <<>> /\ a \in Files /\ tabs \in Seq(TabType)
    BY TabFacts DEF Proper
  <1> QED
    BY <1>1 DEF Sound, PaneType, Showing

LEMMA KeepsWith ==
  ASSUME NEW rs, Grid(rs), NEW id \in Ids(rs), NEW pane, Sound(pane), pane.id = id, pane.tabs # <<>>,
         DraftsIn(PaneOf(rs, id).tabs) \subseteq DraftsIn(pane.tabs)
  PROVE  Keeps(rs, WithPane(rs, id, pane))
  <1> DEFINE W == WithPane(rs, id, pane)
  <1>1. Grid(W)
    BY WithPaneFacts
  <1>2. \A i, p : <<i, p>> \in Drafts(W) <=> IF i = id THEN p \in DraftsIn(pane.tabs) ELSE <<i, p>> \in Drafts(rs)
    BY DraftsWith
  <1> HIDE DEF W
  <1>3. ASSUME NEW d \in Drafts(rs) PROVE d \in Drafts(W)
    <2>1. d = <<d[1], d[2]>>
      BY GridDrafts
    <2> DEFINE i == d[1]
               p == d[2]
    <2>2. d = <<i, p>> /\ <<i, p>> \in Drafts(rs)
      BY <2>1
    <2> HIDE DEF i, p
    <2>3. i = id => p \in DraftsIn(PaneOf(rs, id).tabs)
      BY <2>2, PaneDrafts
    <2>4. <<i, p>> \in Drafts(W)
      BY <1>2, <2>2, <2>3
    <2> QED
      BY <2>2, <2>4
  <1> QED
    BY <1>1, <1>3 DEF Keeps, W

\* openFile: no draft is replaced, as a draft is pinned.
LEMMA PlacedFacts ==
  ASSUME NEW pane, Sound(pane), NEW p \in Files, p \notin PathsIn(pane.tabs), NEW pin \in BOOLEAN
  PROVE  /\ Proper(Placed(pane, p, pin)) /\ p \in PathsIn(Placed(pane, p, pin))
         /\ DraftsIn(pane.tabs) \subseteq DraftsIn(Placed(pane, p, pin))
  <1> DEFINE tab == Tab(p, pin)
             n == Len(pane.tabs)
             i == FirstOf(Previews(pane))
  <1>1. tab \in TabType /\ tab.path = p /\ tab.dirty = FALSE
    BY DEF TabType, Tab
  <1>2. Proper(pane.tabs) /\ pane.tabs \in Seq(TabType) /\ n \in Nat /\ DOMAIN pane.tabs = 1 .. n
    BY TabFacts DEF Sound, Proper
  <1> HIDE DEF tab, n
  <1>3. CASE ~pin /\ Previews(pane) # {}
    <2>1. Previews(pane) \subseteq Nat
      BY <1>2 DEF Previews
    <2>2. i \in Previews(pane)
      BY <1>3, <2>1, FirstFacts
    <2> HIDE DEF i
    <2>3. i \in 1 .. n /\ ~pane.tabs[i].pinned
      BY <1>2, <2>2 DEF Previews
    <2>4. ~pane.tabs[i].dirty
      BY <1>2, <2>3 DEF Proper, PinsDrafts
    <2>5. Placed(pane, p, pin) = ReplaceAt(pane.tabs, i, tab)
      BY <1>3 DEF Placed, tab, i
    <2> QED
      BY <1>1, <1>2, <2>3, <2>4, <2>5, ReplaceFacts DEF n
  <1>4. CASE ~(~pin /\ Previews(pane) # {})
    <2>1. Placed(pane, p, pin) = Append(pane.tabs, tab)
      BY <1>4, Zenon DEF Placed, tab
    <2>2. n + 1 \in 1 .. n + 1
      BY <1>2
    <2>3. Append(pane.tabs, tab) = InsertAt(pane.tabs, n + 1, tab)
      BY <1>1, <1>2, <2>2, AppendInserts DEF n
    <2>4. /\ Proper(InsertAt(pane.tabs, n + 1, tab))
          /\ PathsIn(InsertAt(pane.tabs, n + 1, tab)) = PathsIn(pane.tabs) \cup {p}
          /\ DraftsIn(pane.tabs) \subseteq DraftsIn(InsertAt(pane.tabs, n + 1, tab))
      BY <1>1, <1>2, <2>2, TabInserted DEF n
    <2> QED
      BY <2>1, <2>3, <2>4
  <1> QED
    BY <1>3, <1>4

LEMMA ShownFacts ==
  ASSUME NEW pane, Sound(pane), NEW p \in Files, NEW pin \in BOOLEAN
  PROVE  /\ Sound(Shown(pane, p, pin)) /\ Shown(pane, p, pin).id = pane.id
         /\ Shown(pane, p, pin).tabs # <<>>
         /\ DraftsIn(pane.tabs) \subseteq DraftsIn(Shown(pane, p, pin).tabs)
  <1>1. pane \in PaneType /\ Proper(pane.tabs)
    BY DEF Sound
  <1>2. CASE p \in PathsIn(pane.tabs)
    <2> DEFINE tabs == Pinning(pane.tabs, p, pin)
    <2>1. Proper(tabs) /\ p \in PathsIn(tabs) /\ DraftsIn(tabs) = DraftsIn(pane.tabs)
      BY <1>1, <1>2, PinningFacts
    <2>2. Shown(pane, p, pin) = [pane EXCEPT !.active = p, !.tabs = tabs]
      <3>1. Shown(pane, p, pin) = [pane EXCEPT !.active = p,
                     !.tabs = [i \in DOMAIN @ |-> IF @[i].path = p /\ pin
                                                   THEN [@[i] EXCEPT !.pinned = TRUE] ELSE @[i]]]
        BY <1>2, Zenon DEF Shown
      <3> QED
        BY <1>1, <3>1 DEF PaneType, Pinning
    <2> HIDE DEF tabs
    <2>3. Shown(pane, p, pin) = Showing(pane, tabs, p)
      BY <1>1, <2>2 DEF Showing, PaneType
    <2> QED
      BY <1>1, <2>1, <2>3, PaneMade
  <1>3. CASE p \notin PathsIn(pane.tabs)
    <2> DEFINE tabs == Placed(pane, p, pin)
    <2>1. Proper(tabs) /\ p \in PathsIn(tabs) /\ DraftsIn(pane.tabs) \subseteq DraftsIn(tabs)
      BY <1>3, PlacedFacts
    <2>2. Shown(pane, p, pin) = [pane EXCEPT !.active = p, !.tabs = tabs]
      BY <1>3, Zenon DEF Shown
    <2> HIDE DEF tabs
    <2>3. Shown(pane, p, pin) = Showing(pane, tabs, p)
      BY <1>1, <2>2 DEF Showing, PaneType
    <2> QED
      BY <1>1, <2>1, <2>3, PaneMade
  <1> QED
    BY <1>2, <1>3

LEMMA OpenKeeps ==
  ASSUME NEW rs, Grid(rs), NEW id \in Ids(rs), NEW p \in Files, NEW pin \in BOOLEAN
  PROVE  Keeps(rs, WithPane(rs, id, Shown(PaneOf(rs, id), p, pin)))
  BY PaneOfFacts, ShownFacts, KeepsWith

\* setActive, on a tab of the pane.
LEMMA ActivateKeeps ==
  ASSUME NEW rs, Grid(rs), NEW id \in Ids(rs), NEW p \in PathsIn(PaneOf(rs, id).tabs)
  PROVE  Keeps(rs, WithPane(rs, id, [PaneOf(rs, id) EXCEPT !.active = p]))
  <1> DEFINE pane == PaneOf(rs, id)
             new == [pane EXCEPT !.active = p]
  <1>1. Sound(pane) /\ pane.id = id /\ pane \in PaneType /\ p \in Files
    BY PaneOfFacts, TabOfFacts DEF Sound
  <1>2. pane.tabs # <<>> /\ p \in PathsIn(pane.tabs)
    BY TabOfFacts
  <1> HIDE DEF pane
  <1>3. Sound(new) /\ new.id = id /\ new.tabs = pane.tabs
    BY <1>1, <1>2 DEF Sound, PaneType
  <1> HIDE DEF new
  <1>4. Keeps(rs, WithPane(rs, id, new))
    BY <1>2, <1>3, KeepsWith DEF pane
  <1> QED
    BY <1>4 DEF new, pane

\* A tab written over: its draft may go, no other does.
LEMMA PatchTabFacts ==
  ASSUME NEW rs, Grid(rs), NEW id \in Ids(rs), NEW p \in PathsIn(PaneOf(rs, id).tabs),
         NEW tab \in TabType, tab.path = p, tab.dirty => tab.pinned
  PROVE  /\ Grid(PatchTab(rs, id, p, tab))
         /\ (TabOf(rs, id, p).dirty => tab.dirty) => Keeps(rs, PatchTab(rs, id, p, tab))
  <1> DEFINE pane == PaneOf(rs, id)
             tabs == Patch(pane.tabs, p, tab)
             new == [pane EXCEPT !.tabs = tabs]
  <1>1. Sound(pane) /\ pane.id = id /\ pane \in PaneType /\ Proper(pane.tabs)
    BY PaneOfFacts DEF Sound
  <1>2. pane.tabs # <<>> /\ p \in PathsIn(pane.tabs)
    BY TabOfFacts
  <1>3. TabOf(rs, id, p).dirty <=> p \in DraftsIn(pane.tabs)
    BY TabOfFacts, PaneDrafts
  <1>4. PatchTab(rs, id, p, tab) = WithPane(rs, id, new)
    BY <1>1 DEF PatchTab, PaneType
  <1> HIDE DEF pane
  <1>5. /\ Proper(tabs) /\ PathsIn(tabs) = PathsIn(pane.tabs)
        /\ \A x : x # p => (x \in DraftsIn(tabs) <=> x \in DraftsIn(pane.tabs))
        /\ tab.dirty => p \in DraftsIn(tabs)
    BY <1>1, <1>2, PatchFacts
  <1> HIDE DEF tabs
  <1>6. Sound(new) /\ new.id = id /\ new.tabs = tabs
    BY <1>1, <1>2, <1>5 DEF Sound, PaneType, Proper
  <1>7. tabs # <<>>
    BY <1>2, <1>5, TabFacts DEF Proper
  <1> HIDE DEF new
  <1>8. Grid(WithPane(rs, id, new))
    BY <1>6, <1>7, WithPaneFacts
  <1>9. ASSUME TabOf(rs, id, p).dirty => tab.dirty PROVE Keeps(rs, WithPane(rs, id, new))
    <2>1. DraftsIn(pane.tabs) \subseteq DraftsIn(tabs)
      BY <1>3, <1>5, <1>9
    <2> QED
      BY <1>6, <1>7, <2>1, KeepsWith DEF pane
  <1> QED
    BY <1>4, <1>8, <1>9

\* Tabs taken from a pane: the pane goes with its last one, the other panes stay.
Leaving(rs, pane, tabs, a) ==
  IF tabs = <<>> THEN DropPane(rs, pane.id) ELSE WithPane(rs, pane.id, Showing(pane, tabs, a))

LEMMA LeavingFacts ==
  ASSUME NEW rs, Grid(rs), NEW pane \in PaneType, pane.id \in Ids(rs),
         NEW tabs, Proper(tabs), NEW a, PathsIn(tabs) # {} => a \in PathsIn(tabs)
  PROVE  /\ Grid(Leaving(rs, pane, tabs, a))
         /\ \A i, p : i # pane.id /\ <<i, p>> \in Drafts(rs) => <<i, p>> \in Drafts(Leaving(rs, pane, tabs, a))
         /\ \A p \in DraftsIn(tabs) : <<pane.id, p>> \in Drafts(Leaving(rs, pane, tabs, a))
  <1> DEFINE id == pane.id
             new == Showing(pane, tabs, a)
             R == Leaving(rs, pane, tabs, a)
  <1>1. tabs \in Seq(TabType) /\ (tabs = <<>> <=> PathsIn(tabs) = {}) /\ DraftsIn(tabs) \subseteq PathsIn(tabs)
    BY TabFacts, DraftFacts DEF Proper
  <1>2. CASE tabs = <<>>
    <2>1. R = DropPane(rs, id)
      BY <1>2 DEF Leaving
    <2> HIDE DEF R, id
    <2>2. Grid(R)
      BY <2>1, DropPaneFacts DEF id
    <2>3. \A i, p : i # id /\ <<i, p>> \in Drafts(rs) => <<i, p>> \in Drafts(R)
      BY <2>1, DraftsDropped DEF id
    <2>4. DraftsIn(tabs) = {}
      BY <1>1, <1>2
    <2> QED
      BY <2>2, <2>3, <2>4 DEF id, R
  <1>3. CASE tabs # <<>>
    <2>1. R = WithPane(rs, id, new)
      BY <1>3 DEF Leaving
    <2>2. Sound(new) /\ new.id = id /\ new.tabs = tabs
      BY <1>1, <1>3, PaneMade
    <2> HIDE DEF R, id, new
    <2>3. Grid(R)
      BY <1>3, <2>1, <2>2, WithPaneFacts DEF id
    <2>4. \A i, p : <<i, p>> \in Drafts(R) <=> IF i = id THEN p \in DraftsIn(tabs) ELSE <<i, p>> \in Drafts(rs)
      BY <1>3, <2>1, <2>2, DraftsWith DEF id
    <2> QED
      BY <2>3, <2>4 DEF id, R
  <1> QED
    BY <1>2, <1>3

\* The drafts of other panes and of other paths stay.
LEMMA LeavingKeeps ==
  ASSUME NEW rs, Grid(rs), NEW id \in Ids(rs), NEW ps, NEW tabs, Proper(tabs),
         DraftsIn(PaneOf(rs, id).tabs) \ ps \subseteq DraftsIn(tabs),
         NEW a, PathsIn(tabs) # {} => a \in PathsIn(tabs)
  PROVE  /\ Grid(Leaving(rs, PaneOf(rs, id), tabs, a))
         /\ \A d \in Drafts(rs) : d \in Drafts(Leaving(rs, PaneOf(rs, id), tabs, a)) \/ (d[1] = id /\ d[2] \in ps)
  <1> DEFINE pane == PaneOf(rs, id)
             R == Leaving(rs, pane, tabs, a)
  <1>1. pane \in PaneType /\ pane.id = id
    BY PaneOfFacts DEF Sound
  <1> HIDE DEF pane
  <1>2. /\ Grid(R)
        /\ \A i, p : i # id /\ <<i, p>> \in Drafts(rs) => <<i, p>> \in Drafts(R)
        /\ \A p \in DraftsIn(tabs) : <<id, p>> \in Drafts(R)
    BY <1>1, LeavingFacts
  <1> HIDE DEF R
  <1>3. ASSUME NEW d \in Drafts(rs) PROVE d \in Drafts(R) \/ (d[1] = id /\ d[2] \in ps)
    <2> DEFINE i == d[1]
               p == d[2]
    <2>1. d = <<i, p>> /\ <<i, p>> \in Drafts(rs)
      BY GridDrafts
    <2> HIDE DEF i, p
    <2>2. CASE i # id
      <3>1. <<i, p>> \in Drafts(R)
        BY <1>2, <2>1, <2>2, Zenon
      <3>4. d \in Drafts(R)
        BY <2>1, <3>1
      <3> QED
        BY <3>4
    <2>3. CASE i = id /\ p \notin ps
      <3>1. p \in DraftsIn(pane.tabs)
        BY <2>1, <2>3, PaneDrafts DEF pane
      <3>2. p \in DraftsIn(tabs)
        BY <2>3, <3>1 DEF pane
      <3>3. <<i, p>> \in Drafts(R)
        BY <1>2, <2>3, <3>2, Zenon
      <3>4. d \in Drafts(R)
        BY <2>1, <3>3
      <3> QED
        BY <3>4
    <2> QED
      BY <2>2, <2>3 DEF i, p
  <1> QED
    BY <1>2, <1>3 DEF pane, R

\* closeTab, on any rows and whatever is there of the tab.
LEMMA AfterCloseFacts ==
  ASSUME NEW rs, Grid(rs), NEW id, NEW p
  PROVE  /\ Grid(AfterClose(rs, id, p))
         /\ <<id, p>> \notin Drafts(rs) => Keeps(rs, AfterClose(rs, id, p))
  <1>1. CASE ~Has(rs, id, p)
    BY <1>1, KeepsSame DEF AfterClose
  <1>2. CASE Has(rs, id, p)
    <2> DEFINE pane == PaneOf(rs, id)
               i == Index(pane.tabs, p)
               tabs == RemoveAt(pane.tabs, i)
               a == ActiveWithout(pane, p)
               R == Leaving(rs, pane, tabs, a)
    <2>1. id \in Ids(rs) /\ p \in PathsIn(pane.tabs)
      BY <1>2 DEF Has
    <2>2. Sound(pane) /\ pane.id = id /\ pane \in PaneType /\ Proper(pane.tabs)
      BY <2>1, PaneOfFacts DEF Sound
    <2>3. AfterClose(rs, id, p) = R
      BY <1>2, <2>2 DEF AfterClose, Leaving, Showing
    <2> HIDE DEF pane
    <2>4. i \in 1 .. Len(pane.tabs) /\ pane.tabs[i].path = p
      BY <2>1, <2>2, IndexFacts DEF Proper
    <2> HIDE DEF i
    <2>5. /\ Proper(tabs) /\ PathsIn(tabs) = PathsIn(pane.tabs) \ {p}
          /\ DraftsIn(pane.tabs) \ {p} \subseteq DraftsIn(tabs)
      BY <2>2, <2>4, TabRemoved
    <2> HIDE DEF tabs
    <2>6. PathsIn(tabs) # {} => a \in PathsIn(tabs)
      BY <2>1, <2>2, <2>5, ActiveStays
    <2> HIDE DEF a
    <2>7. Grid(R) /\ \A d \in Drafts(rs) : d \in Drafts(R) \/ (d[1] = id /\ d[2] \in {p})
      BY <2>1, <2>5, <2>6, LeavingKeeps DEF pane
    <2> HIDE DEF R
    <2>8. ASSUME <<id, p>> \notin Drafts(rs), NEW d \in Drafts(rs) PROVE d \in Drafts(R)
      <3>1. d = <<d[1], d[2]>>
        BY GridDrafts
      <3>2. ~(d[1] = id /\ d[2] = p)
        BY <2>8, <3>1
      <3> QED
        BY <2>7, <3>2
    <2> QED
      BY <2>3, <2>7, <2>8 DEF Keeps
  <1> QED
    BY <1>1, <1>2

\* closePaths.
LEMMA ClosePathsFacts ==
  ASSUME Grid(rows), NEW id, NEW ps, ClosePaths(id, ps)
  PROVE  /\ Grid(rows')
         /\ (\A p \in ps : <<id, p>> \notin Drafts(rows)) => Keeps(rows, rows')
  <1>1. CASE id \notin Ids(rows)
    BY <1>1, KeepsSame DEF ClosePaths
  <1>2. CASE id \in Ids(rows)
    <2> DEFINE pane == PaneOf(rows, id)
               tabs == Staying(pane.tabs, ps)
               a == ActiveAmong(pane, ps)
               R == Leaving(rows, pane, tabs, a)
    <2>1. Sound(pane) /\ pane.id = id /\ pane \in PaneType /\ Proper(pane.tabs)
      BY <1>2, PaneOfFacts DEF Sound
    <2>2. rows' = R
      BY <1>2, <2>1 DEF ClosePaths, Leaving, Showing
    <2> HIDE DEF pane
    <2>3. Proper(tabs) /\ PathsIn(tabs) = PathsIn(pane.tabs) \ ps /\ DraftsIn(tabs) = DraftsIn(pane.tabs) \ ps
      BY <2>1, StayingFacts
    <2> HIDE DEF tabs
    <2>4. PathsIn(tabs) # {} => a \in PathsIn(tabs)
      BY <2>1, <2>3, ActiveOfMany
    <2> HIDE DEF a
    <2>5. Grid(R) /\ \A d \in Drafts(rows) : d \in Drafts(R) \/ (d[1] = id /\ d[2] \in ps)
      BY <1>2, <2>3, <2>4, LeavingKeeps DEF pane
    <2> HIDE DEF R
    <2>6. ASSUME \A p \in ps : <<id, p>> \notin Drafts(rows), NEW d \in Drafts(rows) PROVE d \in Drafts(R)
      <3>1. d = <<d[1], d[2]>>
        BY GridDrafts
      <3>2. ~(d[1] = id /\ d[2] \in ps)
        BY <2>6, <3>1
      <3> QED
        BY <2>5, <3>2
    <2> QED
      BY <2>2, <2>5, <2>6 DEF Keeps
  <1> QED
    BY <1>1, <1>2

\* reorderTabs.
LEMMA ReorderKeeps ==
  ASSUME Grid(rows), NEW id \in Ids(rows), NEW p \in PathsIn(PaneOf(rows, id).tabs),
         NEW q \in PathsIn(PaneOf(rows, id).tabs), ReorderTabs(id, p, q)
  PROVE  Keeps(rows, rows')
  <1> DEFINE pane == PaneOf(rows, id)
             i == Index(pane.tabs, p)
             j == Index(pane.tabs, q)
             tabs == ArrayMove(pane.tabs, i, j)
             new == [pane EXCEPT !.tabs = tabs]
  <1>1. Sound(pane) /\ pane.id = id /\ pane \in PaneType /\ Proper(pane.tabs) /\ pane.tabs # <<>>
    BY PaneOfFacts, TabOfFacts DEF Sound
  <1>2. rows' = WithPane(rows, id, new)
    BY DEF ReorderTabs
  <1>3. p \in PathsIn(pane.tabs) /\ q \in PathsIn(pane.tabs)
    OBVIOUS
  <1> HIDE DEF pane
  <1>4. i \in 1 .. Len(pane.tabs) /\ j \in 1 .. Len(pane.tabs)
    BY <1>1, <1>3, IndexFacts DEF Proper
  <1> HIDE DEF i, j
  <1>5. Proper(tabs) /\ PathsIn(tabs) = PathsIn(pane.tabs) /\ DraftsIn(pane.tabs) \subseteq DraftsIn(tabs)
    BY <1>1, <1>4, MoveFacts
  <1> HIDE DEF tabs
  <1>6. Sound(new) /\ new.id = id /\ new.tabs = tabs /\ tabs # <<>>
    <2>1. tabs # <<>>
      BY <1>3, <1>5, TabFacts DEF Proper
    <2> QED
      BY <1>1, <1>5, <2>1 DEF Sound, PaneType, Proper
  <1> HIDE DEF new
  <1> QED
    BY <1>2, <1>5, <1>6, KeepsWith DEF pane

\* moveTab: a draft goes with its tab, unless the pane has the path open.
LEMMA MoveTabFacts ==
  ASSUME Grid(rows), NEW from \in Ids(rows), NEW to \in Ids(rows), NEW p \in PathsIn(PaneOf(rows, from).tabs),
         NEW at \in DOMAIN PaneOf(rows, to).tabs, MoveTab(from, to, p, at)
  PROVE  /\ Grid(rows')
         /\ p \notin PathsIn(PaneOf(rows, to).tabs) => Follow(Drafts(rows), Drafts(rows'))
  <1> DEFINE source == PaneOf(rows, from)
             target == PaneOf(rows, to)
             tab == TabOf(rows, from, p)
             into == Into(target, p, tab, at)
             placed == WithPane(rows, to, into)
             tabs == Staying(source.tabs, {p})
             a == ActiveWithout(source, p)
             R == Leaving(placed, source, tabs, a)
  <1>1. /\ Sound(source) /\ source.id = from /\ source \in PaneType /\ Proper(source.tabs)
        /\ Sound(target) /\ target.id = to /\ target \in PaneType /\ Proper(target.tabs)
        /\ target.tabs \in Seq(TabType) /\ p \in PathsIn(source.tabs)
    BY PaneOfFacts DEF Sound, Proper
  <1>2. from # to
    BY DEF MoveTab
  <1>3. rows' = R
    BY <1>1 DEF MoveTab, Leaving, Showing
  <1>4. /\ tab \in TabType /\ tab.path = p /\ (tab.dirty => tab.pinned)
        /\ tab.dirty <=> <<from, p>> \in Drafts(rows)
    BY TabOfFacts
  <1>5. /\ \A i, x : <<i, x>> \in Drafts(rows) => i \in Ids(rows) /\ x \in PathsIn(PaneOf(rows, i).tabs)
        /\ \A x : <<from, x>> \in Drafts(rows) <=> x \in DraftsIn(source.tabs)
        /\ \A x : <<to, x>> \in Drafts(rows) <=> x \in DraftsIn(target.tabs)
    BY DraftPanes, PaneDrafts
  <1>6. at \in 1 .. Len(target.tabs) + 1 /\ target.tabs # <<>>
    <2>1. at \in DOMAIN target.tabs
      OBVIOUS
    <2>2. DOMAIN target.tabs = 1 .. Len(target.tabs) /\ Len(target.tabs) \in Nat
      BY <1>1, TabFacts
    <2>3. target.tabs = <<>> <=> Len(target.tabs) = 0
      BY <1>1, TabFacts
    <2> QED
      BY <2>1, <2>2, <2>3
  <1> HIDE DEF source, target, tab
  <1>7. /\ Sound(into) /\ into.id = to /\ into.tabs # <<>> /\ DraftsIn(target.tabs) \subseteq DraftsIn(into.tabs)
        /\ p \notin PathsIn(target.tabs) /\ tab.dirty => p \in DraftsIn(into.tabs)
    <2>1. CASE p \in PathsIn(target.tabs)
      <3>1. into = [target EXCEPT !.active = p]
        BY <2>1 DEF Into
      <3>2. p \in Files
        BY <1>1, <2>1, TabFacts
      <3>3. Sound(into) /\ into.id = to /\ into.tabs = target.tabs
        BY <1>1, <2>1, <3>1, <3>2 DEF Sound, PaneType
      <3> QED
        BY <1>6, <2>1, <3>3
    <2>2. CASE p \notin PathsIn(target.tabs)
      <3> DEFINE more == InsertAt(target.tabs, at, tab)
      <3>1. into = [target EXCEPT !.tabs = more, !.active = p]
        BY <1>1, <2>2 DEF Into, PaneType
      <3>2. /\ Proper(more) /\ PathsIn(more) = PathsIn(target.tabs) \cup {p}
            /\ DraftsIn(target.tabs) \subseteq DraftsIn(more) /\ (tab.dirty => p \in DraftsIn(more))
        BY <1>1, <1>4, <1>6, <2>2, TabInserted
      <3> HIDE DEF more, into
      <3>3. into = Showing(target, more, p)
        BY <3>1 DEF Showing
      <3>4. Sound(into) /\ into.id = to /\ into.tabs = more /\ more # <<>>
        BY <1>1, <3>2, <3>3, PaneMade
      <3> QED
        BY <3>2, <3>4
    <2> QED
      BY <2>1, <2>2
  <1> HIDE DEF into
  <1>8. /\ Grid(placed) /\ Ids(placed) = Ids(rows)
        /\ \A i, x : <<i, x>> \in Drafts(placed)
                       <=> IF i = to THEN x \in DraftsIn(into.tabs) ELSE <<i, x>> \in Drafts(rows)
    BY <1>7, WithPaneFacts, DraftsWith
  <1> HIDE DEF placed
  <1>9. Proper(tabs) /\ PathsIn(tabs) = PathsIn(source.tabs) \ {p} /\ DraftsIn(tabs) = DraftsIn(source.tabs) \ {p}
    BY <1>1, StayingFacts
  <1> HIDE DEF tabs
  <1>10. PathsIn(tabs) # {} => a \in PathsIn(tabs)
    BY <1>1, <1>9, ActiveStays
  <1> HIDE DEF a
  <1>11. /\ Grid(R)
         /\ \A i, x : i # from /\ <<i, x>> \in Drafts(placed) => <<i, x>> \in Drafts(R)
         /\ \A x \in DraftsIn(tabs) : <<from, x>> \in Drafts(R)
    BY <1>1, <1>8, <1>9, <1>10, LeavingFacts
  <1> HIDE DEF R
  <1>12. ASSUME NEW i, NEW x, <<i, x>> \in Drafts(rows), <<i, x>> # <<from, p>>
         PROVE  <<i, x>> \in Drafts(R)
    <2>1. CASE i = from
      <3>1. x \in DraftsIn(tabs)
        BY <1>5, <1>9, <1>12, <2>1
      <3> QED
        BY <1>11, <2>1, <3>1
    <2>2. CASE i # from
      <3>1. <<i, x>> \in Drafts(placed)
        BY <1>5, <1>7, <1>8, <1>12
      <3> QED
        BY <1>11, <2>2, <3>1
    <2> QED
      BY <2>1, <2>2
  <1>13. Drafts(rows) \ {<<from, p>>} \subseteq Drafts(R)
    BY <1>12, GridDrafts
  <1>14. ASSUME p \notin PathsIn(target.tabs) PROVE Follow(Drafts(rows), Drafts(R))
    <2>1. CASE tab.dirty
      <3>1. <<to, p>> \in Drafts(R)
        BY <1>2, <1>7, <1>8, <1>11, <1>14, <2>1
      <3>2. <<to, p>> \notin Drafts(rows)
        BY <1>5, <1>14 DEF target
      <3> QED
        BY <1>13, <3>1, <3>2, OneMoves
    <2>2. CASE ~tab.dirty
      <3>1. Drafts(rows) \subseteq Drafts(R)
        BY <1>4, <1>13, <2>2
      <3> QED
        BY <3>1, AllFollow
    <2> QED
      BY <2>1, <2>2
  <1> QED
    BY <1>3, <1>11, <1>14 DEF target

\* splitTab: the tab stands in a pane of its own, with its draft.
LEMMA SplitTabFacts ==
  ASSUME Grid(rows), NEW id \in Ids(rows), NEW p \in PathsIn(PaneOf(rows, id).tabs),
         NEW direction, NEW eager, SplitTab(id, p, direction, eager)
  PROVE  Grid(rows') /\ Follow(Drafts(rows), Drafts(rows'))
  <1> DEFINE pane == PaneOf(rows, id)
             tab == TabOf(rows, id, p)
             mine == <<tab>>
             new == Pane(NewId, mine, p)
             off == SplitOff(pane, p)
             source == WithPane(rows, id, off)
             r == RowOf(rows, id)
             k == Column(source[r], id)
  <1>1. /\ Sound(pane) /\ pane.id = id /\ pane \in PaneType /\ Proper(pane.tabs)
        /\ pane.tabs \in Seq(TabType) /\ p \in PathsIn(pane.tabs) /\ pane.tabs # <<>>
    BY PaneOfFacts, TabOfFacts DEF Sound, Proper
  <1>2. /\ tab \in TabType /\ tab.path = p /\ (tab.dirty => tab.pinned) /\ p \in Files
        /\ tab.dirty <=> <<id, p>> \in Drafts(rows)
    BY TabOfFacts
  <1>3. NewId \in PaneIds /\ NewId \notin Ids(rows)
    <2>1. Free \subseteq PaneIds \ Ids(rows) /\ Free # {}
      BY DEF Free, SplitTab
    <2>2. Free \subseteq Nat
      BY <2>1, GridConstants
    <2> QED
      BY <2>1, <2>2, FirstFacts DEF NewId
  <1>4. r \in 1 .. Len(rows) /\ \E l \in DOMAIN rows[r] : rows[r][l].id = id
    <2>1. PaneOf(rows, id) \in Panes(rows) /\ PaneOf(rows, id).id = id
      BY PaneOfFacts
    <2>2. \E s \in DOMAIN rows : \E l \in DOMAIN rows[s] : rows[s][l].id = id
      BY <2>1 DEF Panes
    <2>3. DOMAIN rows = 1 .. Len(rows)
      BY CellFacts DEF Grid
    <2> QED
      BY <2>2, <2>3 DEF RowOf
  <1>5. rows' = IF direction = "horizontal" THEN [source EXCEPT ![r] = InsertAt(source[r], k + 1, new)]
                ELSE InsertAt(source, r + 1, <<new>>)
    BY DEF SplitTab
  <1>6. IF direction = "horizontal" THEN Len(rows[r]) < MAX_COLS ELSE Len(rows) < MAX_ROWS
    BY DEF SplitTab, CanSplit
  <1> HIDE DEF pane, tab, r
  <1>7. Proper(mine) /\ PathsIn(mine) = {p} /\ mine # <<>> /\ (tab.dirty => p \in DraftsIn(mine))
    <2>1. mine \in Seq(TabType) /\ Len(mine) = 1 /\ mine # <<>> /\ DOMAIN mine = {1} /\ mine[1] = tab
      BY <1>2
    <2> HIDE DEF mine
    <2> QED
      BY <1>2, <2>1 DEF Proper, Once, PinsDrafts, PathsIn, DraftsIn
  <1> HIDE DEF mine
  <1>8. Sound(new) /\ new.id = NewId /\ new.tabs = mine
    BY <1>2, <1>3, <1>7 DEF Sound, Pane, PaneType, Proper
  <1>9. /\ Sound(off) /\ off.id = id /\ off.tabs # <<>>
        /\ DraftsIn(pane.tabs) \ {p} \subseteq DraftsIn(off.tabs)
    <2>1. CASE Len(pane.tabs) = 1
      BY <1>1, <2>1 DEF SplitOff
    <2>2. CASE Len(pane.tabs) # 1
      <3> DEFINE tabs == Staying(pane.tabs, {p})
                 a == ActiveWithout(pane, p)
      <3>1. /\ Proper(tabs) /\ PathsIn(tabs) = PathsIn(pane.tabs) \ {p}
            /\ DraftsIn(tabs) = DraftsIn(pane.tabs) \ {p}
        BY <1>1, StayingFacts
      <3>2. off = [pane EXCEPT !.tabs = tabs, !.active = a]
        BY <1>1, <2>2 DEF SplitOff, PaneType
      <3>3. PathsIn(pane.tabs) \ {p} # {}
        <4>1. /\ Len(pane.tabs) \in Nat /\ DOMAIN pane.tabs = 1 .. Len(pane.tabs) /\ Len(pane.tabs) # 0
              /\ \A i \in 1 .. Len(pane.tabs) : pane.tabs[i].path \in PathsIn(pane.tabs)
          BY <1>1, TabFacts
        <4>2. 1 \in 1 .. Len(pane.tabs) /\ 2 \in 1 .. Len(pane.tabs)
          <5>1. \A n \in Nat : n # 0 /\ n # 1 => 1 \in 1 .. n /\ 2 \in 1 .. n
            OBVIOUS
          <5> QED
            BY <2>2, <4>1, <5>1
        <4>3. pane.tabs[1].path # pane.tabs[2].path
          BY <1>1, <4>1, <4>2 DEF Proper, Once
        <4> QED
          BY <4>1, <4>2, <4>3
      <3>4. a \in PathsIn(tabs)
        BY <1>1, <3>1, <3>3, ActiveStays
      <3> HIDE DEF tabs, a, off
      <3>5. off = Showing(pane, tabs, a)
        BY <3>2 DEF Showing
      <3>6. Sound(off) /\ off.id = id /\ off.tabs = tabs /\ tabs # <<>>
        BY <1>1, <3>1, <3>4, <3>5, PaneMade
      <3> QED
        BY <3>1, <3>6
    <2> QED
      BY <2>1, <2>2
  <1> HIDE DEF off, new
  <1>10. /\ Grid(source) /\ Ids(source) = Ids(rows) /\ Len(source) = Len(rows)
         /\ \A s \in 1 .. Len(rows) : Len(source[s]) = Len(rows[s])
         /\ \A s \in 1 .. Len(rows) : \A l \in 1 .. Len(rows[s]) : source[s][l].id = rows[s][l].id
    BY <1>9, WithPaneFacts
  <1>11. \A i, x : <<i, x>> \in Drafts(source)
                     <=> IF i = id THEN x \in DraftsIn(off.tabs) ELSE <<i, x>> \in Drafts(rows)
    BY <1>9, DraftsWith
  <1>12. \A x \in Panes(source) : x.tabs # <<>>
    <2>1. Panes(source) = {x \in Panes(rows) : x.id # id} \cup {off}
      BY <1>9, WithPaneFacts
    <2> HIDE DEF source
    <2> QED
      BY <1>9, <2>1, OthersFilled
  <1> HIDE DEF source
  <1>13. Grid(rows') /\ Panes(rows') = Panes(source) \cup {new}
    <2>1. CASE direction = "horizontal"
      <3>1. rows' = [source EXCEPT ![r] = InsertAt(source[r], k + 1, new)]
        BY <1>5, <2>1
      <3>2. r \in 1 .. Len(source) /\ Len(source[r]) < MAX_COLS /\ Len(source[r]) \in Nat
        BY <1>4, <1>6, <1>10, <2>1, CellFacts DEF Grid
      <3>3. DOMAIN source[r] = 1 .. Len(source[r]) /\ DOMAIN rows[r] = 1 .. Len(rows[r])
        BY <1>4, <1>10, CellFacts DEF Grid
      <3>4. \E l \in DOMAIN source[r] : source[r][l].id = id
        BY <1>4, <1>10, <3>3
      <3>5. k \in 1 .. Len(source[r])
        BY <3>3, <3>4 DEF Column
      <3> HIDE DEF k
      <3>6. k + 1 \in 1 .. Len(source[r]) + 1
        BY <3>2, <3>5
      <3> QED
        BY <1>3, <1>7, <1>8, <1>10, <1>12, <3>1, <3>2, <3>6, ColumnAdded
    <2>2. CASE direction # "horizontal"
      <3>1. rows' = InsertAt(source, r + 1, <<new>>)
        BY <1>5, <2>2
      <3>2. Len(source) < MAX_ROWS /\ Len(source) \in Nat /\ r \in 1 .. Len(source)
        BY <1>4, <1>6, <1>10, <2>2, CellFacts DEF Grid
      <3>3. r + 1 \in 1 .. Len(source) + 1
        BY <3>2
      <3> QED
        BY <1>3, <1>7, <1>8, <1>10, <1>12, <3>1, <3>2, <3>3, RowAdded
    <2> QED
      BY <2>1, <2>2
  <1>14. /\ \A d \in Drafts(source) : d \in Drafts(rows')
         /\ tab.dirty => <<NewId, p>> \in Drafts(rows')
    <2>1. \A i, x : <<i, x>> \in Drafts(rows') <=> \E y \in Panes(rows') : y.id = i /\ x \in DraftsIn(y.tabs)
      BY <1>13, GridDrafts
    <2>2. \A i, x : <<i, x>> \in Drafts(source) <=> \E y \in Panes(source) : y.id = i /\ x \in DraftsIn(y.tabs)
      BY <1>10, GridDrafts
    <2>3. \A i, x : <<i, x>> \in Drafts(source) => <<i, x>> \in Drafts(rows')
      BY <1>13, <2>1, <2>2
    <2>4. \A d \in Drafts(source) : d = <<d[1], d[2]>>
      BY <1>10, GridDrafts
    <2>5. \A d \in Drafts(source) : d \in Drafts(rows')
      BY <2>3, <2>4
    <2>6. tab.dirty => <<NewId, p>> \in Drafts(rows')
      BY <1>7, <1>8, <1>13, <2>1
    <2> QED
      BY <2>5, <2>6
  <1>15. ASSUME NEW i, NEW x, <<i, x>> \in Drafts(rows), <<i, x>> # <<id, p>>
         PROVE  <<i, x>> \in Drafts(rows')
    <2>1. <<i, x>> \in Drafts(source)
      <3>1. CASE i = id
        <4>1. x \in DraftsIn(pane.tabs)
          BY <1>15, <3>1, PaneDrafts DEF pane
        <4> QED
          BY <1>9, <1>11, <1>15, <3>1, <4>1
      <3>2. CASE i # id
        BY <1>11, <1>15, <3>2
      <3> QED
        BY <3>1, <3>2
    <2> QED
      BY <1>14, <2>1
  <1>16. Drafts(rows) \ {<<id, p>>} \subseteq Drafts(rows')
    BY <1>15, GridDrafts
  <1>17. Follow(Drafts(rows), Drafts(rows'))
    <2>1. CASE tab.dirty
      <3>1. <<NewId, p>> \notin Drafts(rows)
        BY <1>3, DraftPanes
      <3> QED
        BY <1>14, <1>16, <2>1, <3>1, OneMoves
    <2>2. CASE ~tab.dirty
      <3>1. Drafts(rows) \subseteq Drafts(rows')
        BY <1>2, <1>16, <2>2
      <3> QED
        BY <3>1, AllFollow
    <2> QED
      BY <2>1, <2>2
  <1> QED
    BY <1>13, <1>17

\* renameTab: in every pane, under the new name.
LEMMA RenamedPane ==
  ASSUME NEW pane, Sound(pane), pane.tabs # <<>>, NEW p \in Files, NEW q \in Files,
         p \notin PathsIn(pane.tabs) \/ q \notin PathsIn(pane.tabs)
  PROVE  /\ Sound(Renamed(pane, p, q)) /\ Renamed(pane, p, q).id = pane.id
         /\ Renamed(pane, p, q).tabs # <<>>
         /\ \A x \in DraftsIn(pane.tabs) : (IF x = p THEN q ELSE x) \in DraftsIn(Renamed(pane, p, q).tabs)
  <1> DEFINE tabs == RenamedTabs(pane.tabs, p, q)
             a == IF pane.active = p THEN q ELSE pane.active
  <1>1. pane \in PaneType /\ Proper(pane.tabs) /\ pane.active \in PathsIn(pane.tabs)
    BY DEF Sound
  <1>2. /\ Proper(tabs)
        /\ \A x \in PathsIn(pane.tabs) : (IF x = p THEN q ELSE x) \in PathsIn(tabs)
        /\ \A x \in DraftsIn(pane.tabs) : (IF x = p THEN q ELSE x) \in DraftsIn(tabs)
    BY <1>1, RenamedFacts
  <1>3. Renamed(pane, p, q) = Showing(pane, tabs, a)
    BY <1>1 DEF Renamed, RenamedTabs, Showing, PaneType
  <1>4. a \in PathsIn(tabs)
    BY <1>1, <1>2
  <1> HIDE DEF tabs, a
  <1>5. Sound(Showing(pane, tabs, a)) /\ Showing(pane, tabs, a).id = pane.id
        /\ Showing(pane, tabs, a).tabs = tabs /\ tabs # <<>>
    BY <1>1, <1>2, <1>4, PaneMade
  <1> QED
    BY <1>2, <1>3, <1>5

LEMMA RenameTabFacts ==
  ASSUME Grid(rows), NEW p \in Files, NEW q \in Files, RenameTab(p, q)
  PROVE  /\ Grid(rows')
         /\ \E kept \in Injection(Drafts(rows), Drafts(rows')) :
              \A d \in Drafts(rows) : kept[d][2] = IF d[2] = p THEN q ELSE d[2]
  <1> DEFINE G(pane) == Renamed(pane, p, q)
             H(x) == IF x = p THEN q ELSE x
  <1>1. /\ Opens(p) # {} /\ Opens(p) \cap Opens(q) = {}
        /\ rows' = [r \in DOMAIN rows |-> [k \in DOMAIN rows[r] |-> G(rows[r][k])]]
    BY DEF RenameTab
  <1> HIDE DEF G
  <1>2. /\ Len(rows) \in Nat /\ 1 <= Len(rows) /\ Len(rows) <= MAX_ROWS /\ DOMAIN rows = 1 .. Len(rows)
        /\ \A r \in 1 .. Len(rows) : /\ rows[r] \in Seq(PaneType) /\ Len(rows[r]) \in Nat
                                     /\ Len(rows[r]) \in 1 .. MAX_COLS
                                     /\ DOMAIN rows[r] = 1 .. Len(rows[r])
                                     /\ \A k \in 1 .. Len(rows[r]) : rows[r][k] \in Panes(rows)
        /\ \A pane \in Panes(rows) : \E r \in 1 .. Len(rows) : \E k \in 1 .. Len(rows[r]) : rows[r][k] = pane
    BY CellFacts DEF Grid, Sized
  <1>3. \A pane \in Panes(rows) : pane.tabs # <<>>
    <2> SUFFICES ASSUME NEW pane \in Panes(rows), pane.tabs = <<>> PROVE FALSE
      OBVIOUS
    <2>1. rows = InitialRows
      BY DEF Grid, Filled
    <2>2. PICK id \in Ids(rows) : p \in PathsIn(PaneOf(rows, id).tabs)
      BY <1>1 DEF Opens, Has
    <2>3. PaneOf(rows, id) \in Panes(rows) /\ Sound(PaneOf(rows, id))
      BY PaneOfFacts
    <2>4. PaneOf(rows, id).tabs = <<>>
      BY <2>1, <2>3, StartFacts DEF Pane
    <2> QED
      BY <2>2, <2>3, <2>4, TabFacts DEF Sound, Proper
  <1>4. \A pane \in Panes(rows) : Sound(pane) /\ (p \notin PathsIn(pane.tabs) \/ q \notin PathsIn(pane.tabs))
    <2> SUFFICES ASSUME NEW pane \in Panes(rows), p \in PathsIn(pane.tabs), q \in PathsIn(pane.tabs) PROVE FALSE
      BY DEF Grid, Filled
    <2>1. pane.id \in Ids(rows)
      BY DEF Ids
    <2>2. pane = PaneOf(rows, pane.id)
      BY <2>1, PaneOfFacts
    <2>3. pane.id \in Opens(p) /\ pane.id \in Opens(q)
      BY <2>1, <2>2 DEF Opens, Has
    <2> QED
      BY <1>1, <2>3
  <1>5. \A pane \in Panes(rows) : /\ Sound(G(pane)) /\ G(pane).id = pane.id /\ G(pane).tabs # <<>>
                                  /\ \A x \in DraftsIn(pane.tabs) : H(x) \in DraftsIn(G(pane).tabs)
    BY <1>3, <1>4, RenamedPane DEF G
  <1> HIDE DEF H
  <1> DEFINE n == Len(rows)
             R == rows'
  <1>6. /\ DOMAIN R = 1 .. n
        /\ \A r \in 1 .. n : /\ R[r] = [k \in 1 .. Len(rows[r]) |-> G(rows[r][k])]
                             /\ DOMAIN R[r] = 1 .. Len(rows[r])
                             /\ \A k \in 1 .. Len(rows[r]) : R[r][k] = G(rows[r][k])
    BY <1>1, <1>2
  <1>7. \A r \in 1 .. n : R[r] \in Seq(PaneType) /\ Len(R[r]) = Len(rows[r])
    <2> SUFFICES ASSUME NEW r \in 1 .. n PROVE R[r] \in Seq(PaneType) /\ Len(R[r]) = Len(rows[r])
      OBVIOUS
    <2> DEFINE c == Len(rows[r])
               row == R[r]
    <2>1. c \in Nat /\ \A k \in 1 .. c : G(rows[r][k]) \in PaneType
      BY <1>2, <1>5 DEF Sound
    <2>2. row = [k \in 1 .. c |-> G(rows[r][k])]
      BY <1>6
    <2> HIDE DEF c, row
    <2>3. row \in Seq(PaneType) /\ Len(row) = c
      BY <2>1, <2>2
    <2> QED
      BY <2>3 DEF c, row
  <1>8. R \in Seq(Seq(PaneType)) /\ Len(R) = n
    <2>1. R = [r \in 1 .. n |-> R[r]]
      BY <1>1, <1>2
    <2>2. n \in Nat
      BY <1>2
    <2> HIDE DEF R, n
    <2> QED
      BY <1>7, <2>1, <2>2
  <1> HIDE DEF R, n
  <1>9. Sized(R)
    BY <1>2, <1>6, <1>7, <1>8 DEF Sized, n
  <1>10. \A r \in 1 .. n : \A k \in 1 .. Len(rows[r]) : R[r][k].id = rows[r][k].id
    BY <1>2, <1>5, <1>6 DEF n
  <1>11. Apart(R)
    <2> SUFFICES ASSUME NEW r \in DOMAIN R, NEW s \in DOMAIN R, NEW k \in DOMAIN R[r],
                        NEW l \in DOMAIN R[s], R[r][k].id = R[s][l].id
                 PROVE  r = s /\ k = l
      BY DEF Apart
    <2>1. r \in 1 .. n /\ s \in 1 .. n /\ k \in 1 .. Len(rows[r]) /\ l \in 1 .. Len(rows[s])
      BY <1>6
    <2>2. rows[r][k].id = rows[s][l].id
      BY <1>10, <2>1
    <2>3. r \in DOMAIN rows /\ s \in DOMAIN rows /\ k \in DOMAIN rows[r] /\ l \in DOMAIN rows[s]
      BY <1>2, <2>1 DEF n
    <2> QED
      BY <2>2, <2>3 DEF Grid, Apart
  <1>12. Panes(R) = {G(pane) : pane \in Panes(rows)}
    <2>1. ASSUME NEW y \in Panes(R) PROVE \E pane \in Panes(rows) : y = G(pane)
      <3>1. PICK r \in 1 .. n : \E k \in 1 .. Len(rows[r]) : R[r][k] = y
        BY <1>6, <2>1 DEF Panes
      <3> QED
        BY <1>2, <1>6, <3>1 DEF n
    <2>2. ASSUME NEW pane \in Panes(rows) PROVE G(pane) \in Panes(R)
      <3>1. PICK r \in 1 .. n : \E k \in 1 .. Len(rows[r]) : rows[r][k] = pane
        BY <1>2 DEF n
      <3>2. PICK k \in 1 .. Len(rows[r]) : rows[r][k] = pane
        BY <3>1
      <3>3. r \in DOMAIN R /\ k \in DOMAIN R[r] /\ R[r][k] = G(pane)
        BY <1>6, <3>2
      <3> QED
        BY <3>3 DEF Panes
    <2> QED
      BY <2>1, <2>2
  <1>13. Filled(R)
    BY <1>5, <1>12 DEF Filled
  <1>14. Grid(R)
    BY <1>9, <1>11, <1>13 DEF Grid
  <1> DEFINE D == Drafts(rows)
             E == Drafts(R)
  <1>15. /\ \A d \in D : d = <<d[1], d[2]>>
         /\ \A i, x : <<i, x>> \in D <=> \E pane \in Panes(rows) : pane.id = i /\ x \in DraftsIn(pane.tabs)
         /\ \A i, x : <<i, x>> \in E <=> \E pane \in Panes(R) : pane.id = i /\ x \in DraftsIn(pane.tabs)
    BY <1>14, GridDrafts
  <1>16. ASSUME NEW i, NEW x, NEW y, <<i, x>> \in D, <<i, y>> \in D PROVE H(x) = H(y) => x = y
    <2>1. i \in Ids(rows) /\ x \in PathsIn(PaneOf(rows, i).tabs) /\ y \in PathsIn(PaneOf(rows, i).tabs)
      BY <1>16, DraftPanes
    <2>2. PaneOf(rows, i) \in Panes(rows)
      BY <2>1, PaneOfFacts
    <2> QED
      BY <1>4, <2>1, <2>2 DEF H
  <1> HIDE DEF D, E
  <1>17. \A i, x : <<i, x>> \in D => <<i, H(x)>> \in E
    BY <1>5, <1>12, <1>15
  <1> DEFINE kept == [d \in D |-> <<d[1], H(d[2])>>]
  <1>18. kept \in [D -> E]
    BY <1>15, <1>17
  <1>19. \A d, e \in D : kept[d] = kept[e] => d = e
    <2> SUFFICES ASSUME NEW d \in D, NEW e \in D, kept[d] = kept[e] PROVE d = e
      OBVIOUS
    <2>1. d[1] = e[1] /\ H(d[2]) = H(e[2])
      OBVIOUS
    <2>2. d = <<d[1], d[2]>> /\ e = <<d[1], e[2]>>
      BY <1>15, <2>1
    <2>3. d[2] = e[2]
      BY <1>16, <2>1, <2>2
    <2> QED
      BY <2>2, <2>3
  <1>20. \A d \in D : kept[d][2] = H(d[2])
    OBVIOUS
  <1> HIDE DEF kept
  <1>21. kept \in Injection(D, E)
    BY <1>18, <1>19 DEF Injection, IsInjective
  <1> QED
    BY <1>14, <1>20, <1>21 DEF D, E, R, H

\* The tabs a deletion closes, one after the other.
IsClosed(f, n, start, ts, seen) ==
  f = [i \in 0 .. n |-> IF i = 0 THEN start ELSE CloseNext(f[i - 1], ts[i], seen)]

LEMMA ClosedStep ==
  ASSUME NEW f, NEW n \in Nat, NEW start, NEW ts, NEW seen, IsClosed(f, n, start, ts, seen)
  PROVE  f[0] = start /\ \A i \in 1 .. n : f[i] = CloseNext(f[i - 1], ts[i], seen)
  <1> DEFINE E(i) == IF i = 0 THEN start ELSE CloseNext(f[i - 1], ts[i], seen)
  <1>1. f = [i \in 0 .. n |-> E(i)]
    BY Zenon DEF IsClosed
  <1> HIDE DEF E
  <1>2. \A i \in 0 .. n : f[i] = E(i)
    BY <1>1
  <1>3. E(0) = start /\ \A i \in 1 .. n : E(i) = CloseNext(f[i - 1], ts[i], seen)
    BY DEF E
  <1> QED
    BY <1>2, <1>3

LEMMA ClosedExists ==
  ASSUME NEW start, NEW ts, NEW seen
  PROVE  \A n \in Nat : \E f : IsClosed(f, n, start, ts, seen)
  <1> DEFINE R == {n \in Nat : \E f : IsClosed(f, n, start, ts, seen)}
             G(s, i) == CloseNext(s, ts[i], seen)
  <1>1. 0 \in R
    <2> DEFINE f == [i \in 0 .. 0 |-> start]
    <2>1. f = [i \in 0 .. 0 |-> IF i = 0 THEN start ELSE CloseNext(f[i - 1], ts[i], seen)]
      OBVIOUS
    <2>2. IsClosed(f, 0, start, ts, seen)
      BY <2>1, Zenon DEF IsClosed
    <2> QED
      BY <2>2
  <1>2. ASSUME NEW n \in Nat, n \in R PROVE n + 1 \in R
    <2>1. PICK f : IsClosed(f, n, start, ts, seen)
      BY <1>2
    <2>2. f[0] = start /\ \A i \in 1 .. n : f[i] = G(f[i - 1], i)
      BY <2>1, ClosedStep
    <2> HIDE DEF G
    <2> DEFINE h == [i \in 0 .. n + 1 |-> IF i <= n THEN f[i] ELSE G(f[n], i)]
    <2>3. ASSUME NEW i \in 0 .. n + 1
          PROVE  h[i] = IF i = 0 THEN start ELSE G(h[i - 1], i)
      <3>1. CASE i = 0
        BY <2>2, <3>1
      <3>2. CASE i \in 1 .. n
        <4>1. h[i] = f[i] /\ h[i - 1] = f[i - 1]
          BY <3>2
        <4> QED
          BY <2>2, <3>2, <4>1
      <3>3. CASE i = n + 1
        <4>1. h[i] = G(f[n], i) /\ h[i - 1] = f[n]
          BY <3>3
        <4> QED
          BY <3>3, <4>1
      <3> QED
        BY <3>1, <3>2, <3>3
    <2>4. h = [i \in 0 .. n + 1 |-> h[i]]
      OBVIOUS
    <2> HIDE DEF h
    <2>5. h = [i \in 0 .. n + 1 |-> IF i = 0 THEN start ELSE G(h[i - 1], i)]
      BY <2>3, <2>4
    <2>6. IsClosed(h, n + 1, start, ts, seen)
      BY <2>5, Zenon DEF IsClosed, G
    <2> QED
      BY <2>6
  <1> HIDE DEF R
  <1>3. Nat \subseteq R
    BY <1>1, <1>2, Induction
  <1> QED
    BY <1>3 DEF R

LEMMA DeleteAnsweredFacts ==
  ASSUME Grid(rows), Asked(deletion), deletion.kind = "delete", DeleteAnswered
  PROVE  Grid(rows')
  <1> DEFINE ts == deletion.tabs
             n == Len(ts)
             start == [rows |-> rows, focus |-> focus]
             seen == deletion.focus
             f == CHOOSE f_1 : IsClosed(f_1, n, start, ts, seen)
  <1>1. n \in Nat
    BY DEF Asked
  <1>2. IsClosed(f, n, start, ts, seen)
    BY <1>1, ClosedExists, Zenon
  <1>3. rows' = f[n].rows
    BY Zenon DEF DeleteAnswered, IsClosed
  <1>4. start.rows = rows
    OBVIOUS
  <1> HIDE DEF f, start, ts, n, seen
  <1>5. f[0] = start /\ \A i \in 1 .. n : f[i] = CloseNext(f[i - 1], ts[i], seen)
    BY <1>1, <1>2, ClosedStep
  <1> DEFINE S == {i \in Nat : i <= n => Grid(f[i].rows)}
  <1>6. 0 \in S
    BY <1>4, <1>5
  <1>7. ASSUME NEW i \in Nat, i \in S PROVE i + 1 \in S
    <2> SUFFICES ASSUME i + 1 <= n PROVE Grid(f[i + 1].rows)
      OBVIOUS
    <2>1. f[i + 1] = CloseNext(f[i], ts[i + 1], seen) /\ Grid(f[i].rows)
      BY <1>1, <1>5, <1>7
    <2>2. f[i + 1].rows = AfterClose(f[i].rows, ts[i + 1][1], ts[i + 1][2])
      BY <2>1 DEF CloseNext
    <2> QED
      BY <2>1, <2>2, AfterCloseFacts
  <1> HIDE DEF S
  <1>8. Nat \subseteq S
    BY <1>6, <1>7, Induction
  <1>9. Grid(f[n].rows)
    BY <1>1, <1>8 DEF S
  <1> QED
    BY <1>3, <1>9

\* The tabs of the files to be deleted, as the dialog knows them.
LEMMA TabsUnderType ==
  ASSUME Grid(rows), NEW ps
  PROVE  TabsUnder(ps) \in Seq(PaneIds \X Files)
  <1> DEFINE all == AllPanes(rows)
             T == PaneIds \X Files
             row(i) == [k \in DOMAIN all[i].tabs |-> <<all[i].id, all[i].tabs[k].path>>]
             each == [i \in DOMAIN all |-> row(i)]
             open == FlattenSeq(each)
             S == {t \in Range(open) : t[2] \notin ps}
  <1>1. all \in Seq(PaneType)
    BY FlattenType DEF AllPanes, Grid, Sized
  <1>2. TabsUnder(ps) = Without(open, S)
    BY Zenon DEF TabsUnder
  <1> HIDE DEF all
  <1>3. Len(all) \in Nat /\ DOMAIN all = 1 .. Len(all) /\ \A i \in 1 .. Len(all) : all[i] \in PaneType
    BY <1>1
  <1>4. ASSUME NEW i \in 1 .. Len(all) PROVE row(i) \in Seq(T)
    <2> DEFINE tabs == all[i].tabs
               id == all[i].id
    <2>1. tabs \in Seq(TabType) /\ id \in PaneIds
      BY <1>3 DEF PaneType
    <2> HIDE DEF tabs, id
    <2>2. DOMAIN tabs = 1 .. Len(tabs) /\ Len(tabs) \in Nat /\ \A k \in 1 .. Len(tabs) : tabs[k].path \in Files
      BY <2>1, TabFacts
    <2>3. [k \in 1 .. Len(tabs) |-> <<id, tabs[k].path>>] \in Seq(T)
      BY <2>1, <2>2
    <2> QED
      BY <2>2, <2>3 DEF tabs, id
  <1> HIDE DEF row, T
  <1>5. each \in Seq(Seq(T))
    BY <1>3, <1>4
  <1> HIDE DEF each
  <1>6. open \in Seq(T)
    BY <1>5, FlattenType
  <1> HIDE DEF open, S
  <1>7. Without(open, S) \in Seq(T)
    BY <1>6, WithoutFacts DEF Filters
  <1> QED
    BY <1>2, <1>7 DEF T

---------------------------------------------------------------------------
(* Every step.                                                             *)

Carried == \E kept \in Injection(Drafts(rows), Drafts(rows')) :
             \A d \in Drafts(rows) : Survives(d, kept[d][2])
Orderly == Grid(rows') /\ (Carried \/ GivesUp)

LEMMA FollowCarries ==
  ASSUME Follow(Drafts(rows), Drafts(rows')) PROVE Carried
  BY DEF Follow, Carried, Survives

LEMMA KeepsOrderly ==
  ASSUME Keeps(rows, rows') PROVE Orderly
  BY AllFollow, FollowCarries DEF Keeps, Orderly

LEMMA SameOrderly ==
  ASSUME GridInv, UNCHANGED rows PROVE Orderly
  <1>1. Keeps(rows, rows')
    BY KeepsSame DEF GridInv
  <1> QED
    BY <1>1, KeepsOrderly

\* A tab that is closed without a question has no draft.
LEMMA CleanTab ==
  ASSUME GridInv, NEW id, NEW p, ~IsTabDirty(id, p)
  PROVE  <<id, p>> \notin Drafts(rows)
  <1> SUFFICES ASSUME <<id, p>> \in Drafts(rows) PROVE FALSE
    OBVIOUS
  <1>1. id \in Ids(rows) /\ p \in PathsIn(PaneOf(rows, id).tabs)
    BY DraftPanes DEF GridInv
  <1>2. TabOf(rows, id, p).dirty /\ Has(rows, id, p)
    BY <1>1, TabOfFacts DEF GridInv
  <1> QED
    BY <1>2 DEF IsTabDirty

LEMMA TabSteps ==
  ASSUME GridInv, NEW id \in Ids(rows), NEW p \in PathsIn(PaneOf(rows, id).tabs), OnTab(id, p)
  PROVE  Orderly
  <1> DEFINE tab == TabOf(rows, id, p)
             pinned == [tab EXCEPT !.pinned = TRUE]
             clean == [tab EXCEPT !.dirty = FALSE]
             edited == [tab EXCEPT !.dirty = TRUE, !.pinned = TRUE]
  <1>1. Grid(rows)
    BY DEF GridInv
  <1>2. tab \in TabType /\ tab.path = p /\ (tab.dirty => tab.pinned)
    BY <1>1, TabOfFacts
  <1>3. /\ pinned \in TabType /\ pinned.path = p /\ pinned.pinned /\ (tab.dirty => pinned.dirty)
        /\ edited \in TabType /\ edited.path = p /\ edited.pinned /\ edited.dirty
        /\ clean \in TabType /\ clean.path = p /\ ~clean.dirty
    BY <1>2 DEF TabType
  <1>4. /\ Keeps(rows, PatchTab(rows, id, p, pinned)) /\ Keeps(rows, PatchTab(rows, id, p, edited))
        /\ Grid(PatchTab(rows, id, p, clean))
    <2> HIDE DEF pinned, clean, edited
    <2> QED
      BY <1>1, <1>3, PatchTabFacts
  <1>5. CASE Activate(id, p)
    <2>1. Keeps(rows, rows')
      BY <1>1, <1>5, ActivateKeeps DEF Activate
    <2> QED
      BY <2>1, KeepsOrderly
  <1>6. CASE PinTab(id, p)
    <2>1. Keeps(rows, rows')
      BY <1>4, <1>6 DEF PinTab
    <2> QED
      BY <2>1, KeepsOrderly
  <1>7. CASE Applied(id, p)
    <2>1. Grid(rows')
      BY <1>4, <1>7 DEF Applied
    <2> QED
      BY <1>7, <2>1 DEF Orderly, GivesUp
  <1>8. CASE SetDraft(id, p, Edited(tab))
    <2>1. Keeps(rows, rows')
      BY <1>4, <1>8 DEF SetDraft, Edited
    <2> QED
      BY <2>1, KeepsOrderly
  <1>9. CASE SetDraft(id, p, clean)
    <2>1. Grid(rows')
      BY <1>4, <1>9 DEF SetDraft
    <2> QED
      BY <1>9, <2>1 DEF Orderly, GivesUp
  <1>10. CASE RequestClose(id, p)
    <2>1. CASE IsTabDirty(id, p)
      BY <1>10, <2>1, SameOrderly DEF RequestClose
    <2>2. CASE ~IsTabDirty(id, p)
      <3>1. rows' = AfterClose(rows, id, p)
        BY <1>10, <2>2 DEF RequestClose, CloseTab
      <3>2. Keeps(rows, rows')
        BY <1>1, <2>2, <3>1, AfterCloseFacts, CleanTab
      <3> QED
        BY <3>2, KeepsOrderly
    <2> QED
      BY <2>1, <2>2
  <1>11. ASSUME NEW ps, RequestCloseMany(id, ps) PROVE Orderly
    <2>1. CASE \E x \in ps : IsTabDirty(id, x)
      BY <1>11, <2>1, SameOrderly DEF RequestCloseMany
    <2>2. CASE \A x \in ps : ~IsTabDirty(id, x)
      <3>1. ClosePaths(id, ps)
        BY <1>11, <2>2 DEF RequestCloseMany
      <3>2. \A x \in ps : <<id, x>> \notin Drafts(rows)
        BY <2>2, CleanTab
      <3>3. Keeps(rows, rows')
        BY <1>1, <3>1, <3>2, ClosePathsFacts
      <3> QED
        BY <3>3, KeepsOrderly
    <2> QED
      BY <2>1, <2>2
  <1>12. ASSUME NEW d, NEW eager, SplitTab(id, p, d, eager) PROVE Orderly
    BY <1>1, <1>12, SplitTabFacts, FollowCarries DEF Orderly
  <1>13. ASSUME NEW q \in PathsIn(PaneOf(rows, id).tabs), ReorderTabs(id, p, q) PROVE Orderly
    BY <1>1, <1>13, ReorderKeeps, KeepsOrderly
  <1>14. ASSUME NEW to \in Ids(rows), NEW at \in DOMAIN PaneOf(rows, to).tabs, MoveTab(id, to, p, at)
         PROVE  Orderly
    <2>1. Grid(rows') /\ (p \notin PathsIn(PaneOf(rows, to).tabs) => Follow(Drafts(rows), Drafts(rows')))
      BY <1>1, <1>14, MoveTabFacts
    <2>2. CASE p \notin PathsIn(PaneOf(rows, to).tabs)
      BY <2>1, <2>2, FollowCarries DEF Orderly
    <2>3. CASE p \in PathsIn(PaneOf(rows, to).tabs)
      <3>1. to \in Opens(p)
        BY <2>3 DEF Opens, Has
      <3>2. Into(PaneOf(rows, to), p, tab, at) = Into(PaneOf(rows, to), p, tab, 1)
        BY <2>3 DEF Into
      <3> HIDE DEF tab
      <3>3. MoveTab(id, to, p, 1)
        BY <1>14, <3>2, Zenon DEF MoveTab, tab
      <3> QED
        BY <2>1, <3>1, <3>3 DEF Orderly, GivesUp
    <2> QED
      BY <2>2, <2>3
  <1> QED
    BY <1>5, <1>6, <1>7, <1>8, <1>9, <1>10, <1>11, <1>12, <1>13, <1>14 DEF OnTab

LEMMA GridSteps ==
  ASSUME GridInv, Next
  PROVE  Orderly
  <1>1. Grid(rows)
    BY DEF GridInv
  <1>2. ASSUME NEW p \in Files, NEW pin \in BOOLEAN, OpenFile(p, pin) PROVE Orderly
    <2> DEFINE target == IF Opens(p) # {} THEN FirstPaneWith(p) ELSE focus
    <2>1. rows' = IF target \in Ids(rows)
                    THEN WithPane(rows, target, Shown(PaneOf(rows, target), p, pin)) ELSE rows
      BY <1>2, Zenon DEF OpenFile
    <2> HIDE DEF target
    <2>2. Keeps(rows, rows')
      BY <1>1, <2>1, OpenKeeps, KeepsSame
    <2> QED
      BY <2>2, KeepsOrderly
  <1>3. ASSUME NEW id \in Ids(rows), FocusPane(id) PROVE Orderly
    BY <1>3, SameOrderly DEF FocusPane
  <1>4. ASSUME NEW id \in Ids(rows), NEW p \in PathsIn(PaneOf(rows, id).tabs), OnTab(id, p) PROVE Orderly
    BY <1>4, TabSteps
  <1>5. CASE Discard
    <2>1. Grid(rows')
      <3>1. Asked(dialog)
        BY <1>5 DEF Discard, GridInv, Questions
      <3>2. CASE dialog.kind = "close" /\ \A p \in dialog.paths : CloseTab(dialog.id, p)
        <4>1. PICK p \in Files : dialog.paths = {p}
          BY <3>1, <3>2 DEF Asked
        <4>2. rows' = AfterClose(rows, dialog.id, p)
          BY <3>2, <4>1 DEF CloseTab
        <4> QED
          BY <1>1, <4>2, AfterCloseFacts
      <3>3. CASE ClosePaths(dialog.id, dialog.paths)
        BY <1>1, <3>3, ClosePathsFacts
      <3> QED
        BY <1>5, <3>2, <3>3 DEF Discard
    <2> QED
      BY <1>5, <2>1 DEF Orderly, GivesUp
  <1>6. CASE Cancel
    BY <1>6, SameOrderly DEF Cancel
  <1>7. ASSUME NEW p \in Files, NEW q \in Files, RenameTab(p, q) PROVE Orderly
    <2>1. /\ Grid(rows')
          /\ \E kept \in Injection(Drafts(rows), Drafts(rows')) :
               \A d \in Drafts(rows) : kept[d][2] = IF d[2] = p THEN q ELSE d[2]
      BY <1>1, <1>7, RenameTabFacts
    <2>2. Carried
      BY <1>7, <2>1 DEF Carried, Survives
    <2> QED
      BY <2>1, <2>2 DEF Orderly
  <1>8. ASSUME NEW ps, AskDelete(ps) PROVE Orderly
    BY <1>8, SameOrderly DEF AskDelete
  <1>9. CASE ConfirmDelete
    BY <1>9, SameOrderly DEF ConfirmDelete
  <1>10. CASE DeleteAnswered
    <2>1. Asked(deletion) /\ deletion.kind = "delete"
      BY <1>10 DEF DeleteAnswered, GridInv, Questions
    <2> QED
      BY <1>1, <1>10, <2>1, DeleteAnsweredFacts DEF Orderly, GivesUp
  <1>11. CASE DeleteRefused
    BY <1>11, SameOrderly DEF DeleteRefused
  <1> QED
    BY <1>2, <1>3, <1>4, <1>5, <1>6, <1>7, <1>8, <1>9, <1>10, <1>11 DEF Next

\* The question and the deletion stay what they are, are answered, or are asked anew.
LEMMA QuestionSteps ==
  ASSUME GridInv, Next
  PROVE  Questions'
  <1>1. ASSUME UNCHANGED <<dialog, deletion>> PROVE Questions'
    BY <1>1 DEF GridInv, Questions, Asked
  <1>2. ASSUME dialog' = Nothing, UNCHANGED deletion PROVE Questions'
    BY <1>2 DEF GridInv, Questions, Asked
  <1>3. ASSUME Asked(dialog'), UNCHANGED deletion PROVE Questions'
    BY <1>3 DEF GridInv, Questions, Asked
  <1>4. ASSUME deletion' = Nothing, UNCHANGED dialog PROVE Questions'
    BY <1>4 DEF GridInv, Questions, Asked
  <1>5. ASSUME NEW id \in Ids(rows), NEW p \in PathsIn(PaneOf(rows, id).tabs), OnTab(id, p)
        PROVE  Questions'
    <2>1. CASE RequestClose(id, p)
      <3>1. CASE dialog' = [kind |-> "close", id |-> id, paths |-> {p}]
        <4>1. p \in Files
          BY TabOfFacts DEF GridInv
        <4>2. Asked(dialog')
          BY <3>1, <4>1 DEF Asked
        <4> QED
          BY <1>3, <2>1, <4>2 DEF RequestClose
      <3>2. CASE UNCHANGED dialog
        BY <1>1, <2>1, <3>2 DEF RequestClose
      <3> QED
        BY <2>1, <3>1, <3>2 DEF RequestClose
    <2>2. ASSUME NEW ps, RequestCloseMany(id, ps) PROVE Questions'
      <3>1. CASE dialog' = [kind |-> "many", id |-> id, paths |-> ps]
        <4>1. Asked(dialog')
          BY <3>1 DEF Asked
        <4> QED
          BY <1>3, <2>2, <4>1 DEF RequestCloseMany
      <3>2. CASE UNCHANGED dialog
        BY <1>1, <2>2, <3>2 DEF RequestCloseMany
      <3> QED
        BY <2>2, <3>1, <3>2 DEF RequestCloseMany
    <2>3. ASSUME Activate(id, p) \/ PinTab(id, p) \/ Applied(id, p) PROVE Questions'
      BY <1>1, <2>3 DEF Activate, PinTab, Applied
    <2>4. ASSUME NEW value, SetDraft(id, p, value) PROVE Questions'
      BY <1>1, <2>4 DEF SetDraft
    <2>5. ASSUME NEW d, NEW eager, SplitTab(id, p, d, eager) PROVE Questions'
      <3>1. UNCHANGED <<dialog, deletion>>
        BY <2>5, Zenon DEF SplitTab
      <3> QED
        BY <1>1, <3>1
    <2>6. ASSUME NEW q, ReorderTabs(id, p, q) PROVE Questions'
      BY <1>1, <2>6 DEF ReorderTabs
    <2>7. ASSUME NEW to, NEW at, MoveTab(id, to, p, at) PROVE Questions'
      <3>1. UNCHANGED <<dialog, deletion>>
        BY <2>7, Zenon DEF MoveTab
      <3> QED
        BY <1>1, <3>1
    <2> QED
      BY <1>5, <2>1, <2>2, <2>3, <2>4, <2>5, <2>6, <2>7, Zenon DEF OnTab
  <1>6. ASSUME NEW p, NEW pin, OpenFile(p, pin) PROVE Questions'
    <2>1. UNCHANGED <<dialog, deletion>>
      BY <1>6, Zenon DEF OpenFile
    <2> QED
      BY <1>1, <2>1
  <1>7. ASSUME NEW id, FocusPane(id) PROVE Questions'
    BY <1>1, <1>7 DEF FocusPane
  <1>8. CASE Discard \/ Cancel
    BY <1>2, <1>8 DEF Discard, Cancel
  <1>9. ASSUME NEW p, NEW q, RenameTab(p, q) PROVE Questions'
    BY <1>1, <1>9 DEF RenameTab
  <1>10. ASSUME NEW ps, AskDelete(ps) PROVE Questions'
    <2>1. dialog' = [kind |-> "delete", tabs |-> TabsUnder(ps), focus |-> focus] /\ UNCHANGED deletion
      BY <1>10 DEF AskDelete
    <2>2. TabsUnder(ps) \in Seq(PaneIds \X Files)
      BY TabsUnderType DEF GridInv
    <2>3. Asked(dialog')
      BY <2>1, <2>2 DEF Asked
    <2> QED
      BY <1>3, <2>1, <2>3
  <1>11. CASE ConfirmDelete
    BY <1>11 DEF ConfirmDelete, GridInv, Questions, Asked
  <1>12. CASE DeleteAnswered
    <2>1. deletion' = Nothing /\ UNCHANGED dialog
      BY <1>12, Zenon DEF DeleteAnswered
    <2> QED
      BY <1>4, <2>1
  <1>13. CASE DeleteRefused
    BY <1>4, <1>13 DEF DeleteRefused
  <1> QED
    BY <1>5, <1>6, <1>7, <1>8, <1>9, <1>10, <1>11, <1>12, <1>13 DEF Next

LEMMA InitInv == Init => GridInv
  BY StartFacts DEF Init, GridInv, Questions

LEMMA NextInv == GridInv /\ [Next]_vars => GridInv'
  <1> SUFFICES ASSUME GridInv, [Next]_vars PROVE GridInv'
    OBVIOUS
  <1>1. CASE Next
    <2>1. Grid(rows')
      BY <1>1, GridSteps DEF Orderly
    <2>2. Questions'
      BY <1>1, QuestionSteps
    <2> QED
      BY <2>1, <2>2 DEF GridInv
  <1>2. CASE UNCHANGED vars
    BY <1>2 DEF vars, GridInv, Questions, Asked
  <1> QED
    BY <1>1, <1>2

\* The invariant the shape rests on: tabs are of one type and pinned where they
\* have a draft, and the questions name what a handler may close.
THEOREM GridCorrect == Spec => []GridInv
  BY InitInv, NextInv, PTL DEF Spec

\* The shape of the grid, whatever is split, moved, closed and deleted: canSplit's
\* limits hold, panes differ, none is empty but the only one, and each shows one
\* of its tabs (splitTab, moveTab, dropPane, nextActiveAfterRemoval).
THEOREM GridStaysShaped == Spec => []GridShape
  <1>1. GridInv => GridShape
    BY DEF GridInv, Grid, Sized, Filled, Sound, Proper, GridShape
  <1> QED
    BY <1>1, GridCorrect, PTL

\* No operation loses a draft it was not told to give up: each draft has, after
\* the step, a draft of the same file of its own, or of the name renameTab gave.
THEOREM DraftsAreKept == Spec => LayoutKeepsDrafts
  <1>1. GridInv /\ [Next]_vars => [Carried \/ GivesUp]_vars
    BY GridSteps DEF Orderly
  <1>2. Spec => [][Carried \/ GivesUp]_vars
    BY <1>1, GridCorrect, PTL DEF Spec
  <1>3. [][Carried \/ GivesUp]_vars => LayoutKeepsDrafts
    BY PTL DEF LayoutKeepsDrafts, Carried
  <1> QED
    BY <1>2, <1>3
=============================================================================

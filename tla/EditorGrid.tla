----------------------------- MODULE EditorGrid -----------------------------
(***************************************************************************)
(* The layout of the workspace editor: rows of panes of tabs, the focused  *)
(* pane, and the operations that open, close, split, move, rename and      *)
(* delete (use-workspace-editor.ts with the handlers of workspace-panel).  *)
(*                                                                         *)
(* A tab keeps of its text only whether it has a draft; texts, and the     *)
(* calls that load and save them, are WorkspaceEdit's.  Two stale reads of *)
(* the code are kept: a split learns its new pane from a state updater     *)
(* that React may run later (`eager` is FALSE), and the handler of a       *)
(* deletion works on the rows and the focus of the render its dialog was   *)
(* opened in.                                                              *)
(***************************************************************************)
EXTENDS Lists, SequencesExt

CONSTANTS Files,        \* the paths that may be open
          PaneIds,      \* a bound: the pane identifiers, numbers; 0 is pane_root
          MAX_COLS, MAX_ROWS,
          MaxTabs,      \* a bound: how many tabs are open
          Nothing
ASSUME GridConstants == /\ PaneIds \subseteq Nat /\ 0 \in PaneIds
                        /\ MAX_COLS \in Nat \ {0} /\ MAX_ROWS \in Nat \ {0}

VARIABLES rows,     \* sequences of rows of panes [id, tabs, active]
          focus,    \* activePaneId
          dialog,   \* the confirmation shown, or Nothing
          deletion  \* a deletion whose answer is awaited, or Nothing
vars == <<rows, focus, dialog, deletion>>

Tab(p, pin) == [path |-> p, dirty |-> FALSE, pinned |-> pin]
Pane(id, tabs, active) == [id |-> id, tabs |-> tabs, active |-> active]
InitialRows == << << Pane(0, <<>>, Nothing) >> >>
Init == /\ rows = InitialRows /\ focus = 0 /\ dialog = Nothing /\ deletion = Nothing

---------------------------------------------------------------------------
AllPanes(rs) == FlattenSeq(rs)
Panes(rs) == UNION {{rs[r][k] : k \in DOMAIN rs[r]} : r \in DOMAIN rs}
Ids(rs) == {pane.id : pane \in Panes(rs)}
PaneOf(rs, id) == CHOOSE pane \in Panes(rs) : pane.id = id
RowOf(rs, id) == CHOOSE r \in DOMAIN rs : \E k \in DOMAIN rs[r] : rs[r][k].id = id
Column(row, id) == CHOOSE k \in DOMAIN row : row[k].id = id
PathsIn(tabs) == {tabs[i].path : i \in DOMAIN tabs}
Index(tabs, p) == CHOOSE i \in DOMAIN tabs :
                    tabs[i].path = p /\ \A j \in 1 .. (i - 1) : tabs[j].path # p
Has(rs, id, p) == id \in Ids(rs) /\ p \in PathsIn(PaneOf(rs, id).tabs)
TabOf(rs, id, p) == PaneOf(rs, id).tabs[Index(PaneOf(rs, id).tabs, p)]
IsTabDirty(id, p) == Has(rows, id, p) /\ TabOf(rows, id, p).dirty
AllTabs(rs) == LET all == AllPanes(rs) IN FlattenSeq([i \in DOMAIN all |-> all[i].tabs])
OpenTabs == Len(AllTabs(rows))
Opens(p) == {id \in Ids(rows) : Has(rows, id, p)}

WithPane(rs, id, pane) ==
  [r \in DOMAIN rs |-> [k \in DOMAIN rs[r] |-> IF rs[r][k].id = id THEN pane ELSE rs[r][k]]]
Patch(tabs, p, tab) == [i \in DOMAIN tabs |-> IF tabs[i].path = p THEN tab ELSE tabs[i]]
PatchTab(rs, id, p, tab) ==
  WithPane(rs, id, [PaneOf(rs, id) EXCEPT !.tabs = Patch(@, p, tab)])

\* dropPane, which resets to pane_root when nothing is left.
OtherPanes(row, id) == Without(row, {pane \in Range(row) : pane.id = id})
DropPane(rs, id) ==
  LET left == Without([r \in DOMAIN rs |-> OtherPanes(rs[r], id)], {<<>>})
  IN IF left = <<>> THEN InitialRows ELSE left

\* nextActiveAfterRemoval: the tab to the right, else the one to the left.
StaysActive(pane, p) == pane.active   \* a plausible bug: the removed tab stays active
ActiveWithout(pane, p) ==
  LET n == Len(pane.tabs)
      i == Index(pane.tabs, p)
  IN IF pane.active # p THEN pane.active
     ELSE IF n <= 1 THEN Nothing ELSE pane.tabs[IF i < n THEN i + 1 ELSE i - 1].path

---------------------------------------------------------------------------
\* A bound: while a deletion is awaited, tabs are opened, focused, edited and
\* closed, not moved, split or renamed.
Quiet == dialog = Nothing /\ deletion = Nothing

\* openFile: where the file is open, else in the focused pane, in place of the
\* first tab that is not pinned (unless it is to be pinned itself).
AnyTab(pane) == DOMAIN pane.tabs      \* a plausible bug: pinned tabs are replaced too
Previews(pane) == {i \in DOMAIN pane.tabs : ~pane.tabs[i].pinned}
FirstOf(S) == CHOOSE i \in S : \A j \in S : i <= j
Placed(pane, p, pin) ==
  IF ~pin /\ Previews(pane) # {}
    THEN ReplaceAt(pane.tabs, FirstOf(Previews(pane)), Tab(p, pin))
    ELSE Append(pane.tabs, Tab(p, pin))
Shown(pane, p, pin) ==
  IF p \in PathsIn(pane.tabs)
    THEN [pane EXCEPT !.active = p,
                      !.tabs = [i \in DOMAIN @ |-> IF @[i].path = p /\ pin
                                                   THEN [@[i] EXCEPT !.pinned = TRUE] ELSE @[i]]]
    ELSE [pane EXCEPT !.active = p, !.tabs = Placed(pane, p, pin)]
FirstPaneWith(p) == LET all == AllPanes(rows)
                        i == FirstOf({i \in DOMAIN all : p \in PathsIn(all[i].tabs)})
                    IN all[i].id
OpenFile(p, pin) ==
  LET target == IF Opens(p) # {} THEN FirstPaneWith(p) ELSE focus
  IN /\ dialog = Nothing
     /\ OpenTabs < MaxTabs \/ Opens(p) # {}
     /\ rows' = IF target \in Ids(rows)
                  THEN WithPane(rows, target, Shown(PaneOf(rows, target), p, pin)) ELSE rows
     /\ focus' = target
     /\ UNCHANGED <<dialog, deletion>>

FocusPane(id) == /\ dialog = Nothing
                 /\ focus' = id
                 /\ UNCHANGED <<rows, dialog, deletion>>
Activate(id, p) == /\ dialog = Nothing
                   /\ rows' = WithPane(rows, id, [PaneOf(rows, id) EXCEPT !.active = p])
                   /\ focus' = id
                   /\ UNCHANGED <<dialog, deletion>>
PinTab(id, p) == /\ Quiet
                 /\ rows' = PatchTab(rows, id, p, [TabOf(rows, id, p) EXCEPT !.pinned = TRUE])
                 /\ UNCHANGED <<focus, dialog, deletion>>

\* setDraft: the first edit pins the tab.
Edited(tab) == [tab EXCEPT !.dirty = TRUE, !.pinned = TRUE]
SetDraft(id, p, value) ==
  /\ dialog = Nothing /\ PaneOf(rows, id).active = p
  /\ rows' = PatchTab(rows, id, p, value)
  /\ UNCHANGED <<focus, dialog, deletion>>
\* A file's contents applied: its save was answered, or it was loaded again.
Applied(id, p) == /\ rows' = PatchTab(rows, id, p, [TabOf(rows, id, p) EXCEPT !.dirty = FALSE])
                  /\ UNCHANGED <<focus, dialog, deletion>>

---------------------------------------------------------------------------
\* closeTab, on rows rs and focus fo; `seen` is the activePaneId of its render.
AfterClose(rs, id, p) ==
  IF ~Has(rs, id, p) THEN rs
  ELSE LET pane == PaneOf(rs, id)
           rest == RemoveAt(pane.tabs, Index(pane.tabs, p))
       IN IF rest = <<>> THEN DropPane(rs, id)
          ELSE WithPane(rs, id, [pane EXCEPT !.tabs = rest, !.active = ActiveWithout(pane, p)])
FallbackPane(rs) == AllPanes(rs)[1].id
FocusAfter(rs, fo, id, left, seen) ==
  IF id \in Ids(rs) /\ left = <<>> /\ seen = id THEN FallbackPane(DropPane(rs, id)) ELSE fo
FocusAfterClose(rs, fo, id, p, seen) ==
  IF Has(rs, id, p)
    THEN FocusAfter(rs, fo, id, RemoveAt(PaneOf(rs, id).tabs, 1), seen) ELSE fo
CloseTab(id, p) == /\ rows' = AfterClose(rows, id, p)
                   /\ focus' = FocusAfterClose(rows, focus, id, p, focus)

\* closePaths: the next tab that stays becomes active, else the one before.
Staying(tabs, ps) == Without(tabs, {t \in Range(tabs) : t.path \in ps})
ActiveAmong(pane, ps) ==
  LET i == Index(pane.tabs, pane.active)
      right == {j \in DOMAIN pane.tabs : j > i /\ pane.tabs[j].path \notin ps}
      left == {j \in DOMAIN pane.tabs : j < i /\ pane.tabs[j].path \notin ps}
  IN IF pane.active \notin ps THEN pane.active
     ELSE IF right # {} THEN pane.tabs[FirstOf(right)].path
     ELSE IF left # {} THEN pane.tabs[CHOOSE j \in left : \A k \in left : k <= j].path
     ELSE Nothing
ClosePaths(id, ps) ==
  IF id \notin Ids(rows) THEN UNCHANGED <<rows, focus>>
  ELSE LET pane == PaneOf(rows, id)
           rest == Staying(pane.tabs, ps)
       IN /\ rows' = IF rest = <<>> THEN DropPane(rows, id)
                     ELSE WithPane(rows, id, [pane EXCEPT !.tabs = rest,
                                                          !.active = ActiveAmong(pane, ps)])
          /\ focus' = FocusAfter(rows, focus, id, rest, focus)

\* handleCloseTab and handleCloseMany: a draft is asked about first.
RequestClose(id, p) ==
  /\ dialog = Nothing
  /\ IF IsTabDirty(id, p)
       THEN dialog' = [kind |-> "close", id |-> id, paths |-> {p}] /\ UNCHANGED <<rows, focus>>
       ELSE CloseTab(id, p) /\ UNCHANGED dialog
  /\ UNCHANGED deletion
RequestCloseMany(id, ps) ==
  /\ Quiet /\ ps # {}
  /\ IF \E p \in ps : IsTabDirty(id, p)
       THEN dialog' = [kind |-> "many", id |-> id, paths |-> ps] /\ UNCHANGED <<rows, focus>>
       ELSE ClosePaths(id, ps) /\ UNCHANGED dialog
  /\ UNCHANGED deletion
\* The menu of a tab: the others, those to its right, to its left, all.
MenuSets(pane, p) ==
  LET i == Index(pane.tabs, p)
      all == PathsIn(pane.tabs)
  IN {all \ {p}, all, PathsIn(SubSeq(pane.tabs, i + 1, Len(pane.tabs))),
      PathsIn(SubSeq(pane.tabs, 1, i - 1))}
Discard == /\ dialog # Nothing
           /\ dialog' = Nothing
           /\ \/ dialog.kind = "close" /\ \A p \in dialog.paths : CloseTab(dialog.id, p)
              \/ dialog.kind = "many" /\ ClosePaths(dialog.id, dialog.paths)
           /\ UNCHANGED deletion
\* Cancel; "Save" is a save, whose handler leaves the tab open (WorkspaceEdit).
Cancel == /\ dialog # Nothing
          /\ dialog' = Nothing
          /\ UNCHANGED <<rows, focus, deletion>>

---------------------------------------------------------------------------
\* reorderTabs with arrayMove, on a tab dropped on another of its pane.
ArrayMove(s, i, j) == InsertAt(RemoveAt(s, i), j, s[i])
ReorderTabs(id, p, q) ==
  /\ Quiet /\ p # q
  /\ LET tabs == PaneOf(rows, id).tabs
     IN rows' = WithPane(rows, id, [PaneOf(rows, id) EXCEPT
                                      !.tabs = ArrayMove(tabs, Index(tabs, p), Index(tabs, q))])
  /\ UNCHANGED <<focus, dialog, deletion>>

\* splitTab.  A sole tab is copied; the focus moves only if the updater ran.
Free == PaneIds \ (Ids(rows) \cup {0, focus}
                   \cup (IF dialog = Nothing \/ dialog.kind = "delete" THEN {} ELSE {dialog.id}))
NewId == FirstOf(Free)
SplitOff(pane, p) == IF Len(pane.tabs) = 1 THEN pane
                     ELSE [pane EXCEPT !.tabs = Staying(@, {p}), !.active = ActiveWithout(pane, p)]
CanSplit(id, direction) == IF direction = "horizontal"
                             THEN Len(rows[RowOf(rows, id)]) < MAX_COLS
                             ELSE Len(rows) < MAX_ROWS
SplitTab(id, p, direction, eager) ==
  /\ Quiet /\ Free # {} /\ OpenTabs < MaxTabs
  /\ CanSplit(id, direction)
  /\ LET pane == PaneOf(rows, id)
         r == RowOf(rows, id)
         new == Pane(NewId, <<TabOf(rows, id, p)>>, p)
         source == WithPane(rows, id, SplitOff(pane, p))
     IN /\ rows' = IF direction = "horizontal"
                     THEN [source EXCEPT ![r] = InsertAt(@, Column(@, id) + 1, new)]
                     ELSE InsertAt(source, r + 1, <<new>>)
        /\ focus' = IF eager THEN NewId ELSE focus
  /\ UNCHANGED <<dialog, deletion>>

\* moveTab and afterDrop: a tab dropped on a pane that has its path open is
\* just taken from its source.
Into(pane, p, tab, at) ==
  IF p \in PathsIn(pane.tabs) THEN [pane EXCEPT !.active = p]
  ELSE [pane EXCEPT !.tabs = InsertAt(@, at, tab), !.active = p]
MoveTab(from, to, p, at) ==
  /\ Quiet /\ from # to
  /\ LET source == PaneOf(rows, from)
         rest == Staying(source.tabs, {p})
         placed == WithPane(rows, to, Into(PaneOf(rows, to), p, TabOf(rows, from, p), at))
     IN rows' = IF rest = <<>> THEN DropPane(placed, from)
                ELSE WithPane(placed, from, [source EXCEPT !.tabs = rest,
                                                           !.active = ActiveWithout(source, p)])
  /\ focus' = to
  /\ UNCHANGED <<dialog, deletion>>

\* renameTab, in every pane.  A bound: not to the name of a neighbour, which the
\* code allows when that one's file is gone from the disk; two tabs of a pane
\* then share a path.
Renamed(pane, p, q) ==
  [pane EXCEPT !.tabs = [i \in DOMAIN @ |-> IF @[i].path = p THEN [@[i] EXCEPT !.path = q] ELSE @[i]],
               !.active = IF @ = p THEN q ELSE @]
RenameTab(p, q) ==
  /\ Quiet /\ Opens(p) # {} /\ p # q /\ Opens(p) \cap Opens(q) = {}
  /\ rows' = [r \in DOMAIN rows |-> [k \in DOMAIN rows[r] |-> Renamed(rows[r][k], p, q)]]
  /\ UNCHANGED <<focus, dialog, deletion>>

\* confirmDelete: the tabs and the focus of the render that opened the dialog,
\* in the order of its rows.
TabsUnder(ps) ==
  LET all == AllPanes(rows)
      open == FlattenSeq([i \in DOMAIN all |->
                            [k \in DOMAIN all[i].tabs |-> <<all[i].id, all[i].tabs[k].path>>]])
  IN Without(open, {t \in Range(open) : t[2] \notin ps})
AskDelete(ps) == /\ Quiet
                 /\ dialog' = [kind |-> "delete", tabs |-> TabsUnder(ps), focus |-> focus]
                 /\ UNCHANGED <<rows, focus, deletion>>
ConfirmDelete == /\ dialog # Nothing /\ dialog.kind = "delete"
                 /\ deletion' = dialog
                 /\ dialog' = Nothing
                 /\ UNCHANGED <<rows, focus>>
CloseNext(s, t, seen) == [rows |-> AfterClose(s.rows, t[1], t[2]),
                          focus |-> FocusAfterClose(s.rows, s.focus, t[1], t[2], seen)]
DeleteAnswered ==
  /\ deletion # Nothing
  /\ LET n == Len(deletion.tabs)
         closed[i \in 0 .. n] == IF i = 0 THEN [rows |-> rows, focus |-> focus]
                                 ELSE CloseNext(closed[i - 1], deletion.tabs[i], deletion.focus)
     IN rows' = closed[n].rows /\ focus' = closed[n].focus
  /\ deletion' = Nothing
  /\ UNCHANGED dialog
DeleteRefused == /\ deletion # Nothing
                 /\ deletion' = Nothing
                 /\ UNCHANGED <<rows, focus, dialog>>

OnTab(id, p) == \/ Activate(id, p) \/ PinTab(id, p) \/ Applied(id, p) \/ RequestClose(id, p)
                \/ SetDraft(id, p, Edited(TabOf(rows, id, p)))
                \/ SetDraft(id, p, [TabOf(rows, id, p) EXCEPT !.dirty = FALSE])
                \/ \E ps \in MenuSets(PaneOf(rows, id), p) : RequestCloseMany(id, ps)
                \/ \E d \in {"horizontal", "vertical"}, eager \in BOOLEAN : SplitTab(id, p, d, eager)
                \/ \E q \in PathsIn(PaneOf(rows, id).tabs) : ReorderTabs(id, p, q)
                \/ \E to \in Ids(rows) : \E at \in DOMAIN PaneOf(rows, to).tabs : MoveTab(id, to, p, at)
Next == \/ \E p \in Files, pin \in BOOLEAN : OpenFile(p, pin)
        \/ \E id \in Ids(rows) : FocusPane(id)
        \/ \E id \in Ids(rows) : \E p \in PathsIn(PaneOf(rows, id).tabs) : OnTab(id, p)
        \/ Discard \/ Cancel
        \/ \E p, q \in Files : RenameTab(p, q)
        \/ \E ps \in SUBSET Files \ {{}} : AskDelete(ps)
        \/ ConfirmDelete \/ DeleteAnswered \/ DeleteRefused
Spec == Init /\ [][Next]_vars

---------------------------------------------------------------------------
\* Through any sequence of splits, moves, closes and deletes: no more rows and
\* columns than canSplit allows, the panes all different, no pane without a tab
\* but the only one (dropPane); and what a pane shows is one of its tabs, so that
\* a key stroke or a save reaches a tab that is there (nextActiveAfterRemoval).
Apart(rs) == \A r, s \in DOMAIN rs : \A k \in DOMAIN rs[r], l \in DOMAIN rs[s] :
               rs[r][k].id = rs[s][l].id => r = s /\ k = l
Once(tabs) == \A i, j \in DOMAIN tabs : tabs[i].path = tabs[j].path => i = j
GridShape ==
  /\ Len(rows) \in 1 .. MAX_ROWS
  /\ \A r \in DOMAIN rows : Len(rows[r]) \in 1 .. MAX_COLS
  /\ Apart(rows)
  /\ \A pane \in Panes(rows) : /\ Once(pane.tabs)
                               /\ IF pane.tabs = <<>> THEN rows = InitialRows
                                  ELSE pane.active \in PathsIn(pane.tabs)

\* setDraft's pin and the confirmations: a draft is given up only by applying the
\* file's contents, typing it back, confirming, deleting the file, or dropping a
\* tab on a pane that has its path open; never by opening, splitting, moving,
\* reordering or closing without a question.
Drafts(rs) == UNION {{<<pane.id, t.path>> : t \in {u \in Range(pane.tabs) : u.dirty}} :
                       pane \in Panes(rs)}
Survives(d, file) == file = d[2] \/ RenameTab(d[2], file)
GivesUp == \/ Discard \/ DeleteAnswered
           \/ \E id \in Ids(rows) : \E p \in PathsIn(PaneOf(rows, id).tabs) :
                \/ Applied(id, p) \/ SetDraft(id, p, [TabOf(rows, id, p) EXCEPT !.dirty = FALSE])
                \/ \E to \in Opens(p) : MoveTab(id, to, p, 1)
LayoutKeepsDrafts ==
  [][\/ \E kept \in Injection(Drafts(rows), Drafts(rows')) :
          \A d \in Drafts(rows) : Survives(d, kept[d][2])
     \/ GivesUp]_vars

=============================================================================

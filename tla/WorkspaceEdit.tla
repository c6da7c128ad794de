---------------------------- MODULE WorkspaceEdit ----------------------------
(***************************************************************************)
(* A pane of the workspace panel over the files of the agent's pod: the    *)
(* contents of its tabs (use-workspace-editor.ts), the handlers of         *)
(* workspace-panel.tsx that call the server, and the server's answers      *)
(* (WorkspaceFiles), while the agent changes the same files.               *)
(*                                                                         *)
(* A call is sent, served and answered in three steps; the connection may  *)
(* be lost before or after it was served.  Where tabs stand, and which is  *)
(* active, is EditorGrid's: here any open tab can be worked on, because a  *)
(* click makes it the active one.                                          *)
(***************************************************************************)
EXTENDS WorkspaceFiles, FiniteSets

CONSTANTS Slots,     \* as many calls are in flight at most
          Start,     \* the tree at first
          Files,     \* a bound: the paths used for files, the others for directories
          Renames,   \* pairs <<from, to>> of one directory
          Ticks,     \* how the clock may move at a write: a subset of 0..1
          MaxTime, MaxTexts, MaxCalls  \* bounds

ASSUME StartAssumption ==
  /\ Start = [p \in Paths |-> Start[p]] /\ WellFormed(Start)
  /\ \A p \in Paths : Start[p].kind \in {"none", "dir", "link", "file"}
ASSUME NamesAssumption == Files \subseteq Paths /\ Renames \subseteq Paths \X Paths

VARIABLES fs,        \* the tree on the pod
          clock,     \* the modification time of the last write
          texts,     \* how many texts were written so far
          tabs,      \* [Paths -> a tab or Nothing]
          gens,      \* generationsRef: 0 is no entry
          calls,     \* [Slots -> a call or NoCall]
          sent,      \* how many calls were sent so far
          dialog,    \* the conflict or confirmation shown, or Nothing
          strays     \* history: tabs renamed while they were loading

vars == <<fs, clock, texts, tabs, gens, calls, sent, dialog, strays>>
files == <<fs, clock>>
wire == <<calls, sent>>

NoCall == [op |-> "none"]
EmptyTab(pin) == [loading |-> TRUE, failed |-> FALSE, content |-> Nothing,
                  mtime |-> Nothing, draft |-> Nothing, pinned |-> pin]
IsOpen(p) == tabs[p] # Nothing
IsLoading(p) == IsOpen(p) /\ tabs[p].loading
CanEdit(p) == IsOpen(p) /\ ~tabs[p].loading /\ ~tabs[p].failed
IsDirty(p) == IsOpen(p) /\ tabs[p].draft # Nothing

Init == /\ fs = Start
        /\ clock = 0 /\ texts = 0
        /\ tabs = [p \in Paths |-> Nothing]
        /\ gens = [p \in Paths |-> 0]
        /\ calls = [i \in Slots |-> NoCall]
        /\ sent = 0
        /\ dialog = Nothing
        /\ strays = {}

---------------------------------------------------------------------------
\* The client's calls: an idle slot takes it.
Idle == {i \in Slots : calls[i].op = "none"}
FirstIdle == CHOOSE i \in Idle : TRUE
With(cs, c) == [cs EXCEPT ![FirstIdle] = c]
CanSend == Idle # {} /\ sent < MaxCalls /\ sent' = sent + 1
Send(c) == CanSend /\ calls' = With(calls, c)
Drop(i) == calls' = [calls EXCEPT ![i] = NoCall] /\ UNCHANGED sent

\* loadFile: the next generation of the path, which outdates the earlier loads.
Outdated(p) == [i \in Slots |-> IF calls[i].op = "load" /\ calls[i].path = p
                                THEN [calls[i] EXCEPT !.old = TRUE] ELSE calls[i]]
LoadCall(p, gen) == [op |-> "load", path |-> p, gen |-> gen, old |-> FALSE, reply |-> Nothing]
LoadFile(p, gs, ts) ==
  /\ CanSend
  /\ gens' = [gs EXCEPT ![p] = @ + 1]
  /\ calls' = With(Outdated(p), LoadCall(p, gs[p] + 1))
  /\ tabs' = IF ts[p] = Nothing THEN ts
             ELSE [ts EXCEPT ![p].loading = TRUE, ![p].failed = FALSE]

Forget(gs, ps) == [p \in Paths |-> IF p \in ps THEN 0 ELSE gs[p]]
Shut(ts, ps) == [p \in Paths |-> IF p \in ps THEN Nothing ELSE ts[p]]
Close(ps) == /\ tabs' = Shut(tabs, ps)
             /\ gens' = Forget(gens, ps)
             /\ strays' = strays \ ps

\* openFile: an open tab is shown, and pinned on request; a tab that is not
\* pinned gives its place to the next one opened without a pin.
Preview == {p \in Paths : IsOpen(p) /\ ~tabs[p].pinned}
Open(p, pin) ==
  /\ dialog = Nothing
  /\ ~\E i \in Slots : calls[i].op = "move" /\ calls[i].to = p
  /\ IF IsOpen(p)
       THEN /\ tabs' = [tabs EXCEPT ![p].pinned = @ \/ pin]
            /\ UNCHANGED <<gens, wire, strays>>
       ELSE LET gone == IF pin THEN {} ELSE Preview
            IN /\ LoadFile(p, Forget(gens, gone), [Shut(tabs, gone) EXCEPT ![p] = EmptyTab(pin)])
               /\ strays' = strays \ gone
  /\ UNCHANGED <<fs, clock, texts, dialog>>

Pin(p) == /\ IsOpen(p) /\ ~tabs[p].pinned /\ dialog = Nothing
          /\ tabs' = [tabs EXCEPT ![p].pinned = TRUE]
          /\ UNCHANGED <<fs, clock, texts, gens, wire, dialog, strays>>

\* setDraft: typing a new text, or typing back the saved one.
Type(p) == /\ CanEdit(p) /\ dialog = Nothing /\ texts < MaxTexts
           /\ texts' = texts + 1
           /\ tabs' = [tabs EXCEPT ![p].draft = texts + 1, ![p].pinned = TRUE]
           /\ UNCHANGED <<fs, clock, gens, wire, dialog, strays>>
Undo(p) == /\ CanEdit(p) /\ IsDirty(p) /\ dialog = Nothing
           /\ tabs' = [tabs EXCEPT ![p].draft = Nothing]
           /\ UNCHANGED <<fs, clock, texts, gens, wire, dialog, strays>>

\* save: `base` is a history field, the text the tab had last read.
SaveCall(p, content, override) ==
  [op |-> "save", path |-> p, content |-> content, base |-> tabs[p].content,
   expected |-> tabs[p].mtime, overwrite |-> override, reply |-> Nothing]
Save(p) == /\ CanEdit(p) /\ IsDirty(p) /\ dialog = Nothing
           /\ Send(SaveCall(p, tabs[p].draft, FALSE))
           /\ UNCHANGED <<fs, clock, texts, tabs, gens, dialog, strays>>

\* refresh: the tree is listed first, then the tab active at the click reloads.
Refresh(p) == /\ IsOpen(p) /\ dialog = Nothing
              /\ Send([op |-> "list", path |-> p, reply |-> Nothing])
              /\ UNCHANGED <<fs, clock, texts, tabs, gens, dialog, strays>>

\* handleCloseTab.  "Save" saves and then asks isTabDirty of the render the
\* dialog was opened in, where the tab is dirty: it stays open.
RequestClose(p) ==
  /\ IsOpen(p) /\ dialog = Nothing
  /\ IF IsDirty(p)
       THEN /\ dialog' = [kind |-> "close", path |-> p, content |-> tabs[p].draft]
            /\ UNCHANGED <<tabs, gens, strays>>
       ELSE Close({p}) /\ UNCHANGED dialog
  /\ UNCHANGED <<fs, clock, texts, wire>>
ConfirmSave == /\ dialog # Nothing /\ dialog.kind = "close"
               /\ dialog' = Nothing
               /\ IF IsOpen(dialog.path)
                    THEN Send(SaveCall(dialog.path, dialog.content, FALSE))
                    ELSE UNCHANGED wire
               /\ UNCHANGED <<fs, clock, texts, tabs, gens, strays>>
Discard == /\ dialog # Nothing /\ dialog.kind = "close"
           /\ dialog' = Nothing
           /\ Close({dialog.path})
           /\ UNCHANGED <<fs, clock, texts, wire>>
Cancel == /\ dialog # Nothing
          /\ dialog' = Nothing
          /\ UNCHANGED <<fs, clock, texts, tabs, gens, wire, strays>>

\* The conflict dialog: overwrite sends the text of the refused save again.
Overwrite == /\ dialog # Nothing /\ dialog.kind = "conflict"
             /\ dialog' = Nothing
             /\ Send([dialog.call EXCEPT !.overwrite = TRUE])
             /\ UNCHANGED <<fs, clock, texts, tabs, gens, strays>>
Reload == /\ dialog # Nothing /\ dialog.kind = "conflict"
          /\ dialog' = Nothing
          /\ LoadFile(dialog.call.path, gens, tabs)
          /\ strays' = strays \ {dialog.call.path}
          /\ UNCHANGED <<fs, clock, texts>>

\* The tree shows what a listing of the directory returns.
Shown(p) == ListCode(fs, Parent(p)) = "ok" /\ p \in Listed(fs, Parent(p), {})

\* submitNew, uploadFiles, submitRename and confirmDelete.
CreateFile(p, upload) ==
  /\ dialog = Nothing /\ texts < MaxTexts
  /\ texts' = texts + 1
  /\ Send([op |-> "create", path |-> p, content |-> texts + 1, upload |-> upload, overwrite |-> FALSE,
           reply |-> Nothing])
  /\ UNCHANGED <<fs, clock, tabs, gens, dialog, strays>>
ConfirmUpload == /\ dialog # Nothing /\ dialog.kind = "upload"
                 /\ dialog' = Nothing
                 /\ Send([dialog.call EXCEPT !.overwrite = TRUE])
                 /\ UNCHANGED <<fs, clock, texts, tabs, gens, strays>>
CreateDir(p) == /\ dialog = Nothing
                /\ Send([op |-> "mkdir", path |-> p, reply |-> Nothing])
                /\ UNCHANGED <<fs, clock, texts, tabs, gens, dialog, strays>>
Rename(from, to) ==
  /\ dialog = Nothing /\ Shown(from)
  /\ tabs[to] = Nothing /\ Fits(fs, from, to)
  /\ Send([op |-> "move", path |-> from, to |-> to, reply |-> Nothing])
  /\ UNCHANGED <<fs, clock, texts, tabs, gens, dialog, strays>>
AskDelete(p) ==
  /\ dialog = Nothing /\ Shown(p)
  /\ dialog' = [kind |-> "delete", path |-> p,
                open |-> {q \in Paths : IsOpen(q) /\ (q = p \/ Below(q, p))},
                recursive |-> Kind(fs, p) = "dir"]
  /\ UNCHANGED <<fs, clock, texts, tabs, gens, wire, strays>>
ConfirmDelete ==
  /\ dialog # Nothing /\ dialog.kind = "delete"
  /\ dialog' = Nothing
  /\ Send([op |-> "delete", path |-> dialog.path, open |-> dialog.open,
           recursive |-> dialog.recursive, reply |-> Nothing])
  /\ UNCHANGED <<fs, clock, texts, tabs, gens, strays>>

---------------------------------------------------------------------------
\* The server: one synchronous handler serves a call.
Waiting(i, op) == calls[i].op = op /\ calls[i].reply = Nothing
Serve(i, reply) == /\ calls' = [calls EXCEPT ![i].reply = reply]
                   /\ UNCHANGED <<texts, tabs, gens, sent, dialog, strays>>
Code(code) == [code |-> code]
Version(content, mtime) == [code |-> "ok", content |-> content, mtime |-> mtime]

ServeLoad(i) ==
  /\ Waiting(i, "load")
  /\ LET p == calls[i].path
         code == ReadCode(fs, p)
     IN Serve(i, IF code = "ok" THEN Version(fs[p].content, fs[p].mtime) ELSE Code(code))
  /\ UNCHANGED files

\* The PUT route: a save says the time it read, a new file or an upload none.
Expected(c) == IF c.op = "save" THEN c.expected ELSE Nothing
ServeWrite(i) ==
  /\ Waiting(i, "save") \/ Waiting(i, "create")
  /\ LET c == calls[i]
         code == WriteCode(fs, c.path, Expected(c), c.overwrite)
     IN \/ /\ code = "ok" /\ clock < MaxTime
           /\ \E t \in Ticks :
                /\ clock' = clock + t
                /\ fs' = AfterWrite(fs, c.path, c.content, clock + t)
                /\ Serve(i, Version(c.content, clock + t))
        \/ code # "ok" /\ Serve(i, Code(code)) /\ UNCHANGED files

\* The continuation only lists the parent again, which the model leaves out.
ServeMakeDir(i) ==
  /\ Waiting(i, "mkdir")
  /\ LET p == calls[i].path
     IN fs' = IF MakeDirCode(fs, p) = "ok" THEN AfterMakeDir(fs, p) ELSE fs
  /\ Drop(i)
  /\ UNCHANGED <<clock, texts, tabs, gens, dialog, strays>>
ServeMove(i) ==
  /\ Waiting(i, "move") /\ Fits(fs, calls[i].path, calls[i].to)
  /\ LET c == calls[i]
         code == MoveCode(fs, c.path, c.to)
     IN /\ Serve(i, Code(code))
        /\ fs' = IF code = "ok" THEN AfterMove(fs, c.path, c.to) ELSE fs
  /\ UNCHANGED clock
ServeDelete(i) ==
  /\ Waiting(i, "delete")
  /\ LET c == calls[i]
         code == DeleteCode(fs, c.path, c.recursive)
     IN /\ Serve(i, Code(code))
        /\ fs' = IF code = "ok" THEN AfterDelete(fs, c.path) ELSE fs
  /\ UNCHANGED clock
\* The connection is lost, whether the call was served or not.
Lose(i) == /\ calls[i].op \notin {"none", "list"} /\ calls[i].reply # Code("lost")
           /\ Serve(i, Code("lost"))
           /\ UNCHANGED files

---------------------------------------------------------------------------
\* The client's continuations after an await.
Answered(i, op) == calls[i].op = op /\ calls[i].reply # Nothing

\* applyFileContents, and the catch of loadFile.
Spins(tab, reply) ==                  \* a plausible bug: the catch forgets the spinner
  IF reply.code = "ok"
    THEN [tab EXCEPT !.loading = FALSE, !.content = reply.content,
                     !.mtime = reply.mtime, !.draft = Nothing]
    ELSE [tab EXCEPT !.failed = TRUE]
Applied(tab, reply) ==
  IF reply.code = "ok"
    THEN [tab EXCEPT !.loading = FALSE, !.failed = FALSE, !.content = reply.content,
                     !.mtime = reply.mtime, !.draft = Nothing]
    ELSE [tab EXCEPT !.loading = FALSE, !.failed = TRUE]
Current(c) == gens[c.path] = c.gen
AnswerLoad(i) ==
  /\ Answered(i, "load")
  /\ LET c == calls[i]
     IN IF IsOpen(c.path) /\ Current(c)
          THEN /\ tabs' = [tabs EXCEPT ![c.path] = Applied(@, c.reply)]
               /\ strays' = strays \ {c.path}
          ELSE UNCHANGED <<tabs, strays>>
  /\ Drop(i)
  /\ UNCHANGED <<fs, clock, texts, gens, dialog>>

\* refresh, once the tree is listed or failed to be: reloadTab of the path that
\* was active at the click.
AnswerList(i) ==
  /\ Waiting(i, "list")
  /\ LET p == calls[i].path
     IN /\ sent < MaxCalls
        /\ sent' = sent + 1
        /\ gens' = [gens EXCEPT ![p] = @ + 1]
        /\ calls' = [Outdated(p) EXCEPT ![i] = LoadCall(p, gens[p] + 1)]
        /\ tabs' = IF IsOpen(p) THEN [tabs EXCEPT ![p].loading = TRUE, ![p].failed = FALSE] ELSE tabs
        /\ strays' = strays \ {p}
  /\ UNCHANGED <<fs, clock, texts, dialog>>

\* doSave: the answer becomes the tab, or a conflict is shown.
Conflicts == {"stale", "exists"}
AnswerSave(i) ==
  /\ Answered(i, "save")
  /\ LET c == calls[i] IN
       /\ tabs' = IF c.reply.code = "ok" /\ IsOpen(c.path)
                    THEN [tabs EXCEPT ![c.path] = Applied(@, c.reply)] ELSE tabs
       /\ strays' = IF c.reply.code = "ok" THEN strays \ {c.path} ELSE strays
       /\ dialog' = IF c.reply.code \in Conflicts
                      THEN [kind |-> "conflict", call |-> [c EXCEPT !.reply = Nothing]] ELSE dialog
  /\ Drop(i)
  /\ UNCHANGED <<fs, clock, texts, gens>>
AnswerCreate(i) ==
  /\ Answered(i, "create")
  /\ LET c == calls[i]
         asks == c.upload /\ c.reply.code = "exists" /\ dialog = Nothing
     IN dialog' = IF asks THEN [kind |-> "upload", call |-> [c EXCEPT !.reply = Nothing]] ELSE dialog
  /\ Drop(i)
  /\ UNCHANGED <<fs, clock, texts, tabs, gens, strays>>
AnswerMakeDir(i) == /\ Answered(i, "mkdir")     \* only when the connection was lost
                    /\ Drop(i)
                    /\ UNCHANGED <<fs, clock, texts, tabs, gens, dialog, strays>>

\* renameTab: the tab of that very path takes the new one, with its generation;
\* a load that is under way keeps the old key, and is ignored.
Moved(f, from, to, none) == [f EXCEPT ![to] = f[from], ![from] = none]
AnswerMove(i) ==
  /\ Answered(i, "move")
  /\ LET c == calls[i] IN
       IF c.reply.code = "ok" /\ IsOpen(c.path) /\ ~IsOpen(c.to)
         THEN /\ tabs' = Moved(tabs, c.path, c.to, Nothing)
              /\ gens' = IF gens[c.path] # 0 THEN Moved(gens, c.path, c.to, 0) ELSE gens
              /\ strays' = (strays \ {c.path})
                             \cup IF IsLoading(c.path) THEN {c.to} ELSE {}
         ELSE UNCHANGED <<tabs, gens, strays>>
  /\ Drop(i)
  /\ UNCHANGED <<fs, clock, texts, dialog>>

\* confirmDelete: the tabs that were open when the dialog was.
AnswerDelete(i) ==
  /\ Answered(i, "delete")
  /\ IF calls[i].reply.code = "ok"
       THEN Close({q \in calls[i].open : IsOpen(q)})
       ELSE UNCHANGED <<tabs, gens, strays>>
  /\ Drop(i)
  /\ UNCHANGED <<fs, clock, texts, dialog>>

---------------------------------------------------------------------------
\* The agent, whose tools work on the same directory.
AgentWrites(p) ==
  /\ Kind(fs, p) \in {"none", "file"} /\ Kind(fs, Parent(p)) = "dir"
  /\ clock < MaxTime /\ texts < MaxTexts
  /\ texts' = texts + 1
  /\ \E t \in Ticks : clock' = clock + t /\ fs' = [fs EXCEPT ![p] = File(texts + 1, clock + t)]
  /\ UNCHANGED <<tabs, gens, wire, dialog, strays>>
AgentRemoves(p) == /\ Kind(fs, p) # "none"
                   /\ fs' = AfterDelete(fs, p)
                   /\ UNCHANGED <<clock, texts, tabs, gens, wire, dialog, strays>>

UserStep == \/ \E p \in Files : \/ \E pin \in BOOLEAN : Open(p, pin)
                                \/ Pin(p) \/ Type(p) \/ Undo(p) \/ Save(p) \/ Refresh(p)
                                \/ RequestClose(p)
                                \/ \E upload \in BOOLEAN : CreateFile(p, upload)
            \/ \E p \in Paths \ Files : CreateDir(p)
            \/ \E p \in Paths : AskDelete(p)
            \/ \E r \in Renames : Rename(r[1], r[2])
            \/ ConfirmSave \/ Discard \/ Cancel \/ Overwrite \/ Reload
            \/ ConfirmUpload \/ ConfirmDelete
Served(i) == ServeLoad(i) \/ ServeWrite(i) \/ ServeMakeDir(i)
             \/ ServeMove(i) \/ ServeDelete(i)
Continue(i) == AnswerLoad(i) \/ AnswerList(i) \/ AnswerSave(i) \/ AnswerCreate(i)
               \/ AnswerMakeDir(i) \/ AnswerMove(i) \/ AnswerDelete(i)
Next == \/ UserStep
        \/ \E i \in Slots : Served(i) \/ Lose(i) \/ Continue(i)
        \/ \E p \in Files : AgentWrites(p)
        \/ \E p \in Paths : AgentRemoves(p)

Spec == Init /\ [][Next]_vars

---------------------------------------------------------------------------
\* workspace.ts: whatever the panel and the agent ask for, in whatever order
\* the calls are served, every entry of the tree stands in a directory.
TreeWellFormed == WellFormed(fs)

\* writeFile with expectedMtime: a save the user did not force replaces the
\* very text its tab had read, never one the agent or another call wrote since,
\* and never brings back a file that was deleted or moved away.  A tab that has
\* read nothing replaces nothing: renames in flight can put one that is still
\* loading under the name the close dialog then saves.
Replaced(i) == calls[i].op = "save" /\ ~calls[i].overwrite /\ calls'[i].op = "save"
               /\ calls[i].reply = Nothing /\ calls'[i].reply \notin {Nothing, Code("lost")}
               /\ calls'[i].reply.code = "ok"
SaveReplacesRead ==
  [][\A i \in Slots : Replaced(i) =>
       LET c == calls[i] IN
         IF c.expected = Nothing THEN fs[c.path].kind # "file"
         ELSE fs[c.path].kind = "file" /\ fs[c.path].content = c.base]_vars

\* loadFile: a tab that shows the spinner has a load under way that will end it,
\* through closings, reloads and deletes, unless it was renamed meanwhile: its
\* load then answers to the old name and is ignored.
LoadingIsAwaited ==
  \A p \in Paths : IsLoading(p) /\ p \notin strays =>
    \E i \in Slots : /\ calls[i].op = "load" /\ calls[i].path = p /\ Current(calls[i])

=============================================================================

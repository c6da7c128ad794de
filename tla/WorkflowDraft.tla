---------------------------- MODULE WorkflowDraft ----------------------------
(***************************************************************************)
(* The workflow builder over the definition kept by the API: the canvas    *)
(* with its undo history and debounced auto-save, the assistant's plans,   *)
(* the inspector's fields, and the page that deploys, edits, reverts and   *)
(* switches versions while saves are on their way.                         *)
(*                                                                         *)
(* A graph has a datum for every node that is there (its text and its      *)
(* place) and a set of edges; an edge is its pair of ends.  Selection is   *)
(* an input: any nodes and edges may be the selected ones.  A save is      *)
(* sent and served in two steps and its answer ignored; the calls of       *)
(* Deploy, Edit and Cancel are flows of several such steps.                *)
(***************************************************************************)
EXTENDS Naturals, Sequences, FiniteSets, SequencesExt

CONSTANTS Nodes, Texts,           \* node ids; texts of a node, 0 is the default
          Start,                  \* the definition at first
          Deployed,               \* what the versions may be at first
          Plans,                  \* what the assistant may propose
          Nothing,
          MaxHistory,             \* MAX_HISTORY
          MaxEdits, MaxSaves, MaxFlows   \* bounds

VARIABLES saved, status, versions,       \* the API: definition, status, deployed versions
          loaded, known, selected,       \* the page: its copy, the versions it knows, the URL's
          canvas, past, future,          \* the provider and its history
          drag,                          \* preDragRef
          field,                         \* the inspector field that has the focus
          timer,                         \* the graph the debounced save will send
          saves,                         \* PUTs in flight, in sending order
          flows,                         \* Deploy, Edit, Cancel and Delete under way
          asked, proposals,              \* the assistant: definition sent; pending plans
          edits, started,                \* counters for the bounds
          clean, planned, torn           \* history: see the properties

api == <<saved, status, versions>>
page == <<loaded, known, selected>>
stack == <<past, future>>
assistant == <<asked, proposals>>
history == <<clean, planned, torn>>
vars == <<saved, status, versions, loaded, known, selected, canvas, past, future, drag,
          field, timer, saves, flows, asked, proposals, edits, started, clean, planned, torn>>

\* What the URL selects: a version, or these.
Draft == 0
Away == Nothing     \* the page shows an error, or was left
IsDraft == selected = Draft
Latest(vs) == IF vs = <<>> THEN Draft ELSE Len(vs)
Shown(sel, g, vs) == IF sel = Draft THEN g ELSE vs[sel]

---------------------------------------------------------------------------
\* Graphs.
Data == [text : Texts \cup {0}, place : {0, 1}]
Definition == [nodes : [Nodes -> Data \cup {Nothing}], edges : SUBSET (Nodes \X Nodes)]
Default == [text |-> 0, place |-> 0]
Present(g) == {n \in Nodes : g.nodes[n] # Nothing}
Touching(g, ns) == {e \in g.edges : e[1] \in ns \/ e[2] \in ns}
Put(g, n, datum) == [g EXCEPT !.nodes[n] = datum]
Without(g, ns, es) ==
  [nodes |-> [n \in Nodes |-> IF n \in ns THEN Nothing ELSE g.nodes[n]],
   edges |-> g.edges \ (es \cup Touching(g, ns))]

\* wouldCycle: the breadth-first search from the target meets the source.
Succ(g, ns) == {e[2] : e \in {d \in g.edges : d[1] \in ns}}
Reached(g, n) ==
  LET found[i \in 0 .. Cardinality(Nodes)] ==
        IF i = 0 THEN {n} ELSE found[i - 1] \cup Succ(g, found[i - 1])
  IN found[Cardinality(Nodes)]
DirectOnly(g, s, t) == s = t \/ <<t, s>> \in g.edges       \* a plausible bug: one step of the search
WouldCycle(g, s, t) == s \in Reached(g, t)

\* validatePlan and applyPlan of assistant-plan.ts, one operation at a time.
Operation == [op : {"add_node", "delete_node"}, id : Nodes]
               \cup [op : {"update_node"}, id : Nodes, text : Texts]
               \cup [op : {"add_edge", "delete_edge"}, edge : Nodes \X Nodes]
Holds(live, op) ==
  CASE op.op = "add_node"    -> op.id \notin live.nodes
    [] op.op = "update_node" -> op.id \in live.nodes
    [] op.op = "delete_node" -> op.id \in live.nodes
    [] op.op = "add_edge"    -> {op.edge[1], op.edge[2]} \subseteq live.nodes /\ op.edge \notin live.edges
    [] op.op = "delete_edge" -> op.edge \in live.edges
KeepsDeleted(live, op) ==                     \* a plausible bug: a deleted node stays alive
  CASE op.op = "add_node"    -> [live EXCEPT !.nodes = @ \cup {op.id}]
    [] op.op = "add_edge"    -> [live EXCEPT !.edges = @ \cup {op.edge}]
    [] op.op = "delete_edge" -> [live EXCEPT !.edges = @ \ {op.edge}]
    [] OTHER -> live
Live(live, op) ==
  CASE op.op = "add_node"    -> [live EXCEPT !.nodes = @ \cup {op.id}]
    [] op.op = "delete_node" -> [live EXCEPT !.nodes = @ \ {op.id}]
    [] op.op = "add_edge"    -> [live EXCEPT !.edges = @ \cup {op.edge}]
    [] op.op = "delete_edge" -> [live EXCEPT !.edges = @ \ {op.edge}]
    [] OTHER -> live
Checked(seen, op) ==
  IF seen.ok /\ Holds(seen.live, op) THEN [seen EXCEPT !.live = Live(@, op)]
                                     ELSE [seen EXCEPT !.ok = FALSE]
Valid(plan, g) ==
  LET seen[i \in 0 .. Len(plan)] ==
        IF i = 0 THEN [ok |-> TRUE, live |-> [nodes |-> Present(g), edges |-> g.edges]]
        ELSE Checked(seen[i - 1], plan[i])
  IN seen[Len(plan)].ok
ApplyOp(g, op) ==
  CASE op.op = "add_node"    -> Put(g, op.id, Default)
    [] op.op = "update_node" -> [g EXCEPT !.nodes[op.id].text = op.text]
    [] op.op = "delete_node" -> Without(g, {op.id}, {})
    [] op.op = "add_edge"    -> [g EXCEPT !.edges = @ \cup {op.edge}]
    [] op.op = "delete_edge" -> Without(g, {}, {op.edge})
ApplyPlan(plan, g) ==
  LET made[i \in 0 .. Len(plan)] == IF i = 0 THEN g ELSE ApplyOp(made[i - 1], plan[i])
  IN made[Len(plan)]

ASSUME NodesAssumption == IsFiniteSet(Nodes)
ASSUME HistoryAssumption == MaxHistory \in Nat \ {0}
ASSUME NothingAssumption == /\ Nothing \notin Nat /\ Nothing \notin Data /\ Nothing \notin Definition
                            /\ Nothing \notin [node : Nodes, text : Texts]
ASSUME DefinitionsAssumption == /\ Start \in Definition /\ Deployed \subseteq Seq(Definition)
                                /\ Plans \subseteq Seq(Operation)

---------------------------------------------------------------------------
Init == /\ saved = Start /\ status = "draft"
        /\ versions \in Deployed
        /\ loaded = Start /\ known = versions
        /\ selected \in {Draft} \cup DOMAIN versions
        /\ canvas = Shown(selected, Start, versions) /\ past = <<>> /\ future = <<>>
        /\ drag = Nothing /\ field = Nothing /\ timer = Nothing
        /\ saves = <<>> /\ flows = {}
        /\ asked = Nothing /\ proposals = {}
        /\ edits = 0 /\ started = 0
        /\ clean = TRUE /\ planned = FALSE /\ torn = FALSE

\* Every change by hand counts towards the bound.  A click takes the focus from
\* a field first; the keys work in a field and in mid-drag too.
Editing == IsDraft /\ edits < MaxEdits /\ edits' = edits + 1
Clicking == field = Nothing /\ drag = Nothing

KeepsFuture(g) ==                             \* a plausible bug: what was undone stays redoable
  /\ past' = IF Len(past) = MaxHistory THEN Append(Tail(past), g) ELSE Append(past, g)
  /\ UNCHANGED future
\* useWorkflowHistory.push, with the graph to come back to.
Push(g) == /\ past' = IF Len(past) = MaxHistory THEN Append(Tail(past), g) ELSE Append(past, g)
           /\ future' = <<>>
FirstGraph(g) == timer' = IF timer = Nothing THEN g ELSE timer   \* a plausible bug: a queued save stays
\* scheduleSave: the timer starts again, with the graph it is given.
Schedule(g) == timer' = g
\* commit of the provider.
Commit(g) == Push(canvas) /\ canvas' = g /\ Schedule(g)

Connect(s, t) == /\ Editing /\ Clicking /\ {s, t} \subseteq Present(canvas)
                 /\ ~WouldCycle(canvas, s, t)
                 /\ Commit([canvas EXCEPT !.edges = @ \cup {<<s, t>>}])
                 /\ UNCHANGED <<api, page, drag, field, saves, flows, assistant, started, history>>
\* addNode: the id is the clock; here any id that is not on the canvas.
AddNode(n) == /\ Editing /\ Clicking /\ n \notin Present(canvas)
              /\ Commit(Put(canvas, n, Default))
              /\ UNCHANGED <<api, page, drag, field, saves, flows, assistant, started, history>>
DeleteSelected(ns, es) == /\ Editing /\ field = Nothing
                          /\ Commit(Without(canvas, ns, es))
                          /\ torn' = (torn \/ drag # Nothing)
                          /\ UNCHANGED <<api, page, drag, field, saves, flows, assistant, started, clean, planned>>

\* undo and redo, whose snapshot also becomes the next save.
Kept(g) == IF field # Nothing /\ g.nodes[field.node] = Nothing THEN Nothing ELSE field
Undo == /\ Editing /\ past # <<>>
        /\ canvas' = Last(past) /\ past' = Front(past) /\ future' = Append(future, canvas)
        /\ Schedule(Last(past))
        /\ field' = Kept(Last(past))
        /\ torn' = (torn \/ drag # Nothing)
        /\ UNCHANGED <<api, page, drag, saves, flows, assistant, started, clean, planned>>
Redo == /\ Editing /\ future # <<>>
        /\ canvas' = Last(future) /\ future' = Front(future) /\ past' = Append(past, canvas)
        /\ Schedule(Last(future))
        /\ field' = Kept(Last(future))
        /\ torn' = (torn \/ drag # Nothing)
        /\ UNCHANGED <<api, page, drag, saves, flows, assistant, started, clean, planned>>

\* A drag: the nodes move under the mouse; the stop pushes the graph it began with.
DragStart == /\ Editing /\ Clicking
             /\ drag' = canvas
             /\ UNCHANGED <<api, page, canvas, stack, field, timer, saves, flows, assistant, started, history>>
DragMove(n) == /\ drag # Nothing /\ n \in Present(canvas)
               /\ canvas' = [canvas EXCEPT !.nodes[n].place = 1 - @]
               /\ UNCHANGED <<api, page, stack, drag, field, timer, saves, flows, assistant, edits, started, history>>
HasMoved == \E n \in Present(canvas) \cap Present(drag) : canvas.nodes[n].place # drag.nodes[n].place
DragStop == /\ drag # Nothing
            /\ IF HasMoved THEN Push(drag) /\ Schedule(canvas) ELSE UNCHANGED <<stack, timer>>
            /\ drag' = Nothing /\ torn' = FALSE /\ clean' = (clean /\ ~torn)
            /\ UNCHANGED <<api, page, canvas, field, saves, flows, assistant, edits, started, planned>>

\* The inspector's fields keep what is typed and commit it when they lose the focus.
Focus(n, t) == /\ Editing /\ Clicking /\ n \in Present(canvas)
               /\ field' = [node |-> n, text |-> t]
               /\ UNCHANGED <<api, page, canvas, stack, drag, timer, saves, flows, assistant, started, history>>
Blur == /\ field # Nothing /\ drag = Nothing
        /\ field' = Nothing
        /\ IF field.text # canvas.nodes[field.node].text
             THEN Commit([canvas EXCEPT !.nodes[field.node].text = field.text])
             ELSE UNCHANGED <<canvas, stack, timer>>
        /\ UNCHANGED <<api, page, drag, saves, flows, assistant, edits, started, history>>
\* Its menus and buttons (add, remove, select) commit what they choose at once.
Emit(n, t) == Commit([canvas EXCEPT !.nodes[n].text = t])
Choose(n, t) == /\ Editing /\ Clicking /\ n \in Present(canvas)
                /\ Emit(n, t)
                /\ UNCHANGED <<api, page, drag, field, saves, flows, assistant, started, history>>

---------------------------------------------------------------------------
\* The assistant is sent the canvas; the server checks its plan against that,
\* and Accept once more against the canvas as it is by then.
Ask == /\ Editing /\ Clicking /\ asked = Nothing
       /\ asked' = canvas
       /\ UNCHANGED <<api, page, canvas, stack, drag, field, timer, saves, flows, proposals, started, history>>
StreamEnds == asked # Nothing /\ asked' = Nothing
Propose(plan) == /\ StreamEnds /\ Valid(plan, asked)
                 /\ proposals' = proposals \cup {plan}
                 /\ UNCHANGED <<api, page, canvas, stack, drag, field, timer, saves, flows, edits, started, history>>
AnswerWithout == /\ StreamEnds
                 /\ UNCHANGED <<api, page, canvas, stack, drag, field, timer, saves, flows, proposals, edits, started, history>>
Accept(plan) == /\ Editing /\ Clicking /\ plan \in proposals
                /\ IF Valid(plan, canvas)
                     THEN /\ Commit(ApplyPlan(plan, canvas))
                          /\ proposals' = proposals \ {plan}
                          /\ planned' = TRUE
                     ELSE UNCHANGED <<canvas, stack, timer, proposals, planned>>
                /\ UNCHANGED <<api, page, drag, field, saves, flows, asked, started, clean, torn>>
Reject(plan) == /\ plan \in proposals
                /\ proposals' = proposals \ {plan}
                /\ UNCHANGED <<api, page, canvas, stack, drag, field, timer, saves, flows, asked, edits, started, history>>

---------------------------------------------------------------------------
\* Auto-save: the timer sends the graph it was set with.
TimerFires == /\ timer # Nothing /\ Len(saves) < MaxSaves
              /\ saves' = Append(saves, timer)
              /\ timer' = Nothing
              /\ UNCHANGED <<api, page, canvas, stack, drag, field, flows, assistant, edits, started, history>>
\* PUT /workflows/{id}.  Two requests may be served in either order, and one
\* may be lost; a deleted workflow answers 404.
ServeSave(i) == /\ saved' = IF status = "deleted" THEN saved ELSE saves[i]
                /\ saves' = RemoveAt(saves, i)
                /\ clean' = (clean /\ i = 1)
                /\ UNCHANGED <<status, versions, page, canvas, stack, drag, field, timer, flows,
                               assistant, edits, started, planned, torn>>
LoseSave(i) == /\ saves' = RemoveAt(saves, i)
               /\ clean' = FALSE
               /\ UNCHANGED <<api, page, canvas, stack, drag, field, timer, flows, assistant, edits, started, planned, torn>>

\* The flows.  `at` is the call under way: "push" the older version, as the page
\* showed it at the click, into the draft, the "call" itself, "load" of the
\* workflow and its versions.
Flow(kind, at) == [kind |-> kind, at |-> at, copy |-> Nothing, vs |-> Nothing,
                   pushed |-> IF at = "push" THEN known[selected] ELSE Nothing]
Begin(kind, at) == /\ started < MaxFlows /\ started' = started + 1
                   /\ ~\E f \in flows : f.kind = kind
                   /\ Clicking
                   /\ flows' = flows \cup {Flow(kind, at)}
                   /\ clean' = FALSE
Deploy == /\ IsDraft /\ Begin("deploy", "call")
          /\ UNCHANGED <<api, page, canvas, stack, drag, field, timer, saves, assistant, edits, planned, torn>>
Edit == /\ selected \in DOMAIN known /\ Begin("edit", IF selected = Latest(known) THEN "call" ELSE "push")
        /\ UNCHANGED <<api, page, canvas, stack, drag, field, timer, saves, assistant, edits, planned, torn>>
CancelEdit == /\ IsDraft /\ known # <<>> /\ Begin("cancel", "call")
              /\ timer' = Nothing
              /\ UNCHANGED <<api, page, canvas, stack, drag, field, saves, assistant, edits, planned, torn>>
Delete == /\ selected # Away /\ Begin("delete", "call")
          /\ timer' = Nothing
          /\ UNCHANGED <<api, page, canvas, stack, drag, field, saves, assistant, edits, planned, torn>>

Advance(f, g) == flows' = (flows \ {f}) \cup {g}
At(f, kind, at) == f.kind = kind /\ f.at = at /\ status # "deleted"
ServePush(f) == /\ At(f, "edit", "push")
                /\ saved' = f.pushed
                /\ Advance(f, [f EXCEPT !.at = "call"])
                /\ UNCHANGED <<status, versions, saves>>
ServeEdit(f) == /\ At(f, "edit", "call")
                /\ status' = "draft"
                /\ Advance(f, [f EXCEPT !.at = "load"])
                /\ UNCHANGED <<saved, versions, saves>>
ServeDeploy(f) == /\ At(f, "deploy", "call")
                  /\ versions' = Append(versions, saved) /\ status' = "deployed"
                  /\ Advance(f, [f EXCEPT !.at = "load"])
                  /\ UNCHANGED <<saved, saves>>
\* cancel_edit; a save sent before may still land on the reverted definition.
ServeCancel(f) == /\ At(f, "cancel", "call") /\ versions # <<>>
                  /\ saved' = Last(versions) /\ status' = "deployed"
                  /\ Advance(f, [f EXCEPT !.at = "load"])
                  /\ UNCHANGED <<versions, saves>>
ServeDelete(f) == /\ At(f, "delete", "call")
                  /\ status' = "deleted"
                  /\ Advance(f, [f EXCEPT !.at = "gone"])
                  /\ UNCHANGED <<saved, versions, saves>>
ServeLoad(f) == /\ f.at = "load" /\ f.copy = Nothing /\ status # "deleted"
                /\ Advance(f, [f EXCEPT !.copy = saved, !.vs = versions])
                /\ UNCHANGED <<api, saves>>
Serve(f) == /\ \/ ServePush(f) \/ ServeEdit(f) \/ ServeDeploy(f)
               \/ ServeCancel(f) \/ ServeDelete(f) \/ ServeLoad(f)
            /\ UNCHANGED <<page, canvas, stack, drag, field, timer, assistant, edits, started, history>>

\* A provider that mounts begins with the definition shown, an empty history,
\* and without the timer of the one it replaces.
Mount(sel, g, vs) ==
  /\ selected' = sel
  /\ IF sel = selected THEN UNCHANGED <<canvas, stack, drag, field, timer, assistant, torn>>
     ELSE /\ canvas' = Shown(sel, g, vs)
          /\ past' = <<>> /\ future' = <<>> /\ drag' = Nothing /\ field' = Nothing
          /\ timer' = Nothing /\ asked' = Nothing /\ proposals' = {} /\ torn' = FALSE
\* mutateAndNavigate.
Navigate(f) ==
  /\ f.copy # Nothing
  /\ loaded' = f.copy /\ known' = f.vs
  /\ IF selected = Away THEN UNCHANGED <<selected, canvas, stack, drag, field, timer, assistant, torn>>
     ELSE Mount(IF f.kind = "edit" THEN Draft ELSE Latest(f.vs), f.copy, f.vs)
  /\ flows' = flows \ {f}
  /\ clean' = (flows = {f} /\ saves = <<>> /\ f.copy = saved /\ selected' # selected)
  /\ UNCHANGED <<api, saves, edits, started, planned>>
\* A call fails: the rest of the handler is skipped.  A load that fails puts
\* an error in the builder's place; a deleted workflow is left.
FlowEnds(f) == /\ flows' = flows \ {f}
               /\ IF f.at \in {"load", "gone"}
                    THEN /\ selected' = Away /\ timer' = Nothing /\ drag' = Nothing
                         /\ field' = Nothing /\ past' = <<>> /\ future' = <<>>
                    ELSE UNCHANGED <<selected, timer, drag, field, stack>>
               /\ UNCHANGED <<api, loaded, known, canvas, saves, assistant, edits, started, history>>
\* The version menu of the toolbar: from a version there is no way back to the
\* draft but Edit.
Select(v) == /\ v \in 1 .. Len(known) /\ v # selected /\ selected # Away /\ Clicking
             /\ started < MaxFlows /\ started' = started + 1
             /\ Mount(v, loaded, known)
             /\ clean' = FALSE
             /\ UNCHANGED <<api, loaded, known, saves, flows, edits, planned>>

CanvasStep == \/ \E s, t \in Nodes : Connect(s, t)
              \/ \E n \in Nodes : AddNode(n) \/ DragMove(n)
              \/ \E n \in Present(canvas) : DeleteSelected({n}, {})
              \/ \E e \in canvas.edges : DeleteSelected({}, {e})
              \/ Undo \/ Redo \/ DragStart \/ DragStop
InspectorStep == Blur \/ \E n \in Nodes, t \in Texts : Focus(n, t) \/ Choose(n, t)
Decide(plan) == Accept(plan) \/ Reject(plan)
AssistantStep == Ask \/ AnswerWithout \/ \E plan \in Plans : Propose(plan) \/ Decide(plan)
SaveStep == TimerFires \/ \E i \in DOMAIN saves : ServeSave(i) \/ LoseSave(i)
PageStep == \/ Deploy \/ Edit \/ CancelEdit \/ Delete
            \/ \E f \in flows : Serve(f) \/ Navigate(f) \/ FlowEnds(f)
            \/ \E v \in DOMAIN known : Select(v)
Next == CanvasStep \/ InspectorStep \/ AssistantStep \/ SaveStep \/ PageStep

Spec == Init /\ [][Next]_vars

---------------------------------------------------------------------------
\* workflow-builder-provider.tsx and assistant-plan.ts: whatever is deleted,
\* undone, redone, dragged, planned, deployed or reverted, an edge joins two
\* nodes of its graph, on the canvas, in the history and wherever it is sent.
Joined(g) == \A e \in g.edges : {e[1], e[2]} \subseteq Present(g)
Graphs == {canvas, saved, loaded} \cup Range(past) \cup Range(future) \cup Range(versions)
            \cup {saves[i] : i \in DOMAIN saves}
            \cup IF timer = Nothing THEN {} ELSE {timer}
EdgesJoinNodes == \A g \in Graphs : Joined(g)

\* onConnect refuses a cycle: until a plan of the assistant was accepted, which
\* checks none, no graph has one.
Cyclic(g) == \E ns \in SUBSET Nodes : /\ ns # {}
                                       /\ \A n \in ns : \E m \in ns : <<n, m>> \in g.edges
NoCycleByHand == planned \/ ~Cyclic(canvas)

\* useWorkflowHistory with the provider's commit, drag and undo implement a line
\* of graphs with a cursor (Timeline), except where a key undid, redid or
\* deleted in mid-drag: the stop then pushes a graph that is no longer current.
Current == IF drag # Nothing THEN drag ELSE canvas
History == INSTANCE Timeline WITH line <- past \o <<Current>> \o Reverse(future), pos <- Len(past) + 1
HistoryIsTimeline == History!Init /\ [][torn \/ torn' \/ History!Next]_<<past, future, Current>>

\* useAutoSave: once no save is queued or under way, the API has what the canvas
\* shows, unless a PUT was lost or overtaken, a flow of the page intervened, or
\* a key cut into a drag since the draft was last opened.
SavedWhenQuiet ==
  IsDraft /\ clean /\ ~torn /\ timer = Nothing /\ saves = <<>> /\ drag = Nothing => saved = canvas
=============================================================================

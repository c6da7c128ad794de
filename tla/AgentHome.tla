------------------------------ MODULE AgentHome ------------------------------
(***************************************************************************)
(* The page of an agent: the list of its sessions (use-agent-detail), the  *)
(* one on show (agent-chat-page), the feed of replies                      *)
(* (use-global-notifier, notifications-provider), and the user's event     *)
(* socket that keeps them up to date, over the rows and events of the API.  *)
(*                                                                         *)
(* Sessions are numbered in the order they are created.  An event is       *)
(* published before the transaction it tells of commits, and the answer to *)
(* a request leaves before the commit too (FastAPI closes a dependency     *)
(* after the response).  Effects run with the render that asks for them.   *)
(***************************************************************************)
EXTENDS Lists, SequencesExt

CONSTANTS Sessions,     \* 1 .. N
          Old,          \* those that exist when the page opens: 1 .. Old
          MAX_ITEMS,    \* notifications kept
          MaxLosses, MaxReplies,   \* bounds
          Absent, Pending
ASSUME HomeConstants ==
  /\ Sessions \subseteq Nat /\ IsFiniteSet(Sessions)
  /\ Absent # Pending /\ {Absent, Pending} \cap (Sessions \cup Seq(Sessions)) = {}

VARIABLES
  row,        \* per session: none, new, active, going, gone
  channel,    \* the event socket: [open, wire]
  loading, fetch,       \* refresh: Absent, Pending or the list it answers with
  sessions, selected,   \* the list, newest first; the URL's session
  create,     \* Absent, Pending or the session made
  deleting,   \* per session: [at: no, asked, served, waiting; seen: it was on show]
  items,      \* notifications, newest first: [id, read]
  losses, replies,      \* counters for the bounds
  blind       \* history: an event was missed, or overtaken by an older answer

list == <<loading, fetch, sessions, selected>>
calls == <<create, deleting>>
bounds == <<losses, replies>>
homeVars == <<row, channel, list, calls, items, bounds, blind>>

Ids(seq) == ToSet(seq)
Visible == {s \in Sessions : row[s] \in {"active", "going"}}
First(seq) == IF seq = <<>> THEN Absent ELSE seq[1]
NotDeleting == [at |-> "no", seen |-> FALSE]

HomeInit ==
  /\ row = [s \in Sessions |-> IF s \in 1 .. Old THEN "active" ELSE "none"]
  /\ channel = [open |-> TRUE, wire |-> <<>>]
  /\ loading = TRUE /\ fetch = Pending /\ sessions = <<>>
  /\ selected \in {Absent} \cup 1 .. Old
  /\ create = Absent /\ deleting = [s \in Sessions |-> NotDeleting]
  /\ items = <<>> /\ losses = 0 /\ replies = 0 /\ blind = FALSE

Lose == losses < MaxLosses /\ losses' = losses + 1

(***************************************************************************)
(* The user's channel: what is published while no socket listens is lost.  *)
(***************************************************************************)
Told(type) == type \in {"created", "deleted"}
Announce(type, s) ==
  /\ channel' = IF channel.open THEN [channel EXCEPT !.wire = Append(@, [type |-> type, id |-> s])]
                ELSE channel
  /\ blind' = (blind \/ (~channel.open /\ Told(type)))
LoseSocket == /\ channel.open /\ Lose
              /\ channel' = [open |-> FALSE, wire |-> <<>>]
              /\ blind' = (blind \/ \E i \in DOMAIN channel.wire : Told(channel.wire[i].type))
              /\ UNCHANGED <<row, list, calls, items, replies>>
\* The timer of onclose fires; nothing is read again.
Reconnect == /\ ~channel.open
             /\ channel' = [open |-> TRUE, wire |-> <<>>]
             /\ UNCHANGED <<row, list, calls, items, bounds, blind>>

(***************************************************************************)
(* The API, for this page and for the user's other ones.                   *)
(***************************************************************************)
MakeSession(s) ==
  /\ row[s] = "none" /\ \A r \in Sessions : r < s => row[r] # "none"
  /\ row' = [row EXCEPT ![s] = "new"]
  /\ Announce("created", s)
  /\ \/ UNCHANGED create
     \/ create = Pending /\ create' = s
  /\ UNCHANGED <<list, deleting, items, bounds>>
DropSession(s) ==
  /\ row[s] = "active"
  /\ row' = [row EXCEPT ![s] = "going"]
  /\ Announce("deleted", s)
  /\ deleting' = [deleting EXCEPT ![s].at = IF @ = "asked" THEN "served" ELSE @]
  /\ UNCHANGED <<list, create, items, bounds>>
Commit(s) ==
  /\ row[s] \in {"new", "going"}
  /\ row' = [row EXCEPT ![s] = IF @ = "new" THEN "active" ELSE "gone"]
  /\ UNCHANGED <<channel, list, calls, items, bounds, blind>>
\* A turn ends: session_changed with its terminal.
Reply(s) ==
  /\ row[s] = "active" /\ replies < MaxReplies /\ replies' = replies + 1
  /\ Announce("done", s)
  /\ UNCHANGED <<row, list, calls, items, losses>>
ServeFetch ==
  /\ fetch = Pending /\ fetch' = Reverse(Sorted(Visible))
  /\ UNCHANGED <<row, channel, loading, sessions, selected, calls, items, bounds, blind>>

(***************************************************************************)
(* The page.  A new list, whatever brought it, runs these effects: the     *)
(* session of the URL gives way to the first one when it is not listed,    *)
(* and the rows that leave the list forget their state.                    *)
(***************************************************************************)
KeepsParam(param, seq) == IF param = Absent THEN First(seq) ELSE param   \* a plausible bug
Settled(param, seq) == IF param \in Ids(seq) THEN param ELSE First(seq)
Select(param, seq, busy) == selected' = IF busy THEN param ELSE Settled(param, seq)
Rows(seq) == [s \in Sessions |-> IF s \notin Ids(seq) /\ deleting[s].at = "waiting"
                                 THEN NotDeleting ELSE deleting[s]]
Render(seq, param, busy) ==
  sessions' = seq /\ Select(param, seq, busy) /\ deleting' = Rows(seq)

AnswerFetch ==
  /\ fetch \notin {Absent, Pending}
  /\ fetch' = Absent /\ loading' = FALSE
  /\ Render(fetch, selected, FALSE)
  /\ UNCHANGED <<row, channel, create, items, bounds, blind>>
\* The list cannot be read: an empty one takes its place.
FetchFails ==
  /\ fetch # Absent /\ Lose
  /\ fetch' = Absent /\ loading' = FALSE
  /\ Render(<<>>, selected, FALSE)
  /\ blind' = TRUE
  /\ UNCHANGED <<row, channel, create, items, replies>>

AddsAlways(seq, s) == <<s>> \o seq                     \* a plausible bug
Added(seq, s) == IF s \in Ids(seq) THEN seq ELSE <<s>> \o seq
Removed(seq, s) == Without(seq, {s})
Incoming(type) == /\ channel.wire # <<>> /\ Head(channel.wire).type = type
                  /\ channel' = [channel EXCEPT !.wire = Tail(@)]
OnCreated == /\ Incoming("created")
             /\ Render(Added(sessions, Head(channel.wire).id), selected, loading)
             /\ blind' = (blind \/ fetch # Absent)
             /\ UNCHANGED <<row, loading, fetch, create, items, bounds>>
OnDeleted == /\ Incoming("deleted")
             /\ Render(Removed(sessions, Head(channel.wire).id), selected, loading)
             /\ blind' = (blind \/ fetch # Absent)
             /\ UNCHANGED <<row, loading, fetch, create, items, bounds>>
\* A reply is noted unless the user is looking at its session.
Noted(s) == SubSeq(<<[id |-> s, read |-> FALSE]>> \o items, 1,
                   IF Len(items) < MAX_ITEMS THEN Len(items) + 1 ELSE MAX_ITEMS)
OnDone == /\ Incoming("done")
          /\ LET s == Head(channel.wire).id
             IN items' = Noted(s) \/ (selected = s /\ UNCHANGED items)
          /\ UNCHANGED <<row, list, calls, bounds, blind>>
Receive == OnCreated \/ OnDeleted \/ OnDone

(***************************************************************************)
(* The user.                                                               *)
(***************************************************************************)
Click(s) == /\ s \in Ids(sessions) /\ s # selected
            /\ selected' = s
            /\ UNCHANGED <<row, channel, loading, fetch, sessions, calls, items, bounds, blind>>
NewSession == /\ create = Absent /\ create' = Pending
              /\ UNCHANGED <<row, channel, list, deleting, items, bounds, blind>>
\* createSession's continuation, then handleCreate's.
AnswerCreate ==
  /\ create \in Sessions
  /\ create' = Absent
  /\ Render(Added(sessions, create), create, loading)
  /\ blind' = (blind \/ fetch # Absent \/ row[create] \in {"going", "gone"})
  /\ UNCHANGED <<row, channel, loading, fetch, items, bounds>>
CreateFails == /\ create = Pending /\ Lose
               /\ create' = Absent
               /\ UNCHANGED <<row, channel, list, deleting, items, replies, blind>>

\* The second click on the bin; the row waits for the event that removes it.
Delete(s) == /\ s \in Ids(sessions) /\ deleting[s].at = "no"
             /\ deleting' = [deleting EXCEPT ![s] = [at |-> "asked", seen |-> selected = s]]
             /\ UNCHANGED <<row, channel, list, create, items, bounds, blind>>
\* handleDelete's continuation: the URL as it was at the click decides; the row may
\* still be listed, and be selected again until the event comes.
AnswerDelete(s) ==
  /\ deleting[s].at = "served"
  /\ deleting' = [deleting EXCEPT ![s] = IF s \in Ids(sessions) THEN [@ EXCEPT !.at = "waiting"]
                                         ELSE NotDeleting]
  /\ IF deleting[s].seen THEN Select(Absent, sessions, loading) ELSE UNCHANGED selected
  /\ UNCHANGED <<row, channel, loading, fetch, sessions, create, items, bounds, blind>>
\* A refusal, as of a session that is gone already, or a lost call.
DeleteFails(s) ==
  /\ deleting[s].at = "asked"
  /\ \/ row[s] \in {"new", "going", "gone"} /\ UNCHANGED losses
     \/ Lose
  /\ deleting' = [deleting EXCEPT ![s] = NotDeleting]
  /\ UNCHANGED <<row, channel, list, create, items, replies, blind>>

\* The notifications panel: a row leads to its session, whether or not it is still there.
OpenItem(i) ==
  /\ items' = [items EXCEPT ![i].read = TRUE]
  /\ Select(items[i].id, sessions, loading)
  /\ UNCHANGED <<row, channel, loading, fetch, sessions, calls, bounds, blind>>
MarkAllRead == /\ items' = [i \in DOMAIN items |-> [items[i] EXCEPT !.read = TRUE]]
               /\ UNCHANGED <<row, channel, list, calls, bounds, blind>>
ClearItems == /\ items' = <<>>
              /\ UNCHANGED <<row, channel, list, calls, bounds, blind>>

ApiStep(s) == MakeSession(s) \/ DropSession(s) \/ Commit(s) \/ Reply(s)
HomeNext == \/ \E s \in Sessions : \/ ApiStep(s) \/ Click(s)
                                    \/ Delete(s) \/ AnswerDelete(s) \/ DeleteFails(s)
            \/ ServeFetch \/ AnswerFetch \/ FetchFails \/ LoseSocket \/ Reconnect \/ Receive
            \/ (\E i \in DOMAIN items : OpenItem(i)) \/ MarkAllRead \/ ClearItems
            \/ NewSession \/ AnswerCreate \/ CreateFails
HomeSpec == HomeInit /\ [][HomeNext]_homeVars

\* The event loop delivers and the API answers what the page waits for.
FairHome == HomeSpec /\ WF_homeVars(Receive) /\ WF_homeVars(ServeFetch) /\ WF_homeVars(AnswerFetch)

---------------------------------------------------------------------------
(* Properties. *)

\* useAgentDetail: no session is listed twice, and once nothing is on its way the
\* list is the one the API would give, whatever was created and deleted here and
\* elsewhere and in whichever order the answers and the events came; unless an event
\* was missed or met the first load, or a creation was answered after the deletion.
Quiet == /\ ~loading /\ create = Absent /\ channel.wire = <<>>
         /\ \A s \in Sessions : row[s] \notin {"new", "going"}
ListIsTrue == /\ Cardinality(Ids(sessions)) = Len(sessions)
              /\ Quiet /\ ~blind => Ids(sessions) = Visible

\* AgentChatPage: a session that is gone does not stay on show, whether its deletion
\* is learnt from the answer, from the event or from the first list.
GoneIsLeft == \A s \in Sessions :
  selected = s /\ row[s] = "gone" ~> selected # s \/ blind
=============================================================================

---------------------------- MODULE AgentPageProofs ----------------------------
(***************************************************************************)
(* Proofs about the page of an agent, for any turns, sockets and requests  *)
(* of the chat view (ChatClient) and any sessions of the list beside it    *)
(* (AgentHome): what the view lists, the blocks it shows, the list.        *)
(***************************************************************************)
EXTENDS ChatClient, AgentHome, ListProofs

---------------------------------------------------------------------------
(* The chat view.                                                          *)

Kinds == {"ready", "close", "user_message", "stream_started", "chunk", "replay_start", "replay_end",
          "done", "cancelled", "kept", "rollback"}
EventType == [e : Kinds, turn : Nat, n : Nat]
Places == {"unused", "opening", "accepted", "replayed", "subscribed", "closed"}
SocketType == [at : Places, reconnect : BOOLEAN, cancelled : BOOLEAN, inbox : Seq(EventType),
               wire : BOOLEAN]
Endings == {"done", "cancelled", "kept", "rollback"}
TurnType == [id : Nat, at : {"saved", "posted", "streaming", "ended", "over"}, chunks : Nat,
             ending : Endings \cup {Nothing}]
PageType == [rows : Seq(Int), more : BOOLEAN]
CallType == [kind : {"reload", "earlier"}, before : Int, reply : PageType \cup {Nothing}]

\* The server's side, the sockets, the view's side.
ServerTypes == /\ db \subseteq Nat /\ IsFiniteSet(db)
               /\ turn \in TurnType /\ (turn.at = "ended" => turn.ending \in Endings)
SocketTypes == /\ socket \in [Sockets -> SocketType]
               /\ timer \in BOOLEAN /\ connectedOnce \in BOOLEAN
BlocksType == blocks \in Seq(Nat \X Nat)
HistoryTypes == /\ messages \in Seq(Int)
                /\ request \in [Requests -> CallType \cup {Nothing}]

\* A chunk is known by its turn and its place in it.
IsChunk(ev) == ev.e = "chunk"
Key(ev) == <<ev.turn, ev.n>>
NoReset(q, i, j) == \A k \in i .. j : q[k].e # "replay_start"

\* Between two resets the chunks of an inbox ascend, and those that come before
\* one go on where the blocks on screen stop.
Ascend(q) == \A i, j \in 1 .. Len(q) : i < j /\ IsChunk(q[i]) /\ IsChunk(q[j]) /\ NoReset(q, i, j)
                                         => Earlier(Key(q[i]), Key(q[j]))
GoesOn(bs, q) == \A j \in 1 .. Len(q) : IsChunk(q[j]) /\ NoReset(q, 1, j)
                   => \A b \in DOMAIN bs : Earlier(bs[b], Key(q[j]))

\* A chunk that was published, and what the view was sent of those.
Published(u, tn) == u[1] < tn.id \/ (u[1] = tn.id /\ (tn.at = "over" \/ u[2] <= tn.chunks))
Sent(q, tn) == \A i \in 1 .. Len(q) : IsChunk(q[i]) => Published(Key(q[i]), tn)

\* The close of a socket is the last thing it says.
Closes(k) == \A i \in 1 .. Len(k.inbox) :
               k.inbox[i].e = "close" => i = Len(k.inbox) /\ k.at = "closed"

Sane(k, bs, tn) == /\ Ascend(k.inbox) /\ GoesOn(bs, k.inbox) /\ Sent(k.inbox, tn) /\ Closes(k)
Heeded == \A s \in Sockets : ~socket[s].cancelled => Sane(socket[s], blocks, turn)
Unopened == \A s \in Sockets : socket[s].at = "unused" => socket[s].inbox = <<>>
Shown == \A b \in DOMAIN blocks : Published(blocks[b], turn)

\* The view listens to one socket at most, and to none while a timer runs.
Heeds(s) == ~socket[s].cancelled /\ socket[s].at # "unused"
OneSocket == \A s, r \in Sockets : Heeds(s) /\ Heeds(r) => s = r
TimerAlone == timer => \A s \in Sockets : ~Heeds(s)

TalkInv == Heeded /\ Unopened /\ Shown /\ OneSocket /\ TimerAlone /\ BlocksInOrder
BInv == ServerTypes /\ SocketTypes /\ BlocksType /\ TalkInv

\* A turn only publishes more.
Onward(tn, tm) == \A u \in Nat \X Nat : Published(u, tn) => Published(u, tm)

---------------------------------------------------------------------------
(* What may happen to an inbox.                                            *)

LEMMA EventFacts ==
  ASSUME NEW e \in Kinds, NEW t \in Nat
  PROVE  Event(e, t) \in EventType /\ Event(e, t).e = e
  BY DEF Event, EventType

LEMMA ChunkFacts ==
  ASSUME NEW t \in Nat, NEW n \in Nat
  PROVE  /\ Chunk(t, n) \in EventType /\ Chunk(t, n).e = "chunk"
         /\ IsChunk(Chunk(t, n)) /\ Key(Chunk(t, n)) = <<t, n>>
  <1>1. Chunk(t, n) \in EventType
    BY DEF Chunk, EventType, Kinds
  <1>2. IsChunk(Chunk(t, n)) /\ Key(Chunk(t, n)) = <<t, n>> /\ Chunk(t, n).e = "chunk"
    BY DEF Chunk, IsChunk, Key
  <1> QED
    BY <1>1, <1>2

LEMMA KeyType == ASSUME NEW ev \in EventType PROVE Key(ev) \in Nat \X Nat
  BY DEF EventType, Key

LEMMA EmptyIsSane ==
  ASSUME NEW k, k.inbox = <<>>, NEW bs, NEW tn
  PROVE  Sane(k, bs, tn)
  <1>1. Len(k.inbox) = 0
    OBVIOUS
  <1> QED
    BY <1>1 DEF Sane, Ascend, GoesOn, Sent, Closes

LEMMA SaneStays ==
  ASSUME NEW k \in SocketType, NEW bs, NEW tn, NEW tm, Sane(k, bs, tn), Onward(tn, tm),
         NEW m, m.inbox = k.inbox, k.at = "closed" => m.at = "closed"
  PROVE  Sane(m, bs, tm)
  <1>1. \A i \in 1 .. Len(k.inbox) : k.inbox[i] \in EventType
    BY DEF SocketType
  <1>2. Sent(m.inbox, tm)
    BY <1>1, KeyType DEF Sane, Sent, Onward
  <1>3. Closes(m)
    BY DEF Sane, Closes
  <1> QED
    BY <1>2, <1>3 DEF Sane

\* An event that is published joins the inboxes, a chunk as the last one so far.
Latest(ev, tn, tm) == IsChunk(ev) => /\ Published(Key(ev), tm)
                                     /\ \A u \in Nat \X Nat : Published(u, tn) => Earlier(u, Key(ev))

LEMMA SaneAdds ==
  ASSUME NEW k \in SocketType, NEW bs \in Seq(Nat \X Nat), NEW tn, NEW tm, Sane(k, bs, tn),
         Onward(tn, tm), \A b \in DOMAIN bs : Published(bs[b], tn), k.at # "closed",
         NEW ev \in EventType, ev.e # "close", Latest(ev, tn, tm),
         NEW m, m.inbox = Append(k.inbox, ev)
  PROVE  Sane(m, bs, tm)
  <1> DEFINE q == k.inbox
             p == m.inbox
  <1>1. /\ q \in Seq(EventType) /\ Len(q) \in Nat /\ Len(p) = Len(q) + 1
        /\ (\A i \in 1 .. Len(q) : p[i] = q[i] /\ q[i] \in EventType) /\ p[Len(q) + 1] = ev
    BY AppendProperties DEF SocketType
  <1> HIDE DEF p, q
  <1>2. \A i \in 1 .. Len(p) : i \in 1 .. Len(q) \/ i = Len(q) + 1
    <2>1. Len(q) \in Nat /\ Len(p) = Len(q) + 1
      BY <1>1
    <2> QED
      BY <2>1
  <1>3. Ascend(q) /\ GoesOn(bs, q) /\ Sent(q, tn) /\ Closes(k)
    BY DEF Sane, q
  <1>4. Ascend(p)
    <2> SUFFICES ASSUME NEW i \in 1 .. Len(p), NEW j \in 1 .. Len(p), i < j, IsChunk(p[i]),
                        IsChunk(p[j]), NoReset(p, i, j)
                 PROVE  Earlier(Key(p[i]), Key(p[j]))
      BY DEF Ascend
    <2>1. i \in 1 .. Len(q)
      BY <1>1
    <2>2. CASE j \in 1 .. Len(q)
      <3>1. \A l \in i .. j : l \in 1 .. Len(q) /\ p[l] = q[l]
        BY <1>1, <2>1, <2>2
      <3>2. NoReset(q, i, j)
        BY <3>1 DEF NoReset
      <3> QED
        BY <1>1, <1>3, <2>1, <2>2, <3>2 DEF Ascend
    <2>3. CASE j = Len(q) + 1
      <3>1. p[i] = q[i] /\ p[j] = ev /\ q[i] \in EventType
        BY <1>1, <2>1, <2>3
      <3>2. Published(Key(q[i]), tn)
        BY <1>3, <2>1, <3>1 DEF Sent
      <3> QED
        BY <3>1, <3>2, KeyType DEF Latest
    <2> QED
      BY <1>2, <2>2, <2>3
  <1>5. GoesOn(bs, p)
    <2> SUFFICES ASSUME NEW j \in 1 .. Len(p), IsChunk(p[j]), NoReset(p, 1, j), NEW b \in DOMAIN bs
                 PROVE  Earlier(bs[b], Key(p[j]))
      BY DEF GoesOn
    <2>1. CASE j \in 1 .. Len(q)
      <3>1. \A l \in 1 .. j : l \in 1 .. Len(q) /\ p[l] = q[l]
        BY <1>1, <2>1
      <3>2. NoReset(q, 1, j)
        BY <3>1 DEF NoReset
      <3> QED
        BY <1>1, <1>3, <2>1, <3>2 DEF GoesOn
    <2>2. CASE j = Len(q) + 1
      <3>1. p[j] = ev /\ bs[b] \in Nat \X Nat /\ Published(bs[b], tn)
        BY <1>1, <2>2
      <3> QED
        BY <3>1 DEF Latest
    <2> QED
      BY <1>2, <2>1, <2>2
  <1>6. Sent(p, tm)
    BY <1>1, <1>2, <1>3, KeyType DEF Sent, Onward, Latest
  <1>7. Closes(m)
    <2>1. \A i \in 1 .. Len(q) : q[i].e # "close"
      BY <1>3 DEF Closes, q
    <2>2. \A i \in 1 .. Len(p) : p[i].e # "close"
      BY <1>1, <1>2, <2>1
    <2> QED
      BY <2>2 DEF Closes, p
  <1> QED
    BY <1>4, <1>5, <1>6, <1>7 DEF Sane, p

\* The replay: a reset, the turn's chunks so far, and its end.
LEMMA ReplayFacts ==
  ASSUME ServerTypes
  PROVE  /\ Replay \in Seq(EventType) /\ Len(Replay) = turn.chunks + 2 /\ turn.chunks \in Nat
         /\ Replay[1].e = "replay_start" /\ ~IsChunk(Replay[1])
         /\ \A i \in 2 .. turn.chunks + 1 : Replay[i] = Chunk(turn.id, i - 1)
         /\ \A i \in 1 .. Len(Replay) : Replay[i].e # "close"
         /\ \A i \in 1 .. Len(Replay) : IsChunk(Replay[i]) => i \in 2 .. turn.chunks + 1
  <1>1. turn.id \in Nat /\ turn.chunks \in Nat
    BY DEF ServerTypes, TurnType
  <1> DEFINE c == turn.chunks
             t == turn.id
             a == << Event("replay_start", t) >>
             m == [n \in 1 .. c |-> Chunk(t, n)]
             z == << Event("replay_end", t) >>
  <1>2. /\ Event("replay_start", t) \in EventType /\ Event("replay_start", t).e = "replay_start"
        /\ Event("replay_end", t) \in EventType /\ Event("replay_end", t).e = "replay_end"
    BY <1>1, EventFacts DEF Kinds
  <1>3. \A n \in 1 .. c : Chunk(t, n) \in EventType /\ Chunk(t, n).e = "chunk"
    BY <1>1, ChunkFacts
  <1>4. a \in Seq(EventType) /\ Len(a) = 1 /\ a[1] = Event("replay_start", t)
    BY <1>2
  <1>5. z \in Seq(EventType) /\ Len(z) = 1 /\ z[1] = Event("replay_end", t)
    BY <1>2
  <1>6. m \in Seq(EventType) /\ Len(m) = c /\ \A n \in 1 .. c : m[n] = Chunk(t, n)
    BY <1>1, <1>3
  <1>7. Replay = a \o m \o z
    BY DEF Replay
  <1> HIDE DEF a, m, z, c, t
  <1>8. c \in Nat
    BY <1>1 DEF c
  <1>9. /\ a \o m \in Seq(EventType) /\ Len(a \o m) = c + 1 /\ (a \o m)[1] = a[1]
        /\ \A i \in 2 .. c + 1 : (a \o m)[i] = m[i - 1]
    <2>1. a \in Seq(EventType) /\ m \in Seq(EventType)
      BY <1>4, <1>6
    <2>2. /\ a \o m \in Seq(EventType) /\ Len(a \o m) = Len(a) + Len(m)
          /\ \A i \in 1 .. Len(a) + Len(m) : (a \o m)[i] = IF i <= Len(a) THEN a[i] ELSE m[i - Len(a)]
      BY <2>1, ConcatProperties
    <2>3. Len(a) = 1 /\ Len(m) = c
      BY <1>4, <1>6
    <2>4. Len(a) + Len(m) = c + 1
      BY <1>8, <2>3
    <2>5. (a \o m)[1] = a[1]
      <3>1. 1 \in 1 .. Len(a) + Len(m) /\ 1 <= Len(a)
        BY <1>8, <2>3
      <3> QED
        BY <2>2, <3>1
    <2>6. ASSUME NEW i \in 2 .. c + 1 PROVE (a \o m)[i] = m[i - 1]
      <3>1. i \in 1 .. Len(a) + Len(m) /\ ~(i <= Len(a)) /\ i - Len(a) = i - 1
        BY <1>8, <2>3
      <3> QED
        BY <2>2, <3>1
    <2> QED
      BY <2>2, <2>4, <2>5, <2>6
  <1> DEFINE am == a \o m
  <1> HIDE DEF am
  <1>10. /\ am \o z \in Seq(EventType) /\ Len(am \o z) = c + 2
         /\ (\A i \in 1 .. c + 1 : (am \o z)[i] = am[i]) /\ (am \o z)[c + 2] = z[1]
    <2>1. am \in Seq(EventType) /\ Len(am) = c + 1 /\ z \in Seq(EventType) /\ Len(z) = 1
      BY <1>5, <1>9 DEF am
    <2>2. /\ am \o z \in Seq(EventType) /\ Len(am \o z) = Len(am) + Len(z)
          /\ \A i \in 1 .. Len(am) + Len(z) : (am \o z)[i] = IF i <= Len(am) THEN am[i] ELSE z[i - Len(am)]
      <3>1. am \in Seq(EventType) /\ z \in Seq(EventType)
        BY <2>1
      <3> QED
        BY <3>1, ConcatProperties
    <2>3. Len(am) + Len(z) = c + 2
      BY <1>8, <2>1
    <2>4. ASSUME NEW i \in 1 .. c + 1 PROVE (am \o z)[i] = am[i]
      <3>1. i \in 1 .. Len(am) + Len(z) /\ i <= Len(am)
        BY <1>8, <2>1
      <3> QED
        BY <2>2, <3>1
    <2>5. ASSUME NEW n \in 1 .. Len(am) + Len(z), ~(n <= Len(am)), n - Len(am) = 1
          PROVE  (am \o z)[n] = z[1]
      BY <2>2, <2>5
    <2>6. (am \o z)[c + 2] = z[1]
      <3>1. PICK n : n = c + 2
        OBVIOUS
      <3>2. n \in 1 .. Len(am) + Len(z) /\ ~(n <= Len(am)) /\ n - Len(am) = 1
        BY <1>8, <2>1, <3>1
      <3>3. (am \o z)[n] = z[1]
        BY <2>5, <3>2
      <3> QED
        BY <3>1, <3>3, Zenon
    <2> QED
      BY <2>2, <2>3, <2>4, <2>6
  <1>11. /\ Replay \in Seq(EventType) /\ Len(Replay) = c + 2
         /\ Replay[1] = a[1] /\ Replay[c + 2] = z[1]
         /\ \A i \in 2 .. c + 1 : Replay[i] = Chunk(t, i - 1)
    <2>1. Replay = am \o z
      BY <1>7 DEF am
    <2>2. 1 \in 1 .. c + 1 /\ \A i \in 2 .. c + 1 : i \in 1 .. c + 1 /\ i - 1 \in 1 .. c
      BY <1>8
    <2>3. am[1] = a[1] /\ \A i \in 2 .. c + 1 : am[i] = m[i - 1]
      BY <1>9 DEF am
    <2> QED
      BY <1>6, <1>10, <2>1, <2>2, <2>3
  <1>12. \A i \in 1 .. c + 2 : i = 1 \/ i = c + 2 \/ (i \in 2 .. c + 1 /\ i - 1 \in 1 .. c)
    BY <1>8
  <1>13. /\ Replay[1].e = "replay_start" /\ Replay[c + 2].e = "replay_end"
         /\ \A i \in 2 .. c + 1 : Replay[i].e = "chunk"
    <2>1. Replay[1].e = "replay_start" /\ Replay[c + 2].e = "replay_end"
      BY <1>2, <1>4, <1>5, <1>11 DEF t
    <2>2. \A i \in 2 .. c + 1 : i - 1 \in 1 .. c
      BY <1>8
    <2> QED
      BY <1>3, <1>11, <2>1, <2>2 DEF t, c
  <1> QED
    BY <1>8, <1>11, <1>12, <1>13 DEF c, t, IsChunk

LEMMA SaneReplays ==
  ASSUME ServerTypes, turn.at = "streaming", NEW k \in SocketType, NEW bs, Sane(k, bs, turn),
         k.at # "closed", NEW m, m.inbox = k.inbox \o Replay
  PROVE  Sane(m, bs, turn)
  <1> DEFINE q == k.inbox
             p == m.inbox
             r == Replay
             c == turn.chunks
             l == Len(q)
  <1>1. /\ r \in Seq(EventType) /\ Len(r) = c + 2 /\ c \in Nat
        /\ r[1].e = "replay_start" /\ ~IsChunk(r[1])
        /\ \A i \in 2 .. c + 1 : r[i] = Chunk(turn.id, i - 1)
        /\ \A i \in 1 .. Len(r) : r[i].e # "close"
        /\ \A i \in 1 .. Len(r) : IsChunk(r[i]) => i \in 2 .. c + 1
    BY ReplayFacts
  <1>2. turn.id \in Nat
    BY DEF ServerTypes, TurnType
  <1>3. Ascend(q) /\ GoesOn(bs, q) /\ Sent(q, turn) /\ Closes(k) /\ q \in Seq(EventType)
    BY DEF Sane, SocketType
  <1>4. p = q \o r
    OBVIOUS
  <1>5. \A i \in 1 .. l : q[i].e # "close"
    BY <1>3 DEF Closes
  <1> HIDE DEF p, q, r, c
  <1>6. l \in Nat
    BY <1>3
  <1>7. /\ Len(p) = l + c + 2
        /\ (\A i \in 1 .. l : p[i] = q[i])
        /\ \A i \in 1 .. l + c + 2 : i > l => p[i] = r[i - l]
    <2>1. /\ Len(q \o r) = l + (c + 2)
          /\ \A i \in 1 .. l + (c + 2) : (q \o r)[i] = IF i <= l THEN q[i] ELSE r[i - l]
      <3>1. q \in Seq(EventType) /\ r \in Seq(EventType)
        BY <1>1, <1>3
      <3>2. /\ Len(q \o r) = Len(q) + Len(r)
            /\ \A i \in 1 .. Len(q) + Len(r) : (q \o r)[i] = IF i <= Len(q) THEN q[i] ELSE r[i - Len(q)]
        BY <3>1, ConcatProperties
      <3> QED
        BY <1>1, <3>2
    <2> HIDE DEF l
    <2> QED
      BY <1>1, <1>4, <1>6, <2>1
  <1> HIDE DEF l
  <1>8. \A i \in 1 .. Len(p) : i \in 1 .. l \/ (i > l /\ i - l \in 1 .. c + 2 /\ p[i] = r[i - l])
    BY <1>1, <1>6, <1>7
  <1>9. \A i \in 1 .. Len(p) : i > l /\ IsChunk(p[i]) =>
          i - l - 1 \in 1 .. c /\ Key(p[i]) = <<turn.id, i - l - 1>>
    <2> SUFFICES ASSUME NEW i \in 1 .. Len(p), i > l, IsChunk(p[i])
                 PROVE  i - l - 1 \in 1 .. c /\ Key(p[i]) = <<turn.id, i - l - 1>>
      OBVIOUS
    <2>1. p[i] = r[i - l] /\ i - l \in 1 .. Len(r)
      BY <1>1, <1>6, <1>8
    <2>2. i - l \in 2 .. c + 1
      BY <1>1, <2>1
    <2>3. p[i] = Chunk(turn.id, i - l - 1) /\ i - l - 1 \in 1 .. c /\ i - l - 1 \in Nat
      BY <1>1, <1>6, <2>1, <2>2
    <2> QED
      BY <1>2, <2>3, ChunkFacts
  <1>10. l + 1 \in 1 .. Len(p) /\ p[l + 1].e = "replay_start"
    BY <1>1, <1>6, <1>7
  <1>11. Ascend(p)
    <2> SUFFICES ASSUME NEW i \in 1 .. Len(p), NEW j \in 1 .. Len(p), i < j, IsChunk(p[i]),
                        IsChunk(p[j]), NoReset(p, i, j)
                 PROVE  Earlier(Key(p[i]), Key(p[j]))
      BY DEF Ascend
    <2>1. CASE j \in 1 .. l
      <3>1. i \in 1 .. l /\ \A x \in i .. j : x \in 1 .. l /\ p[x] = q[x]
        BY <1>6, <1>7, <2>1
      <3>2. NoReset(q, i, j)
        BY <3>1 DEF NoReset
      <3> QED
        BY <1>3, <1>7, <2>1, <3>1, <3>2 DEF Ascend, l
    <2>2. CASE j > l /\ i \in 1 .. l
      <3>1. l + 1 \in i .. j
        BY <1>6, <2>2
      <3> QED
        BY <1>10, <3>1 DEF NoReset
    <2>3. CASE j > l /\ i > l
      <3>1. Key(p[i]) = <<turn.id, i - l - 1>> /\ Key(p[j]) = <<turn.id, j - l - 1>>
        BY <1>9, <2>3
      <3>2. i - l - 1 < j - l - 1
        BY <1>6
      <3> QED
        BY <3>1, <3>2 DEF Earlier
    <2> QED
      BY <1>6, <1>8, <2>1, <2>2, <2>3
  <1>12. GoesOn(bs, p)
    <2> SUFFICES ASSUME NEW j \in 1 .. Len(p), IsChunk(p[j]), NoReset(p, 1, j), NEW b \in DOMAIN bs
                 PROVE  Earlier(bs[b], Key(p[j]))
      BY DEF GoesOn
    <2>1. CASE j \in 1 .. l
      <3>1. \A x \in 1 .. j : x \in 1 .. l /\ p[x] = q[x]
        BY <1>6, <1>7, <2>1
      <3>2. NoReset(q, 1, j)
        BY <3>1 DEF NoReset
      <3> QED
        BY <1>3, <1>7, <2>1, <3>2 DEF GoesOn, l
    <2>2. CASE j > l
      <3>1. l + 1 \in 1 .. j
        BY <1>6, <2>2
      <3> QED
        BY <1>10, <3>1 DEF NoReset
    <2> QED
      BY <1>8, <2>1, <2>2
  <1>13. Sent(p, turn)
    <2> SUFFICES ASSUME NEW i \in 1 .. Len(p), IsChunk(p[i]) PROVE Published(Key(p[i]), turn)
      BY DEF Sent
    <2>1. CASE i \in 1 .. l
      BY <1>3, <1>7, <2>1 DEF Sent, l
    <2>2. CASE i > l
      <3>1. i - l - 1 <= c /\ Key(p[i]) = <<turn.id, i - l - 1>>
        BY <1>1, <1>6, <1>9, <2>2
      <3> QED
        BY <3>1 DEF Published, c
    <2> QED
      BY <1>8, <2>1, <2>2
  <1>14. Closes(m)
    <2>1. \A i \in 1 .. Len(p) : p[i].e # "close"
      BY <1>1, <1>5, <1>7, <1>8 DEF l
    <2> QED
      BY <2>1 DEF Closes, p
  <1> QED
    BY <1>11, <1>12, <1>13, <1>14 DEF Sane, p

\* A socket breaks: what was on its way arrives or is lost, then it closes.
LEMMA SaneBreaks ==
  ASSUME NEW k \in SocketType, NEW bs, NEW tn, Sane(k, bs, tn), k.at # "closed",
         NEW q \in {<<>>, k.inbox}, NEW m, m.inbox = Append(q, Event("close", 0)), m.at = "closed"
  PROVE  Sane(m, bs, tn) /\ m.inbox \in Seq(EventType)
  <1> DEFINE ev == Event("close", 0)
             p == m.inbox
             l == Len(q)
  <1>1. ev \in EventType /\ ev.e = "close" /\ ~IsChunk(ev)
    BY EventFacts DEF Kinds, IsChunk
  <1>2. q \in Seq(EventType) /\ l \in Nat
    <2>1. k.inbox \in Seq(EventType) /\ <<>> \in Seq(EventType)
      BY DEF SocketType
    <2>2. q = <<>> \/ q = k.inbox
      OBVIOUS
    <2>3. q \in Seq(EventType)
      BY <2>1, <2>2
    <2> QED
      BY <2>3
  <1>3. /\ p \in Seq(EventType) /\ Len(p) = l + 1
        /\ (\A i \in 1 .. l : p[i] = q[i]) /\ p[l + 1] = ev
    BY <1>1, <1>2, AppendProperties
  <1>4. Ascend(q) /\ GoesOn(bs, q) /\ Sent(q, tn) /\ \A i \in 1 .. l : q[i].e # "close"
    <2>1. CASE q = k.inbox
      BY <2>1 DEF Sane, Closes
    <2>2. CASE q = <<>>
      <3>1. Len(q) = 0
        BY <2>2
      <3> QED
        BY <3>1 DEF Ascend, GoesOn, Sent
    <2> QED
      BY <2>1, <2>2
  <1> HIDE DEF p, ev
  <1>5. \A i \in 1 .. Len(p) : i \in 1 .. l \/ (i = l + 1 /\ ~IsChunk(p[i]))
    BY <1>1, <1>2, <1>3
  <1> HIDE DEF l
  <1>6. Ascend(p)
    <2> SUFFICES ASSUME NEW i \in 1 .. Len(p), NEW j \in 1 .. Len(p), i < j, IsChunk(p[i]),
                        IsChunk(p[j]), NoReset(p, i, j)
                 PROVE  Earlier(Key(p[i]), Key(p[j]))
      BY DEF Ascend
    <2>1. i \in 1 .. l /\ j \in 1 .. l
      BY <1>5
    <2>2. \A x \in i .. j : x \in 1 .. l /\ p[x] = q[x]
      BY <1>2, <1>3, <2>1
    <2>3. NoReset(q, i, j)
      BY <2>2 DEF NoReset
    <2> QED
      BY <1>3, <1>4, <2>1, <2>3 DEF Ascend, l
  <1>7. GoesOn(bs, p)
    <2> SUFFICES ASSUME NEW j \in 1 .. Len(p), IsChunk(p[j]), NoReset(p, 1, j), NEW b \in DOMAIN bs
                 PROVE  Earlier(bs[b], Key(p[j]))
      BY DEF GoesOn
    <2>1. j \in 1 .. l
      BY <1>5
    <2>2. \A x \in 1 .. j : x \in 1 .. l /\ p[x] = q[x]
      BY <1>2, <1>3, <2>1
    <2>3. NoReset(q, 1, j)
      BY <2>2 DEF NoReset
    <2> QED
      BY <1>3, <1>4, <2>1, <2>3 DEF GoesOn, l
  <1>8. Sent(p, tn)
    BY <1>3, <1>4, <1>5 DEF Sent, l
  <1>9. Closes(m)
    BY <1>2, <1>3, <1>4, <1>5 DEF Closes, p, l
  <1> QED
    BY <1>3, <1>6, <1>7, <1>8, <1>9 DEF Sane, p

\* An event is taken: the blocks are forgotten, stay, or gain the chunk it was.
Takes(ev, bs, cs) == \/ cs = <<>>
                     \/ cs = bs /\ ev.e # "replay_start" /\ ~IsChunk(ev)
                     \/ IsChunk(ev) /\ cs = Append(bs, Key(ev))

LEMMA SaneTakes ==
  ASSUME NEW k \in SocketType, NEW bs \in Seq(Nat \X Nat), NEW tn, Sane(k, bs, tn),
         k.inbox # <<>>, NEW cs, Takes(Head(k.inbox), bs, cs),
         NEW m, m.inbox = Tail(k.inbox), m.at = k.at
  PROVE  Sane(m, cs, tn)
  <1> DEFINE q == k.inbox
             p == m.inbox
             h == Head(q)
  <1>1. q \in Seq(EventType) /\ Len(q) \in Nat /\ Len(q) > 0
    BY DEF SocketType
  <1>2. /\ Len(p) = Len(q) - 1 /\ h = q[1] /\ h \in EventType
        /\ \A i \in 1 .. Len(p) : p[i] = q[i + 1]
    BY <1>1
  <1>3. Ascend(q) /\ GoesOn(bs, q) /\ Sent(q, tn) /\ Closes(k)
    BY DEF Sane
  <1>4. Takes(h, bs, cs)
    OBVIOUS
  <1> HIDE DEF q, p, h
  <1>5. 1 \in 1 .. Len(q) /\ \A i \in 1 .. Len(p) : i + 1 \in 1 .. Len(q)
    BY <1>1, <1>2
  <1>6. ASSUME NEW i \in 1 .. Len(p), NEW j \in 1 .. Len(p), NoReset(p, i, j)
        PROVE  NoReset(q, i + 1, j + 1)
    <2> SUFFICES ASSUME NEW x \in i + 1 .. j + 1 PROVE q[x].e # "replay_start"
      BY DEF NoReset
    <2>1. x - 1 \in i .. j /\ x - 1 \in 1 .. Len(p) /\ x - 1 + 1 = x
      BY <1>1, <1>2
    <2>2. p[x - 1] = q[x]
      BY <1>2, <2>1
    <2> QED
      BY <1>6, <2>1, <2>2 DEF NoReset
  <1>7. Ascend(p)
    <2> SUFFICES ASSUME NEW i \in 1 .. Len(p), NEW j \in 1 .. Len(p), i < j, IsChunk(p[i]),
                        IsChunk(p[j]), NoReset(p, i, j)
                 PROVE  Earlier(Key(p[i]), Key(p[j]))
      BY DEF Ascend
    <2>1. i + 1 < j + 1 /\ NoReset(q, i + 1, j + 1) /\ p[i] = q[i + 1] /\ p[j] = q[j + 1]
      BY <1>2, <1>6
    <2> QED
      BY <1>3, <1>5, <2>1 DEF Ascend
  <1>8. ASSUME NEW j \in 1 .. Len(p), NoReset(p, 1, j), h.e # "replay_start"
        PROVE  NoReset(q, 1, j + 1)
    <2> SUFFICES ASSUME NEW x \in 1 .. j + 1 PROVE q[x].e # "replay_start"
      BY DEF NoReset
    <2>1. CASE x = 1
      BY <1>2, <1>8, <2>1
    <2>2. CASE x # 1
      <3>1. x - 1 \in 1 .. j /\ x - 1 \in 1 .. Len(p) /\ x - 1 + 1 = x
        BY <1>1, <1>2, <2>2
      <3>2. p[x - 1] = q[x]
        BY <1>2, <3>1
      <3> QED
        BY <1>8, <3>1, <3>2 DEF NoReset
    <2> QED
      BY <2>1, <2>2
  <1>9. GoesOn(cs, p)
    <2> SUFFICES ASSUME NEW j \in 1 .. Len(p), IsChunk(p[j]), NoReset(p, 1, j), NEW b \in DOMAIN cs
                 PROVE  Earlier(cs[b], Key(p[j]))
      BY DEF GoesOn
    <2>1. p[j] = q[j + 1] /\ j + 1 \in 1 .. Len(q) /\ 1 < j + 1
      BY <1>1, <1>2, <1>5
    <2>2. CASE cs = <<>>
      <3>1. DOMAIN cs = {}
        BY <2>2
      <3> QED
        BY <3>1
    <2>3. CASE cs = bs /\ h.e # "replay_start" /\ ~IsChunk(h)
      <3>1. NoReset(q, 1, j + 1)
        BY <1>8, <2>3
      <3> QED
        BY <1>3, <2>1, <2>3, <3>1 DEF GoesOn
    <2>4. CASE IsChunk(h) /\ cs = Append(bs, Key(h))
      <3>1. h.e # "replay_start"
        BY <2>4 DEF IsChunk
      <3>2. NoReset(q, 1, j + 1)
        BY <1>8, <3>1
      <3>3. Earlier(Key(h), Key(p[j]))
        BY <1>2, <1>3, <1>5, <2>1, <2>4, <3>2 DEF Ascend
      <3>4. Key(h) \in Nat \X Nat /\ Len(bs) \in Nat
        BY <1>2, KeyType
      <3>5. b \in 1 .. Len(bs) + 1 /\ cs[b] = IF b \in 1 .. Len(bs) THEN bs[b] ELSE Key(h)
        BY <2>4, <3>4, AppendProperties
      <3>6. CASE b \in 1 .. Len(bs)
        <4>1. b \in DOMAIN bs /\ cs[b] = bs[b]
          BY <3>4, <3>5, <3>6
        <4> QED
          BY <1>3, <2>1, <3>2, <4>1 DEF GoesOn
      <3> QED
        BY <3>3, <3>5, <3>6
    <2> QED
      BY <1>4, <2>2, <2>3, <2>4 DEF Takes
  <1>10. Sent(p, tn)
    BY <1>2, <1>3, <1>5 DEF Sent
  <1>11. Closes(m)
    <2> SUFFICES ASSUME NEW i \in 1 .. Len(p), p[i].e = "close" PROVE i = Len(p) /\ m.at = "closed"
      BY DEF Closes, p
    <2>1. i + 1 \in 1 .. Len(q) /\ q[i + 1].e = "close"
      BY <1>2, <1>5
    <2>2. i + 1 = Len(q) /\ k.at = "closed"
      BY <1>3, <2>1 DEF Closes, q
    <2> QED
      BY <1>1, <1>2, <2>2
  <1> QED
    BY <1>7, <1>9, <1>10, <1>11 DEF Sane, p

\* The blocks after the event was taken.
LEMMA BlocksTake ==
  ASSUME NEW q \in Seq(EventType), q # <<>>, NEW bs \in Seq(Nat \X Nat), NEW tn,
         GoesOn(bs, q), Sent(q, tn), \A b \in DOMAIN bs : Published(bs[b], tn),
         \A i, j \in DOMAIN bs : i < j => Earlier(bs[i], bs[j]),
         NEW cs, Takes(Head(q), bs, cs)
  PROVE  /\ cs \in Seq(Nat \X Nat) /\ \A b \in DOMAIN cs : Published(cs[b], tn)
         /\ \A i, j \in DOMAIN cs : i < j => Earlier(cs[i], cs[j])
  <1> DEFINE h == Head(q)
  <1>1. h = q[1] /\ h \in EventType /\ 1 \in 1 .. Len(q)
    OBVIOUS
  <1>2. CASE cs = <<>>
    <2>1. cs \in Seq(Nat \X Nat) /\ DOMAIN cs = {}
      BY <1>2
    <2> QED
      BY <2>1
  <1>3. CASE cs = bs
    BY <1>3
  <1>4. CASE IsChunk(h) /\ cs = Append(bs, Key(h))
    <2>1. Key(h) \in Nat \X Nat /\ Len(bs) \in Nat /\ DOMAIN bs = 1 .. Len(bs)
      BY <1>1, KeyType
    <2>2. /\ cs \in Seq(Nat \X Nat) /\ DOMAIN cs = 1 .. Len(bs) + 1
          /\ (\A b \in 1 .. Len(bs) : cs[b] = bs[b]) /\ cs[Len(bs) + 1] = Key(h)
      BY <1>4, <2>1, AppendProperties, LenProperties
    <2>3. NoReset(q, 1, 1)
      <3>1. \A x \in 1 .. 1 : x = 1
        OBVIOUS
      <3> QED
        BY <1>1, <1>4, <3>1 DEF NoReset, IsChunk
    <2>4. Published(Key(h), tn) /\ \A b \in DOMAIN bs : Earlier(bs[b], Key(h))
      BY <1>1, <1>4, <2>3 DEF GoesOn, Sent
    <2>5. \A b \in DOMAIN cs : b \in 1 .. Len(bs) \/ b = Len(bs) + 1
      BY <2>1, <2>2
    <2>6. ASSUME NEW i \in DOMAIN cs, NEW j \in DOMAIN cs, i < j PROVE Earlier(cs[i], cs[j])
      <3>1. i \in 1 .. Len(bs)
        BY <2>1, <2>2, <2>6
      <3> QED
        BY <2>1, <2>2, <2>4, <2>5, <2>6, <3>1
    <2> QED
      BY <2>1, <2>2, <2>4, <2>5, <2>6
  <1> QED
    BY <1>2, <1>3, <1>4 DEF Takes

---------------------------------------------------------------------------
(* The server: rows and the turn.                                          *)

LEMMA TurnStill ==
  ASSUME ServerTypes, UNCHANGED <<db, turn>>
  PROVE  ServerTypes' /\ Onward(turn, turn')
  BY DEF ServerTypes, Onward

LEMMA RowTypes == ASSUME NEW t \in Nat PROVE AgentRow(t) \in Nat /\ UserRow(t) \in Int
  BY DEF AgentRow, UserRow

LEMMA RowAdded ==
  ASSUME ServerTypes, NEW r \in Nat, NEW d \in {db \cup {r}, db \ {r}}
  PROVE  d \subseteq Nat /\ IsFiniteSet(d)
  <1>1. IsFiniteSet(db \cup {r})
    BY FS_AddElement DEF ServerTypes
  <1>2. IsFiniteSet(db \ {r})
    BY FS_Subset DEF ServerTypes
  <1> QED
    BY <1>1, <1>2 DEF ServerTypes

LEMMA TurnSteps ==
  ASSUME ServerTypes,
         \/ \E t \in Turns : SaveUser(t)
         \/ PublishUser \/ StreamStarted \/ PublishChunk \/ EndTurn \/ PublishEnd \/ Cancel
  PROVE  ServerTypes' /\ Onward(turn, turn')
  <1>1. /\ turn \in TurnType /\ turn.id \in Nat /\ turn.chunks \in Nat /\ db \subseteq Nat /\ IsFiniteSet(db)
        /\ turn.at = "ended" => turn.ending \in Endings
    BY DEF ServerTypes, TurnType
  <1>2. ASSUME NEW t \in Turns, SaveUser(t) PROVE ServerTypes' /\ Onward(turn, turn')
    <2>1. t = turn.id + 1 /\ UserRow(t) \in Nat
      BY <1>1, <1>2 DEF SaveUser, UserRow
    <2>2. turn' = [id |-> t, at |-> "saved", chunks |-> 0, ending |-> Nothing] /\ db' = db \cup {UserRow(t)}
      BY <1>2 DEF SaveUser
    <2>3. turn' \in TurnType /\ turn'.at = "saved" /\ turn'.id = turn.id + 1
      BY <1>1, <2>1, <2>2 DEF TurnType
    <2>4. db' \subseteq Nat /\ IsFiniteSet(db')
      BY <2>1, <2>2, RowAdded
    <2>5. Onward(turn, turn')
      BY <1>1, <2>3 DEF Onward, Published
    <2> QED
      BY <2>3, <2>4, <2>5 DEF ServerTypes
  <1>3. CASE PublishUser \/ StreamStarted
    <2>1. /\ db' = db /\ turn' \in TurnType /\ turn'.at # "ended" /\ turn.at # "over"
          /\ turn'.id = turn.id /\ turn'.chunks = turn.chunks
      BY <1>1, <1>3 DEF PublishUser, StreamStarted, TurnType
    <2> QED
      BY <1>1, <2>1 DEF ServerTypes, Onward, Published
  <1>4. CASE PublishChunk
    <2>1. /\ db' = db /\ turn' \in TurnType /\ turn'.at = "streaming" /\ turn.at = "streaming"
          /\ turn'.id = turn.id /\ turn'.chunks = turn.chunks + 1
      BY <1>1, <1>4 DEF PublishChunk, TurnType
    <2> QED
      BY <1>1, <2>1 DEF ServerTypes, Onward, Published
  <1>5. CASE EndTurn \/ Cancel
    <2>1. /\ turn' \in TurnType /\ turn'.at = "ended" /\ turn'.ending \in Endings
          /\ turn.at # "over" /\ turn'.id = turn.id /\ turn'.chunks = turn.chunks
      BY <1>1, <1>5 DEF EndTurn, Cancel, TurnType, Endings
    <2>2. Onward(turn, turn')
      BY <1>1, <2>1 DEF Onward, Published
    <2>3. db' \subseteq Nat /\ IsFiniteSet(db')
      <3>1. CASE db' = db \cup {AgentRow(turn.id)}
        BY <1>1, <3>1, RowTypes, RowAdded
      <3>2. CASE db' = db \ {UserRow(turn.id)}
        BY <1>1, <3>2, FS_Subset
      <3> QED
        BY <1>5, <3>1, <3>2 DEF EndTurn, Cancel
    <2> QED
      BY <2>1, <2>2, <2>3 DEF ServerTypes
  <1>6. CASE PublishEnd
    <2>1. /\ db' = db /\ turn' \in TurnType /\ turn'.at = "over" /\ turn'.id = turn.id
      BY <1>1, <1>6 DEF PublishEnd, TurnType
    <2> QED
      BY <1>1, <2>1 DEF ServerTypes, Onward, Published
  <1> QED
    BY <1>2, <1>3, <1>4, <1>5, <1>6

\* What else the system does leaves the server alone.
ViewSteps ==
  \/ \E s \in Sockets : Served(s) \/ Break(s) \/ Heard(s)
  \/ \E q \in Requests : ServeHistory(q) \/ ReloadHistory(q) \/ EarlierLoaded(q) \/ HistoryFails(q)
  \/ LoadEarlier \/ TimerFires \/ RetryNow \/ Rerun \/ Type \/ Submit

LEMMA OtherSteps ==
  ASSUME ViewSteps
  PROVE  UNCHANGED <<db, turn>>
  <1>1. ASSUME NEW s \in Sockets, Served(s) \/ Break(s) PROVE UNCHANGED <<db, turn>>
    BY <1>1 DEF Served, Accept, ReplayIfNeeded, Subscribe, Serves, Break, serverVars
  <1>2. ASSUME NEW s \in Sockets, Heard(s) PROVE UNCHANGED <<db, turn>>
    BY <1>2 DEF Heard, OnReady, OnClose, OnUserMessage, OnStreamStarted, OnChunk, OnReplay, OnEnd,
                OnRollback, Discard, StaysConnected, serverVars
  <1>3. ASSUME NEW q \in Requests, ServeHistory(q) \/ ReloadHistory(q) \/ EarlierLoaded(q) \/ HistoryFails(q)
        PROVE  UNCHANGED <<db, turn>>
    BY <1>3 DEF ServeHistory, ReloadHistory, EarlierLoaded, HistoryFails, serverVars
  <1>4. CASE LoadEarlier \/ TimerFires \/ RetryNow \/ Rerun \/ Type \/ Submit
    BY <1>4 DEF LoadEarlier, TimerFires, RetryNow, Rerun, Type, Submit, serverVars
  <1> QED
    BY <1>1, <1>2, <1>3, <1>4 DEF ViewSteps

LEMMA ServerStep ==
  ASSUME ServerTypes, [Next]_vars
  PROVE  ServerTypes' /\ Onward(turn, turn')
  <1>1. CASE UNCHANGED vars
    BY <1>1, TurnStill DEF vars, serverVars
  <1>2. CASE ViewSteps
    BY <1>2, OtherSteps, TurnStill
  <1>3. ViewSteps \/ (\E t \in Turns : SaveUser(t)) \/ PublishUser \/ StreamStarted \/ PublishChunk
        \/ EndTurn \/ PublishEnd \/ Cancel \/ UNCHANGED vars
    BY DEF Next, ViewSteps, Compose
  <1> QED
    BY <1>1, <1>2, <1>3, TurnSteps

---------------------------------------------------------------------------
(* The sockets, step by step.                                              *)

LEMMA NoSocketFacts ==
  /\ NoSocket \in SocketType /\ NoSocket.at = "unused" /\ NoSocket.inbox = <<>> /\ ~NoSocket.cancelled
  /\ \A r \in BOOLEAN : /\ Opening(r) \in SocketType /\ Opening(r).at = "opening"
                         /\ Opening(r).inbox = <<>> /\ ~Opening(r).cancelled
  <1>1. <<>> \in Seq(EventType)
    OBVIOUS
  <1>2. NoSocket \in SocketType /\ NoSocket.at = "unused" /\ NoSocket.inbox = <<>> /\ ~NoSocket.cancelled
    BY <1>1 DEF NoSocket, SocketType, Places
  <1>3. ASSUME NEW r \in BOOLEAN
        PROVE  /\ Opening(r) \in SocketType /\ Opening(r).at = "opening"
               /\ Opening(r).inbox = <<>> /\ ~Opening(r).cancelled
    BY <1>1 DEF Opening, NoSocket, SocketType, Places
  <1> QED
    BY <1>2, <1>3

LEMMA WithInboxOnly ==
  ASSUME NEW k \in SocketType, NEW q \in Seq(EventType)
  PROVE  /\ [k EXCEPT !.inbox = q] \in SocketType /\ [k EXCEPT !.inbox = q].at = k.at
         /\ [k EXCEPT !.inbox = q].inbox = q /\ [k EXCEPT !.inbox = q].cancelled = k.cancelled
  BY DEF SocketType

\* What is published is added where a relay listens.
Gains(k, m, ev) == IF k.at = "subscribed"
                   THEN /\ m \in SocketType /\ m.at = k.at /\ m.cancelled = k.cancelled
                        /\ m.inbox = Append(k.inbox, ev)
                   ELSE m = k

LEMMA PublishMoves ==
  ASSUME SocketTypes, NEW ev \in EventType, Publish(ev)
  PROVE  /\ socket' \in [Sockets -> SocketType]
         /\ \A s \in Sockets : Gains(socket[s], socket'[s], ev)
  <1>1. socket' = [s \in Sockets |-> IF socket[s].at = "subscribed"
                                     THEN [socket[s] EXCEPT !.inbox = Append(@, ev)] ELSE socket[s]]
    BY DEF Publish
  <1>2. ASSUME NEW s \in Sockets PROVE Gains(socket[s], socket'[s], ev) /\ socket'[s] \in SocketType
    <2>1. socket[s] \in SocketType
      BY DEF SocketTypes
    <2>2. Append(socket[s].inbox, ev) \in Seq(EventType)
      BY <2>1 DEF SocketType
    <2>3. CASE socket[s].at = "subscribed"
      <3>1. socket'[s] = [socket[s] EXCEPT !.inbox = Append(socket[s].inbox, ev)]
        BY <1>1, <2>3
      <3> QED
        <4> DEFINE q == Append(socket[s].inbox, ev)
                   x == [socket[s] EXCEPT !.inbox = q]
        <4>1. /\ x \in SocketType /\ x.at = socket[s].at
              /\ x.inbox = q /\ x.cancelled = socket[s].cancelled
          BY <2>1, <2>2, WithInboxOnly
        <4> QED
          BY <2>3, <3>1, <4>1 DEF Gains
    <2>4. CASE socket[s].at # "subscribed"
      BY <1>1, <2>1, <2>4 DEF Gains
    <2> QED
      BY <2>3, <2>4
  <1>3. socket' = [s \in Sockets |-> socket'[s]]
    BY <1>1
  <1> QED
    BY <1>2, <1>3

LEMMA ServesMoves ==
  ASSUME SocketTypes, NEW s \in Sockets, NEW to \in Places, NEW events \in Seq(EventType),
         socket' = [socket EXCEPT ![s].at = to, ![s].inbox = @ \o events]
  PROVE  /\ socket' \in [Sockets -> SocketType]
         /\ socket'[s].at = to /\ socket'[s].inbox = socket[s].inbox \o events
         /\ socket'[s].cancelled = socket[s].cancelled
         /\ \A r \in Sockets : r # s => socket'[r] = socket[r]
  <1>1. socket[s] \in SocketType /\ socket \in [Sockets -> SocketType]
    BY DEF SocketTypes
  <1>2. socket[s].inbox \o events \in Seq(EventType)
    BY <1>1 DEF SocketType
  <1>3. socket' = [socket EXCEPT ![s] = [socket[s] EXCEPT !.at = to, !.inbox = socket[s].inbox \o events]]
    BY <1>1 DEF SocketType
  <1>4. socket'[s] = [socket[s] EXCEPT !.at = to, !.inbox = socket[s].inbox \o events]
    BY <1>1, <1>3
  <1>5. socket'[s] \in SocketType /\ socket'[s].at = to /\ socket'[s].cancelled = socket[s].cancelled
        /\ socket'[s].inbox = socket[s].inbox \o events
    <2> DEFINE q == socket[s].inbox \o events
               m == [socket[s] EXCEPT !.at = to, !.inbox = q]
    <2>1. socket[s] \in SocketType /\ q \in Seq(EventType)
      BY <1>1, <1>2
    <2> HIDE DEF q
    <2>2. m \in SocketType /\ m.at = to /\ m.inbox = q /\ m.cancelled = socket[s].cancelled
      BY <2>1 DEF SocketType
    <2> QED
      BY <1>4, <2>2 DEF q
  <1> QED
    BY <1>1, <1>3, <1>5

LEMMA BreakMoves ==
  ASSUME SocketTypes, NEW s \in Sockets, Break(s)
  PROVE  /\ socket' \in [Sockets -> SocketType]
         /\ socket'[s].at = "closed" /\ socket'[s].cancelled = socket[s].cancelled
         /\ \E q \in {<<>>, socket[s].inbox} : socket'[s].inbox = Append(q, Event("close", 0))
         /\ socket[s].at \notin {"closed", "unused"}
         /\ \A r \in Sockets : r # s => socket'[r] = socket[r]
  <1>1. socket[s] \in SocketType /\ socket \in [Sockets -> SocketType]
    BY DEF SocketTypes
  <1>2. PICK j \in {0, Len(socket[s].inbox)} :
          socket' = [socket EXCEPT ![s].at = "closed", ![s].wire = FALSE,
                      ![s].inbox = Append(SubSeq(@, 1, j), Event("close", 0))]
    BY DEF Break
  <1> DEFINE q == SubSeq(socket[s].inbox, 1, j)
  <1>3. q \in {<<>>, socket[s].inbox}
    <2>1. socket[s].inbox \in Seq(EventType)
      BY <1>1 DEF SocketType
    <2>2. CASE j = 0
      <3>1. SubSeq(socket[s].inbox, 1, 0) = <<>>
        BY SubSeqEmpty
      <3> QED
        BY <2>2, <3>1
    <2>3. CASE j = Len(socket[s].inbox)
      <3>1. SubSeq(socket[s].inbox, 1, Len(socket[s].inbox)) = socket[s].inbox
        BY <2>1, SubSeqFull
      <3> QED
        BY <2>3, <3>1
    <2> QED
      BY <2>2, <2>3
  <1>4. Append(q, Event("close", 0)) \in Seq(EventType)
    <2>1. Event("close", 0) \in EventType
      BY EventFacts DEF Kinds
    <2>2. socket[s].inbox \in Seq(EventType) /\ <<>> \in Seq(EventType)
      BY <1>1 DEF SocketType
    <2>3. q = <<>> \/ q = socket[s].inbox
      BY <1>3
    <2> HIDE DEF q
    <2>4. q \in Seq(EventType)
      BY <2>2, <2>3
    <2> QED
      BY <2>1, <2>4, AppendProperties
  <1> DEFINE k == [socket[s] EXCEPT !.at = "closed", !.wire = FALSE, !.inbox = Append(q, Event("close", 0))]
  <1>5. socket' = [socket EXCEPT ![s] = k]
    BY <1>1, <1>2 DEF SocketType
  <1> HIDE DEF q
  <1>6. /\ k \in SocketType /\ k.at = "closed" /\ k.cancelled = socket[s].cancelled
        /\ k.inbox = Append(q, Event("close", 0))
    BY <1>1, <1>4 DEF SocketType, Places
  <1> HIDE DEF k
  <1>7. socket[s].at \notin {"closed", "unused"}
    BY DEF Break
  <1> QED
    BY <1>1, <1>3, <1>5, <1>6, <1>7

\* An event is taken; a socket that closed and has nothing left to say is forgotten.
LEMMA TakenMoves ==
  ASSUME SocketTypes, NEW s \in Sockets, Took(s), socket[s].inbox # <<>>
  PROVE  /\ socket' \in [Sockets -> SocketType]
         /\ \/ socket[s].at = "closed" /\ Len(socket[s].inbox) = 1 /\ socket'[s] = NoSocket
            \/ /\ ~(socket[s].at = "closed" /\ Len(socket[s].inbox) = 1)
               /\ socket'[s].at = socket[s].at /\ socket'[s].cancelled = socket[s].cancelled
               /\ socket'[s].inbox = Tail(socket[s].inbox)
         /\ \A r \in Sockets : r # s => socket'[r] = socket[r]
  <1>1. socket[s] \in SocketType /\ socket \in [Sockets -> SocketType]
    BY DEF SocketTypes
  <1>2. Tail(socket[s].inbox) \in Seq(EventType)
    BY <1>1 DEF SocketType
  <1>3. CASE socket[s].at = "closed" /\ Len(socket[s].inbox) = 1
    <2>1. socket' = [socket EXCEPT ![s] = NoSocket]
      BY <1>1, <1>3 DEF Took, Taken
    <2> QED
      BY <1>1, <1>3, <2>1, NoSocketFacts
  <1>4. CASE ~(socket[s].at = "closed" /\ Len(socket[s].inbox) = 1)
    <2>1. socket' = [socket EXCEPT ![s].inbox = Tail(@)]
      BY <1>4 DEF Took, Taken
    <2>2. socket'[s] = [socket[s] EXCEPT !.inbox = Tail(socket[s].inbox)]
      BY <1>1, <2>1
    <2>3. /\ socket'[s] \in SocketType /\ socket'[s].at = socket[s].at
          /\ socket'[s].cancelled = socket[s].cancelled /\ socket'[s].inbox = Tail(socket[s].inbox)
      <3> DEFINE q == Tail(socket[s].inbox)
                 x == [socket[s] EXCEPT !.inbox = q]
      <3>1. x \in SocketType /\ x.at = socket[s].at /\ x.inbox = q /\ x.cancelled = socket[s].cancelled
        BY <1>1, <1>2, WithInboxOnly
      <3> QED
        BY <2>2, <3>1
    <2> QED
      BY <1>1, <1>4, <2>1, <2>3
  <1> QED
    BY <1>3, <1>4

LEMMA ConnectMoves ==
  ASSUME SocketTypes, Connect(socket)
  PROVE  /\ socket' \in [Sockets -> SocketType] /\ timer' = FALSE
         /\ \E s \in Sockets : /\ socket'[s].at = "opening" /\ socket'[s].inbox = <<>>
                              /\ ~socket'[s].cancelled
                              /\ \A r \in Sockets : r # s => socket'[r] = socket[r]
  <1>1. PICK s \in Unused : socket' = [socket EXCEPT ![s] = Opening(connectedOnce)]
    BY DEF Connect
  <1>2. s \in Sockets /\ socket \in [Sockets -> SocketType] /\ connectedOnce \in BOOLEAN
    BY <1>1 DEF SocketTypes, Unused
  <1>3. socket' \in [Sockets -> SocketType] /\ socket'[s] = Opening(connectedOnce)
        /\ \A r \in Sockets : r # s => socket'[r] = socket[r]
    BY <1>1, <1>2, NoSocketFacts
  <1>4. timer' = FALSE
    BY DEF Connect
  <1> QED
    BY <1>2, <1>3, <1>4, NoSocketFacts

\* The old sockets of an effect that runs again are forgotten or cancelled.
LEMMA RerunMoves ==
  ASSUME SocketTypes, Rerun
  PROVE  /\ socket' \in [Sockets -> SocketType] /\ timer' = FALSE /\ connectedOnce' = FALSE
         /\ \E s \in Sockets : /\ socket'[s].at = "opening" /\ socket'[s].inbox = <<>>
                              /\ ~socket'[s].cancelled
                              /\ \A r \in Sockets : r # s =>
                                   \/ socket'[r] = NoSocket
                                   \/ socket'[r].cancelled /\ socket'[r].at = "closed"
  <1>1. PICK s \in Unused :
          socket' = [x \in Sockets |-> IF x = s THEN Opening(FALSE)
                                       ELSE IF socket[x].inbox = <<>> THEN NoSocket
                                       ELSE [socket[x] EXCEPT !.cancelled = CancelledBy(x), !.wire = FALSE,
                                                              !.at = "closed"]]
    BY DEF Rerun
  <1>2. s \in Sockets /\ \A r \in Sockets : socket[r] \in SocketType
    BY <1>1 DEF SocketTypes, Unused
  <1>3. ASSUME NEW r \in Sockets, r # s
        PROVE  /\ socket'[r] \in SocketType
               /\ socket'[r] = NoSocket \/ (socket'[r].cancelled /\ socket'[r].at = "closed")
    <2> DEFINE k == [socket[r] EXCEPT !.cancelled = TRUE, !.wire = FALSE, !.at = "closed"]
    <2>1. k \in SocketType /\ k.cancelled /\ k.at = "closed"
      BY <1>2 DEF SocketType, Places
    <2>2. socket'[r] = NoSocket \/ socket'[r] = k
      BY <1>1, <1>3 DEF CancelledBy
    <2> QED
      BY <2>1, <2>2, NoSocketFacts
  <1>4. socket'[s] = Opening(FALSE)
    BY <1>1, <1>2
  <1>5. socket' = [x \in Sockets |-> socket'[x]]
    BY <1>1
  <1>6. socket' \in [Sockets -> SocketType]
    BY <1>3, <1>4, <1>5, NoSocketFacts
  <1>7. timer' = FALSE /\ connectedOnce' = FALSE
    BY DEF Rerun
  <1> QED
    BY <1>2, <1>3, <1>4, <1>6, <1>7, NoSocketFacts

LEMMA ReplyMoves ==
  ASSUME ServerTypes, SocketTypes, NEW s \in Sockets, Served(s)
  PROVE  /\ socket' \in [Sockets -> SocketType]
         /\ socket[s].at \notin {"unused", "closed"} /\ socket'[s].at \notin {"unused", "closed"}
         /\ socket'[s].cancelled = socket[s].cancelled
         /\ \/ socket'[s].inbox = Append(socket[s].inbox, Event("ready", 0))
            \/ turn.at = "streaming" /\ socket'[s].inbox = socket[s].inbox \o Replay
            \/ socket'[s].inbox = socket[s].inbox
         /\ \A r \in Sockets : r # s => socket'[r] = socket[r]
         /\ UNCHANGED <<timer, connectedOnce, blocks, turn>>
  <1>1. socket[s].inbox \in Seq(EventType)
    BY DEF SocketTypes, SocketType
  <1>2. socket[s].inbox \o <<>> = socket[s].inbox /\ <<>> \in Seq(EventType)
    BY <1>1, ConcatEmptySeq
  <1>3. CASE Accept(s)
    <2> DEFINE ready == << Event("ready", 0) >>
    <2>1. ready \in Seq(EventType) /\ Event("ready", 0) \in EventType
      BY EventFacts DEF Kinds
    <2>2. socket[s].at = "opening" /\ socket' = [socket EXCEPT ![s].at = "accepted", ![s].inbox = @ \o ready]
          /\ UNCHANGED <<timer, connectedOnce, blocks, turn>>
      BY <1>3 DEF Accept, Serves, serverVars, client, connVars, viewVars
    <2> HIDE DEF ready
    <2>3. /\ socket' \in [Sockets -> SocketType]
          /\ socket'[s].at = "accepted" /\ socket'[s].inbox = socket[s].inbox \o ready
          /\ socket'[s].cancelled = socket[s].cancelled
          /\ \A r \in Sockets : r # s => socket'[r] = socket[r]
      BY <2>1, <2>2, ServesMoves DEF Places
    <2>4. socket[s].inbox \o ready = Append(socket[s].inbox, Event("ready", 0))
      BY <1>1, <2>1, AppendIsConcat DEF ready
    <2> QED
      BY <2>2, <2>3, <2>4
  <1>4. CASE ReplayIfNeeded(s)
    <2> DEFINE events == IF turn.at = "streaming" THEN Replay ELSE <<>>
    <2>1. events \in Seq(EventType)
      BY <1>2, ReplayFacts
    <2>2. socket[s].at = "accepted" /\ socket' = [socket EXCEPT ![s].at = "replayed", ![s].inbox = @ \o events]
          /\ UNCHANGED <<timer, connectedOnce, blocks, turn>>
      BY <1>4 DEF ReplayIfNeeded, Serves, serverVars, client, connVars, viewVars
    <2> HIDE DEF events
    <2>3. /\ socket' \in [Sockets -> SocketType]
          /\ socket'[s].at = "replayed" /\ socket'[s].inbox = socket[s].inbox \o events
          /\ socket'[s].cancelled = socket[s].cancelled
          /\ \A r \in Sockets : r # s => socket'[r] = socket[r]
      BY <2>1, <2>2, ServesMoves DEF Places
    <2> QED
      BY <1>2, <2>2, <2>3 DEF events
  <1>5. CASE Subscribe(s)
    <2>1. socket[s].at = "replayed" /\ socket' = [socket EXCEPT ![s].at = "subscribed", ![s].inbox = @ \o <<>>]
          /\ UNCHANGED <<timer, connectedOnce, blocks, turn>>
      BY <1>5 DEF Subscribe, Serves, serverVars, client, connVars, viewVars
    <2>2. /\ socket' \in [Sockets -> SocketType]
          /\ socket'[s].at = "subscribed" /\ socket'[s].inbox = socket[s].inbox \o <<>>
          /\ socket'[s].cancelled = socket[s].cancelled
          /\ \A r \in Sockets : r # s => socket'[r] = socket[r]
      BY <1>2, <2>1, ServesMoves DEF Places
    <2> QED
      BY <1>2, <2>1, <2>2
  <1> QED
    BY <1>3, <1>4, <1>5 DEF Served

\* An event is heard when its socket is not cancelled, and dropped when it is.
LEMMA HeardMoves ==
  ASSUME NEW s \in Sockets, Heard(s)
  PROVE  /\ socket[s].inbox # <<>> /\ Took(s) /\ UNCHANGED turn
         /\ \/ socket[s].cancelled /\ UNCHANGED <<blocks, timer, connectedOnce>>
            \/ /\ ~socket[s].cancelled /\ Takes(Head(socket[s].inbox), blocks, blocks')
               /\ \/ UNCHANGED timer
                  \/ Head(socket[s].inbox).e = "close" /\ timer' = TRUE
               /\ connectedOnce' \in {connectedOnce, TRUE}
  <1>1. CASE OnReady(s)
    BY <1>1 DEF OnReady, Hears, Takes, IsChunk, viewVars, serverVars
  <1>2. CASE OnClose(s)
    BY <1>2 DEF OnClose, Hears, Takes, serverVars, Scheduled
  <1>3. CASE OnUserMessage(s) \/ OnStreamStarted(s)
    BY <1>3 DEF OnUserMessage, OnStreamStarted, Hears, Takes, IsChunk, StaysConnected, serverVars, connVars
  <1>4. CASE OnChunk(s)
    BY <1>4 DEF OnChunk, Hears, Takes, IsChunk, Key, The, StaysConnected, serverVars, connVars
  <1>5. CASE OnReplay(s)
    BY <1>5 DEF OnReplay, Hears, Takes, IsChunk, ReplayBlocks, StaysConnected, serverVars, connVars
  <1>6. CASE OnEnd(s)
    BY <1>6 DEF OnEnd, Hears, Takes, StaysConnected, serverVars, connVars
  <1>7. CASE OnRollback(s)
    BY <1>7 DEF OnRollback, Hears, Takes, StaysConnected, serverVars, connVars
  <1>8. CASE Discard(s)
    BY <1>8 DEF Discard, Drops, serverVars, client, connVars, viewVars
  <1> QED
    BY <1>1, <1>2, <1>3, <1>4, <1>5, <1>6, <1>7, <1>8 DEF Heard

\* A message is put on the wire or read from it: nothing else changes.
Holds(k, m) == m.inbox = k.inbox /\ m.cancelled = k.cancelled /\ m.at = k.at
LEMMA WireMoves ==
  ASSUME SocketTypes, NEW s, NEW w \in BOOLEAN, socket' = [socket EXCEPT ![s].wire = w]
  PROVE  socket' \in [Sockets -> SocketType] /\ \A r \in Sockets : Holds(socket[r], socket'[r])
  <1>1. socket \in [Sockets -> SocketType]
    BY DEF SocketTypes
  <1>2. ASSUME NEW r \in Sockets PROVE socket'[r] \in SocketType /\ Holds(socket[r], socket'[r])
    <2>1. socket[r] \in SocketType
      BY <1>1
    <2>2. CASE r = s
      <3>1. socket'[r] = [socket[r] EXCEPT !.wire = w]
        BY <1>1, <2>2
      <3> QED
        BY <2>1, <3>1 DEF SocketType, Holds
    <2>3. CASE r # s
      <3>1. socket'[r] = socket[r]
        BY <1>1, <2>3
      <3> QED
        BY <2>1, <3>1 DEF Holds
    <2> QED
      BY <2>2, <2>3
  <1> QED
    BY <1>1, <1>2

\* The steps that leave every inbox as it is.
StillSteps ==
  \/ \E t \in Turns : SaveUser(t)
  \/ EndTurn \/ Cancel \/ LoadEarlier \/ Type \/ Submit
  \/ \E q \in Requests : ServeHistory(q) \/ ReloadHistory(q) \/ EarlierLoaded(q) \/ HistoryFails(q)
  \/ UNCHANGED vars

LEMMA StillMoves ==
  ASSUME SocketTypes, StillSteps
  PROVE  /\ socket' \in [Sockets -> SocketType] /\ \A r \in Sockets : Holds(socket[r], socket'[r])
         /\ UNCHANGED <<timer, connectedOnce, blocks>>
  <1>0. socket' = socket => socket' \in [Sockets -> SocketType] /\ \A r \in Sockets : Holds(socket[r], socket'[r])
    BY DEF SocketTypes, Holds
  <1>1. ASSUME NEW t \in Turns, SaveUser(t)
        PROVE  /\ UNCHANGED <<timer, connectedOnce, blocks>>
               /\ socket' = socket \/ \E s \in Sockets : socket' = [socket EXCEPT ![s].wire = FALSE]
    BY <1>1 DEF SaveUser, client, connVars, viewVars
  <1>2. CASE EndTurn \/ Cancel
    BY <1>0, <1>2 DEF EndTurn, Cancel, client, connVars, viewVars
  <1>3. CASE LoadEarlier \/ Type \/ UNCHANGED vars
    BY <1>0, <1>3 DEF LoadEarlier, Type, vars, connVars, viewVars
  <1>4. ASSUME Submit
        PROVE  /\ UNCHANGED <<timer, connectedOnce, blocks>>
               /\ socket' = socket \/ socket' = [socket EXCEPT ![current].wire = TRUE]
    BY <1>4 DEF Submit, connVars
  <1>5. ASSUME NEW q \in Requests, ServeHistory(q) \/ ReloadHistory(q) \/ EarlierLoaded(q) \/ HistoryFails(q)
        PROVE  UNCHANGED <<socket, timer, connectedOnce, blocks>>
    BY <1>5 DEF ServeHistory, ReloadHistory, EarlierLoaded, HistoryFails, connVars, viewVars
  <1>6. CASE \E t \in Turns : SaveUser(t)
    BY <1>0, <1>1, <1>6, WireMoves
  <1>7. CASE Submit
    BY <1>0, <1>4, <1>7, WireMoves
  <1>8. CASE \E q \in Requests : ServeHistory(q) \/ ReloadHistory(q) \/ EarlierLoaded(q) \/ HistoryFails(q)
    BY <1>0, <1>5, <1>8
  <1> QED
    BY <1>2, <1>3, <1>6, <1>7, <1>8 DEF StillSteps

\* What is published, and when.
Tells == PublishUser \/ StreamStarted \/ PublishChunk \/ PublishEnd
LEMMA TellsMoves ==
  ASSUME ServerTypes, Tells
  PROVE  \E ev \in EventType : /\ Publish(ev) /\ ev.e # "close" /\ Latest(ev, turn, turn')
                               /\ UNCHANGED <<timer, connectedOnce, blocks>>
  <1>1. /\ turn \in TurnType /\ turn.id \in Nat /\ turn.chunks \in Nat
        /\ turn.at = "ended" => turn.ending \in Endings
    BY DEF ServerTypes, TurnType
  <1>2. UNCHANGED <<timer, connectedOnce, blocks>>
    BY DEF Tells, PublishUser, StreamStarted, PublishChunk, PublishEnd, client, connVars, viewVars
  <1>3. CASE PublishUser
    <2>1. Event("user_message", turn.id) \in EventType /\ Event("user_message", turn.id).e = "user_message"
      BY <1>1, EventFacts DEF Kinds
    <2> QED
      BY <1>2, <1>3, <2>1 DEF PublishUser, Latest, IsChunk
  <1>4. CASE StreamStarted
    <2>1. Event("stream_started", turn.id) \in EventType /\ Event("stream_started", turn.id).e = "stream_started"
      BY <1>1, EventFacts DEF Kinds
    <2> QED
      BY <1>2, <1>4, <2>1 DEF StreamStarted, Latest, IsChunk
  <1>5. CASE PublishEnd
    <2>1. turn.ending \in Kinds /\ turn.ending \notin {"chunk", "close"}
      BY <1>1, <1>5 DEF PublishEnd, Endings, Kinds
    <2>2. Event(turn.ending, turn.id) \in EventType /\ Event(turn.ending, turn.id).e = turn.ending
      BY <1>1, <2>1, EventFacts
    <2> QED
      BY <1>2, <1>5, <2>1, <2>2 DEF PublishEnd, Latest, IsChunk
  <1>6. CASE PublishChunk
    <2> DEFINE n == turn.chunks + 1
               ev == Chunk(turn.id, n)
    <2>1. n \in Nat
      BY <1>1
    <2>2. ev \in EventType /\ ev.e = "chunk" /\ Key(ev) = <<turn.id, n>>
      BY <1>1, <2>1, ChunkFacts
    <2>3. Publish(ev) /\ turn.at = "streaming" /\ turn' = [turn EXCEPT !.chunks = @ + 1]
      BY <1>6 DEF PublishChunk
    <2> HIDE DEF ev
    <2>4. turn'.id = turn.id /\ turn'.chunks = n
      BY <1>1, <2>3 DEF TurnType
    <2>5. Published(Key(ev), turn')
      BY <1>1, <2>1, <2>2, <2>4 DEF Published
    <2>6. \A u \in Nat \X Nat : Published(u, turn) => Earlier(u, Key(ev))
      BY <1>1, <2>1, <2>2, <2>3 DEF Published, Earlier
    <2> QED
      BY <1>2, <2>2, <2>3, <2>5, <2>6 DEF Latest
  <1> QED
    BY <1>3, <1>4, <1>5, <1>6 DEF Tells

---------------------------------------------------------------------------
(* A step, as far as the sockets, the timer and the blocks see it.         *)

Opens == Connect(socket) /\ UNCHANGED <<connectedOnce, blocks>>
LEMMA ConnStep ==
  ASSUME [Next]_vars
  PROVE  \/ StillSteps
         \/ Tells
         \/ \E s \in Sockets : Served(s) \/ Break(s) \/ Heard(s)
         \/ (timer \/ Impatient) /\ Opens
         \/ Rerun
  BY DEF Next, StillSteps, Tells, Compose, TimerFires, RetryNow, Opens, viewVars

LEMMA BlocksHeard ==
  ASSUME SocketTypes, BlocksType, NEW s \in Sockets, Heard(s)
  PROVE  BlocksType' /\ timer' \in BOOLEAN /\ connectedOnce' \in BOOLEAN
  <1>1. /\ socket[s].inbox \in Seq(EventType) /\ timer \in BOOLEAN /\ connectedOnce \in BOOLEAN
    BY DEF SocketTypes, SocketType
  <1>2. socket[s].inbox # <<>>
    BY HeardMoves
  <1>3. Head(socket[s].inbox) \in EventType
    BY <1>1, <1>2
  <1>4. Key(Head(socket[s].inbox)) \in Nat \X Nat
    BY <1>3, KeyType
  <1>5. blocks' \in {blocks, <<>>, Append(blocks, Key(Head(socket[s].inbox)))}
    BY HeardMoves DEF Takes
  <1>6. <<>> \in Seq(Nat \X Nat)
    OBVIOUS
  <1>7. Append(blocks, Key(Head(socket[s].inbox))) \in Seq(Nat \X Nat)
    BY <1>4, AppendProperties DEF BlocksType
  <1>8. BlocksType'
    BY <1>5, <1>6, <1>7 DEF BlocksType
  <1> QED
    BY <1>1, <1>8, HeardMoves

LEMMA ConnTypes ==
  ASSUME ServerTypes, SocketTypes, BlocksType, [Next]_vars
  PROVE  SocketTypes' /\ BlocksType'
  <1>1. CASE StillSteps
    BY <1>1, StillMoves DEF SocketTypes, BlocksType
  <1>2. CASE Tells
    <2>1. PICK ev \in EventType : Publish(ev) /\ UNCHANGED <<timer, connectedOnce, blocks>>
      BY <1>2, TellsMoves
    <2> QED
      BY <2>1, PublishMoves DEF SocketTypes, BlocksType
  <1>3. ASSUME NEW s \in Sockets, Served(s) PROVE SocketTypes' /\ BlocksType'
    BY <1>3, ReplyMoves DEF SocketTypes, BlocksType
  <1>4. ASSUME NEW s \in Sockets, Break(s) PROVE SocketTypes' /\ BlocksType'
    <2>1. UNCHANGED <<timer, connectedOnce, blocks>>
      BY <1>4 DEF Break, connVars, viewVars
    <2> QED
      BY <1>4, <2>1, BreakMoves DEF SocketTypes, BlocksType
  <1>5. ASSUME NEW s \in Sockets, Heard(s) PROVE SocketTypes' /\ BlocksType'
    <2>1. socket' \in [Sockets -> SocketType]
      BY <1>5, HeardMoves, TakenMoves
    <2> QED
      BY <1>5, <2>1, BlocksHeard DEF SocketTypes
  <1>6. CASE Opens
    BY <1>6, ConnectMoves DEF Opens, SocketTypes, BlocksType
  <1>7. CASE Rerun
    <2>1. UNCHANGED blocks
      BY <1>7 DEF Rerun, viewVars
    <2> QED
      BY <1>7, <2>1, RerunMoves DEF SocketTypes, BlocksType
  <1> QED
    BY <1>1, <1>2, <1>3, <1>4, <1>5, <1>6, <1>7, ConnStep

---------------------------------------------------------------------------
(* What the view heeds stays sane, one kind of step after the other.       *)

\* A step that leaves an inbox, and the blocks, as they are.
LEMMA HeldIsSane ==
  ASSUME NEW k \in SocketType, NEW m, Holds(k, m), Onward(turn, turn'), UNCHANGED blocks,
         ~k.cancelled => Sane(k, blocks, turn)
  PROVE  ~m.cancelled => Sane(m, blocks', turn')
  <1>1. SUFFICES ASSUME ~k.cancelled PROVE Sane(m, blocks, turn')
    BY DEF Holds
  <1> QED
    BY <1>1, SaneStays DEF Holds

LEMMA ShownStays ==
  ASSUME BlocksType, Shown, BlocksInOrder, Onward(turn, turn'), UNCHANGED blocks
  PROVE  Shown' /\ BlocksInOrder'
  BY DEF BlocksType, Shown, BlocksInOrder, Onward

LEMMA StillTalk ==
  ASSUME SocketTypes, BlocksType, TalkInv, Onward(turn, turn'), StillSteps
  PROVE  TalkInv'
  <1>1. /\ \A r \in Sockets : Holds(socket[r], socket'[r])
        /\ UNCHANGED <<timer, connectedOnce, blocks>>
    BY StillMoves
  <1>2. Heeded'
    <2> SUFFICES ASSUME NEW r \in Sockets
                 PROVE  ~socket'[r].cancelled => Sane(socket'[r], blocks', turn')
      BY DEF Heeded
    <2>1. socket[r] \in SocketType
      BY DEF SocketTypes
    <2> QED
      BY <1>1, <2>1, HeldIsSane DEF TalkInv, Heeded
  <1>3. Unopened' /\ \A r \in Sockets : Heeds(r)' <=> Heeds(r)
    BY <1>1 DEF TalkInv, Unopened, Heeds, Holds
  <1>4. OneSocket' /\ TimerAlone'
    BY <1>1, <1>3 DEF TalkInv, OneSocket, TimerAlone
  <1> QED
    BY <1>1, <1>2, <1>3, <1>4, ShownStays DEF TalkInv

LEMMA TellsTalk ==
  ASSUME ServerTypes, SocketTypes, BlocksType, TalkInv, Onward(turn, turn'), Tells
  PROVE  TalkInv'
  <1>1. PICK ev \in EventType : /\ Publish(ev) /\ ev.e # "close" /\ Latest(ev, turn, turn')
                                /\ UNCHANGED <<timer, connectedOnce, blocks>>
    BY TellsMoves
  <1>2. \A r \in Sockets : Gains(socket[r], socket'[r], ev)
    BY <1>1, PublishMoves
  <1>3. Heeded'
    <2> SUFFICES ASSUME NEW r \in Sockets, ~socket'[r].cancelled
                 PROVE  Sane(socket'[r], blocks', turn')
      BY DEF Heeded
    <2>1. socket[r] \in SocketType
      BY DEF SocketTypes
    <2>2. CASE socket[r].at = "subscribed"
      <3>1. socket'[r].inbox = Append(socket[r].inbox, ev) /\ ~socket[r].cancelled
        BY <1>2, <2>2 DEF Gains
      <3>2. Sane(socket[r], blocks, turn) /\ blocks \in Seq(Nat \X Nat)
            /\ \A b \in DOMAIN blocks : Published(blocks[b], turn)
        BY <3>1 DEF TalkInv, Heeded, BlocksType, Shown
      <3>3. Sane(socket'[r], blocks, turn')
        BY <1>1, <2>1, <2>2, <3>1, <3>2, SaneAdds
      <3> QED
        BY <1>1, <3>3
    <2>3. CASE socket[r].at # "subscribed"
      <3>1. Holds(socket[r], socket'[r])
        BY <1>2, <2>3 DEF Gains, Holds
      <3> QED
        BY <1>1, <2>1, <3>1, HeldIsSane DEF TalkInv, Heeded
    <2> QED
      BY <2>2, <2>3
  <1>4. Unopened' /\ \A r \in Sockets : Heeds(r)' <=> Heeds(r)
    BY <1>2 DEF TalkInv, Unopened, Heeds, Gains
  <1>5. OneSocket' /\ TimerAlone'
    BY <1>1, <1>4 DEF TalkInv, OneSocket, TimerAlone
  <1> QED
    BY <1>1, <1>3, <1>4, <1>5, ShownStays DEF TalkInv

LEMMA ServedTalk ==
  ASSUME ServerTypes, SocketTypes, BlocksType, TalkInv, NEW s \in Sockets, Served(s)
  PROVE  TalkInv'
  <1>1. /\ socket[s].at \notin {"unused", "closed"} /\ socket'[s].at \notin {"unused", "closed"}
        /\ socket'[s].cancelled = socket[s].cancelled
        /\ \/ socket'[s].inbox = Append(socket[s].inbox, Event("ready", 0))
           \/ turn.at = "streaming" /\ socket'[s].inbox = socket[s].inbox \o Replay
           \/ socket'[s].inbox = socket[s].inbox
        /\ \A r \in Sockets : r # s => socket'[r] = socket[r]
        /\ UNCHANGED <<timer, connectedOnce, blocks, turn>>
    BY ReplyMoves
  <1>2. Onward(turn, turn) /\ Onward(turn, turn')
    BY <1>1 DEF Onward
  <1>3. Heeded'
    <2> SUFFICES ASSUME NEW r \in Sockets, ~socket'[r].cancelled
                 PROVE  Sane(socket'[r], blocks', turn')
      BY DEF Heeded
    <2>1. socket[r] \in SocketType
      BY DEF SocketTypes
    <2>2. CASE r # s
      <3>1. Holds(socket[r], socket'[r])
        BY <1>1, <2>2 DEF Holds
      <3> QED
        BY <1>1, <1>2, <2>1, <3>1, HeldIsSane DEF TalkInv, Heeded
    <2>3. CASE r = s
      <3>1. Sane(socket[s], blocks, turn) /\ blocks \in Seq(Nat \X Nat)
            /\ \A b \in DOMAIN blocks : Published(blocks[b], turn)
        BY <1>1, <2>3 DEF TalkInv, Heeded, BlocksType, Shown
      <3>2. Sane(socket'[s], blocks, turn)
        <4>1. CASE socket'[s].inbox = Append(socket[s].inbox, Event("ready", 0))
          <5>1. Event("ready", 0) \in EventType /\ Event("ready", 0).e = "ready"
            BY EventFacts DEF Kinds
          <5>2. Latest(Event("ready", 0), turn, turn)
            BY <5>1 DEF Latest, IsChunk
          <5> QED
            BY <1>1, <1>2, <2>1, <2>3, <3>1, <4>1, <5>1, <5>2, SaneAdds
        <4>2. CASE turn.at = "streaming" /\ socket'[s].inbox = socket[s].inbox \o Replay
          BY <1>1, <2>1, <2>3, <3>1, <4>2, SaneReplays
        <4>3. CASE socket'[s].inbox = socket[s].inbox
          BY <1>1, <1>2, <2>1, <2>3, <3>1, <4>3, SaneStays
        <4> QED
          BY <1>1, <4>1, <4>2, <4>3
      <3> QED
        BY <1>1, <2>3, <3>2
    <2> QED
      BY <2>2, <2>3
  <1>4. Unopened' /\ \A r \in Sockets : Heeds(r)' <=> Heeds(r)
    BY <1>1 DEF TalkInv, Unopened, Heeds
  <1>5. OneSocket' /\ TimerAlone'
    BY <1>1, <1>4 DEF TalkInv, OneSocket, TimerAlone
  <1> QED
    BY <1>1, <1>2, <1>3, <1>4, <1>5, ShownStays DEF TalkInv

LEMMA BreakTalk ==
  ASSUME SocketTypes, BlocksType, TalkInv, NEW s \in Sockets, Break(s)
  PROVE  TalkInv'
  <1>0. UNCHANGED <<timer, connectedOnce, blocks, turn>>
    BY DEF Break, connVars, viewVars
  <1>1. /\ socket'[s].at = "closed" /\ socket'[s].cancelled = socket[s].cancelled
        /\ \E q \in {<<>>, socket[s].inbox} : socket'[s].inbox = Append(q, Event("close", 0))
        /\ socket[s].at \notin {"closed", "unused"}
        /\ \A r \in Sockets : r # s => socket'[r] = socket[r]
    BY BreakMoves
  <1>2. Onward(turn, turn')
    BY <1>0 DEF Onward
  <1>3. Heeded'
    <2> SUFFICES ASSUME NEW r \in Sockets, ~socket'[r].cancelled
                 PROVE  Sane(socket'[r], blocks', turn')
      BY DEF Heeded
    <2>1. socket[r] \in SocketType
      BY DEF SocketTypes
    <2>2. CASE r # s
      <3>1. Holds(socket[r], socket'[r])
        BY <1>1, <2>2 DEF Holds
      <3> QED
        BY <1>0, <1>2, <2>1, <3>1, HeldIsSane DEF TalkInv, Heeded
    <2>3. CASE r = s
      <3>1. Sane(socket[s], blocks, turn)
        BY <1>1, <2>3 DEF TalkInv, Heeded
      <3>2. PICK q \in {<<>>, socket[s].inbox} : socket'[s].inbox = Append(q, Event("close", 0))
        BY <1>1
      <3>3. Sane(socket'[s], blocks, turn)
        BY <1>1, <2>1, <2>3, <3>1, <3>2, SaneBreaks
      <3> QED
        BY <1>0, <2>3, <3>3
    <2> QED
      BY <2>2, <2>3
  <1>4. Unopened' /\ \A r \in Sockets : Heeds(r)' <=> Heeds(r)
    BY <1>1 DEF TalkInv, Unopened, Heeds
  <1>5. OneSocket' /\ TimerAlone'
    BY <1>0, <1>4 DEF TalkInv, OneSocket, TimerAlone
  <1> QED
    BY <1>0, <1>2, <1>3, <1>4, <1>5, ShownStays DEF TalkInv

\* What is heard comes from the one socket the view heeds; a close is its last word.
LEMMA HeardTalk ==
  ASSUME SocketTypes, BlocksType, TalkInv, NEW s \in Sockets, Heard(s)
  PROVE  TalkInv'
  <1> DEFINE k == socket[s]
             m == socket'[s]
             h == Head(k.inbox)
  <1>1. /\ k.inbox # <<>> /\ Took(s) /\ UNCHANGED turn
        /\ \/ k.cancelled /\ UNCHANGED <<blocks, timer>>
           \/ /\ ~k.cancelled /\ Takes(h, blocks, blocks')
              /\ UNCHANGED timer \/ (h.e = "close" /\ timer' = TRUE)
    BY HeardMoves
  <1>2. /\ \/ k.at = "closed" /\ Len(k.inbox) = 1 /\ m = NoSocket
           \/ /\ ~(k.at = "closed" /\ Len(k.inbox) = 1)
              /\ m.at = k.at /\ m.cancelled = k.cancelled /\ m.inbox = Tail(k.inbox)
        /\ \A r \in Sockets : r # s => socket'[r] = socket[r]
    BY <1>1, TakenMoves
  <1>3. /\ k \in SocketType /\ k.inbox \in Seq(EventType) /\ h = k.inbox[1] /\ 1 \in 1 .. Len(k.inbox)
        /\ Len(k.inbox) \in Nat
    BY <1>1 DEF SocketTypes, SocketType
  <1>4. NoSocket.at = "unused" /\ NoSocket.inbox = <<>>
    BY NoSocketFacts
  <1>5. k.at # "unused"
    BY <1>1 DEF TalkInv, Unopened
  <1>6. Unopened'
    BY <1>2, <1>4, <1>5 DEF TalkInv, Unopened
  <1>7. \A r \in Sockets : Heeds(r)' => Heeds(r)
    BY <1>2, <1>4 DEF Heeds
  <1>8. OneSocket'
    BY <1>7 DEF TalkInv, OneSocket
  <1>9. CASE k.cancelled
    <2>1. UNCHANGED <<blocks, timer, turn>>
      BY <1>1, <1>9
    <2>2. Onward(turn, turn')
      BY <2>1 DEF Onward
    <2>3. Heeded'
      <3> SUFFICES ASSUME NEW r \in Sockets, ~socket'[r].cancelled
                   PROVE  Sane(socket'[r], blocks', turn')
        BY DEF Heeded
      <3>1. CASE r = s
        BY <1>2, <1>4, <1>9, <3>1, EmptyIsSane
      <3>2. CASE r # s
        BY <1>2, <2>1, <3>2 DEF TalkInv, Heeded
      <3> QED
        BY <3>1, <3>2
    <2>4. TimerAlone'
      BY <1>7, <2>1 DEF TalkInv, TimerAlone
    <2> QED
      BY <1>6, <1>8, <2>1, <2>2, <2>3, <2>4, ShownStays DEF TalkInv
  <1>10. CASE ~k.cancelled
    <2>1. Takes(h, blocks, blocks') /\ Sane(k, blocks, turn) /\ blocks \in Seq(Nat \X Nat)
      BY <1>1, <1>10 DEF TalkInv, Heeded, BlocksType
    <2>2. Heeds(s)
      BY <1>5, <1>10 DEF Heeds
    <2>3. ~timer
      BY <2>2 DEF TalkInv, TimerAlone
    <2>4. ASSUME NEW r \in Sockets, ~socket'[r].cancelled PROVE Sane(socket'[r], blocks', turn')
      <3>1. CASE r # s
        <4>1. socket'[r] = socket[r] /\ ~Heeds(r)
          BY <1>2, <2>2, <3>1 DEF TalkInv, OneSocket
        <4>2. socket'[r].inbox = <<>>
          BY <2>4, <4>1 DEF Heeds, TalkInv, Unopened
        <4> QED
          BY <4>2, EmptyIsSane
      <3>2. CASE r = s /\ m = NoSocket
        BY <1>4, <3>2, EmptyIsSane
      <3>3. CASE r = s /\ m # NoSocket
        <4>1. m.at = k.at /\ m.inbox = Tail(k.inbox)
          BY <1>2, <3>3
        <4>2. Sane(m, blocks', turn)
          BY <1>1, <1>3, <2>1, <4>1, SaneTakes
        <4> QED
          BY <1>1, <3>3, <4>2
      <3> QED
        BY <3>1, <3>2, <3>3
    <2>5. /\ GoesOn(blocks, k.inbox) /\ Sent(k.inbox, turn) /\ Closes(k)
          /\ \A b \in DOMAIN blocks : Published(blocks[b], turn)
          /\ \A i, j \in DOMAIN blocks : i < j => Earlier(blocks[i], blocks[j])
      BY <2>1 DEF Sane, TalkInv, Shown, BlocksInOrder
    <2>6. /\ \A b \in DOMAIN blocks' : Published(blocks'[b], turn)
          /\ \A i, j \in DOMAIN blocks' : i < j => Earlier(blocks'[i], blocks'[j])
      BY <1>1, <1>3, <2>1, <2>5, BlocksTake
    <2>7. Shown' /\ BlocksInOrder'
      BY <1>1, <2>6 DEF Shown, BlocksInOrder
    <2>8. ASSUME timer' PROVE \A r \in Sockets : ~Heeds(r)'
      <3>1. h.e = "close"
        BY <1>1, <1>10, <2>3, <2>8
      <3>2. k.at = "closed" /\ Len(k.inbox) = 1
        BY <1>3, <2>5, <3>1 DEF Closes
      <3>3. m = NoSocket
        BY <1>2, <3>2
      <3> QED
        BY <1>2, <1>4, <2>2, <3>3 DEF TalkInv, OneSocket, Heeds
    <2> QED
      BY <1>6, <1>8, <2>4, <2>7, <2>8 DEF TalkInv, Heeded, TimerAlone
  <1> QED
    BY <1>9, <1>10

\* A new socket is opened once the view heeds none.
LEMMA OpensTalk ==
  ASSUME SocketTypes, BlocksType, TalkInv, Onward(turn, turn'),
         (Opens /\ timer) \/ Rerun
  PROVE  TalkInv'
  <1>1. PICK s \in Sockets :
          /\ socket'[s].at = "opening" /\ socket'[s].inbox = <<>> /\ ~socket'[s].cancelled
          /\ \A r \in Sockets : r # s =>
               \/ socket'[r] = NoSocket
               \/ socket'[r].cancelled /\ socket'[r].at = "closed"
               \/ socket'[r] = socket[r] /\ timer
    BY ConnectMoves, RerunMoves DEF Opens
  <1>2. timer' = FALSE /\ UNCHANGED blocks
    BY ConnectMoves, RerunMoves DEF Opens, Rerun, viewVars
  <1>3. NoSocket.at = "unused" /\ NoSocket.inbox = <<>>
    BY NoSocketFacts
  <1>4. \A r \in Sockets : r # s => ~Heeds(r)'
    BY <1>1, <1>3 DEF Heeds, TalkInv, TimerAlone
  <1>5. OneSocket' /\ TimerAlone'
    BY <1>2, <1>4 DEF OneSocket, TimerAlone
  <1>6. Unopened'
    <2> SUFFICES ASSUME NEW r \in Sockets, socket'[r].at = "unused" PROVE socket'[r].inbox = <<>>
      BY DEF Unopened
    <2> QED
      BY <1>1, <1>3 DEF TalkInv, Unopened
  <1>7. Heeded'
    <2> SUFFICES ASSUME NEW r \in Sockets, ~socket'[r].cancelled PROVE Sane(socket'[r], blocks', turn')
      BY DEF Heeded
    <2>1. socket'[r].inbox = <<>>
      <3>1. CASE r # s /\ socket'[r] = socket[r] /\ timer
        BY <3>1 DEF TalkInv, TimerAlone, Heeds, Unopened
      <3> QED
        BY <1>1, <1>3, <3>1
    <2> QED
      BY <2>1, EmptyIsSane
  <1> QED
    BY <1>2, <1>5, <1>6, <1>7, ShownStays DEF TalkInv

LEMMA TalkStep ==
  ASSUME ~Impatient, BInv, [Next]_vars
  PROVE  BInv'
  <1>1. ServerTypes' /\ Onward(turn, turn') /\ SocketTypes' /\ BlocksType'
    BY ServerStep, ConnTypes DEF BInv
  <1>2. CASE StillSteps
    BY <1>1, <1>2, StillTalk DEF BInv
  <1>3. CASE Tells
    BY <1>1, <1>3, TellsTalk DEF BInv
  <1>4. ASSUME NEW s \in Sockets, Served(s) \/ Break(s) \/ Heard(s) PROVE BInv'
    BY <1>1, <1>4, ServedTalk, BreakTalk, HeardTalk DEF BInv
  <1>5. CASE (Opens /\ timer) \/ Rerun
    BY <1>1, <1>5, OpensTalk DEF BInv
  <1> QED
    BY <1>2, <1>3, <1>4, <1>5, ConnStep

---------------------------------------------------------------------------
(* How the view starts.                                                    *)

LEMMA FirstRows ==
  LET D == UNION {{UserRow(t), AgentRow(t)} : t \in 1 .. OldTurns}
  IN  D \subseteq Nat /\ IsFiniteSet(D)
  <1> DEFINE D == UNION {{UserRow(t), AgentRow(t)} : t \in 1 .. OldTurns}
  <1>1. OldTurns \in Nat
    BY ChatConstants
  <1>2. D \subseteq 1 .. 2 * OldTurns
    <2> SUFFICES ASSUME NEW t \in 1 .. OldTurns, NEW r \in {UserRow(t), AgentRow(t)}
                 PROVE  r \in 1 .. 2 * OldTurns
      OBVIOUS
    <2>1. r = 2 * t \/ r = 2 * t - 1
      BY DEF UserRow, AgentRow
    <2> QED
      BY <1>1, <2>1
  <1>3. IsFiniteSet(1 .. 2 * OldTurns)
    BY <1>1, FS_Interval
  <1>4. IsFiniteSet(D)
    BY <1>2, <1>3, FS_Subset
  <1>5. D \subseteq Nat
    BY <1>1, <1>2
  <1> QED
    BY <1>4, <1>5 DEF D

LEMMA TalkInit == ASSUME Init PROVE BInv
  <1>1. OldTurns \in Nat
    BY ChatConstants
  <1>2. ServerTypes
    BY <1>1, FirstRows DEF Init, ServerTypes, TurnType
  <1>3. /\ NoSocket \in SocketType /\ NoSocket.at = "unused" /\ NoSocket.inbox = <<>>
        /\ Opening(FALSE) \in SocketType /\ Opening(FALSE).inbox = <<>>
        /\ Opening(FALSE).at = "opening"
    BY NoSocketFacts
  <1>4. /\ socket = [s \in Sockets |-> IF s = FirstSocket THEN Opening(FALSE) ELSE NoSocket]
        /\ timer = FALSE /\ connectedOnce = FALSE /\ blocks = <<>>
    BY DEF Init
  <1>5. SocketTypes /\ BlocksType
    <2>1. <<>> \in Seq(Nat \X Nat)
      OBVIOUS
    <2> QED
      BY <1>3, <1>4, <2>1 DEF SocketTypes, BlocksType
  <1>6. \A s \in Sockets : socket[s].inbox = <<>> /\ (s # FirstSocket => socket[s].at = "unused")
    BY <1>3, <1>4
  <1>7. Heeded /\ Unopened /\ OneSocket /\ TimerAlone
    BY <1>4, <1>6, EmptyIsSane DEF Heeded, Unopened, OneSocket, Heeds, TimerAlone
  <1>8. DOMAIN blocks = {}
    BY <1>4
  <1> QED
    BY <1>2, <1>5, <1>7, <1>8 DEF BInv, TalkInv, Shown, BlocksInOrder

\* The blocks on screen never repeat an event of a turn or show one before an earlier
\* one, whatever replays, broken connections and rerun effects bring (use-streaming-blocks,
\* use-session-websocket): as long as "Retry now" waits for the timer, the view heeds one
\* socket at most, and what is left in its inbox goes on where the blocks stop or resets them.
THEOREM ChatBlocksInOrder ==
  ASSUME ~Impatient
  PROVE  Spec => []BlocksInOrder
  <1>1. BInv /\ [Next]_vars => BInv'
    BY TalkStep
  <1>2. BInv => BlocksInOrder
    BY DEF BInv, TalkInv
  <1> QED
    BY <1>1, <1>2, TalkInit, PTL DEF Spec

\* The same argument says of the reconnection (scheduleReconnect, connect) that no timer
\* runs beside a socket the view still heeds, and that it never heeds two.
ConnectsOnce == OneSocket /\ TimerAlone
THEOREM ChatConnectsOnce ==
  ASSUME ~Impatient
  PROVE  Spec => []ConnectsOnce
  <1>1. BInv /\ [Next]_vars => BInv'
    BY TalkStep
  <1>2. BInv => ConnectsOnce
    BY DEF BInv, TalkInv, ConnectsOnce
  <1> QED
    BY <1>1, <1>2, TalkInit, PTL DEF Spec

---------------------------------------------------------------------------
(* The list of messages: each agent message once.                          *)

OnceIn(seq) == \A i, j \in 1 .. Len(seq) : i # j /\ IsAgent(seq[i]) => seq[i] # seq[j]
Single(seq) == seq \in Seq(Int) /\ OnceIn(seq)

LEMMA AgentRows ==
  ASSUME NEW t \in Nat
  PROVE  ~IsAgent(UserRow(t)) /\ ~IsAgent(0) /\ UserRow(t) \in Int /\ AgentRow(t) \in Int
  BY DEF IsAgent, UserRow, AgentRow

LEMMA OnceAppended ==
  ASSUME NEW seq, Single(seq), NEW x \in Int,
         IsAgent(x) => \A i \in 1 .. Len(seq) : seq[i] # x
  PROVE  Single(Append(seq, x))
  <1> DEFINE r == Append(seq, x)
  <1>1. seq \in Seq(Int) /\ Len(seq) \in Nat
    BY DEF Single
  <1>2. /\ r \in Seq(Int) /\ Len(r) = Len(seq) + 1 /\ r[Len(seq) + 1] = x
        /\ \A i \in 1 .. Len(seq) : r[i] = seq[i]
    BY <1>1, AppendProperties
  <1> HIDE DEF r
  <1>3. \A i \in 1 .. Len(r) : i \in 1 .. Len(seq) \/ i = Len(seq) + 1
    BY <1>1, <1>2
  <1>4. ASSUME NEW i \in 1 .. Len(r), NEW j \in 1 .. Len(r), i # j, IsAgent(r[i])
        PROVE  r[i] # r[j]
    BY <1>2, <1>3, <1>4 DEF Single, OnceIn
  <1> QED
    BY <1>2, <1>4 DEF Single, OnceIn, r

LEMMA OnceWithout ==
  ASSUME NEW seq, Single(seq), NEW S
  PROVE  /\ Single(Without(seq, S))
         /\ \A i \in 1 .. Len(Without(seq, S)) : Without(seq, S)[i] \notin S
  <1> DEFINE r == Without(seq, S)
  <1>1. Filters(r, seq, Len(seq), S, Int)
    BY WithoutFacts DEF Single
  <1> HIDE DEF r
  <1>2. r \in Seq(Int) /\ \A i \in 1 .. Len(r) : r[i] \notin S
    BY <1>1 DEF Filters, Listed
  <1>3. ASSUME NEW i \in 1 .. Len(r), NEW j \in 1 .. Len(r), i # j, IsAgent(r[i]), r[i] = r[j]
        PROVE  FALSE
    <2>1. Twice(r, Len(r), r[i])
      BY <1>3 DEF Twice
    <2>2. Twice(seq, Len(seq), r[i])
      BY <1>1, <2>1 DEF Filters
    <2> QED
      BY <1>3, <2>2 DEF Twice, Single, OnceIn
  <1> QED
    BY <1>2, <1>3 DEF Single, OnceIn, r

LEMMA OnceJoined ==
  ASSUME NEW a, NEW b, Single(a), Single(b),
         \A i \in 1 .. Len(a), j \in 1 .. Len(b) : a[i] # b[j]
  PROVE  Single(a \o b)
  <1> DEFINE r == a \o b
  <1>1. a \in Seq(Int) /\ b \in Seq(Int) /\ Len(a) \in Nat /\ Len(b) \in Nat
    BY DEF Single
  <1>2. /\ r \in Seq(Int) /\ Len(r) = Len(a) + Len(b)
        /\ \A i \in 1 .. Len(r) : r[i] = IF i <= Len(a) THEN a[i] ELSE b[i - Len(a)]
    BY <1>1, ConcatProperties
  <1> HIDE DEF r
  <1>3. \A i \in 1 .. Len(r) : \/ i \in 1 .. Len(a) /\ r[i] = a[i]
                               \/ i - Len(a) \in 1 .. Len(b) /\ r[i] = b[i - Len(a)] /\ i \notin 1 .. Len(a)
    BY <1>1, <1>2
  <1>4. ASSUME NEW i \in 1 .. Len(r), NEW j \in 1 .. Len(r), i # j, IsAgent(r[i])
        PROVE  r[i] # r[j]
    <2>1. CASE i \in 1 .. Len(a) /\ r[i] = a[i] /\ j \in 1 .. Len(a) /\ r[j] = a[j]
      BY <1>4, <2>1 DEF Single, OnceIn
    <2>2. CASE i - Len(a) \in 1 .. Len(b) /\ r[i] = b[i - Len(a)] /\ j - Len(a) \in 1 .. Len(b)
               /\ r[j] = b[j - Len(a)]
      <3>1. i - Len(a) # j - Len(a)
        BY <1>1, <1>4
      <3> QED
        BY <1>4, <2>2, <3>1 DEF Single, OnceIn
    <2> QED
      BY <1>3, <2>1, <2>2
  <1> QED
    BY <1>2, <1>4 DEF Single, OnceIn, r

LEMMA OnceRemoved ==
  ASSUME NEW seq, Single(seq), NEW n \in 1 .. Len(seq)
  PROVE  Single(RemoveAt(seq, n))
  <1> DEFINE a == SubSeq(seq, 1, n - 1)
             b == SubSeq(seq, n + 1, Len(seq))
  <1>1. seq \in Seq(Int) /\ Len(seq) \in Nat /\ n \in Int
    BY DEF Single
  <1>2. a \in Seq(Int) /\ Len(a) = n - 1 /\ \A i \in 1 .. Len(a) : a[i] = seq[i]
    BY <1>1
  <1>3. /\ b \in Seq(Int) /\ Len(b) = Len(seq) - n
        /\ \A i \in 1 .. Len(b) : b[i] = seq[n + i]
    BY <1>1
  <1> HIDE DEF a, b
  <1>9. a \in Seq(Int) /\ b \in Seq(Int) /\ Len(a) \in Nat /\ Len(b) \in Nat
    BY <1>2, <1>3
  <1> DEFINE r == a \o b
  <1>4. /\ r \in Seq(Int) /\ Len(r) = Len(a) + Len(b)
        /\ \A i \in 1 .. Len(r) : r[i] = IF i <= Len(a) THEN a[i] ELSE b[i - Len(a)]
    BY <1>9, ConcatProperties
  <1> HIDE DEF r
  <1>5. Len(r) = Len(seq) - 1
    BY <1>1, <1>2, <1>3, <1>4
  <1>6. \A i \in 1 .. Len(r) : r[i] = IF i < n THEN seq[i] ELSE seq[i + 1]
    <2> SUFFICES ASSUME NEW i \in 1 .. Len(r) PROVE r[i] = IF i < n THEN seq[i] ELSE seq[i + 1]
      OBVIOUS
    <2>1. CASE i < n
      <3>1. i <= Len(a) /\ i \in 1 .. Len(a)
        BY <1>1, <1>2, <1>9, <2>1
      <3>2. r[i] = a[i] /\ a[i] = seq[i]
        BY <1>2, <1>4, <3>1
      <3> QED
        BY <2>1, <3>2
    <2>2. CASE ~(i < n)
      <3>1. i - (n - 1) \in 1 .. Len(b) /\ n + (i - (n - 1)) = i + 1
        BY <1>1, <1>3, <1>5, <2>2
      <3>2. r[i] = b[i - (n - 1)]
        BY <1>1, <1>2, <1>4, <2>2
      <3> QED
        BY <1>3, <2>2, <3>1, <3>2
    <2> QED
      BY <2>1, <2>2
  <1>7. ASSUME NEW i \in 1 .. Len(r), NEW j \in 1 .. Len(r), i # j, IsAgent(r[i])
        PROVE  r[i] # r[j]
    <2> DEFINE at(x) == IF x < n THEN x ELSE x + 1
    <2>1. at(i) \in 1 .. Len(seq) /\ at(j) \in 1 .. Len(seq) /\ at(i) # at(j)
      BY <1>1, <1>5, <1>7
    <2>2. r[i] = seq[at(i)] /\ r[j] = seq[at(j)]
      BY <1>6
    <2> HIDE DEF at
    <2> QED
      BY <1>7, <2>1, <2>2 DEF Single, OnceIn
  <1>8. RemoveAt(seq, n) = r
    BY DEF RemoveAt, r, a, b
  <1> QED
    BY <1>4, <1>7, <1>8 DEF Single, OnceIn

\* A page is in the order of the rows, each of them once.
LEMMA PageOnce ==
  ASSUME NEW S \in SUBSET Nat, IsFiniteSet(S)
  PROVE  Page(S) \in PageType /\ Single(Page(S).rows)
  <1> DEFINE L == LastRows(S)
             rows == Sorted(L)
  <1>1. L \in SUBSET Nat /\ IsFiniteSet(L)
    BY FS_Subset DEF LastRows
  <1> HIDE DEF L
  <1>2. /\ rows \in Seq(Nat) /\ Len(rows) = Cardinality(L)
        /\ \A i, j \in 1 .. Cardinality(L) : i < j => rows[i] < rows[j]
    BY <1>1, SortedFacts
  <1> HIDE DEF rows
  <1>3. rows \in Seq(Int)
    BY <1>2
  <1>4. ASSUME NEW i \in 1 .. Len(rows), NEW j \in 1 .. Len(rows), i # j
        PROVE  rows[i] # rows[j]
    <2>1. rows[i] \in Nat /\ rows[j] \in Nat /\ Len(rows) \in Nat
      BY <1>2
    <2>2. i < j \/ j < i
      BY <1>4, <2>1
    <2> QED
      BY <1>2, <2>1, <2>2
  <1>5. Page(S) = [rows |-> rows, more |-> Cardinality(S) > PageSize]
    BY DEF Page, rows, L
  <1>6. (Cardinality(S) > PageSize) \in BOOLEAN
    BY FS_CardinalityType, ChatConstants
  <1> QED
    BY <1>3, <1>4, <1>5, <1>6 DEF PageType, Single, OnceIn

\* The requests: what came back has each row once.
Calls(rq) == /\ rq \in [Requests -> CallType \cup {Nothing}]
             /\ \A q \in Requests : rq[q] # Nothing /\ rq[q].reply # Nothing => Single(rq[q].reply.rows)

LEMMA AskCalls ==
  ASSUME NEW rq, Calls(rq), NEW kind \in {"reload", "earlier"}, NEW before \in Int
  PROVE  Calls(Ask(rq, kind, before))
  <1>1. CASE \A q \in Requests : rq[q] # Nothing
    BY <1>1 DEF Ask
  <1>2. CASE \E q \in Requests : rq[q] = Nothing
    <2> DEFINE p == CHOOSE q \in Requests : rq[q] = Nothing
               c == [kind |-> kind, before |-> before, reply |-> Nothing]
    <2>1. p \in Requests
      BY <1>2
    <2>2. Ask(rq, kind, before) = [rq EXCEPT ![p] = c]
      BY <1>2 DEF Ask
    <2>3. c \in CallType /\ c.reply = Nothing
      BY DEF CallType
    <2> HIDE DEF p, c
    <2> QED
      BY <2>1, <2>2, <2>3 DEF Calls
  <1> QED
    BY <1>1, <1>2

LEMMA ClearedCalls ==
  ASSUME NEW rq, Calls(rq), NEW q \in Requests
  PROVE  Calls([rq EXCEPT ![q] = Nothing])
  BY DEF Calls

LEMMA ServedCalls ==
  ASSUME ServerTypes, Calls(request), NEW q \in Requests, ServeHistory(q)
  PROVE  Calls(request')
  <1>1. db \in SUBSET Nat /\ IsFiniteSet(db)
    BY DEF ServerTypes
  <1>2. \A S \in SUBSET db : S \in SUBSET Nat /\ IsFiniteSet(S)
    BY <1>1, FS_Subset
  <1>3. {r \in db : r < request[q].before \/ request[q].before = 0} \in SUBSET db /\ db \in SUBSET db
    OBVIOUS
  <1>4. PICK page \in PageType : Single(page.rows) /\ request' = [request EXCEPT ![q].reply = page]
    <2>1. \E S \in SUBSET db : request' = [request EXCEPT ![q].reply = Page(S)]
      BY <1>3 DEF ServeHistory
    <2> QED
      BY <1>2, <2>1, PageOnce
  <1>5. request[q] \in CallType /\ request \in [Requests -> CallType \cup {Nothing}]
    BY DEF ServeHistory, Calls
  <1>6. request' = [request EXCEPT ![q] = [request[q] EXCEPT !.reply = page]]
    BY <1>4
  <1> DEFINE c == [request[q] EXCEPT !.reply = page]
  <1>7. c \in CallType /\ c.reply = page
    BY <1>4, <1>5 DEF CallType
  <1> HIDE DEF c
  <1> QED
    BY <1>4, <1>5, <1>6, <1>7 DEF Calls, c

---------------------------------------------------------------------------
(* The history, step by step.                                              *)

HistoryInv == Calls(request) /\ Single(messages)

LEMMA MessagesHeard ==
  ASSUME SocketTypes, HistoryInv, NEW s \in Sockets, Heard(s)
  PROVE  HistoryInv'
  <1>1. socket[s].inbox \in Seq(EventType) /\ socket[s].inbox # <<>>
    BY HeardMoves DEF SocketTypes, SocketType
  <1>2. The(s) \in Nat
    <2>1. Head(socket[s].inbox) \in EventType
      BY <1>1
    <2> QED
      BY <2>1 DEF The, EventType
  <1>3. CASE OnReady(s)
    <2>1. messages' = messages /\ request' \in {request, Ask(request, "reload", 0)}
      BY <1>3 DEF OnReady
    <2> QED
      BY <2>1, AskCalls DEF HistoryInv
  <1>4. CASE OnClose(s)
    <2>1. messages' = messages /\ request' = Ask(request, "reload", 0)
      BY <1>4 DEF OnClose
    <2> QED
      BY <2>1, AskCalls DEF HistoryInv
  <1>5. CASE OnUserMessage(s)
    <2>1. messages' = Append(messages, UserRow(The(s))) /\ UNCHANGED request
      BY <1>5 DEF OnUserMessage, StaysConnected
    <2>2. Single(Append(messages, UserRow(The(s))))
      BY <1>2, AgentRows, OnceAppended DEF HistoryInv
    <2> QED
      BY <2>1, <2>2 DEF HistoryInv
  <1>6. CASE OnStreamStarted(s) \/ OnChunk(s) \/ OnReplay(s) \/ Discard(s)
    BY <1>6 DEF OnStreamStarted, OnChunk, OnReplay, Discard, StaysConnected, client, historyVars,
                HistoryInv
  <1>7. CASE OnEnd(s)
    <2>1. messages' \in {messages, AppendUnique(AgentRow(The(s)))} /\ UNCHANGED request
      BY <1>7 DEF OnEnd, StaysConnected
    <2>2. Single(AppendUnique(AgentRow(The(s))))
      <3>1. CASE Contains(messages, AgentRow(The(s)))
        BY <3>1 DEF AppendUnique, HistoryInv
      <3>2. CASE ~Contains(messages, AgentRow(The(s)))
        <4>1. \A i \in 1 .. Len(messages) : messages[i] # AgentRow(The(s))
          BY <3>2 DEF Contains
        <4>2. Single(Append(messages, AgentRow(The(s))))
          BY <1>2, <4>1, AgentRows, OnceAppended DEF HistoryInv
        <4> QED
          BY <3>2, <4>2 DEF AppendUnique
      <3> QED
        BY <3>1, <3>2
    <2> QED
      BY <2>1, <2>2 DEF HistoryInv
  <1>8. CASE OnRollback(s)
    <2>1. UNCHANGED request /\ (messages' = messages
                                \/ \E i \in LastUser : messages' = Append(RemoveAt(messages, i), 0))
      BY <1>8 DEF OnRollback, StaysConnected
    <2>2. ASSUME NEW i \in LastUser PROVE Single(Append(RemoveAt(messages, i), 0))
      <3>1. i \in 1 .. Len(messages)
        BY <2>2 DEF LastUser, HistoryInv, Single
      <3>2. Single(RemoveAt(messages, i))
        BY <3>1, OnceRemoved DEF HistoryInv
      <3>3. ~IsAgent(0) /\ 0 \in Int
        BY AgentRows
      <3> QED
        BY <3>2, <3>3, OnceAppended
    <2> QED
      BY <2>1, <2>2 DEF HistoryInv
  <1> QED
    BY <1>3, <1>4, <1>5, <1>6, <1>7, <1>8 DEF Heard

\* What else changes the list or the requests, and what leaves them alone.
LEMMA HistoryStep ==
  ASSUME ServerTypes, SocketTypes, HistoryInv, [Next]_vars
  PROVE  HistoryInv'
  <1>1. ASSUME NEW s \in Sockets, Heard(s) PROVE HistoryInv'
    BY <1>1, MessagesHeard
  <1>2. ASSUME NEW q \in Requests, ServeHistory(q) PROVE HistoryInv'
    BY <1>2, ServedCalls DEF HistoryInv, ServeHistory
  <1>3. ASSUME NEW q \in Requests, ReloadHistory(q) PROVE HistoryInv'
    <2>1. messages' = request[q].reply.rows /\ request' = [request EXCEPT ![q] = Nothing]
          /\ request[q] # Nothing /\ request[q].reply # Nothing
      BY <1>3 DEF ReloadHistory
    <2>2. Single(request[q].reply.rows) /\ Calls([request EXCEPT ![q] = Nothing])
      BY <2>1, ClearedCalls DEF HistoryInv, Calls
    <2> QED
      BY <2>1, <2>2 DEF HistoryInv
  <1>4. ASSUME NEW q \in Requests, EarlierLoaded(q) PROVE HistoryInv'
    <2> DEFINE page == request[q].reply.rows
               w == Without(page, ToSet(messages))
    <2>1. messages' = w \o messages /\ request' = [request EXCEPT ![q] = Nothing]
          /\ request[q] # Nothing /\ request[q].reply # Nothing
      BY <1>4 DEF EarlierLoaded, Prepended
    <2>2. Single(page) /\ Calls([request EXCEPT ![q] = Nothing]) /\ Single(messages)
      BY <2>1, ClearedCalls DEF HistoryInv, Calls
    <2>3. Single(w) /\ \A i \in 1 .. Len(w) : w[i] \notin ToSet(messages)
      BY <2>2, OnceWithout
    <2> HIDE DEF w
    <2>4. \A j \in 1 .. Len(messages) : messages[j] \in ToSet(messages)
      BY <2>2 DEF ToSet, Single
    <2>5. Single(w \o messages)
      BY <2>2, <2>3, <2>4, OnceJoined
    <2> QED
      BY <2>1, <2>2, <2>5 DEF HistoryInv
  <1>5. ASSUME NEW q \in Requests, HistoryFails(q) PROVE HistoryInv'
    BY <1>5, ClearedCalls DEF HistoryFails, HistoryInv
  <1>6. CASE LoadEarlier
    <2>1. messages' = messages /\ request' = Ask(request, "earlier", messages[1]) /\ messages # <<>>
      BY <1>6 DEF LoadEarlier
    <2>2. messages[1] \in Int
      BY <2>1 DEF HistoryInv, Single
    <2> QED
      BY <2>1, <2>2, AskCalls DEF HistoryInv
  <1>7. CASE Submit
    <2>1. messages' = Without(messages, {0}) /\ UNCHANGED request
      BY <1>7 DEF Submit
    <2> QED
      BY <2>1, OnceWithout DEF HistoryInv
  <1>8. CASE Tells \/ TimerFires \/ RetryNow \/ Rerun \/ Type \/ Cancel \/ EndTurn
             \/ (\E t \in Turns : SaveUser(t)) \/ UNCHANGED vars
    <2>1. UNCHANGED <<messages, request>>
      BY <1>8 DEF Tells, PublishUser, StreamStarted, PublishChunk, PublishEnd, TimerFires, RetryNow, Rerun,
                  Type, Cancel, EndTurn, SaveUser, client, historyVars, vars
    <2> QED
      BY <2>1 DEF HistoryInv
  <1>9. ASSUME NEW s \in Sockets, Served(s) \/ Break(s) PROVE HistoryInv'
    <2>1. UNCHANGED <<messages, request>>
      BY <1>9 DEF Served, Accept, ReplayIfNeeded, Subscribe, Serves, Break, client, historyVars
    <2> QED
      BY <2>1 DEF HistoryInv
  <1> QED
    BY <1>1, <1>2, <1>3, <1>4, <1>5, <1>6, <1>7, <1>8, <1>9 DEF Next, Compose, Tells

LEMMA HistoryInit == ASSUME Init PROVE HistoryInv
  <1>1. db \in SUBSET Nat /\ IsFiniteSet(db)
    BY FirstRows DEF Init
  <1>2. messages = Page(db).rows /\ request = [q \in Requests |-> Nothing]
    BY DEF Init
  <1> QED
    BY <1>1, <1>2, PageOnce DEF HistoryInv, Calls

TypesInv == ServerTypes /\ SocketTypes /\ BlocksType /\ HistoryInv

LEMMA TypesStep == ASSUME TypesInv, [Next]_vars PROVE TypesInv'
  BY ServerStep, ConnTypes, HistoryStep DEF TypesInv

LEMMA TypesInit == ASSUME Init PROVE TypesInv
  BY TalkInit, HistoryInit DEF TypesInv, BInv

\* What the rows, the turn, the sockets and their inboxes, the blocks, the list and the
\* requests may be.
ViewTypes == ServerTypes /\ SocketTypes /\ BlocksType /\ HistoryTypes
THEOREM ChatTypes == Spec => []ViewTypes
  <1>1. TypesInv => ViewTypes
    BY DEF TypesInv, ViewTypes, HistoryInv, HistoryTypes, Calls, Single
  <1> QED
    BY <1>1, TypesStep, TypesInit, PTL DEF Spec

\* No agent message is listed twice, whichever of the terminal event, a reload and an earlier
\* page brings it, in any order (appendUniqueMessage, loadEarlier): a page has a row once, and
\* what is added is not in the list.
THEOREM ChatMessagesOnce == Spec => []AgentMessagesOnce
  <1>1. TypesInv => AgentMessagesOnce
    BY DEF TypesInv, HistoryInv, Single, OnceIn, AgentMessagesOnce
  <1> QED
    BY <1>1, TypesStep, TypesInit, PTL DEF Spec

---------------------------------------------------------------------------
(* The list of sessions (AgentHome): what the page will know once the first *)
(* list is in, and what is still on its way.                               *)

NoteType == [type : {"created", "deleted", "done"}, id : Sessions]
Note(type, s) == [type |-> type, id |-> s]
Carries(w, n) == \E i \in 1 .. Len(w) : w[i] = n
InTurn(w) == \A s \in Sessions : \A i, j \in 1 .. Len(w) :
               i < j /\ w[i] = Note("deleted", s) => w[j] # Note("created", s)

Uniq(seq) == \A i, j \in 1 .. Len(seq) : i # j => seq[i] # seq[j]
Known == IF fetch = Absent THEN Ids(sessions)
         ELSE IF fetch = Pending THEN Visible ELSE Ids(fetch)

\* A session the page knows, or does not, is as its row says, or an event will tell.
Agrees(st, known, w, s) ==
  /\ st = "none" => ~known /\ ~Carries(w, Note("created", s)) /\ ~Carries(w, Note("deleted", s))
  /\ st \in {"new", "active"} => (known \/ Carries(w, Note("created", s)))
                                 /\ ~Carries(w, Note("deleted", s))
  /\ st \in {"going", "gone"} => \/ Carries(w, Note("deleted", s))
                                 \/ ~known /\ ~Carries(w, Note("created", s))

HomeTypes == /\ row \in [Sessions -> {"none", "new", "active", "going", "gone"}]
             /\ channel \in [open : BOOLEAN, wire : Seq(NoteType)]
             /\ loading \in BOOLEAN /\ blind \in BOOLEAN /\ (loading <=> fetch # Absent)
             /\ sessions \in Seq(Sessions) /\ fetch \in Seq(Sessions) \cup {Absent, Pending}
             /\ create \in Sessions \cup {Absent, Pending}
ListsOnce == Uniq(sessions) /\ (fetch \notin {Absent, Pending} => Uniq(fetch))
MadeExists == create \in Sessions => row[create] # "none"
Shut == ~channel.open => channel.wire = <<>>
Tracks == ~blind => /\ InTurn(channel.wire)
                    /\ \A s \in Sessions : Agrees(row[s], s \in Known, channel.wire, s)
HomeInv == HomeTypes /\ ListsOnce /\ MadeExists /\ Shut /\ Tracks

LEMMA Notes ==
  ASSUME NEW s \in Sessions, NEW r \in Sessions, NEW a \in {"created", "deleted", "done"},
         NEW b \in {"created", "deleted", "done"}
  PROVE  Note(a, s) \in NoteType /\ (Note(a, s) = Note(b, r) <=> a = b /\ s = r)
  BY DEF Note, NoteType

LEMMA CarriesMore ==
  ASSUME NEW w \in Seq(NoteType), NEW e \in NoteType
  PROVE  /\ Append(w, e) \in Seq(NoteType)
         /\ \A n : Carries(Append(w, e), n) <=> Carries(w, n) \/ n = e
         /\ InTurn(w) /\ (\A s \in Sessions : e = Note("created", s) => ~Carries(w, Note("deleted", s)))
              => InTurn(Append(w, e))
  <1> DEFINE v == Append(w, e)
  <1>1. /\ v \in Seq(NoteType) /\ Len(v) = Len(w) + 1 /\ Len(w) \in Nat /\ v[Len(w) + 1] = e
        /\ \A i \in 1 .. Len(w) : v[i] = w[i]
    BY AppendProperties, LenProperties
  <1> HIDE DEF v
  <1>2. /\ \A i \in 1 .. Len(v) : i \in 1 .. Len(w) \/ i = Len(w) + 1
        /\ \A i \in 1 .. Len(w) : i \in 1 .. Len(v)
        /\ Len(w) + 1 \in 1 .. Len(v)
    BY <1>1
  <1>3. \A n : Carries(v, n) <=> Carries(w, n) \/ n = e
    BY <1>1, <1>2 DEF Carries
  <1>4. ASSUME InTurn(w), \A s \in Sessions : e = Note("created", s) => ~Carries(w, Note("deleted", s))
        PROVE  InTurn(v)
    <2> SUFFICES ASSUME NEW s \in Sessions, NEW i \in 1 .. Len(v), NEW j \in 1 .. Len(v), i < j,
                        v[i] = Note("deleted", s), v[j] = Note("created", s)
                 PROVE  FALSE
      BY DEF InTurn
    <2>1. i \in 1 .. Len(w) /\ v[i] = w[i]
      BY <1>1, <1>2
    <2>2. CASE j \in 1 .. Len(w)
      BY <1>1, <1>4, <2>1, <2>2 DEF InTurn
    <2>3. CASE j = Len(w) + 1
      BY <1>1, <1>4, <2>1, <2>3 DEF Carries
    <2> QED
      BY <1>2, <2>2, <2>3
  <1> QED
    BY <1>1, <1>3, <1>4 DEF v

LEMMA CarriesLess ==
  ASSUME NEW w \in Seq(NoteType), w # <<>>
  PROVE  /\ Tail(w) \in Seq(NoteType) /\ Head(w) \in NoteType
         /\ \A n : Carries(w, n) <=> Carries(Tail(w), n) \/ n = Head(w)
         /\ InTurn(w) => InTurn(Tail(w)) /\ \A s \in Sessions :
              Head(w) = Note("deleted", s) => ~Carries(Tail(w), Note("created", s))
  <1> DEFINE v == Tail(w)
  <1>1. /\ v \in Seq(NoteType) /\ Len(w) \in Nat /\ Len(v) = Len(w) - 1 /\ Len(w) > 0
        /\ Head(w) = w[1] /\ w[1] \in NoteType
        /\ \A i \in 1 .. Len(v) : v[i] = w[i + 1]
    OBVIOUS
  <1> HIDE DEF v
  <1>2. /\ \A i \in 1 .. Len(w) : i = 1 \/ i - 1 \in 1 .. Len(v)
        /\ \A i \in 1 .. Len(v) : i + 1 \in 1 .. Len(w) /\ 1 < i + 1
        /\ 1 \in 1 .. Len(w)
    BY <1>1
  <1>3. ASSUME NEW n PROVE Carries(w, n) <=> Carries(v, n) \/ n = w[1]
    <2>1. ASSUME Carries(w, n), n # w[1] PROVE Carries(v, n)
      <3>1. PICK i \in 1 .. Len(w) : w[i] = n
        BY <2>1 DEF Carries
      <3>2. i # 1 /\ i - 1 \in 1 .. Len(v) /\ (i - 1) + 1 = i
        BY <1>2, <2>1, <3>1
      <3>3. v[i - 1] = n
        BY <1>1, <3>1, <3>2
      <3> QED
        BY <3>2, <3>3 DEF Carries
    <2>2. ASSUME Carries(v, n) PROVE Carries(w, n)
      BY <1>1, <1>2, <2>2 DEF Carries
    <2>3. Carries(w, w[1])
      BY <1>2 DEF Carries
    <2> QED
      BY <2>1, <2>2, <2>3
  <1>4. ASSUME InTurn(w) PROVE InTurn(v)
    <2> SUFFICES ASSUME NEW s \in Sessions, NEW i \in 1 .. Len(v), NEW j \in 1 .. Len(v), i < j,
                        v[i] = Note("deleted", s), v[j] = Note("created", s)
                 PROVE  FALSE
      BY DEF InTurn
    <2>1. i + 1 \in 1 .. Len(w) /\ j + 1 \in 1 .. Len(w) /\ i + 1 < j + 1
      BY <1>2
    <2>2. w[i + 1] = Note("deleted", s) /\ w[j + 1] = Note("created", s)
      BY <1>1
    <2> QED
      BY <1>4, <2>1, <2>2 DEF InTurn
  <1>5. ASSUME InTurn(w), NEW s \in Sessions, w[1] = Note("deleted", s), Carries(v, Note("created", s))
        PROVE  FALSE
    <2>1. PICK i \in 1 .. Len(v) : v[i] = Note("created", s)
      BY <1>5 DEF Carries
    <2>2. i + 1 \in 1 .. Len(w) /\ 1 < i + 1 /\ w[i + 1] = Note("created", s)
      BY <1>1, <1>2, <2>1
    <2> QED
      BY <1>2, <1>5, <2>2 DEF InTurn
  <1> QED
    BY <1>1, <1>3, <1>4, <1>5 DEF v

LEMMA RemovedFacts ==
  ASSUME NEW seq \in Seq(Sessions), Uniq(seq), NEW s
  PROVE  /\ Removed(seq, s) \in Seq(Sessions) /\ Uniq(Removed(seq, s))
         /\ Ids(Removed(seq, s)) = Ids(seq) \ {s}
  <1> DEFINE r == Removed(seq, s)
  <1>1. Filters(r, seq, Len(seq), {s}, Sessions)
    BY WithoutFacts DEF Removed
  <1> HIDE DEF r
  <1>2. r \in Seq(Sessions) /\ \A x : Listed(r, x) <=> Among(seq, Len(seq), x) /\ x # s
    BY <1>1 DEF Filters
  <1>3. ASSUME NEW q \in Seq(Sessions), NEW x PROVE x \in Ids(q) <=> Among(q, Len(q), x)
    BY DEF Ids, ToSet, Among
  <1>4. ASSUME NEW x PROVE Among(r, Len(r), x) <=> Listed(r, x)
    BY DEF Among, Listed
  <1>5. Ids(r) = Ids(seq) \ {s}
    BY <1>2, <1>3, <1>4
  <1>6. ASSUME NEW i \in 1 .. Len(r), NEW j \in 1 .. Len(r), i # j, r[i] = r[j] PROVE FALSE
    <2>1. Twice(r, Len(r), r[i])
      BY <1>6 DEF Twice
    <2>2. Twice(seq, Len(seq), r[i])
      BY <1>1, <2>1 DEF Filters
    <2> QED
      BY <2>2 DEF Twice, Uniq
  <1> QED
    BY <1>2, <1>5, <1>6 DEF Uniq, r

LEMMA AddedFacts ==
  ASSUME NEW seq \in Seq(Sessions), Uniq(seq), NEW s \in Sessions
  PROVE  /\ Added(seq, s) \in Seq(Sessions) /\ Uniq(Added(seq, s))
         /\ Ids(Added(seq, s)) = Ids(seq) \cup {s}
  <1>1. CASE s \in Ids(seq)
    BY <1>1 DEF Added
  <1>2. CASE s \notin Ids(seq)
    <2> DEFINE r == <<s>> \o seq
    <2>1. <<s>> \in Seq(Sessions) /\ Len(<<s>>) = 1 /\ <<s>>[1] = s
      OBVIOUS
    <2>2. /\ r \in Seq(Sessions) /\ Len(r) = Len(<<s>>) + Len(seq)
          /\ \A i \in 1 .. Len(r) : r[i] = IF i <= Len(<<s>>) THEN <<s>>[i] ELSE seq[i - Len(<<s>>)]
      BY <2>1, ConcatProperties
    <2> HIDE DEF r
    <2>3. /\ Len(seq) \in Nat /\ Len(r) = Len(seq) + 1 /\ r[1] = s /\ 1 \in 1 .. Len(r)
          /\ \A i \in 1 .. Len(seq) : i + 1 \in 1 .. Len(r)
      BY <2>1, <2>2
    <2>4. ASSUME NEW i \in 1 .. Len(r), i # 1 PROVE i - 1 \in 1 .. Len(seq) /\ r[i] = seq[i - 1]
      BY <2>1, <2>2, <2>3, <2>4
    <2>5. ASSUME NEW i \in 1 .. Len(seq) PROVE r[i + 1] = seq[i]
      <3>1. i + 1 \in 1 .. Len(r) /\ i + 1 # 1 /\ (i + 1) - 1 = i
        BY <2>3
      <3> QED
        BY <2>4, <3>1
    <2>6. \A x : x \in Ids(r) <=> \E i \in 1 .. Len(r) : r[i] = x
      <3>1. r \in Seq(Sessions)
        BY <2>2
      <3> QED
        BY <3>1 DEF Ids, ToSet
    <2>7. \A x : x \in Ids(seq) <=> \E i \in 1 .. Len(seq) : seq[i] = x
      BY DEF Ids, ToSet
    <2>8. Ids(r) = Ids(seq) \cup {s}
      <3>1. ASSUME NEW x \in Ids(r) PROVE x \in Ids(seq) \cup {s}
        BY <2>3, <2>4, <2>6, <2>7, <3>1
      <3>2. ASSUME NEW x \in Ids(seq) PROVE x \in Ids(r)
        BY <2>3, <2>5, <2>6, <2>7, <3>2
      <3> QED
        BY <2>3, <2>6, <3>1, <3>2
    <2>9. ASSUME NEW i \in 1 .. Len(r), NEW j \in 1 .. Len(r), i # j PROVE r[i] # r[j]
      <3>1. CASE i = 1 \/ j = 1
        BY <1>2, <2>3, <2>4, <2>7, <2>9, <3>1
      <3>2. CASE i # 1 /\ j # 1
        <4>1. i - 1 # j - 1 /\ i - 1 \in 1 .. Len(seq) /\ j - 1 \in 1 .. Len(seq)
          BY <2>4, <2>9, <3>2
        <4> QED
          BY <2>4, <3>2, <4>1 DEF Uniq
      <3> QED
        BY <3>1, <3>2
    <2>10. Added(seq, s) = r
      BY <1>2 DEF Added, r
    <2> QED
      BY <2>2, <2>8, <2>9, <2>10 DEF Uniq
  <1> QED
    BY <1>1, <1>2

\* The list the API gives: what is visible, newest first.
LEMMA AnswerFacts ==
  LET a == Reverse(Sorted(Visible))
  IN  a \in Seq(Sessions) /\ Uniq(a) /\ Ids(a) = Visible
  <1> DEFINE V == Visible
             b == Sorted(V)
             n == Cardinality(V)
             a == Reverse(b)
  <1>1. V \in SUBSET Nat /\ IsFiniteSet(V) /\ V \subseteq Sessions
    BY HomeConstants, FS_Subset DEF Visible
  <1>2. /\ b \in Seq(V) /\ b \in Seq(Nat) /\ Len(b) = n
        /\ \A i, j \in 1 .. n : i < j => b[i] < b[j]
        /\ \A x \in V : \E i \in 1 .. n : b[i] = x
    BY <1>1, SortedFacts
  <1> HIDE DEF b
  <1>3. n \in Nat /\ \A i \in 1 .. n : b[i] \in V /\ b[i] \in Nat
    BY <1>2
  <1> HIDE DEF n, V
  <1>4. a = [i \in 1 .. n |-> b[(n - i) + 1]]
    BY <1>2 DEF Reverse
  <1> HIDE DEF a
  <1>5. \A i \in 1 .. n : (n - i) + 1 \in 1 .. n /\ a[i] = b[(n - i) + 1]
    BY <1>3, <1>4
  <1>6. a \in Seq(Sessions) /\ Len(a) = n
    BY <1>1, <1>3, <1>4, <1>5
  <1>7. ASSUME NEW i \in 1 .. n, NEW j \in 1 .. n, i # j PROVE a[i] # a[j]
    <2> DEFINE p == (n - i) + 1
               q == (n - j) + 1
    <2>1. p \in 1 .. n /\ q \in 1 .. n /\ (p < q \/ q < p)
      BY <1>3, <1>7
    <2>2. b[p] < b[q] \/ b[q] < b[p]
      BY <1>2, <2>1
    <2>3. b[p] # b[q]
      BY <1>3, <2>1, <2>2
    <2> QED
      BY <1>5, <2>3
  <1>8. Ids(a) = V
    <2>1. ASSUME NEW x \in Ids(a) PROVE x \in V
      BY <1>3, <1>5, <1>6, <2>1 DEF Ids, ToSet
    <2>2. ASSUME NEW x \in V PROVE x \in Ids(a)
      <3>1. PICK i \in 1 .. n : b[i] = x
        BY <1>2
      <3>2. (n - i) + 1 \in 1 .. n /\ (n - ((n - i) + 1)) + 1 = i
        BY <1>3
      <3>3. a[(n - i) + 1] = x
        BY <1>5, <3>1, <3>2
      <3> QED
        BY <1>6, <3>2, <3>3 DEF Ids, ToSet
    <2> QED
      BY <2>1, <2>2
  <1> QED
    BY <1>6, <1>7, <1>8 DEF Uniq, a, b, V

LEMMA UniqCounts ==
  ASSUME NEW seq \in Seq(Sessions), Uniq(seq)
  PROVE  Cardinality(Ids(seq)) = Len(seq)
  <1> DEFINE n == Len(seq)
  <1>1. n \in Nat /\ seq \in [1 .. n -> Sessions]
    OBVIOUS
  <1> HIDE DEF n
  <1>2. Ids(seq) = {seq[i] : i \in 1 .. n}
    BY <1>1 DEF Ids, ToSet
  <1>3. seq \in Bijection(1 .. n, Ids(seq))
    <2>1. seq \in Injection(1 .. n, Ids(seq))
      BY <1>1, <1>2 DEF Uniq, Injection, IsInjective, n
    <2>2. seq \in Surjection(1 .. n, Ids(seq))
      BY <1>1, <1>2 DEF Surjection
    <2> QED
      BY <2>1, <2>2 DEF Bijection
  <1>4. ExistsBijection(1 .. n, Ids(seq))
    BY <1>3 DEF ExistsBijection
  <1>5. IsFiniteSet(1 .. n) /\ Cardinality(1 .. n) = n
    BY <1>1, FS_Interval
  <1>6. Cardinality(Ids(seq)) = Cardinality(1 .. n)
    BY <1>4, <1>5, FS_Bijection
  <1> QED
    BY <1>5, <1>6 DEF n

---------------------------------------------------------------------------
(* The page and the API, step by step.                                     *)

\* What is announced is on its way, or is missed.
LEMMA AnnounceMoves ==
  ASSUME HomeTypes, Shut, NEW type \in {"created", "deleted", "done"}, NEW s \in Sessions, Announce(type, s)
  PROVE  /\ channel' \in [open : BOOLEAN, wire : Seq(NoteType)] /\ Shut' /\ blind' \in BOOLEAN
         /\ ~blind' => ~blind
         /\ ~blind' => \/ channel'.wire = Append(channel.wire, Note(type, s))
                       \/ ~Told(type) /\ channel'.wire = channel.wire
  <1>1. /\ channel \in [open : BOOLEAN, wire : Seq(NoteType)] /\ blind \in BOOLEAN
        /\ blind' = (blind \/ (~channel.open /\ Told(type)))
    BY DEF HomeTypes, Announce
  <1>2. CASE channel.open
    <2> DEFINE v == Append(channel.wire, Note(type, s))
    <2>1. v \in Seq(NoteType)
      BY <1>1, Notes, CarriesMore
    <2>2. channel' = [channel EXCEPT !.wire = v]
      BY <1>2 DEF Announce, Note
    <2> HIDE DEF v
    <2>3. channel' \in [open : BOOLEAN, wire : Seq(NoteType)] /\ channel'.wire = v /\ channel'.open
      BY <1>1, <1>2, <2>1, <2>2
    <2> QED
      BY <1>1, <2>3 DEF v, Shut, Told
  <1>3. CASE ~channel.open
    <2>1. channel' = channel
      BY <1>3 DEF Announce
    <2> QED
      BY <1>1, <1>3, <2>1 DEF Shut, Told
  <1> QED
    BY <1>2, <1>3

\* What arrives leaves the wire.
LEMMA IncomingMoves ==
  ASSUME HomeTypes, Shut, NEW type, Incoming(type)
  PROVE  /\ channel' \in [open : BOOLEAN, wire : Seq(NoteType)] /\ Shut'
         /\ channel.wire \in Seq(NoteType) /\ channel.wire # <<>>
         /\ channel'.wire = Tail(channel.wire) /\ Head(channel.wire) = Note(type, Head(channel.wire).id)
         /\ Head(channel.wire).id \in Sessions
  <1>1. channel \in [open : BOOLEAN, wire : Seq(NoteType)]
    BY DEF HomeTypes
  <1>2. channel.wire \in Seq(NoteType) /\ channel.wire # <<>> /\ Head(channel.wire).type = type
        /\ channel' = [channel EXCEPT !.wire = Tail(@)]
    BY <1>1 DEF Incoming
  <1>3. Tail(channel.wire) \in Seq(NoteType) /\ Head(channel.wire) \in NoteType
    BY <1>2, CarriesLess
  <1>4. Head(channel.wire) = Note(type, Head(channel.wire).id) /\ Head(channel.wire).id \in Sessions
    BY <1>2, <1>3 DEF NoteType, Note
  <1> QED
    BY <1>1, <1>2, <1>3, <1>4 DEF Shut

\* A list changed by one event, or by the answer of a creation.
LEMMA ListStep ==
  ASSUME HomeTypes, ListsOnce, NEW s \in Sessions,
         sessions' \in {Added(sessions, s), Removed(sessions, s), sessions},
         UNCHANGED fetch
  PROVE  sessions' \in Seq(Sessions) /\ ListsOnce'
  BY AddedFacts, RemovedFacts DEF HomeTypes, ListsOnce

LEMMA MakeKeeps == ASSUME HomeInv, NEW s \in Sessions, MakeSession(s) PROVE HomeInv'
  <1>1. /\ row[s] = "none" /\ row' = [row EXCEPT ![s] = "new"] /\ Announce("created", s)
        /\ create' = create \/ create' = s
        /\ UNCHANGED <<loading, fetch, sessions>>
    BY DEF MakeSession, list
  <1>2. /\ channel' \in [open : BOOLEAN, wire : Seq(NoteType)] /\ Shut' /\ blind' \in BOOLEAN
        /\ ~blind' => ~blind
        /\ ~blind' => channel'.wire = Append(channel.wire, Note("created", s))
    BY <1>1, AnnounceMoves DEF HomeInv, Told
  <1>3. HomeTypes'
    BY <1>1, <1>2 DEF HomeInv, HomeTypes
  <1>4. ListsOnce' /\ MadeExists'
    BY <1>1 DEF HomeInv, HomeTypes, ListsOnce, MadeExists
  <1>5. Visible' = Visible
    BY <1>1 DEF Visible, HomeInv, HomeTypes
  <1>6. Known' = Known
    BY <1>1, <1>5 DEF Known
  <1>7. ASSUME ~blind' PROVE /\ InTurn(channel'.wire)
                             /\ \A r \in Sessions : Agrees(row'[r], r \in Known', channel'.wire, r)
    <2> DEFINE w == channel.wire
               e == Note("created", s)
    <2>1. /\ w \in Seq(NoteType) /\ InTurn(w) /\ channel'.wire = Append(w, e)
          /\ \A r \in Sessions : Agrees(row[r], r \in Known, w, r)
      BY <1>2, <1>7 DEF HomeInv, HomeTypes, Tracks
    <2>2. e \in NoteType /\ \A r \in Sessions : (e = Note("created", r) <=> r = s) /\ e # Note("deleted", r)
      BY Notes
    <2>3. ~Carries(w, Note("deleted", s)) /\ s \notin Known
      BY <1>1, <2>1 DEF Agrees
    <2> HIDE DEF w, e
    <2>4. /\ \A n : Carries(Append(w, e), n) <=> Carries(w, n) \/ n = e
          /\ InTurn(Append(w, e))
      BY <2>1, <2>2, <2>3, CarriesMore
    <2>5. ASSUME NEW r \in Sessions PROVE Agrees(row'[r], r \in Known, Append(w, e), r)
      <3>1. CASE r = s
        <4>1. row'[r] = "new"
          BY <1>1, <3>1 DEF HomeInv, HomeTypes
        <4> QED
          BY <2>2, <2>3, <2>4, <3>1, <4>1 DEF Agrees
      <3>2. CASE r # s
        <4>1. row'[r] = row[r]
          BY <1>1, <3>2 DEF HomeInv, HomeTypes
        <4>2. /\ Carries(Append(w, e), Note("created", r)) <=> Carries(w, Note("created", r))
              /\ Carries(Append(w, e), Note("deleted", r)) <=> Carries(w, Note("deleted", r))
          BY <2>2, <2>4, <3>2
        <4> QED
          BY <2>1, <4>1, <4>2 DEF Agrees
      <3> QED
        BY <3>1, <3>2
    <2> QED
      BY <1>6, <2>1, <2>4, <2>5
  <1> QED
    BY <1>2, <1>3, <1>4, <1>7 DEF HomeInv, Tracks

LEMMA DropKeeps == ASSUME HomeInv, NEW s \in Sessions, DropSession(s) PROVE HomeInv'
  <1>1. /\ row[s] = "active" /\ row' = [row EXCEPT ![s] = "going"] /\ Announce("deleted", s)
        /\ UNCHANGED <<loading, fetch, sessions, create>>
    BY DEF DropSession, list
  <1>2. /\ channel' \in [open : BOOLEAN, wire : Seq(NoteType)] /\ Shut' /\ blind' \in BOOLEAN
        /\ ~blind' => ~blind
        /\ ~blind' => channel'.wire = Append(channel.wire, Note("deleted", s))
    BY <1>1, AnnounceMoves DEF HomeInv, Told
  <1>3. HomeTypes'
    BY <1>1, <1>2 DEF HomeInv, HomeTypes
  <1>4. ListsOnce' /\ MadeExists'
    BY <1>1 DEF HomeInv, HomeTypes, ListsOnce, MadeExists
  <1>5. Visible' = Visible
    BY <1>1 DEF Visible, HomeInv, HomeTypes
  <1>6. Known' = Known
    BY <1>1, <1>5 DEF Known
  <1>7. ASSUME ~blind' PROVE /\ InTurn(channel'.wire)
                             /\ \A r \in Sessions : Agrees(row'[r], r \in Known', channel'.wire, r)
    <2> DEFINE w == channel.wire
               e == Note("deleted", s)
    <2>1. /\ w \in Seq(NoteType) /\ InTurn(w) /\ channel'.wire = Append(w, e)
          /\ \A r \in Sessions : Agrees(row[r], r \in Known, w, r)
      BY <1>2, <1>7 DEF HomeInv, HomeTypes, Tracks
    <2>2. e \in NoteType /\ \A r \in Sessions : (e = Note("deleted", r) <=> r = s) /\ e # Note("created", r)
      BY Notes
    <2> HIDE DEF w, e
    <2>4. /\ \A n : Carries(Append(w, e), n) <=> Carries(w, n) \/ n = e
          /\ InTurn(Append(w, e))
      BY <2>1, <2>2, CarriesMore
    <2>5. ASSUME NEW r \in Sessions PROVE Agrees(row'[r], r \in Known, Append(w, e), r)
      <3>1. CASE r = s
        <4>1. row'[r] = "going"
          BY <1>1, <3>1 DEF HomeInv, HomeTypes
        <4> QED
          BY <2>2, <2>4, <3>1, <4>1 DEF Agrees
      <3>2. CASE r # s
        <4>1. row'[r] = row[r]
          BY <1>1, <3>2 DEF HomeInv, HomeTypes
        <4>2. /\ Carries(Append(w, e), Note("created", r)) <=> Carries(w, Note("created", r))
              /\ Carries(Append(w, e), Note("deleted", r)) <=> Carries(w, Note("deleted", r))
          BY <2>2, <2>4, <3>2
        <4> QED
          BY <2>1, <4>1, <4>2 DEF Agrees
      <3> QED
        BY <3>1, <3>2
    <2> QED
      BY <1>6, <2>1, <2>4, <2>5
  <1> QED
    BY <1>2, <1>3, <1>4, <1>7 DEF HomeInv, Tracks

LEMMA CommitKeeps == ASSUME HomeInv, NEW s \in Sessions, Commit(s) PROVE HomeInv'
  <1>1. /\ \/ row[s] = "new" /\ row' = [row EXCEPT ![s] = "active"]
           \/ row[s] = "going" /\ row' = [row EXCEPT ![s] = "gone"]
        /\ UNCHANGED <<channel, loading, fetch, sessions, create, blind>>
    BY DEF Commit, list, calls
  <1>2. row \in [Sessions -> {"none", "new", "active", "going", "gone"}]
    BY DEF HomeInv, HomeTypes
  <1>3. HomeTypes' /\ Shut' /\ ListsOnce'
    BY <1>1 DEF HomeInv, HomeTypes, Shut, ListsOnce
  <1>4. MadeExists'
    BY <1>1, <1>2 DEF HomeInv, MadeExists
  <1>5. ASSUME NEW r \in Sessions, r # s PROVE row'[r] = row[r] /\ (r \in Known' <=> r \in Known)
    <2>1. row'[r] = row[r]
      BY <1>1, <1>2, <1>5
    <2> QED
      BY <1>1, <2>1 DEF Known, Visible
  <1>6. ASSUME Agrees(row[s], s \in Known, channel.wire, s)
        PROVE  Agrees(row'[s], s \in Known', channel.wire, s)
    <2>1. fetch = Absent \/ fetch # Pending => (s \in Known' <=> s \in Known)
      BY <1>1 DEF Known
    <2>2. fetch # Absent /\ fetch = Pending => /\ (s \in Known' <=> row'[s] \in {"active", "going"})
                                              /\ (s \in Known <=> row[s] \in {"active", "going"})
      BY <1>1 DEF Known, Visible
    <2>3. CASE row[s] = "new" /\ row'[s] = "active"
      BY <1>6, <2>1, <2>2, <2>3 DEF Agrees
    <2>4. CASE row[s] = "going" /\ row'[s] = "gone"
      BY <1>6, <2>1, <2>2, <2>4 DEF Agrees
    <2> QED
      BY <1>1, <1>2, <2>3, <2>4
  <1>7. Tracks'
    <2> SUFFICES ASSUME ~blind, NEW r \in Sessions
                 PROVE  InTurn(channel.wire) /\ Agrees(row'[r], r \in Known', channel.wire, r)
      BY <1>1 DEF Tracks
    <2>1. InTurn(channel.wire) /\ Agrees(row[r], r \in Known, channel.wire, r)
      BY DEF HomeInv, Tracks
    <2>2. CASE r = s
      BY <1>6, <2>1, <2>2
    <2>3. CASE r # s
      BY <1>5, <2>1, <2>3 DEF Agrees
    <2> QED
      BY <2>1, <2>2, <2>3
  <1> QED
    BY <1>3, <1>4, <1>7 DEF HomeInv

\* The wire changes, and not in what it tells of the list.
SameTold(w, v) == \A s \in Sessions : \A type \in {"created", "deleted"} :
                    Carries(w, Note(type, s)) <=> Carries(v, Note(type, s))
LEMMA WireOnly ==
  ASSUME HomeInv, UNCHANGED <<row, loading, fetch, sessions>>,
         create' \in {create, Absent, Pending}, blind' \in BOOLEAN,
         channel' \in [open : BOOLEAN, wire : Seq(NoteType)], Shut',
         ~blind' => /\ ~blind /\ SameTold(channel.wire, channel'.wire)
                    /\ InTurn(channel.wire) => InTurn(channel'.wire)
  PROVE  HomeInv'
  <1>1. HomeTypes'
    BY DEF HomeInv, HomeTypes
  <1>2. ListsOnce'
    BY DEF HomeInv, ListsOnce
  <1>3. MadeExists'
    BY HomeConstants DEF HomeInv, MadeExists
  <1>4. Known' = Known
    BY DEF Known, Visible
  <1>5. Tracks'
    BY <1>4 DEF HomeInv, Tracks, SameTold, Agrees
  <1> QED
    BY <1>1, <1>2, <1>3, <1>5 DEF HomeInv

LEMMA WireKeeps ==
  ASSUME HomeInv, (\E s \in Sessions : Reply(s)) \/ LoseSocket \/ Reconnect \/ OnDone
  PROVE  HomeInv'
  <1> DEFINE w == channel.wire
             v == channel'.wire
  <1>1. w \in Seq(NoteType) /\ blind \in BOOLEAN /\ Shut /\ HomeTypes
    BY DEF HomeInv, HomeTypes
  <1>2. ASSUME NEW s \in Sessions, Reply(s) PROVE HomeInv'
    <2>1. Announce("done", s) /\ UNCHANGED <<row, loading, fetch, sessions, create>>
      BY <1>2 DEF Reply, list, calls
    <2>2. /\ channel' \in [open : BOOLEAN, wire : Seq(NoteType)] /\ Shut' /\ blind' \in BOOLEAN
          /\ ~blind' => ~blind
          /\ ~blind' => v = Append(w, Note("done", s)) \/ v = w
      BY <1>1, <2>1, AnnounceMoves
    <2>3. /\ Note("done", s) \in NoteType
          /\ \A r \in Sessions : Note("done", s) # Note("created", r) /\ Note("done", s) # Note("deleted", r)
      BY Notes
    <2>4. ASSUME v = Append(w, Note("done", s)) PROVE SameTold(w, v) /\ (InTurn(w) => InTurn(v))
      BY <1>1, <2>3, <2>4, CarriesMore DEF SameTold
    <2>5. SameTold(w, w)
      BY DEF SameTold
    <2> QED
      BY <2>1, <2>2, <2>4, <2>5, WireOnly
  <1>3. CASE LoseSocket
    <2>1. /\ channel' = [open |-> FALSE, wire |-> <<>>]
          /\ blind' = (blind \/ \E i \in DOMAIN w : Told(w[i].type))
          /\ UNCHANGED <<row, loading, fetch, sessions, create>>
      BY <1>3 DEF LoseSocket, list, calls
    <2>2. ASSUME ~blind' PROVE ~blind /\ SameTold(w, <<>>)
      <3>3. ~(\E i \in DOMAIN w : Told(w[i].type))
        BY <2>1, <2>2
      <3>4. DOMAIN w = 1 .. Len(w)
        BY <1>1
      <3>1. \A i \in 1 .. Len(w) : ~Told(w[i].type)
        BY <3>3, <3>4
      <3>2. \A s \in Sessions : \A type \in {"created", "deleted"} :
              ~Carries(w, Note(type, s)) /\ ~Carries(<<>>, Note(type, s))
        BY <3>1 DEF Carries, Note, Told
      <3> QED
        BY <2>1, <2>2, <3>2 DEF SameTold
    <2>3. InTurn(<<>>) /\ <<>> \in Seq(NoteType) /\ v = <<>>
      BY <2>1 DEF InTurn
    <2>4. blind' \in BOOLEAN /\ channel' \in [open : BOOLEAN, wire : Seq(NoteType)] /\ Shut'
      BY <1>1, <2>1, <2>3 DEF Shut
    <2> QED
      BY <2>1, <2>2, <2>3, <2>4, WireOnly
  <1>4. CASE Reconnect
    <2>1. /\ ~channel.open /\ channel' = [open |-> TRUE, wire |-> <<>>]
          /\ UNCHANGED <<row, loading, fetch, sessions, create, blind>>
      BY <1>4 DEF Reconnect, list, calls
    <2>2. w = <<>> /\ v = <<>> /\ <<>> \in Seq(NoteType)
      BY <1>1, <2>1 DEF Shut
    <2>3. SameTold(w, v) /\ channel' \in [open : BOOLEAN, wire : Seq(NoteType)] /\ Shut'
      BY <2>1, <2>2 DEF SameTold, Shut
    <2> QED
      BY <1>1, <2>1, <2>2, <2>3, WireOnly
  <1>5. CASE OnDone
    <2>1. Incoming("done") /\ UNCHANGED <<row, loading, fetch, sessions, create, blind>>
      BY <1>5 DEF OnDone, list, calls
    <2>2. /\ channel' \in [open : BOOLEAN, wire : Seq(NoteType)] /\ Shut'
          /\ w # <<>> /\ v = Tail(w) /\ Head(w) = Note("done", Head(w).id) /\ Head(w).id \in Sessions
      BY <1>1, <2>1, IncomingMoves
    <2>3. \A r \in Sessions : Head(w) # Note("created", r) /\ Head(w) # Note("deleted", r)
      BY <2>2, Notes
    <2>4. SameTold(w, v) /\ (InTurn(w) => InTurn(v))
      BY <1>1, <2>2, <2>3, CarriesLess DEF SameTold
    <2> QED
      BY <1>1, <2>1, <2>2, <2>4, WireOnly
  <1> QED
    BY <1>2, <1>3, <1>4, <1>5

\* The first list: asked, answered, or failed.
LEMMA FetchKeeps ==
  ASSUME HomeInv, ServeFetch \/ AnswerFetch \/ FetchFails
  PROVE  HomeInv'
  <1>1. HomeTypes /\ Absent # Pending /\ Absent \notin Seq(Sessions) /\ Pending \notin Seq(Sessions)
    BY HomeConstants DEF HomeInv
  <1>2. CASE ServeFetch
    <2> DEFINE a == Reverse(Sorted(Visible))
    <2>1. /\ fetch = Pending /\ fetch' = a
          /\ UNCHANGED <<row, channel, loading, sessions, create, blind>>
      BY <1>2 DEF ServeFetch, calls
    <2>2. a \in Seq(Sessions) /\ Uniq(a) /\ Ids(a) = Visible
      BY AnswerFacts
    <2> HIDE DEF a
    <2>3. HomeTypes' /\ ListsOnce'
      BY <1>1, <2>1, <2>2 DEF HomeInv, HomeTypes, ListsOnce
    <2>4. Known' = Known
      <3>1. Known = Visible /\ Known' = Ids(a)
        BY <1>1, <2>1, <2>2 DEF Known
      <3> QED
        BY <2>2, <3>1
    <2> QED
      BY <2>1, <2>3, <2>4 DEF HomeInv, MadeExists, Shut, Tracks
  <1>3. CASE AnswerFetch
    <2>1. /\ fetch \notin {Absent, Pending} /\ fetch' = Absent /\ loading' = FALSE /\ sessions' = fetch
          /\ UNCHANGED <<row, channel, create, blind>>
      BY <1>3 DEF AnswerFetch, Render
    <2>2. HomeTypes' /\ ListsOnce'
      BY <1>1, <2>1 DEF HomeInv, HomeTypes, ListsOnce
    <2>3. Known' = Known
      BY <2>1 DEF Known
    <2> QED
      BY <2>1, <2>2, <2>3 DEF HomeInv, MadeExists, Shut, Tracks
  <1>4. CASE FetchFails
    <2>1. /\ fetch' = Absent /\ loading' = FALSE /\ sessions' = <<>> /\ blind' = TRUE
          /\ UNCHANGED <<row, channel, create>>
      BY <1>4 DEF FetchFails, Render
    <2>2. <<>> \in Seq(Sessions) /\ Uniq(<<>>)
      BY DEF Uniq
    <2>3. HomeTypes' /\ ListsOnce'
      BY <1>1, <2>1, <2>2 DEF HomeInv, HomeTypes, ListsOnce
    <2> QED
      BY <2>1, <2>3 DEF HomeInv, MadeExists, Shut, Tracks
  <1> QED
    BY <1>2, <1>3, <1>4

\* An event of the list arrives: an event that met the first load blinds the page.
LEMMA CreatedKeeps == ASSUME HomeInv, OnCreated PROVE HomeInv'
  <1> DEFINE w == channel.wire
             v == channel'.wire
             s == Head(channel.wire).id
  <1>1. /\ Incoming("created") /\ sessions' = Added(sessions, s) /\ blind' = (blind \/ fetch # Absent)
        /\ UNCHANGED <<row, loading, fetch, create>>
    BY DEF OnCreated, Render
  <1>2. /\ channel' \in [open : BOOLEAN, wire : Seq(NoteType)] /\ Shut'
        /\ w \in Seq(NoteType) /\ w # <<>> /\ v = Tail(w) /\ Head(w) = Note("created", s) /\ s \in Sessions
    BY <1>1, IncomingMoves DEF HomeInv
  <1>3. sessions' \in Seq(Sessions) /\ ListsOnce'
    BY <1>1, <1>2, ListStep DEF HomeInv
  <1>4. HomeTypes' /\ MadeExists'
    BY <1>1, <1>2, <1>3 DEF HomeInv, HomeTypes, MadeExists
  <1>5. ASSUME ~blind' PROVE InTurn(v) /\ \A r \in Sessions : Agrees(row'[r], r \in Known', v, r)
    <2>1. ~blind /\ Known = Ids(sessions) /\ Known' = Ids(sessions')
      BY <1>1, <1>5 DEF Known
    <2>2. Ids(sessions') = Ids(sessions) \cup {s}
      BY <1>1, <1>2, AddedFacts DEF HomeInv, HomeTypes, ListsOnce
    <2>3. InTurn(w) /\ \A r \in Sessions : Agrees(row[r], r \in Known, w, r)
      BY <2>1 DEF HomeInv, Tracks
    <2>4. InTurn(v) /\ \A n : Carries(w, n) <=> Carries(v, n) \/ n = Note("created", s)
      BY <1>2, <2>3, CarriesLess
    <2>5. \A r \in Sessions : (Note("created", r) = Note("created", s) <=> r = s)
                              /\ Note("deleted", r) # Note("created", s)
      BY <1>2, Notes
    <2>6. ASSUME NEW r \in Sessions PROVE Agrees(row'[r], r \in Known', v, r)
      <3>1. Agrees(row[r], r \in Known, w, r) /\ row'[r] = row[r]
        BY <1>1, <2>3
      <3>2. r \in Known' <=> r \in Known \/ r = s
        BY <2>1, <2>2
      <3>3. /\ Carries(w, Note("created", r)) <=> Carries(v, Note("created", r)) \/ r = s
            /\ Carries(w, Note("deleted", r)) <=> Carries(v, Note("deleted", r))
        BY <2>4, <2>5
      <3> QED
        BY <3>1, <3>2, <3>3 DEF Agrees
    <2> QED
      BY <2>4, <2>6
  <1> QED
    BY <1>2, <1>3, <1>4, <1>5 DEF HomeInv, Tracks

LEMMA DeletedKeeps == ASSUME HomeInv, OnDeleted PROVE HomeInv'
  <1> DEFINE w == channel.wire
             v == channel'.wire
             s == Head(channel.wire).id
  <1>1. /\ Incoming("deleted") /\ sessions' = Removed(sessions, s) /\ blind' = (blind \/ fetch # Absent)
        /\ UNCHANGED <<row, loading, fetch, create>>
    BY DEF OnDeleted, Render
  <1>2. /\ channel' \in [open : BOOLEAN, wire : Seq(NoteType)] /\ Shut'
        /\ w \in Seq(NoteType) /\ w # <<>> /\ v = Tail(w) /\ Head(w) = Note("deleted", s) /\ s \in Sessions
    BY <1>1, IncomingMoves DEF HomeInv
  <1>3. sessions' \in Seq(Sessions) /\ ListsOnce'
    BY <1>1, <1>2, ListStep DEF HomeInv
  <1>4. HomeTypes' /\ MadeExists'
    BY <1>1, <1>2, <1>3 DEF HomeInv, HomeTypes, MadeExists
  <1>5. ASSUME ~blind' PROVE InTurn(v) /\ \A r \in Sessions : Agrees(row'[r], r \in Known', v, r)
    <2>1. ~blind /\ Known = Ids(sessions) /\ Known' = Ids(sessions')
      BY <1>1, <1>5 DEF Known
    <2>2. Ids(sessions') = Ids(sessions) \ {s}
      BY <1>1, RemovedFacts DEF HomeInv, HomeTypes, ListsOnce
    <2>3. InTurn(w) /\ \A r \in Sessions : Agrees(row[r], r \in Known, w, r)
      BY <2>1 DEF HomeInv, Tracks
    <2>4. /\ InTurn(v) /\ \A n : Carries(w, n) <=> Carries(v, n) \/ n = Note("deleted", s)
          /\ ~Carries(v, Note("created", s))
      BY <1>2, <2>3, CarriesLess
    <2>5. \A r \in Sessions : (Note("deleted", r) = Note("deleted", s) <=> r = s)
                              /\ Note("created", r) # Note("deleted", s)
      BY <1>2, Notes
    <2>6. ASSUME NEW r \in Sessions PROVE Agrees(row'[r], r \in Known', v, r)
      <3>1. Agrees(row[r], r \in Known, w, r) /\ row'[r] = row[r]
        BY <1>1, <2>3
      <3>2. r \in Known' <=> r \in Known /\ r # s
        BY <2>1, <2>2
      <3>3. /\ Carries(w, Note("created", r)) <=> Carries(v, Note("created", r))
            /\ Carries(w, Note("deleted", r)) <=> Carries(v, Note("deleted", r)) \/ r = s
        BY <2>4, <2>5
      <3> QED
        BY <2>4, <3>1, <3>2, <3>3 DEF Agrees
    <2> QED
      BY <2>4, <2>6
  <1> QED
    BY <1>2, <1>3, <1>4, <1>5 DEF HomeInv, Tracks

\* The answer of a creation: the session is listed, unless the page learns of its end.
LEMMA AnswerKeeps == ASSUME HomeInv, AnswerCreate PROVE HomeInv'
  <1> DEFINE s == create
  <1>1. /\ s \in Sessions /\ create' = Absent /\ sessions' = Added(sessions, s)
        /\ blind' = (blind \/ fetch # Absent \/ row[s] \in {"going", "gone"})
        /\ UNCHANGED <<row, channel, loading, fetch>>
    BY DEF AnswerCreate, Render
  <1>2. sessions' \in Seq(Sessions) /\ ListsOnce'
    BY <1>1, ListStep DEF HomeInv
  <1>3. HomeTypes' /\ MadeExists' /\ Shut'
    BY <1>1, <1>2, HomeConstants DEF HomeInv, HomeTypes, MadeExists, Shut
  <1>4. ASSUME ~blind', NEW r \in Sessions
        PROVE  InTurn(channel.wire) /\ Agrees(row[r], r \in Known', channel.wire, r)
    <2>1. ~blind /\ Known = Ids(sessions) /\ Known' = Ids(sessions') /\ row[s] \notin {"going", "gone"}
      BY <1>1, <1>4 DEF Known
    <2>2. Ids(sessions') = Ids(sessions) \cup {s}
      BY <1>1, AddedFacts DEF HomeInv, HomeTypes, ListsOnce
    <2>3. InTurn(channel.wire) /\ Agrees(row[r], r \in Known, channel.wire, r)
      BY <2>1 DEF HomeInv, Tracks
    <2>4. CASE r = s
      <3>1. row[s] \in {"new", "active"}
        BY <1>1, <2>1 DEF HomeInv, HomeTypes, MadeExists
      <3> QED
        BY <2>1, <2>2, <2>3, <2>4, <3>1 DEF Agrees
    <2>5. CASE r # s
      BY <2>1, <2>2, <2>3, <2>5 DEF Agrees
    <2> QED
      BY <2>4, <2>5
  <1>5. Tracks'
    <2>1. ASSUME ~blind' PROVE InTurn(channel.wire)
      BY <1>1, <2>1 DEF HomeInv, Tracks
    <2> QED
      BY <1>1, <1>4, <2>1 DEF Tracks
  <1> QED
    BY <1>2, <1>3, <1>5 DEF HomeInv

\* What the user does, and the other answers, leave the lists and the wire alone.
LEMMA UserKeeps ==
  ASSUME HomeInv,
         \/ \E s \in Sessions : Click(s) \/ Delete(s) \/ AnswerDelete(s) \/ DeleteFails(s)
         \/ (\E i \in DOMAIN items : OpenItem(i)) \/ MarkAllRead \/ ClearItems
         \/ NewSession \/ CreateFails \/ UNCHANGED homeVars
  PROVE  HomeInv'
  <1>1. UNCHANGED <<row, channel, loading, fetch, sessions, blind>> /\ create' \in {create, Absent, Pending}
    <2>1. ASSUME NEW s \in Sessions, Click(s) \/ Delete(s) \/ AnswerDelete(s) \/ DeleteFails(s)
          PROVE  UNCHANGED <<row, channel, loading, fetch, sessions, blind, create>>
      BY <2>1 DEF Click, Delete, AnswerDelete, DeleteFails, list, calls
    <2>2. ASSUME NEW i \in DOMAIN items, OpenItem(i)
          PROVE  UNCHANGED <<row, channel, loading, fetch, sessions, blind, create>>
      BY <2>2 DEF OpenItem, calls
    <2>3. CASE MarkAllRead \/ ClearItems \/ UNCHANGED homeVars
      BY <2>3 DEF MarkAllRead, ClearItems, homeVars, list, calls
    <2>4. CASE NewSession \/ CreateFails
      BY <2>4 DEF NewSession, CreateFails, list, calls
    <2> QED
      BY <2>1, <2>2, <2>3, <2>4
  <1>2. channel' \in [open : BOOLEAN, wire : Seq(NoteType)] /\ blind' \in BOOLEAN /\ Shut'
    BY <1>1 DEF HomeInv, HomeTypes, Shut
  <1>3. SameTold(channel.wire, channel'.wire)
    BY <1>1 DEF SameTold
  <1> QED
    BY <1>1, <1>2, <1>3, WireOnly

LEMMA HomeStep == ASSUME HomeInv, [HomeNext]_homeVars PROVE HomeInv'
  <1>1. ASSUME NEW s \in Sessions, ApiStep(s) PROVE HomeInv'
    BY <1>1, MakeKeeps, DropKeeps, CommitKeeps, WireKeeps DEF ApiStep
  <1>2. CASE \E s \in Sessions : Click(s) \/ Delete(s) \/ AnswerDelete(s) \/ DeleteFails(s)
    BY <1>2, UserKeeps
  <1>3. CASE (\E i \in DOMAIN items : OpenItem(i)) \/ MarkAllRead \/ ClearItems
             \/ NewSession \/ CreateFails \/ UNCHANGED homeVars
    BY <1>3, UserKeeps
  <1>4. CASE ServeFetch \/ AnswerFetch \/ FetchFails
    BY <1>4, FetchKeeps
  <1>5. CASE LoseSocket \/ Reconnect
    BY <1>5, WireKeeps
  <1>6. CASE Receive
    BY <1>6, CreatedKeeps, DeletedKeeps, WireKeeps DEF Receive
  <1>7. CASE AnswerCreate
    BY <1>7, AnswerKeeps
  <1> QED
    BY <1>1, <1>2, <1>3, <1>4, <1>5, <1>6, <1>7 DEF HomeNext

LEMMA HomeStart == ASSUME HomeInit PROVE HomeInv
  <1>1. /\ row = [s \in Sessions |-> IF s \in 1 .. Old THEN "active" ELSE "none"]
        /\ channel = [open |-> TRUE, wire |-> <<>>] /\ loading = TRUE /\ fetch = Pending
        /\ sessions = <<>> /\ create = Absent /\ blind = FALSE
    BY DEF HomeInit
  <1>2. <<>> \in Seq(NoteType) /\ <<>> \in Seq(Sessions) /\ Uniq(<<>>) /\ InTurn(<<>>)
        /\ \A n : ~Carries(<<>>, n)
    BY DEF Uniq, InTurn, Carries
  <1>3. Absent # Pending /\ Absent \notin Sessions
    BY HomeConstants
  <1>4. HomeTypes
    BY <1>1, <1>2, <1>3 DEF HomeTypes
  <1>5. ListsOnce /\ MadeExists /\ Shut
    BY <1>1, <1>2, <1>3 DEF ListsOnce, MadeExists, Shut
  <1>6. \A s \in Sessions : s \in Known <=> row[s] = "active"
    BY <1>1, <1>3 DEF Known, Visible
  <1>7. \A s \in Sessions : row[s] \in {"active", "none"}
    BY <1>1
  <1>8. Tracks
    BY <1>1, <1>2, <1>6, <1>7 DEF Tracks, Agrees
  <1> QED
    BY <1>4, <1>5, <1>8 DEF HomeInv

LEMMA HomeTells == ASSUME HomeInv PROVE ListIsTrue
  <1>1. Cardinality(Ids(sessions)) = Len(sessions)
    BY UniqCounts DEF HomeInv, HomeTypes, ListsOnce
  <1>2. ASSUME Quiet, ~blind PROVE Ids(sessions) = Visible
    <2>1. Known = Ids(sessions) /\ \A s \in Sessions : Agrees(row[s], s \in Known, <<>>, s)
      BY <1>2 DEF Quiet, HomeInv, HomeTypes, Tracks, Known
    <2>2. \A n : ~Carries(<<>>, n)
      BY DEF Carries
    <2>3. \A s \in Sessions : row[s] \in {"none", "active", "gone"}
      BY <1>2 DEF Quiet, HomeInv, HomeTypes
    <2>4. \A s \in Sessions : s \in Ids(sessions) <=> row[s] = "active"
      BY <2>1, <2>2, <2>3 DEF Agrees
    <2>5. Ids(sessions) \subseteq Sessions
      BY DEF HomeInv, HomeTypes, Ids, ToSet
    <2> QED
      BY <2>3, <2>4, <2>5 DEF Visible
  <1> QED
    BY <1>1, <1>2 DEF ListIsTrue

\* The list of an agent's sessions (useAgentDetail) has no session twice, and is the one the
\* API would give once nothing is on its way, unless the page missed an event, had one met
\* by its first list, or was told of a creation after the deletion: what it knows of a session
\* is what its row says or what the wire still carries, and a deletion never passes a creation.
THEOREM HomeListIsTrue == HomeSpec => []ListIsTrue
  BY HomeStart, HomeStep, HomeTells, PTL DEF HomeSpec
=============================================================================

---------------------------- MODULE SessionProofs ---------------------------
(***************************************************************************)
(* Proofs about a turn below the API. RuntimeSession: the invariants of    *)
(* the runtime's registry hold for any number of requests, sessions and    *)
(* agents, and each entry's mutex is a TurnLock. SupervisorStream, for any *)
(* finite set of streams and any number of chunks and aborts: what         *)
(* drive_stream returns holds all that a client was shown, and no stream   *)
(* that is over is left "streaming".                                       *)
(***************************************************************************)
EXTENDS RuntimeSession, SupervisorStream, SequenceTheorems, FiniteSetTheorems, TLAPS

---------------------------------------------------------------------------
(* PART 1.  The runtime: RuntimeSession.                                   *)

Accepted(r) == pc[r] # "new"

\* An accepted request has a key and an entry; the entry was made by an
\* accepted request, and all requests of an entry have one key.
EntryInv ==
  /\ \A r \in Requests : Accepted(r) =>
       key[r] \in Keys /\ entry[r] \in Requests /\ Accepted(entry[r])
  /\ \A r, s \in Requests :
       Accepted(r) /\ Accepted(s) /\ entry[r] = entry[s] => key[r] = key[s]

\* A mutex is taken exactly when a running turn holds it, and only one does.
HolderInv ==
  /\ \A r \in Requests : pc[r] = "running" => entry[r] \in locked
  /\ \A e \in Requests : e \in locked => \E r \in Requests : pc[r] = "running" /\ entry[r] = e
  /\ EntryExclusive

\* The queue of a mutex holds the requests that wait for it, each once, and
\* is empty while the mutex is free.
QueueInv ==
  /\ \A e \in Requests : \A i \in 1 .. Len(queue[e]) :
       pc[queue[e][i]] = "queued" /\ entry[queue[e][i]] = e
  /\ \A e \in Requests : \A i, j \in 1 .. Len(queue[e]) :
       queue[e][i] = queue[e][j] => i = j
  /\ \A r \in Requests : pc[r] = "queued" =>
       \E i \in 1 .. Len(queue[entry[r]]) : queue[entry[r]][i] = r
  /\ \A e \in Requests : queue[e] # <<>> => e \in locked

\* A registered entry is held, by a turn of that key that can be aborted or
\* has been.
RegistryInv ==
  \A k \in Keys : sessions[k] # Nobody =>
    /\ sessions[k] \in locked
    /\ \A r \in Requests : Accepted(r) /\ entry[r] = sessions[k] => key[r] = k
    /\ \A r \in Requests : pc[r] = "running" /\ entry[r] = sessions[k] =>
         controllers[k] = r \/ r \in signals

IInv == /\ TypeOK
        /\ EntryInv
        /\ HolderInv
        /\ QueueInv
        /\ RegistryInv
        /\ ControllerLive

---------------------------------------------------------------------------
\* Popping a queue keeps its elements in order.
LEMMA TailFacts ==
  ASSUME NEW S, NEW q \in Seq(S), q # <<>>
  PROVE  /\ Head(q) \in S /\ Head(q) = q[1]
         /\ Tail(q) \in Seq(S)
         /\ Len(q) \in Nat \ {0}
         /\ Len(Tail(q)) = Len(q) - 1
         /\ \A i \in 1 .. Len(Tail(q)) : Tail(q)[i] = q[i + 1]
  OBVIOUS

\* Pushing on a queue keeps what it holds.
LEMMA AppendFacts ==
  ASSUME NEW S, NEW q \in Seq(S), NEW x \in S
  PROVE  /\ Append(q, x) \in Seq(S)
         /\ Len(Append(q, x)) = Len(q) + 1
         /\ \A i \in 1 .. Len(q) : Append(q, x)[i] = q[i]
         /\ Append(q, x)[Len(q) + 1] = x
         /\ Append(q, x) # <<>>
         /\ Len(q) \in Nat
  OBVIOUS

LEMMA InitInv == Init => IInv
  <1> SUFFICES ASSUME Init PROVE IInv
    OBVIOUS
  <1> USE NobodyAssumption DEF Init, NoSessions, NoWaiters
  <1>1. TypeOK
    BY DEF TypeOK, PcValues
  <1>2. EntryInv /\ HolderInv
    BY DEF EntryInv, HolderInv, EntryExclusive, Accepted
  <1>3. QueueInv
    BY DEF QueueInv
  <1>4. RegistryInv /\ ControllerLive
    BY DEF RegistryInv, ControllerLive
  <1>5. QED
    BY <1>1, <1>2, <1>3, <1>4 DEF IInv

LEMMA AcceptInv ==
  ASSUME IInv, NEW r \in Requests, NEW k \in Keys, Accept(r, k)
  PROVE  IInv'
  <1> DEFINE e == EntryFor(r, k)
  <1> USE NobodyAssumption
  <1>0. TypeOK /\ EntryInv /\ HolderInv /\ QueueInv /\ RegistryInv /\ ControllerLive
    BY DEF IInv
  <1>1. e \in Requests /\ (e = r \/ (sessions[k] = e /\ e # Nobody))
    BY <1>0 DEF EntryFor, TypeOK
  <1>2. pc[r] = "new"
    BY DEF Accept
  <1>3. r \notin locked /\ queue[r] = <<>>
    BY <1>0, <1>2 DEF HolderInv, EntryInv, QueueInv, Accepted
  <1>4. sessions[k] = e => Accepted(e) /\ e \in locked
    BY <1>0, <1>1 DEF RegistryInv, HolderInv, EntryInv, Accepted, TypeOK
  <1>5. /\ sessions' = [sessions EXCEPT ![k] = e]
        /\ key' = [key EXCEPT ![r] = k]
        /\ entry' = [entry EXCEPT ![r] = e]
        /\ arrived' = Append(arrived, r)
        /\ dropped' = dropped \ {k}
        /\ UNCHANGED <<signals, closed, mode>>
    BY DEF Accept
  <1>6. \/ /\ e \notin locked
           /\ locked' = locked \cup {e}
           /\ controllers' = [controllers EXCEPT ![k] = r]
           /\ pc' = [pc EXCEPT ![r] = "running"]
           /\ workspace' = workspace \cup {k}
           /\ queue' = queue
        \/ /\ e \in locked
           /\ queue' = [queue EXCEPT ![e] = Append(@, r)]
           /\ pc' = [pc EXCEPT ![r] = "queued"]
           /\ workspace' = (IF e = r THEN workspace \cup {k} ELSE workspace)
           /\ locked' = locked
           /\ controllers' = controllers
    BY DEF Accept, Taken
  <1> HIDE DEF e
  <1>7. \A s \in Requests : s # r => pc'[s] = pc[s] /\ entry'[s] = entry[s] /\ key'[s] = key[s]
    BY <1>0, <1>5, <1>6 DEF TypeOK
  <1>8. pc'[r] # "new" /\ entry'[r] = e /\ key'[r] = k
    BY <1>0, <1>5, <1>6 DEF TypeOK
  <1>9. \A s \in Requests : s # r /\ Accepted(s) /\ entry[s] = e => key[s] = k
    BY <1>0, <1>1, <1>2 DEF EntryInv, RegistryInv, Accepted
  <1>10. EntryInv'
    BY <1>0, <1>1, <1>4, <1>7, <1>8, <1>9 DEF EntryInv, Accepted
  <1>11. /\ sessions' \in [Keys -> Requests \cup {Nobody}]
         /\ key' \in [Requests -> Keys \cup {Nobody}]
         /\ entry' \in [Requests -> Requests \cup {Nobody}]
         /\ arrived' \in Seq(Requests)
         /\ dropped' \in SUBSET Keys
    BY <1>0, <1>1, <1>5, AppendFacts DEF TypeOK
  <1>12. sessions'[k] = e /\ \A l \in Keys : l # k => sessions'[l] = sessions[l]
    BY <1>0, <1>5 DEF TypeOK
  <1>13. CASE e \notin locked
    <2>1. /\ locked' = locked \cup {e}
          /\ controllers' = [controllers EXCEPT ![k] = r]
          /\ pc' = [pc EXCEPT ![r] = "running"]
          /\ workspace' = workspace \cup {k}
          /\ queue' = queue
      BY <1>6, <1>13
    <2>2. e = r
      BY <1>1, <1>4, <1>13
    <2>3. pc'[r] = "running" /\ controllers'[k] = r
      BY <1>0, <2>1 DEF TypeOK
    <2>4. TypeOK'
      <3>1. controllers' \in [Keys -> Requests \cup {Nobody}] /\ pc' \in [Requests -> PcValues]
        BY <1>0, <2>1 DEF TypeOK, PcValues
      <3>2. locked' \in SUBSET Requests /\ workspace' \in SUBSET Keys
        BY <1>0, <1>1, <2>1 DEF TypeOK
      <3>3. QED
        BY <1>0, <1>5, <1>11, <2>1, <3>1, <3>2 DEF TypeOK
    <2>5. HolderInv'
      <3>1. \A s \in Requests : pc[s] = "running" => entry[s] # r
        BY <1>0, <1>3 DEF HolderInv
      <3>2. QED
        BY <1>0, <1>2, <1>7, <1>8, <2>1, <2>2, <2>3, <3>1 DEF HolderInv, EntryExclusive
    <2>6. QueueInv'
      <3>1. \A d \in Requests : \A i \in 1 .. Len(queue[d]) : queue[d][i] \in Requests \ {r}
        BY <1>0, <1>2 DEF QueueInv, TypeOK
      <3>2. QED
        BY <1>0, <1>7, <2>1, <2>3, <3>1 DEF QueueInv
    <2>7. RegistryInv'
      <3>1. \A s \in Requests : Accepted(s) => entry[s] # r
        BY <1>0, <1>2 DEF EntryInv, Accepted
      <3>2. \A l \in Keys : l # k => sessions'[l] # r
        BY <1>0, <1>3, <1>12 DEF RegistryInv, TypeOK
      <3>3. \A l \in Keys : l # k => controllers'[l] = controllers[l]
        BY <1>0, <2>1 DEF TypeOK
      <3>4. QED
        BY <1>0, <1>2, <1>5, <1>7, <1>8, <1>12, <2>1, <2>2, <2>3, <3>1, <3>2, <3>3
           DEF RegistryInv, Accepted
    <2>8. ControllerLive'
      BY <1>0, <1>2, <1>7, <1>8, <2>1, <2>3 DEF ControllerLive, TypeOK
    <2>9. QED
      BY <1>10, <2>4, <2>5, <2>6, <2>7, <2>8 DEF IInv
  <1>14. CASE e \in locked
    <2>1. /\ queue' = [queue EXCEPT ![e] = Append(@, r)]
          /\ pc' = [pc EXCEPT ![r] = "queued"]
          /\ workspace' = (IF e = r THEN workspace \cup {k} ELSE workspace)
          /\ locked' = locked
          /\ controllers' = controllers
      BY <1>6, <1>14
    <2>2. sessions[k] = e
      BY <1>1, <1>3, <1>14
    <2>3. pc'[r] = "queued"
      BY <1>0, <2>1 DEF TypeOK
    <2>4. \A d \in Requests : d # e => queue'[d] = queue[d]
      BY <1>0, <2>1 DEF TypeOK
    <2>5. queue'[e] = Append(queue[e], r) /\ queue[e] \in Seq(Requests)
      BY <1>0, <1>1, <2>1 DEF TypeOK
    <2>6. TypeOK'
      <3>1. pc' \in [Requests -> PcValues] /\ workspace' \in SUBSET Keys
        BY <1>0, <2>1 DEF TypeOK, PcValues
      <3>2. queue' \in [Requests -> Seq(Requests)]
        BY <1>0, <2>1, AppendFacts DEF TypeOK
      <3>3. QED
        BY <1>0, <1>5, <1>11, <2>1, <3>1, <3>2 DEF TypeOK
    <2>7. HolderInv'
      BY <1>0, <1>2, <1>7, <2>1, <2>3 DEF HolderInv, EntryExclusive
    <2>8. QueueInv'
      <3>1. \A d \in Requests : \A i \in 1 .. Len(queue[d]) : queue[d][i] \in Requests \ {r}
        BY <1>0, <1>2 DEF QueueInv, TypeOK
      <3>2. /\ Len(queue[e]) \in Nat
            /\ Len(queue'[e]) = Len(queue[e]) + 1
            /\ \A i \in 1 .. Len(queue[e]) : queue'[e][i] = queue[e][i]
            /\ queue'[e][Len(queue[e]) + 1] = r
        BY <2>5, AppendFacts
      <3>3. \A d \in Requests : \A i \in 1 .. Len(queue'[d]) :
              pc'[queue'[d][i]] = "queued" /\ entry'[queue'[d][i]] = d
        <4>1. \A d \in Requests : d # e => \A i \in 1 .. Len(queue'[d]) :
                pc'[queue'[d][i]] = "queued" /\ entry'[queue'[d][i]] = d
          BY <1>0, <1>7, <2>4, <3>1 DEF QueueInv
        <4>2. \A i \in 1 .. Len(queue[e]) :
                pc'[queue'[e][i]] = "queued" /\ entry'[queue'[e][i]] = e
          BY <1>0, <1>1, <1>7, <3>1, <3>2 DEF QueueInv
        <4>3. \A i \in 1 .. Len(queue'[e]) : i \in 1 .. Len(queue[e]) \/ i = Len(queue[e]) + 1
          BY <3>2
        <4>4. QED
          BY <1>8, <2>3, <3>2, <4>1, <4>2, <4>3
      <3>4. \A d \in Requests : \A i, j \in 1 .. Len(queue'[d]) :
              queue'[d][i] = queue'[d][j] => i = j
        <4>1. \A i \in 1 .. Len(queue'[e]) : i \in 1 .. Len(queue[e]) \/ i = Len(queue[e]) + 1
          BY <3>2
        <4>2. \A i \in 1 .. Len(queue[e]) : queue'[e][i] # r
          BY <1>1, <3>1, <3>2
        <4>3. QED
          BY <1>0, <1>1, <2>4, <3>2, <4>1, <4>2 DEF QueueInv
      <3>5. \A s \in Requests : pc'[s] = "queued" =>
              \E i \in 1 .. Len(queue'[entry'[s]]) : queue'[entry'[s]][i] = s
        <4>1. Len(queue[e]) + 1 \in 1 .. Len(queue'[e])
          BY <3>2
        <4>2. \A i \in 1 .. Len(queue[e]) : i \in 1 .. Len(queue'[e])
          BY <3>2
        <4>3. \A s \in Requests : s # r /\ pc[s] = "queued" => entry[s] \in Requests
          BY <1>0 DEF EntryInv, Accepted
        <4>4. QED
          BY <1>0, <1>1, <1>7, <1>8, <2>4, <3>2, <4>1, <4>2, <4>3 DEF QueueInv
      <3>6. \A d \in Requests : queue'[d] # <<>> => d \in locked'
        BY <1>0, <1>14, <2>1, <2>4 DEF QueueInv
      <3>7. QED
        BY <3>3, <3>4, <3>5, <3>6 DEF QueueInv
    <2>9. RegistryInv'
      <3>1. \A l \in Keys : sessions'[l] = sessions[l]
        BY <1>12, <2>2
      <3>2. \A l \in Keys : sessions[l] = e => l = k
        <4>1. PICK h \in Requests : pc[h] = "running" /\ entry[h] = e
          BY <1>0, <1>1, <1>14 DEF HolderInv
        <4>2. \A l \in Keys : sessions[l] = e => key[h] = l
          BY <1>0, <1>1, <4>1 DEF RegistryInv, Accepted
        <4>3. QED
          BY <2>2, <4>2
      <3>3. \A s \in Requests : pc'[s] = "running" => s # r /\ pc[s] = "running"
        BY <1>7, <2>3
      <3>4. QED
        BY <1>0, <1>1, <1>5, <1>7, <1>8, <2>1, <3>1, <3>2, <3>3 DEF RegistryInv, Accepted
    <2>10. ControllerLive'
      BY <1>0, <1>2, <1>7, <2>1 DEF ControllerLive, TypeOK
    <2>11. QED
      BY <1>10, <2>6, <2>7, <2>8, <2>9, <2>10 DEF IInv
  <1>15. QED
    BY <1>13, <1>14

\* What the end of a turn does beside the mutex: r was the holder of its
\* entry, and its key's controller and registration are gone.
LEMMA FinishKey ==
  ASSUME IInv, NEW r \in Requests, pc[r] = "running"
  PROVE  /\ entry[r] \in Requests /\ key[r] \in Keys /\ entry[r] \in locked
         /\ \A k \in Keys : sessions[k] = entry[r] => k = key[r]
         /\ \A k \in Keys : controllers[k] = r => k = key[r]
         /\ \A s \in Requests : Accepted(s) /\ entry[s] = entry[r] => key[s] = key[r]
         /\ \A s \in Requests : pc[s] = "running" /\ s # r => entry[s] # entry[r]
         /\ queue[entry[r]] \in Seq(Requests)
  <1> USE NobodyAssumption
  <1>1. entry[r] \in Requests /\ key[r] \in Keys /\ entry[r] \in locked
    BY DEF IInv, EntryInv, HolderInv, Accepted
  <1>2. \A k \in Keys : sessions[k] = entry[r] => k = key[r]
    BY <1>1 DEF IInv, RegistryInv, Accepted
  <1>3. \A k \in Keys : controllers[k] = r => k = key[r]
    BY DEF IInv, ControllerLive
  <1>4. \A s \in Requests : Accepted(s) /\ entry[s] = entry[r] => key[s] = key[r]
    BY DEF IInv, EntryInv, Accepted
  <1>5. \A s \in Requests : pc[s] = "running" /\ s # r => entry[s] # entry[r]
    BY DEF IInv, HolderInv, EntryExclusive
  <1>6. queue[entry[r]] \in Seq(Requests)
    BY <1>1 DEF IInv, TypeOK
  <1>7. QED
    BY <1>1, <1>2, <1>3, <1>4, <1>5, <1>6

LEMMA FinishLastInv ==
  ASSUME IInv, NEW r \in Requests, FinishLast(r)
  PROVE  IInv'
  <1> USE NobodyAssumption
  <1>0. TypeOK /\ EntryInv /\ HolderInv /\ QueueInv /\ RegistryInv /\ ControllerLive
    BY DEF IInv
  <1>1. /\ pc[r] = "running" /\ queue[entry[r]] = <<>>
        /\ pc' = [pc EXCEPT ![r] = "done"]
        /\ locked' = locked \ {entry[r]}
        /\ controllers' = [controllers EXCEPT ![key[r]] = Nobody]
        /\ sessions' = [sessions EXCEPT ![key[r]] = Nobody]
        /\ UNCHANGED <<queue, key, entry, signals, closed, workspace, dropped, arrived, mode>>
    BY DEF FinishLast, HasWaiter, DropController, RemoveEntry
  <1>2. /\ entry[r] \in Requests /\ key[r] \in Keys /\ entry[r] \in locked
        /\ \A k \in Keys : sessions[k] = entry[r] => k = key[r]
        /\ \A k \in Keys : controllers[k] = r => k = key[r]
        /\ \A s \in Requests : pc[s] = "running" /\ s # r => entry[s] # entry[r]
    BY <1>1, FinishKey
  <1>3. /\ pc'[r] = "done"
        /\ \A s \in Requests : s # r => pc'[s] = pc[s]
    BY <1>0, <1>1 DEF TypeOK
  <1>4. TypeOK'
    BY <1>0, <1>1, <1>2 DEF TypeOK, PcValues
  <1>5. EntryInv'
    BY <1>0, <1>1, <1>3 DEF EntryInv, Accepted
  <1>6. HolderInv'
    BY <1>0, <1>1, <1>2, <1>3 DEF HolderInv, EntryExclusive
  <1>7. QueueInv'
    <2>1. \A d \in Requests : \A i \in 1 .. Len(queue[d]) : queue[d][i] \in Requests \ {r}
      BY <1>0, <1>1 DEF QueueInv, TypeOK
    <2>2. QED
      BY <1>0, <1>1, <1>3, <2>1 DEF QueueInv
  <1>8. /\ \A k \in Keys : k # key[r] => sessions'[k] = sessions[k] /\ controllers'[k] = controllers[k]
        /\ sessions'[key[r]] = Nobody /\ controllers'[key[r]] = Nobody
    BY <1>0, <1>1, <1>2 DEF TypeOK
  <1>9. RegistryInv'
    BY <1>0, <1>1, <1>2, <1>3, <1>8 DEF RegistryInv, Accepted
  <1>10. ControllerLive'
    BY <1>0, <1>1, <1>2, <1>3, <1>8 DEF ControllerLive, TypeOK
  <1>11. QED
    BY <1>4, <1>5, <1>6, <1>7, <1>9, <1>10 DEF IInv

LEMMA FinishHandOverInv ==
  ASSUME IInv, NEW r \in Requests, FinishHandOver(r)
  PROVE  IInv'
  <1> DEFINE e == entry[r]
             n == Head(queue[e])
  <1> USE NobodyAssumption
  <1>0. TypeOK /\ EntryInv /\ HolderInv /\ QueueInv /\ RegistryInv /\ ControllerLive
    BY DEF IInv
  <1>1. /\ pc[r] = "running" /\ queue[e] # <<>>
        /\ pc' = [pc EXCEPT ![r] = "done", ![n] = "running"]
        /\ queue' = [queue EXCEPT ![e] = Tail(queue[e])]
        /\ controllers' = [[controllers EXCEPT ![key[r]] = Nobody] EXCEPT ![key[n]] = n]
        /\ sessions' = [sessions EXCEPT ![key[r]] = Nobody]
        /\ workspace' = workspace \cup {key[n]}
        /\ UNCHANGED <<locked, key, entry, signals, closed, dropped, arrived, mode>>
    BY DEF FinishHandOver, HasWaiter, NextWaiter, WaitersLeft, DropController, RemoveEntry
  <1>2. /\ e \in Requests /\ key[r] \in Keys /\ e \in locked
        /\ \A k \in Keys : sessions[k] = e => k = key[r]
        /\ \A k \in Keys : controllers[k] = r => k = key[r]
        /\ \A s \in Requests : Accepted(s) /\ entry[s] = e => key[s] = key[r]
        /\ \A s \in Requests : pc[s] = "running" /\ s # r => entry[s] # e
        /\ queue[e] \in Seq(Requests)
    BY <1>1, FinishKey
  <1>3. /\ n \in Requests /\ n = queue[e][1]
        /\ Tail(queue[e]) \in Seq(Requests)
        /\ Len(queue[e]) \in Nat \ {0}
        /\ Len(Tail(queue[e])) = Len(queue[e]) - 1
        /\ \A i \in 1 .. Len(Tail(queue[e])) : Tail(queue[e])[i] = queue[e][i + 1]
    BY <1>1, <1>2, TailFacts
  <1>4. pc[n] = "queued" /\ entry[n] = e /\ n # r /\ key[n] = key[r]
    <2>1. 1 \in 1 .. Len(queue[e])
      BY <1>3
    <2>2. pc[n] = "queued" /\ entry[n] = e
      BY <1>0, <1>2, <1>3, <2>1 DEF QueueInv
    <2>3. QED
      BY <1>1, <1>2, <1>3, <2>2 DEF Accepted
  <1>5. /\ pc'[r] = "done" /\ pc'[n] = "running"
        /\ \A s \in Requests : s # r /\ s # n => pc'[s] = pc[s]
    BY <1>0, <1>1, <1>3, <1>4 DEF TypeOK
  <1>15. key' = key /\ entry' = entry /\ locked' = locked /\ signals' = signals
    BY <1>1
  <1>16. \A s \in Requests :
           /\ pc'[s] = "new" <=> pc[s] = "new"
           /\ pc'[s] = "running" <=> s = n \/ (s # r /\ pc[s] = "running")
           /\ pc'[s] = "queued" <=> s # n /\ pc[s] = "queued"
    BY <1>1, <1>3, <1>4, <1>5
  <1>17. e = entry[r]
    OBVIOUS
  <1> HIDE DEF e, n
  <1>6. /\ \A d \in Requests : d # e => queue'[d] = queue[d]
        /\ queue'[e] = Tail(queue[e])
    BY <1>0, <1>1, <1>2 DEF TypeOK
  <1>7. /\ \A k \in Keys : k # key[r] => sessions'[k] = sessions[k] /\ controllers'[k] = controllers[k]
        /\ sessions'[key[r]] = Nobody /\ controllers'[key[r]] = n
    BY <1>0, <1>1, <1>2, <1>4 DEF TypeOK
  <1>8. TypeOK'
    <2>1. queue' \in [Requests -> Seq(Requests)] /\ pc' \in [Requests -> PcValues]
      BY <1>0, <1>1, <1>2, <1>3 DEF TypeOK, PcValues
    <2>2. /\ sessions' \in [Keys -> Requests \cup {Nobody}]
          /\ controllers' \in [Keys -> Requests \cup {Nobody}]
          /\ workspace' \in SUBSET Keys
      BY <1>0, <1>1, <1>2, <1>3, <1>4 DEF TypeOK
    <2>3. QED
      BY <1>0, <1>1, <2>1, <2>2 DEF TypeOK
  <1>9. EntryInv'
    BY <1>0, <1>15, <1>16 DEF EntryInv, Accepted
  <1>10. HolderInv'
    <2>2. \A d \in Requests : d \in locked =>
             \E s \in Requests : pc'[s] = "running" /\ entry[s] = d
      <3>1. SUFFICES ASSUME NEW d \in locked, d \in Requests, d # e
                     PROVE  \E s \in Requests : pc'[s] = "running" /\ entry[s] = d
        BY <1>3, <1>4, <1>5
      <3>2. PICK s \in Requests : pc[s] = "running" /\ entry[s] = d
        BY <1>0, <3>1 DEF HolderInv
      <3>3. s # r
        BY <1>17, <3>1, <3>2
      <3>4. QED
        BY <1>16, <3>2, <3>3
    <2>3. \A s \in Requests : pc'[s] = "running" => entry[s] \in locked
      BY <1>0, <1>2, <1>4, <1>16 DEF HolderInv
    <2>4. \A s, t \in Requests :
            pc'[s] = "running" /\ pc'[t] = "running" /\ entry[s] = entry[t] => s = t
      BY <1>0, <1>2, <1>4, <1>16 DEF HolderInv, EntryExclusive
    <2>5. QED
      BY <1>15, <2>2, <2>3, <2>4 DEF HolderInv, EntryExclusive
  <1>11. QueueInv'
    <2>1. \A d \in Requests : \A i \in 1 .. Len(queue[d]) :
            queue[d][i] \in Requests /\ queue[d][i] # r /\ (queue[d][i] = n => d = e /\ i = 1)
      <3>1. 1 \in 1 .. Len(queue[e])
        BY <1>3
      <3>2. QED
        BY <1>0, <1>1, <1>2, <1>3, <1>4, <3>1 DEF QueueInv, TypeOK
    <2>2. \A i \in 1 .. Len(queue'[e]) :
             i \in Nat /\ i + 1 \in 2 .. Len(queue[e]) /\ queue'[e][i] = queue[e][i + 1]
      BY <1>3, <1>6
    <2>3. \A i \in 1 .. Len(queue[e]) : i # 1 =>
             i - 1 \in 1 .. Len(queue'[e]) /\ queue'[e][i - 1] = queue[e][i]
      BY <1>3, <1>6
    <2>4. \A d \in Requests : \A i \in 1 .. Len(queue'[d]) :
            pc'[queue'[d][i]] = "queued" /\ entry'[queue'[d][i]] = d
      <3>1. \A d \in Requests : d # e => \A i \in 1 .. Len(queue'[d]) :
              pc'[queue'[d][i]] = "queued" /\ entry'[queue'[d][i]] = d
        BY <1>0, <1>6, <1>15, <1>16, <2>1 DEF QueueInv
      <3>2. \A i \in 2 .. Len(queue[e]) : i \in 1 .. Len(queue[e]) /\ i # 1
        BY <1>3
      <3>3. \A i \in 1 .. Len(queue'[e]) :
              pc'[queue'[e][i]] = "queued" /\ entry'[queue'[e][i]] = e
        <4>1. \A j \in 2 .. Len(queue[e]) : pc'[queue[e][j]] = "queued" /\ entry[queue[e][j]] = e
          BY <1>0, <1>2, <1>16, <2>1, <3>2 DEF QueueInv
        <4>2. QED
          BY <1>15, <2>2, <4>1
      <3>4. QED
        BY <3>1, <3>3
    <2>5. \A d \in Requests : \A i, j \in 1 .. Len(queue'[d]) :
            queue'[d][i] = queue'[d][j] => i = j
      <3>1. \A i, j \in 1 .. Len(queue'[e]) : queue'[e][i] = queue'[e][j] => i + 1 = j + 1
        <4>1. \A i \in 2 .. Len(queue[e]) : i \in 1 .. Len(queue[e])
          BY <1>3
        <4>2. QED
          BY <1>0, <1>2, <2>2, <4>1 DEF QueueInv
      <3>2. \A i, j \in 1 .. Len(queue'[e]) : queue'[e][i] = queue'[e][j] => i = j
        BY <2>2, <3>1
      <3>3. QED
        BY <1>0, <1>6, <3>2 DEF QueueInv
    <2>6. \A s \in Requests : pc'[s] = "queued" =>
            \E i \in 1 .. Len(queue'[entry'[s]]) : queue'[entry'[s]][i] = s
      <3>1. SUFFICES ASSUME NEW s \in Requests, pc'[s] = "queued"
                     PROVE  \E i \in 1 .. Len(queue'[entry[s]]) : queue'[entry[s]][i] = s
        BY <1>1
      <3>2. pc[s] = "queued" /\ s # n /\ s # r /\ entry[s] \in Requests
        BY <1>0, <1>5, <3>1 DEF EntryInv, Accepted
      <3>3. PICK i \in 1 .. Len(queue[entry[s]]) : queue[entry[s]][i] = s
        BY <1>0, <3>2 DEF QueueInv
      <3>4. CASE entry[s] = e
        BY <1>3, <2>3, <3>2, <3>3, <3>4
      <3>5. CASE entry[s] # e
        BY <1>6, <3>2, <3>3, <3>5
      <3>6. QED
        BY <3>4, <3>5
    <2>7. \A d \in Requests : queue'[d] # <<>> => d \in locked'
      BY <1>0, <1>1, <1>2, <1>6 DEF QueueInv
    <2>8. QED
      BY <2>4, <2>5, <2>6, <2>7 DEF QueueInv
  <1>12. RegistryInv'
    <2>1. \A k \in Keys : sessions'[k] # Nobody => k # key[r] /\ sessions[k] # e
      BY <1>2, <1>7
    <2>2. QED
      BY <1>0, <1>4, <1>7, <1>15, <1>16, <2>1 DEF RegistryInv, Accepted
  <1>13. ControllerLive'
    BY <1>0, <1>1, <1>2, <1>3, <1>4, <1>5, <1>7 DEF ControllerLive, TypeOK
  <1>14. QED
    BY <1>8, <1>9, <1>10, <1>11, <1>12, <1>13 DEF IInv

LEMMA DisconnectInv ==
  ASSUME IInv, NEW r \in Requests, Disconnect(r)
  PROVE  IInv'
  <1>1. /\ UNCHANGED <<sessions, locked, queue, controllers, pc, key, entry, workspace,
                       dropped, arrived, mode>>
        /\ closed' = closed \cup {r}
        /\ signals' = signals \/ signals' = signals \cup {r}
    BY DEF Disconnect, process
  <1>2. TypeOK'
    BY <1>1 DEF IInv, TypeOK
  <1>3. EntryInv' /\ HolderInv' /\ QueueInv' /\ ControllerLive'
    BY <1>1 DEF IInv, EntryInv, HolderInv, EntryExclusive, QueueInv, ControllerLive, Accepted
  <1>4. RegistryInv'
    BY <1>1 DEF IInv, RegistryInv, Accepted
  <1>5. QED
    BY <1>2, <1>3, <1>4 DEF IInv

LEMMA AbortInv ==
  ASSUME IInv, NEW ks \in SUBSET Keys, AbortKeys(ks)
  PROVE  IInv'
  <1> DEFINE hit == {controllers[k] : k \in ks} \ {Nobody}
  <1> USE NobodyAssumption
  <1>1. /\ UNCHANGED <<sessions, locked, queue, pc, key, entry, closed, workspace, dropped,
                       arrived, mode>>
        /\ signals' = signals \cup hit
        /\ controllers' = [k \in Keys |-> IF k \in ks THEN Nobody ELSE controllers[k]]
    BY DEF AbortKeys
  <1>2. TypeOK'
    <2>1. hit \subseteq Requests
      BY DEF IInv, TypeOK
    <2>2. controllers' \in [Keys -> Requests \cup {Nobody}]
      BY <1>1 DEF IInv, TypeOK
    <2>3. QED
      BY <1>1, <2>1, <2>2 DEF IInv, TypeOK
  <1>3. EntryInv' /\ HolderInv' /\ QueueInv'
    BY <1>1 DEF IInv, EntryInv, HolderInv, EntryExclusive, QueueInv, Accepted
  <1>4. ControllerLive'
    BY <1>1 DEF IInv, ControllerLive
  <1>5. RegistryInv'
    <2>1. \A k \in Keys : \A r \in Requests : controllers[k] = r =>
            controllers'[k] = r \/ r \in signals'
      BY <1>1
    <2>2. QED
      BY <1>1, <2>1 DEF IInv, RegistryInv, Accepted
  <1>6. QED
    BY <1>2, <1>3, <1>4, <1>5 DEF IInv

LEMMA DeleteInv ==
  ASSUME IInv, NEW k \in Keys, Delete(k)
  PROVE  IInv'
  <1>1. /\ UNCHANGED <<locked, queue, controllers, pc, key, entry, signals, closed, arrived, mode>>
        /\ dropped' = dropped \cup {k}
        /\ sessions' = [sessions EXCEPT ![k] = Nobody]
        /\ workspace' = workspace \/ workspace' = workspace \ {k}
    BY DEF Delete, request
  <1>2. TypeOK'
    BY <1>1 DEF IInv, TypeOK
  <1>3. EntryInv' /\ HolderInv' /\ QueueInv' /\ ControllerLive'
    BY <1>1 DEF IInv, EntryInv, HolderInv, EntryExclusive, QueueInv, ControllerLive, Accepted
  <1>4. RegistryInv'
    BY <1>1 DEF IInv, TypeOK, RegistryInv, Accepted
  <1>5. QED
    BY <1>2, <1>3, <1>4 DEF IInv

LEMMA DownInv ==
  ASSUME IInv, Down
  PROVE  IInv'
  <1> USE NobodyAssumption DEF NoSessions, NoWaiters
  <1>1. /\ sessions' = NoSessions /\ controllers' = NoSessions
        /\ locked' = {} /\ queue' = NoWaiters /\ mode' = "down"
        /\ UNCHANGED <<key, entry, signals, closed, workspace, dropped, arrived>>
    BY DEF Down
  <1>2. /\ pc' \in [Requests -> PcValues]
        /\ \A r \in Requests : /\ pc'[r] = "new" <=> pc[r] = "new"
                               /\ pc'[r] \notin {"queued", "running"}
    BY DEF Down, IInv, TypeOK, PcValues
  <1>3. TypeOK'
    BY <1>1, <1>2 DEF IInv, TypeOK
  <1>4. EntryInv'
    BY <1>1, <1>2 DEF IInv, EntryInv, Accepted
  <1>5. HolderInv' /\ QueueInv' /\ RegistryInv' /\ ControllerLive'
    BY <1>1, <1>2 DEF HolderInv, EntryExclusive, QueueInv, RegistryInv, ControllerLive
  <1>6. QED
    BY <1>3, <1>4, <1>5 DEF IInv

\* A step that changes at most the mode of the process.
LEMMA ModeInv ==
  ASSUME IInv, mode' \in {"serving", "draining", "down"},
         UNCHANGED <<process, request, workspace, dropped, arrived>>
  PROVE  IInv'
  <1>1. UNCHANGED <<sessions, locked, queue, controllers, pc, key, entry, signals, closed,
                    workspace, dropped, arrived>>
    BY DEF process, request
  <1>2. TypeOK'
    BY <1>1 DEF IInv, TypeOK
  <1>3. EntryInv' /\ HolderInv' /\ QueueInv' /\ RegistryInv' /\ ControllerLive'
    BY <1>1 DEF IInv, EntryInv, HolderInv, EntryExclusive, QueueInv, RegistryInv,
                ControllerLive, Accepted
  <1>4. QED
    BY <1>2, <1>3 DEF IInv

LEMMA NextInv == IInv /\ [Next]_vars => IInv'
  <1> SUFFICES ASSUME IInv, [Next]_vars PROVE IInv'
    OBVIOUS
  <1>1. ASSUME NEW r \in Requests, NEW k \in Keys, Accept(r, k) PROVE IInv'
    BY <1>1, AcceptInv
  <1>2. ASSUME NEW r \in Requests, FinishLast(r) PROVE IInv'
    BY <1>2, FinishLastInv
  <1>3. ASSUME NEW r \in Requests, FinishHandOver(r) PROVE IInv'
    BY <1>3, FinishHandOverInv
  <1>4. ASSUME NEW r \in Requests, Disconnect(r) PROVE IInv'
    BY <1>4, DisconnectInv
  <1>5. ASSUME NEW k \in Keys, Abort(k) PROVE IInv'
    BY <1>5, AbortInv DEF Abort
  <1>6. ASSUME NEW s \in Sessions, AbortSession(s) PROVE IInv'
    <2>1. {s} \X Agents \in SUBSET Keys
      BY DEF Keys
    <2>2. QED
      BY <1>6, <2>1, AbortInv DEF AbortSession
  <1>7. ASSUME NEW k \in Keys, Delete(k) PROVE IInv'
    BY <1>7, DeleteInv
  <1>8. CASE Signal
    BY <1>8, ModeInv DEF Signal
  <1>9. CASE ExitDrained \/ Die
    BY <1>9, DownInv DEF ExitDrained, Die
  <1>10. CASE Restart
    BY <1>10, ModeInv DEF Restart
  <1>11. CASE UNCHANGED vars
    BY <1>11, ModeInv DEF vars, IInv, TypeOK
  <1>12. QED
    BY <1>1, <1>2, <1>3, <1>4, <1>5, <1>6, <1>7, <1>8, <1>9, <1>10, <1>11 DEF Next

---------------------------------------------------------------------------
\* The strengthened invariant holds in every reachable state.
THEOREM Invariance == Spec => []IInv
  BY InitInv, NextInv, PTL DEF Spec

(* Type correctness of the registry, for any requests, sessions, agents.   *)
THEOREM TypeCorrect == Spec => []TypeOK
  <1>1. IInv => TypeOK
    BY DEF IInv
  <1>2. QED
    BY <1>1, Invariance, PTL

(* createMutex lets one turn per entry run (session-manager.ts:31-54).     *)
THEOREM MutexExclusive == Spec => []EntryExclusive
  <1>1. IInv => EntryExclusive
    BY DEF IInv, HolderInv
  <1>2. QED
    BY <1>1, Invariance, PTL

(* No request is left behind in a queue that nobody will release.          *)
THEOREM MutexWakesWaiters == Spec => []NoLostWaiter
  <1>1. ASSUME IInv PROVE NoLostWaiter
    <2>1. SUFFICES ASSUME NEW r \in Requests, pc[r] = "queued"
                   PROVE  /\ \E i \in 1 .. Len(queue[entry[r]]) : queue[entry[r]][i] = r
                          /\ \E s \in Requests : pc[s] = "running" /\ entry[s] = entry[r]
      BY DEF NoLostWaiter
    <2>2. PICK i \in 1 .. Len(queue[entry[r]]) : queue[entry[r]][i] = r
      BY <1>1, <2>1 DEF IInv, QueueInv
    <2>3. entry[r] \in Requests /\ queue[entry[r]] \in Seq(Requests)
      BY <1>1, <2>1 DEF IInv, EntryInv, Accepted, TypeOK
    <2>4. queue[entry[r]] # <<>>
      BY <2>2, <2>3
    <2>5. \E s \in Requests : pc[s] = "running" /\ entry[s] = entry[r]
      BY <1>1, <2>3, <2>4 DEF IInv, QueueInv, HolderInv
    <2>6. QED
      BY <2>2, <2>5
  <1>2. QED
    BY <1>1, Invariance, PTL

(* POST /abort only ever finds turns in flight.                            *)
THEOREM AbortFindsLiveTurns == Spec => []ControllerLive
  <1>1. IInv => ControllerLive
    BY DEF IInv
  <1>2. QED
    BY <1>1, Invariance, PTL

(* A registered session has a turn in flight that can be, or was, aborted. *)
THEOREM RegisteredTurnsAbortable == Spec => []RegisteredIsAbortable
  <1>1. ASSUME IInv PROVE RegisteredIsAbortable
    <2>1. SUFFICES ASSUME NEW k \in Keys, sessions[k] # Nobody
                   PROVE  \E r \in Requests : /\ pc[r] = "running"
                                              /\ entry[r] = sessions[k]
                                              /\ key[r] = k
                                              /\ controllers[k] = r \/ r \in signals
      BY DEF RegisteredIsAbortable
    <2>2. sessions[k] \in Requests /\ sessions[k] \in locked
      BY <1>1, <2>1 DEF IInv, TypeOK, RegistryInv
    <2>3. PICK r \in Requests : pc[r] = "running" /\ entry[r] = sessions[k]
      BY <1>1, <2>2 DEF IInv, HolderInv
    <2>4. QED
      BY <1>1, <2>1, <2>3 DEF IInv, RegistryInv, Accepted
  <1>2. QED
    BY <1>1, Invariance, PTL

---------------------------------------------------------------------------
\* A queue stands in the order of arrival, and only accepted requests have arrived.
OrderInv ==
  /\ \A i \in 1 .. Len(arrived) : Accepted(arrived[i])
  /\ \A e \in Requests : \A i, j \in 1 .. Len(queue[e]) :
       i < j => ~Before(queue[e][j], queue[e][i])

LEMMA AcceptOrder ==
  ASSUME IInv, OrderInv, NEW r \in Requests, NEW k \in Keys, Accept(r, k)
  PROVE  OrderInv'
  <1> DEFINE e == EntryFor(r, k)
  <1>0. TypeOK /\ QueueInv
    BY DEF IInv
  <1>1. e \in Requests
    BY <1>0 DEF EntryFor, TypeOK
  <1>2. /\ pc[r] = "new" /\ arrived' = Append(arrived, r) /\ pc' \in [Requests -> PcValues]
        /\ \A s \in Requests : s # r => pc'[s] = pc[s]
        /\ pc'[r] # "new"
        /\ queue' = queue \/ queue' = [queue EXCEPT ![e] = Append(@, r)]
    BY <1>0, <1>1 DEF Accept, TypeOK, PcValues
  <1>3. /\ Len(arrived) \in Nat /\ Len(arrived') = Len(arrived) + 1 /\ arrived'[Len(arrived) + 1] = r
        /\ \A i \in 1 .. Len(arrived) : arrived'[i] = arrived[i] /\ arrived[i] \in Requests
    BY <1>0, <1>2, AppendFacts DEF TypeOK
  <1>4. \A i \in 1 .. Len(arrived) : arrived[i] # r
    BY <1>2 DEF OrderInv, Accepted
  <1>5. \A i \in 1 .. Len(arrived') : (Accepted(arrived[i]) /\ i <= Len(arrived)) \/ i = Len(arrived) + 1
    BY <1>3 DEF OrderInv
  <1>6. \A i \in 1 .. Len(arrived') : pc'[arrived'[i]] # "new"
    BY <1>2, <1>3, <1>5 DEF Accepted
  \* r is the last to have arrived.
  <1>7. \A x, y \in Requests : Before(x, y)' => x # r /\ (y # r => Before(x, y))
    <2> SUFFICES ASSUME NEW x \in Requests, NEW y \in Requests,
                        NEW i \in 1 .. Len(arrived'), NEW j \in 1 .. Len(arrived'),
                        i < j, arrived'[i] = x, arrived'[j] = y
                 PROVE  x # r /\ (y # r => Before(x, y))
      BY DEF Before
    <2>1. i \in 1 .. Len(arrived)
      BY <1>3
    <2>2. j \in 1 .. Len(arrived) \/ y = r
      BY <1>3
    <2> QED
      BY <1>3, <1>4, <2>1, <2>2 DEF Before
  <1>8. ASSUME NEW f \in Requests, NEW i \in 1 .. Len(queue'[f]), NEW j \in 1 .. Len(queue'[f]), i < j,
               NEW x, NEW y, x = queue'[f][j], y = queue'[f][i]
        PROVE  ~Before(x, y)'
    <2>1. queue[f] \in Seq(Requests) /\ Len(queue[f]) \in Nat
      BY <1>0 DEF TypeOK
    <2>2. /\ i \in 1 .. Len(queue[f]) /\ queue'[f][i] = queue[f][i]
          /\ \/ j \in 1 .. Len(queue[f]) /\ queue'[f][j] = queue[f][j]
             \/ queue'[f][j] = r
      <3>1. CASE queue'[f] = queue[f]
        BY <1>8, <3>1
      <3>2. CASE queue'[f] = Append(queue[f], r)
        BY <1>8, <2>1, <3>2, AppendFacts
      <3> QED
        BY <1>0, <1>1, <1>2, <3>1, <3>2 DEF TypeOK
    <2>3. queue[f][i] \in Requests /\ queue[f][i] # r
      BY <1>0, <1>2, <2>1, <2>2 DEF QueueInv
    <2>4. CASE queue'[f][j] = r
      BY <1>2, <1>7, <1>8, <2>2, <2>3, <2>4
    <2>5. CASE j \in 1 .. Len(queue[f]) /\ queue'[f][j] = queue[f][j]
      <3>1. queue[f][j] \in Requests /\ ~Before(queue[f][j], queue[f][i])
        BY <1>8, <2>1, <2>2, <2>5 DEF OrderInv
      <3> QED
        BY <1>7, <1>8, <2>2, <2>3, <2>5, <3>1
    <2> QED
      BY <2>2, <2>4, <2>5
  <1> QED
    BY <1>6, <1>8 DEF OrderInv, Accepted, Before

\* A step that accepts no one leaves the order of arrival alone; a queue that has
\* lost its head, or is empty, is in order if it was.
LEMMA OrderKept ==
  ASSUME IInv, OrderInv, UNCHANGED arrived,
         \A r \in Requests : pc[r] # "new" => pc'[r] # "new",
         \A e \in Requests : queue'[e] \in {queue[e], Tail(queue[e]), <<>>},
         \A e \in Requests : queue[e] = <<>> => queue'[e] = <<>>
  PROVE  OrderInv'
  <1>0. TypeOK
    BY DEF IInv
  <1>1. \A i \in 1 .. Len(arrived') : Accepted(arrived[i])'
    BY <1>0 DEF OrderInv, Accepted, TypeOK
  <1>2. ASSUME NEW f \in Requests, NEW i \in 1 .. Len(queue'[f]), NEW j \in 1 .. Len(queue'[f]), i < j
        PROVE  ~Before(queue'[f][j], queue'[f][i])
    <2>1. queue[f] \in Seq(Requests) /\ Len(queue[f]) \in Nat
      BY <1>0 DEF TypeOK
    <2>2. CASE queue'[f] = queue[f]
      BY <1>2, <2>2 DEF OrderInv
    <2>3. CASE queue'[f] = Tail(queue[f]) /\ queue[f] # <<>>
      <3>1. /\ i + 1 \in 1 .. Len(queue[f]) /\ j + 1 \in 1 .. Len(queue[f]) /\ i + 1 < j + 1
            /\ queue'[f][i] = queue[f][i + 1] /\ queue'[f][j] = queue[f][j + 1]
        BY <1>2, <2>1, <2>3, TailFacts
      <3> QED
        BY <3>1 DEF OrderInv
    <2>4. queue'[f] # <<>>
      BY <1>2
    <2> QED
      BY <2>2, <2>3, <2>4
  <1>3. \A x, y : Before(x, y)' <=> Before(x, y)
    BY DEF Before
  <1> QED
    BY <1>1, <1>2, <1>3 DEF OrderInv

LEMMA OrderStep == IInv /\ OrderInv /\ [Next]_vars => OrderInv'
  <1> SUFFICES ASSUME IInv, OrderInv, [Next]_vars PROVE OrderInv'
    OBVIOUS
  <1>0. TypeOK /\ QueueInv /\ EntryInv
    BY DEF IInv
  <1>1. ASSUME NEW r \in Requests, NEW k \in Keys, Accept(r, k) PROVE OrderInv'
    BY <1>1, AcceptOrder
  <1>2. ASSUME NEW r \in Requests, FinishLast(r) PROVE OrderInv'
    BY <1>0, <1>2, OrderKept DEF FinishLast, TypeOK
  <1>3. ASSUME NEW r \in Requests, FinishHandOver(r) PROVE OrderInv'
    <2>1. /\ pc' = [pc EXCEPT ![r] = "done", ![Head(queue[entry[r]])] = "running"]
          /\ queue' = [queue EXCEPT ![entry[r]] = Tail(queue[entry[r]])]
          /\ queue[entry[r]] # <<>> /\ arrived' = arrived
      BY <1>3 DEF FinishHandOver, HasWaiter, NextWaiter, WaitersLeft
    <2>2. \A s \in Requests : pc[s] # "new" => pc'[s] # "new"
      BY <1>0, <2>1 DEF TypeOK
    <2>3. \A e \in Requests : queue'[e] = (IF e = entry[r] THEN Tail(queue[e]) ELSE queue[e])
      BY <1>0, <2>1 DEF TypeOK
    <2> QED
      BY <2>1, <2>2, <2>3, OrderKept
  <1>4. ASSUME Down PROVE OrderInv'
    BY <1>0, <1>4, OrderKept DEF Down, NoWaiters, TypeOK
  <1>5. ASSUME UNCHANGED <<pc, queue, arrived>> PROVE OrderInv'
    BY <1>0, <1>5, OrderKept DEF TypeOK
  <1> QED
    BY <1>1, <1>2, <1>3, <1>4, <1>5
    DEF Next, Disconnect, Abort, AbortSession, AbortKeys, Delete, Signal, ExitDrained, Die,
        Restart, process, request, vars

\* The waiter that a step starts was at the head of its queue.
LEMMA StartsAtHead ==
  ASSUME IInv, [Next]_vars, NEW s \in Requests, pc[s] = "queued", pc'[s] = "running"
  PROVE  \E r \in Requests : FinishHandOver(r) /\ s = Head(queue[entry[r]])
  <1>0. TypeOK
    BY DEF IInv
  <1>1. ASSUME NEW r \in Requests, NEW k \in Keys, Accept(r, k) PROVE FALSE
    BY <1>0, <1>1 DEF Accept, TypeOK
  <1>2. ASSUME NEW r \in Requests, FinishLast(r) PROVE FALSE
    BY <1>0, <1>2 DEF FinishLast, TypeOK
  <1>3. ASSUME NEW r \in Requests, FinishHandOver(r) PROVE s = Head(queue[entry[r]])
    BY <1>0, <1>3 DEF FinishHandOver, NextWaiter, TypeOK
  <1>4. ASSUME Down PROVE FALSE
    BY <1>0, <1>4 DEF Down, TypeOK
  <1>5. ASSUME UNCHANGED pc PROVE FALSE
    BY <1>5
  <1> QED
    BY <1>1, <1>2, <1>3, <1>4, <1>5
    DEF Next, Disconnect, Abort, AbortSession, AbortKeys, Delete, Signal, ExitDrained, Die,
        Restart, process, request, vars

(* createMutex hands a free mutex to the head of its queue, so requests    *)
(* given the same entry are started in the order POST /message took them.  *)
THEOREM QueueIsFair == Spec => FifoPerEntry
  <1>1. Init => OrderInv
    BY DEF Init, NoWaiters, OrderInv
  <1>2. ASSUME IInv, OrderInv, [Next]_vars, NEW r \in Requests, NEW s \in Requests,
               pc[s] = "queued", pc'[s] = "running", pc'[r] = "queued", entry[r] = entry[s]
        PROVE  ~Before(r, s)
    <2>0. TypeOK /\ QueueInv
      BY <1>2 DEF IInv
    <2>1. PICK t \in Requests : FinishHandOver(t) /\ s = Head(queue[entry[t]])
      BY <1>2, StartsAtHead
    <2>2. pc[r] = "queued" /\ r # s
      BY <1>2, <2>0, <2>1 DEF FinishHandOver, TypeOK
    <2>3. queue[entry[t]] # <<>> /\ pc[t] = "running"
      BY <2>1 DEF FinishHandOver, HasWaiter
    <2>4. entry[t] \in Requests /\ queue[entry[t]] \in Seq(Requests)
      BY <1>2, <2>0, <2>3 DEF IInv, EntryInv, Accepted, TypeOK
    <2>5. s = queue[entry[t]][1] /\ 1 \in 1 .. Len(queue[entry[t]])
      BY <2>1, <2>3, <2>4
    <2>6. entry[s] = entry[t]
      BY <2>0, <2>4, <2>5 DEF QueueInv
    <2>7. PICK i \in 1 .. Len(queue[entry[t]]) : queue[entry[t]][i] = r
      BY <1>2, <2>0, <2>2, <2>6 DEF QueueInv
    <2>8. 1 < i
      BY <2>2, <2>4, <2>5, <2>7
    <2> QED
      BY <1>2, <2>4, <2>5, <2>7, <2>8 DEF OrderInv
  <1>3. IInv /\ OrderInv /\ [Next]_vars =>
          [\A r, s \in Requests :
             pc[s] = "queued" /\ pc'[s] = "running" /\ pc'[r] = "queued" /\ entry[r] = entry[s]
               => ~Before(r, s)]_vars
    BY <1>2
  <1> QED
    BY <1>1, <1>3, OrderStep, Invariance, PTL DEF Spec, FifoPerEntry

---------------------------------------------------------------------------
\* A step of the runtime as a step of the lock: acceptance enters, the end of
\* a turn leaves or hands over, the loss of the process is Die.
LEMMA PhaseFacts ==
  /\ Phase("new") = "idle" /\ Phase("queued") = "waiting" /\ Phase("running") = "holding"
  /\ Phase("done") = "gone" /\ Phase("killed") = "gone"
  /\ \A p \in PcValues : /\ Phase(p) = "idle" <=> p = "new"
                         /\ Phase(p) = "waiting" <=> p = "queued"
                         /\ Phase(p) = "holding" <=> p = "running"
                         /\ Phase(p) = "gone" <=> p \in {"done", "killed"}
  BY DEF Phase, PcValues

LEMMA AcceptRefines ==
  ASSUME IInv, NEW r \in Requests, NEW k \in Keys, Accept(r, k)
  PROVE  \E e \in Requests : TL!Enter(r, e)
  <1> DEFINE e == EntryFor(r, k)
  <1>1. e \in Requests /\ pc[r] = "new" /\ entry' = [entry EXCEPT ![r] = e]
    BY NobodyAssumption DEF IInv, TypeOK, EntryFor, Accept
  <1>2. pc' = [pc EXCEPT ![r] = IF e \in locked THEN "queued" ELSE "running"]
    BY DEF Accept, Taken
  <1>3. pc \in [Requests -> PcValues] /\ entry \in [Requests -> Requests \cup {Nobody}]
    BY DEF IInv, TypeOK
  <1> HIDE DEF e
  <1>4. TL!Free(e) <=> e \notin locked
    <2>1. TL!Free(e) <=> \A s \in Requests : ~(pc[s] = "running" /\ entry[s] = e)
      BY <1>3, PhaseFacts DEF TL!Free
    <2>2. QED
      BY <1>1, <2>1 DEF IInv, HolderInv
  <1>5. \A s \in Requests : Phase(pc'[s]) =
          IF s = r THEN (IF e \in locked THEN "waiting" ELSE "holding") ELSE Phase(pc[s])
    BY <1>2, <1>3, PhaseFacts
  <1>6. Phase(pc[r]) = "idle"
    BY <1>1, PhaseFacts
  <1>7. TL!Enter(r, e)
    BY <1>1, <1>4, <1>5, <1>6 DEF TL!Enter
  <1>8. QED
    BY <1>1, <1>7

LEMMA FinishLastRefines ==
  ASSUME IInv, NEW r \in Requests, FinishLast(r)
  PROVE  TL!LeaveFree(r)
  <1>1. /\ pc[r] = "running" /\ queue[entry[r]] = <<>>
        /\ pc' = [pc EXCEPT ![r] = "done"] /\ entry' = entry
    BY DEF FinishLast, HasWaiter
  <1>2. pc \in [Requests -> PcValues]
    BY DEF IInv, TypeOK
  <1>3. \A s \in Requests : Phase(pc'[s]) = IF s = r THEN "gone" ELSE Phase(pc[s])
    BY <1>1, <1>2, PhaseFacts
  <1>4. TL!Waiting(entry[r]) = {}
    <2>1. ASSUME NEW s \in Requests, pc[s] = "queued", entry[s] = entry[r] PROVE FALSE
      <3>1. PICK i \in 1 .. Len(queue[entry[s]]) : queue[entry[s]][i] = s
        BY <2>1 DEF IInv, QueueInv
      <3>2. Len(queue[entry[s]]) = 0
        BY <1>1, <2>1
      <3>3. QED
        BY <3>1, <3>2
    <2>2. QED
      BY <1>2, <2>1, PhaseFacts DEF TL!Waiting
  <1>5. Phase(pc[r]) = "holding"
    BY <1>1, PhaseFacts
  <1>6. QED
    BY <1>1, <1>3, <1>4, <1>5 DEF TL!LeaveFree

LEMMA FinishHandOverRefines ==
  ASSUME IInv, NEW r \in Requests, FinishHandOver(r)
  PROVE  \E s \in Requests : TL!HandOver(r, s)
  <1> DEFINE n == Head(queue[entry[r]])
  <1>1. /\ pc[r] = "running" /\ queue[entry[r]] # <<>>
        /\ pc' = [pc EXCEPT ![r] = "done", ![n] = "running"] /\ entry' = entry
    BY DEF FinishHandOver, HasWaiter, NextWaiter
  <1>2. pc \in [Requests -> PcValues] /\ queue[entry[r]] \in Seq(Requests)
        /\ entry[r] \in Requests
    BY <1>1, FinishKey DEF IInv, TypeOK
  <1>3. n \in Requests /\ n = queue[entry[r]][1] /\ Len(queue[entry[r]]) \in Nat \ {0}
    BY <1>1, <1>2, TailFacts
  <1>4. pc[n] = "queued" /\ entry[n] = entry[r]
    <2>1. 1 \in 1 .. Len(queue[entry[r]])
      BY <1>3
    <2>2. QED
      BY <1>2, <1>3, <2>1 DEF IInv, QueueInv
  <1> HIDE DEF n
  <1>5. \A s \in Requests : Phase(pc'[s]) =
          IF s = n THEN "holding" ELSE IF s = r THEN "gone" ELSE Phase(pc[s])
    BY <1>1, <1>2, <1>3, <1>4, PhaseFacts
  <1>6. Phase(pc[r]) = "holding" /\ Phase(pc[n]) = "waiting" /\ n # r
    BY <1>1, <1>4, PhaseFacts
  <1>7. n \in TL!Waiting(entry[r])
    BY <1>3, <1>4, <1>6 DEF TL!Waiting
  <1>8. TL!HandOver(r, n)
    BY <1>1, <1>3, <1>5, <1>6, <1>7 DEF TL!HandOver
  <1>9. QED
    BY <1>3, <1>8

LEMMA DownRefines ==
  ASSUME IInv, Down
  PROVE  TL!Die
  <1>1. pc \in [Requests -> PcValues] /\ entry' = entry
    BY DEF IInv, TypeOK, Down
  <1>2. \A s \in Requests : pc'[s] = IF pc[s] \in {"queued", "running"} THEN "killed" ELSE pc[s]
    BY DEF Down
  <1>3. \A s \in Requests : Phase(pc'[s]) =
          IF Phase(pc[s]) \in {"waiting", "holding"} THEN "gone" ELSE Phase(pc[s])
    BY <1>1, <1>2, PhaseFacts
  <1>4. QED
    BY <1>1, <1>3 DEF TL!Die

LEMMA InitRefines == Init => TL!Init
  BY PhaseFacts DEF Init, TL!Init

LEMMA StepRefines == IInv /\ [Next]_vars => [TL!Next]_(TL!vars)
  <1> SUFFICES ASSUME IInv, [Next]_vars PROVE TL!Next \/ UNCHANGED TL!vars
    OBVIOUS
  <1>1. ASSUME NEW r \in Requests, NEW k \in Keys, Accept(r, k) PROVE TL!Next
    BY <1>1, AcceptRefines DEF TL!Next
  <1>2. ASSUME NEW r \in Requests, FinishLast(r) PROVE TL!Next
    BY <1>2, FinishLastRefines DEF TL!Next
  <1>3. ASSUME NEW r \in Requests, FinishHandOver(r) PROVE TL!Next
    BY <1>3, FinishHandOverRefines DEF TL!Next
  <1>4. CASE ExitDrained \/ Die
    BY <1>4, DownRefines DEF ExitDrained, Die, TL!Next
  <1>5. CASE UNCHANGED <<pc, entry>>
    BY <1>5 DEF TL!vars
  <1>6. CASE \/ \E r \in Requests : Disconnect(r)
             \/ \E k \in Keys : Abort(k) \/ Delete(k)
             \/ \E s \in Sessions : AbortSession(s)
             \/ Signal \/ Restart \/ UNCHANGED vars
    <2>1. UNCHANGED <<pc, entry>>
      BY <1>6 DEF Disconnect, Abort, AbortSession, AbortKeys, Delete, Signal, Restart, vars,
                  request
    <2>2. QED
      BY <1>5, <2>1
  <1>7. QED
    BY <1>1, <1>2, <1>3, <1>4, <1>6 DEF Next

(* createMutex, driven by /message through finishes, deletes, aborts and   *)
(* restarts, implements the abstract lock: exclusion and direct hand-over. *)
THEOREM MutexIsTurnLock == Spec => TurnLockSpec
  <1>1. Init => TL!Init
    BY InitRefines
  <1>2. IInv /\ [Next]_vars => [TL!Next]_(TL!vars)
    BY StepRefines
  <1>3. QED
    BY <1>1, <1>2, Invariance, PTL DEF Spec, TurnLockSpec, TL!Spec

---------------------------------------------------------------------------
(* PART 2.  The supervisor: SupervisorStream.                              *)

---------------------------------------------------------------------------
(* The events on the way from the runtime.                                 *)

EndsIt(event) == event \in {"eof", "error"}
Leading(w) == IF w # <<>> /\ w[1] = "query_started" THEN 1 ELSE 0
Closing(w) == IF w # <<>> /\ EndsIt(w[Len(w)]) THEN 1 ELSE 0
Chunks(w) == Len(w) - Leading(w) - Closing(w)

\* Only the first event may say that the query started, only the last that it is over.
Ordered(w) == \A i \in 1 .. Len(w) : /\ w[i] = "query_started" => i = 1
                                     /\ EndsIt(w[i]) => i = Len(w)
Unfinished(w) == \A i \in 1 .. Len(w) : ~EndsIt(w[i])

LEMMA ChunkWritten ==
  ASSUME NEW w \in Seq(Events), Ordered(w), Unfinished(w)
  PROVE  LET v == Append(w, "chunk")
         IN v \in Seq(Events) /\ Ordered(v) /\ Unfinished(v) /\ Chunks(v) = Chunks(w) + 1
  <1> DEFINE v == Append(w, "chunk")
  <1>1. "chunk" \in Events /\ Len(w) \in Nat
    BY DEF Events
  <1>2. /\ v \in Seq(Events) /\ v # <<>> /\ Len(v) = Len(w) + 1
        /\ \A i \in 1 .. Len(w) : v[i] = w[i]
        /\ v[Len(w) + 1] = "chunk"
    BY <1>1, AppendProperties
  <1> HIDE DEF v
  <1>3. Ordered(v) /\ Unfinished(v)
    BY <1>1, <1>2 DEF Ordered, Unfinished, EndsIt
  <1>4. Closing(v) = 0 /\ Closing(w) = 0
    BY <1>1, <1>2 DEF Closing, EndsIt, Unfinished
  <1>5. Leading(v) = Leading(w) /\ Leading(w) \in {0, 1}
    BY <1>1, <1>2 DEF Leading
  <1>6. Chunks(v) = Chunks(w) + 1
    BY <1>1, <1>2, <1>4, <1>5 DEF Chunks
  <1> QED
    BY <1>2, <1>3, <1>6 DEF v

LEMMA EndWritten ==
  ASSUME NEW w \in Seq(Events), Ordered(w), Unfinished(w), NEW event \in {"eof", "error"}
  PROVE  LET v == Append(w, event)
         IN v \in Seq(Events) /\ Ordered(v) /\ Chunks(v) = Chunks(w)
  <1> DEFINE v == Append(w, event)
  <1>1. event \in Events /\ Len(w) \in Nat
    BY DEF Events
  <1>2. /\ v \in Seq(Events) /\ v # <<>> /\ Len(v) = Len(w) + 1
        /\ \A i \in 1 .. Len(w) : v[i] = w[i]
        /\ v[Len(w) + 1] = event
    BY <1>1, AppendProperties
  <1> HIDE DEF v
  <1>3. Ordered(v)
    BY <1>1, <1>2 DEF Ordered, Unfinished, EndsIt
  <1>4. Closing(v) = 1 /\ Closing(w) = 0
    BY <1>1, <1>2 DEF Closing, EndsIt, Unfinished
  <1>5. Leading(v) = Leading(w) /\ Leading(w) \in {0, 1}
    BY <1>1, <1>2 DEF Leading
  <1>6. Chunks(v) = Chunks(w)
    BY <1>1, <1>2, <1>4, <1>5 DEF Chunks
  <1> QED
    BY <1>2, <1>3, <1>6 DEF v

LEMMA EventRead ==
  ASSUME NEW w \in Seq(Events), w # <<>>, Ordered(w)
  PROVE  /\ Head(w) \in Events /\ Tail(w) \in Seq(Events) /\ Ordered(Tail(w))
         /\ Unfinished(w) => Unfinished(Tail(w))
         /\ Head(w) = "query_started" => Chunks(Tail(w)) = Chunks(w)
         /\ Head(w) = "chunk" => Chunks(Tail(w)) = Chunks(w) - 1
         /\ EndsIt(Head(w)) => Chunks(w) = 0 /\ ~Unfinished(w)
  <1> DEFINE v == Tail(w)
  <1>1. /\ v \in Seq(Events) /\ Head(w) \in Events /\ Head(w) = w[1]
        /\ Len(v) = Len(w) - 1 /\ Len(w) \in Nat /\ Len(w) > 0
        /\ \A i \in 1 .. Len(v) : v[i] = w[i + 1]
    BY HeadTailProperties
  <1> HIDE DEF v
  <1>2. Ordered(v) /\ (Unfinished(w) => Unfinished(v))
    <2>1. \A i \in 1 .. Len(v) : i + 1 \in 1 .. Len(w) /\ i + 1 # 1 /\ (i + 1 = Len(w) => i = Len(v))
      BY <1>1
    <2> QED
      BY <1>1, <2>1 DEF Ordered, Unfinished
  <1>3. Leading(v) = 0
    <2>1. v # <<>> => 1 \in 1 .. Len(v) /\ 2 \in 1 .. Len(w)
      BY <1>1
    <2> QED
      BY <1>1, <2>1 DEF Leading, Ordered
  <1>4. Leading(w) = (IF Head(w) = "query_started" THEN 1 ELSE 0)
    BY <1>1 DEF Leading
  <1>5. CASE EndsIt(Head(w))
    <2>1. Len(w) = 1 /\ Head(w) # "query_started"
      BY <1>1, <1>5 DEF Ordered, EndsIt
    <2>2. Closing(w) = 1
      BY <1>1, <1>5, <2>1 DEF Closing
    <2>3. Chunks(w) = 0 /\ ~Unfinished(w)
      <3>1. 1 \in 1 .. Len(w) /\ EndsIt(w[1])
        BY <1>1, <1>5, <2>1
      <3>2. Leading(w) = 0
        BY <1>4, <2>1
      <3> QED
        BY <2>1, <2>2, <3>1, <3>2 DEF Chunks, Unfinished
    <2> QED
      BY <1>1, <1>2, <1>5, <2>1, <2>3 DEF v, EndsIt
  <1>6. CASE ~EndsIt(Head(w))
    <2>1. Closing(v) = Closing(w) /\ Closing(w) \in {0, 1}
      <3>1. CASE Len(w) = 1
        BY <1>1, <1>6, <3>1 DEF Closing
      <3>2. CASE Len(w) # 1
        <4>1. Len(v) \in 1 .. Len(v) /\ Len(v) + 1 = Len(w) /\ v # <<>>
          BY <1>1, <3>2
        <4>2. v[Len(v)] = w[Len(w)]
          BY <1>1, <4>1
        <4> QED
          BY <1>1, <4>1, <4>2 DEF Closing
      <3> QED
        BY <3>1, <3>2
    <2>2. Head(w) = "query_started" => Chunks(v) = Chunks(w)
      BY <1>1, <1>3, <1>4, <2>1 DEF Chunks
    <2>3. Head(w) = "chunk" => Chunks(v) = Chunks(w) - 1
      BY <1>1, <1>3, <1>4, <2>1 DEF Chunks
    <2> QED
      BY <1>1, <1>2, <1>6, <2>2, <2>3 DEF v
  <1> QED
    BY <1>5, <1>6

---------------------------------------------------------------------------
(* The inductive invariant, stream by stream.                              *)

\* A chunk is appended before it is
\* published, and the message is assembled of all that was appended.
Counted(s) == /\ shown[s] <= buffer[s]
              /\ at[s] = "publishing" => shown[s] < buffer[s]
              /\ at[s] \in {"marking", "finished"} => assembled[s] = buffer[s]

\* Nothing the runtime wrote is lost while the connection holds.
Fresh(s) == query[s] \in {"none", "preparing"} =>
              /\ emitted[s] = 0 /\ buffer[s] = 0 /\ wire[s] = <<>>
              /\ at[s] \notin {"appending", "publishing"}
Cut(s) == s \in broken => wire[s] = <<>> /\ query[s] = "ended"
Relaying == {"reading", "appending", "publishing"}
Flow(s) == at[s] \in Relaying /\ s \notin broken =>
             /\ Ordered(wire[s])
             /\ query[s] # "ended" => Unfinished(wire[s])
             /\ emitted[s] = buffer[s] + Chunks(wire[s]) + (IF at[s] = "appending" THEN 1 ELSE 0)
Whole(s) == at[s] \in {"closing", "finished"} \cup AfterTry /\ ~failed[s] /\ ~aborted[s] =>
              query[s] = "ended" /\ buffer[s] = emitted[s]
Idle(s) == at[s] \in {"new", "announced", "beginning", "opening"} => query[s] = "none"

\* What post_message has returned, and the status keys.
Replied(s) ==
  /\ Returned(s) <=> handler[s] = "answered"
  /\ handler[s] \in {"leaving", "left", "answered"} => at[s] \notin {"new", "announced", "beginning"}
  /\ handler[s] = "left" \/ at[s] = "finished" \/ Returned(s) => status[s] # "streaming"
  /\ Answered(s) => at[s] \in {"finished", "cancelled"}
  /\ Answered(s) /\ at[s] = "finished" =>
       answer[s].chunks = assembled[s] /\ answer[s].status = Outcome(s)

Local(s) == Counted(s) /\ Fresh(s) /\ Cut(s) /\ Flow(s) /\ Whole(s) /\ Idle(s) /\ Replied(s)

GaugeCounts == gauge = Cardinality({s \in Streams : at[s] \in InTry})

StreamInv == StreamTypeOK /\ GaugeCounts /\ \A s \in Streams : Local(s)

Moves(s) == Step(s) \/ ConnectionLost(s) \/ Kill(s)

\* Every step is about one stream.
AsItWas(t) == /\ UNCHANGED <<at[t], handler[t], aborted[t], failed[t], assembled[t], answer[t], buffer[t],
                             shown[t], status[t], query[t], emitted[t], wire[t]>>
              /\ t \in broken' <=> t \in broken

LEMMA OthersLocal ==
  ASSUME NEW t \in Streams, Local(t), AsItWas(t)
  PROVE  Local(t)'
  BY DEF Local, AsItWas, Counted, Fresh, Cut, Flow, Whole, Idle, Replied, Returned, Answered, Outcome

LEMMA OthersStay ==
  ASSUME StreamTypeOK, NEW s \in Streams, Moves(s), NEW t \in Streams, t # s
  PROVE  AsItWas(t)
  <1> USE DEF StreamTypeOK, AsItWas, outcome, post, redis, runtime, control, Goto
  <1>1. CASE RuntimeStep(s)
    BY <1>1 DEF RuntimeStep, RuntimeStarts, RuntimeRefuses, RuntimeWrites, RuntimeEnds
  <1>2. CASE Register(s) \/ Begin(s) \/ Open(s) \/ Read(s) \/ ReadFails(s) \/ AppendChunk(s)
    BY <1>2 DEF Register, Begin, Open, Read, ReadFails, AppendChunk
  <1>3. CASE PublishChunk(s) \/ Close(s) \/ End(s) \/ Assemble(s) \/ Mark(s) \/ Announce(s) \/ HangUp(s)
    BY <1>3 DEF PublishChunk, Close, End, Assemble, Mark, Announce, HangUp
  <1>4. CASE HandlerStep(s)
    BY <1>4 DEF HandlerStep, Answer, AnswerCancelled, StatusAborted, Notice, Cancel, MarkLeft, Leave
  <1>5. CASE AbortStep(s)
    BY <1>5 DEF AbortStep, AbortLocal, AbortBroadcast, HeardByHolder, HeardByNobody, Cancel
  <1>6. CASE ConnectionLost(s) \/ Kill(s)
    BY <1>6 DEF ConnectionLost, Kill
  <1> QED
    BY <1>1, <1>2, <1>3, <1>4, <1>5, <1>6 DEF Moves, Step, TaskStep

LEMMA TypeStep ==
  ASSUME StreamTypeOK, NEW s \in Streams, Moves(s)
  PROVE  StreamTypeOK'
  <1> USE DEF StreamTypeOK, outcome, post, redis, runtime, control, Goto, InBegin, InTry, AfterTry, Over
  <1>0. <<>> \in Seq(Events)
    OBVIOUS
  <1>1. CASE RuntimeStep(s)
    <2>1. ASSUME NEW e \in Events PROVE Append(wire[s], e) \in Seq(Events)
      BY AppendProperties
    <2>2. {"query_started", "error", "chunk", "eof"} \subseteq Events
      BY DEF Events
    <2>3. CASE RuntimeStarts(s)
      BY <2>1, <2>2, <2>3 DEF RuntimeStarts
    <2>4. CASE RuntimeRefuses(s)
      BY <2>1, <2>2, <2>4 DEF RuntimeRefuses
    <2>5. CASE RuntimeWrites(s)
      BY <2>1, <2>2, <2>5 DEF RuntimeWrites
    <2>6. ASSUME NEW e \in Events, RuntimeEnds(s, e) PROVE StreamTypeOK'
      BY <2>1, <2>6 DEF RuntimeEnds
    <2> QED
      BY <1>1, <2>2, <2>3, <2>4, <2>5, <2>6 DEF RuntimeStep
  <1>2. CASE Register(s)
    BY <1>2 DEF Register
  <1>3. CASE Begin(s)
    BY <1>3 DEF Begin
  <1>4. CASE Open(s)
    BY <1>4 DEF Open
  <1>5. CASE Read(s)
    <2>1. Tail(wire[s]) \in Seq(Events)
      BY <1>5, HeadTailProperties DEF Read
    <2>2. Reaction(Head(wire[s])) \in InTry
      BY DEF Reaction
    <2> QED
      BY <1>5, <2>1, <2>2 DEF Read, Reaches
  <1>6. CASE ReadFails(s)
    BY <1>6 DEF ReadFails
  <1>7. CASE AppendChunk(s)
    BY <1>7 DEF AppendChunk
  <1>7a. CASE PublishChunk(s)
    BY <1>7a DEF PublishChunk
  <1>8. CASE Close(s)
    BY <1>0, <1>8 DEF Close
  <1>9. CASE End(s)
    BY <1>9 DEF End
  <1>9a. CASE Assemble(s)
    BY <1>9a DEF Assemble
  <1>10. CASE Mark(s)
    BY <1>10 DEF Mark, Outcome
  <1>11. CASE Announce(s) \/ HangUp(s)
    BY <1>11 DEF Announce, HangUp
  <1>12. CASE Answer(s)
    <2>1. [status |-> Outcome(s), reached |-> reached[s], chunks |-> assembled[s]] \in Answers
      BY DEF Answers, Outcome
    <2> QED
      BY <1>12, <2>1 DEF Answer
  <1>13. CASE AnswerCancelled(s)
    <2>1. [status |-> "aborted", reached |-> FALSE, chunks |-> 0] \in Answers
      BY DEF Answers
    <2> QED
      BY <1>13, <2>1 DEF AnswerCancelled, StatusAborted
  <1>14. CASE MarkLeft(s)
    BY <1>14 DEF MarkLeft
  <1>15. ASSUME Cancel(s)
         PROVE  /\ at' \in [Streams -> {"new", "announced"} \cup InBegin \cup InTry \cup AfterTry \cup Over]
                /\ aborted' \in [Streams -> BOOLEAN]
    BY <1>15 DEF Cancel, Cancelled
  <1>16. CASE Notice(s)
    BY <1>15, <1>16 DEF Notice
  <1>17. CASE AbortLocal(s)
    BY <1>15, <1>17 DEF AbortLocal
  <1>18. CASE AbortBroadcast(s)
    BY <1>18 DEF AbortBroadcast
  <1>19. CASE HeardByHolder(s)
    BY <1>15, <1>19 DEF HeardByHolder
  <1>20. CASE HeardByNobody(s)
    BY <1>20 DEF HeardByNobody
  <1>21. CASE Leave(s)
    <2>1. [status |-> "disconnected", reached |-> FALSE, chunks |-> 0] \in Answers
      BY DEF Answers
    <2> QED
      BY <1>15, <1>21, <2>1 DEF Leave
  <1>22. CASE ConnectionLost(s)
    BY <1>0, <1>22 DEF ConnectionLost
  <1>23. CASE Kill(s)
    BY <1>0, <1>23 DEF Kill
  <1> QED
    BY <1>1, <1>2, <1>3, <1>4, <1>5, <1>6, <1>7, <1>7a, <1>8, <1>9, <1>9a, <1>10, <1>11, <1>12, <1>13, <1>14, <1>16, <1>17,
       <1>18, <1>19, <1>20, <1>21, <1>22, <1>23 DEF Moves, Step, TaskStep, HandlerStep, AbortStep

---------------------------------------------------------------------------
(* The stream that moves.                                                  *)

\* A cancellation ends the task, or sends it to its one exit.
LEMMA CancelFacts ==
  ASSUME StreamTypeOK, NEW s \in Streams, Cancel(s)
  PROVE  /\ at'[s] \in {"closing", "cancelled"}
         /\ at'[s] = "closing" <=> at[s] \in InTry
         /\ aborted'[s] <=> aborted[s] \/ at[s] \in InTry
  BY DEF Cancel, Cancelled, Goto, StreamTypeOK, InTry

CancelStep(s) == Notice(s) \/ AbortLocal(s) \/ HeardByHolder(s) \/ (Leave(s) /\ Running(s))

LEMMA CountedStep ==
  ASSUME StreamTypeOK, NEW s \in Streams, Counted(s), Moves(s)
  PROVE  Counted(s)'
  <1> USE DEF StreamTypeOK, outcome, post, redis, runtime, control, Goto, Counted
  <1>1. CASE RuntimeStep(s)
    BY <1>1 DEF RuntimeStep, RuntimeStarts, RuntimeRefuses, RuntimeWrites, RuntimeEnds
  <1>2. CASE Register(s) \/ Begin(s) \/ Open(s) \/ ReadFails(s) \/ Close(s) \/ End(s) \/ Mark(s) \/ Announce(s) \/ HangUp(s)
    BY <1>2 DEF Register, Begin, Open, ReadFails, Close, End, Mark, Announce, HangUp
  <1>3. CASE Read(s)
    BY <1>3 DEF Read, Reaction
  <1>4. CASE AppendChunk(s)
    BY <1>4 DEF AppendChunk
  <1>5. CASE PublishChunk(s)
    BY <1>5 DEF PublishChunk
  <1>6. CASE Assemble(s)
    BY <1>6 DEF Assemble
  <1>7. CASE CancelStep(s)
    <2>1. UNCHANGED <<buffer, shown>> /\ Cancel(s)
      BY <1>7 DEF CancelStep, Notice, AbortLocal, HeardByHolder, Leave
    <2> QED
      BY <2>1, CancelFacts
  <1>8. CASE Answer(s) \/ AnswerCancelled(s) \/ MarkLeft(s) \/ (Leave(s) /\ ~Running(s)) \/ AbortBroadcast(s) \/ HeardByNobody(s)
    BY <1>8 DEF Answer, AnswerCancelled, MarkLeft, Leave, AbortBroadcast, HeardByNobody
  <1>9. CASE ConnectionLost(s) \/ Kill(s)
    BY <1>9 DEF ConnectionLost, Kill
  <1> QED
    BY <1>1, <1>2, <1>3, <1>4, <1>5, <1>6, <1>7, <1>8, <1>9
       DEF Moves, Step, TaskStep, HandlerStep, AbortStep, CancelStep

LEMMA FreshStep ==
  ASSUME StreamTypeOK, NEW s \in Streams, Fresh(s), Cut(s), Idle(s), Moves(s)
  PROVE  Fresh(s)' /\ Cut(s)' /\ Idle(s)'
  <1> USE DEF StreamTypeOK, outcome, post, redis, runtime, control, Goto, Fresh, Cut, Idle
  <1>1. CASE RuntimeStep(s)
    BY <1>1 DEF RuntimeStep, RuntimeStarts, RuntimeRefuses, RuntimeWrites, RuntimeEnds
  <1>2. CASE Register(s) \/ Begin(s) \/ ReadFails(s) \/ Close(s) \/ End(s) \/ Mark(s) \/ Announce(s) \/ HangUp(s) \/ Assemble(s)
    BY <1>2 DEF Register, Begin, ReadFails, Close, End, Mark, Announce, HangUp, Assemble
  <1>3. CASE Open(s)
    BY <1>3 DEF Open
  <1>4. CASE Read(s)
    BY <1>4 DEF Read, Reaction
  <1>5. CASE AppendChunk(s) \/ PublishChunk(s)
    BY <1>5 DEF AppendChunk, PublishChunk
  <1>7. CASE CancelStep(s)
    <2>1. UNCHANGED <<buffer, emitted, wire, broken, query>> /\ Cancel(s)
      BY <1>7 DEF CancelStep, Notice, AbortLocal, HeardByHolder, Leave
    <2> QED
      BY <2>1, CancelFacts
  <1>8. CASE Answer(s) \/ AnswerCancelled(s) \/ MarkLeft(s) \/ (Leave(s) /\ ~Running(s)) \/ AbortBroadcast(s) \/ HeardByNobody(s)
    BY <1>8 DEF Answer, AnswerCancelled, MarkLeft, Leave, AbortBroadcast, HeardByNobody
  <1>9. CASE ConnectionLost(s) \/ Kill(s)
    BY <1>9 DEF ConnectionLost, Kill, InTry
  <1> QED
    BY <1>1, <1>2, <1>3, <1>4, <1>5, <1>7, <1>8, <1>9
       DEF Moves, Step, TaskStep, HandlerStep, AbortStep, CancelStep

LEMMA RepliedStep ==
  ASSUME StreamTypeOK, NEW s \in Streams, Replied(s), Moves(s)
  PROVE  Replied(s)'
  <1> USE DEF StreamTypeOK, outcome, post, redis, runtime, control, Goto, Replied, Returned, Answered, Outcome
  <1>1. CASE RuntimeStep(s)
    BY <1>1 DEF RuntimeStep, RuntimeStarts, RuntimeRefuses, RuntimeWrites, RuntimeEnds
  <1>2. CASE Register(s)
    BY <1>2 DEF Register
  <1>3. CASE Begin(s) \/ Open(s) \/ AppendChunk(s) \/ PublishChunk(s) \/ Close(s) \/ End(s) \/ Announce(s) \/ HangUp(s)
    BY <1>3 DEF Begin, Open, AppendChunk, PublishChunk, Close, End, Announce, HangUp
  <1>4. CASE Read(s)
    BY <1>4 DEF Read, Reaction
  <1>5. CASE ReadFails(s)
    BY <1>5 DEF ReadFails
  <1>6. CASE Assemble(s)
    BY <1>6 DEF Assemble
  <1>6a. CASE Mark(s)
    <2>1. ~Answered(s) /\ ~Answered(s)' /\ status'[s] # "streaming"
      BY <1>6a DEF Mark
    <2> QED
      BY <1>6a, <2>1 DEF Mark
  <1>7. CASE AbortLocal(s) \/ HeardByHolder(s)
    <2>1. UNCHANGED <<handler, answer, status>> /\ Cancel(s) /\ at[s] \notin {"finished", "cancelled"}
      BY <1>7 DEF AbortLocal, HeardByHolder, Running, InBegin, InTry, AfterTry
    <2> QED
      BY <2>1, CancelFacts
  <1>8. CASE Notice(s)
    BY <1>8, CancelFacts DEF Notice
  <1>9. CASE Answer(s)
    <2>1. [status |-> Outcome(s), reached |-> reached[s], chunks |-> assembled[s]] # NoAnswer
      BY DEF NoAnswer
    <2> QED
      BY <1>9, <2>1 DEF Answer
  <1>10. CASE AnswerCancelled(s)
    BY <1>10 DEF AnswerCancelled, StatusAborted, NoAnswer
  <1>11. CASE MarkLeft(s)
    BY <1>11 DEF MarkLeft
  <1>12. CASE Leave(s)
    <2>1. /\ handler'[s] = "answered" /\ answer'[s].status = "disconnected" /\ answer'[s] # NoAnswer
          /\ status' = status /\ handler[s] = "left"
      BY <1>12 DEF Leave, NoAnswer
    <2>2. at'[s] \notin {"new", "announced", "beginning"}
      BY <1>12, CancelFacts DEF Leave
    <2> QED
      BY <2>1, <2>2
  <1>13. CASE AbortBroadcast(s) \/ HeardByNobody(s) \/ ConnectionLost(s)
    BY <1>13 DEF AbortBroadcast, HeardByNobody, ConnectionLost
  <1>14. CASE Kill(s)
    BY <1>14 DEF Kill
  <1> QED
    BY <1>1, <1>2, <1>3, <1>4, <1>5, <1>6, <1>6a, <1>7, <1>8, <1>9, <1>10, <1>11, <1>12, <1>13, <1>14
       DEF Moves, Step, TaskStep, HandlerStep, AbortStep

LEMMA NothingWritten ==
  /\ <<>> \in Seq(Events) /\ Ordered(<<>>) /\ Unfinished(<<>>) /\ Chunks(<<>>) = 0
  BY DEF Ordered, Unfinished, Chunks, Leading, Closing

\* What the runtime adds to the wire of a stream that is being relayed.
LEMMA RuntimeFlows ==
  ASSUME StreamTypeOK, NEW s \in Streams, Fresh(s), Flow(s), RuntimeStep(s)
  PROVE  Flow(s)'
  <1> USE DEF StreamTypeOK, outcome, post, redis, runtime, control, Flow
  <1>0. /\ UNCHANGED <<at, buffer, broken>>
        /\ wire[s] \in Seq(Events) /\ buffer[s] \in Nat /\ emitted[s] \in Nat
    BY DEF RuntimeStep, RuntimeStarts, RuntimeRefuses, RuntimeWrites, RuntimeEnds
  <1> SUFFICES ASSUME at[s] \in Relaying, s \notin broken
               PROVE  /\ Ordered(wire'[s])
                      /\ query'[s] # "ended" => Unfinished(wire'[s])
                      /\ emitted'[s] = buffer[s] + Chunks(wire'[s]) + (IF at[s] = "appending" THEN 1 ELSE 0)
    BY <1>0 DEF Relaying
  <1>1. CASE RuntimeStarts(s)
    <2> DEFINE w == <<"query_started">>
    <2>1. wire[s] = <<>> /\ emitted[s] = 0 /\ buffer[s] = 0 /\ at[s] # "appending"
      BY <1>1 DEF RuntimeStarts, Fresh
    <2>2. wire'[s] = w /\ emitted' = emitted
      BY <1>1, <2>1 DEF RuntimeStarts
    <2>3. w # <<>> /\ Len(w) = 1 /\ w[1] = "query_started"
      OBVIOUS
    <2>4. Ordered(w) /\ Unfinished(w) /\ Chunks(w) = 0
      BY <2>3 DEF Ordered, Unfinished, Chunks, Leading, Closing, EndsIt
    <2> QED
      BY <2>1, <2>2, <2>4
  <1>2. CASE RuntimeRefuses(s)
    <2>1. wire[s] = <<>> /\ emitted[s] = 0 /\ buffer[s] = 0 /\ at[s] # "appending"
      BY <1>2 DEF RuntimeRefuses, Fresh
    <2>2. wire'[s] = Append(wire[s], "error") /\ emitted' = emitted /\ query'[s] = "ended"
      BY <1>2 DEF RuntimeRefuses
    <2>3. Ordered(wire'[s]) /\ Chunks(wire'[s]) = 0
      BY <2>1, <2>2, EndWritten, NothingWritten
    <2> QED
      BY <2>1, <2>2, <2>3
  <1>3. CASE RuntimeWrites(s)
    <2>1. Ordered(wire[s]) /\ Unfinished(wire[s])
      BY <1>3 DEF RuntimeWrites
    <2>2. wire'[s] = Append(wire[s], "chunk") /\ emitted'[s] = emitted[s] + 1
      BY <1>3 DEF RuntimeWrites
    <2>3. Ordered(wire'[s]) /\ Unfinished(wire'[s]) /\ Chunks(wire'[s]) = Chunks(wire[s]) + 1
      BY <1>0, <2>1, <2>2, ChunkWritten
    <2>4. Chunks(wire[s]) \in Int
      BY <1>0 DEF Chunks, Leading, Closing
    <2> QED
      BY <1>0, <2>2, <2>3, <2>4
  <1>4. ASSUME NEW event \in {"eof", "error"}, RuntimeEnds(s, event)
        PROVE  /\ Ordered(wire'[s]) /\ query'[s] = "ended"
               /\ emitted' = emitted /\ Chunks(wire'[s]) = Chunks(wire[s])
    <2>1. Ordered(wire[s]) /\ Unfinished(wire[s])
      BY <1>4 DEF RuntimeEnds
    <2>2. wire'[s] = Append(wire[s], event) /\ emitted' = emitted /\ query'[s] = "ended"
      BY <1>4 DEF RuntimeEnds
    <2> QED
      BY <1>0, <2>1, <2>2, EndWritten
  <1> QED
    BY <1>1, <1>2, <1>3, <1>4 DEF RuntimeStep

\* An event read is a chunk less on the wire, and one more in the task's hands.
LEMMA ReadFlows ==
  ASSUME StreamTypeOK, NEW s \in Streams, Cut(s), Flow(s), Whole(s), Read(s)
  PROVE  Flow(s)' /\ Whole(s)'
  <1> DEFINE w == wire[s]
  <1>1. /\ w \in Seq(Events) /\ w # <<>> /\ wire'[s] = Tail(w)
        /\ at[s] = "reading" /\ at'[s] = Reaction(Head(w))
        /\ failed'[s] = (Head(w) = "error")
        /\ UNCHANGED <<buffer, emitted, query, broken, aborted>>
        /\ buffer[s] \in Nat /\ emitted[s] \in Nat
    BY DEF Read, Goto, StreamTypeOK, post, redis, control
  <1>2. s \notin broken
    BY <1>1 DEF Cut
  <1>3. /\ Ordered(w)
        /\ query[s] # "ended" => Unfinished(w)
        /\ emitted[s] = buffer[s] + Chunks(w)
    <2>1. Chunks(w) \in Int
      BY <1>1 DEF Chunks, Leading, Closing
    <2> QED
      BY <1>1, <1>2, <2>1 DEF Flow, Relaying
  <1>4. /\ Head(w) \in Events /\ Tail(w) \in Seq(Events) /\ Ordered(Tail(w))
        /\ Unfinished(w) => Unfinished(Tail(w))
        /\ Head(w) = "query_started" => Chunks(Tail(w)) = Chunks(w)
        /\ Head(w) = "chunk" => Chunks(Tail(w)) = Chunks(w) - 1
        /\ EndsIt(Head(w)) => Chunks(w) = 0 /\ ~Unfinished(w)
    BY <1>1, <1>3, EventRead
  <1>5. Chunks(w) \in Int
    BY <1>1 DEF Chunks, Leading, Closing
  <1> HIDE DEF w
  <1>6. CASE Head(w) \in {"query_started", "chunk"}
    <2>1. at'[s] = IF Head(w) = "chunk" THEN "appending" ELSE "reading"
      BY <1>1, <1>6 DEF Reaction
    <2>2. emitted[s] = buffer[s] + Chunks(Tail(w)) + (IF Head(w) = "chunk" THEN 1 ELSE 0)
      BY <1>1, <1>3, <1>4, <1>5, <1>6
    <2> QED
      BY <1>1, <1>3, <1>4, <1>6, <2>1, <2>2 DEF Flow, Whole, AfterTry
  <1>7. CASE Head(w) \in {"eof", "error"}
    <2>1. at'[s] = "closing" /\ Chunks(w) = 0 /\ ~Unfinished(w)
      BY <1>1, <1>4, <1>7 DEF Reaction, EndsIt
    <2>2. query[s] = "ended" /\ buffer[s] = emitted[s]
      BY <1>1, <1>3, <2>1
    <2> QED
      BY <1>1, <2>1, <2>2 DEF Flow, Whole, Relaying
  <1> QED
    BY <1>4, <1>6, <1>7 DEF Events

LEMMA FlowStep ==
  ASSUME StreamTypeOK, NEW s \in Streams, Fresh(s), Cut(s), Flow(s), Whole(s), Idle(s), Moves(s)
  PROVE  Flow(s)' /\ Whole(s)'
  <1> USE DEF StreamTypeOK, outcome, post, redis, runtime, control, Goto
  <1>0. Chunks(wire[s]) \in Int
    BY DEF Chunks, Leading, Closing
  <1>1. CASE RuntimeStep(s)
    <2>1. Whole(s)'
      BY <1>1 DEF Whole, RuntimeStep, RuntimeStarts, RuntimeRefuses, RuntimeWrites, RuntimeEnds
    <2> QED
      BY <1>1, <2>1, RuntimeFlows
  <1>2. CASE Register(s) \/ Begin(s) \/ End(s) \/ Mark(s) \/ Announce(s) \/ HangUp(s) \/ Assemble(s)
    BY <1>2 DEF Register, Begin, End, Mark, Announce, HangUp, Assemble, Flow, Whole, Relaying, AfterTry
  <1>3. CASE Open(s)
    <2>1. wire[s] = <<>> /\ emitted[s] = 0 /\ buffer[s] = 0
      BY <1>3 DEF Open, Idle, Fresh
    <2>2. at'[s] = "reading" /\ wire'[s] = <<>> /\ emitted' = emitted /\ buffer' = buffer
      BY <1>3, <2>1 DEF Open
    <2> QED
      BY <2>1, <2>2, NothingWritten DEF Flow, Whole, AfterTry
  <1>4. CASE Read(s)
    BY <1>4, ReadFlows
  <1>5. CASE ReadFails(s)
    BY <1>5 DEF ReadFails, Flow, Whole, Relaying
  <1>6. CASE AppendChunk(s)
    <2>1. /\ at[s] = "appending" /\ at'[s] = "publishing" /\ buffer'[s] = buffer[s] + 1
          /\ UNCHANGED <<wire, emitted, query, broken>>
          /\ buffer[s] \in Nat /\ emitted[s] \in Nat
      BY <1>6 DEF AppendChunk
    <2> QED
      BY <1>0, <2>1 DEF Flow, Whole, Relaying, AfterTry
  <1>7. CASE PublishChunk(s)
    <2>1. /\ at[s] = "publishing" /\ at'[s] = "reading"
          /\ UNCHANGED <<buffer, wire, emitted, query, broken>>
      BY <1>7 DEF PublishChunk
    <2> QED
      BY <1>0, <2>1 DEF Flow, Whole, Relaying, AfterTry
  <1>8. CASE Close(s)
    BY <1>8 DEF Close, Flow, Whole, Relaying
  <1>9. CASE CancelStep(s)
    <2>1. Cancel(s)
      BY <1>9 DEF CancelStep, Notice, AbortLocal, HeardByHolder, Leave
    <2> QED
      BY <2>1, CancelFacts DEF Flow, Whole, Relaying, AfterTry
  <1>10. CASE Answer(s) \/ AnswerCancelled(s) \/ MarkLeft(s) \/ (Leave(s) /\ ~Running(s)) \/ AbortBroadcast(s) \/ HeardByNobody(s)
    <2>1. UNCHANGED <<at, aborted, failed, buffer, query, wire, emitted, broken>>
      BY <1>10 DEF Answer, AnswerCancelled, MarkLeft, Leave, AbortBroadcast, HeardByNobody
    <2> QED
      BY <2>1 DEF Flow, Whole
  <1>11. CASE ConnectionLost(s)
    BY <1>11 DEF ConnectionLost, Flow, Whole
  <1>12. CASE Kill(s)
    BY <1>12 DEF Kill, Flow, Whole, Relaying, AfterTry
  <1> QED
    BY <1>1, <1>2, <1>3, <1>4, <1>5, <1>6, <1>7, <1>8, <1>9, <1>10, <1>11, <1>12
       DEF Moves, Step, TaskStep, HandlerStep, AbortStep, CancelStep

---------------------------------------------------------------------------
(* The gauge: it moves with the stream that enters or leaves the relay.    *)

Bit(b) == IF b THEN 1 ELSE 0

LEMMA GaugeFollows ==
  ASSUME StreamTypeOK, NEW s \in Streams, Moves(s)
  PROVE  gauge' = gauge + Bit(at'[s] \in InTry) - Bit(at[s] \in InTry)
  <1> USE DEF StreamTypeOK, outcome, post, redis, runtime, control, Goto, Bit
  <1>1. CASE RuntimeStep(s)
    BY <1>1 DEF RuntimeStep, RuntimeStarts, RuntimeRefuses, RuntimeWrites, RuntimeEnds
  <1>2. CASE Register(s) \/ Begin(s) \/ Open(s)
    BY <1>2 DEF Register, Begin, Open, InTry
  <1>3. CASE Read(s)
    BY <1>3 DEF Read, Reaction, InTry
  <1>4a. CASE ReadFails(s)
    BY <1>4a DEF ReadFails, InTry
  <1>4b. CASE AppendChunk(s)
    BY <1>4b DEF AppendChunk, InTry
  <1>4c. CASE PublishChunk(s)
    BY <1>4c DEF PublishChunk, InTry
  <1>5a. CASE Close(s)
    BY <1>5a DEF Close, InTry
  <1>5b. CASE End(s)
    BY <1>5b DEF End, InTry
  <1>5c. CASE Assemble(s)
    BY <1>5c DEF Assemble, InTry
  <1>5d. CASE Mark(s)
    BY <1>5d DEF Mark, InTry
  <1>5e. CASE Announce(s) \/ HangUp(s)
    BY <1>5e DEF Announce, HangUp, InTry
  <1>6. CASE CancelStep(s)
    <2>1. gauge' = gauge /\ Cancel(s)
      BY <1>6 DEF CancelStep, Notice, AbortLocal, HeardByHolder, Leave
    <2> QED
      BY <2>1, CancelFacts DEF InTry
  <1>7a. CASE Answer(s)
    BY <1>7a DEF Answer
  <1>7b. CASE AnswerCancelled(s)
    BY <1>7b DEF AnswerCancelled
  <1>7c. CASE MarkLeft(s)
    BY <1>7c DEF MarkLeft
  <1>7d. CASE Leave(s) /\ ~Running(s)
    BY <1>7d DEF Leave
  <1>7e. CASE AbortBroadcast(s) \/ HeardByNobody(s)
    BY <1>7e DEF AbortBroadcast, HeardByNobody
  <1>8. CASE ConnectionLost(s)
    BY <1>8 DEF ConnectionLost
  <1>9. CASE Kill(s)
    BY <1>9 DEF Kill, InTry
  <1> QED
    BY <1>1, <1>2, <1>3, <1>4a, <1>4b, <1>4c, <1>5a, <1>5b, <1>5c, <1>5d, <1>5e,
       <1>6, <1>7a, <1>7b, <1>7c, <1>7d, <1>7e, <1>8, <1>9
       DEF Moves, Step, TaskStep, HandlerStep, AbortStep, CancelStep

LEMMA GaugeStep ==
  ASSUME StreamTypeOK, GaugeCounts, NEW s \in Streams, Moves(s)
  PROVE  GaugeCounts'
  <1> DEFINE Relayed == {t \in Streams : at[t] \in InTry}
             After == {t \in Streams : at'[t] \in InTry}
  <1>1. IsFiniteSet(Relayed)
    BY FS_Subset, StreamsAssumption
  <1>2. \A t \in Streams : t # s => at'[t] = at[t]
    BY OthersStay DEF AsItWas
  <1>3. Cardinality(Relayed) \in Nat
    BY <1>1, FS_CardinalityType
  <1>4. Cardinality(After) = Cardinality(Relayed) + Bit(at'[s] \in InTry) - Bit(at[s] \in InTry)
    <2>1. CASE at'[s] \in InTry
      <3>1. After = Relayed \cup {s}
        BY <1>2, <2>1
      <3>2. Cardinality(After) = IF s \in Relayed THEN Cardinality(Relayed) ELSE Cardinality(Relayed) + 1
        BY <1>1, <3>1, FS_AddElement
      <3> QED
        BY <1>3, <2>1, <3>2 DEF Bit
    <2>2. CASE at'[s] \notin InTry
      <3>1. After = Relayed \ {s}
        BY <1>2, <2>2
      <3>2. Cardinality(After) = IF s \in Relayed THEN Cardinality(Relayed) - 1 ELSE Cardinality(Relayed)
        BY <1>1, <3>1, FS_RemoveElement
      <3> QED
        BY <1>3, <2>2, <3>2 DEF Bit
    <2> QED
      BY <2>1, <2>2
  <1>5. gauge = Cardinality(Relayed)
    BY DEF GaugeCounts
  <1>6. gauge' = Cardinality(After)
    BY <1>4, <1>5, GaugeFollows
  <1> QED
    BY <1>6 DEF GaugeCounts

---------------------------------------------------------------------------
(* The invariant holds, and with it the properties.                        *)

LEMMA StreamInitInv == StreamInit => StreamInv
  <1> SUFFICES ASSUME StreamInit PROVE StreamInv
    OBVIOUS
  <1>1. StreamTypeOK
    BY DEF StreamInit, StreamTypeOK, Events
  <1>2. GaugeCounts
    <2>1. {s \in Streams : at[s] \in InTry} = {}
      BY DEF StreamInit, InTry
    <2> QED
      BY <2>1, FS_EmptySet DEF GaugeCounts, StreamInit
  <1>3. ASSUME NEW s \in Streams PROVE Local(s)
    BY DEF StreamInit, Local, Counted, Fresh, Cut, Flow, Relaying, Whole, AfterTry, Idle, Replied, Returned, Answered
  <1> QED
    BY <1>1, <1>2, <1>3 DEF StreamInv

LEMMA StreamNextInv == StreamInv /\ [StreamNext]_streamVars => StreamInv'
  <1> SUFFICES ASSUME StreamInv, [StreamNext]_streamVars PROVE StreamInv'
    OBVIOUS
  <1>1. CASE UNCHANGED streamVars
    <2>1. StreamTypeOK' /\ GaugeCounts'
      BY <1>1 DEF StreamInv, streamVars, outcome, post, redis, runtime, control, StreamTypeOK, GaugeCounts
    <2>2. ASSUME NEW s \in Streams PROVE Local(s)'
      BY <1>1, OthersLocal DEF StreamInv, streamVars, outcome, post, redis, runtime, control, AsItWas
    <2> QED
      BY <2>1, <2>2 DEF StreamInv
  <1>2. CASE StreamNext
    <2>1. PICK s \in Streams : Moves(s)
      BY <1>2 DEF StreamNext, Moves
    <2>2. StreamTypeOK' /\ GaugeCounts'
      BY <2>1, TypeStep, GaugeStep DEF StreamInv
    <2>3. Local(s)'
      BY <2>1, CountedStep, FreshStep, FlowStep, RepliedStep DEF StreamInv, Local
    <2>4. ASSUME NEW t \in Streams, t # s PROVE Local(t)'
      BY <2>1, <2>4, OthersStay, OthersLocal DEF StreamInv
    <2> QED
      BY <2>2, <2>3, <2>4 DEF StreamInv
  <1> QED
    BY <1>1, <1>2

\* The relay, its counts and the reply agree: the invariant the rest is read from.
THEOREM RelayInvariant == StreamSpec => []StreamInv
  BY StreamInitInv, StreamNextInv, PTL DEF StreamSpec

\* Every variable keeps its type, with no bound on the counters.
THEOREM StreamTypeCorrect == StreamSpec => []StreamTypeOK
  <1>1. StreamInv => StreamTypeOK
    BY DEF StreamInv
  <1> QED
    BY <1>1, RelayInvariant, PTL

\* drive_stream's result holds every chunk a watching client was shown, and a
\* complete one all that the runtime wrote.
THEOREM AnswerIsWhole == StreamSpec => []AnswerHoldsShown
  <1>1. StreamInv => AnswerHoldsShown
    <2> SUFFICES ASSUME StreamInv, NEW s \in Streams, Answered(s), at[s] = "finished"
                 PROVE  /\ answer[s].chunks >= shown[s]
                        /\ answer[s].status = "complete" => answer[s].chunks = emitted[s]
      BY DEF AnswerHoldsShown
    <2>1. answer[s].chunks = buffer[s] /\ answer[s].status = Outcome(s)
      BY DEF StreamInv, Local, Counted, Replied
    <2>2. shown[s] \in Nat /\ buffer[s] \in Nat /\ shown[s] <= buffer[s]
      BY DEF StreamInv, StreamTypeOK, Local, Counted
    <2>3. Outcome(s) = "complete" => buffer[s] = emitted[s]
      BY DEF StreamInv, Local, Whole, Outcome
    <2> QED
      BY <2>1, <2>2, <2>3
  <1> QED
    BY <1>1, RelayInvariant, PTL

\* No stream that is over is left "streaming", and begin() and end() pair up
\* on the gauge, whatever ended the stream.
THEOREM OverIsMarked == StreamSpec => []NotLeftStreaming
  <1>1. StreamInv => NotLeftStreaming
    BY DEF StreamInv, GaugeCounts, Local, Replied, NotLeftStreaming
  <1> QED
    BY <1>1, RelayInvariant, PTL

=============================================================================

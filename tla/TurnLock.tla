------------------------------ MODULE TurnLock ------------------------------
(***************************************************************************)
(* What the runtime's session mutex promises, without its queue, its       *)
(* session map or its HTTP server: requests enter a lock and wait for it,  *)
(* at most one of them holds it, and a lock that is given up goes straight *)
(* to one of the requests that wait for it.  A crash of the process sends  *)
(* every request it had accepted to "gone".                                *)
(***************************************************************************)
CONSTANTS Requests,  \* the requests that may ask for a lock
          Locks,     \* the locks
          NoLock     \* the lock of a request that has not asked for one

VARIABLES phase,     \* [Requests -> Phases]
          lockOf     \* [Requests -> Locks \cup {NoLock}]

vars == <<phase, lockOf>>

Phases == {"idle", "waiting", "holding", "gone"}

Init == /\ phase = [r \in Requests |-> "idle"]
        /\ lockOf = [r \in Requests |-> NoLock]

Free(l) == \A r \in Requests : ~(phase[r] = "holding" /\ lockOf[r] = l)

Waiting(l) == {r \in Requests : phase[r] = "waiting" /\ lockOf[r] = l}

\* A request takes a free lock at once and waits for a held one.
Enter(r, l) == /\ phase[r] = "idle"
               /\ lockOf' = [lockOf EXCEPT ![r] = l]
               /\ phase' = [phase EXCEPT ![r] =
                              IF Free(l) THEN "holding" ELSE "waiting"]

\* The holder goes and nobody waits: the lock becomes free.
LeaveFree(r) == /\ phase[r] = "holding"
                /\ Waiting(lockOf[r]) = {}
                /\ phase' = [phase EXCEPT ![r] = "gone"]
                /\ UNCHANGED lockOf

\* The holder goes and one of those that wait holds the lock in the same step.
HandOver(r, s) == /\ phase[r] = "holding"
                  /\ s \in Waiting(lockOf[r])
                  /\ phase' = [phase EXCEPT ![r] = "gone", ![s] = "holding"]
                  /\ UNCHANGED lockOf

\* The process that owns the locks dies, and every request it held with it.
Die == /\ phase' = [r \in Requests |->
                      IF phase[r] \in {"waiting", "holding"} THEN "gone" ELSE phase[r]]
       /\ UNCHANGED lockOf

Next == \/ \E r \in Requests : \E l \in Locks : Enter(r, l)
        \/ \E r \in Requests : LeaveFree(r)
        \/ \E r, s \in Requests : HandOver(r, s)
        \/ Die

Spec == Init /\ [][Next]_vars
=============================================================================

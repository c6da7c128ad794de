------------------------------ MODULE Timeline ------------------------------
(***************************************************************************)
(* What undo and redo promise: a line of states with a cursor on it.  A    *)
(* new state cuts off what stands behind the cursor; the line forgets its  *)
(* oldest state once it holds more than MaxHistory before the cursor.      *)
(***************************************************************************)
EXTENDS Naturals, Sequences

CONSTANT MaxHistory

VARIABLES line, pos

Bounded(s) == IF Len(s) > MaxHistory + 1 THEN Tail(s) ELSE s

Init == line = <<line[1]>> /\ pos = 1

\* The new state is the one the cursor ends on.
Commit == /\ pos' = Len(line')
          /\ line' = Bounded(SubSeq(line, 1, pos) \o <<line'[pos']>>)
Undo == pos > 1 /\ pos' = pos - 1 /\ UNCHANGED line
Redo == pos < Len(line) /\ pos' = pos + 1 /\ UNCHANGED line
Restart == pos' = 1 /\ line' = <<line'[1]>>

Next == Commit \/ Undo \/ Redo \/ Restart
=============================================================================

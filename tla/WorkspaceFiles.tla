--------------------------- MODULE WorkspaceFiles ---------------------------
(***************************************************************************)
(* The file operations of the agent runtime's workspace routes             *)
(* (runtime/src/workspace.ts and the /workspace routes of server.ts).      *)
(*                                                                         *)
(* Every operation is synchronous, so each is an operator: the code of its *)
(* answer (`...Code`) and, for those that write, the directory tree it     *)
(* leaves (`After...`).  A path is the sequence of its names.  The heads   *)
(* .claude and .venv are bases of their own, redirected to the agent's     *)
(* directory; the empty path and those heads are base directories, which   *)
(* resolvePath creates whenever it is called.                              *)
(***************************************************************************)
EXTENDS Naturals, Sequences

CONSTANTS Paths,         \* the paths of entries (not the bases)
          VirtualHeads,  \* the names .claude and .venv
          Nothing        \* null and undefined

(* The tree: an entry for every path.  "none" is a path where nothing is;  *)
(* a file has its contents and its modification time in whole milliseconds.*)
NoEntry == [kind |-> "none"]
Dir == [kind |-> "dir"]
Link == [kind |-> "link"]
File(content, mtime) == [kind |-> "file", content |-> content, mtime |-> mtime]

Parent(p) == SubSeq(p, 1, Len(p) - 1)
IsBase(p) == p = <<>> \/ (Len(p) = 1 /\ p[1] \in VirtualHeads)
Base(p) == IF p # <<>> /\ p[1] \in VirtualHeads THEN p[1] ELSE Nothing
Below(p, q) == Len(q) < Len(p) /\ SubSeq(p, 1, Len(q)) = q
Above(p) == {SubSeq(p, 1, n) : n \in 1 .. (Len(p) - 1)}

\* The paths are sequences of names, no bases, and closed under what is above.
ASSUME PathsAssumption ==
  /\ Paths \subseteq Seq(STRING)
  /\ \A p \in Paths : ~IsBase(p) /\ \A q \in Above(p) : IsBase(q) \/ q \in Paths

Kind(fs, p) == IF IsBase(p) THEN "dir" ELSE fs[p].kind
Children(fs, p) == {q \in Paths : Parent(q) = p /\ fs[q].kind # "none"}
Mtime(fs, p) == IF fs[p].kind = "file" THEN fs[p].mtime ELSE Nothing

\* mkdirSync(recursive) of p's directory: it stops at an ancestor that is no
\* directory, and makes the missing ones.
Blocked(fs, p) == \E q \in Above(p) : Kind(fs, q) \notin {"dir", "none"}
WithParents(fs, p) ==
  [q \in Paths |-> IF q \in Above(p) /\ fs[q].kind = "none" THEN Dir ELSE fs[q]]

---------------------------------------------------------------------------
\* readFile, statFile, openDownloadStream.  `large` is over the byte limit.
ReadCode(fs, p) == CASE Kind(fs, p) = "none" -> "not_found"
                     [] Kind(fs, p) = "link" -> "invalid_path"
                     [] Kind(fs, p) = "dir"  -> "not_a_file"
                     [] OTHER -> "ok"

\* listTree: its code and the entries listed, links and hidden ones left out.
ListCode(fs, p) == CASE Kind(fs, p) = "none" -> "not_found"
                     [] Kind(fs, p) = "link" -> "invalid_path"
                     [] Kind(fs, p) = "file" -> "not_a_directory"
                     [] OTHER -> "ok"
Listed(fs, p, hidden) ==
  {q \in Children(fs, p) : /\ fs[q].kind \in {"dir", "file"}
                           /\ fs[q].kind = "dir" => q \notin hidden}

\* writeFile.  Without overwrite the caller says what it last read, a time or
\* nothing; a file that is not as it says is refused.
Unchecked(fs, p, expected) == FALSE   \* a plausible bug: the comparison is dropped
Stale(fs, p, expected) == Mtime(fs, p) # expected
WriteCode(fs, p, expected, overwrite) ==
  CASE IsBase(p) \/ Kind(fs, p) = "link" -> "invalid_path"
    [] Kind(fs, p) = "dir" -> "not_a_file"
    [] ~overwrite /\ expected # Nothing /\ Stale(fs, p, expected) -> "stale"
    [] ~overwrite /\ expected = Nothing /\ Kind(fs, p) = "file" -> "exists"
    [] Blocked(fs, p) -> "internal"
    [] OTHER -> "ok"
AfterWrite(fs, p, content, mtime) ==
  [WithParents(fs, p) EXCEPT ![p] = File(content, mtime)]

\* createDirectory: mkdirSync without recursive.
MakeDirCode(fs, p) == CASE IsBase(p) -> "invalid_path"
                        [] Kind(fs, p) # "none" -> "exists"
                        [] Kind(fs, Parent(p)) = "none" -> "not_found"
                        [] Kind(fs, Parent(p)) # "dir" -> "internal"
                        [] OTHER -> "ok"
AfterMakeDir(fs, p) == [fs EXCEPT ![p] = Dir]

\* deleteEntry: a directory that is not empty needs recursive.
Full(fs, p) == Kind(fs, p) = "dir" /\ Children(fs, p) # {}
DeleteCode(fs, p, recursive) == CASE IsBase(p) \/ Kind(fs, p) = "link" -> "invalid_path"
                                  [] Kind(fs, p) = "none" -> "not_found"
                                  [] ~recursive /\ Full(fs, p) -> "not_empty"
                                  [] OTHER -> "ok"
UnlinkOnly(fs, p) == [fs EXCEPT ![p] = NoEntry]  \* a plausible bug: rmdir for rmSync
AfterDelete(fs, p) ==
  [q \in Paths |-> IF q = p \/ Below(q, p) THEN NoEntry ELSE fs[q]]

\* moveEntry: it never replaces an entry; a rename into itself fails, after
\* the directories of the destination were made.
Occupied(fs, p) == Kind(fs, p) # "none"
MoveCode(fs, from, to) ==
  CASE IsBase(from) \/ IsBase(to) \/ Base(from) # Base(to) -> "invalid_path"
    [] Kind(fs, from) = "none" -> "not_found"
    [] Kind(fs, from) = "link" -> "invalid_path"
    [] Occupied(fs, to) -> "exists"
    [] Blocked(fs, to) \/ Below(to, from) -> "internal"
    [] OTHER -> "ok"
Tail_(q, p) == SubSeq(q, Len(p) + 1, Len(q))
AfterMove(fs, from, to) ==
  LET made == WithParents(fs, to) IN
    [q \in Paths |->
       IF q = to \/ Below(q, to)
         THEN IF from \o Tail_(q, to) \in Paths THEN made[from \o Tail_(q, to)] ELSE NoEntry
         ELSE IF q = from \/ Below(q, from) THEN NoEntry ELSE made[q]]

\* A bound on the moves: the paths of what is moved exist in this instance.
Fits(fs, from, to) ==
  \A q \in Paths : Below(q, from) /\ fs[q].kind # "none" => to \o Tail_(q, from) \in Paths

---------------------------------------------------------------------------
\* Every entry stands in a directory.
WellFormed(fs) ==
  \A p \in Paths : fs[p].kind # "none" => \A q \in Above(p) : Kind(fs, q) = "dir"
=============================================================================

------------------------------ MODULE TreeWalk ------------------------------
(***************************************************************************)
(* The two programs that walk a file tree and count its files by type:     *)
(*   myftw        4/7    keeps the path of the file it looks at            *)
(*   myftw_chdir  4/12   changes into every directory and back with ".."   *)
(* while another process may move a file or a directory.  counted says how *)
(* often each file was counted, whatever the counter of its type is.       *)
(*                                                                         *)
(* The tree is given by the parent, kind, permissions and name of every    *)
(* node.  opendir takes the names of the directory; readdir returns them   *)
(* in any order.                                                           *)
(***************************************************************************)
EXTENDS Integers, Sequences, FiniteSets, SequencesExt

CONSTANTS Trees,      \* the trees: parent, kind, perm and name of the nodes
          MaxMoves    \* moves by another process

root == 0             \* also the directory where the program is started
base == 1             \* the argument
NoNode == -1

VARIABLES walker,     \* which of the programs
          absolute,   \* whether its argument is an absolute path
          tree, moved,
          w           \* the state of the program

Nodes == DOMAIN tree.parent
Entries(d) == {n \in Nodes : tree.parent[n] = d}
IsDir(n) == n = root \/ (n \in Nodes /\ tree.kind[n] = "dir")
Can(n, p) == n = root \/ p \in tree.perm[n]
Names(d) == {tree.name[n] : n \in Entries(d)}
Above(n) ==
  LET up[m \in Nodes \cup {root}] == IF m = root THEN {root} ELSE {m} \cup up[tree.parent[m]]
  IN up[n]
Below(n) == {m \in Nodes : n \in Above(m)}

(* Looking a name up in a directory, and a path from the root on.          *)
Lookup(d, name) ==
  IF IsDir(d) /\ Can(d, "x") /\ name \in Names(d)
  THEN CHOOSE n \in Entries(d) : tree.name[n] = name
  ELSE NoNode

PathOf(n) ==
  LET path[m \in Nodes] ==
        IF tree.parent[m] = root THEN <<tree.name[m]>>
        ELSE Append(path[tree.parent[m]], tree.name[m])
  IN path[n]

Resolve(path) ==
  LET found == {n \in Nodes : PathOf(n) = path /\ \A d \in Above(n) \ {n} : Can(d, "x")}
  IN IF found = {} THEN NoNode ELSE CHOOSE n \in found : TRUE

Argument == tree.name[base]
Base == Lookup(IF absolute THEN root ELSE w.cwd, Argument)

(* 4/7 never changes its directory: for it both kinds of path are alike.   *)
Init ==
  /\ walker \in {"myftw", "myftw_chdir"} /\ absolute \in BOOLEAN
  /\ walker = "myftw" => absolute
  /\ tree \in Trees
  /\ moved = [below |-> {}, struck |-> FALSE, times |-> 0]
  /\ w = [pc |-> IF walker = "myftw" THEN "lstat" ELSE "chdir_base", cwd |-> root,
          pathname |-> <<Argument>>, stack |-> <<>>, st |-> NoNode,
          counted |-> [n \in DOMAIN tree.parent |-> 0]]

Walks(prog, pc) == walker = prog /\ w.pc = pc
Fixed == UNCHANGED <<walker, absolute, tree, moved>>

Top == Last(w.stack)
Count(n) == [w.counted EXCEPT ![n] = @ + 1]

(* The DIR of directory d, with the length of the path at the time.        *)
Pushed(d) == Append(w.stack, [todo |-> Names(d), size |-> Len(w.pathname)])
Taken(name) == [w.stack EXCEPT ![Len(w.stack)].todo = @ \ {name}]

-----------------------------------------------------------------------------
(* 4/7: myftw returns, and its caller cuts the path back.                  *)
Return(s) ==
  IF s.stack = <<>> THEN [s EXCEPT !.pc = "done"]
  ELSE [s EXCEPT !.pc = "readdir", !.pathname = SubSeq(@, 1, Last(s.stack).size)]

lstat ==
  /\ Walks("myftw", "lstat")
  /\ LET n == Resolve(w.pathname)
     IN w' = IF n = NoNode THEN Return(w)
             ELSE IF IsDir(n) THEN [w EXCEPT !.counted = Count(n), !.pc = "opendir"]
             ELSE Return([w EXCEPT !.counted = Count(n)])
  /\ Fixed

opendir ==
  /\ Walks("myftw", "opendir")
  /\ LET d == Resolve(w.pathname)
     IN w' = IF IsDir(d) /\ Can(d, "r")
             THEN [w EXCEPT !.stack = Pushed(d), !.pc = "readdir"]
             ELSE Return(w)
  /\ Fixed

(* The end of the directory is closedir and the return.                    *)
readdir ==
  /\ Walks("myftw", "readdir")
  /\ \/ Top.todo = {} /\ w' = Return([w EXCEPT !.stack = Front(@)])
     \/ \E name \in Top.todo :
          w' = [w EXCEPT !.stack = Taken(name), !.pathname = Append(@, name), !.pc = "lstat"]
  /\ Fixed

-----------------------------------------------------------------------------
(* 4/12: main changes into the argument, and myftw looks it up again.      *)
chdir_base ==
  /\ Walks("myftw_chdir", "chdir_base")
  /\ w' = IF IsDir(Base) /\ Can(Base, "x") THEN [w EXCEPT !.cwd = Base, !.pc = "lstat_base"]
          ELSE [w EXCEPT !.pc = "failed"]
  /\ Fixed

lstat_base ==
  /\ Walks("myftw_chdir", "lstat_base")
  /\ w' = IF Base = NoNode THEN [w EXCEPT !.pc = "done"]
          ELSE [w EXCEPT !.counted = Count(Base), !.pc = IF IsDir(Base) THEN "opendir" ELSE "done"]
  /\ Fixed

(* Back in the loop of the caller, after the chdir("..") that follows the  *)
(* walk of a directory.                                                    *)
Leave(s) == [s EXCEPT !.pc = IF s.stack = <<>> THEN "done" ELSE "chdir_up"]

opendir_here ==
  /\ Walks("myftw_chdir", "opendir")
  /\ LET d == IF w.stack = <<>> THEN Base ELSE w.cwd
     IN w' = IF IsDir(d) /\ Can(d, "r")
             THEN [w EXCEPT !.stack = Pushed(d), !.pc = "readdir"]
             ELSE Leave(w)
  /\ Fixed

(* readdir and the lstat of the name; what is no directory is counted.     *)
readdir_here ==
  /\ Walks("myftw_chdir", "readdir")
  /\ \/ Top.todo = {} /\ w' = Leave([w EXCEPT !.stack = Front(@)])
     \/ \E name \in Top.todo :
          LET n == Lookup(w.cwd, name)
              next == [w EXCEPT !.stack = Taken(name)]
          IN w' = IF n = NoNode THEN next
                  ELSE IF IsDir(n) THEN [next EXCEPT !.st = n, !.pathname = <<name>>, !.pc = "chdir"]
                  ELSE [next EXCEPT !.counted = Count(n)]
  /\ Fixed

chdir ==
  /\ Walks("myftw_chdir", "chdir")
  /\ LET d == Lookup(w.cwd, w.pathname[1])
     IN w' = IF IsDir(d) /\ Can(d, "x")
             THEN [w EXCEPT !.cwd = d, !.counted = Count(w.st), !.pc = "opendir"]
             ELSE [w EXCEPT !.pc = "readdir"]
  /\ Fixed

chdir_up_skipped ==
  /\ Walks("myftw_chdir", "chdir_up")
  /\ w' = [w EXCEPT !.pc = "readdir"]
  /\ Fixed

chdir_up ==
  /\ Walks("myftw_chdir", "chdir_up")
  /\ LET up == IF w.cwd = root THEN root ELSE tree.parent[w.cwd]
     IN w' = [w EXCEPT !.cwd = IF Can(w.cwd, "x") /\ Can(up, "x") THEN up ELSE @, !.pc = "readdir"]
  /\ Fixed

WalkStep == \/ lstat \/ opendir \/ readdir \/ chdir_base \/ lstat_base
            \/ opendir_here \/ readdir_here \/ chdir \/ chdir_up

(* Another process moves n, with all below it, to another directory.       *)
Move ==
  /\ moved.times < MaxMoves /\ w.pc \notin {"done", "failed"}
  /\ \E n \in Nodes, d \in {root} \cup Nodes :
       /\ IsDir(d) /\ d \notin Below(n) /\ d # tree.parent[n] /\ tree.name[n] \notin Names(d)
       /\ tree' = [tree EXCEPT !.parent[n] = d]
       /\ moved' = [times |-> moved.times + 1, below |-> moved.below \cup Below(n),
                    struck |-> moved.struck \/ w.cwd \in Below(n)]
  /\ UNCHANGED <<walker, absolute, w>>

Next == WalkStep \/ Move

-----------------------------------------------------------------------------
(* What is to be counted: the argument, and whatever is in a directory     *)
(* that is counted and may be read and searched; for 4/12 a directory that *)
(* may not be searched does not count.                                     *)
Reached(n) ==
  /\ base \in Above(n)
  /\ \A d \in Above(n) \ {n} : base \in Above(d) => Can(d, "r") /\ Can(d, "x")
  /\ walker = "myftw_chdir" /\ IsDir(n) => Can(n, "x")

(* A walk counts each file once, in whatever order the directories list    *)
(* them, and comes back to the path or the directory it has started with.  *)
(* A move takes from or adds to the count only what was moved; but a move  *)
(* of a directory that 4/12 is in leads its chdir("..") (4/12:107)         *)
(* elsewhere.  Given a relative path, 4/12 looks for it inside itself      *)
(* (4/12:44, 59) and counts nothing unless it finds it there.              *)
WalkCounts ==
  LET astray == walker = "myftw_chdir" /\ (moved.struck \/ ~absolute)
  IN /\ ~astray => \A n \in Nodes \ moved.below : w.counted[n] <= 1
     /\ w.pc = "done" /\ ~astray =>
          \A n \in Nodes \ moved.below : w.counted[n] = 1 <=> Reached(n)
     /\ w.pc = "done" => IF walker = "myftw" THEN w.pathname = <<Argument>>
                         ELSE astray \/ w.cwd = base
     /\ walker = "myftw_chdir" /\ ~absolute /\ tree.name[base] \notin Names(base) /\ moved.times = 0 =>
          \A n \in Nodes : w.counted[n] = 0

(* Every walk ends, also when directories move.                            *)
WalkEnds == <>(w.pc \in {"done", "failed"})
=============================================================================

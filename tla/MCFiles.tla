------------------------------ MODULE MCFiles ------------------------------
(***************************************************************************)
(* One run for the programs that read files: the two converters of chapter *)
(* 14 on the same input, the programs that copy, and the two that walk a   *)
(* tree.                                                                   *)
(***************************************************************************)
EXTENDS Rot13Both, TLC

CONSTANTS Sources, BUFF_SIZE, COPYINCR, MAXLINE, BUFSIZ, MaxChanges, Trees, MaxMoves

VARIABLES family,   \* "convert", "copy", "walk"
          program, src, dst, c,
          walker, absolute, tree, moved, w

Copy == INSTANCE CopyPrograms
Walk == INSTANCE TreeWalk

copierVars == <<program, src, dst, c>>
walkerVars == <<walker, absolute, tree, moved, w>>
fileVars == <<family, bothVars, copierVars, walkerVars>>

(* A family that does not run stands still at one of its first states.     *)
FileInit ==
  /\ family \in {"convert", "copy", "walk"}
  /\ family = "convert" \/ infile = <<>>
  /\ family = "copy" \/ (program = "cp_holes" /\ src = <<<<>>>>)
  /\ family = "walk" \/ (walker = "myftw" /\ absolute = TRUE /\ tree = CHOOSE t \in Trees : TRUE)
  /\ InitBoth /\ Copy!Init /\ Walk!Init

convert(A) == family = "convert" /\ A /\ UNCHANGED <<family, copierVars, walkerVars>>
copying(A) == family = "copy" /\ A /\ UNCHANGED <<family, bothVars, walkerVars>>
walk(A) == family = "walk" /\ A /\ UNCHANGED <<family, bothVars, copierVars>>

FileNext == convert(NextBoth) \/ copying(Copy!Next) \/ walk(Walk!Next)

(* The programs run, the kernel completes every request, and whoever reads *)
(* the pipe of 14/1 goes on.                                               *)
FileSpec ==
  /\ FileInit /\ [][FileNext]_fileVars
  /\ WF_fileVars(convert(first)) /\ WF_fileVars(convert(second(main)))
  /\ \A i \in Requests : WF_fileVars(convert(second(Complete(i))))
  /\ WF_fileVars(copying(Copy!CopyStep)) /\ WF_fileVars(copying(Copy!Drain))
  /\ WF_fileVars(walk(Walk!WalkStep))

-----------------------------------------------------------------------------
(* A copy holds what it should (CopyPrograms), and the two converters make *)
(* the same file of the same input, unless 14/7 overlooked an error.       *)
CopiesRight == Copy!CopiesRight /\ SameOutput

(* The property of TreeWalk: which files a walk counts.                    *)
WalkCounts == Walk!WalkCounts

(* 14/7 and 14/8 end, and so does every copy and every walk.               *)
FilesEnd ==
  /\ family = "convert" => BothTerminate
  /\ family = "copy" => Copy!CopyEnds
  /\ family = "walk" => Walk!WalkEnds

-----------------------------------------------------------------------------
(* Input files of every length up to two blocks more than the queue holds, *)
(* made of the letters at the boundaries of translate.                     *)
Text == <<65, 110, 78, 122, 64, 109, 97, 90>>   \* A n N z @ m a Z
MCInFiles == {SubSeq(Text, 1, n) : n \in 0..Len(Text)}

(* Every file of up to two blocks of zeros, newlines and another byte, and *)
(* some pairs of files.                                                    *)
Files == UNION {[1..n -> {0, 1, 10}] : n \in 0..4}
MCSources == {<<f>> : f \in Files} \cup {<<f, g>> : f, g \in {<<1, 0, 0>>, <<0, 1, 1, 0>>}}

(* Every tree of three nodes besides the argument, up to the order of its  *)
(* nodes, which readdir does not keep anyway; at most one of them is a     *)
(* directory that cannot be read or searched, and a node under the         *)
(* argument has its name or none has.                                      *)
N == 1..4
All == {"r", "x"}
Shapes == {p \in [N -> 0..3] : p[1] = 0 /\ p[3] \in {1, 2} /\
                             \/ p[2] = 1 /\ (p[3] = 1 => p[4] # 3) /\ (p[3] = 2 => p[4] # 1)
                             \/ p[2] = 0 /\ p[3] = 2 /\ p[4] = 3}
Kinds(p) == {k \in [N -> {"dir", "reg"}] : \A n \in N : p[n] = 0 \/ k[p[n]] = "dir"}
Perms(k) == {[n \in N |-> All]}
            \cup {[[n \in N |-> All] EXCEPT ![d] = {x}] : d \in {n \in N : k[n] = "dir"}, x \in All}
Named(p, perm) == {[n \in N |-> ToString(n)]}
               \cup {[[n \in N |-> ToString(n)] EXCEPT ![m] = "1"] :
                       m \in {l \in {2, 3} : p[l] = 1 /\ \A n \in N : perm[n] = All}}
MCTrees ==
  UNION {UNION {UNION {[parent : {p}, kind : {k}, perm : {perm}, name : Named(p, perm)] :
                         perm \in Perms(k)} : k \in Kinds(p)} : p \in Shapes}
=============================================================================

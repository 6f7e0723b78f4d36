------------------------------ MODULE Skeleton ------------------------------
(***************************************************************************)
(* bloop.cpp's skeleton builder (BuildLMSkeleton, FindOrCreateFileNode,    *)
(* FindOrCreateProcNode) and the file filter (FilterFilesFromStrctTree)   *)
(* that BuildLMStructure runs on its result.                              *)
(*                                                                         *)
(* The binutils procedures of the load module are the input procs, in the *)
(* order of lm->procs() (by entry address).  Struct::Proc nodes are named *)
(* by the index of the binutils procedure that created them; a File node  *)
(* by its file name.  Names, file names and line numbers are small sets   *)
(* of values; realpath() and basename() are functions given as constants. *)
(***************************************************************************)
EXTENDS Naturals, FiniteSets, Sequences

CONSTANTS
  Inputs,     \* the possible sequences of binutils procedures
  Orphan,     \* OrphanedProcedureFile, the per-module sentinel file name
  NoFile,     \* the empty string as a file name
  RealPath,   \* RealPath[f]: what LM::realpath makes of file name f
  BaseName,   \* BaseName[f]: FileUtil::basename(f)
  Filtering,  \* a non-empty canonicalPathList was given
  Findable,   \* the base names that can be found on the canonical paths
  NoNode      \* a NULL Struct::ANode*

VARIABLES
  procs,      \* the binutils procedures, fixed for a run
  phase,      \* "scaffold", "nest", "filter" or "done"
  i,          \* loop index into procs (scaffold) or mp (nest)
  files,      \* the File nodes under the LM
  made,       \* the Struct::Proc nodes created
  pfile,      \* pfile[k]: the file a Struct::Proc was created in
  lines,      \* lines[k]: [beg, end] of Struct::Proc k
  vmaSet,     \* vmaSet[k]: the address intervals <<lo, hi>> of k
  parent,     \* parent[k]: a file name, a Struct::Proc, or NoNode
  mp,         \* the ProcStrctToProcMap: <<Struct::Proc, binutils index>>
  onPath      \* the base names pathfind finds in the canonical path list

vars == <<procs, phase, i, files, made, pfile, lines, vmaSet, parent, mp, onPath>>

PIds == UNION {DOMAIN s : s \in Inputs}

Max2(a, b) == IF a >= b THEN a ELSE b

Init ==
  /\ procs \in Inputs
  /\ phase = "scaffold"
  /\ i = 1
  /\ files = {}
  /\ made = {}
  /\ pfile = [k \in PIds |-> NoFile]
  /\ lines = [k \in PIds |-> [beg |-> 0, end |-> 0]]
  /\ vmaSet = [k \in PIds |-> {}]
  /\ parent = [k \in PIds |-> NoNode]
  /\ mp = << >>
  /\ onPath \in SUBSET Findable

------------------------------------------------------------------------------
(* FindOrCreateFileNode: the procedure's own file name through realpath;  *)
(* if that is empty, the file name debug info gives for its entry address *)
(* (not passed through realpath); if that is empty too, Orphan.           *)
FileNameOf(p) ==
  IF RealPath[p.file] # NoFile THEN RealPath[p.file]
  ELSE IF p.dbgFile # NoFile THEN p.dbgFile
  ELSE Orphan

(* FindOrCreateProcNode's line bounds: a procedure with symbolic info     *)
(* takes its declared begin line, otherwise the begin line of its entry   *)
(* instruction; the end line is the larger of that and the last           *)
(* instruction's line.                                                    *)
BegLnOf(p) == IF p.sym THEN p.begLine ELSE p.begLn1
EndLnOf(p) == Max2(BegLnOf(p), p.endLn1)

(* Struct::File::FindProc(procNm, procLnNm) in the file. *)
FindProc(f, p) ==
  {k \in made : pfile[k] = f /\ procs[k].name = p.name /\ procs[k].lname = p.lname}

(* The split-procedure branch of FindOrCreateProcNode, without the line   *)
(* expansion.                                                             *)
FindOrCreateProcNode_noExpand(k, p) ==
  /\ lines' = lines
  /\ vmaSet' = [vmaSet EXCEPT ![k] = @ \cup {<<p.vma, p.vma + p.size>>}]

(* The split-procedure branch: fuse the new piece into node k. *)
FindOrCreateProcNode(k, p) ==
  /\ lines' = [lines EXCEPT ![k] =
                 IF BegLnOf(p) = 0 THEN @
                 ELSE IF @.beg = 0 THEN [beg |-> BegLnOf(p), end |-> EndLnOf(p)]
                 ELSE [beg |-> IF BegLnOf(p) < @.beg THEN BegLnOf(p) ELSE @.beg,
                       end |-> Max2(EndLnOf(p), @.end)]]
  /\ vmaSet' = [vmaSet EXCEPT ![k] = @ \cup {<<p.vma, p.vma + p.size>>}]

(* BuildLMSkeleton, loop 1, for procedure i: skip it if its size is 0;   *)
(* otherwise find or create its File and its Struct::Proc and record the *)
(* pair in mp.                                                            *)
Scaffold ==
  LET p == procs[i]
      f == FileNameOf(p)
  IN
  /\ phase = "scaffold" /\ i <= Len(procs)
  /\ IF p.size = 0
       THEN UNCHANGED <<files, made, pfile, lines, vmaSet, parent, mp>>
       ELSE /\ files' = files \cup {f}
            /\ IF FindProc(f, p) = {}
                 THEN /\ made' = made \cup {i}
                      /\ pfile' = [pfile EXCEPT ![i] = f]
                      /\ parent' = [parent EXCEPT ![i] = f]
                      /\ lines' = [lines EXCEPT ![i] =
                                     [beg |-> BegLnOf(p), end |-> EndLnOf(p)]]
                      /\ vmaSet' = [vmaSet EXCEPT ![i] = {<<p.vma, p.vma + p.size>>}]
                      /\ mp' = Append(mp, <<i, i>>)
                 ELSE LET k == CHOOSE k \in FindProc(f, p) : TRUE IN
                      /\ FindOrCreateProcNode(k, p)
                      /\ mp' = Append(mp, <<k, i>>)
                      /\ UNCHANGED <<made, pfile, parent>>
  /\ i' = i + 1
  /\ UNCHANGED <<procs, phase, onPath>>

StartNest ==
  /\ phase = "scaffold" /\ i > Len(procs)
  /\ phase' = "nest" /\ i' = 1
  /\ UNCHANGED <<procs, files, made, pfile, lines, vmaSet, parent, mp, onPath>>

(* Struct::LM::findProc(vma): the Struct::Proc whose address intervals   *)
(* contain vma, or NULL.                                                 *)
FindProcAt(vma) ==
  LET hit == {k \in made : \E iv \in vmaSet[k] : iv[1] <= vma /\ vma < iv[2]}
  IN  IF hit = {} THEN NoNode ELSE CHOOSE k \in hit : TRUE

(* Looking up the procedure's own entry address instead of its parent's. *)
Nest_ownVma ==
  LET k == mp[i][1]
      p == procs[mp[i][2]]
  IN
  /\ phase = "nest" /\ i <= Len(mp)
  /\ parent' = IF p.parent # 0
                 THEN [parent EXCEPT ![k] = FindProcAt(p.vma)]
                 ELSE parent
  /\ i' = i + 1
  /\ UNCHANGED <<procs, phase, files, made, pfile, lines, vmaSet, mp, onPath>>

(* BuildLMSkeleton, loop 2, for the i-th pair of mp: a procedure with a  *)
(* parent is unlinked and linked under the Struct::Proc holding its      *)
(* parent's entry address (Link(NULL) leaves it detached).               *)
Nest ==
  LET k == mp[i][1]
      p == procs[mp[i][2]]
  IN
  /\ phase = "nest" /\ i <= Len(mp)
  /\ parent' = IF p.parent # 0
                 THEN [parent EXCEPT ![k] = FindProcAt(procs[p.parent].vma)]
                 ELSE parent
  /\ i' = i + 1
  /\ UNCHANGED <<procs, phase, files, made, pfile, lines, vmaSet, mp, onPath>>

(* BuildLMStructure filters files only when given a canonical path list. *)
StartFilter ==
  /\ phase = "nest" /\ i > Len(mp)
  /\ phase' = IF Filtering THEN "filter" ELSE "done"
  /\ UNCHANGED <<procs, i, files, made, pfile, lines, vmaSet, parent, mp, onPath>>

(* The Struct::Procs in the subtree of node n (a file or a procedure). *)
RECURSIVE Below(_, _)
Below(n, ks) ==
  LET kids == {k \in ks : parent[k] = n}
  IN  kids \cup UNION {Below(k, ks \ kids) : k \in kids}

(* FilterFilesFromStrctTree, for one File: unless pathfind finds its base *)
(* name, unlink and delete it with everything below it.                   *)
FilterFile(f) ==
  /\ phase = "filter" /\ f \in files
  /\ BaseName[f] \notin onPath
  /\ files' = files \ {f}
  /\ made' = made \ Below(f, made)
  /\ UNCHANGED <<procs, phase, i, pfile, lines, vmaSet, parent, mp, onPath>>

(* The iterator has passed the last File. *)
FilterDone ==
  /\ phase = "filter"
  /\ \A f \in files : BaseName[f] \in onPath
  /\ phase' = "done"
  /\ UNCHANGED <<procs, i, files, made, pfile, lines, vmaSet, parent, mp, onPath>>

Terminated == phase = "done" /\ UNCHANGED vars

Next ==
  \/ Scaffold \/ StartNest \/ Nest \/ StartFilter
  \/ \E f \in files : FilterFile(f)
  \/ FilterDone \/ Terminated

Spec == Init /\ [][Next]_vars /\ WF_vars(Next)

------------------------------------------------------------------------------
(* The Struct::Proc that binutils procedure j was scaffolded into. *)
NodeOf(j) == CHOOSE k \in PIds : \E n \in 1..Len(mp) : mp[n] = <<k, j>>

Pieces == {j \in DOMAIN procs : procs[j].size # 0}

InTree(k) == \E f \in files : k \in Below(f, made)

(* Spec 8, procedure fusion: once the procedures are scaffolded, each     *)
(* (file, name, link name) has one Struct::Proc, and it holds the address *)
(* bound and covers the line range of every binutils procedure that was   *)
(* fused into it.                                                         *)
ProcsFused ==
  phase = "nest" =>
    /\ \A k1, k2 \in made : k1 # k2 =>
         <<pfile[k1], procs[k1].name, procs[k1].lname>>
           # <<pfile[k2], procs[k2].name, procs[k2].lname>>
    /\ \A j \in Pieces :
         LET k == NodeOf(j)
             p == procs[j]
         IN
         /\ pfile[k] = FileNameOf(p)
         /\ <<p.vma, p.vma + p.size>> \in vmaSet[k]
         /\ BegLnOf(p) # 0 =>
              lines[k].beg <= BegLnOf(p) /\ EndLnOf(p) <= lines[k].end

(* Spec 4.1: after BuildLMStructure every Struct::Proc of a procedure     *)
(* that declares a parent hangs, through its parent links, under the      *)
(* Struct::Proc of that parent and under a File of the tree.              *)
NestedUnderParent ==
  phase = "done" =>
    \A j \in Pieces :
      LET q == procs[j].parent IN
      q # 0 /\ NodeOf(j) \in made =>
        /\ InTree(NodeOf(j))
        /\ procs[q].size # 0 => NodeOf(j) \in Below(NodeOf(q), made)

(* Filtering drops the files pathfind does not find, and only those: the *)
(* Struct::Proc of every procedure whose own file is accepted is still in *)
(* the tree when BuildLMStructure moves on to normalization.              *)
AcceptedProcsKept ==
  phase = "done" =>
    \A j \in Pieces :
      ~Filtering \/ BaseName[FileNameOf(procs[j])] \in onPath =>
        NodeOf(j) \in made /\ InTree(NodeOf(j))

(* Spec 3: a node's begin line is 0 exactly when its end line is. *)
LineBoundsPaired ==
  \A k \in made : lines[k].beg = 0 <=> lines[k].end = 0

(* Spec 3: a File node is keyed by its canonicalized file name. *)
FilesCanonical ==
  \A f \in files : f = Orphan \/ RealPath[f] = f

=============================================================================

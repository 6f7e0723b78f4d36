----------------------- MODULE CoalesceDuplicateStmts -----------------------
(***************************************************************************)
(* The duplicate-statement coalescing pass of the structure normalizer,    *)
(* bloop.cpp CoalesceDuplicateStmts / CDS_Main / CDS_InspectStmt.          *)
(*                                                                         *)
(* The recursion is an explicit stack of frames, one per active call of    *)
(* CoalesceDuplicateStmts(scope, ..., level).  A frame's iterator over the *)
(* children of its scope is the set 'done' of children already handled    *)
(* and the position 'cur'; the next child is any child not yet handled,   *)
(* since the tree library re-sorts children by line on every merge and the *)
(* model does not fix that order.  The CDS_RestartException is the        *)
(* variable restartAt: while it is set, frames unwind until the one whose  *)
(* scope is the thrown node, which starts over on that node.               *)
(***************************************************************************)
EXTENDS Naturals, FiniteSets, Sequences, StructTree

CONSTANTS
  Root,       \* the Proc at the top of the modelled tree
  SortIds,    \* the statement sort keys that occur (source lines)
  UnsafeModes, \* the values CDS_unsafeNormalizations may be given
  InitParent, \* the trees the loop-nest builder may hand over
  InitSortId, \* the sort keys it may give the statements
  InitLines   \* the line ranges it may give the nodes

ASSUME UnsafeModes \subseteq BOOLEAN

VARIABLES
  parent,     \* ANode::Parent links; NoNode once unlinked
  vma,        \* vmaSet() of each node, as a set of addresses
  lines,      \* [begLine, endLine] of each node (0 = no line information)
  sortId,     \* Stmt::sortId()
  deleted,    \* nodes unlinked and deleted
  smap,       \* SortIdToStmtMap: sortId -> StmtData(stmt, level)
  visited,    \* visitedScopes
  toDelete,   \* nodes whose deletion is deferred to the end of the scope
  stack,      \* active CoalesceDuplicateStmts calls, innermost last
  restartAt,  \* node carried by an in-flight CDS_RestartException
  pending,    \* Proc/Alien scopes the top-level iterator has yet to visit
  unsafe      \* CDS_unsafeNormalizations: apply Case 2 (cross-loop) merges

vars == <<parent, vma, lines, sortId, deleted, smap, visited, toDelete, stack,
          restartAt, pending, unsafe>>

Stmts   == NodesOfKind("Stmt")
NoEntry == [stmt |-> NoNode, level |-> 0]

(* CDS_ScopeFilter: the pass runs once on each Proc and each Alien. *)
IsCDSScope(n) == Kind[n] \in {"Proc", "Alien"}

InTree(n) == n = Root \/ Root \in AncestorsOf(parent, n)

Top == stack[Len(stack)]
SetTop(f) == [stack EXCEPT ![Len(stack)] = f]
Pop == SubSeq(stack, 1, Len(stack) - 1)
NewFrame(scope, level) ==
  [scope |-> scope, level |-> level, done |-> {}, cur |-> NoNode]

(* The iterator stands on a child that has been handled, or on none yet. *)
IterReady(f) == f.cur = NoNode \/ f.cur \in f.done

(* ++it after a child has been handled. *)
Advance == stack' = SetTop([Top EXCEPT !.done = @ \cup {Top.cur}])

-----------------------------------------------------------------------------
Init ==
  /\ parent \in InitParent
  /\ sortId \in InitSortId
  /\ lines \in InitLines
  /\ vma = [n \in Node |-> IF Kind[n] = "Alien" THEN {} ELSE {n}]
  /\ deleted = {}
  /\ smap = [s \in SortIds |-> NoEntry]
  /\ visited = {}
  /\ toDelete = {}
  /\ stack = << >>
  /\ restartAt = NoNode
  /\ pending = {n \in Node : IsCDSScope(n) /\ InTree(n)}
  /\ unsafe \in UnsafeModes

(* CoalesceDuplicateStmts on the whole tree: its ANodeIterator reaches the *)
(* next Proc or Alien in preorder and runs the pass on it at level 1.       *)
BeginScope ==
  /\ stack = << >> /\ visited = {}
  /\ \E r \in pending :
       /\ AncestorsOf(parent, r) \cap pending = {}
       /\ stack' = << NewFrame(r, 1) >>
       /\ pending' = pending \ {r}
  /\ UNCHANGED <<parent, vma, lines, sortId, deleted, smap, visited, toDelete,
                 restartAt>>

(* CDS_Main loop: a child already marked for deletion, or an Alien (which  *)
(* gets a pass of its own), is passed over.                                 *)
SkipChild ==
  /\ stack # << >> /\ restartAt = NoNode
  /\ IterReady(Top)
  /\ \E c \in ChildrenOf(parent, Top.scope) \ Top.done :
       /\ c \in toDelete \/ Kind[c] = "Alien"
       /\ stack' = SetTop([Top EXCEPT !.done = @ \cup {c}, !.cur = c])
  /\ UNCHANGED <<parent, vma, lines, sortId, deleted, smap, visited, toDelete,
                 restartAt, pending>>

(* CDS_Main step 1: recurse into the child at level + 1; CDS_Main returns  *)
(* at once on a scope already in 'visited'.                                 *)
Descend ==
  /\ stack # << >> /\ restartAt = NoNode
  /\ IterReady(Top)
  /\ \E c \in ChildrenOf(parent, Top.scope) \ Top.done :
       /\ c \notin toDelete /\ Kind[c] # "Alien"
       /\ LET f == [Top EXCEPT !.cur = c]
          IN  stack' = IF c \in visited THEN SetTop(f)
                       ELSE Append(SetTop(f), NewFrame(c, Top.level + 1))
  /\ UNCHANGED <<parent, vma, lines, sortId, deleted, smap, visited, toDelete,
                 restartAt, pending>>

(* End of CDS_Main: every child handled, the scope is 'visited' and the   *)
(* call returns.                                                            *)
Finish ==
  /\ stack # << >> /\ restartAt = NoNode
  /\ IterReady(Top)
  /\ ChildrenOf(parent, Top.scope) \subseteq Top.done
  /\ stack' = Pop
  /\ visited' = visited \cup {Top.scope}
  /\ UNCHANGED <<parent, vma, lines, sortId, deleted, smap, toDelete, restartAt,
                 pending>>

(* DeleteContents: unlink every node of s from the tree, then delete it. *)
ParentAfterDelete(p, s) ==
  [x \in Node |-> IF x \in s THEN NoNode ELSE p[x]]

(* Mutant: stmtMap.clear() dropped between two Proc/Alien scopes. *)
EndScope_keepMap ==
  /\ stack = << >> /\ visited # {}
  /\ visited' = {}
  /\ parent' = ParentAfterDelete(parent, toDelete)
  /\ deleted' = deleted \cup toDelete
  /\ toDelete' = {}
  /\ UNCHANGED <<smap, vma, lines, sortId, stack, restartAt, pending>>

(* After the pass on one Proc or Alien returns, the top-level loop clears *)
(* the map and the visited set and deletes the deferred nodes.             *)
EndScope ==
  /\ stack = << >> /\ visited # {}
  /\ smap' = [s \in SortIds |-> NoEntry]
  /\ visited' = {}
  /\ parent' = ParentAfterDelete(parent, toDelete)
  /\ deleted' = deleted \cup toDelete
  /\ toDelete' = {}
  /\ UNCHANGED <<vma, lines, sortId, stack, restartAt, pending>>

-----------------------------------------------------------------------------
(* CDS_InspectStmt, the three outcomes of finding stmt1's sortId mapped to *)
(* a different stmt2.                                                       *)

(* Mutant: only stmt1 is tested against the lca. *)
IsCase1_onlyStmt1(s1, s2) ==
  LET lca == LeastCommonAncestor(parent, s1, s2)
  IN  parent[s1] = lca

(* Case 1 holds when one statement sits directly in the common ancestor.   *)
IsCase1(s1, s2) ==
  LET lca == LeastCommonAncestor(parent, s1, s2)
  IN  parent[s1] = lca \/ parent[s2] = lca

(* Mutant: the VMA merge reads stmtdata->GetStmt() before SetStmt, so it  *)
(* always targets the previously mapped statement.                         *)
CDS_Case1_mergeBeforeSetStmt(s1, s2, level) ==
  LET sid      == sortId[s1]
      keepNew  == smap[sid].level < level
      toRemove == IF keepNew THEN s2 ELSE s1
  IN  /\ smap' = IF keepNew
                   THEN [smap EXCEPT ![sid] = [stmt |-> s1, level |-> level]]
                   ELSE smap
      /\ toDelete' = toDelete \cup {toRemove}
      /\ vma' = [vma EXCEPT ![s2] = @ \cup vma[toRemove]]

(* Mutant: SetStmt/SetLevel dropped, the map keeps the removed statement. *)
CDS_Case1_noSetStmt(s1, s2, level) ==
  LET sid      == sortId[s1]
      keepNew  == smap[sid].level < level
      toRemove == IF keepNew THEN s2 ELSE s1
      survivor == IF keepNew THEN s1 ELSE s2
  IN  /\ smap' = smap
      /\ toDelete' = toDelete \cup {toRemove}
      /\ vma' = [vma EXCEPT ![survivor] = @ \cup vma[toRemove]]

(* Mutant: SetLevel dropped, the new representative keeps the old level. *)
CDS_Case1_noSetLevel(s1, s2, level) ==
  LET sid      == sortId[s1]
      keepNew  == smap[sid].level < level
      toRemove == IF keepNew THEN s2 ELSE s1
      survivor == IF keepNew THEN s1 ELSE s2
  IN  /\ smap' = IF keepNew
                   THEN [smap EXCEPT ![sid].stmt = s1]
                   ELSE smap
      /\ toDelete' = toDelete \cup {toRemove}
      /\ vma' = [vma EXCEPT ![survivor] = @ \cup vma[toRemove]]

(* Case 1: keep the deeper statement (ties keep the mapped one), schedule *)
(* the other for deletion and merge its addresses into the survivor.       *)
CDS_Case1(s1, s2, level) ==
  LET sid      == sortId[s1]
      keepNew  == smap[sid].level < level
      toRemove == IF keepNew THEN s2 ELSE s1
      survivor == IF keepNew THEN s1 ELSE s2
  IN  /\ smap' = IF keepNew
                   THEN [smap EXCEPT ![sid] = [stmt |-> s1, level |-> level]]
                   ELSE smap
      /\ toDelete' = toDelete \cup {toRemove}
      /\ vma' = [vma EXCEPT ![survivor] = @ \cup vma[toRemove]]

(* Mutant: the restart is thrown before MergePaths runs, so the paths are *)
(* never merged.                                                          *)
CDS_Case2_throwBeforeMerge(s1, s2) ==
  LET lca  == LeastCommonAncestor(parent, s1, s2)
      into == MergePathsInto(parent, lca, s1, s2)
  IN  /\ DOMAIN into # {}
      /\ UNCHANGED <<parent, vma, lines, deleted>>
      /\ restartAt' = lca

(* Mutant: the restart carries stmt2's parent instead of the lca. *)
CDS_Case2_throwAtParent(s1, s2) ==
  LET lca  == LeastCommonAncestor(parent, s1, s2)
      into == MergePathsInto(parent, lca, s1, s2)
  IN  /\ DOMAIN into # {}
      /\ parent' = ParentAfterMerge(parent, into)
      /\ vma' = VmaAfterMerge(vma, into)
      /\ lines' = LinesAfterMerge(lines, into)
      /\ deleted' = deleted \cup DOMAIN into
      /\ restartAt' = parent[s2]

(* Case 2: fuse the path from the lca to stmt2 into the path to stmt1 and, *)
(* if anything was merged, throw the restart carrying the lca.             *)
CDS_Case2(s1, s2) ==
  LET lca  == LeastCommonAncestor(parent, s1, s2)
      into == MergePathsInto(parent, lca, s1, s2)
  IN  /\ DOMAIN into # {}
      /\ parent' = ParentAfterMerge(parent, into)
      /\ vma' = VmaAfterMerge(vma, into)
      /\ lines' = LinesAfterMerge(lines, into)
      /\ deleted' = deleted \cup DOMAIN into
      /\ restartAt' = lca

(* Mutant: the new StmtData records level - 1. *)
CDS_MapStmt_levelOffByOne(s1, level) ==
  smap' = [smap EXCEPT ![sortId[s1]] = [stmt |-> s1, level |-> level - 1]]

(* A fresh sortId: stmt1 becomes its representative at this level. *)
CDS_MapStmt(s1, level) ==
  smap' = [smap EXCEPT ![sortId[s1]] = [stmt |-> s1, level |-> level]]

CDS_InspectStmt(s1, level) ==
  LET e  == smap[sortId[s1]]
      s2 == e.stmt
  IN
  \/ /\ e = NoEntry
     /\ CDS_MapStmt(s1, level)
     /\ Advance
     /\ UNCHANGED <<parent, vma, lines, deleted, toDelete, restartAt>>
  \/ /\ e # NoEntry /\ s2 = s1
     /\ Advance
     /\ UNCHANGED <<parent, vma, lines, deleted, smap, toDelete, restartAt>>
  \/ /\ e # NoEntry /\ s2 # s1 /\ IsCase1(s1, s2)
     /\ CDS_Case1(s1, s2, level)
     /\ Advance
     /\ UNCHANGED <<parent, lines, deleted, restartAt>>
  \/ /\ e # NoEntry /\ s2 # s1 /\ ~IsCase1(s1, s2) /\ unsafe
     /\ CDS_Case2(s1, s2)
     /\ UNCHANGED <<smap, toDelete, stack>>
  \/ /\ e # NoEntry /\ s2 # s1 /\ ~IsCase1(s1, s2)
     /\ \/ ~unsafe
        \/ DOMAIN MergePathsInto(parent, LeastCommonAncestor(parent, s1, s2),
                                 s1, s2) = {}
     /\ Advance
     /\ UNCHANGED <<parent, vma, lines, deleted, smap, toDelete, restartAt>>

(* CDS_Main step 2: the recursive call on the child returned; a Stmt child *)
(* is inspected, any other child is done with.                              *)
Inspect ==
  /\ stack # << >> /\ restartAt = NoNode
  /\ Top.cur # NoNode /\ Top.cur \notin Top.done
  /\ IF Kind[Top.cur] = "Stmt"
       THEN CDS_InspectStmt(Top.cur, Top.level)
       ELSE /\ Advance
            /\ UNCHANGED <<parent, vma, lines, deleted, smap, toDelete, restartAt>>
  /\ UNCHANGED <<sortId, visited, pending>>

(* The catch in CoalesceDuplicateStmts(scope, ...): the frame of the thrown *)
(* node starts over on it at the same level; any other frame rethrows.     *)
Unwind ==
  /\ restartAt # NoNode /\ stack # << >>
  /\ IF Top.scope = restartAt
       THEN /\ stack' = SetTop(NewFrame(Top.scope, Top.level))
            /\ restartAt' = NoNode
       ELSE /\ stack' = Pop
            /\ UNCHANGED restartAt
  /\ UNCHANGED <<parent, vma, lines, sortId, deleted, smap, visited, toDelete,
                 pending>>

Done == stack = << >> /\ pending = {} /\ visited = {}

(* The pass has returned; the program goes on with the next pass. *)
Terminated == Done /\ UNCHANGED vars

Next ==
  /\ \/ BeginScope
     \/ SkipChild
     \/ Descend
     \/ Inspect
     \/ Unwind
     \/ Finish
     \/ EndScope
     \/ Terminated
  /\ UNCHANGED unsafe

(* The pass is a single-threaded loop that keeps stepping until it returns. *)
Spec == Init /\ [][Next]_vars /\ WF_vars(Next)

-----------------------------------------------------------------------------
(***************************************************************************)
(* Properties                                                              *)
(***************************************************************************)
Level   == 1..Cardinality(Node)
Frame   == [scope : Node, level : Level, done : SUBSET Node,
            cur : Node \cup {NoNode}]
Entries == {NoEntry} \cup [stmt : Stmts, level : Level]

(* Every variable holds a value of its type. *)
TypeOK ==
  /\ parent \in [Node -> Node \cup {NoNode}]
  /\ vma \in [Node -> SUBSET Node]
  /\ deleted \subseteq Node /\ visited \subseteq Node
  /\ toDelete \subseteq Stmts
  /\ smap \in [SortIds -> Entries]
  /\ stack \in Seq(Frame)
  /\ restartAt \in Node \cup {NoNode}
  /\ pending \subseteq Node

LiveStmtsOf(sid) == {t \in Stmts \ (deleted \cup toDelete) : sortId[t] = sid}

(* No sampled address is lost: every address first attributed to a         *)
(* statement is still held by a surviving statement of the same sortId,    *)
(* and every loop-header marker by a surviving loop (Case 1 VMA merge,     *)
(* Merge of loops in Case 2, deferred deletion).                           *)
NoLostAddresses ==
  /\ \A a \in Stmts : \E t \in LiveStmtsOf(sortId[a]) : a \in vma[t]
  /\ \A a \in NodesOfKind("Loop") :
       \E t \in NodesOfKind("Loop") \ deleted : a \in vma[t]

(* Nothing the pass still uses is a deleted node: the scope and iterator   *)
(* position of every active call, and the statements of the sortId map,    *)
(* which must not even be scheduled for deletion (CDS_InspectStmt merges   *)
(* into them later).                                                       *)
NoDanglingReference ==
  /\ \A i \in DOMAIN stack :
       /\ stack[i].scope \notin deleted
       /\ stack[i].cur \notin deleted
  /\ \A sid \in SortIds :
       smap[sid] # NoEntry => smap[sid].stmt \notin deleted \cup toDelete

(* A CDS_RestartException is always caught: the node it carries is the     *)
(* scope of an active call, so it never escapes the top-level call.        *)
RestartCaught ==
  restartAt # NoNode => \E i \in DOMAIN stack : stack[i].scope = restartAt

(* The level recorded in the sortId map is still the statement's nesting   *)
(* level below the scope being coalesced, after any number of Case 2 path  *)
(* merges and restarts: Case 1 compares these levels to keep the deeper    *)
(* statement.                                                              *)
MapLevelsCurrent ==
  stack # << >> =>
    \A sid \in SortIds :
      smap[sid] # NoEntry =>
        smap[sid].level = DepthOf(parent, parent[smap[sid].stmt])
                          - DepthOf(parent, stack[1].scope) + 1

(* With Case 2 merging, the pass leaves at most one statement per sortId   *)
(* in each Proc or Alien scope (spec.md 4.3b, Case-2 coalescing).           *)
NoDuplicateStmts ==
  Done /\ unsafe =>
    \A s, t \in Stmts \ deleted :
      (s # t /\ sortId[s] = sortId[t])
        => CallingCtxtOf(parent, s) # CallingCtxtOf(parent, t)

(* Case 1 (comment above CoalesceDuplicateStmts and spec.md 4.3b): no two  *)
(* statements with one sortId are left side by side in one scope.          *)
SiblingDuplicatesCoalesced ==
  Done =>
    \A s, t \in Stmts \ deleted :
      (s # t /\ sortId[s] = sortId[t]) => parent[s] # parent[t]

(* The pass implements StmtCoalescing: seen through its statements that   *)
(* are neither deleted nor scheduled for deletion, every step of the walk  *)
(* either changes none of them or removes one statement in favour of a     *)
(* live statement of the same sortId in the same Proc or Alien scope, and  *)
(* that survivor then holds the removed one's addresses.  Case 2 path      *)
(* merges, restarts and the deferred deletion are stuttering steps.        *)
LiveStmts == Stmts \ (deleted \cup toDelete)

Coalescing == INSTANCE StmtCoalescing
                WITH Stmt <- Stmts,
                     Scope <- {n \in Node : IsCDSScope(n)},
                     live <- LiveStmts,
                     ctxt <- [s \in LiveStmts |-> CallingCtxtOf(parent, s)],
                     svma <- [s \in LiveStmts |-> vma[s]]

ImplementsStmtCoalescing == Coalescing!Spec

(* The pass returns: every restart follows a merge that removes nodes.     *)
Termination == <>Done

=============================================================================

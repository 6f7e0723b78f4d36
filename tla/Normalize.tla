------------------------------ MODULE Normalize ------------------------------
(***************************************************************************)
(* bloop::Normalize: the four normalizer passes in their fixed order,      *)
(* MergeBogusAlienStrct, CoalesceDuplicateStmts, MergePerfectlyNestedLoops *)
(* and RemoveEmptyNodes, run twice on one tree so that the second run can  *)
(* be compared with the first.                                             *)
(*                                                                         *)
(* Coalescing is the module CoalesceDuplicateStmts, instantiated on the    *)
(* shared tree.  The three other passes have one shape, a post-order walk *)
(* in which the iterator is advanced past a child before the child is      *)
(* processed:                                                              *)
(*   for (it(node); it.Current(); ) { child = it.Current(); it++;          *)
(*     Pass(child); <test child, maybe merge or delete it> }              *)
(* A walk frame holds the node, the children still ahead of the iterator  *)
(* ('rest') and the child being processed ('cur').  The tree library keeps *)
(* children sorted by begin line (spec.md 3), so the walk takes them in    *)
(* that order, ties in any order.  A merge moves the child's children      *)
(* under the node, where they are sorted in: a moved child lands ahead of *)
(* the iterator when its line is after that of the child the iterator     *)
(* stands on, behind it when before, either way on a tie; when the         *)
(* iterator is at the end nothing more is visited.                         *)
(***************************************************************************)
EXTENDS Naturals, FiniteSets, Sequences, TLC, StructTree

CONSTANTS
  Root,       \* the Pgm node, GetRoot() of the Struct::Tree
  SortIds, Unsafe, InitParent, InitSortId, InitLines,
  Sites,      \* (file name, procedure name) pairs of Procs and Aliens
  InitSite,   \* the sites the builder may give Procs and Aliens
  Fuzz        \* tolerance of LocationMgr::containsIntervalFzy, in lines

VARIABLES
  parent, vma, lines, sortId, deleted, smap, visited, toDelete, stack,
  restartAt, pending,
  site,       \* Proc: <<AncFile()->name(), name()>>; Alien: <<fileName(), name()>>
  pass,       \* the pass Normalize is running, or "done"
  round,      \* first or second call of Normalize
  wstack,     \* active calls of the walking pass, innermost last
  wpending,   \* nodes the walking pass's top-level loop has yet to start on
  snap        \* the tree as the first call of Normalize left it

cdsVars == <<parent, vma, lines, sortId, deleted, smap, visited, toDelete,
             stack, restartAt, pending>>
vars == <<cdsVars, site, pass, round, wstack, wpending, snap>>

CDS == INSTANCE CoalesceDuplicateStmts WITH unsafe <- Unsafe, UnsafeModes <- {Unsafe}

Tree == [parent |-> parent, vma |-> vma, lines |-> lines, deleted |-> deleted]
NoTree == [parent |-> <<>>, vma |-> <<>>, lines |-> <<>>, deleted |-> {}]

Live  == {n \in Node : n = Root \/ Root \in AncestorsOf(parent, n)}
Procs == {n \in Live : Kind[n] = "Proc"}

(* Nodes of the tree that carry addresses: Procs (their bounds), Loops    *)
(* (the loop id) and Stmts; Pgm, Files and Aliens have none.              *)
Addressed == {n \in Live : Kind[n] \in {"Proc", "Loop", "Stmt"}}

WTop == wstack[Len(wstack)]
SetWTop(f) == [wstack EXCEPT ![Len(wstack)] = f]
WPop == SubSeq(wstack, 1, Len(wstack) - 1)
WFrame(n) == [node |-> n, rest |-> ChildrenOf(parent, n), cur |-> NoNode]

Beg(n) == lines[n].beg

(* The children of a sorted child list that may come first. *)
FirstOf(cs) == {c \in cs : \A d \in cs : Beg(c) <= Beg(d)}

-----------------------------------------------------------------------------
Init ==
  /\ parent \in InitParent
  /\ sortId \in InitSortId
  /\ lines \in InitLines
  /\ vma = [n \in Node |-> IF n \in Addressed THEN {n} ELSE {}]
  /\ deleted = {} /\ visited = {} /\ toDelete = {}
  /\ smap = [s \in SortIds |-> CDS!NoEntry]
  /\ stack = << >> /\ restartAt = NoNode /\ pending = {}
  /\ site \in InitSite
  /\ pass = "alien"
  /\ round = 1
  /\ wstack = << >>
  /\ wpending = Procs
  /\ snap = NoTree

(* The top-level loop of a walking pass starts it on the next node: each *)
(* Proc for MergeBogusAlienStrct (ANodeIterator in preorder), the root for *)
(* the two others.                                                         *)
WBegin ==
  /\ pass \in {"alien", "nest", "empty"}
  /\ wstack = << >>
  /\ \E r \in wpending :
       /\ AncestorsOf(parent, r) \cap wpending = {}
       /\ wstack' = << WFrame(r) >>
       /\ wpending' = wpending \ {r}
  /\ UNCHANGED <<cdsVars, site, pass, round, snap>>

(* Mutant: the loop forgets it++ and takes the same child again. *)
WDescend_noAdvance ==
  /\ pass \in {"alien", "nest", "empty"}
  /\ wstack # << >> /\ WTop.cur = NoNode
  /\ \E c \in FirstOf(WTop.rest) :
       wstack' = Append(SetWTop([WTop EXCEPT !.cur = c]), WFrame(c))
  /\ UNCHANGED <<cdsVars, site, pass, round, wpending, snap>>

(* child = it.Current(); it++; then the recursive call on the child. *)
WDescend ==
  /\ pass \in {"alien", "nest", "empty"}
  /\ wstack # << >> /\ WTop.cur = NoNode
  /\ \E c \in FirstOf(WTop.rest) :
       wstack' = Append(SetWTop([WTop EXCEPT !.rest = @ \ {c}, !.cur = c]),
                        WFrame(c))
  /\ UNCHANGED <<cdsVars, site, pass, round, wpending, snap>>

(* it.Current() is NULL: the call returns. *)
WReturn ==
  /\ pass \in {"alien", "nest", "empty"}
  /\ wstack # << >> /\ WTop.cur = NoNode /\ WTop.rest = {}
  /\ wstack' = WPop
  /\ UNCHANGED <<cdsVars, site, pass, round, wpending, snap>>

(* The child's call has returned and the pass leaves the child as it is. *)
Keep == /\ wstack' = SetWTop([WTop EXCEPT !.cur = NoNode])
        /\ UNCHANGED <<parent, vma, lines, deleted>>

(* The moved children that may land ahead of an iterator whose remaining *)
(* children are rest: those after the child it stands on, and any of those *)
(* on its line.                                                           *)
MovedAhead(moved, rest) ==
  IF rest = {} THEN {{}}
  ELSE LET at == Beg(CHOOSE c \in FirstOf(rest) : TRUE)
       IN  {J \in SUBSET moved :
              \A m \in moved : (Beg(m) > at => m \in J) /\ (Beg(m) < at => m \notin J)}

(* ANode::Merge(node, child): the child's children move under node, whose *)
(* address set and line range absorb the child's; the child is deleted.   *)
(* Each moved child lands ahead of the iterator or behind it.             *)
MergeChild(node, child) ==
  LET into  == child :> node
      moved == ChildrenOf(parent, child)
  IN  /\ parent' = ParentAfterMerge(parent, into)
      /\ vma' = VmaAfterMerge(vma, into)
      /\ lines' = LinesAfterMerge(lines, into)
      /\ deleted' = deleted \cup {child}
      /\ \E ahead \in MovedAhead(moved, WTop.rest) :
           wstack' = SetWTop([WTop EXCEPT !.rest = @ \cup ahead, !.cur = NoNode])

(* Unlink the child from the tree and delete it. *)
DeleteChild(child) ==
  /\ parent' = [parent EXCEPT ![child] = NoNode]
  /\ deleted' = deleted \cup {child}
  /\ wstack' = SetWTop([WTop EXCEPT !.cur = NoNode])
  /\ UNCHANGED <<vma, lines>>

Visiting(p) == pass = p /\ wstack # << >> /\ WTop.cur # NoNode

-----------------------------------------------------------------------------
(* ANode::AncCallingCtxt of the alien's parent: the parent itself when it  *)
(* is a Proc or Alien, else its nearest such ancestor.                     *)
AncCallingCtxt(n) ==
  IF Kind[n] \in {"Proc", "Alien"} THEN n ELSE CallingCtxtOf(parent, n)

(* LocationMgr::containsIntervalFzy(node, b, e). *)
ContainsIntervalFzy(r, b, e) == r.beg <= b + Fuzz /\ e <= r.end + Fuzz

(* MergeBogusAlienStrct step 2: an Alien child is redundant when its file  *)
(* and name are those of the calling context of its parent and the parent *)
(* contains its line range.                                               *)
IsBogusAlien(alien, node) ==
  /\ Kind[alien] = "Alien"
  /\ site[alien] = site[AncCallingCtxt(node)]
  /\ ContainsIntervalFzy(lines[node], lines[alien].beg, lines[alien].end)

AlienVisit ==
  /\ Visiting("alien")
  /\ IF IsBogusAlien(WTop.cur, WTop.node)
       THEN MergeChild(WTop.node, WTop.cur)
       ELSE Keep
  /\ UNCHANGED <<sortId, smap, visited, toDelete, stack, restartAt, pending,
                 site, pass, round, wpending, snap>>

(* SrcFile::isValid(beg, end): both lines known. *)
IsValidRange(r) == r.beg # 0 /\ r.end # 0

(* Mutant: the only-child test is made on the child instead of the node. *)
IsPerfectlyNested_childCount(child, node) ==
  /\ Kind[child] = "Loop" /\ Kind[node] = "Loop"
  /\ Cardinality(ChildrenOf(parent, child)) = 1
  /\ IsValidRange(lines[child])
  /\ lines[child] = lines[node]

(* MergePerfectlyNestedLoops step 2: a Loop that is the only child of a    *)
(* Loop with the same valid bounds.                                        *)
IsPerfectlyNested(child, node) ==
  /\ Kind[child] = "Loop" /\ Kind[node] = "Loop"
  /\ Cardinality(ChildrenOf(parent, node)) = 1
  /\ IsValidRange(lines[child])
  /\ lines[child] = lines[node]

NestVisit ==
  /\ Visiting("nest")
  /\ IF IsPerfectlyNested(WTop.cur, WTop.node)
       THEN MergeChild(WTop.node, WTop.cur)
       ELSE Keep
  /\ UNCHANGED <<sortId, smap, visited, toDelete, stack, restartAt, pending,
                 site, pass, round, wpending, snap>>

(* Mutant: a childless Proc or Loop is removed whatever its addresses. *)
IsEmpty_noVmaCheck(n) ==
  /\ ChildrenOf(parent, n) = {}
  /\ Kind[n] \in {"File", "Alien", "Proc", "Loop"}

(* RemoveEmptyNodes_isEmpty. *)
IsEmpty(n) ==
  /\ ChildrenOf(parent, n) = {}
  /\ \/ Kind[n] \in {"File", "Alien"}
     \/ Kind[n] \in {"Proc", "Loop"} /\ vma[n] = {}

EmptyVisit ==
  /\ Visiting("empty")
  /\ IF IsEmpty(WTop.cur) THEN DeleteChild(WTop.cur) ELSE Keep
  /\ UNCHANGED <<sortId, smap, visited, toDelete, stack, restartAt, pending,
                 site, pass, round, wpending, snap>>

-----------------------------------------------------------------------------
(* Normalize: each pass starts when the one before it has returned. *)
WalkDone == wstack = << >> /\ wpending = {}

StartCoalesce ==
  /\ pass = "alien" /\ WalkDone
  /\ pass' = "cds"
  /\ pending' = {n \in Live : CDS!IsCDSScope(n)}
  /\ UNCHANGED <<parent, vma, lines, sortId, deleted, smap, visited, toDelete,
                 stack, restartAt, site, round, wstack, wpending, snap>>

StartNest ==
  /\ pass = "cds" /\ CDS!Done
  /\ pass' = "nest" /\ wpending' = {Root}
  /\ UNCHANGED <<cdsVars, site, round, wstack, snap>>

StartEmpty ==
  /\ pass = "nest" /\ WalkDone
  /\ pass' = "empty" /\ wpending' = {Root}
  /\ UNCHANGED <<cdsVars, site, round, wstack, snap>>

(* Normalize returns; the first time, it is called again on its result. *)
Return ==
  /\ pass = "empty" /\ WalkDone
  /\ IF round = 1
       THEN /\ round' = 2 /\ pass' = "alien"
            /\ wpending' = Procs /\ snap' = Tree
       ELSE /\ pass' = "done"
            /\ UNCHANGED <<round, wpending, snap>>
  /\ UNCHANGED <<cdsVars, site, wstack>>

CoalesceStep ==
  /\ pass = "cds"
  /\ \/ CDS!BeginScope \/ CDS!SkipChild \/ CDS!Descend \/ CDS!Inspect
     \/ CDS!Unwind \/ CDS!Finish \/ CDS!EndScope
  /\ UNCHANGED <<site, pass, round, wstack, wpending, snap>>

Terminated == pass = "done" /\ UNCHANGED vars

Next ==
  \/ WBegin \/ WDescend \/ WReturn
  \/ AlienVisit \/ NestVisit \/ EmptyVisit
  \/ StartCoalesce \/ CoalesceStep \/ StartNest \/ StartEmpty \/ Return
  \/ Terminated

(* One thread runs the passes to completion. *)
Spec == Init /\ [][Next]_vars /\ WF_vars(Next)

-----------------------------------------------------------------------------
(***************************************************************************)
(* Properties                                                              *)
(***************************************************************************)
Passes == {"alien", "cds", "nest", "empty", "done"}
WFrameType == [node : Node, rest : SUBSET Node, cur : Node \cup {NoNode}]

(* No pass of Normalize loses an address: each address a Proc, Loop or     *)
(* statement held at the start is held by a node still in the tree and not *)
(* awaiting deletion, after alien merges, coalescing, perfect-nest merges  *)
(* and the removal of empty nodes.                                         *)
NormalizeKeepsAddresses ==
  \A a \in UNION {vma[n] : n \in Node} : \E n \in Live \ toDelete : a \in vma[n]

(* When MergePerfectlyNestedLoops returns, no Loop is left as the only     *)
(* child of a Loop with the same valid bounds, whatever the order of the   *)
(* children and wherever a merge put the moved children.                  *)
PerfectNestsMerged ==
  (pass = "empty" /\ wpending = {Root} /\ wstack = << >>) =>
    \A l \in Live :
      LET n == parent[l]
      IN  (/\ Kind[l] = "Loop" /\ n # NoNode /\ Kind[n] = "Loop"
           /\ ChildrenOf(parent, n) = {l} /\ IsValidRange(lines[l]))
          => lines[l] # lines[n]

(* spec.md 8: a second call of Normalize on a normalized tree changes      *)
(* nothing.                                                                *)
Idempotent == pass = "done" => Tree = snap

(* Both calls of Normalize return. *)
Termination == <>(pass = "done")

=============================================================================

# TLA+ models of hpcstruct's structure recovery (bloop.cpp) and the parallel profile reduction

This directory holds TLA+ models of the structure-recovery engine in
`src/src/lib/banal/bloop.cpp` and of the MPI profile exchange in
`src/src/tool/hpcprof-mpi/ParallelAnalysis.cpp`, with the TLC configurations
that check them. `PROJECT.json` lists the components, the runs, the mutants
each property must kill, the source lines every definition models, the
findings and the hazards.

## 1. Inventory

### Components and their state

| Component | Source | State | Operations |
|---|---|---|---|
| Structure tree (`Prof::Struct`) | not in this repository (Struct-Tree.cpp) | nodes of kinds Pgm, LM, File, Proc, Alien, Loop, Stmt; parent link, ordered children, VMA interval set, line range, Stmt sortId | Link/Unlink, Merge, MergePaths, LeastCommonAncestor, AncCallingCtxt, findProc |
| Skeleton builder | `BuildLMSkeleton`, `FindOrCreateFileNode`, `FindOrCreateProcNode` (bloop.cpp 396-518) | the File and Proc nodes under the LM node, a multimap Proc node -> binary procedures | per binary procedure with size != 0: resolve file, find/create File, find/create or fuse Proc (line range, VMA bound); then re-parent nested procedures |
| Loop-nest builder | BuildLMStructure's loop over procedures, `BuildProcStructure`, `BuildProcLoopNests`, `BuildLoopAndStmts`, `BuildStmts`, `FindLoopBegLineInfo` (553-1031) | BFS queue with a processed prefix and TODO suffix (`q_todo`), `isNodeProcessed[]`, loop count, the static `call_sortId` | per flow node: open a Loop (INTERVAL, or IRREDUCIBLE when asked), place statements through the location manager; afterwards the unvisited nodes go under the Proc |
| Tree normalizer | `Normalize` and the passes (356-377, 1097-1564) | the tree; for coalescing a sortId map, a visited set, a deferred-deletion set, the recursion stack and the restart exception | MergeBogusAlienStrct, CoalesceDuplicateStmts, MergePerfectlyNestedLoops, RemoveEmptyNodes, in this order |
| File filter | `FilterFilesFromStrctTree` (1570-1596) | the File nodes | drop each File whose base name `pathfind` does not find in the allowed path list |
| Tree writer | `WriteStrctTree` (272-284) | none | XML output |
| Parallel reduction | `ParallelAnalysis.cpp` | per MPI rank: its profile, its string set, packed buffers | `broadcast` (size then bytes from the root), `mergeNonLocal` (rank_y packs and sends, rank_x probes, receives, unpacks and merges), `packMetrics`/`unpackMetrics` |
| Metric accessors, clock synchronizer, XED printer | headers under `src/src/lib/prof`, `lib/trace-analysis`, `hpctoolkit/XED2` | none of their own | forwarding wrappers and declarations |

### How they interact

`BuildLMStructure` (302-353) calls the skeleton builder, then the loop-nest
builder once per (Proc node, binary procedure) pair, then the optional file
filter, then `Normalize`. All of it is one thread, synchronous; the only
non-linear control flow is the `CDS_RestartException` that coalescing throws
after a cross-loop merge and catches in the frame of the common ancestor.
The normalizer passes share the tree: each one deletes and moves nodes that
the next one walks. The parallel reduction is a separate program: ranks
exchange whole profiles and string sets by MPI in a reduction tree chosen by
its caller.

### What is hard

* **Mutation during traversal.** Every normalizer pass walks the children of
  a node while it moves or deletes nodes of the same tree. Coalescing defers
  Case 1 deletions, and after a Case 2 merge it unwinds the recursion up to
  the lca and starts over there, relying on a visited set. Whether that
  leaves no duplicate, loses no address and never touches a deleted node is
  hard to see and hard to test.
* **Stale cached values.** The sortId map records each statement's level
  when first seen; merges move statements later.
* **Order of passes.** A later pass can create work for an earlier one, so
  running Normalize twice may not be a no-op.
* **Boundary values.** Line 0 means "no line"; the call sortId counter is a
  never-reset static int; the unvisited-node loop starts at id 1.
* **Message matching.** mergeNonLocal matches by sender and tag only, and
  broadcast decides who unpacks by comparing with rank 0, not the root.

### Properties that make each component correct

* Coalescing: no address lost; no deleted node used; the restart is always
  caught; map levels stay current; one statement per sortId per Proc/Alien
  scope (unsafe mode) and no sibling duplicates (Case 1); termination; each removal
  is of a duplicate in the same Proc/Alien, into a live statement.
* Alien/perfect-nest/empty-node passes: no address is lost. Only the nodes the pass names are removed. Normalize
  is idempotent (spec.md 8).
* Skeleton: one Proc node per (name, link name) per File, with line range
  covering all fused parts and all their address bounds; begLn = 0 iff
  endLn = 0; re-parenting keeps a tree.
* Loop-nest builder: every flow node built exactly once, in the scope of its
  nearest loop-header ancestor in the Tarjan tree; call sortIds unique and
  distinct from lines.
* Parallel reduction: after a broadcast every rank holds the root's data;
  every rank's contribution reaches the root exactly once; no message is
  taken for one of another kind; no wait cycle among the ranks.

## 2. Plan

Modules, in order of importance:

1. `StructTree` (tree operators, spec-modelled) and
   `CoalesceDuplicateStmts` with `MC_CoalesceDuplicateStmts`: the hardest
   pass. **Done.**
2. `Normalize`: MergeBogusAlienStrct, MergePerfectlyNestedLoops,
   RemoveEmptyNodes, each as a post-order walk whose iterator is advanced
   before the child is processed, composed with `CoalesceDuplicateStmts`
   (by INSTANCE) in the code's order and run twice to check idempotence and
   tree shape after the whole sequence. **Done.**
3. `Skeleton`: FindOrCreateFileNode/FindOrCreateProcNode over a small set of
   binary procedures (names, sizes, lines, parent links), then re-parenting;
   the line-bound invariant and the nested-procedure hazards; with it the
   file filter. **Done.**
4. `LoopNest`: the BFS with the processed/TODO queue over small Tarjan
   trees, checked against a RECURSIVE reference definition of "nearest
   enclosing loop"; `FindLoopBegLineInfo` as an operator checked against the
   minimum-back-edge-line definition; the call sortId counter. **Done**,
   with the abstract `LoopPlacement` it refines.
5. `ParallelAnalysis`: ranks, a network of (src, dst, tag) messages,
   broadcast and pairwise merge. **Done**, with the abstract
   `AtomicReduction` it refines.
6. BuildLMStructure's loop over the procedures, with fused pieces built
   into one Struct::Proc (in `LoopNest`). **Done.**

7. `StmtCoalescing`: the abstract specification of coalescing. Each step
   removes one duplicate statement and merges its addresses.
   `CoalesceDuplicateStmts` is checked to implement it. **Done.**

## 3. Modules and runs so far

### StructTree.tla

Operators over a parent function `p` on a fixed arena `Node` with a `Kind`
per node: `AncestorsOf`, `ChildrenOf`, `DepthOf`, `LeastCommonAncestor`,
`PathBelow`, `CallingCtxtOf`, and `Merge`/`MergePaths` as functions that
compute the new parent links and address sets. The tree library is not in
this repository; these follow spec.md 3 and 4.3. MergePaths fuses the two
paths below the lca pairwise from the top while the kinds match.

### CoalesceDuplicateStmts.tla

Models bloop.cpp 1162-1438 and DeleteContents (1616-1626).

| Variable | Code |
|---|---|
| `parent`, `vma`, `sortId`, `deleted` | the tree: parent links, `vmaSet()`, `Stmt::sortId()`, freed nodes |
| `smap` | `SortIdToStmtMap`: sortId -> `StmtData(stmt, level)` |
| `visited`, `toDelete` | `visitedScopes`, `toDelete` |
| `stack` | the active `CoalesceDuplicateStmts(scope, ..., level)` calls; each frame has its iterator: the set `done` of children handled and the position `cur` |
| `restartAt` | the node of an in-flight `CDS_RestartException` |
| `pending` | Proc and Alien nodes the top-level `ANodeIterator` has not reached |

Actions: `BeginScope` (top-level loop starts the pass on a Proc/Alien at
level 1), `SkipChild` (`continue` on a child in toDelete or an Alien),
`Descend` (recursive call; returns at once on a visited scope), `Inspect`
(after the call returns: `CDS_InspectStmt` on a Stmt child, with its
outcomes new entry / same node / Case 1 / Case 2 merge and throw / no
merge), `Unwind` (each frame's catch: restart on the thrown node or
rethrow), `Finish` (end of CDS_Main: insert into visited, return), `EndScope`
(clear the map and visited set, DeleteContents), `Terminated` (the pass
has returned).

Abstraction: the order of children is not fixed: the tree library keeps
children sorted by line and re-sorts them on every merge, so the model lets
the next child be any child not yet handled. That is a superset of the real
orders. Addresses are abstract: each node starts with its own handle as its
address, so "address a is still held" is exact. Line ranges of merged loops
are kept (`lines`, widened by Case 2 merges) because the later passes read
them; no property of this pass does.

### StmtCoalescing.tla

What coalescing promises the rest of the normalizer, with no walk, map,
restart or deferred deletion. Its state is the live statements, their
sortIds, each one's Proc or Alien scope (`ctxt`) and its addresses
(`svma`). `Coalesce(keep, gone)` removes `gone`. That step is allowed only
when `keep` is live, has the same sortId and is in the same scope. `keep`
then takes over `gone`'s addresses.

`CoalesceDuplicateStmts` checks `Coalescing!Spec` as the property
`ImplementsStmtCoalescing`. The refinement mapping takes the statements
that are neither deleted nor in `toDelete` (`LiveStmts`), their
`CallingCtxtOf`, and their `vma`. Case 1 is the abstract `Coalesce`. Every
other step stutters: Case 2 path merges only fuse loops, and deferring the
deletion removes nothing more. The scope condition stands for the
comment above the top-level loop: the sortId map is kept per Proc/Alien
because all the lines in one scope are in one file. The mutant drops
`stmtMap.clear()` between scopes. A statement of a nested Alien is then
coalesced with a statement of its Proc that has the same line.

### Normalize.tla

Models `Normalize` (bloop.cpp 360-377) and the three walking passes
(1101-1157, 1449-1494, 1509-1564). The CDS variables are shared with an
instance `CDS` of `CoalesceDuplicateStmts`, whose actions make up the
coalescing pass. The instance's `lines` variable is the line range that
its Case 2 merges widen.

| Variable | Code |
|---|---|
| `site` | an Alien's `fileName()`/`name()`, a Proc's file name and name, as one abstract value |
| `pass`, `round` | which pass of `Normalize` is running, and whether it is the first or a second call |
| `wstack` | the active recursive calls of the walking pass: node, children still ahead of the iterator (`rest`), the child being processed (`cur`) |
| `wpending` | what the pass's top-level loop has yet to start on: each Proc (ANodeIterator in MergeBogusAlienStrct), or the root |
| `snap` | the tree after the first call, for comparison with the second |

Actions: `WBegin` (top-level loop), `WDescend` (`child = it.Current();
it++;` and the recursive call), `WReturn` (the iterator is at the end),
`AlienVisit`, `NestVisit` and `EmptyVisit` (step 2 of each pass, with the
code's test: `IsBogusAlien`, `IsPerfectlyNested`, `IsEmpty`),
`StartCoalesce`, `CoalesceStep`, `StartNest`, `StartEmpty` and `Return`
(the sequence in `Normalize`), and `Terminated`.

The iterator. The tree library keeps children sorted by begin line
(spec.md 3). So the walk takes the child with the smallest begin line
next, ties in any order. When a merge moves the child's children under the
node, a moved child lands ahead of the iterator if its line is after that
of the child the iterator stands on. It lands behind it if before, and
either way on a tie. When the iterator is already at the end (`it.Current()`
is NULL), nothing more is visited.

Abstractions. The fuzzy name comparison (`ctxtNameEqFuzzy`) is equality of
sites. The fuzzy interval test (`containsIntervalFzy`) is containment with
a tolerance `Fuzz`, 0 in the runs; spec.md leaves the tolerance open.
Both are in the location manager, outside this repository.

### MC_Normalize.tla and its configurations

A Pgm `G` with File `F` (holding Proc `P`, lines 5-7) and an empty File
`F2`. Two families of trees:

* **Loop trees.** Loop `L1` under P; `L2` and `L3` under P or a loop; two
  statements of line 7 under P or a loop; loop lines 5 or 6 (1024 initial
  states). Every Case 1 and Case 2 coalescing and every perfect nest of two
  or three loops occurs.
* **Alien trees.** Alien `A1` under P or `L1`; `A2` absent or under P, A1 or
  L1; L1 under P or an Alien; the statements anywhere. Each Alien is of P's
  own site or another, at line 5 or 6. An Alien holds at least one node,
  since the location manager only creates one to hold a statement.

| Run | Config | Expect | What it shows |
|---|---|---|---|
| `normalize_loops` | `MC_Normalize_loops.cfg` | pass | Two calls of Normalize on every loop tree. No address is lost (`NormalizeKeepsAddresses`). No perfect nest is left when MergePerfectlyNestedLoops returns (`PerfectNestsMerged`). The second call changes nothing (`Idempotent`). About 230k states. |
| `normalize_aliens` | `MC_Normalize_aliens.cfg` | pass | On alien trees, addresses are kept, and both calls return (`Termination`). About 480k states. |
| `normalize_aliens_idem` | `MC_Normalize_aliens_idem.cfg` | violation | P holds A1 (line 5) holding A2 (line 6), both of P's site. A1's range does not contain A2, so A2 stays. A1 is merged into P, and A2 moves up, but A1 was P's last child, so the iterator is at the end and A2 is never tested under P. The second Normalize merges it. This contradicts spec.md 8. |

Fairness: `WF_vars(Next)`, as for coalescing: one thread runs the passes to
the end.

### MC_CoalesceDuplicateStmts.tla and its configurations

One Proc `P`, an optional Alien `A` (absent, or under P or a loop), loops
`L1`, `L2` and statements `S1`, `S2`, `S3`, hung in every acyclic way
(2210 initial trees). S1 and S2 have line 7 and S3 has line 7 or 9. So
every Case 1 and Case 2 configuration of two or three duplicates occurs:
siblings, one inside a loop nested in the other's scope, both in sibling
loops, and both in nested loops of unequal depth. Two loops are enough for
a merge that creates a Case 1 duplicate and for a restart at an lca above
the current scope. The three statements let a third duplicate meet a
representative that was replaced or merged.

| Run | Config | Expect | What it shows |
|---|---|---|---|
| `cds` | `MC_CDS.cfg` | pass | `unsafe` (the cross-loop merging option) is chosen in Init, TRUE (hpcstruct's default) or FALSE, so one run covers both modes. On every tree above: no address is lost (`NoLostAddresses`). No active call and no map entry refers to a deleted or doomed node (`NoDanglingReference`). Every restart is caught (`RestartCaught`). The levels in the map stay right after merges (`MapLevelsCurrent`). With merging on, at the end each Proc/Alien holds one statement per line (`NoDuplicateStmts`). The pass returns (`Termination`). Every step removes at most one statement, a duplicate of a live statement in the same Proc/Alien, whose addresses it keeps (`ImplementsStmtCoalescing`). About 370k states in under a minute. |
| `cds_safe_siblings` | `MC_CDS_safe_siblings.cfg` | violation | With cross-loop merging off, `SiblingDuplicatesCoalesced` fails. S3 in L2 is mapped first, and S1, S2 side by side in L1 are each compared only with S3, in another loop, so both survive. The Case 1b comment and spec.md 4.3b say sibling duplicates are always reduced to one. |

Fairness: `WF_vars(Next)`. The pass is one thread that runs until it
returns, so some step is always taken while one is enabled.

Each property of a passing run has a mutant in PROJECT.json. The mutants
are a wrong level in a new map entry, the VMA merge done before SetStmt, a
dropped SetStmt, a dropped SetLevel, a restart that carries stmt2's parent,
a Case 1 test that looks at stmt1 only, a restart thrown before MergePaths
runs, and a sortId map not cleared between scopes. Each mutant makes TLC report its property violated.

### Skeleton.tla

Models `BuildLMSkeleton` (bloop.cpp 396-439), `FindOrCreateFileNode`
(444-462), `FindOrCreateProcNode` (467-511) and `FilterFilesFromStrctTree`
(1568-1596), as `BuildLMStructure` (302-353) runs them one after another.
The binutils procedures are the variable `procs`. It is chosen in `Init`
from the constant `Inputs` and never changes. A Struct::Proc is named by
the index of the binutils procedure that created it. A File is named by its
file name.

| Variable | Code |
|---|---|
| `phase`, `i` | which loop runs, and its iterator |
| `files` | the File children of the LM |
| `made`, `pfile`, `lines`, `vmaSet`, `parent` | the Struct::Proc nodes and their file, line range, `vmaSet()` and parent link |
| `mp` | the `ProcStrctToProcMap` multimap, as `<<Struct::Proc, binutils index>>` pairs in insertion order |
| `onPath` | the base names `pathfind` finds on the canonical path list |

The actions:

* `Scaffold`: one iteration of loop 1. A procedure of size 0 is skipped.
  Otherwise the action resolves the file name (`FileNameOf`: realpath of
  the procedure's own name, else the debug-info name, else `Orphan`), works
  out the line bounds (`BegLnOf`, `EndLnOf`), and creates a Struct::Proc or
  fuses the procedure into the existing one (`FindOrCreateProcNode`).
* `Nest`: one iteration of loop 2. It relinks the node under
  `findProc(parent->begVMA())` (`FindProcAt`), which can be NULL.
* `FilterFile(f)`: deletes a File whose base name is not on the path,
  together with its whole subtree.
* `FilterDone`, `StartNest`, `StartFilter`: the transitions between loops.

Iterating `mp` in insertion order is sound. The multimap orders different
keys by pointer, but an iteration for one Struct::Proc reads only the VMA
sets, which loop 2 does not change. Equal keys keep insertion order.

`MC_Skeleton.tla` uses three procedures at addresses 10, 20 and 30 and the
files Fc, Fd and Gc. Fd is another spelling of Fc, and realpath maps it to
Fc. The input families are:

* `NestInputs`: every forest of parents, two names, two files and two line
  ranges, filtered to what the builder is written for. A procedure is
  never fused with its own parent, and fused pieces declare the same
  parent. That gives 17k initial states.
* `LineInputs`: the line data of one procedure.
* `DbgFileInputs`: the file-name sources of one procedure.

| Run | Config | Expect | What it shows |
|---|---|---|---|
| `skeleton_filter` | `MC_Skeleton_filter.cfg` | pass | There is one Struct::Proc per (file, name, link name), and it covers every piece's addresses and lines (`ProcsFused`, spec.md 8). Every nested procedure hangs under its parent's Struct::Proc and under a File (`NestedUnderParent`). About 190k states. |
| `skeleton_filter_kept` | `MC_Skeleton_filter_kept.cfg` | violation | A procedure of an accepted file that is nested in a procedure of a dropped file is deleted with that file (`AcceptedProcsKept`). |
| `skeleton_lines` | `MC_Skeleton_lines.cfg` | violation | If the begin line is 0 and the last instruction has a line, the Struct::Proc gets begLine 0 and a non-zero endLine. This contradicts the code's own comment at line 489 and spec.md 3 (`LineBoundsPaired`). |
| `skeleton_dbgfile` | `MC_Skeleton_dbgfile.cfg` | violation | A file name taken from debug info skips realpath, so one file gets two File nodes (`FilesCanonical`). |

A size-0 parent makes `NestedUnderParent` fail: `findProc` returns NULL
and the child is detached. spec.md 4.1 does not say what should happen
then, so no run asserts it (see the hazard at line 424).

Fairness: `WF_vars(Next)`, because the builder is a single thread. The
runs check only invariants.

### ParallelAnalysis.tla

Models all five interface functions of `ParallelAnalysis.cpp`: the two
`broadcast` overloads (131-200) and the three `mergeNonLocal` overloads
(203-347). Each rank makes the calls in `Prog[r]`, one after another. The
callers are the `reduce` template and hpcprof-mpi's main, and neither is
in this repository, so `Prog` is a constant. `pc[r]` is the call rank r is
in and the step within it.

Messages go on FIFO channels `chan[<<s, d>>]`. MPI does not let messages
from one sender with one tag overtake each other, and every tag here is
the sender's rank. A send (`SendProfile`, `SendStrings`, `SendMetrics`)
either returns at once (eager) or waits in `SendMatched` until the message
is received (rendezvous). MPI allows both.

A receive (`RecvProfile`, `RecvStrings`, `RecvMetrics`) takes the first
message from rank_y and merges it through `MergeInto`:

* `Profile::merge` and `unpackMetrics` (through FnCombine) add values.
* `StringSet::operator+=` is a union.

The data is abstracted to the number of times each rank's contribution is
held. So a lost or duplicated merge changes the counts.

`broadcast` has two steps, one per `MPI_Bcast`:

* `BcastSize`: the root packs, and the others wait for the root and then
  allocate.
* `BcastData`: the others receive the root's bytes. Then every rank except
  rank 0 unpacks (the code tests `myRank != 0`), the buffer is deleted,
  and the root finalizes its perf-event statistics.

`MC_ParallelAnalysis.tla` runs five ranks on the binary-heap tree the
`reduce` template walks, rotated to be rooted at the broadcast root. The
calls are: reduce string sets, broadcast them, reduce profiles, broadcast
the profile, reduce metrics. With five ranks, rank 1 receives from two
children (3 and 4) that can run ahead of it into the next reduction while
it still has to send to rank 0. Ranks 1 and 2 both send to rank 0. Four
ranks gave 525 states and no inner rank with two children. Six ranks
take 40 s and add only a mirror image of rank 1's subtree.

| Run | Config | Expect | What it shows |
|---|---|---|---|
| `parallel_root0` | `MC_ParallelAnalysis.cfg` | pass | Until every rank has returned, some rank can step, even with rendezvous sends (`NoWaitCycle`, lines 220-259). A rank in a mergeNonLocal receive always finds, first on the channel from rank_y, a message of the kind it expects, although all kinds share the tag rank_y (`ReceiveMatchesKind`, line 220). At the end the root holds every rank's contribution exactly once (`ReductionComplete`), and every rank holds the root's profile and strings (`BroadcastAgrees`). The calls refine `AtomicReduction` (`ImplementsAtomicReduction`). 2,427 states. |
| `parallel_root1` | `MC_ParallelAnalysis_root1.cfg` | violation | Rooted at rank 1, rank 0 never unpacks the broadcast and keeps its own profile (`BroadcastAgrees`, lines 156 and 193). |

Fairness: weak fairness of each rank's steps, because every rank is its
own MPI process.

The messages keep their kind (string set, profile or metric table),
although the code cannot see it. `ReceiveMatchesKind` holds because
every rank makes the same sequence of calls and each channel is FIFO.
`NoWaitCycle` states deadlock freedom as an invariant, with `ENABLED`.
Its mutant probes for tag rank_x instead of the sender's rank, and no
rank can then step. The mutant of `ReceiveMatchesKind` probes and merges
but never calls `MPI_Recv`, so the stale message is later taken by the
next call's receive. The other mutants in PROJECT.json: string sets
added instead of united, a metric receive that does not combine, a
non-root rank that unpacks before the data `MPI_Bcast`, and a send of
the PackedMetrics before `packMetrics`.

### AtomicReduction.tla

What the calls promise their caller, without messages or buffers.
`Merge(x, y)` is mergeNonLocal done in one step by both ranks: x's object
absorbs y's object as y holds it at that moment. `Bcast(r)` publishes the
root's object, and the root finalizes its statistics. On another rank,
once the root has published, `Bcast(r)` replaces the profile or adds the
strings.

`ParallelAnalysis` checks `Atomic!Spec` as the property
`ImplementsAtomicReduction`. The mapping keeps the objects. It maps
`bdata` to the published value. It maps each rank's position to
`AbstractPc`: a rank whose send is still in flight is still in its
mergeNonLocal call. A rendezvous sender whose message was taken is past
its call. So rank_x's receive is the abstract merge, and the check fails
if rank_x merges something other than what rank_y holds at that moment.
Sends, `SendMatched` and `BcastSize` are stuttering steps. The mutant is
an `MPI_Send` of the PackedMetrics before `packMetrics` has filled it.
The intended broadcast gives the root's object to every rank other than
the root. So the refinement holds only with root 0, where the code's
`myRank != 0` test agrees.

### LoopNest.tla

Models BuildLMStructure's loop over the `[Struct::Proc, binutils::Proc]`
pairs (bloop.cpp 328-337), `BuildProcStructure` with its CFG-building
wrapper (553-635), `BuildProcLoopNests` (644-776), `BuildLoopAndStmts`
(781-835), `BuildStmts` (841-890) and `FindLoopBegLineInfo` (980-1031).
`PieceProc[k]` is the Struct::Proc of the k-th pair, in the multimap's
order. Pieces of a split procedure that the skeleton fused share one
Struct::Proc. They come one after another, because the multimap keeps equal
keys together in insertion order.

| Variable | Code |
|---|---|
| `scr`, `irr` | the `NestedSCR` (root, tree parent of each node, `getNodeType`) and `irrIvalIsLoop`; inputs fixed for a run |
| `queue`, `qtodo` | `theQueue` of `QNode(fgNode, enclosingStrct, scope)` and the iterator `q_todo`, as a position (`Len(queue)+1` is `end()`) |
| `qnode`, `kid` | the QNode popped last and the `getInners`/`getNext` iterator over its tree children |
| `processed`, `i` | `isNodeProcessed` and the index of the pass over unvisited nodes |
| `built`, `stmts`, `loopLine`, `nLoops` | the scope each node was built in, the Stmts located (scope and sortId), each Loop's line, the number of nodes whose returned scope is a Loop (`nLoops++` at 710-712 and 729-731) |
| `callSortId` | the static `call_sortId` of BuildStmts |
| `piece`, `doneCalls` | the pair being built, and the call Stmts of the pairs already built (with their Struct::Proc and sortId) |

Actions: `Pop` (steps 1 and 2: pop the front, move `q_todo`, build the
node if it was the first TODO node), `BuildKid` (one turn of step 3's
do-while: build a child in `qnode.scope` and insert it before `q_todo`),
`StartUnvisited`, `VisitUnvisited` (the loop over ids 1..HWM, building each
unprocessed node in the Proc), `EndSeq` (`locMgr.endSeq()`, return),
`NextProc` (BuildLMStructure takes the next pair: `BuildProcStructure`
starts a new walk with fresh locals, while `call_sortId` carries over) and
`Terminated` (after the last pair). BuildLoopAndStmts and BuildStmts are operators inside these
actions, as they are calls inside the code. Step 4 (push to the TODO
section) is dead code, because `WasCtxtClosed` is commented out of the
do-while's condition, so the do-while takes every child. Only the root is
ever in the TODO section. `FindLoopBegLineInfo` is a fold over the head's
incoming edges.

### LoopPlacement.tla

The abstract promise of the builder (spec.md 4.2), without a queue. Each
step builds one unbuilt node. The root goes in the Proc. A reached node
goes in the scope its built tree parent opens. Once the whole tree is
built, an unreached node goes in the Proc. The statements go in the Loop
the node opens, or in its scope. Once a procedure is complete,
`NextProcedure` starts the next one: any tree and any Struct::Proc (`proc`).
LoopNest's `ImplementsPlacement` checks `Placement!SafetySpec`. The
refinement mapping drops the sortIds from `stmts` and maps `proc` to the
current pair's Struct::Proc. Every LoopNest step that builds a node is one abstract step;
the others are stuttering steps.

### MC_LoopNest.tla and its configuration

Six flow nodes. Every tree whose root is node 1 and in which each node
hangs below a node of smaller id or is unreached (326 shapes). A node with
children is INTERVAL or IRREDUCIBLE. A leaf or the root is ACYCLIC or
INTERVAL. An unreached node is NOTHING. That gives 12,662 inputs, each
checked with `irrIvalIsLoop` TRUE and FALSE. Six nodes are the fewest at
which a depth-first walk or an insertion at the queue's front builds a
node before one nearer the root. The incoming edges of nodes 2-6 cover
spec.md 7's example (back edges at lines 42 and 40 and a forward edge at
100 give line 40), an unlabelled back edge, a back edge without a line, a
source block with no end instruction, and no qualifying edge.

Two pairs, both in the Struct::Proc `P1`, model a procedure split into two
pieces. The first piece may have any of the trees above. The second piece
has one fixed tree: a loop at its entry around block 2, with the other
blocks unreached. It calls at every block, like the first piece. This adds
about 1,100 states.

| Run | Config | Expect | What it shows |
|---|---|---|---|
| `loopnest` | `MC_LoopNest.cfg` | pass | Every node is built by the time the function returns (`AllBuilt`). The queue keeps the two sections of the code's comment (`QueueSections`). Each node is built in the scope of its nearest loop-head ancestor (`PlacedInNearestLoop`, against a RECURSIVE reference). A call's sortId is negative and unique (`StmtsUnique`). No two calls of the Struct::Proc share a sortId, across the two pieces too (`CallIdsDistinctInProc`). Each Loop's line is the lowest back-branch line (`LoopAtLowestBackBranch`, against a Min-based reference). Nodes are built breadth-first (`BuiltBreadthFirst`, an action property). The walk refines LoopPlacement (`ImplementsPlacement`). About 482k states in under a minute. |

Liveness: the code is one sequential call, which justifies `WF_vars(Next)`.
That the call returns with everything built is checked as the invariant
`AllBuilt` (`phase = "done"` implies every node is built), together with
TLC's deadlock check. The only state whose only successor is a stuttering step is
`done` after the last pair, so a run stuck elsewhere would be reported as a
deadlock. Checking the abstract spec's WF as a temporal property took
minutes on the same state space and adds nothing to this.

The mutants in PROJECT.json: a QNode whose scope is not recorded, the
unvisited pass stopping one id early, `q_todo` left on the inserted node,
kids built in the parent's enclosing scope, a post-decremented
`call_sortId`, a `call_sortId` restarted for each procedure, a loop line
taken only from labelled back edges, a kid
inserted at the queue's front, and a loop's statements placed in the
enclosing scope. Each makes TLC report its property violated.

## 4. Not modelled (yet) and why

* `WriteStrctTree` (bloop.cpp 275-287) only formats the tree as XML through
  the tree library's `xml_dump`, which is not in this repository.
  `MetricAccessor`, `MetricAccessorInband` and `MetricDataAccessorInband`
  (lib/prof) are interfaces and forwarding wrappers with no state of their
  own. `ClockSynchronizer.hpp` and `xed-inst-printer.h` are declarations
  only, and their implementations are not in this repository. None of
  them has a state change to model.
* The components are checked separately where they meet. Which
  binutils procedures the skeleton fuses enters `LoopNest` as the
  constant `PieceProc`. The statements `LoopNest` builds are not fed into
  `CoalesceDuplicateStmts`, whose trees are enumerated directly. A model
  composing the three would be far beyond TLC's reach at these bounds.
* The location manager (placement of statements and synthesis of Alien
  nodes) and the CFG/Tarjan analysis (OpenAnalysis) are outside this
  repository. The loop-nest model takes the Nested SCR tree, the node types
  and the incoming edges as inputs, and puts a Loop or Stmt in exactly the
  scope it passes to `locMgr.locate`; the Alien contexts the location
  manager may insert in between are not modelled.
* The wrap of the static 32-bit `call_sortId` after 2^31 calls: far beyond
  any bound TLC explores; the model keeps it an unbounded integer.
* ParallelAnalysis: the byte formats of packProfile/packStringSet and the
  per-node layout of PackedMetrics are abstracted to the contribution
  counts. The mismatched free of the root's open_memstream buffer with
  `delete []` is not modelled, nor the `(int)` cast of the buffer size
  passed to `MPI_Send` (sizes are abstracted away).
* RemoveOrphanedProcedureRepository: commented out in Normalize, never run.

------------------------------ MODULE LoopNest ------------------------------
(***************************************************************************)
(* bloop.cpp's loop-nest builder: BuildLMStructure's loop over the       *)
(* [Struct::Proc, binutils::Proc] pairs, BuildProcStructure, and for each  *)
(* pair BuildProcLoopNests (the walk of the Nested SCR tree with its       *)
(* two-section queue and the pass over unvisited nodes),                   *)
(* BuildLoopAndStmts, BuildStmts and FindLoopBegLineInfo.  Pieces of one   *)
(* split procedure, fused by the skeleton builder, are built one after    *)
(* the other into the same Struct::Proc.                                  *)
(*                                                                         *)
(* The Nested SCR is an input record: its root (fgRoot), each node's tree *)
(* parent (0 for the root and for nodes the tree does not reach) and each *)
(* node's type.  getInners/getNext give a node's tree children; the model *)
(* takes them in id order.  A scope is the Proc or a Loop, named by the    *)
(* flow node whose head opened it.  bloop::LocationMgr (not in this        *)
(* repository) places a Loop or Stmt in the scope it is given; the Alien   *)
(* contexts it may add in between are not modelled.                       *)
(***************************************************************************)
EXTENDS Integers, Sequences, SequencesExt, FiniteSetsExt

CONSTANTS
  FlowNode,   \* 1..getHighWaterMarkNodeId(): the ids of the flow nodes
  PieceProc,  \* PieceProc[k]: the Struct::Proc of the k-th pair of the
              \* ProcStrctToProcMap, in the order the multimap iterates
  NoScope,    \* a NULL Struct::ACodeNode*
  Inputs,     \* Inputs[k]: the Nested SCR trees the k-th binutils::Proc
              \* may have: [root, tparent, type]
  IrrModes,   \* the values irrIvalIsLoop may take
  Insns,      \* Insns[n]: n's instructions, in order: [line, call]
  InEdges,    \* InEdges[n]: n's incoming CFG edges, in the iterator's order
  HeadLine,   \* HeadLine[n]: the source line of n's first instruction
  CallIdInit  \* the values call_sortId may hold when this procedure starts

VARIABLES
  scr,        \* the Nested SCR of the procedure, fixed for a run
  irr,        \* irrIvalIsLoop, fixed for a run
  queue,      \* theQueue: QNodes [fg, enc, scope]
  qtodo,      \* q_todo as a position in queue; Len(queue) + 1 is end()
  qnode,      \* the QNode popped last (its children are being built)
  kid,        \* position of the kid iterator among qnode's tree children
  processed,  \* the ids with isNodeProcessed[id] set
  i,          \* the index of the pass over unvisited nodes
  phase,      \* "pop", "kids", "rest" or "done"
  built,      \* built[n]: the scope BuildLoopAndStmts built n in, or NoScope
  stmts,      \* the Struct::Stmts located: [id |-> <<n, j>>, scope, sortId]
  loopLine,   \* loopLine[n]: the line of the Loop n opened, or 0
  nLoops,     \* nLoops
  callSortId, \* the static call_sortId of BuildStmts
  piece,      \* the pair of the multimap being built
  doneCalls   \* the call Stmts of the pairs built before: [piece, id, proc, sortId]

(* The state local to one BuildProcLoopNests call. *)
walk == <<queue, qtodo, qnode, kid, processed, i, phase, built, stmts,
          loopLine, nLoops>>

vars == <<scr, irr, walk, callSortId, piece, doneCalls>>

(* The Struct::Proc the current pair is built into. *)
Proc == PieceProc[piece]

QNode(fg, enc, scope) == [fg |-> fg, enc |-> enc, scope |-> scope]

(* getInners(n), then getNext of each: n's children in the Nested SCR. *)
Kids(n) == SetToSortSeq({m \in FlowNode : scr.tparent[m] = n}, <)

(* BuildProcLoopNests' locals as it starts: theQueue holds the root,     *)
(* unprocessed, and q_todo points at it; nothing is built or counted.     *)
Init ==
  /\ piece = 1
  /\ scr \in Inputs[1]
  /\ irr \in IrrModes
  /\ queue = << QNode(scr.root, Proc, NoScope) >> /\ qtodo = 1
  /\ qnode = QNode(scr.root, Proc, NoScope) /\ kid = 1
  /\ processed = {} /\ i = 1 /\ phase = "pop"
  /\ built = [n \in FlowNode |-> NoScope] /\ stmts = {}
  /\ loopLine = [n \in FlowNode |-> 0] /\ nLoops = 0
  /\ callSortId \in CallIdInit
  /\ doneCalls = {}

------------------------------------------------------------------------------
(* FindLoopBegLineInfo: the smallest valid source line of the branches    *)
(* ending the source blocks of the head's incoming back edges (or edges   *)
(* from an address at or above the head's); failing that, the head's own  *)
(* line.  An edge is [end (its source block has an end instruction),      *)
(* back (BACK_EDGE), ge (the branch's vma >= headVMA), line].             *)
FindLoopBegLineInfo_backOnly(es, head) ==
  LET step(begLn, e) ==
        IF /\ e.end /\ e.back /\ e.line # 0
           /\ (begLn = 0 \/ e.line < begLn)
        THEN e.line ELSE begLn
      begLn == FoldLeft(step, 0, es)
  IN  IF begLn # 0 THEN begLn ELSE head

FindLoopBegLineInfo(es, head) ==
  LET step(begLn, e) ==
        IF /\ e.end /\ (e.back \/ e.ge) /\ e.line # 0
           /\ (begLn = 0 \/ e.line < begLn)
        THEN e.line ELSE begLn
      begLn == FoldLeft(step, 0, es)
  IN  IF begLn # 0 THEN begLn ELSE head

(* BuildLoopAndStmts' classification: a node opens a Loop if it is an    *)
(* INTERVAL, or IRREDUCIBLE when irreducible intervals count as loops.    *)
OpensLoop(n) ==
  \/ scr.type[n] = "INTERVAL"
  \/ irr /\ scr.type[n] = "IRREDUCIBLE"

ChildScope(n, enc) == IF OpensLoop(n) THEN n ELSE enc

(* The number of call instructions among the first j of n's block. *)
CallsUpTo(n, j) == Cardinality({k \in 1..j : Insns[n][k].call})

(* BuildStmts: one Struct::Stmt per instruction, located in scope; a call *)
(* takes the next value of the pre-decremented call_sortId as its sortId, *)
(* any other instruction keeps its line.                                  *)
BuildStmts_postDecrement(n, scope) ==
  /\ stmts' = stmts \cup
       {[id |-> <<n, j>>, scope |-> scope,
         sortId |-> IF Insns[n][j].call THEN callSortId - CallsUpTo(n, j) + 1
                    ELSE Insns[n][j].line] : j \in DOMAIN Insns[n]}
  /\ callSortId' = callSortId - CallsUpTo(n, Len(Insns[n]))

BuildStmts(n, scope) ==
  /\ stmts' = stmts \cup
       {[id |-> <<n, j>>, scope |-> scope,
         sortId |-> IF Insns[n][j].call THEN callSortId - CallsUpTo(n, j)
                    ELSE Insns[n][j].line] : j \in DOMAIN Insns[n]}
  /\ callSortId' = callSortId - CallsUpTo(n, Len(Insns[n]))

(* The block's statements put in enc even when n opens a Loop. *)
BuildLoopAndStmts_stmtsInEnc(n, enc) ==
  /\ built' = [built EXCEPT ![n] = enc]
  /\ loopLine' = IF OpensLoop(n)
                   THEN [loopLine EXCEPT ![n] = FindLoopBegLineInfo(InEdges[n], HeadLine[n])]
                   ELSE loopLine
  /\ BuildStmts(n, enc)

(* BuildLoopAndStmts(enc, n): a loop head gets a Loop at the line          *)
(* FindLoopBegLineInfo finds, located in enc; the block's statements go    *)
(* into that Loop, or into enc.                                            *)
BuildLoopAndStmts(n, enc) ==
  /\ built' = [built EXCEPT ![n] = enc]
  /\ loopLine' = IF OpensLoop(n)
                   THEN [loopLine EXCEPT ![n] = FindLoopBegLineInfo(InEdges[n], HeadLine[n])]
                   ELSE loopLine
  /\ BuildStmts(n, ChildScope(n, enc))

(* nLoops++ when the scope BuildLoopAndStmts returned is a Loop: the node *)
(* opens one, or it lies in one.                                          *)
CountLoop(n, enc) ==
  nLoops' = IF ChildScope(n, enc) \in FlowNode THEN nLoops + 1 ELSE nLoops

------------------------------------------------------------------------------
(* qnode.scope = myScope: the QNode just built records its scope. *)
Popped_scopeNotSet(q) == q

Popped(q) == [q EXCEPT !.scope = ChildScope(q.fg, q.enc)]

(* BuildProcLoopNests, steps 1-3 for the front QNode: pop it, moving     *)
(* q_todo past it if it was the first of the TODO section, and build it  *)
(* if so; then go on to its tree children, if it has any.                *)
Pop ==
  LET q      == Head(queue)
      isTODO == qtodo = 1
  IN
  /\ phase = "pop" /\ queue # << >>
  /\ queue' = Tail(queue)
  /\ qtodo' = IF isTODO THEN qtodo ELSE qtodo - 1
  /\ IF isTODO
       THEN /\ BuildLoopAndStmts(q.fg, q.enc)
            /\ processed' = processed \cup {q.fg}
            /\ CountLoop(q.fg, q.enc)
            /\ qnode' = Popped(q)
       ELSE /\ qnode' = q
            /\ UNCHANGED <<built, stmts, loopLine, processed, nLoops, callSortId>>
  /\ kid' = 1
  /\ phase' = IF Kids(q.fg) = << >> THEN "pop" ELSE "kids"
  /\ UNCHANGED <<scr, irr, piece, doneCalls, i>>

(* The scope a popped QNode's children are built in: its own scope. *)
KidEnclosing_enc(q) == q.enc

KidEnclosing(q) == q.scope

(* theQueue.insert(q_todo, QNode(kid, enc, myScope)): into the BFS        *)
(* section, just before q_todo, which keeps pointing at the same element. *)
EnqueueKid_front(k, enc) ==
  /\ queue' = << QNode(k, enc, ChildScope(k, enc)) >> \o queue
  /\ qtodo' = qtodo + 1

EnqueueKid_todoAtInserted(k, enc) ==
  /\ queue' = InsertAt(queue, qtodo, QNode(k, enc, ChildScope(k, enc)))
  /\ qtodo' = qtodo

EnqueueKid(k, enc) ==
  /\ queue' = InsertAt(queue, qtodo, QNode(k, enc, ChildScope(k, enc)))
  /\ qtodo' = qtodo + 1

(* Step 3, one turn of the do-while: build the next child and insert it, *)
(* processed, into the BFS section.  The loop runs over every child      *)
(* (WasCtxtClosed is commented out), so step 4, which pushes the         *)
(* remaining children to the TODO section, never has any.               *)
BuildKid ==
  LET k   == Kids(qnode.fg)[kid]
      enc == KidEnclosing(qnode)
  IN
  /\ phase = "kids"
  /\ BuildLoopAndStmts(k, enc)
  /\ processed' = processed \cup {k}
  /\ CountLoop(k, enc)
  /\ EnqueueKid(k, enc)
  /\ kid' = kid + 1
  /\ phase' = IF kid = Len(Kids(qnode.fg)) THEN "pop" ELSE "kids"
  /\ UNCHANGED <<scr, irr, piece, doneCalls, qnode, i>>

StartUnvisited ==
  /\ phase = "pop" /\ queue = << >>
  /\ phase' = "rest" /\ i' = 1
  /\ UNCHANGED <<scr, irr, piece, doneCalls, queue, qtodo, qnode, kid, processed, built, stmts,
                 loopLine, nLoops, callSortId>>

(* The last index of isNodeProcessed, sized getHighWaterMarkNodeId() + 1. *)
LastId_offByOne == Max(FlowNode) - 1

LastId == Max(FlowNode)

(* The pass over the nodes the walk did not mark processed: each is built *)
(* directly in the Proc (isNodeProcessed is not set, nLoops not counted). *)
VisitUnvisited ==
  /\ phase = "rest" /\ i <= LastId
  /\ IF i \notin processed
       THEN BuildLoopAndStmts(i, Proc)
       ELSE UNCHANGED <<built, stmts, loopLine, callSortId>>
  /\ i' = i + 1
  /\ UNCHANGED <<scr, irr, piece, doneCalls, queue, qtodo, qnode, kid, processed, phase, nLoops>>

(* locMgr.endSeq() and return nLoops. *)
EndSeq ==
  /\ phase = "rest" /\ i > LastId
  /\ phase' = "done"
  /\ UNCHANGED <<scr, irr, piece, doneCalls, queue, qtodo, qnode, kid, processed, i, built,
                 stmts, loopLine, nLoops, callSortId>>

(* The call Stmts of the current pair, as doneCalls keeps them. *)
CallsOf(ss) ==
  {[piece |-> piece, id |-> s.id, proc |-> Proc, sortId |-> s.sortId] :
     s \in {s \in ss : Insns[s.id[1]][s.id[2]].call}}

(* BuildProcStructure(pStrct, p) calls BuildProcLoopNests(pStrct, p),     *)
(* which has OpenAnalysis build p's CFG and Nested SCR (an input tree     *)
(* here) and starts the walk with fresh locals and a fresh LocationMgr.   *)
BuildProcStructure(t, proc) ==
  /\ scr' = t
  /\ queue' = << QNode(t.root, proc, NoScope) >> /\ qtodo' = 1
  /\ qnode' = QNode(t.root, proc, NoScope) /\ kid' = 1
  /\ processed' = {} /\ i' = 1 /\ phase' = "pop"
  /\ built' = [n \in FlowNode |-> NoScope] /\ stmts' = {}
  /\ loopLine' = [n \in FlowNode |-> 0] /\ nLoops' = 0

(* A call_sortId that each procedure starts afresh. *)
NextProc_resetCallSortId ==
  /\ phase = "done" /\ piece < Len(PieceProc)
  /\ doneCalls' = doneCalls \cup CallsOf(stmts)
  /\ piece' = piece + 1
  /\ \E t \in Inputs[piece + 1] : BuildProcStructure(t, PieceProc[piece + 1])
  /\ callSortId' \in CallIdInit
  /\ UNCHANGED irr

(* BuildLMStructure, step 2: on to the next pair of the multimap once     *)
(* BuildProcStructure has returned; the static call_sortId carries over.  *)
NextProc ==
  /\ phase = "done" /\ piece < Len(PieceProc)
  /\ doneCalls' = doneCalls \cup CallsOf(stmts)
  /\ piece' = piece + 1
  /\ \E t \in Inputs[piece + 1] : BuildProcStructure(t, PieceProc[piece + 1])
  /\ UNCHANGED <<irr, callSortId>>

Terminated == phase = "done" /\ piece = Len(PieceProc) /\ UNCHANGED vars

Next ==
  \/ Pop
  \/ BuildKid
  \/ StartUnvisited
  \/ VisitUnvisited
  \/ EndSeq
  \/ NextProc
  \/ Terminated

(* BuildProcLoopNests is one sequential call; it keeps stepping until it *)
(* returns.                                                              *)
Spec == Init /\ [][Next]_vars /\ WF_vars(Next)

------------------------------------------------------------------------------
(***************************************************************************)
(* Properties                                                              *)
(***************************************************************************)
Scope == FlowNode \cup {Proc}

InTree(n) == n = scr.root \/ scr.tparent[n] # 0

RECURSIVE Depth(_)
Depth(n) == IF scr.tparent[n] = 0 THEN 0 ELSE 1 + Depth(scr.tparent[n])

(* Every variable holds a value of its type. *)
TypeOK ==
  /\ queue \in Seq([fg : FlowNode, enc : Scope, scope : Scope \cup {NoScope}])
  /\ qtodo \in 1..Len(queue) + 1
  /\ processed \subseteq FlowNode
  /\ built \in [FlowNode -> Scope \cup {NoScope}]
  /\ loopLine \in [FlowNode -> Nat]
  /\ nLoops \in Nat /\ callSortId \in Int
  /\ piece \in DOMAIN PieceProc
  /\ doneCalls \subseteq [piece : 1..piece - 1, id : FlowNode \X Nat,
                           proc : Range(PieceProc), sortId : Int]

(* The queue invariants stated in the comment above theQueue in          *)
(* BuildProcLoopNests: the nodes before q_todo are processed and have a  *)
(* scope, those from q_todo on are not and have none, and no queued      *)
(* node has a processed child.                                           *)
QueueSections ==
  \A p \in 1..Len(queue) :
    /\ p < qtodo <=> queue[p].fg \in processed
    /\ p < qtodo <=> queue[p].scope # NoScope
    /\ \A m \in FlowNode : scr.tparent[m] = queue[p].fg => m \notin processed

(* The reference: the scope a node belongs in is the Loop of its nearest  *)
(* proper ancestor in the Nested SCR tree that opens one, or the Proc.    *)
RECURSIVE NearestLoop(_)
NearestLoop(n) ==
  IF ~InTree(n) \/ n = scr.root THEN Proc
  ELSE IF OpensLoop(scr.tparent[n]) THEN scr.tparent[n]
  ELSE NearestLoop(scr.tparent[n])

(* Whatever order the queue yields them in, BuildLoopAndStmts builds each *)
(* flow node in the scope of its nearest enclosing loop head.            *)
PlacedInNearestLoop ==
  \A n \in FlowNode : built[n] # NoScope => built[n] = NearestLoop(n)

(* BuildStmts makes one statement per instruction, and a call's sortId is *)
(* negative and shared with no other statement, whether of a call or of  *)
(* a source line (spec.md 3 and 7, sortId separation).                   *)
StmtsUnique ==
  \A s, t \in stmts :
    /\ s.id = t.id => s = t
    /\ s # t /\ Insns[s.id[1]][s.id[2]].call => s.sortId < 0 /\ s.sortId # t.sortId

(* A Loop's line is the smallest valid line among the branches of its    *)
(* head's incoming back edges and edges from at or above the head, and   *)
(* the head's own line when there is none (spec.md 4.2 and 7).           *)
LowestBackBranch(es, head) ==
  LET lines == {es[k].line : k \in {k \in DOMAIN es :
                  es[k].end /\ (es[k].back \/ es[k].ge) /\ es[k].line # 0}}
  IN  IF lines = {} THEN head ELSE Min(lines)

LoopAtLowestBackBranch ==
  \A n \in FlowNode :
    loopLine[n] # 0 => loopLine[n] = LowestBackBranch(InEdges[n], HeadLine[n])

(* The static call_sortId keeps the calls of every piece of a fused      *)
(* procedure apart: no two call Stmts located in one Struct::Proc, of one *)
(* piece or of two, share a sortId (CoalesceDuplicateStmts would take     *)
(* them for duplicates and merge two distinct calls).                     *)
CallIdsDistinctInProc ==
  \A c, d \in doneCalls \cup CallsOf(stmts) :
    c.proc = d.proc /\ <<c.piece, c.id>> # <<d.piece, d.id>> => c.sortId # d.sortId

(* The walk is breadth-first (spec.md 4.2): a node of the tree is built  *)
(* only once every node of the tree nearer the root has been.            *)
BuiltBreadthFirst ==
  [][\A n \in FlowNode :
       built[n] = NoScope /\ built'[n] # NoScope /\ InTree(n) =>
         \A m \in FlowNode : InTree(m) /\ Depth(m) < Depth(n) => built[m] # NoScope]_vars

(* The builder implements LoopPlacement: each step builds at most one     *)
(* node, never one already built, and only once its tree parent is, in   *)
(* the scope the abstract placement gives it and with its statements     *)
(* where the abstract puts them; the unreached nodes come last.          *)
Placement == INSTANCE LoopPlacement
               WITH stmts <- {[id |-> s.id, scope |-> s.scope] : s \in stmts},
                    proc <- Proc

ImplementsPlacement == Placement!SafetySpec

(* When BuildProcLoopNests returns, every flow node of the procedure has *)
(* been built, the ones the tree walk never reached included (spec.md   *)
(* 4.2, step 6).                                                         *)
AllBuilt == phase = "done" => Placement!Complete

=============================================================================

---------------------------- MODULE LoopPlacement ----------------------------
(***************************************************************************)
(* What the loop-nest builder of one procedure promises (spec.md 4.2),    *)
(* without its work queue: every flow node of the procedure is built      *)
(* exactly once.  The root of the Nested SCR (Tarjan) tree is built in    *)
(* the Proc; any other node of the tree after its tree parent, in the     *)
(* scope that parent opens (the parent's own Loop when the parent is a    *)
(* loop head, the scope the parent was built in otherwise); the nodes the *)
(* tree does not reach, once the whole tree is built, in the Proc.  A     *)
(* node's instructions become statements of the Loop it opens, or of the  *)
(* scope it was built in.                                                 *)
(*                                                                         *)
(* The order among nodes whose parents are built is left open.  Once a   *)
(* procedure is complete, the next one (any tree, any Struct::Proc) may   *)
(* be built the same way.                                                 *)
(***************************************************************************)
EXTENDS Naturals

CONSTANTS
  FlowNode,   \* the node ids of the procedure's flow graph
  NoScope,    \* no scope yet (a NULL Struct::ACodeNode*)
  Insns       \* Insns[n]: the instructions of n's basic block

VARIABLES
  scr,        \* the Nested SCR of the procedure ([root, tparent, type])
  proc,       \* the enclosing Struct::Proc
  irr,        \* irrIvalIsLoop, fixed for a run
  built,      \* built[n]: the scope n was built in, or NoScope
  stmts       \* the statements made: [id |-> <<n, j>>, scope]

avars == <<scr, proc, irr, built, stmts>>

InTree(n) == n = scr.root \/ scr.tparent[n] # 0

OpensLoop(n) ==
  \/ scr.type[n] = "INTERVAL"
  \/ irr /\ scr.type[n] = "IRREDUCIBLE"

(* The scope the children of an already built node are built in. *)
ScopeOpenedBy(m) == IF OpensLoop(m) THEN m ELSE built[m]

Block(n, scope) == {[id |-> <<n, j>>, scope |-> scope] : j \in DOMAIN Insns[n]}

(* Whatever Nested SCR the procedure has and whatever the option says. *)
Init ==
  /\ irr \in BOOLEAN
  /\ built = [n \in FlowNode |-> NoScope]
  /\ stmts = {}

(* Build node n in scope enc, with its statements. *)
Place(n, enc) ==
  /\ built' = [built EXCEPT ![n] = enc]
  /\ stmts' = stmts \cup Block(n, IF OpensLoop(n) THEN n ELSE enc)
  /\ UNCHANGED <<scr, proc, irr>>

BuildRoot ==
  /\ built[scr.root] = NoScope
  /\ Place(scr.root, proc)

BuildInner(n) ==
  /\ InTree(n) /\ n # scr.root
  /\ built[n] = NoScope
  /\ built[scr.tparent[n]] # NoScope
  /\ Place(n, ScopeOpenedBy(scr.tparent[n]))

BuildUnreached(n) ==
  /\ ~InTree(n)
  /\ built[n] = NoScope
  /\ \A m \in FlowNode : InTree(m) => built[m] # NoScope
  /\ Place(n, proc)

Complete == \A n \in FlowNode : built[n] # NoScope

(* The next procedure: its tree and its Struct::Proc are whatever the     *)
(* caller passes; nothing of it is built yet.                             *)
NextProcedure ==
  /\ Complete
  /\ built' = [n \in FlowNode |-> NoScope]
  /\ stmts' = {}
  /\ UNCHANGED irr

Next ==
  \/ BuildRoot
  \/ \E n \in FlowNode : BuildInner(n) \/ BuildUnreached(n)
  \/ NextProcedure
  \/ Complete /\ UNCHANGED avars

SafetySpec == Init /\ [][Next]_avars

(* Building goes on until every node is built. *)
Spec == SafetySpec /\ WF_avars(Next)

=============================================================================

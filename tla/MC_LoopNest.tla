----------------------------- MODULE MC_LoopNest -----------------------------
(***************************************************************************)
(* Procedures of six flow nodes, 1..6.  The Nested SCR is rooted at the  *)
(* entry node 1; every other node hangs below a node of smaller id or is  *)
(* not reached by the tree.  A node with tree children is a loop head     *)
(* (INTERVAL or IRREDUCIBLE); the root may be one; a leaf is acyclic or a *)
(* one-block loop; an unreached node has no classification.  Each block   *)
(* holds a plain instruction and a call at the node's line.               *)
(***************************************************************************)
EXTENDS LoopNest

CONSTANT P1

MCFlowNode == 1..6

(* Tree parents: 0 for the root and for unreached nodes. *)
MCParents ==
  { tp \in { <<0, a, b, c, d, e>> :
               a \in 0..1, b \in 0..2, c \in 0..3, d \in 0..4, e \in 0..5 } :
      \A n \in 3..6 : tp[n] > 1 => tp[tp[n]] # 0 }

(* Each reached node has two classifications to choose from; X is the set *)
(* of nodes that take the second.                                         *)
TypesFor(tp) ==
  LET reached(n) == n = 1 \/ tp[n] # 0
      inner(n)   == \E m \in MCFlowNode : tp[m] = n
      first(n)   == IF n # 1 /\ inner(n) THEN "INTERVAL" ELSE "ACYCLIC"
      second(n)  == IF n # 1 /\ inner(n) THEN "IRREDUCIBLE" ELSE "INTERVAL"
  IN  { [n \in MCFlowNode |-> IF ~reached(n) THEN "NOTHING"
                              ELSE IF n \in X THEN second(n) ELSE first(n)] :
          X \in SUBSET {n \in MCFlowNode : reached(n)} }

MCTrees ==
  UNION { { [root |-> 1, tparent |-> tp, type |-> ty] : ty \in TypesFor(tp) } :
            tp \in MCParents }

(* The second piece of a split procedure: its entry block heads a loop   *)
(* around block 2; the other blocks are not reached.                     *)
MCSecondPiece ==
  { [root |-> 1, tparent |-> <<0, 1, 0, 0, 0, 0>>,
     type |-> <<"INTERVAL", "ACYCLIC", "NOTHING", "NOTHING", "NOTHING", "NOTHING">>] }

(* Two binutils procedures fused into the Struct::Proc P1 by the        *)
(* skeleton builder: the first may have any tree above.                  *)
MCPieceProc == <<P1, P1>>

MCInputs == <<MCTrees, MCSecondPiece>>

MCInsns == [n \in MCFlowNode |-> << [line |-> n, call |-> FALSE],
                                    [line |-> n, call |-> TRUE] >>]

E(end, back, ge, line) == [end |-> end, back |-> back, ge |-> ge, line |-> line]

(* Incoming edges of each head: node 2 has spec.md 7's example (back     *)
(* edges at lines 42 and 40, a forward edge at 100); node 3 an unlabelled *)
(* back edge and a back edge without a line; node 4 a back edge from a   *)
(* block without an end instruction; node 5 a labelled and an unlabelled *)
(* back edge; node 6 a single back edge.                                 *)
MCInEdges ==
  [n \in MCFlowNode |->
     CASE n = 1 -> << >>
       [] n = 2 -> << E(TRUE, TRUE, TRUE, 42), E(TRUE, TRUE, TRUE, 40),
                      E(TRUE, FALSE, FALSE, 100) >>
       [] n = 3 -> << E(TRUE, FALSE, TRUE, 7), E(TRUE, TRUE, TRUE, 0) >>
       [] n = 4 -> << E(FALSE, TRUE, TRUE, 1), E(TRUE, FALSE, FALSE, 2) >>
       [] n = 5 -> << E(TRUE, TRUE, TRUE, 9), E(TRUE, FALSE, TRUE, 8) >>
       [] n = 6 -> << E(TRUE, TRUE, FALSE, 5) >>]

MCHeadLine == [n \in MCFlowNode |-> n]

(* call_sortId as the first procedure of the run finds it.  Later        *)
(* procedures start lower, which no property here tells apart.          *)
MCCallIdInit == {0}

=============================================================================

-------------------- MODULE MC_CoalesceDuplicateStmts --------------------
(***************************************************************************)
(* Model for CoalesceDuplicateStmts: one procedure P holding up to one     *)
(* Alien A, two loops and three statements, in every shape the loop-nest  *)
(* builder can produce; two of the statements share a line, the third     *)
(* takes either line.                                                       *)
(***************************************************************************)
EXTENDS CoalesceDuplicateStmts

CONSTANTS P, A, L1, L2, S1, S2, S3

MCNode == {P, A, L1, L2, S1, S2, S3}

MCKind == [n \in MCNode |->
             CASE n = P          -> "Proc"
               [] n = A          -> "Alien"
               [] n \in {L1, L2} -> "Loop"
               [] OTHER          -> "Stmt"]

MCSortIds == {7, 9}

(* n reaches P within k parent steps. *)
RECURSIVE ReachesIn(_, _, _)
ReachesIn(p, n, k) ==
  IF n = P THEN TRUE
  ELSE IF k = 0 \/ p[n] = NoNode THEN FALSE
  ELSE ReachesIn(p, p[n], k - 1)

(* Loops and statements hang under P, A or a loop; A is absent or under P *)
(* or a loop; no cycles.                                                    *)
MCInitParent ==
  LET Scopes == {P, A, L1, L2}
      Shape(a, l1, l2, s1, s2, s3) ==
        [n \in MCNode |-> CASE n = P  -> NoNode
                            [] n = A  -> a
                            [] n = L1 -> l1
                            [] n = L2 -> l2
                            [] n = S1 -> s1
                            [] n = S2 -> s2
                            [] n = S3 -> s3]
      Shapes == { Shape(a, l1, l2, s1, s2, s3) :
                    a \in {NoNode, P, L1, L2},
                    l1 \in Scopes, l2 \in Scopes,
                    s1 \in Scopes, s2 \in Scopes, s3 \in Scopes }
  IN  { p \in Shapes : \A n \in MCNode \ {P, A} : ReachesIn(p, n, 4) }

(* The loops carry their header lines 5 and 6; no property of this pass   *)
(* reads line ranges, which only follow the loops merged by Case 2.        *)
MCInitLines ==
  { [n \in MCNode |-> CASE n = L1 -> [beg |-> 5, end |-> 5]
                       [] n = L2 -> [beg |-> 6, end |-> 6]
                       [] OTHER  -> [beg |-> 0, end |-> 0]] }

MCInitSortId == { f \in [{S1, S2, S3} -> MCSortIds] : f[S1] = 7 /\ f[S2] = 7 }

=============================================================================

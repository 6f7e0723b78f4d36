---------------------------- MODULE MC_Normalize ----------------------------
(***************************************************************************)
(* Model for Normalize: a Pgm G with a File F holding the Proc P and an    *)
(* empty File F2; under P up to two Aliens, three Loops and two statements *)
(* of one line.  Two families of trees keep the runs small: loop nests     *)
(* without Aliens, and Alien nests with one Loop.                          *)
(***************************************************************************)
EXTENDS Normalize

CONSTANTS G, F, F2, P, A1, A2, L1, L2, L3, S1, S2, Self, Other

MCNode == {G, F, F2, P, A1, A2, L1, L2, L3, S1, S2}

MCKind == [n \in MCNode |->
             CASE n = G              -> "Pgm"
               [] n \in {F, F2}      -> "File"
               [] n = P              -> "Proc"
               [] n \in {A1, A2}     -> "Alien"
               [] n \in {L1, L2, L3} -> "Loop"
               [] OTHER              -> "Stmt"]

MCSortIds == {7}
MCInitSortId == {[s \in {S1, S2} |-> 7]}
MCSites == {Self, Other}

(* n reaches P within k parent steps. *)
RECURSIVE ReachesIn(_, _, _)
ReachesIn(p, n, k) ==
  IF n = P THEN TRUE
  ELSE IF k = 0 \/ p[n] = NoNode THEN FALSE
  ELSE ReachesIn(p, p[n], k - 1)

Shape(a1, a2, l1, l2, l3, s1, s2) ==
  [n \in MCNode |-> CASE n = G  -> NoNode
                      [] n = F  -> G
                      [] n = F2 -> G
                      [] n = P  -> F
                      [] n = A1 -> a1
                      [] n = A2 -> a2
                      [] n = L1 -> l1
                      [] n = L2 -> l2
                      [] n = L3 -> l3
                      [] n = S1 -> s1
                      [] n = S2 -> s2]

(* Trees the builder can hand over: every present node reaches P without  *)
(* a cycle, and an Alien is only synthesized to hold something.            *)
BuilderTree(p) ==
  /\ \A n \in {A1, A2, L1, L2, L3, S1, S2} :
       p[n] # NoNode => ReachesIn(p, n, 6)
  /\ \A a \in {A1, A2} : p[a] # NoNode => \E c \in MCNode : p[c] = a

(* Loop nests: L1 under P, L2 and L3 under P or a loop, the statements     *)
(* under P or a loop.                                                      *)
LoopTrees ==
  LET S == {P, L1, L2, L3}
  IN  { p \in { Shape(NoNode, NoNode, P, l2, l3, s1, s2) :
                  l2 \in S, l3 \in S, s1 \in S, s2 \in S } : BuilderTree(p) }

(* Alien nests: A1 under P or L1, A2 absent or under P, A1 or L1, L1 under *)
(* P or an Alien, the statements anywhere below.                           *)
AlienTrees ==
  LET S == {P, A1, A2, L1}
  IN  { p \in { Shape(a1, a2, l1, NoNode, NoNode, s1, s2) :
                  a1 \in {P, L1}, a2 \in {NoNode, P, A1, L1},
                  l1 \in {P, A1, A2}, s1 \in S, s2 \in S } : BuilderTree(p) }

Rng(b, e) == [beg |-> b, end |-> e]

(* P spans lines 5-7; a Loop or an Alien sits at line 5 or 6; the         *)
(* statements are at line 7, their sortId; Pgm and Files have no lines.    *)
LinesFor(choices) ==
  { [n \in MCNode |-> CASE n = P -> Rng(5, 7)
                        [] n \in DOMAIN ls -> Rng(ls[n], ls[n])
                        [] n \in {S1, S2} -> Rng(7, 7)
                        [] OTHER -> Rng(0, 0)] : ls \in choices }

LoopLines  == LinesFor([{L1, L2, L3} -> {5, 6}])
AlienLines == LinesFor([{A1, A2, L1} -> {5, 6}])

(* P is its own site; each Alien is of P's file and name or of another.   *)
AlienSites == { [n \in MCNode |-> IF n \in {A1, A2} THEN f[n] ELSE Self] :
                  f \in [{A1, A2} -> MCSites] }
LoopSites  == { [n \in MCNode |-> Self] }

=============================================================================

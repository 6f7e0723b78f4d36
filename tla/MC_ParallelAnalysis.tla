------------------------- MODULE MC_ParallelAnalysis -------------------------
(***************************************************************************)
(* Five ranks running hpcprof-mpi's sequence of collective steps: reduce  *)
(* the directory string sets up the tree and broadcast them, reduce the   *)
(* profiles and broadcast the canonical one, then reduce the metric       *)
(* tables.  The tree is the binary heap over the ranks that the reduce    *)
(* template walks: rank r merges from children 2r+1 and 2r+2 (left first) *)
(* and then sends to its parent (r-1) \div 2.  With five ranks, rank 1    *)
(* receives from two children (3 and 4) that run ahead of it while it    *)
(* still has to send to 0, and ranks 1 and 2 send to the same receiver.  *)
(***************************************************************************)
EXTENDS ParallelAnalysis

MCRank == 0..4
N == 5

(* The tree is laid over the ranks rotated so that it is rooted at root: *)
(* heap position i is rank (i + root) % N.                                *)
RankAt(root, i) == (i + root) % N
PosOf(root, r) == (r - root + N) % N

(* The mergeNonLocal calls rank r makes for one reduction of kind k. *)
ReduceCalls(root, k, r) ==
  LET i    == PosOf(root, r)
      kids == SelectSeq(<<2 * i + 1, 2 * i + 2>>, LAMBDA c : c \in MCRank)
      down == [j \in 1..Len(kids) |->
                 [op |-> k, x |-> r, y |-> RankAt(root, kids[j])]]
      up   == IF i > 0
                THEN << [op |-> k, x |-> RankAt(root, (i - 1) \div 2), y |-> r] >>
                ELSE << >>
  IN  down \o up

ProgFrom(root) ==
  [r \in MCRank |->
        ReduceCalls(root, "strings", r) \o << [op |-> "bcastStrings"] >>
     \o ReduceCalls(root, "profile", r) \o << [op |-> "bcastProfile"] >>
     \o ReduceCalls(root, "metrics", r)]

MCProg0 == ProgFrom(0)
MCProg1 == ProgFrom(1)

=============================================================================

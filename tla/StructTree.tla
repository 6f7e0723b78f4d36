----------------------------- MODULE StructTree -----------------------------
(***************************************************************************)
(* The structure tree (Prof::Struct) as bloop.cpp manipulates it: an arena *)
(* of nodes, each of a fixed kind, linked to its parent.  The tree library *)
(* itself (Struct-Tree.cpp) is not part of this repository; the operators  *)
(* below follow spec.md sections 3 and 4.3 for it.  Every operator takes   *)
(* the parent function p explicitly so that the pass modules can apply     *)
(* them to the current and to the next state.                              *)
(***************************************************************************)
EXTENDS Naturals, FiniteSets, Sequences

CONSTANTS
  Node,     \* the node handles of the arena
  NoNode,   \* the null handle: parent of the root and of unlinked nodes
  Kind      \* Kind[n]: the variant of node n (fixed at creation)

Kinds == {"Pgm", "LM", "File", "Proc", "Alien", "Loop", "Stmt"}

ASSUME NoNode \notin Node
ASSUME Kind \in [Node -> Kinds]

Min2(a, b) == IF a < b THEN a ELSE b

NodesOfKind(k) == {n \in Node : Kind[n] = k}

(* Ancestors of n, following parent links (ANode::Parent). *)
RECURSIVE AncestorsOf(_, _)
AncestorsOf(p, n) ==
  IF p[n] = NoNode THEN {} ELSE {p[n]} \cup AncestorsOf(p, p[n])

ChildrenOf(p, n) == {c \in Node : p[c] = n}

(* Depth below the topmost ancestor. *)
DepthOf(p, n) == Cardinality(AncestorsOf(p, n))

(* ANode::LeastCommonAncestor: the deepest node that is an ancestor-or-self *)
(* of both a and b.                                                         *)
LeastCommonAncestor(p, a, b) ==
  LET common == (AncestorsOf(p, a) \cup {a}) \cap (AncestorsOf(p, b) \cup {b})
  IN  CHOOSE x \in common : common \subseteq AncestorsOf(p, x) \cup {x}

(* The proper ancestors of n strictly below top, listed top-down. *)
RECURSIVE PathBelow(_, _, _)
PathBelow(p, top, n) ==
  IF p[n] = top \/ p[n] = NoNode THEN << >>
  ELSE Append(PathBelow(p, top, p[n]), p[n])

(* ANode::AncCallingCtxt / the CDS scope: nearest Proc or Alien ancestor. *)
CallingCtxtOf(p, n) ==
  CHOOSE a \in AncestorsOf(p, n) :
    /\ Kind[a] \in {"Proc", "Alien"}
    /\ \A b \in AncestorsOf(p, n) :
         Kind[b] \in {"Proc", "Alien"} => b \in AncestorsOf(p, a) \cup {a}

(***************************************************************************)
(* ANode::Merge(to, from): move every child of 'from' under 'to', union    *)
(* the address sets, then unlink and delete 'from'.  Mergers is a function *)
(* from each merged-away node to the node it is merged into; a node merged *)
(* away loses its parent, its children follow it into its target.          *)
(***************************************************************************)
ParentAfterMerge(p, into) ==
  [x \in Node |-> IF x \in DOMAIN into THEN NoNode
                  ELSE IF p[x] \in DOMAIN into THEN into[p[x]]
                  ELSE p[x]]

VmaAfterMerge(v, into) ==
  [x \in Node |-> v[x] \cup UNION {v[y] : y \in {z \in DOMAIN into : into[z] = x}}]

(* ACodeNode::ExpandLineRange(b, e): line 0 means "no line information";  *)
(* a range without lines takes the new one, otherwise it grows to cover it. *)
ExpandLineRange(r, b, e) ==
  IF b = 0 THEN r
  ELSE IF r.beg = 0 THEN [beg |-> b, end |-> e]
  ELSE [beg |-> IF b < r.beg THEN b ELSE r.beg,
        end |-> IF e > r.end THEN e ELSE r.end]

(* Merge also expands the target's line range by each merged-away node's. *)
RECURSIVE ExpandAll(_, _)
ExpandAll(r, rs) ==
  IF rs = {} THEN r
  ELSE LET x == CHOOSE x \in rs : TRUE
       IN  ExpandAll(ExpandLineRange(r, x.beg, x.end), rs \ {x})

LinesAfterMerge(ln, into) ==
  [x \in Node |-> ExpandAll(ln[x], {ln[y] : y \in {z \in DOMAIN into : into[z] = x}})]

(***************************************************************************)
(* ANode::MergePaths(lca, dst, src) (spec.md 4.3b): walk the two node      *)
(* paths from just below lca towards dst and src, fusing the nodes of the  *)
(* src path into those of the dst path pairwise while they are of the same *)
(* kind.  Returns the merge function (empty when nothing is merged).       *)
(***************************************************************************)
MergePathsInto(p, lca, dst, src) ==
  LET D == PathBelow(p, lca, dst)
      S == PathBelow(p, lca, src)
      n == Min2(Len(D), Len(S))
      k == CHOOSE j \in 0..n :
             /\ \A i \in 1..j : Kind[D[i]] = Kind[S[i]]
             /\ (j < n => Kind[D[j+1]] # Kind[S[j+1]])
  IN  [x \in {S[i] : i \in 1..k} |-> D[CHOOSE i \in 1..k : S[i] = x]]

=============================================================================

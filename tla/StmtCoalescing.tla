--------------------------- MODULE StmtCoalescing ---------------------------
(***************************************************************************)
(* What CoalesceDuplicateStmts promises the rest of the normalizer, with   *)
(* no walk, map, restart or deferred deletion: one step at a time, a      *)
(* statement is removed because another live statement of the same sortId *)
(* (source line) in the same Proc or Alien scope survives it, and that     *)
(* survivor takes over its addresses.  Nothing else about the statements   *)
(* changes: no address moves between statements of different lines, and  *)
(* the line table, which is kept per Proc/Alien scope because all its      *)
(* lines are in one file, never links statements of two scopes.           *)
(***************************************************************************)
CONSTANTS
  Stmt,       \* the statements of the tree
  SortIds,    \* their sort keys (source lines)
  Scope       \* the Proc and Alien nodes a statement may belong to

VARIABLES
  live,       \* the statements not (yet) removed
  sortId,     \* sortId[s] of each statement
  ctxt,       \* ctxt[s]: the Proc or Alien scope of each live statement
  svma        \* svma[s]: the addresses each live statement holds

avars == <<live, sortId, ctxt, svma>>

Init ==
  /\ live = Stmt
  /\ sortId \in [Stmt -> SortIds]
  /\ ctxt \in [Stmt -> Scope]
  /\ svma = [s \in Stmt |-> {s}]

(* Case 1 of CDS_InspectStmt, as seen from outside: 'gone' is removed and  *)
(* 'keep' merges its addresses.                                            *)
Coalesce(keep, gone) ==
  /\ keep \in live /\ gone \in live /\ keep # gone
  /\ sortId[keep] = sortId[gone]
  /\ ctxt[keep] = ctxt[gone]
  /\ live' = live \ {gone}
  /\ ctxt' = [s \in live' |-> ctxt[s]]
  /\ svma' = [s \in live' |-> IF s = keep THEN svma[s] \cup svma[gone]
                                ELSE svma[s]]
  /\ UNCHANGED sortId

Next == \E keep, gone \in live : Coalesce(keep, gone)

Spec == Init /\ [][Next]_avars

=============================================================================

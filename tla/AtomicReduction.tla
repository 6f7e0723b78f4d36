-------------------------- MODULE AtomicReduction ---------------------------
(***************************************************************************)
(* What ParallelAnalysis' calls promise their caller, without messages or  *)
(* buffers: mergeNonLocal(x, y) merges rank y's object into rank x's in   *)
(* one step, with both ranks in that call; broadcast hands the root's     *)
(* object, as the root had it when it broadcast, to every other rank, and *)
(* the root finalizes the perf-event statistics of its profile.  Objects  *)
(* are abstracted as in ParallelAnalysis: per-rank contribution counts.   *)
(***************************************************************************)
EXTENDS Naturals, Sequences

CONSTANTS Rank, RootRank, Prog

VARIABLES
  profile, fin, strings, metrics,
  pc,         \* pc[r]: the index of the call rank r is in
  bval        \* bval[op]: the root's object as broadcast, or NoData

avars == <<profile, fin, strings, metrics, pc, bval>>

MergeOps == {"strings", "profile", "metrics"}
BcastOps == {"bcastStrings", "bcastProfile"}
NoData == [q \in Rank |-> 0]
Own(r) == [q \in Rank |-> IF q = r THEN 1 ELSE 0]
Plus(f, g) == [q \in Rank |-> f[q] + g[q]]
Union(f, g) == [q \in Rank |-> IF f[q] >= g[q] THEN f[q] ELSE g[q]]

Init ==
  /\ profile = [r \in Rank |-> Own(r)]
  /\ fin = [r \in Rank |-> FALSE]
  /\ strings = [r \in Rank |-> Own(r)]
  /\ metrics = [r \in Rank |-> Own(r)]
  /\ pc = [r \in Rank |-> 1]
  /\ bval = [o \in BcastOps |-> NoData]

Call(r) == Prog[r][pc[r]]
Running(r) == pc[r] <= Len(Prog[r])

(* mergeNonLocal(obj, x, y) on both ranks at once: x's object absorbs y's. *)
Merge(x, y) ==
  LET c == Call(x) IN
  /\ Running(x) /\ Running(y) /\ x # y
  /\ c.op \in MergeOps /\ c.x = x /\ c.y = y /\ Call(y) = c
  /\ CASE c.op = "strings" ->
            /\ strings' = [strings EXCEPT ![x] = Union(@, strings[y])]
            /\ UNCHANGED <<profile, metrics>>
       [] c.op = "profile" ->
            /\ profile' = [profile EXCEPT ![x] = Plus(@, profile[y])]
            /\ UNCHANGED <<strings, metrics>>
       [] c.op = "metrics" ->
            /\ metrics' = [metrics EXCEPT ![x] = Plus(@, metrics[y])]
            /\ UNCHANGED <<profile, strings>>
  /\ pc' = [pc EXCEPT ![x] = @ + 1, ![y] = @ + 1]
  /\ UNCHANGED <<fin, bval>>

(* broadcast on rank r: the root publishes its object and finalizes; any  *)
(* other rank, once the root has published, takes the root's profile or  *)
(* adds the root's strings to its own.                                   *)
Bcast(r) ==
  LET o == Call(r).op IN
  /\ Running(r) /\ o \in BcastOps
  /\ IF r = RootRank
       THEN /\ bval' = [bval EXCEPT ![o] = IF o = "bcastProfile" THEN profile[r]
                                          ELSE strings[r]]
            /\ fin' = IF o = "bcastProfile" THEN [fin EXCEPT ![r] = TRUE] ELSE fin
            /\ UNCHANGED <<profile, strings>>
       ELSE /\ bval[o] # NoData
            /\ IF o = "bcastProfile"
                 THEN /\ profile' = [profile EXCEPT ![r] = bval[o]]
                      /\ UNCHANGED strings
                 ELSE /\ strings' = [strings EXCEPT ![r] = Union(@, bval[o])]
                      /\ UNCHANGED profile
            /\ UNCHANGED <<fin, bval>>
  /\ pc' = [pc EXCEPT ![r] = @ + 1]
  /\ UNCHANGED metrics

Done == \A r \in Rank : ~Running(r)

Next ==
  \/ \E x, y \in Rank : Merge(x, y)
  \/ \E r \in Rank : Bcast(r)
  \/ Done /\ UNCHANGED avars

Spec == Init /\ [][Next]_avars

=============================================================================

----------------------------- MODULE MC_Skeleton -----------------------------
(***************************************************************************)
(* Load modules of three binutils procedures at entry addresses 10, 20 and *)
(* 30.  File names: Fc ("src/f.c"), Fd ("./src/f.c", which realpath turns  *)
(* into Fc) and Gc ("src/g.c"); the base names are "f.c" and "g.c", and    *)
(* pathfind may find either, both or neither.                              *)
(***************************************************************************)
EXTENDS Skeleton, TLC

CONSTANTS Fc, Fd, Gc

MCRealPath == (Fc :> Fc) @@ (Fd :> Fc) @@ (Gc :> Gc) @@ (NoFile :> NoFile)
MCBaseName == (Fc :> "f.c") @@ (Fd :> "f.c") @@ (Gc :> "g.c") @@ (Orphan :> "lm:<unknown-file>~~~")
MCFindable == {"f.c", "g.c"}

Proc(j, size, file, dbg, name, par, sym, bl, b1, e1) ==
  [vma |-> 10 * j, size |-> size, file |-> file, dbgFile |-> dbg,
   name |-> name, lname |-> "l" \o name, parent |-> par, sym |-> sym,
   begLine |-> bl, begLn1 |-> b1, endLn1 |-> e1]

(* binutils' nesting is a forest: parents are drawn among the other procs *)
(* without a cycle.                                                       *)
Parents == { f \in [1..3 -> 0..3] :
               /\ \A j \in 1..3 : f[j] # j
               /\ \A j \in 1..3 : f[j] # 0 => f[f[j]] # j
               /\ ~(f[1] # 0 /\ f[2] # 0 /\ f[3] # 0) }

(* Procedures with symbolic info and line information, in Fc or Gc. *)
Sound(j, par, name, file, ln) ==
  Proc(j, 4, file, NoFile, name, par, TRUE, ln[1], ln[1], ln[2])

SoundSeqs ==
  { <<Sound(1, pa[1], n[1], f[1], l[1]), Sound(2, pa[2], n[2], f[2], l[2]),
      Sound(3, pa[3], n[3], f[3], l[3])>> :
      pa \in Parents, n \in [1..3 -> {"a", "b"}], f \in [1..3 -> {Fc, Gc}],
      l \in [1..3 -> {<<10, 20>>, <<15, 30>>}] }

Key(s, j) == <<s[j].file, s[j].name>>

(* What the builder is written for: a procedure is not fused with the     *)
(* procedure it is nested in, and pieces fused into one Struct::Proc      *)
(* declare the same parent.                                               *)
NestInputs ==
  { s \in SoundSeqs :
      /\ \A j \in 1..3 : s[j].parent # 0 => Key(s, j) # Key(s, s[j].parent)
      /\ \A j, m \in 1..3 : Key(s, j) = Key(s, m) => s[j].parent = s[m].parent }

(* Line information with a begin line of 0 and an end line that is not. *)
LineInputs ==
  { <<Proc(1, 4, Fc, NoFile, "a", 0, sym, bl, b1, e1)>> :
      sym \in BOOLEAN, bl \in {0, 10}, b1 \in {0, 10}, e1 \in {0, 20} }

(* A procedure without a file name of its own, whose entry address's     *)
(* debug info names its file in another spelling.                        *)
DbgFileInputs ==
  { <<Proc(1, 4, f, d, "a", 0, TRUE, 10, 10, 20)>> :
      f \in {Fc, NoFile}, d \in {Fd, Fc, NoFile} }

=============================================================================

-------------------------- MODULE ParallelAnalysis --------------------------
(***************************************************************************)
(* hpcprof-mpi's ParallelAnalysis.cpp: the MPI layer that reduces the      *)
(* ranks' directory string sets, call-path profiles and packed metric     *)
(* tables pairwise up a tree (mergeNonLocal) and broadcasts the unified   *)
(* result from a root rank (broadcast).                                   *)
(*                                                                         *)
(* Data is abstracted to what the reductions tell apart: a profile and a  *)
(* metric table are functions from each rank to the number of times that  *)
(* rank's data has been merged into them (Profile::merge and the FnCombine *)
(* of computeMetricsIncr add values, so a duplicate merge counts twice);  *)
(* a string set maps each rank to 1 if it holds that rank's strings     *)
(* (operator += is a union: a pointwise maximum).  Packing into a byte buffer and unpacking carries this    *)
(* content unchanged; it is the message's kind that the receiver cannot   *)
(* check, and the model keeps it on every message.                        *)
(*                                                                         *)
(* Each rank runs the same sequence of calls, Prog[r] (the caller, the    *)
(* reduce template and hpcprof-mpi's main, is not in this repository and  *)
(* is a constant).  MPI point-to-point messages between a pair of ranks   *)
(* with one tag are non-overtaking: one FIFO per (sender, receiver).  An  *)
(* MPI_Send in standard mode may return once buffered (eager) or only     *)
(* once matched (rendezvous); the model lets every send take either.      *)
(***************************************************************************)
EXTENDS Naturals, FiniteSets, Sequences
LOCAL INSTANCE FiniteSetsExt

CONSTANTS
  Rank,       \* the ranks of MPI_COMM_WORLD, 0..maxRank of the program
  RootRank,   \* rootRank argument of both broadcasts
  Prog        \* Prog[r]: the calls rank r makes, in order

MergeOps == {"strings", "profile", "metrics"}
BcastOps == {"bcastStrings", "bcastProfile"}

ASSUME 0 \in Rank /\ RootRank \in Rank
ASSUME \A r \in Rank : \A i \in DOMAIN Prog[r] :
         \/ Prog[r][i].op \in BcastOps
         \/ Prog[r][i].op \in MergeOps /\ r \in {Prog[r][i].x, Prog[r][i].y}

NoData == [q \in Rank |-> 0]     \* a profile buffer nothing was written to
Own(r) == [q \in Rank |-> IF q = r THEN 1 ELSE 0]
Plus(f, g) == [q \in Rank |-> f[q] + g[q]]
Union(f, g) == [q \in Rank |-> IF f[q] >= g[q] THEN f[q] ELSE g[q]]

VARIABLES
  profile,    \* profile[r]: rank r's Prof::CallPath::Profile
  fin,        \* fin[r]: mergePerfEventStatistics_finalize ran on it
  strings,    \* strings[r]: rank r's StringSet
  metrics,    \* metrics[r]: the derived metrics of rank r's profile
  packed,     \* packed[r]: rank r's PackedMetrics buffer
  buf,        \* buf[r]: broadcast's byte buffer (NoData when just allocated)
  chan,       \* chan[<<s, d>>]: messages sent by s to d, not yet received
  pc,         \* pc[r]: [call |-> index into Prog[r], step |-> step in it]
  bsize,      \* bsize[op]: the root has entered broadcast_sizet for op
  bdata       \* bdata[op]: what the root passed to MPI_Bcast for op, or NoData

vars == <<profile, fin, strings, metrics, packed, buf, chan, pc, bsize, bdata>>

Msg == [kind : MergeOps, tag : Rank, data : [Rank -> Nat]]

Init ==
  /\ profile = [r \in Rank |-> Own(r)]
  /\ fin = [r \in Rank |-> FALSE]
  /\ strings = [r \in Rank |-> Own(r)]
  /\ metrics = [r \in Rank |-> Own(r)]
  /\ packed = [r \in Rank |-> NoData]
  /\ buf = [r \in Rank |-> NoData]
  /\ chan = [e \in Rank \X Rank |-> << >>]
  /\ pc = [r \in Rank |-> [call |-> 1, step |-> "enter"]]
  /\ bsize = [o \in BcastOps |-> FALSE]
  /\ bdata = [o \in BcastOps |-> NoData]

Call(r) == Prog[r][pc[r].call]
Running(r) == pc[r].call <= Len(Prog[r])
At(r, step) == Running(r) /\ pc[r].step = step
NextCall(r) == pc' = [pc EXCEPT ![r] = [call |-> @.call + 1, step |-> "enter"]]
Goto(r, step) == pc' = [pc EXCEPT ![r].step = step]

(* MPI_Send of rank_y's PackedMetrics before packMetrics has filled it. *)
Pack_sendBeforePack(r, kind) ==
  CASE kind = "strings" -> strings[r]
    [] kind = "profile" -> profile[r]
    [] kind = "metrics" -> packed[r]

(* What rank r packs for a reduction of the given kind. *)
Pack(r, kind) ==
  CASE kind = "strings" -> strings[r]
    [] kind = "profile" -> profile[r]
    [] kind = "metrics" -> metrics[r]

------------------------------------------------------------------------------
(* mergeNonLocal, rank_y's side: pack the object and MPI_Send it to rank_x *)
(* with tag rank_y, then free the buffer.                                 *)
SendMerge(r, kind) ==
  LET c == Call(r) IN
  /\ At(r, "enter")
  /\ c.op = kind /\ r = c.y
  /\ chan' = [chan EXCEPT ![<<r, c.x>>] =
                Append(@, [kind |-> kind, tag |-> c.y, data |-> Pack(r, kind)])]
  /\ \/ NextCall(r)               \* eager: MPI_Send returns once buffered
     \/ Goto(r, "sending")        \* rendezvous: returns once matched
  /\ UNCHANGED <<profile, fin, strings, metrics, buf, bsize, bdata>>

SendProfile(r) == SendMerge(r, "profile") /\ UNCHANGED packed

SendStrings(r) == SendMerge(r, "strings") /\ UNCHANGED packed

(* packMetrics writes the derived metrics into rank_y's PackedMetrics,    *)
(* whose data is what is sent.                                            *)
SendMetrics(r) ==
  /\ SendMerge(r, "metrics")
  /\ packed' = [packed EXCEPT ![r] = metrics[r]]

SendMatched(r) ==
  /\ At(r, "sending")
  /\ chan[<<r, Call(r).x>>] = << >>
  /\ NextCall(r)
  /\ UNCHANGED <<profile, fin, strings, metrics, packed, buf, chan, bsize, bdata>>

(* The receiving side merges what it unpacked into its own object:        *)
(* StringSet::operator+=, Profile::merge with mergePerfEventStatistics,   *)
(* and unpackMetrics, which writes the temporary metrics and then         *)
(* combines them into the derived ones (FnCombine).                       *)
MergeInto_stringsAppend(mine, kind, data) == Plus(mine, data)

MergeInto_noCombine(mine, kind, data) ==
  CASE kind = "strings" -> Union(mine, data)
    [] kind = "profile" -> Plus(mine, data)
    [] kind = "metrics" -> data

MergeInto(mine, kind, data) ==
  IF kind = "strings" THEN Union(mine, data) ELSE Plus(mine, data)

(* rank_x probes the message and merges it but never MPI_Recvs it. *)
RecvMerge_probeOnly(r, kind) ==
  LET c == Call(r) IN
  /\ At(r, "enter")
  /\ c.op = kind /\ r = c.x
  /\ chan[<<c.y, r>>] # << >>
  /\ Head(chan[<<c.y, r>>]).tag = c.y
  /\ UNCHANGED chan
  /\ NextCall(r)
  /\ UNCHANGED <<fin, buf, bsize, bdata>>

(* rank_x probes for tag rank_x instead of the sender's rank. *)
RecvMerge_tagReceiver(r, kind) ==
  LET c == Call(r) IN
  /\ At(r, "enter")
  /\ c.op = kind /\ r = c.x
  /\ chan[<<c.y, r>>] # << >>
  /\ Head(chan[<<c.y, r>>]).tag = c.x
  /\ chan' = [chan EXCEPT ![<<c.y, r>>] = Tail(@)]
  /\ NextCall(r)
  /\ UNCHANGED <<fin, buf, bsize, bdata>>

(* mergeNonLocal, rank_x's side: wait for the first message from rank_y   *)
(* with tag rank_y and take it off the channel.  The receiver matches on  *)
(* sender and tag only, never on what the message holds.                  *)
RecvMerge(r, kind) ==
  LET c == Call(r) IN
  /\ At(r, "enter")
  /\ c.op = kind /\ r = c.x
  /\ chan[<<c.y, r>>] # << >>
  /\ Head(chan[<<c.y, r>>]).tag = c.y
  /\ chan' = [chan EXCEPT ![<<c.y, r>>] = Tail(@)]
  /\ NextCall(r)
  /\ UNCHANGED <<fin, buf, bsize, bdata>>

Received(r) == Head(chan[<<Call(r).y, r>>]).data

(* Profile: MPI_Probe, MPI_Get_count, MPI_Recv of that many bytes,        *)
(* unpackProfile, merge by metric name, merge the perf-event statistics,  *)
(* delete.  Probe and receive match the same message: no other receive of *)
(* rank_x runs in between, so they are one step.                          *)
RecvProfile(r) ==
  /\ RecvMerge(r, "profile")
  /\ profile' = [profile EXCEPT ![r] = MergeInto(@, "profile", Received(r))]
  /\ UNCHANGED <<strings, metrics, packed>>

(* Metrics: MPI_Recv straight into rank_x's PackedMetrics, verify,        *)
(* unpackMetrics into the derived metrics.                                *)
RecvMetrics(r) ==
  /\ RecvMerge(r, "metrics")
  /\ packed' = [packed EXCEPT ![r] = Received(r)]
  /\ metrics' = [metrics EXCEPT ![r] = MergeInto(@, "metrics", Received(r))]
  /\ UNCHANGED <<profile, strings>>

(* String set: probe, receive, unpackStringSet, operator +=, delete. *)
RecvStrings(r) ==
  /\ RecvMerge(r, "strings")
  /\ strings' = [strings EXCEPT ![r] = MergeInto(@, "strings", Received(r))]
  /\ UNCHANGED <<profile, metrics, packed>>

------------------------------------------------------------------------------
(* broadcast, first half: the root packs its object into buf              *)
(* (open_memstream), every rank takes part in broadcast_sizet's MPI_Bcast *)
(* of the size, and every other rank allocates buf = new uint8_t[size].   *)
(* A non-root rank returns from the MPI_Bcast only once the root has      *)
(* entered it; the root may return at once.                               *)
BcastSize(r) ==
  LET o == Call(r).op IN
  /\ At(r, "enter")
  /\ o \in BcastOps
  /\ IF r = RootRank
       THEN /\ buf' = [buf EXCEPT ![r] = IF o = "bcastProfile" THEN profile[r]
                                          ELSE strings[r]]
            /\ bsize' = [bsize EXCEPT ![o] = TRUE]
       ELSE /\ bsize[o]
            /\ buf' = [buf EXCEPT ![r] = NoData]
            /\ UNCHANGED bsize
  /\ Goto(r, "data")
  /\ UNCHANGED <<profile, fin, strings, metrics, packed, chan, bdata>>

(* What broadcast does with buf once the data MPI_Bcast has filled it:    *)
(* every rank but rank 0 (the code tests myRank != 0, not rootRank)       *)
(* replaces its profile by unpackProfile(buf), or unions                  *)
(* unpackStringSet(buf) into its string set; the root then finalizes the  *)
(* perf-event statistics of its profile.                                  *)
Unpack(r, o, data) ==
  /\ IF r # 0
       THEN IF o = "bcastProfile"
              THEN /\ profile' = [profile EXCEPT ![r] = data]
                   /\ UNCHANGED strings
              ELSE /\ strings' = [strings EXCEPT ![r] = MergeInto(@, "strings", data)]
                   /\ UNCHANGED profile
       ELSE UNCHANGED <<profile, strings>>
  /\ fin' = IF o = "bcastProfile" /\ r = RootRank THEN [fin EXCEPT ![r] = TRUE]
            ELSE fin

(* A non-root rank that unpacks before its MPI_Bcast has filled buf. *)
BcastData_unpackEarly(r) ==
  LET o == Call(r).op IN
  /\ At(r, "data")
  /\ IF r = RootRank
       THEN /\ bdata' = [bdata EXCEPT ![o] = buf[r]]
            /\ Unpack(r, o, buf[r])
       ELSE /\ Unpack(r, o, buf[r])
            /\ UNCHANGED bdata
  /\ buf' = [buf EXCEPT ![r] = NoData]
  /\ NextCall(r)
  /\ UNCHANGED <<metrics, packed, chan, bsize>>

(* broadcast, second half: the MPI_Bcast of the bytes (the root's buf is  *)
(* copied into everyone's), the unpack, delete [] buf, and the root's     *)
(* finalize.                                                              *)
BcastData(r) ==
  LET o == Call(r).op IN
  /\ At(r, "data")
  /\ IF r = RootRank
       THEN /\ bdata' = [bdata EXCEPT ![o] = buf[r]]
            /\ Unpack(r, o, buf[r])
       ELSE /\ bdata[o] # NoData        \* the root's object holds its own data
            /\ Unpack(r, o, bdata[o])
            /\ UNCHANGED bdata
  /\ buf' = [buf EXCEPT ![r] = NoData]
  /\ NextCall(r)
  /\ UNCHANGED <<metrics, packed, chan, bsize>>

------------------------------------------------------------------------------
Done == \A r \in Rank : ~Running(r)

Terminated == Done /\ UNCHANGED vars

Step(r) ==
  \/ SendProfile(r) \/ SendStrings(r) \/ SendMetrics(r) \/ SendMatched(r)
  \/ RecvProfile(r) \/ RecvStrings(r) \/ RecvMetrics(r)
  \/ BcastSize(r) \/ BcastData(r)

Next ==
  \/ \E r \in Rank : Step(r)
  \/ Terminated

(* Every rank is its own MPI process and keeps running while it can. *)
Spec == Init /\ [][Next]_vars /\ \A r \in Rank : WF_vars(Step(r))

------------------------------------------------------------------------------
TypeOK ==
  /\ profile \in [Rank -> [Rank -> Nat]]
  /\ metrics \in [Rank -> [Rank -> Nat]]
  /\ packed \in [Rank -> [Rank -> Nat]]
  /\ buf \in [Rank -> [Rank -> Nat]]
  /\ strings \in [Rank -> [Rank -> {0, 1}]]
  /\ fin \in [Rank -> BOOLEAN]
  /\ \A e \in Rank \X Rank : \A i \in DOMAIN chan[e] : chan[e][i] \in Msg
  /\ pc \in [Rank -> [call : Nat, step : {"enter", "sending", "data"}]]

Ones == [q \in Rank |-> 1]

(* Once every rank has returned from its last call, the rank the caller's *)
(* tree reduces to (RootRank) holds every rank's string set, and every    *)
(* rank's profile and metrics merged exactly once: no contribution of a   *)
(* subtree is lost or counted twice by the pairwise mergeNonLocal calls,  *)
(* in whatever order the ranks ran and whichever sends were eager.        *)
ReductionComplete ==
  Done => /\ strings[RootRank] = Ones
          /\ profile[RootRank] = Ones
          /\ metrics[RootRank] = Ones

(* broadcast leaves every rank with the root's profile, and with the      *)
(* root's strings in its string set.                                      *)
BroadcastAgrees ==
  Done => \A r \in Rank : /\ profile[r] = profile[RootRank]
                          /\ \A q \in Rank : strings[RootRank][q] <= strings[r][q]

(* mergeNonLocal's rank_x matches the incoming message by (sender, tag = *)
(* sender) alone, and every kind of object a rank sends uses that same   *)
(* tag.  Whenever rank_x is in a mergeNonLocal receiving from rank_y and *)
(* something from rank_y is waiting, the first such message holds the    *)
(* kind of object this call expects: a string set is never unpacked as a *)
(* profile, nor a profile as a metric table, however far rank_y has run  *)
(* ahead through eager sends.                                            *)
ReceiveMatchesKind ==
  \A r \in Rank :
    LET c == Call(r) IN
    (At(r, "enter") /\ c.op \in MergeOps /\ r = c.x /\ chan[<<c.y, r>>] # << >>)
      => Head(chan[<<c.y, r>>]).kind = c.op

(* No wait cycle among the ranks: until every rank has returned from its *)
(* last call, some rank can take a step.  A rank blocked in a rendezvous *)
(* MPI_Send, in MPI_Probe/MPI_Recv or in a broadcast's MPI_Bcast always  *)
(* waits on a rank that is not, transitively, waiting on it.             *)
NoWaitCycle == ~Done => \E r \in Rank : ENABLED Step(r)

(* The calls implement AtomicReduction: mapped to atomic merges and       *)
(* broadcasts, every step of the ranks is a step of the abstract spec or  *)
(* leaves it unchanged.  A rank_y whose send is still in flight is mapped *)
(* to be still in its mergeNonLocal call (a rendezvous send that was      *)
(* matched, to be past it); so rank_x's receive is the abstract merge,    *)
(* and it must merge what rank_y holds at that moment, not just what it   *)
(* packed when it sent.                                                    *)
InFlight(r) == MapThenSumSet(LAMBDA d : Len(chan[<<r, d>>]), Rank)

AbstractPc(r) ==
  pc[r].call - InFlight(r) + (IF pc[r].step = "sending" THEN 1 ELSE 0)

Atomic == INSTANCE AtomicReduction
            WITH pc <- [r \in Rank |-> AbstractPc(r)], bval <- bdata

ImplementsAtomicReduction == Atomic!Spec

=============================================================================
